----------------------------- MODULE HttpClient -----------------------------
(***************************************************************************)
(* Requests to CoinGecko.  Every client runs TryWithKeys: it lists the API *)
(* keys that are not in backoff, tries them in order, each with up to      *)
(* MaxRetries attempts of ExecuteRequest, and puts a key that failed in    *)
(* backoff.  Every attempt first waits for the rate limiter of its key,    *)
(* which RateLimiterManager creates on first use.  The calls of a client   *)
(* run concurrently (one per tier, chunk or page) and share its            *)
(* APIKeyManager; the limiters are shared by the process.                  *)
(*                                                                         *)
(* Time advances by ticks, the unit in which a limiter regains a token.    *)
(* Retries sleep for some time (calculateBackoffWithJitter), an answer or  *)
(* the timeout of the http client comes after some time.                   *)
(***************************************************************************)
EXTENDS Integers, Sequences, SequencesExt

CONSTANTS Calls,       \* the concurrent calls of one client
          Keys,        \* the API keys of the tokens file
          NoKey,       \* the empty key of the free API
          None,        \* no limiter
          Setups,      \* tokens files with the configured rate limits
          Backoff,     \* backoffTime of a failed key, in ticks
          MaxRetries   \* attempts with one key

KeyTypes == {"pro", "demo", "none"}

ASSUME NamesAssumption == NoKey \notin Keys /\ None \notin Calls
ASSUME SetupsAssumption ==
    Setups \subseteq [pro : Seq(Keys), demo : Seq(Keys),
                      limits : [KeyTypes -> [rpm : Int, burst : Int]],
                      knownHost : BOOLEAN]
ASSUME BoundsAssumption ==
    Backoff \in Nat \ {0} /\ MaxRetries \in Nat \ {0}

VARIABLES
    client,     \* the client whose calls these are
    setup,      \* the tokens file it was started with, and whether the
                \* requests without a key go to CoinGecko's own host
    rest,       \* lastFailed: ticks of backoff that a key has left
    limiterOf,  \* keyToLimiter: by whom the limiter of a key was created
    tokens,     \* tokens of the limiter <<key, creator>>
    pc,         \* where a call is
    next,       \* the configured key that GetAvailableKeys looks at next
    keys,       \* availableKeys not done with, the first one in use
    attempt,    \* attempt of ExecuteRequest with that key
    lim,        \* the limiter a call waits for
    age,        \* for the specification: ticks since the call began, at most Backoff
    since,      \* for the specification: ticks since a call last failed with a key,
                \* at most Backoff, kept when the call returns
    used        \* for the specification: requests sent with a key since the last tick

vars == <<client, setup, rest, limiterOf, tokens, pc, next, keys,
          attempt, lim, age, since, used>>

(***************************************************************************)
(* The clients differ in whether they have keys, in where they parse the   *)
(* body, and in whether they try the free API first.  A body that does not *)
(* parse is a failure of the key if the executor parses it, and one of the *)
(* call if that is done after TryWithKeys.                                 *)
(***************************************************************************)
Client(parse) == [keyed |-> TRUE, parse |-> parse, freeFirst |-> FALSE]

FetchPrices == Client("after")
FetchPage == Client("after")
FetchTokenList == Client("after")
FetchSingle == Client("after")
FetchBatch == Client("executor")
FetchAssetsPlatforms == Client("executor")
FetchTokens == [Client("after") EXCEPT !.keyed = FALSE]

(* With TryFreeApiFirst a chart without an interval asks the free API first *)
FetchMarketChart(tryFreeFirst, interval) ==
    [Client("after") EXCEPT !.freeFirst = tryFreeFirst /\ interval = ""]

Clients == {FetchPrices, FetchPage, FetchTokenList, FetchSingle, FetchBatch,
            FetchAssetsPlatforms, FetchTokens}
           \cup {FetchMarketChart(b, i) : b \in BOOLEAN, i \in {"", "hourly"}}

AllKeys == Keys \cup {NoKey}
Configured == IF client.keyed THEN setup.pro \o setup.demo ELSE <<>>
Current(c) == Head(keys[c])

KeyType(k) == IF k = NoKey THEN "none" ELSE
              IF \E i \in DOMAIN setup.pro : setup.pro[i] = k THEN "pro" ELSE "demo"

(* Requests per minute of a key: as configured, or the default of its type *)
limitForType(t) ==
    IF setup.limits[t].rpm > 0 THEN setup.limits[t].rpm ELSE IF t = "pro" THEN 500 ELSE 30

(* Its burst: as configured, or what the limit allows in a second, rounded up *)
burstForType(t) ==
    IF setup.limits[t].burst > 0 THEN setup.limits[t].burst
    ELSE IF limitForType(t) <= 60 THEN 1 ELSE (limitForType(t) + 59) \div 60

Burst(k) == burstForType(KeyType(k))

TypeOK ==
    /\ client \in Clients
    /\ setup \in Setups
    /\ rest \in [Keys -> 0..Backoff]
    /\ limiterOf \in [AllKeys -> Calls \cup {None}]
    /\ tokens \in [AllKeys -> [Calls -> Nat]]
    /\ pc \in [Calls -> {"idle", "list", "find", "create", "wait", "sent", "failed"}]
    /\ next \in [Calls -> Nat \ {0}]
    /\ keys \in [Calls -> Seq(AllKeys)]
    /\ attempt \in [Calls -> 1..MaxRetries]
    /\ lim \in [Calls -> Calls \cup {None}]
    /\ age \in [Calls -> 0..Backoff]
    /\ since \in [Calls -> [Keys -> 0..Backoff]]
    /\ used \in [AllKeys -> Nat]

Init ==
    /\ client \in Clients
    /\ setup \in Setups
    /\ rest = [k \in Keys |-> 0]
    /\ limiterOf = [k \in AllKeys |-> None]
    /\ tokens = [k \in AllKeys |-> [c \in Calls |-> 0]]
    /\ pc = [c \in Calls |-> "idle"]
    /\ next = [c \in Calls |-> 1]
    /\ keys = [c \in Calls |-> <<>>]
    /\ attempt = [c \in Calls |-> 1]
    /\ lim = [c \in Calls |-> None]
    /\ age = [c \in Calls |-> Backoff]
    /\ since = [c \in Calls |-> [k \in Keys |-> Backoff]]
    /\ used = [k \in AllKeys |-> 0]

-----------------------------------------------------------------------------
Begin(c) ==
    /\ pc[c] = "idle"
    /\ pc' = [pc EXCEPT ![c] = "list"]
    /\ age' = [age EXCEPT ![c] = 0]
    /\ UNCHANGED <<client, setup, rest, limiterOf, tokens, next, keys, attempt, lim, since, used>>

(* Mutant: the last tick of the backoff is not waited for *)
isKeyInBackoffShort(k) == rest[k] > 1

isKeyInBackoff(k) == rest[k] > 0

(* A sole Pro key is listed even if it is in backoff *)
SolePro(i) == Len(setup.pro) = 1 /\ i = 1

(* GetAvailableKeys looks at one key after the other, taking the lock for each *)
ListKey(c) ==
    /\ pc[c] = "list"
    /\ next[c] <= Len(Configured)
    /\ LET k == Configured[next[c]] IN
       keys' = [keys EXCEPT ![c] =
                  IF SolePro(next[c]) \/ ~isKeyInBackoff(k) THEN Append(@, k) ELSE @]
    /\ next' = [next EXCEPT ![c] = @ + 1]
    /\ UNCHANGED <<client, setup, rest, limiterOf, tokens, pc, attempt, lim, age, since, used>>

prependFreeKey(ks) == <<NoKey>> \o ks

ListFreeKey(c) ==
    /\ pc[c] = "list"
    /\ next[c] > Len(Configured)
    /\ keys' = [keys EXCEPT ![c] =
                  IF client.freeFirst THEN prependFreeKey(@) ELSE Append(@, NoKey)]
    /\ pc' = [pc EXCEPT ![c] = "find"]
    /\ next' = [next EXCEPT ![c] = 1]
    /\ UNCHANGED <<client, setup, rest, limiterOf, tokens, attempt, lim, age, since, used>>

(* Requests without a key to a host that is not CoinGecko's are not limited *)
Limited(k) == k # NoKey \/ setup.knownHost

Send(c) ==
    /\ pc' = [pc EXCEPT ![c] = "sent"]
    /\ used' = [used EXCEPT ![Current(c)] = IF Limited(Current(c)) THEN @ + 1 ELSE @]

(* An unlimited request is sent at once *)
SendUnlimited(c) ==
    /\ pc[c] = "find"
    /\ ~Limited(Current(c))
    /\ Send(c)
    /\ UNCHANGED <<client, setup, rest, limiterOf, tokens, next, keys, attempt, lim, age, since>>

(* getLimiterForKey under the read lock *)
FindLimiter(c) ==
    /\ pc[c] = "find"
    /\ Limited(Current(c))
    /\ LET l == limiterOf[Current(c)] IN
       /\ pc' = [pc EXCEPT ![c] = IF l = None THEN "create" ELSE "wait"]
       /\ lim' = [lim EXCEPT ![c] = l]
    /\ UNCHANGED <<client, setup, rest, limiterOf, tokens, next, keys, attempt, age, since, used>>

(* Mutant: the map is not looked up again under the write lock *)
CreateLimiterAnyway(c) ==
    /\ pc[c] = "create"
    /\ limiterOf' = [limiterOf EXCEPT ![Current(c)] = c]
    /\ tokens' = [tokens EXCEPT ![Current(c)][c] = Burst(Current(c))]
    /\ lim' = [lim EXCEPT ![c] = c]
    /\ pc' = [pc EXCEPT ![c] = "wait"]
    /\ UNCHANGED <<client, setup, rest, next, keys, attempt, age, since, used>>

(* getLimiterForKey under the write lock: another call may have been first *)
CreateLimiter(c) ==
    /\ pc[c] = "create"
    /\ LET k == Current(c)
           new == limiterOf[k] = None
       IN /\ limiterOf' = [limiterOf EXCEPT ![k] = IF new THEN c ELSE @]
          /\ tokens' = [tokens EXCEPT ![k][c] = IF new THEN Burst(k) ELSE @]
          /\ lim' = [lim EXCEPT ![c] = limiterOf'[k]]
    /\ pc' = [pc EXCEPT ![c] = "wait"]
    /\ UNCHANGED <<client, setup, rest, next, keys, attempt, age, since, used>>

(* limiter.Wait returns, the request goes out *)
Admit(c) ==
    /\ pc[c] = "wait"
    /\ tokens[Current(c)][lim[c]] > 0
    /\ tokens' = [tokens EXCEPT ![Current(c)][lim[c]] = @ - 1]
    /\ Send(c)
    /\ lim' = [lim EXCEPT ![c] = None]
    /\ UNCHANGED <<client, setup, rest, limiterOf, next, keys, attempt, age, since>>

(* Mutant: the time of the first failure is kept *)
MarkKeyAsFailedFirst(k) ==
    rest' = IF k = NoKey \/ rest[k] > 0 THEN rest ELSE [rest EXCEPT ![k] = Backoff]

(* MarkKeyAsFailed does nothing for the empty key *)
MarkKeyAsFailed(k) ==
    rest' = IF k = NoKey THEN rest ELSE [rest EXCEPT ![k] = Backoff]

NoteFailure(c, k) == since' = [since EXCEPT ![c] = [j \in Keys |-> IF j = k THEN 0 ELSE @[j]]]

(* Mutant: the same key is tried again *)
KeyFailsForEver(c) ==
    /\ MarkKeyAsFailed(Current(c))
    /\ NoteFailure(c, Current(c))
    /\ attempt' = [attempt EXCEPT ![c] = 1]
    /\ pc' = [pc EXCEPT ![c] = "find"]
    /\ UNCHANGED <<client, setup, keys, limiterOf, tokens, next, lim, age, used>>

(* The executor returned an error: mark the key, go on with the next one.  *)
(* After the last one the call fails.                                      *)
KeyFails(c) ==
    /\ MarkKeyAsFailed(Current(c))
    /\ NoteFailure(c, Current(c))
    /\ keys' = [keys EXCEPT ![c] = Tail(@)]
    /\ attempt' = [attempt EXCEPT ![c] = 1]
    /\ pc' = [pc EXCEPT ![c] = IF Len(keys[c]) = 1 THEN "failed" ELSE "find"]
    /\ UNCHANGED <<client, setup, limiterOf, tokens, next, lim, age, used>>

(* No answer, or a status that isRetryableError accepts: after a sleep the *)
(* limiter is looked up again, for the next attempt                        *)
Retryable(c) ==
    /\ pc[c] = "sent"
    /\ attempt[c] < MaxRetries
    /\ attempt' = [attempt EXCEPT ![c] = @ + 1]
    /\ pc' = [pc EXCEPT ![c] = "find"]
    /\ UNCHANGED <<client, setup, rest, limiterOf, tokens, next, keys, lim, age, since, used>>

RetriesExhausted(c) ==
    /\ pc[c] = "sent"
    /\ attempt[c] = MaxRetries
    /\ KeyFails(c)

(* Another status, or a body that cannot be read: no retry with this key *)
Rejected(c) ==
    /\ pc[c] = "sent"
    /\ KeyFails(c)

Return(c) ==
    /\ pc' = [pc EXCEPT ![c] = "idle"]
    /\ keys' = [keys EXCEPT ![c] = <<>>]
    /\ attempt' = [attempt EXCEPT ![c] = 1]
    /\ age' = [age EXCEPT ![c] = Backoff]
    /\ UNCHANGED <<client, setup, rest, limiterOf, tokens, next, lim, since, used>>

(* The call returns with the body, or because the body does not parse *)
Served(c) ==
    /\ pc[c] = "sent"
    /\ Return(c)

(* The executor does not accept a body that does not parse *)
Unparsable(c) ==
    /\ pc[c] = "sent"
    /\ client.parse = "executor"
    /\ KeyFails(c)

(* All keys failed *)
Failed(c) ==
    /\ pc[c] = "failed"
    /\ Return(c)

Tick ==
    /\ rest' = [k \in Keys |-> IF rest[k] > 0 THEN rest[k] - 1 ELSE 0]
    /\ tokens' = [k \in AllKeys |-> [c \in Calls |->
                    IF limiterOf[k] = c /\ tokens[k][c] < Burst(k)
                    THEN tokens[k][c] + 1 ELSE tokens[k][c]]]
    /\ age' = [c \in Calls |-> IF age[c] < Backoff THEN age[c] + 1 ELSE age[c]]
    /\ since' = [c \in Calls |-> [k \in Keys |->
                    IF since[c][k] < Backoff THEN since[c][k] + 1 ELSE since[c][k]]]
    /\ used' = [k \in AllKeys |-> 0]
    /\ UNCHANGED <<client, setup, limiterOf, pc, next, keys, attempt, lim>>

Answer(c) == Retryable(c) \/ RetriesExhausted(c) \/ Rejected(c) \/ Served(c) \/ Unparsable(c)

Step(c) ==
    \/ ListKey(c) \/ ListFreeKey(c)
    \/ FindLimiter(c) \/ CreateLimiter(c) \/ SendUnlimited(c) \/ Admit(c)
    \/ Answer(c) \/ Failed(c)

Next ==
    \/ Tick
    \/ \E c \in Calls : Begin(c) \/ Step(c)

(***************************************************************************)
(* Goroutines run, the http client times out, clocks advance.  Wait grants *)
(* reservations in the order they are asked for, so that others cannot     *)
(* take every token before a call that waits: strong fairness, which       *)
(* matters for Admit only, the other steps stay enabled until taken.       *)
(***************************************************************************)
Spec ==
    /\ Init /\ [][Next]_vars
    /\ WF_vars(Tick)
    /\ \A c \in Calls : SF_vars(Step(c))

-----------------------------------------------------------------------------
(***************************************************************************)
(* The limiter bounds what is sent with a key, also when several calls use *)
(* the key for the first time at once and each tries to create it.         *)
(***************************************************************************)
RateLimitHolds == \A k \in AllKeys : used[k] <= Burst(k)

InUse(c) == pc[c] \in {"find", "create", "wait", "sent"}

(***************************************************************************)
(* The list of keys is read before the attempts and used, possibly much    *)
(* later, after others have marked keys.  Still a call only uses a resting *)
(* key that failed after the call began: a key is left alone by all calls  *)
(* that begin during its backoff.                                          *)
(***************************************************************************)
RestingKeysAreLeftAlone ==
    \A c \in Calls, k \in Keys :
        /\ InUse(c) /\ Current(c) = k /\ rest[k] > 0
        /\ ~(Len(setup.pro) = 1 /\ k = setup.pro[1])
        => age[c] >= Backoff - rest[k]

(***************************************************************************)
(* GetAvailableKeys sees a key in backoff until the whole backoff has      *)
(* passed since each failure with it, the last one included: a call that   *)
(* had listed the key before another marked it and fails later begins the  *)
(* backoff anew.  The sole Pro key is left out, its backoff is not read.   *)
(***************************************************************************)
FailedKeysRest ==
    \A c \in Calls, k \in Keys :
        since[c][k] < Backoff /\ ~(Len(setup.pro) = 1 /\ k = setup.pro[1])
        => isKeyInBackoff(k)

(* Every call ends, whatever the API answers and however many keys there are *)
CallsEnd == \A c \in Calls : pc[c] # "idle" ~> pc[c] = "idle"

=============================================================================
