-------------------------- MODULE HttpClientProofs --------------------------
(***************************************************************************)
(* Proofs about HttpClient, for any number of calls, keys and retries, any *)
(* tokens file and any limits: the types, the rate limit, and what the     *)
(* backoff of keys promises.                                               *)
(***************************************************************************)
EXTENDS HttpClient, SequenceTheorems, TLAPS

(***************************************************************************)
(* The keys of a call by where it is: it holds some while it uses one, and *)
(* none before it lists them and after the last one failed.                *)
(***************************************************************************)
Shape ==
    \A c \in Calls :
        /\ InUse(c) => keys[c] # <<>>
        /\ pc[c] \in {"idle", "failed"} => keys[c] = <<>>

ListedKey(c, k) == \E i \in 1..Len(keys[c]) : keys[c][i] = k

LEMMA KeySets == NoKey \in AllKeys /\ Keys \subseteq AllKeys
  BY DEF AllKeys

LEMMA BurstNat ==
  ASSUME setup \in Setups, NEW k
  PROVE  Burst(k) \in Nat
<1>1. KeyType(k) \in KeyTypes
  BY DEF KeyType, KeyTypes
<1> DEFINE t == KeyType(k)
<1>2. setup.limits[t].rpm \in Int /\ setup.limits[t].burst \in Int
  BY <1>1, SetupsAssumption
<1> HIDE DEF t
<1>3. limitForType(t) \in Nat
  BY <1>2 DEF limitForType
<1>4. burstForType(t) \in Nat
  BY <1>2, <1>3 DEF burstForType
<1> QED  BY <1>4 DEF Burst, t

LEMMA ConfiguredType ==
  ASSUME setup \in Setups
  PROVE  Configured \in Seq(Keys)
<1>1. setup.pro \in Seq(Keys) /\ setup.demo \in Seq(Keys)
  BY SetupsAssumption
<1>2. setup.pro \o setup.demo \in Seq(Keys)
  BY <1>1, ConcatProperties
<1>3. <<>> \in Seq(Keys)
  BY EmptySeq
<1> QED  BY <1>2, <1>3 DEF Configured

LEMMA FirstOfConcat ==
  ASSUME NEW S, NEW s \in Seq(S), NEW t \in Seq(S), Len(s) \in Nat \ {0}
  PROVE  (s \o t)[1] = s[1]
<1>1. Len(s) \in Nat /\ Len(t) \in Nat
  BY LenProperties
<1>2. \A i \in 1..(Len(s) + Len(t)) :
          (s \o t)[i] = IF i <= Len(s) THEN s[i] ELSE t[i - Len(s)]
  BY ConcatProperties
<1>3. 1 \in 1..(Len(s) + Len(t)) /\ 1 <= Len(s)
  BY <1>1
<1> QED  BY <1>2, <1>3

\* The one Pro key is the first one configured.
LEMMA SoleProIsFirst ==
  ASSUME setup \in Setups, NEW i \in 1..Len(Configured), SolePro(i)
  PROVE  Len(setup.pro) = 1 /\ Configured[i] = setup.pro[1]
<1>1. setup.pro \in Seq(Keys) /\ setup.demo \in Seq(Keys)
  BY SetupsAssumption
<1>2. Len(setup.pro) = 1 /\ i = 1
  BY DEF SolePro
<1> DEFINE p == setup.pro
<1> DEFINE d == setup.demo
<1>3. Len(p) = 1 /\ p \in Seq(Keys) /\ d \in Seq(Keys)
  BY <1>1, <1>2
<1> HIDE DEF p, d
<1>4. (p \o d)[1] = p[1]
  BY <1>3, FirstOfConcat
<1>5. Len(<<>>) = 0
  BY EmptySeq
<1>6. CASE client.keyed
  BY <1>2, <1>4, <1>6 DEF Configured, p, d
<1>7. CASE ~client.keyed
  <2>1. Configured = <<>>
    BY <1>7 DEF Configured
  <2> QED  BY <2>1, <1>5
<1> QED  BY <1>6, <1>7

LEMMA CurrentType ==
  ASSUME TypeOK, Shape, NEW c \in Calls, InUse(c)
  PROVE  /\ Current(c) \in AllKeys /\ Current(c) = keys[c][1]
         /\ Len(keys[c]) \in Nat \ {0}
         /\ Tail(keys[c]) \in Seq(AllKeys)
         /\ Len(Tail(keys[c])) = Len(keys[c]) - 1
         /\ \A i \in 1..Len(Tail(keys[c])) : Tail(keys[c])[i] = keys[c][i + 1]
<1>1. keys[c] \in Seq(AllKeys) /\ keys[c] # <<>>
  BY DEF TypeOK, Shape
<1>2. Head(keys[c]) \in AllKeys /\ Head(keys[c]) = keys[c][1]
  BY <1>1, HeadTailProperties
<1>3. Tail(keys[c]) \in Seq(AllKeys) /\ Len(Tail(keys[c])) = Len(keys[c]) - 1
  BY <1>1, HeadTailProperties
<1>4. \A i \in 1..Len(Tail(keys[c])) : Tail(keys[c])[i] = keys[c][i + 1]
  BY <1>1, HeadTailProperties
<1>5. Len(keys[c]) \in Nat \ {0}
  BY <1>1, EmptySeq, LenProperties
<1> QED  BY <1>2, <1>3, <1>4, <1>5 DEF Current

-----------------------------------------------------------------------------
(***************************************************************************)
(* The steps that end a key's use, whatever the answer was, and those that *)
(* end a call.                                                             *)
(***************************************************************************)
Fails(c) == pc[c] = "sent" /\ KeyFails(c)
Returns(c) == pc[c] \in {"sent", "failed"} /\ Return(c)

CallStep(c) ==
    \/ Begin(c) \/ ListKey(c) \/ ListFreeKey(c)
    \/ FindLimiter(c) \/ CreateLimiter(c) \/ SendUnlimited(c) \/ Admit(c)
    \/ Retryable(c) \/ Fails(c) \/ Returns(c)

LEMMA NextCases ==
  ASSUME Next
  PROVE  Tick \/ \E c \in Calls : CallStep(c)
<1>1. ASSUME NEW c \in Calls, Begin(c) \/ Step(c)
      PROVE  CallStep(c)
  <2>1. CASE Answer(c)
    BY <2>1 DEF CallStep, Answer, RetriesExhausted, Rejected, Served, Unparsable, Fails, Returns
  <2>2. CASE Failed(c)
    BY <2>2 DEF CallStep, Failed, Returns
  <2> QED  BY <1>1, <2>1, <2>2 DEF Step, CallStep
<1> QED  BY <1>1 DEF Next

LEMMA BurstType ==
  ASSUME TypeOK
  PROVE  \A k : Burst(k) \in Nat
<1>1. setup \in Setups
  BY DEF TypeOK
<1> QED  BY <1>1, BurstNat

\* Appending and prepending keep a sequence of keys one, and not empty.
LEMMA LongerList ==
  ASSUME NEW s \in Seq(AllKeys), NEW k \in AllKeys
  PROVE  /\ Append(s, k) \in Seq(AllKeys) /\ Append(s, k) # <<>>
         /\ <<k>> \o s \in Seq(AllKeys) /\ <<k>> \o s # <<>>
<1>1. Append(s, k) \in Seq(AllKeys) /\ Len(Append(s, k)) = Len(s) + 1
  BY AppendProperties
<1>2. <<k>> \in Seq(AllKeys) /\ Len(<<k>>) = 1
  OBVIOUS
<1>3. <<k>> \o s \in Seq(AllKeys) /\ Len(<<k>> \o s) = 1 + Len(s)
  BY <1>2, ConcatProperties
<1>4. Len(s) \in Nat /\ Len(<<>>) = 0
  BY LenProperties, EmptySeq
<1> QED  BY <1>1, <1>3, <1>4

LEMMA TypeOfTick ==
  ASSUME TypeOK, Shape, Tick
  PROVE  TypeOK' /\ Shape'
<1>1. \A k : Burst(k) \in Nat
  BY BurstType
<1>2. rest' \in [Keys -> 0..Backoff]
  BY BoundsAssumption DEF TypeOK, Tick
<1>3. tokens' \in [AllKeys -> [Calls -> Nat]]
  BY DEF TypeOK, Tick
<1>4. age' \in [Calls -> 0..Backoff]
  BY BoundsAssumption DEF TypeOK, Tick
<1>5. since' \in [Calls -> [Keys -> 0..Backoff]]
  BY BoundsAssumption DEF TypeOK, Tick
<1>6. used' \in [AllKeys -> Nat]
  BY DEF Tick
<1>7. TypeOK'
  BY <1>2, <1>3, <1>4, <1>5, <1>6 DEF TypeOK, Tick
<1>8. Shape'
  BY DEF Shape, Tick, InUse
<1> QED  BY <1>7, <1>8

LEMMA TypeOfSend ==
  ASSUME TypeOK, Shape, NEW c \in Calls, InUse(c), Send(c)
  PROVE  /\ pc' \in [Calls -> {"idle", "list", "find", "create", "wait", "sent", "failed"}]
         /\ used' \in [AllKeys -> Nat]
<1>1. Current(c) \in AllKeys
  BY CurrentType
<1> QED  BY <1>1 DEF TypeOK, Send

LEMMA TypeOfStep ==
  ASSUME TypeOK, Shape, NEW c \in Calls, CallStep(c)
  PROVE  TypeOK' /\ Shape'
<1>a. \A k : Burst(k) \in Nat
  BY BurstType
<1>b. keys[c] \in Seq(AllKeys) /\ next[c] \in Nat \ {0}
  BY DEF TypeOK
<1>1. CASE Begin(c)
  BY <1>1, BoundsAssumption DEF TypeOK, Begin, Shape, InUse
<1>2. CASE ListKey(c)
  <2> DEFINE k == Configured[next[c]]
  <2>1. k \in AllKeys
    <3>1. Configured \in Seq(Keys)
      BY ConfiguredType DEF TypeOK
    <3>2. next[c] \in 1..Len(Configured)
      BY <1>b, <1>2, <3>1, LenProperties DEF ListKey
    <3> QED  BY <3>1, <3>2, KeySets, ElementOfSeq
  <2>2. Append(keys[c], k) \in Seq(AllKeys)
    BY <1>b, <2>1, LongerList
  <2>3. keys' \in [Calls -> Seq(AllKeys)]
    BY <1>2, <1>b, <2>2 DEF TypeOK, ListKey
  <2>4. next' \in [Calls -> Nat \ {0}]
    BY <1>2, <1>b DEF TypeOK, ListKey
  <2>5. TypeOK'
    BY <1>2, <2>3, <2>4 DEF TypeOK, ListKey
  <2>6. Shape'
    BY <1>2 DEF TypeOK, Shape, InUse, ListKey
  <2> QED  BY <2>5, <2>6
<1>3. CASE ListFreeKey(c)
  <2> DEFINE ks == IF client.freeFirst THEN prependFreeKey(keys[c]) ELSE Append(keys[c], NoKey)
  <2>1. ks \in Seq(AllKeys) /\ ks # <<>>
    BY <1>b, KeySets, LongerList DEF prependFreeKey
  <2>2. keys' = [keys EXCEPT ![c] = ks]
    BY <1>3 DEF ListFreeKey
  <2> HIDE DEF ks
  <2>a. keys' \in [Calls -> Seq(AllKeys)]
    BY <2>1, <2>2 DEF TypeOK
  <2>b. next' \in [Calls -> Nat \ {0}]
    BY <1>3 DEF TypeOK, ListFreeKey
  <2>3. TypeOK'
    BY <1>3, <2>a, <2>b DEF TypeOK, ListFreeKey
  <2>4. Shape'
    BY <1>3, <2>1, <2>2 DEF TypeOK, Shape, InUse, ListFreeKey
  <2> QED  BY <2>3, <2>4
<1>4. CASE FindLimiter(c)
  <2>1. Current(c) \in AllKeys
    BY <1>4, CurrentType DEF InUse, FindLimiter
  <2>2. TypeOK'
    BY <1>4, <2>1 DEF TypeOK, FindLimiter
  <2>3. Shape'
    BY <1>4 DEF TypeOK, Shape, InUse, FindLimiter
  <2> QED  BY <2>2, <2>3
<1>5. CASE CreateLimiter(c)
  <2> DEFINE k == Current(c)
  <2>1. k \in AllKeys
    BY <1>5, CurrentType DEF InUse, CreateLimiter
  <2>2. /\ limiterOf' = [limiterOf EXCEPT ![k] = IF limiterOf[k] = None THEN c ELSE @]
        /\ tokens' = [tokens EXCEPT ![k][c] = IF limiterOf[k] = None THEN Burst(k) ELSE @]
        /\ lim' = [lim EXCEPT ![c] = limiterOf'[k]]
        /\ pc' = [pc EXCEPT ![c] = "wait"]
        /\ pc[c] = "create"
        /\ UNCHANGED <<client, setup, rest, next, keys, attempt, age, since, used>>
    BY <1>5 DEF CreateLimiter
  <2> HIDE DEF k
  <2>3. limiterOf' \in [AllKeys -> Calls \cup {None}]
    BY <2>1, <2>2 DEF TypeOK
  <2>4. lim' \in [Calls -> Calls \cup {None}]
    BY <2>1, <2>2, <2>3 DEF TypeOK
  <2>5. tokens' \in [AllKeys -> [Calls -> Nat]]
    BY <1>a, <2>1, <2>2 DEF TypeOK
  <2>6. TypeOK'
    BY <2>2, <2>3, <2>4, <2>5 DEF TypeOK
  <2>7. Shape'
    BY <2>2 DEF TypeOK, Shape, InUse
  <2> QED  BY <2>6, <2>7
<1>6. CASE SendUnlimited(c)
  <2>1. InUse(c)
    BY <1>6 DEF InUse, SendUnlimited
  <2>2. TypeOK'
    BY <1>6, <2>1, TypeOfSend DEF TypeOK, SendUnlimited
  <2>3. Shape'
    BY <1>6, <2>1 DEF TypeOK, Shape, InUse, SendUnlimited, Send
  <2> QED  BY <2>2, <2>3
<1>7. CASE Admit(c)
  <2> DEFINE k == Current(c)
  <2>1. InUse(c) /\ k \in AllKeys
    BY <1>7, CurrentType DEF InUse, Admit
  <2>2. lim[c] \in Calls => tokens'\in [AllKeys -> [Calls -> Nat]]
    BY <1>7, <2>1 DEF TypeOK, Admit
  <2>3. lim[c] \notin Calls => tokens' \in [AllKeys -> [Calls -> Nat]]
    BY <1>7, <2>1 DEF TypeOK, Admit
  <2>4. TypeOK'
    BY <1>7, <2>1, <2>2, <2>3, TypeOfSend DEF TypeOK, Admit
  <2>5. Shape'
    BY <1>7, <2>1 DEF TypeOK, Shape, InUse, Admit, Send
  <2> QED  BY <2>4, <2>5
<1>8. CASE Retryable(c)
  BY <1>8, BoundsAssumption DEF TypeOK, Shape, InUse, Retryable
<1>9. CASE Fails(c)
  <2> DEFINE k == Current(c)
  <2>1. /\ k \in AllKeys /\ Tail(keys[c]) \in Seq(AllKeys)
        /\ Len(Tail(keys[c])) = Len(keys[c]) - 1
    BY <1>9, CurrentType DEF InUse, Fails
  <2>2. rest' \in [Keys -> 0..Backoff]
    <3>1. rest' = IF k = NoKey THEN rest ELSE [rest EXCEPT ![k] = Backoff]
      BY <1>9 DEF Fails, KeyFails, MarkKeyAsFailed
    <3> HIDE DEF k
    <3>2. rest \in [Keys -> 0..Backoff] /\ Backoff \in 0..Backoff
      BY BoundsAssumption DEF TypeOK
    <3> QED  BY <3>1, <3>2
  <2>3. since' \in [Calls -> [Keys -> 0..Backoff]]
    BY <1>9, BoundsAssumption DEF TypeOK, Fails, KeyFails, NoteFailure
  <2>4. keys' \in [Calls -> Seq(AllKeys)]
    BY <1>9, <2>1 DEF TypeOK, Fails, KeyFails
  <2>5. attempt' \in [Calls -> 1..MaxRetries]
    BY <1>9, BoundsAssumption DEF TypeOK, Fails, KeyFails
  <2>6. TypeOK'
    BY <1>9, <2>2, <2>3, <2>4, <2>5 DEF TypeOK, Fails, KeyFails
  <2>7. Len(keys[c]) = 1 <=> Tail(keys[c]) = <<>>
    <3>1. keys[c] # <<>>
      BY <1>9 DEF Shape, InUse, Fails
    <3>2. Len(keys[c]) \in Nat /\ Len(<<>>) = 0
      BY <1>b, LenProperties, EmptySeq
    <3> DEFINE t == Tail(keys[c])
    <3>3. t \in Seq(AllKeys) /\ Len(t) = Len(keys[c]) - 1
      BY <2>1
    <3> HIDE DEF t
    <3>4. t # <<>> => Len(t) \in Nat \ {0}
      BY <3>3, EmptySeq
    <3>5. ASSUME t = <<>>  PROVE Len(keys[c]) = 1
      <4>1. Len(t) = 0
        BY <3>2, <3>5
      <4> QED  BY <3>2, <3>3, <4>1
    <3>6. ASSUME Len(keys[c]) = 1  PROVE t = <<>>
      BY <3>3, <3>4, <3>6
    <3> QED  BY <3>5, <3>6 DEF t
  <2>8. Shape'
    <3>1. /\ pc' = [pc EXCEPT ![c] = IF Len(keys[c]) = 1 THEN "failed" ELSE "find"]
          /\ keys' = [keys EXCEPT ![c] = Tail(keys[c])]
      BY <1>9 DEF Fails, KeyFails
    <3> HIDE DEF k
    <3> QED  BY <2>7, <3>1 DEF TypeOK, Shape, InUse
  <2> QED  BY <2>6, <2>8
<1>10. CASE Returns(c)
  <2>1. <<>> \in Seq(AllKeys)
    BY EmptySeq
  <2>2. TypeOK'
    BY <1>10, <2>1, BoundsAssumption DEF TypeOK, Returns, Return
  <2>3. Shape'
    BY <1>10 DEF TypeOK, Shape, InUse, Returns, Return
  <2> QED  BY <2>2, <2>3
<1> QED
  BY <1>1, <1>2, <1>3, <1>4, <1>5, <1>6, <1>7, <1>8, <1>9, <1>10 DEF CallStep

(***************************************************************************)
(* TypeOK: the state of a client's calls is well formed, for every tokens  *)
(* file, and a call that uses a key holds one.                             *)
(***************************************************************************)
LEMMA TypeInductive ==
  ASSUME TypeOK, Shape, [Next]_vars
  PROVE  TypeOK' /\ Shape'
<1>1. CASE Next
  BY <1>1, NextCases, TypeOfTick, TypeOfStep
<1>2. CASE UNCHANGED vars
  BY <1>2 DEF vars, TypeOK, Shape, InUse
<1> QED  BY <1>1, <1>2

LEMMA TypeInitially ==
  ASSUME Init
  PROVE  TypeOK /\ Shape
<1>1. <<>> \in Seq(AllKeys)
  BY EmptySeq
<1>2. TypeOK
  BY <1>1, BoundsAssumption DEF Init, TypeOK
<1>3. Shape
  BY DEF Init, Shape, InUse
<1> QED  BY <1>2, <1>3

THEOREM TypeCorrect == Spec => []TypeOK
<1>1. Init => TypeOK /\ Shape
  BY TypeInitially
<1>2. TypeOK /\ Shape /\ [Next]_vars => (TypeOK /\ Shape)'
  BY TypeInductive
<1> QED  BY <1>1, <1>2, PTL DEF Spec

-----------------------------------------------------------------------------
(***************************************************************************)
(* What was sent with a key since the last tick, with what its limiter     *)
(* still has, is at most the burst; a key without a limiter sent nothing.  *)
(* A call waits for the one limiter of its key.                            *)
(***************************************************************************)
RateInv ==
    /\ \A k \in AllKeys :
         /\ limiterOf[k] = None => used[k] = 0
         /\ limiterOf[k] # None => used[k] + tokens[k][limiterOf[k]] <= Burst(k)
    /\ \A c \in Calls :
         pc[c] = "wait" => lim[c] = limiterOf[Current(c)] /\ lim[c] # None

LEMMA SameBurst ==
  ASSUME setup' = setup
  PROVE  \A k : Burst(k)' = Burst(k)
BY DEF Burst, burstForType, limitForType, KeyType

LEMMA RateOfTick ==
  ASSUME TypeOK, Shape, RateInv, Tick
  PROVE  RateInv'
<1>1. \A k : Burst(k) \in Nat /\ Burst(k)' = Burst(k)
  BY BurstType, SameBurst DEF Tick
<1>2. ASSUME NEW k \in AllKeys, limiterOf[k] # None
      PROVE  used'[k] + tokens'[k][limiterOf'[k]] <= Burst(k)
  <2>1. limiterOf[k] \in Calls /\ limiterOf' = limiterOf
    BY <1>2 DEF TypeOK, Tick
  <2> DEFINE t == tokens[k][limiterOf[k]]
  <2>2. t \in Nat /\ used[k] \in Nat /\ used[k] + t <= Burst(k)
    BY <1>2, <2>1 DEF TypeOK, RateInv
  <2>3. tokens'[k][limiterOf[k]] = IF t < Burst(k) THEN t + 1 ELSE t
    BY <2>1 DEF Tick
  <2>4. used'[k] = 0
    BY DEF Tick
  <2> HIDE DEF t
  <2> QED  BY <1>1, <2>1, <2>2, <2>3, <2>4
<1>3. \A c \in Calls : pc'[c] = "wait" => lim'[c] = limiterOf'[Current(c)'] /\ lim'[c] # None
  BY DEF RateInv, Tick, Current
<1>4. \A k \in AllKeys : limiterOf'[k] = None => used'[k] = 0
  BY DEF Tick
<1>5. limiterOf' = limiterOf
  BY DEF Tick
<1> QED  BY <1>1, <1>2, <1>3, <1>4, <1>5 DEF RateInv

\* Steps that touch no limiter, and no key of a call that waits.
LEMMA RateKept ==
  ASSUME RateInv, NEW c \in Calls, UNCHANGED <<setup, limiterOf, tokens, used>>,
         \A d \in Calls \ {c} : keys'[d] = keys[d] /\ lim'[d] = lim[d] /\ pc'[d] = pc[d],
         pc'[c] = "wait" => lim'[c] = limiterOf[Current(c)'] /\ lim'[c] # None
  PROVE  RateInv'
<1>1. \A k : Burst(k)' = Burst(k)
  BY SameBurst
<1>2. \A k \in AllKeys :
         /\ limiterOf'[k] = None => used'[k] = 0
         /\ limiterOf'[k] # None => used'[k] + tokens'[k][limiterOf'[k]] <= Burst(k)
  BY DEF RateInv
<1>3. \A d \in Calls : pc'[d] = "wait" => lim'[d] = limiterOf'[Current(d)'] /\ lim'[d] # None
  BY DEF RateInv, Current
<1> QED  BY <1>1, <1>2, <1>3 DEF RateInv

LEMMA RateOfStep ==
  ASSUME TypeOK, Shape, RateInv, NEW c \in Calls, CallStep(c)
  PROVE  RateInv'
<1>a. \A k : Burst(k) \in Nat
  BY BurstType
<1>1. CASE Begin(c)
  BY <1>1, RateKept DEF TypeOK, Begin
<1>2. CASE ListKey(c)
  BY <1>2, RateKept DEF TypeOK, ListKey
<1>3. CASE ListFreeKey(c)
  BY <1>3, RateKept DEF TypeOK, ListFreeKey
<1>4. CASE FindLimiter(c)
  <2>1. Current(c)' = Current(c)
    BY <1>4 DEF FindLimiter, Current
  <2> QED  BY <1>4, <2>1, RateKept DEF TypeOK, FindLimiter
<1>5. CASE CreateLimiter(c)
  <2> DEFINE k == Current(c)
  <2>1. k \in AllKeys /\ k' = k
    BY <1>5, CurrentType DEF InUse, CreateLimiter, Current
  <2>2. /\ limiterOf' = [limiterOf EXCEPT ![k] = IF limiterOf[k] = None THEN c ELSE @]
        /\ tokens' = [tokens EXCEPT ![k][c] = IF limiterOf[k] = None THEN Burst(k) ELSE @]
        /\ lim' = [lim EXCEPT ![c] = limiterOf'[k]]
        /\ pc' = [pc EXCEPT ![c] = "wait"]
        /\ UNCHANGED <<setup, keys, used>>
    BY <1>5 DEF CreateLimiter
  <2>3. c # None
    BY NamesAssumption
  <2>4. \A j : Burst(j)' = Burst(j)
    BY <2>2, SameBurst
  <2>5. \A d \in Calls : Current(d)' = Current(d)
    BY <2>2 DEF Current
  <2> HIDE DEF k
  <2>6. \A j \in AllKeys \ {k} : limiterOf'[j] = limiterOf[j] /\ tokens'[j] = tokens[j]
    BY <2>2 DEF TypeOK
  <2>7. limiterOf'[k] = IF limiterOf[k] = None THEN c ELSE limiterOf[k]
    BY <2>1, <2>2 DEF TypeOK
  <2>8. ASSUME limiterOf[k] = None
        PROVE  limiterOf'[k] = c /\ tokens'[k][c] = Burst(k) /\ used[k] = 0
    BY <2>1, <2>2, <2>8 DEF TypeOK, RateInv
  <2>9. ASSUME limiterOf[k] # None
        PROVE  limiterOf'[k] = limiterOf[k] /\ tokens'[k] = tokens[k]
    BY <2>1, <2>2, <2>9 DEF TypeOK
  <2>10. \A j \in AllKeys :
          /\ limiterOf'[j] = None => used'[j] = 0
          /\ limiterOf'[j] # None => used'[j] + tokens'[j][limiterOf'[j]] <= Burst(j)
    <3>1. \A j \in AllKeys \ {k} :
          /\ limiterOf'[j] = None => used'[j] = 0
          /\ limiterOf'[j] # None => used'[j] + tokens'[j][limiterOf'[j]] <= Burst(j)
      BY <2>2, <2>6 DEF RateInv
    <3>2. CASE limiterOf[k] = None
      BY <1>a, <2>2, <2>3, <2>8, <3>1, <3>2
    <3>3. CASE limiterOf[k] # None
      BY <2>1, <2>2, <2>9, <3>1, <3>3 DEF RateInv
    <3> QED  BY <3>2, <3>3
  <2>11. \A d \in Calls :
          pc'[d] = "wait" => lim'[d] = limiterOf'[Current(d)] /\ lim'[d] # None
    <3>1. \A d \in Calls \ {c} :
          pc'[d] = "wait" => lim'[d] = limiterOf'[Current(d)] /\ lim'[d] # None
      <4> TAKE d \in Calls \ {c}
      <4> HAVE pc'[d] = "wait"
      <4>1. lim[d] = limiterOf[Current(d)] /\ lim[d] # None /\ lim'[d] = lim[d] /\ pc[d] = "wait"
        BY <2>2 DEF TypeOK, RateInv
      <4>2. Current(d) \in AllKeys
        BY <4>1, CurrentType DEF InUse
      <4>3. limiterOf'[Current(d)] = limiterOf[Current(d)]
        BY <2>6, <2>7, <4>1, <4>2
      <4> QED  BY <4>1, <4>3
    <3>2. lim'[c] = limiterOf'[k] /\ lim'[c] # None
      BY <2>2, <2>3, <2>7 DEF TypeOK
    <3> QED  BY <3>1, <3>2 DEF k
  <2> QED  BY <2>4, <2>5, <2>10, <2>11 DEF RateInv
<1>6. CASE SendUnlimited(c)
  <2>1. Current(c) \in AllKeys
    BY <1>6, CurrentType DEF InUse, SendUnlimited
  <2>2. used' = used
    BY <1>6 DEF TypeOK, SendUnlimited, Send
  <2> QED  BY <1>6, <2>2, RateKept DEF TypeOK, SendUnlimited, Send
<1>7. CASE Admit(c)
  <2> DEFINE k == Current(c)
  <2> DEFINE l == lim[c]
  <2>1. k \in AllKeys /\ l = limiterOf[k] /\ l # None /\ l \in Calls
    BY <1>7, CurrentType DEF TypeOK, RateInv, InUse, Admit
  <2>2. /\ tokens[k][l] > 0
        /\ tokens' = [tokens EXCEPT ![k][l] = @ - 1]
        /\ used' = [used EXCEPT ![k] = IF Limited(k) THEN @ + 1 ELSE @]
        /\ pc' = [pc EXCEPT ![c] = "sent"]
        /\ lim' = [lim EXCEPT ![c] = None]
        /\ UNCHANGED <<setup, limiterOf, keys>>
    BY <1>7 DEF Admit, Send
  <2>3. \A j : Burst(j)' = Burst(j)
    BY <2>2, SameBurst
  <2>4. \A d \in Calls : Current(d)' = Current(d)
    BY <2>2 DEF Current
  <2> HIDE DEF k, l
  <2>5. \A j \in AllKeys \ {k} : tokens'[j] = tokens[j] /\ used'[j] = used[j]
    BY <2>2 DEF TypeOK
  <2>6. tokens'[k][l] = tokens[k][l] - 1 /\ used'[k] <= used[k] + 1
    BY <2>1, <2>2 DEF TypeOK
  <2>7. tokens[k][l] \in Nat /\ used[k] \in Nat /\ used'[k] \in Nat
    BY <2>1, <2>2 DEF TypeOK
  <2>8. used'[k] + tokens'[k][l] <= Burst(k)
    BY <1>a, <2>1, <2>6, <2>7 DEF RateInv
  <2>9. \A j \in AllKeys :
          /\ limiterOf'[j] = None => used'[j] = 0
          /\ limiterOf'[j] # None => used'[j] + tokens'[j][limiterOf'[j]] <= Burst(j)
    BY <2>1, <2>2, <2>5, <2>8 DEF RateInv
  <2>10. \A d \in Calls :
          pc'[d] = "wait" => lim'[d] = limiterOf'[Current(d)] /\ lim'[d] # None
    BY <2>2 DEF TypeOK, RateInv
  <2> QED  BY <2>3, <2>4, <2>9, <2>10 DEF RateInv
<1>8. CASE Retryable(c)
  BY <1>8, RateKept DEF TypeOK, Retryable
<1>9. CASE Fails(c)
  BY <1>9, RateKept DEF TypeOK, Fails, KeyFails
<1>10. CASE Returns(c)
  BY <1>10, RateKept DEF TypeOK, Returns, Return
<1> QED
  BY <1>1, <1>2, <1>3, <1>4, <1>5, <1>6, <1>7, <1>8, <1>9, <1>10 DEF CallStep

(***************************************************************************)
(* RateLimitHolds: between two ticks no more is sent with a key than its   *)
(* burst, also when several calls create its limiter at the same time.     *)
(***************************************************************************)
THEOREM RateLimit == Spec => []RateLimitHolds
<1> DEFINE Inv == TypeOK /\ Shape /\ RateInv
<1>1. Init => Inv
  <2> SUFFICES ASSUME Init PROVE RateInv
    BY TypeInitially
  <2> QED  BY DEF Init, RateInv
<1>2. Inv /\ [Next]_vars => Inv'
  <2> SUFFICES ASSUME Inv, [Next]_vars PROVE RateInv'
    BY TypeInductive
  <2>1. CASE Next
    BY <2>1, NextCases, RateOfTick, RateOfStep
  <2>2. CASE UNCHANGED vars
    <3>1. \A k : Burst(k)' = Burst(k)
      BY <2>2, SameBurst DEF vars
    <3> QED  BY <2>2, <3>1 DEF vars, RateInv, Current
  <2> QED  BY <2>1, <2>2
<1>3. Inv => RateLimitHolds
  <2> SUFFICES ASSUME Inv, NEW k \in AllKeys PROVE used[k] <= Burst(k)
    BY DEF RateLimitHolds
  <2>1. Burst(k) \in Nat /\ used[k] \in Nat
    BY BurstType DEF TypeOK
  <2>2. limiterOf[k] # None => tokens[k][limiterOf[k]] \in Nat
    BY DEF TypeOK
  <2> QED  BY <2>1, <2>2 DEF RateInv
<1> QED  BY <1>1, <1>2, <1>3, PTL DEF Spec

-----------------------------------------------------------------------------
(***************************************************************************)
(* Every listed key, not only the one in use, either does not rest, is the *)
(* sole Pro key, or failed after the call began.  A key rests for what is  *)
(* left of the backoff of each failure with it.                            *)
(***************************************************************************)
Sole(k) == Len(setup.pro) = 1 /\ k = setup.pro[1]

ListedRest ==
    \A c \in Calls, k \in Keys :
        ListedKey(c, k) /\ rest[k] > 0 /\ ~Sole(k) => age[c] >= Backoff - rest[k]

FailuresMarked ==
    \A c \in Calls, k \in Keys : rest[k] >= Backoff - since[c][k]

LEMMA RestOfTick ==
  ASSUME TypeOK, Tick, NEW c \in Calls, NEW k \in Keys
  PROVE  /\ rest[k] \in 0..Backoff /\ age[c] \in 0..Backoff
         /\ rest'[k] > 0 /\ age[c] >= Backoff - rest[k] => age'[c] >= Backoff - rest'[k]
         /\ rest[k] >= Backoff - since[c][k] => rest'[k] >= Backoff - since'[c][k]
         /\ rest'[k] > 0 => rest[k] > 0
<1>1. rest[k] \in 0..Backoff /\ age[c] \in 0..Backoff /\ Backoff \in Nat
      /\ since[c][k] \in 0..Backoff
  BY BoundsAssumption DEF TypeOK
<1>2. /\ rest'[k] = IF rest[k] > 0 THEN rest[k] - 1 ELSE 0
      /\ age'[c] = IF age[c] < Backoff THEN age[c] + 1 ELSE age[c]
      /\ since'[c][k] = IF since[c][k] < Backoff THEN since[c][k] + 1 ELSE since[c][k]
  BY DEF Tick
<1> QED  BY <1>1, <1>2

\* Marking a key leaves the others as they are.
LEMMA Marked ==
  ASSUME TypeOK, NEW j, MarkKeyAsFailed(j), NEW k \in Keys
  PROVE  /\ rest'[k] = IF k = j THEN Backoff ELSE rest[k]
         /\ rest[k] \in 0..Backoff /\ rest'[k] >= rest[k]
<1>1. k # NoKey /\ Backoff \in Nat
  BY NamesAssumption, BoundsAssumption
<1> QED  BY <1>1 DEF TypeOK, MarkKeyAsFailed

LEMMA ListedAfterListKey ==
  ASSUME TypeOK, NEW c \in Calls, ListKey(c), NEW d \in Calls, NEW k \in Keys,
         ListedKey(d, k)'
  PROVE  ListedKey(d, k) \/ Sole(k) \/ rest[k] = 0
<1>1. keys[c] \in Seq(AllKeys) /\ next[c] \in Nat \ {0}
  BY DEF TypeOK
<1>2. CASE d # c
  BY <1>2 DEF TypeOK, ListKey, ListedKey
<1>3. CASE d = c
  <2> DEFINE j == Configured[next[c]]
  <2>1. Configured \in Seq(Keys) /\ next[c] \in 1..Len(Configured)
    <3>1. Configured \in Seq(Keys)
      BY ConfiguredType DEF TypeOK
    <3> QED  BY <1>1, <3>1, LenProperties DEF ListKey
  <2>2. j \in AllKeys /\ j \in Keys
    BY <2>1, ElementOfSeq DEF AllKeys
  <2>3. CASE ~SolePro(next[c]) /\ isKeyInBackoff(j)
    <3>1. keys'[c] = keys[c]
      BY <2>3 DEF TypeOK, ListKey
    <3> QED  BY <1>3, <3>1 DEF ListedKey
  <2>4. CASE SolePro(next[c]) \/ ~isKeyInBackoff(j)
    <3>1. keys'[c] = Append(keys[c], j)
      BY <2>4 DEF TypeOK, ListKey
    <3>2. PICK i \in 1..Len(keys'[c]) : keys'[c][i] = k
      BY <1>3 DEF ListedKey
    <3>3. /\ Len(keys'[c]) = Len(keys[c]) + 1
          /\ \A n \in 1..Len(keys[c]) : keys'[c][n] = keys[c][n]
          /\ keys'[c][Len(keys[c]) + 1] = j
      BY <1>1, <2>2, <3>1, AppendProperties
    <3>4. Len(keys[c]) \in Nat
      BY <1>1, LenProperties
    <3>5. ListedKey(c, k) \/ k = j
      BY <3>2, <3>3, <3>4 DEF ListedKey
    <3>6. SolePro(next[c]) => Sole(j)
      BY <2>1, SoleProIsFirst DEF Sole, TypeOK
    <3>7. ~isKeyInBackoff(j) => rest[j] = 0
      BY <2>2 DEF TypeOK, isKeyInBackoff
    <3> QED  BY <1>3, <2>4, <3>5, <3>6, <3>7
  <2> QED  BY <2>3, <2>4
<1> QED  BY <1>2, <1>3

LEMMA ListedAfterListFreeKey ==
  ASSUME TypeOK, NEW c \in Calls, ListFreeKey(c), NEW d \in Calls, NEW k \in Keys,
         ListedKey(d, k)'
  PROVE  ListedKey(d, k)
<1>1. keys[c] \in Seq(AllKeys) /\ NoKey \in AllKeys /\ k # NoKey
  BY NamesAssumption, KeySets DEF TypeOK
<1>2. CASE d # c
  BY <1>2 DEF TypeOK, ListFreeKey, ListedKey
<1>3. CASE d = c
  <2> DEFINE s == keys[c]
  <2> DEFINE t == keys'[c]
  <2>1. PICK i \in 1..Len(t) : t[i] = k
    BY <1>3 DEF ListedKey
  <2>2. t = <<NoKey>> \o s \/ t = Append(s, NoKey)
    BY DEF TypeOK, ListFreeKey, prependFreeKey
  <2>3. s \in Seq(AllKeys) /\ Len(s) \in Nat
    BY <1>1, LenProperties
  <2> HIDE DEF s, t
  <2>4. CASE t = Append(s, NoKey)
    <3>1. /\ Len(t) = Len(s) + 1 /\ t[Len(s) + 1] = NoKey
          /\ \A n \in 1..Len(s) : t[n] = s[n]
      BY <1>1, <2>3, <2>4, AppendProperties
    <3>2. i \in 1..Len(s) /\ s[i] = k
      BY <1>1, <2>1, <2>3, <3>1
    <3> QED  BY <1>3, <3>2 DEF ListedKey, s
  <2>5. CASE t = <<NoKey>> \o s
    <3>1. <<NoKey>> \in Seq(AllKeys) /\ Len(<<NoKey>>) = 1 /\ <<NoKey>>[1] = NoKey
      BY <1>1
    <3>2. Len(t) = 1 + Len(s)
      BY <2>3, <2>5, <3>1, ConcatProperties
    <3>3. \A n \in 1..(1 + Len(s)) : t[n] = IF n <= 1 THEN <<NoKey>>[n] ELSE s[n - 1]
      BY <2>3, <2>5, <3>1, ConcatProperties
    <3>4. i \in 1..(1 + Len(s)) /\ i # 1
      BY <1>1, <2>1, <2>3, <3>1, <3>2, <3>3
    <3>5. i - 1 \in 1..Len(s) /\ s[i - 1] = k
      BY <2>1, <2>3, <3>3, <3>4
    <3> QED  BY <1>3, <3>5 DEF ListedKey, s
  <2> QED  BY <2>2, <2>4, <2>5
<1> QED  BY <1>2, <1>3

LEMMA ListedAfterFailing ==
  ASSUME TypeOK, Shape, NEW c \in Calls, Fails(c), NEW d \in Calls, NEW k \in Keys,
         ListedKey(d, k)'
  PROVE  ListedKey(d, k)
<1>1. CASE d # c
  BY <1>1 DEF TypeOK, Fails, KeyFails, ListedKey
<1>2. CASE d = c
  <2> DEFINE t == Tail(keys[c])
  <2>1. /\ Len(keys[c]) \in Nat \ {0} /\ Len(t) = Len(keys[c]) - 1
        /\ \A i \in 1..Len(t) : t[i] = keys[c][i + 1]
    BY CurrentType DEF InUse, Fails
  <2>2. keys'[c] = t
    BY DEF TypeOK, Fails, KeyFails
  <2>3. PICK i \in 1..Len(t) : t[i] = k
    BY <1>2, <2>2 DEF ListedKey
  <2> HIDE DEF t
  <2>4. i + 1 \in 1..Len(keys[c]) /\ keys[c][i + 1] = k
    BY <2>1, <2>3
  <2> QED  BY <1>2, <2>4 DEF ListedKey
<1> QED  BY <1>1, <1>2

LEMMA NothingListed ==
  ASSUME NEW c \in Calls, keys[c] = <<>>, NEW k
  PROVE  ~ListedKey(c, k)
<1>1. Len(keys[c]) = 0
  BY EmptySeq
<1> QED  BY <1>1 DEF ListedKey

LEMMA BackoffOfStep ==
  ASSUME TypeOK, Shape, ListedRest, FailuresMarked, NEW c \in Calls, CallStep(c)
  PROVE  ListedRest' /\ FailuresMarked'
<1>a. \A k : Sole(k)' <=> Sole(k)
  <2>1. setup' = setup
    BY DEF CallStep, Begin, ListKey, ListFreeKey, FindLimiter, CreateLimiter,
           SendUnlimited, Admit, Retryable, Fails, KeyFails, Returns, Return
  <2> QED  BY <2>1 DEF Sole
<1>b. \A d \in Calls, k \in Keys :
        rest[k] \in 0..Backoff /\ age[d] \in 0..Backoff /\ Backoff \in Nat
  BY BoundsAssumption DEF TypeOK
<1>1. CASE Begin(c)
  <2>1. keys[c] = <<>>
    BY <1>1 DEF Shape, Begin
  <2>2. \A k \in Keys : ~ListedKey(c, k)
    BY <2>1, NothingListed
  <2>3. \A d \in Calls, k \in Keys : ListedKey(d, k)' <=> ListedKey(d, k)
    BY <1>1 DEF Begin, ListedKey
  <2>4. ListedRest'
    BY <1>1, <1>a, <2>2, <2>3 DEF TypeOK, ListedRest, Begin
  <2>5. FailuresMarked'
    BY <1>1 DEF FailuresMarked, Begin
  <2> QED  BY <2>4, <2>5
<1>2. CASE ListKey(c)
  <2>1. ListedRest'
    <3>1. \A d \in Calls, k \in Keys :
            ListedKey(d, k)' => ListedKey(d, k) \/ Sole(k) \/ rest[k] = 0
      BY <1>2, ListedAfterListKey
    <3>2. rest' = rest /\ age' = age
      BY <1>2 DEF ListKey
    <3>3. \A k \in Keys : rest[k] > 0 => rest[k] # 0
      BY <1>b
    <3> QED  BY <1>a, <3>1, <3>2, <3>3, Zenon DEF ListedRest
  <2>2. FailuresMarked'
    BY <1>2 DEF ListKey, FailuresMarked
  <2> QED  BY <2>1, <2>2
<1>3. CASE ListFreeKey(c)
  <2>1. ListedRest'
    BY <1>3, <1>a, ListedAfterListFreeKey DEF ListFreeKey, ListedRest
  <2>2. FailuresMarked'
    BY <1>3 DEF ListFreeKey, FailuresMarked
  <2> QED  BY <2>1, <2>2
<1>4. CASE FindLimiter(c) \/ CreateLimiter(c) \/ SendUnlimited(c) \/ Admit(c) \/ Retryable(c)
  <2>1. UNCHANGED <<keys, rest, age, since>>
    BY <1>4 DEF FindLimiter, CreateLimiter, SendUnlimited, Admit, Retryable
  <2>2. ListedRest'
    BY <1>a, <2>1 DEF ListedRest, ListedKey
  <2>3. FailuresMarked'
    BY <2>1 DEF FailuresMarked
  <2> QED  BY <2>2, <2>3
<1>5. CASE Fails(c)
  <2> DEFINE j == Current(c)
  <2>1. /\ MarkKeyAsFailed(j) /\ age' = age
        /\ NoteFailure(c, j)
    BY <1>5 DEF Fails, KeyFails
  <2>2. \A k \in Keys : /\ rest'[k] = IF k = j THEN Backoff ELSE rest[k]
                        /\ rest'[k] >= rest[k]
    BY <2>1, Marked
  <2> HIDE DEF j
  <2>3. \A d \in Calls, k \in Keys : ListedKey(d, k)' => ListedKey(d, k)
    BY <1>5, ListedAfterFailing
  <2>4. ListedRest'
    BY <1>a, <1>b, <2>1, <2>2, <2>3 DEF ListedRest
  <2>5. FailuresMarked'
    <3>1. \A d \in Calls, k \in Keys :
            since'[d][k] = IF d = c /\ k = j THEN 0 ELSE since[d][k]
      BY <2>1 DEF TypeOK, NoteFailure
    <3>2. \A d \in Calls, k \in Keys : since[d][k] \in 0..Backoff
      BY DEF TypeOK
    <3> QED  BY <1>b, <2>2, <3>1, <3>2 DEF FailuresMarked
  <2> QED  BY <2>4, <2>5
<1>6. CASE Returns(c)
  <2>1. /\ keys' = [keys EXCEPT ![c] = <<>>] /\ since' = since
        /\ age' = [age EXCEPT ![c] = Backoff] /\ rest' = rest
    BY <1>6 DEF Returns, Return
  <2>2. \A k \in Keys : ~ListedKey(c, k)'
    <3>1. keys'[c] = <<>> /\ Len(<<>>) = 0
      BY <2>1, EmptySeq DEF TypeOK
    <3> QED  BY <3>1 DEF ListedKey
  <2>3. \A d \in Calls \ {c}, k \in Keys : ListedKey(d, k)' <=> ListedKey(d, k)
    BY <2>1 DEF TypeOK, ListedKey
  <2>4. ListedRest'
    BY <1>a, <2>1, <2>2, <2>3 DEF TypeOK, ListedRest
  <2>5. FailuresMarked'
    BY <2>1 DEF FailuresMarked
  <2> QED  BY <2>4, <2>5
<1> QED
  BY <1>1, <1>2, <1>3, <1>4, <1>5, <1>6 DEF CallStep

LEMMA BackoffOfTick ==
  ASSUME TypeOK, ListedRest, FailuresMarked, Tick
  PROVE  ListedRest' /\ FailuresMarked'
<1>1. \A c \in Calls, k \in Keys :
        (Sole(k)' <=> Sole(k)) /\ (ListedKey(c, k)' <=> ListedKey(c, k))
  BY DEF Tick, Sole, ListedKey
<1>2. ListedRest'
  BY <1>1, RestOfTick DEF ListedRest
<1>3. FailuresMarked'
  BY RestOfTick DEF FailuresMarked, Tick
<1> QED  BY <1>2, <1>3

LEMMA BackoffInvariant ==
  Spec => [](TypeOK /\ Shape /\ ListedRest /\ FailuresMarked)
<1> DEFINE Inv == TypeOK /\ Shape /\ ListedRest /\ FailuresMarked
<1>1. Init => Inv
  <2> SUFFICES ASSUME Init PROVE ListedRest /\ FailuresMarked
    BY TypeInitially
  <2>1. \A c \in Calls, k \in Keys : ~ListedKey(c, k)
    BY NothingListed DEF Init
  <2>2. FailuresMarked
    BY BoundsAssumption DEF Init, FailuresMarked
  <2> QED  BY <2>1, <2>2 DEF ListedRest
<1>2. Inv /\ [Next]_vars => Inv'
  <2> SUFFICES ASSUME Inv, [Next]_vars PROVE ListedRest' /\ FailuresMarked'
    BY TypeInductive
  <2>1. CASE Next
    BY <2>1, NextCases, BackoffOfTick, BackoffOfStep
  <2>2. CASE UNCHANGED vars
    BY <2>2 DEF vars, ListedRest, FailuresMarked, ListedKey, Sole
  <2> QED  BY <2>1, <2>2
<1> QED  BY <1>1, <1>2, PTL DEF Spec

(***************************************************************************)
(* RestingKeysAreLeftAlone: a call uses no key that began to rest before   *)
(* the call, except the sole Pro key.                                      *)
(***************************************************************************)
THEOREM BackoffIsKept == Spec => []RestingKeysAreLeftAlone
<1>1. TypeOK /\ Shape /\ ListedRest => RestingKeysAreLeftAlone
  <2> SUFFICES ASSUME TypeOK, Shape, ListedRest, NEW c \in Calls, NEW k \in Keys,
                      InUse(c), Current(c) = k, rest[k] > 0, ~Sole(k)
               PROVE  age[c] >= Backoff - rest[k]
    BY DEF RestingKeysAreLeftAlone, Sole
  <2>1. keys[c][1] = k /\ 1 \in 1..Len(keys[c])
    BY CurrentType
  <2>2. ListedKey(c, k)
    BY <2>1 DEF ListedKey
  <2> QED  BY <2>2 DEF ListedRest
<1> QED  BY <1>1, BackoffInvariant, PTL

(***************************************************************************)
(* FailedKeysRest: until the whole backoff has passed since each failure   *)
(* with a key, in whatever call and however many marked it before,         *)
(* GetAvailableKeys finds it in backoff.                                   *)
(***************************************************************************)
THEOREM FailureRests == Spec => []FailedKeysRest
<1>1. TypeOK /\ FailuresMarked => FailedKeysRest
  <2> SUFFICES ASSUME TypeOK, FailuresMarked,
                      NEW c \in Calls, NEW k \in Keys, since[c][k] < Backoff
               PROVE  isKeyInBackoff(k)
    BY DEF FailedKeysRest
  <2>1. rest[k] >= Backoff - since[c][k]
    BY DEF FailuresMarked
  <2>2. rest[k] \in 0..Backoff /\ since[c][k] \in 0..Backoff /\ Backoff \in Nat
    BY BoundsAssumption DEF TypeOK
  <2> QED  BY <2>1, <2>2 DEF isKeyInBackoff
<1> QED  BY <1>1, BackoffInvariant, PTL
=============================================================================
