------------------------------- MODULE Events -------------------------------
(***************************************************************************)
(* events/subscription.go: one SubscriptionManager, the goroutines that    *)
(* store new state and then Emit, and the subscriptions whose Watch        *)
(* goroutine calls a callback that reads that state.                       *)
(*                                                                         *)
(* What is published (a token list, market pages, prices) is abstracted to *)
(* a version number: `version` counts the stores, seen[s] is the version   *)
(* the last callback of subscription s read.  The manager's RWMutex is     *)
(* held for reading by every publisher in "sending"; Subscribe and         *)
(* Unsubscribe are its write sections.                                     *)
(***************************************************************************)
EXTENDS Integers

CONSTANTS Publishers,   \* goroutines that store and then call Emit
          Subs,         \* Subscription objects, each used once
          CallNow,      \* those whose Watch has callNow = true
          MaxVersion    \* bound on the number of stores

ASSUME EventsAssumption == CallNow \subseteq Subs /\ MaxVersion \in Nat

VARIABLES version,      \* number of stores so far
          pub,          \* pub[p]: where publisher p is
          todo,         \* todo[p]: the subscribers Emit has still to visit
          pubDone,      \* pubDone[p]: the context given to Emit is cancelled
          cutAt,        \* history: version when an Emit was last cut short
          subscribers,  \* SubscriptionManager.subscribers
          chan,         \* chan[s]: the channel of capacity one
          owner,        \* owner[s]: the service that Subscribes and Cancels
          once,         \* once[s]: the sync.Once of Cancel
          ctxDone,      \* ctxDone[s]: the context of Watch is cancelled
          watcher,      \* watcher[s]: the goroutine started by Watch
          seen          \* seen[s]: the version the last callback read

mgrVars   == <<subscribers, chan>>
pubVars   == <<version, pub, todo, pubDone, cutAt>>
watchVars == <<owner, once, ctxDone, watcher, seen>>
vars      == <<pubVars, mgrVars, watchVars>>

Init ==
  /\ version = 0
  /\ pub = [p \in Publishers |-> "idle"]
  /\ todo = [p \in Publishers |-> {}]
  /\ pubDone = [p \in Publishers |-> FALSE]
  /\ cutAt = 0
  /\ subscribers = {}
  /\ chan = [s \in Subs |-> "none"]
  /\ owner = [s \in Subs |-> "idle"]
  /\ once = [s \in Subs |-> "free"]
  /\ ctxDone = [s \in Subs |-> FALSE]
  /\ watcher = [s \in Subs |-> "none"]
  /\ seen = [s \in Subs |-> 0]

\* The write lock of the manager is free: no Emit is inside its read section.
NoReader == \A p \in Publishers : pub[p] # "sending"

-----------------------------------------------------------------------------
(* Publishers.  The state is stored before Emit is called.                 *)

Store(p) ==
  /\ pub[p] = "idle" /\ version < MaxVersion
  /\ version' = version + 1
  /\ pub' = [pub EXCEPT ![p] = "stored"]
  /\ pubDone' = [pubDone EXCEPT ![p] = FALSE]
  /\ UNCHANGED <<todo, cutAt, mgrVars, watchVars>>

\* The context of the scheduler task that publishes is cancelled by a Stop.
CancelPublisher(p) ==
  /\ pub[p] # "idle" /\ ~pubDone[p]
  /\ pubDone' = [pubDone EXCEPT ![p] = TRUE]
  /\ UNCHANGED <<version, pub, todo, cutAt, mgrVars, watchVars>>

EmitBegin(p) ==
  /\ pub[p] = "stored"
  /\ pub' = [pub EXCEPT ![p] = "sending"]
  /\ todo' = [todo EXCEPT ![p] = subscribers]
  /\ UNCHANGED <<version, pubDone, cutAt, mgrVars, watchVars>>

\* Mutant: channels of capacity zero, a watcher in its callback is skipped.
EmitSendUnbuffered(p, s) ==
  /\ pub[p] = "sending" /\ s \in todo[p]
  /\ chan' = [chan EXCEPT ![s] =
                IF @ = "empty" /\ watcher[s] = "select" THEN "full" ELSE @]
  /\ todo' = [todo EXCEPT ![p] = @ \ {s}]
  /\ UNCHANGED <<version, pub, pubDone, cutAt, subscribers, watchVars>>

\* select: the send is ready iff the channel has room; default is taken only
\* when nothing is ready, that is, when it has none and the context is live.
EmitSend(p, s) ==
  /\ pub[p] = "sending" /\ s \in todo[p]
  /\ \/ chan[s] = "empty" /\ chan' = [chan EXCEPT ![s] = "full"]
     \/ chan[s] = "full" /\ ~pubDone[p] /\ UNCHANGED chan
  /\ todo' = [todo EXCEPT ![p] = @ \ {s}]
  /\ UNCHANGED <<version, pub, pubDone, cutAt, subscribers, watchVars>>

\* select takes ctx.Done: the subscribers left in todo are not notified.
EmitCut(p) ==
  /\ pub[p] = "sending" /\ todo[p] # {} /\ pubDone[p]
  /\ pub' = [pub EXCEPT ![p] = "idle"]
  /\ todo' = [todo EXCEPT ![p] = {}]
  /\ cutAt' = version
  /\ UNCHANGED <<version, pubDone, mgrVars, watchVars>>

EmitEnd(p) ==
  /\ pub[p] = "sending" /\ todo[p] = {}
  /\ pub' = [pub EXCEPT ![p] = "idle"]
  /\ UNCHANGED <<version, todo, pubDone, cutAt, mgrVars, watchVars>>

-----------------------------------------------------------------------------
(* The service that owns a subscription.                                   *)

\* Without callNow the watcher is only owed what is stored from here on.
Subscribe(s) ==
  /\ owner[s] = "idle" /\ NoReader
  /\ subscribers' = subscribers \cup {s}
  /\ chan' = [chan EXCEPT ![s] = "empty"]
  /\ owner' = [owner EXCEPT ![s] = "subscribed"]
  /\ seen' = [seen EXCEPT ![s] = IF s \in CallNow THEN @ ELSE version]
  /\ UNCHANGED <<pubVars, once, ctxDone, watcher>>

\* Watch: the first callback, if asked for, runs on the caller ...
FirstCall(s) ==
  /\ owner[s] = "subscribed" /\ s \in CallNow
  /\ owner' = [owner EXCEPT ![s] = "called"]
  /\ seen' = [seen EXCEPT ![s] = version]
  /\ UNCHANGED <<pubVars, mgrVars, once, ctxDone, watcher>>

\* ... and the goroutine starts.
Watch(s) ==
  /\ owner[s] = IF s \in CallNow THEN "called" ELSE "subscribed"
  /\ owner' = [owner EXCEPT ![s] = "watching"]
  /\ watcher' = [watcher EXCEPT ![s] = "select"]
  /\ UNCHANGED <<pubVars, mgrVars, once, ctxDone, seen>>

\* The parent context of Watch finishes.
ParentDone(s) ==
  /\ owner[s] # "idle" /\ ~ctxDone[s]
  /\ ctxDone' = [ctxDone EXCEPT ![s] = TRUE]
  /\ UNCHANGED <<pubVars, mgrVars, owner, once, watcher, seen>>

OwnerCancel(s) ==
  /\ owner[s] = "watching"
  /\ owner' = [owner EXCEPT ![s] = "cancelling"]
  /\ UNCHANGED <<pubVars, mgrVars, once, ctxDone, watcher, seen>>

\* Mutant: a flag in place of sync.Once, the second caller does not wait.
OwnerReturnEarly(s) ==
  /\ owner[s] = "cancelling" /\ once[s] # "free"
  /\ owner' = [owner EXCEPT ![s] = "stopped"]
  /\ UNCHANGED <<pubVars, mgrVars, once, ctxDone, watcher, seen>>

OwnerReturn(s) ==
  /\ owner[s] = "cancelling" /\ once[s] = "done"
  /\ owner' = [owner EXCEPT ![s] = "stopped"]
  /\ UNCHANGED <<pubVars, mgrVars, once, ctxDone, watcher, seen>>

-----------------------------------------------------------------------------
(* Cancel, run once by the owner or by the watcher's deferred call; the    *)
(* other caller waits for it.                                              *)

CancelCtx(s) ==
  /\ once[s] = "free" /\ (owner[s] = "cancelling" \/ watcher[s] = "exiting")
  /\ once' = [once EXCEPT ![s] = "running"]
  /\ ctxDone' = [ctxDone EXCEPT ![s] = TRUE]
  /\ UNCHANGED <<pubVars, mgrVars, owner, watcher, seen>>

\* Mutant: the channel is closed without the write lock.
UnsubscribeUnlocked(s) ==
  /\ once[s] = "running"
  /\ once' = [once EXCEPT ![s] = "done"]
  /\ subscribers' = subscribers \ {s}
  /\ chan' = [chan EXCEPT ![s] = IF s \in subscribers THEN "closed" ELSE @]
  /\ UNCHANGED <<pubVars, owner, ctxDone, watcher, seen>>

Unsubscribe(s) ==
  /\ once[s] = "running" /\ NoReader
  /\ once' = [once EXCEPT ![s] = "done"]
  /\ subscribers' = subscribers \ {s}
  /\ chan' = [chan EXCEPT ![s] = IF s \in subscribers THEN "closed" ELSE @]
  /\ UNCHANGED <<pubVars, owner, ctxDone, watcher, seen>>

-----------------------------------------------------------------------------
(* The goroutine started by Watch.                                         *)

\* A receive on a closed channel succeeds too: the callback can run again
\* after Cancel until select happens to pick ctx.Done.
Receive(s) ==
  /\ watcher[s] = "select" /\ chan[s] \in {"full", "closed"}
  /\ watcher' = [watcher EXCEPT ![s] = "callback"]
  /\ chan' = [chan EXCEPT ![s] = IF @ = "full" THEN "empty" ELSE @]
  /\ UNCHANGED <<pubVars, subscribers, owner, once, ctxDone, seen>>

\* The callback reads what is stored, and has more to do with it.
Callback(s) ==
  /\ watcher[s] = "callback"
  /\ watcher' = [watcher EXCEPT ![s] = "working"]
  /\ seen' = [seen EXCEPT ![s] = version]
  /\ UNCHANGED <<pubVars, mgrVars, owner, once, ctxDone>>

CallbackReturn(s) ==
  /\ watcher[s] = "working"
  /\ watcher' = [watcher EXCEPT ![s] = "select"]
  /\ UNCHANGED <<pubVars, mgrVars, owner, once, ctxDone, seen>>

\* Mutant: the goroutine drains its channel before it looks at ctx.Done.
WatcherExitDrained(s) ==
  /\ watcher[s] = "select" /\ ctxDone[s] /\ chan[s] = "empty"
  /\ watcher' = [watcher EXCEPT ![s] = "exiting"]
  /\ UNCHANGED <<pubVars, mgrVars, owner, once, ctxDone, seen>>

WatcherExit(s) ==
  /\ watcher[s] = "select" /\ ctxDone[s]
  /\ watcher' = [watcher EXCEPT ![s] = "exiting"]
  /\ UNCHANGED <<pubVars, mgrVars, owner, once, ctxDone, seen>>

WatcherGone(s) ==
  /\ watcher[s] = "exiting" /\ once[s] = "done"
  /\ watcher' = [watcher EXCEPT ![s] = "gone"]
  /\ UNCHANGED <<pubVars, mgrVars, owner, once, ctxDone, seen>>

-----------------------------------------------------------------------------
Publisher(p) ==
  \/ Store(p) \/ CancelPublisher(p)
  \/ EmitBegin(p) \/ EmitCut(p) \/ EmitEnd(p)
  \/ \E s \in Subs : EmitSend(p, s)

Subscription(s) ==
  \/ Subscribe(s) \/ FirstCall(s) \/ Watch(s) \/ ParentDone(s) \/ OwnerCancel(s)
  \/ OwnerReturn(s) \/ CancelCtx(s) \/ Unsubscribe(s)
  \/ Receive(s) \/ Callback(s) \/ CallbackReturn(s)
  \/ WatcherExit(s) \/ WatcherGone(s)

Next == \/ \E p \in Publishers : Publisher(p)
        \/ \E s \in Subs : Subscription(s)

\* Goroutines that can run do run.  Go's RWMutex admits no new reader once a
\* writer waits, and select picks uniformly among the ready cases: neither
\* the write section nor the ctx.Done case is passed over for ever.
Fairness ==
  /\ \A p \in Publishers :
       /\ WF_vars(EmitBegin(p) \/ EmitEnd(p) \/ EmitCut(p))
       /\ \A s \in Subs : WF_vars(EmitSend(p, s))
  /\ \A s \in Subs :
       /\ WF_vars(FirstCall(s)) /\ WF_vars(Watch(s))
       /\ WF_vars(CancelCtx(s)) /\ SF_vars(Unsubscribe(s))
       /\ WF_vars(Receive(s)) /\ WF_vars(Callback(s)) /\ WF_vars(CallbackReturn(s))
       /\ SF_vars(WatcherExit(s))
       /\ WF_vars(OwnerReturn(s)) /\ WF_vars(WatcherGone(s))

Spec == Init /\ [][Next]_vars
FairSpec == Spec /\ Fairness

-----------------------------------------------------------------------------
TypeOK ==
  /\ version \in Nat /\ cutAt \in Nat
  /\ pub \in [Publishers -> {"idle", "stored", "sending"}]
  /\ todo \in [Publishers -> SUBSET Subs]
  /\ pubDone \in [Publishers -> BOOLEAN]
  /\ subscribers \subseteq Subs
  /\ chan \in [Subs -> {"none", "empty", "full", "closed"}]
  /\ owner \in [Subs -> {"idle", "subscribed", "called", "watching",
                         "cancelling", "stopped"}]
  /\ once \in [Subs -> {"free", "running", "done"}]
  /\ ctxDone \in [Subs -> BOOLEAN]
  /\ watcher \in [Subs -> {"none", "select", "callback", "working",
                             "exiting", "gone"}]
  /\ seen \in [Subs -> Nat]

\* Publisher p has still to notify subscription s.
Owes(p, s) == pub[p] = "stored" \/ (pub[p] = "sending" /\ s \in todo[p])

\* s will read the state before it next waits on its channel.
WillRead(s) ==
  \/ chan[s] = "full" \/ watcher[s] = "callback"
  \/ owner[s] = "subscribed" /\ s \in CallNow

\* No lost wake-up.  A registered subscription whose callback has not read
\* the newest state has a token waiting, is about to read, or is owed a
\* notification by a publisher; only an Emit cut short by its context leaves
\* it without one.  The non-blocking send that drops a notification on a full
\* channel, the drain before the read, the registration during an Emit and
\* callNow all have to be right for it.
NoLostWakeup ==
  \A s \in subscribers :
    \/ seen[s] = version \/ WillRead(s) \/ cutAt = version
    \/ \E p \in Publishers : Owes(p, s)

\* Emit never sends on a closed channel (a panic in Go): what an Emit has
\* still to visit stays registered and open until it has been visited.
NoSendOnClosed ==
  \A p \in Publishers : \A s \in todo[p] :
    s \in subscribers /\ chan[s] \in {"empty", "full"}

\* A subscription whose owner's Cancel has returned, or whose goroutine has
\* ended, is out of the manager's map with its channel closed: no later Emit
\* finds it, whichever of the two callers of Cancel came first.
CancelReleases ==
  \A s \in Subs : owner[s] = "stopped" \/ watcher[s] = "gone"
    => s \notin subscribers /\ chan[s] = "closed" /\ ctxDone[s]

\* Every registered watcher catches up with the newest state, unless its own
\* context is cancelled or the Emit of that state is cut short.
Notified ==
  \A s \in Subs :
    (s \in subscribers /\ seen[s] # version)
      ~> (seen[s] = version \/ ctxDone[s] \/ cutAt = version)

\* When its context finishes, or Cancel is called, a watched subscription is
\* unregistered, its goroutine ends and the caller of Cancel returns, however
\* often the closed channel wakes the goroutine up.
CancelEnds ==
  \A s \in Subs :
    /\ (watcher[s] # "none" /\ ctxDone[s]) ~> (watcher[s] = "gone")
    /\ (owner[s] = "cancelling") ~> (owner[s] = "stopped")

-----------------------------------------------------------------------------
\* The watchers that are owed the newest state: registered, past Watch, and
\* with a live context.
Attached == {s \in subscribers : watcher[s] # "none" /\ ~ctxDone[s]}

Abstract == INSTANCE Notification
              WITH attached <- Attached,
                   muted <- (version > 0 /\ cutAt = version)

\* Every behaviour is one of Notification, its fairness included: the manager,
\* its locks and its one-slot channels are nothing more than a way to let
\* attached watchers catch up.
ImplementsNotification == Abstract!ASpec
=============================================================================
