---------------------------- MODULE EventsProofs ----------------------------
(***************************************************************************)
(* Theorems of Events for any sets of publishers and subscriptions.        *)
(*                                                                         *)
(* IInv is the inductive invariant.  NoSendOnClosed needs ReadSection (only*)
(* a publisher inside the read section has anything left to visit, and all *)
(* of it is registered); CancelReleases needs Lifecycle, the order in      *)
(* which the owner, the watcher and sync.Once go through a subscription.   *)
(***************************************************************************)
EXTENDS Events, TLAPS

\* Outside Emit's read section nothing is left to visit; inside it what is
\* left is registered.
ReadSection ==
  \A p \in Publishers :
    /\ pub[p] # "sending" => todo[p] = {}
    /\ todo[p] \subseteq subscribers

\* How owner, watcher, once, context and channel of a subscription move
\* together.
Lifecycle ==
  \A s \in Subs :
    /\ s \in subscribers <=> chan[s] \in {"empty", "full"}
    /\ owner[s] = "idle" <=> chan[s] = "none"
    /\ owner[s] \in {"idle", "subscribed", "called"} <=> watcher[s] = "none"
    /\ owner[s] \in {"idle", "subscribed", "called"} => once[s] = "free"
    /\ once[s] # "free" => ctxDone[s]
    /\ once[s] = "done" <=> chan[s] = "closed"
    /\ owner[s] = "stopped" => once[s] = "done"
    /\ watcher[s] = "gone" => once[s] = "done"

IInv == TypeOK /\ ReadSection /\ Lifecycle /\ NoLostWakeup

-----------------------------------------------------------------------------
\* Type correctness: every variable keeps its type.
THEOREM TypeCorrect == Spec => []TypeOK
<1>1. Init => TypeOK
  BY EventsAssumption DEF Init, TypeOK
<1>2. TypeOK /\ [Next]_vars => TypeOK'
  <2> SUFFICES ASSUME TypeOK, [Next]_vars PROVE TypeOK'
    OBVIOUS
  <2> USE EventsAssumption DEF TypeOK, mgrVars, pubVars, watchVars
  <2>1. ASSUME NEW p \in Publishers, Store(p) PROVE TypeOK'
    BY <2>1 DEF Store
  <2>2. ASSUME NEW p \in Publishers, CancelPublisher(p) PROVE TypeOK'
    BY <2>2 DEF CancelPublisher
  <2>3. ASSUME NEW p \in Publishers, EmitBegin(p) PROVE TypeOK'
    BY <2>3 DEF EmitBegin
  <2>4. ASSUME NEW p \in Publishers, EmitCut(p) PROVE TypeOK'
    BY <2>4 DEF EmitCut
  <2>5. ASSUME NEW p \in Publishers, EmitEnd(p) PROVE TypeOK'
    BY <2>5 DEF EmitEnd
  <2>6. ASSUME NEW p \in Publishers, NEW s \in Subs, EmitSend(p, s)
        PROVE TypeOK'
    BY <2>6 DEF EmitSend
  <2>7. ASSUME NEW s \in Subs, Subscribe(s) PROVE TypeOK'
    BY <2>7 DEF Subscribe
  <2>8. ASSUME NEW s \in Subs, Watch(s) PROVE TypeOK'
    BY <2>8 DEF Watch
  <2>9. ASSUME NEW s \in Subs, ParentDone(s) PROVE TypeOK'
    BY <2>9 DEF ParentDone
  <2>10. ASSUME NEW s \in Subs, OwnerCancel(s) PROVE TypeOK'
    BY <2>10 DEF OwnerCancel
  <2>11. ASSUME NEW s \in Subs, OwnerReturn(s) PROVE TypeOK'
    BY <2>11 DEF OwnerReturn
  <2>12. ASSUME NEW s \in Subs, CancelCtx(s) PROVE TypeOK'
    BY <2>12 DEF CancelCtx
  <2>13. ASSUME NEW s \in Subs, Unsubscribe(s) PROVE TypeOK'
    BY <2>13 DEF Unsubscribe
  <2>14. ASSUME NEW s \in Subs, Receive(s) PROVE TypeOK'
    BY <2>14 DEF Receive
  <2>15. ASSUME NEW s \in Subs, Callback(s) PROVE TypeOK'
    BY <2>15 DEF Callback
  <2>16. ASSUME NEW s \in Subs, WatcherExit(s) PROVE TypeOK'
    BY <2>16 DEF WatcherExit
  <2>17. ASSUME NEW s \in Subs, WatcherGone(s) PROVE TypeOK'
    BY <2>17 DEF WatcherGone
  <2>18. ASSUME NEW s \in Subs, FirstCall(s) PROVE TypeOK'
    BY <2>18 DEF FirstCall
  <2>19. ASSUME NEW s \in Subs, CallbackReturn(s) PROVE TypeOK'
    BY <2>19 DEF CallbackReturn
  <2>20. CASE UNCHANGED vars
    BY <2>20 DEF vars
  <2> QED
    BY <2>1, <2>2, <2>3, <2>4, <2>5, <2>6, <2>7, <2>8, <2>9, <2>10, <2>11,
       <2>12, <2>13, <2>14, <2>15, <2>16, <2>17, <2>18, <2>19, <2>20
    DEF Next, Publisher, Subscription
<1> QED
  BY <1>1, <1>2, PTL DEF Spec

-----------------------------------------------------------------------------
\* The read section of Emit is preserved: the writers wait for NoReader.
LEMMA ReadSectionStep ==
  TypeOK /\ ReadSection /\ [Next]_vars => ReadSection'
<1> SUFFICES ASSUME TypeOK /\ ReadSection, [Next]_vars
    PROVE ReadSection'
  OBVIOUS
<1> USE DEF TypeOK, ReadSection, mgrVars, pubVars, watchVars
<1>1. ASSUME NEW p \in Publishers, Store(p) PROVE ReadSection'
  BY <1>1 DEF Store
<1>2. ASSUME NEW p \in Publishers, CancelPublisher(p) PROVE ReadSection'
  BY <1>2 DEF CancelPublisher
<1>3. ASSUME NEW p \in Publishers, EmitBegin(p) PROVE ReadSection'
  BY <1>3 DEF EmitBegin
<1>4. ASSUME NEW p \in Publishers, EmitCut(p) PROVE ReadSection'
  BY <1>4 DEF EmitCut
<1>5. ASSUME NEW p \in Publishers, EmitEnd(p) PROVE ReadSection'
  BY <1>5 DEF EmitEnd
<1>6. ASSUME NEW p \in Publishers, NEW s \in Subs, EmitSend(p, s) PROVE ReadSection'
  BY <1>6 DEF EmitSend
<1>7. ASSUME NEW s \in Subs, Subscribe(s) PROVE ReadSection'
  BY <1>7 DEF Subscribe, NoReader
<1>8. ASSUME NEW s \in Subs, Watch(s) PROVE ReadSection'
  BY <1>8 DEF Watch
<1>9. ASSUME NEW s \in Subs, ParentDone(s) PROVE ReadSection'
  BY <1>9 DEF ParentDone
<1>10. ASSUME NEW s \in Subs, OwnerCancel(s) PROVE ReadSection'
  BY <1>10 DEF OwnerCancel
<1>11. ASSUME NEW s \in Subs, OwnerReturn(s) PROVE ReadSection'
  BY <1>11 DEF OwnerReturn
<1>12. ASSUME NEW s \in Subs, CancelCtx(s) PROVE ReadSection'
  BY <1>12 DEF CancelCtx
<1>13. ASSUME NEW s \in Subs, Unsubscribe(s) PROVE ReadSection'
  BY <1>13 DEF Unsubscribe, NoReader
<1>14. ASSUME NEW s \in Subs, Receive(s) PROVE ReadSection'
  BY <1>14 DEF Receive
<1>15. ASSUME NEW s \in Subs, Callback(s) PROVE ReadSection'
  BY <1>15 DEF Callback
<1>16. ASSUME NEW s \in Subs, WatcherExit(s) PROVE ReadSection'
  BY <1>16 DEF WatcherExit
<1>17. ASSUME NEW s \in Subs, WatcherGone(s) PROVE ReadSection'
  BY <1>17 DEF WatcherGone
<1>18. ASSUME NEW s \in Subs, FirstCall(s) PROVE ReadSection'
  BY <1>18 DEF FirstCall
<1>19. ASSUME NEW s \in Subs, CallbackReturn(s) PROVE ReadSection'
  BY <1>19 DEF CallbackReturn
<1>20. CASE UNCHANGED vars
  BY <1>20 DEF vars
<1> QED
  BY <1>1, <1>2, <1>3, <1>4, <1>5, <1>6, <1>7, <1>8, <1>9, <1>10, <1>11,
     <1>12, <1>13, <1>14, <1>15, <1>16, <1>17, <1>18, <1>19, <1>20
  DEF Next, Publisher, Subscription

\* Lifecycle is preserved.
LEMMA LifecycleStep ==
  TypeOK /\ ReadSection /\ Lifecycle /\ [Next]_vars => Lifecycle'
<1> SUFFICES ASSUME TypeOK /\ ReadSection /\ Lifecycle, [Next]_vars
    PROVE Lifecycle'
  OBVIOUS
<1> USE DEF TypeOK, ReadSection, Lifecycle, mgrVars, pubVars, watchVars
<1>1. ASSUME NEW p \in Publishers, Store(p) PROVE Lifecycle'
  BY <1>1 DEF Store
<1>2. ASSUME NEW p \in Publishers, CancelPublisher(p) PROVE Lifecycle'
  BY <1>2 DEF CancelPublisher
<1>3. ASSUME NEW p \in Publishers, EmitBegin(p) PROVE Lifecycle'
  BY <1>3 DEF EmitBegin
<1>4. ASSUME NEW p \in Publishers, EmitCut(p) PROVE Lifecycle'
  BY <1>4 DEF EmitCut
<1>5. ASSUME NEW p \in Publishers, EmitEnd(p) PROVE Lifecycle'
  BY <1>5 DEF EmitEnd
<1>6. ASSUME NEW p \in Publishers, NEW s \in Subs, EmitSend(p, s) PROVE Lifecycle'
  BY <1>6 DEF EmitSend
<1>7. ASSUME NEW s \in Subs, Subscribe(s) PROVE Lifecycle'
  BY <1>7 DEF Subscribe
<1>8. ASSUME NEW s \in Subs, Watch(s) PROVE Lifecycle'
  BY <1>8 DEF Watch
<1>9. ASSUME NEW s \in Subs, ParentDone(s) PROVE Lifecycle'
  BY <1>9 DEF ParentDone
<1>10. ASSUME NEW s \in Subs, OwnerCancel(s) PROVE Lifecycle'
  BY <1>10 DEF OwnerCancel
<1>11. ASSUME NEW s \in Subs, OwnerReturn(s) PROVE Lifecycle'
  BY <1>11 DEF OwnerReturn
<1>12. ASSUME NEW s \in Subs, CancelCtx(s) PROVE Lifecycle'
  BY <1>12 DEF CancelCtx
<1>13. ASSUME NEW s \in Subs, Unsubscribe(s) PROVE Lifecycle'
  BY <1>13 DEF Unsubscribe
<1>14. ASSUME NEW s \in Subs, Receive(s) PROVE Lifecycle'
  BY <1>14 DEF Receive
<1>15. ASSUME NEW s \in Subs, Callback(s) PROVE Lifecycle'
  BY <1>15 DEF Callback
<1>16. ASSUME NEW s \in Subs, WatcherExit(s) PROVE Lifecycle'
  BY <1>16 DEF WatcherExit
<1>17. ASSUME NEW s \in Subs, WatcherGone(s) PROVE Lifecycle'
  BY <1>17 DEF WatcherGone
<1>18. ASSUME NEW s \in Subs, FirstCall(s) PROVE Lifecycle'
  BY <1>18 DEF FirstCall
<1>19. ASSUME NEW s \in Subs, CallbackReturn(s) PROVE Lifecycle'
  BY <1>19 DEF CallbackReturn
<1>20. CASE UNCHANGED vars
  BY <1>20 DEF vars
<1> QED
  BY <1>1, <1>2, <1>3, <1>4, <1>5, <1>6, <1>7, <1>8, <1>9, <1>10, <1>11,
     <1>12, <1>13, <1>14, <1>15, <1>16, <1>17, <1>18, <1>19, <1>20
  DEF Next, Publisher, Subscription

\* No step loses a wake-up.
LEMMA NoLostWakeupStep ==
  IInv /\ [Next]_vars => NoLostWakeup'
<1> SUFFICES ASSUME IInv, [Next]_vars
    PROVE NoLostWakeup'
  OBVIOUS
<1> USE DEF IInv, TypeOK, ReadSection, Lifecycle, NoLostWakeup, WillRead, Owes,
  mgrVars, pubVars, watchVars
<1>1. ASSUME NEW p \in Publishers, Store(p) PROVE NoLostWakeup'
  BY <1>1 DEF Store
<1>2. ASSUME NEW p \in Publishers, CancelPublisher(p) PROVE NoLostWakeup'
  BY <1>2 DEF CancelPublisher
<1>3. ASSUME NEW p \in Publishers, EmitBegin(p) PROVE NoLostWakeup'
  BY <1>3 DEF EmitBegin
<1>4. ASSUME NEW p \in Publishers, EmitCut(p) PROVE NoLostWakeup'
  BY <1>4 DEF EmitCut
<1>5. ASSUME NEW p \in Publishers, EmitEnd(p) PROVE NoLostWakeup'
  BY <1>5 DEF EmitEnd
<1>6. ASSUME NEW p \in Publishers, NEW s \in Subs, EmitSend(p, s) PROVE NoLostWakeup'
  BY <1>6 DEF EmitSend
<1>7. ASSUME NEW s \in Subs, Subscribe(s) PROVE NoLostWakeup'
  BY <1>7 DEF Subscribe
<1>8. ASSUME NEW s \in Subs, Watch(s) PROVE NoLostWakeup'
  BY <1>8 DEF Watch
<1>9. ASSUME NEW s \in Subs, ParentDone(s) PROVE NoLostWakeup'
  BY <1>9 DEF ParentDone
<1>10. ASSUME NEW s \in Subs, OwnerCancel(s) PROVE NoLostWakeup'
  BY <1>10 DEF OwnerCancel
<1>11. ASSUME NEW s \in Subs, OwnerReturn(s) PROVE NoLostWakeup'
  BY <1>11 DEF OwnerReturn
<1>12. ASSUME NEW s \in Subs, CancelCtx(s) PROVE NoLostWakeup'
  BY <1>12 DEF CancelCtx
<1>13. ASSUME NEW s \in Subs, Unsubscribe(s) PROVE NoLostWakeup'
  BY <1>13 DEF Unsubscribe
<1>14. ASSUME NEW s \in Subs, Receive(s) PROVE NoLostWakeup'
  BY <1>14 DEF Receive
<1>15. ASSUME NEW s \in Subs, Callback(s) PROVE NoLostWakeup'
  BY <1>15 DEF Callback
<1>16. ASSUME NEW s \in Subs, WatcherExit(s) PROVE NoLostWakeup'
  BY <1>16 DEF WatcherExit
<1>17. ASSUME NEW s \in Subs, WatcherGone(s) PROVE NoLostWakeup'
  BY <1>17 DEF WatcherGone
<1>18. ASSUME NEW s \in Subs, FirstCall(s) PROVE NoLostWakeup'
  BY <1>18 DEF FirstCall
<1>19. ASSUME NEW s \in Subs, CallbackReturn(s) PROVE NoLostWakeup'
  BY <1>19 DEF CallbackReturn
<1>20. CASE UNCHANGED vars
  BY <1>20 DEF vars
<1> QED
  BY <1>1, <1>2, <1>3, <1>4, <1>5, <1>6, <1>7, <1>8, <1>9, <1>10, <1>11,
     <1>12, <1>13, <1>14, <1>15, <1>16, <1>17, <1>18, <1>19, <1>20
  DEF Next, Publisher, Subscription

-----------------------------------------------------------------------------
\* IInv is inductive.
LEMMA Inductive == Spec => []IInv
<1>1. Init => TypeOK
  BY EventsAssumption DEF Init, TypeOK
<1>2. Init => ReadSection /\ Lifecycle /\ NoLostWakeup
  BY DEF Init, ReadSection, Lifecycle, NoLostWakeup
<1>3. IInv /\ [Next]_vars => (ReadSection /\ Lifecycle /\ NoLostWakeup)'
  BY ReadSectionStep, LifecycleStep, NoLostWakeupStep DEF IInv
<1> QED
  BY <1>1, <1>2, <1>3, TypeCorrect, PTL DEF Spec, IInv

\* No lost wake-up, for any number of publishers and subscriptions: a
\* registered subscription that has not read the newest state is going to.
THEOREM WakeupsAreNotLost == Spec => []NoLostWakeup
  BY Inductive, PTL DEF IInv

\* Emit never sends on a closed channel.
THEOREM NoPanicInEmit == Spec => []NoSendOnClosed
<1>1. IInv => NoSendOnClosed
  BY DEF IInv, TypeOK, ReadSection, Lifecycle, NoSendOnClosed
<1> QED
  BY <1>1, Inductive, PTL

\* A subscription whose Cancel has returned, or whose goroutine has ended, is
\* out of the manager's map with its channel closed.
THEOREM CancelIsComplete == Spec => []CancelReleases
<1>1. IInv => CancelReleases
  BY DEF IInv, Lifecycle, CancelReleases
<1> QED
  BY <1>1, Inductive, PTL

-----------------------------------------------------------------------------
\* Nothing is announced before the first store, and no Emit is cut short ahead
\* of the stores.
PublishedFirst ==
  /\ cutAt <= version
  /\ \A p \in Publishers : pub[p] # "idle" => version > 0

LEMMA PublishedFirstInv == Spec => []PublishedFirst
<1>1. Init => PublishedFirst
  BY DEF Init, PublishedFirst
<1>2. TypeOK /\ PublishedFirst /\ [Next]_vars => PublishedFirst'
  BY DEF Next, Publisher, Subscription, TypeOK, PublishedFirst,
         Store, CancelPublisher, EmitBegin, EmitSend, EmitCut, EmitEnd,
         Subscribe, FirstCall, Watch, ParentDone, OwnerCancel, OwnerReturn,
         CancelCtx, Unsubscribe, Receive, Callback, CallbackReturn, WatcherExit,
         WatcherGone,
         vars, pubVars, mgrVars, watchVars
<1> QED
  BY <1>1, <1>2, TypeCorrect, PTL DEF Spec

\* Every step of the manager, its publishers and its subscriptions is a step
\* of Notification or leaves the abstract state alone.  Fairness is left to
\* the model checker (run events).
THEOREM EventsRefinesNotification == Spec => Abstract!ASafety
<1>1. Init => Abstract!AInit
  BY DEF Init, Abstract!AInit, Attached
<1>2. IInv /\ PublishedFirst /\ PublishedFirst' /\ IInv' /\ [Next]_vars
        => [Abstract!ANext]_(Abstract!avars)
  <2> SUFFICES ASSUME IInv, PublishedFirst, PublishedFirst', IInv', [Next]_vars
      PROVE [Abstract!ANext]_(Abstract!avars)
    OBVIOUS
  <2> USE DEF IInv, TypeOK, Lifecycle, PublishedFirst, Attached, mgrVars, pubVars,
          watchVars
  <2>1. ASSUME NEW p \in Publishers, Store(p) PROVE Abstract!Change
    <3>1. (version > 0 /\ cutAt = version)' = FALSE
      BY <2>1 DEF Store
    <3> QED
      BY <2>1, <3>1 DEF Store, Abstract!Change
  <2>2. ASSUME NEW p \in Publishers, CancelPublisher(p)
        PROVE UNCHANGED Abstract!avars
    BY <2>2 DEF CancelPublisher, Abstract!avars
  <2>3. ASSUME NEW p \in Publishers, EmitBegin(p)
        PROVE UNCHANGED Abstract!avars
    BY <2>3 DEF EmitBegin, Abstract!avars
  <2>4. ASSUME NEW p \in Publishers, EmitCut(p) PROVE Abstract!Mute
    <3>1. (version > 0 /\ cutAt = version)' = TRUE
      BY <2>4 DEF EmitCut
    <3> QED
      BY <2>4, <3>1 DEF EmitCut, Abstract!Mute
  <2>5. ASSUME NEW p \in Publishers, EmitEnd(p)
        PROVE UNCHANGED Abstract!avars
    BY <2>5 DEF EmitEnd, Abstract!avars
  <2>6. ASSUME NEW p \in Publishers, NEW s \in Subs, EmitSend(p, s)
        PROVE UNCHANGED Abstract!avars
    BY <2>6 DEF EmitSend, Abstract!avars
  <2>7. ASSUME NEW s \in Subs, Subscribe(s)
        PROVE Abstract!Observe(s) \/ UNCHANGED Abstract!avars
    <3>1. Attached' = Attached
      BY <2>7 DEF Subscribe
    <3>2. CASE s \in CallNow
      BY <2>7, <3>1, <3>2 DEF Subscribe, Abstract!avars
    <3>3. CASE s \notin CallNow
      BY <2>7, <3>1, <3>3 DEF Subscribe, Abstract!Observe
    <3> QED
      BY <3>2, <3>3
  <2>8. ASSUME NEW s \in Subs, Watch(s)
        PROVE Abstract!Attach(s) \/ UNCHANGED Abstract!avars
    <3>1. CASE ~ctxDone[s]
      BY <2>8, <3>1 DEF Watch, Abstract!Attach
    <3>2. CASE ctxDone[s]
      BY <2>8, <3>2 DEF Watch, Abstract!avars
    <3> QED
      BY <3>1, <3>2
  <2>9. ASSUME NEW s \in Subs, ParentDone(s) PROVE Abstract!Detach(s)
    BY <2>9 DEF ParentDone, Abstract!Detach
  <2>10. ASSUME NEW s \in Subs, OwnerCancel(s)
        PROVE UNCHANGED Abstract!avars
    BY <2>10 DEF OwnerCancel, Abstract!avars
  <2>11. ASSUME NEW s \in Subs, OwnerReturn(s)
        PROVE UNCHANGED Abstract!avars
    BY <2>11 DEF OwnerReturn, Abstract!avars
  <2>12. ASSUME NEW s \in Subs, CancelCtx(s) PROVE Abstract!Detach(s)
    BY <2>12 DEF CancelCtx, Abstract!Detach
  <2>13. ASSUME NEW s \in Subs, Unsubscribe(s)
        PROVE UNCHANGED Abstract!avars
    BY <2>13 DEF Unsubscribe, Abstract!avars
  <2>14. ASSUME NEW s \in Subs, Receive(s)
        PROVE UNCHANGED Abstract!avars
    BY <2>14 DEF Receive, Abstract!avars
  <2>15. ASSUME NEW s \in Subs, Callback(s) PROVE Abstract!Observe(s)
    BY <2>15 DEF Callback, Abstract!Observe
  <2>16. ASSUME NEW s \in Subs, WatcherExit(s)
        PROVE UNCHANGED Abstract!avars
    BY <2>16 DEF WatcherExit, Abstract!avars
  <2>17. ASSUME NEW s \in Subs, WatcherGone(s)
        PROVE UNCHANGED Abstract!avars
    BY <2>17 DEF WatcherGone, Abstract!avars
  <2>18. ASSUME NEW s \in Subs, FirstCall(s) PROVE Abstract!Observe(s)
    BY <2>18 DEF FirstCall, Abstract!Observe
  <2>19. ASSUME NEW s \in Subs, CallbackReturn(s)
        PROVE UNCHANGED Abstract!avars
    BY <2>19 DEF CallbackReturn, Abstract!avars
  <2>20. CASE UNCHANGED vars
    BY <2>20 DEF vars, Abstract!avars
  <2> QED
    BY <2>1, <2>2, <2>3, <2>4, <2>5, <2>6, <2>7, <2>8, <2>9, <2>10,
       <2>11, <2>12, <2>13, <2>14, <2>15, <2>16, <2>17, <2>18, <2>19, <2>20
    DEF Next, Publisher, Subscription, Abstract!ANext
<1> QED
  BY <1>1, <1>2, Inductive, PublishedFirstInv, PTL DEF Spec, Abstract!ASafety
=============================================================================
