--------------------------- MODULE LifecycleProofs ---------------------------
(***************************************************************************)
(* Proofs about what is started and stopped: a Scheduler, and the services *)
(* that main starts in order and stops in the reverse order (Pipeline).    *)
(* The two share no variable.                                              *)
(***************************************************************************)
EXTENDS Scheduler, Pipeline, TLAPS

-----------------------------------------------------------------------------
(* The scheduler, for any callers, task goroutines and number of Starts.   *)
(* IInv adds to the type the two invariants the properties rest on:        *)
(* LoopInv ties the loop goroutine to `running` and the newest context (a  *)
(* waiting Stop keeps both), TaskInv ties the mutex taskRunning to the one *)
(* task goroutine that holds it.                                           *)

LoopInv ==
  /\ LoopOnlyWhileRunning
  /\ RunningHasLoop
  /\ stopping # {} => running
  /\ running => gen \in Gens

TaskInv ==
  /\ NoOverlap
  /\ \A t \in Tasks : Active(t) => taskRunning

IInv == TypeOK /\ LoopInv /\ TaskInv

-----------------------------------------------------------------------------
\* The values a task goroutine takes are task states.
LEMMA TaskStates ==
  /\ Idle \in TaskState
  /\ \A g \in Gens : [state |-> "spawned", ctx |-> g] \in TaskState
  /\ \A r \in TaskState : [r EXCEPT !.state = "executing"] \in TaskState
<1>1. 0 \in 0 .. MaxGen /\ \A g \in Gens : g \in 0 .. MaxGen
  BY SchedulerAssumption DEF Gens
<1> QED
  BY <1>1 DEF Idle, TaskState

\* Every step keeps the types.
LEMMA TypeOKStep ==
  TypeOK /\ [Next]_vars => TypeOK'
<1> SUFFICES ASSUME TypeOK, [Next]_vars
    PROVE TypeOK'
  OBVIOUS
<1> USE SchedulerAssumption, TaskStates DEF TypeOK, Gens, loopVars, taskVars
<1>1. ASSUME NEW first \in BOOLEAN, Start(first) PROVE TypeOK'
  BY <1>1 DEF Start, MuFree
<1>2. ASSUME NEW c \in Callers, StopBegin(c) PROVE TypeOK'
  BY <1>2 DEF StopBegin, MuFree
<1>3. ASSUME NEW c \in Callers, StopEnd(c) PROVE TypeOK'
  BY <1>3 DEF StopEnd
<1>4. ASSUME NEW g \in Gens, ParentDone(g) PROVE TypeOK'
  BY <1>4 DEF ParentDone
<1>5. ASSUME NEW g \in Gens, LoopFirst(g) PROVE TypeOK'
  BY <1>5 DEF LoopFirst, runTaskIfNotRunning
<1>6. ASSUME NEW g \in Gens, Tick(g) PROVE TypeOK'
  BY <1>6 DEF Tick
<1>7. ASSUME NEW g \in Gens, LoopTick(g) PROVE TypeOK'
  BY <1>7 DEF LoopTick, runTaskIfNotRunning
<1>8. ASSUME NEW g \in Gens, LoopExit(g) PROVE TypeOK'
  BY <1>8 DEF LoopExit
<1>9. ASSUME NEW t \in Tasks, TaskBegin(t) PROVE TypeOK'
  BY <1>9 DEF TaskBegin
<1>10. ASSUME NEW t \in Tasks, TaskEnd(t) PROVE TypeOK'
  BY <1>10 DEF TaskEnd
<1>11. CASE UNCHANGED vars
  BY <1>11 DEF vars
<1> QED
  BY <1>1, <1>2, <1>3, <1>4, <1>5, <1>6, <1>7, <1>8, <1>9, <1>10, <1>11
  DEF Next

\* Every step keeps the loop tied to the newest context.
LEMMA LoopInvStep ==
  TypeOK /\ LoopInv /\ [Next]_vars => LoopInv'
<1> SUFFICES ASSUME TypeOK /\ LoopInv, [Next]_vars
    PROVE LoopInv'
  OBVIOUS
<1> USE SchedulerAssumption DEF TypeOK, TaskState, LoopInv, LoopOnlyWhileRunning, RunningHasLoop, LoopAlive, Gens,
  loopVars, taskVars
<1>1. ASSUME NEW first \in BOOLEAN, Start(first) PROVE LoopInv'
  BY <1>1 DEF Start, MuFree
<1>2. ASSUME NEW c \in Callers, StopBegin(c) PROVE LoopInv'
  BY <1>2 DEF StopBegin, MuFree
<1>3. ASSUME NEW c \in Callers, StopEnd(c) PROVE LoopInv'
  BY <1>3 DEF StopEnd
<1>4. ASSUME NEW g \in Gens, ParentDone(g) PROVE LoopInv'
  BY <1>4 DEF ParentDone
<1>5. ASSUME NEW g \in Gens, LoopFirst(g) PROVE LoopInv'
  BY <1>5 DEF LoopFirst, runTaskIfNotRunning
<1>6. ASSUME NEW g \in Gens, Tick(g) PROVE LoopInv'
  BY <1>6 DEF Tick
<1>7. ASSUME NEW g \in Gens, LoopTick(g) PROVE LoopInv'
  BY <1>7 DEF LoopTick, runTaskIfNotRunning
<1>8. ASSUME NEW g \in Gens, LoopExit(g) PROVE LoopInv'
  BY <1>8 DEF LoopExit
<1>9. ASSUME NEW t \in Tasks, TaskBegin(t) PROVE LoopInv'
  BY <1>9 DEF TaskBegin
<1>10. ASSUME NEW t \in Tasks, TaskEnd(t) PROVE LoopInv'
  BY <1>10 DEF TaskEnd
<1>11. CASE UNCHANGED vars
  BY <1>11 DEF vars
<1> QED
  BY <1>1, <1>2, <1>3, <1>4, <1>5, <1>6, <1>7, <1>8, <1>9, <1>10, <1>11
  DEF Next

\* Every step keeps the mutex with the one active task.
LEMMA TaskInvStep ==
  TypeOK /\ TaskInv /\ [Next]_vars => TaskInv'
<1> SUFFICES ASSUME TypeOK /\ TaskInv, [Next]_vars
    PROVE TaskInv'
  OBVIOUS
<1> USE SchedulerAssumption DEF TypeOK, TaskState, TaskInv, NoOverlap, Active, Idle, loopVars, taskVars
<1>1. ASSUME NEW first \in BOOLEAN, Start(first) PROVE TaskInv'
  BY <1>1 DEF Start, MuFree
<1>2. ASSUME NEW c \in Callers, StopBegin(c) PROVE TaskInv'
  BY <1>2 DEF StopBegin, MuFree
<1>3. ASSUME NEW c \in Callers, StopEnd(c) PROVE TaskInv'
  BY <1>3 DEF StopEnd
<1>4. ASSUME NEW g \in Gens, ParentDone(g) PROVE TaskInv'
  BY <1>4 DEF ParentDone
<1>5. ASSUME NEW g \in Gens, LoopFirst(g) PROVE TaskInv'
  BY <1>5 DEF LoopFirst, runTaskIfNotRunning
<1>6. ASSUME NEW g \in Gens, Tick(g) PROVE TaskInv'
  BY <1>6 DEF Tick
<1>7. ASSUME NEW g \in Gens, LoopTick(g) PROVE TaskInv'
  BY <1>7 DEF LoopTick, runTaskIfNotRunning
<1>8. ASSUME NEW g \in Gens, LoopExit(g) PROVE TaskInv'
  BY <1>8 DEF LoopExit
<1>9. ASSUME NEW t \in Tasks, TaskBegin(t) PROVE TaskInv'
  BY <1>9 DEF TaskBegin
<1>10. ASSUME NEW t \in Tasks, TaskEnd(t) PROVE TaskInv'
  BY <1>10 DEF TaskEnd
<1>11. CASE UNCHANGED vars
  BY <1>11 DEF vars
<1> QED
  BY <1>1, <1>2, <1>3, <1>4, <1>5, <1>6, <1>7, <1>8, <1>9, <1>10, <1>11
  DEF Next

-----------------------------------------------------------------------------
\* Type correctness of the scheduler.
THEOREM TypeCorrect == Spec => []TypeOK
<1>1. Init => TypeOK
  <2> SUFFICES ASSUME Init PROVE TypeOK
    OBVIOUS
  <2>1. running \in BOOLEAN /\ taskRunning \in BOOLEAN /\ ~running
    BY DEF Init
  <2>2. gen \in 0 .. MaxGen
    BY SchedulerAssumption DEF Init
  <2>3. task \in [Tasks -> TaskState]
    BY TaskStates DEF Init
  <2>4. /\ done \subseteq Gens /\ stopping \subseteq Callers
        /\ loop \in [Gens -> {"none", "first", "select", "gone"}]
        /\ tick \in [Gens -> BOOLEAN]
    BY DEF Init
  <2> QED
    BY <2>1, <2>2, <2>3, <2>4 DEF TypeOK
<1> QED
  BY <1>1, TypeOKStep, PTL DEF Spec

\* IInv is inductive.
LEMMA Inductive == Spec => []IInv
<1>1. Init => LoopInv /\ TaskInv
  BY DEF Init, LoopInv, TaskInv, LoopOnlyWhileRunning, RunningHasLoop,
         LoopAlive, NoOverlap, Active, Idle
<1> QED
  BY <1>1, TypeCorrect, LoopInvStep, TaskInvStep, PTL DEF Spec, IInv

\* At most one task is in flight, across any number of Stops and Starts.
THEOREM TasksDoNotOverlap == Spec => []NoOverlap
  BY Inductive, PTL DEF IInv, TaskInv

\* There is never a loop beside the newest context of a running scheduler.
THEOREM OneLoop == Spec => []LoopOnlyWhileRunning
  BY Inductive, PTL DEF IInv, LoopInv

\* Start is refused only when there is a loop or the context is cancelled.
THEOREM LoopWhileRunning == Spec => []RunningHasLoop
  BY Inductive, PTL DEF IInv, LoopInv

\* No task is taken up for a stopped scheduler or a context of the past.
THEOREM SpawnsAreCurrent == Spec => SpawnOnlyWhileRunning
<1>1. IInv /\ [Next]_vars
        => [\A t \in Tasks : ~Active(t) /\ Active(t)'
                               => running /\ task'[t].ctx = gen]_vars
  <2> SUFFICES ASSUME IInv, Next, NEW t \in Tasks, ~Active(t), Active(t)'
      PROVE running /\ task'[t].ctx = gen
    OBVIOUS
  <2> USE DEF IInv, TypeOK, TaskState, LoopInv, LoopOnlyWhileRunning, LoopAlive, Active, Idle
  <2>1. PICK g \in Gens : LoopFirst(g) \/ LoopTick(g)
    BY DEF Next, Start, StopBegin, StopEnd, ParentDone, Tick, LoopExit,
           TaskBegin, TaskEnd, taskVars
  <2>2. task'[t].ctx = g
    BY <2>1 DEF LoopFirst, LoopTick, runTaskIfNotRunning, taskVars
  <2> QED
    BY <2>1, <2>2 DEF LoopFirst, LoopTick
<1> QED
  BY <1>1, Inductive, PTL DEF Spec, SpawnOnlyWhileRunning

-----------------------------------------------------------------------------
(* The services.  Order is inductive: those that are up are the first ones *)
(* of Services, up to the one that main starts or stops next, and only     *)
(* they can have subscriptions.                                            *)

\* The place in Services of a watcher's own service, and of its provider.
Owner(w) == IF w = "markets.tokens" THEN 4
            ELSE IF w \in {"leaderboard.markets", "leaderboard.prices"} THEN 9 ELSE 6
Source(w) == IF w \in {"markets.tokens", "prices.tokens"} THEN 2
             ELSE IF w = "leaderboard.prices" THEN 6 ELSE 4

AllWatchers == {"markets.tokens", "prices.tokens", "prices.markets", "leaderboard.markets",
                "prices.initialized", "leaderboard.prices"}

\* The six subscriptions.
LEMMA WatcherSet == Watchers = AllWatchers
<1>1. WatchersFor("tokens") = {"markets.tokens", "prices.tokens"}
  BY DEF WatchersFor
<1>2. WatchersFor("markets") = {"prices.markets", "leaderboard.markets"}
  BY DEF WatchersFor
<1>3. WatchersFor("initialized") = {"prices.initialized"}
  BY DEF WatchersFor
<1>4. WatchersFor("prices") = {"leaderboard.prices"}
  BY DEF WatchersFor
<1>5. QED
  BY <1>1, <1>2, <1>3, <1>4 DEF Watchers, AllWatchers, Events, Sources

\* A provider comes before the service that listens to it.
LEMMA Providers ==
  ASSUME NEW w \in Watchers
  PROVE  /\ Provider(w) = Services[Source(w)]
         /\ Source(w) \in 1 .. Owner(w) - 1 /\ Owner(w) \in 1 .. 10
<1>1. w \in AllWatchers
  BY WatcherSet
<1>2. \E e \in Events : w \in WatchersFor(e)
  BY DEF Watchers
<1>3. EventOf(w) \in Events /\ w \in WatchersFor(EventOf(w))
  BY <1>2 DEF EventOf
<1>4. EventOf(w) = IF w \in {"markets.tokens", "prices.tokens"} THEN "tokens"
                   ELSE IF w \in {"prices.markets", "leaderboard.markets"} THEN "markets"
                   ELSE IF w = "prices.initialized" THEN "initialized" ELSE "prices"
  BY <1>1, <1>3 DEF WatchersFor, Events, Sources, AllWatchers
<1>5. Provider(w) = IF w \in {"markets.tokens", "prices.tokens"} THEN "tokens"
                    ELSE IF w = "leaderboard.prices" THEN "prices" ELSE "markets"
  BY <1>1, <1>4 DEF Provider, AllWatchers
<1>6. Services[2] = "tokens" /\ Services[4] = "markets" /\ Services[6] = "prices"
  BY DEF Services
<1>7. QED
  BY <1>1, <1>5, <1>6 DEF Source, Owner, AllWatchers

LEMMA ServiceNames ==
  /\ Len(Services) = 10
  /\ \A i, j \in 1 .. 10 : Services[i] = Services[j] => i = j
BY DEF Services

\* The watchers of the i-th service.
LEMMA Owners ==
  ASSUME NEW i \in 1 .. 10, NEW w
  PROVE  (\E n \in DOMAIN WatchersOf(Services[i]) : w = WatchersOf(Services[i])[n])
            <=> w \in AllWatchers /\ Owner(w) = i
<1>1. CASE Services[i] = "markets"
  <2>1. WatchersOf(Services[i]) = <<"markets.tokens">>
    BY <1>1 DEF WatchersOf
  <2>2. i = 4
    BY <1>1, ServiceNames DEF Services
  <2>3. QED
    BY <2>1, <2>2 DEF AllWatchers, Owner
<1>2. CASE Services[i] = "prices"
  <2>1. WatchersOf(Services[i]) = <<"prices.markets", "prices.initialized", "prices.tokens">>
    BY <1>2 DEF WatchersOf
  <2>2. i = 6
    BY <1>2, ServiceNames DEF Services
  <2>3. QED
    BY <2>1, <2>2 DEF AllWatchers, Owner
<1>3. CASE Services[i] = "leaderboard"
  <2>1. WatchersOf(Services[i]) = <<"leaderboard.markets", "leaderboard.prices">>
    BY <1>3 DEF WatchersOf
  <2>2. i = 9
    BY <1>3, ServiceNames DEF Services
  <2>3. QED
    BY <2>1, <2>2 DEF AllWatchers, Owner
<1>4. CASE Services[i] \notin {"markets", "prices", "leaderboard"}
  <2>1. WatchersOf(Services[i]) = <<>>
    BY <1>4 DEF WatchersOf
  <2>2. i \notin {4, 6, 9}
    BY <1>4 DEF Services
  <2>3. QED
    BY <2>1, <2>2 DEF AllWatchers, Owner
<1>5. QED
  BY <1>1, <1>2, <1>3, <1>4

FirstServices(n) == {Services[i] : i \in 1 .. n}

\* The services up are the first ones, and so are those with subscriptions.
Order ==
  /\ at \in 1 .. 10
  /\ sub \in [Watchers -> {"none", "subscribed", "watching", "cancelled"}]
  /\ phase \in {"starting", "fatal"} => up = FirstServices(at - 1)
  /\ phase = "running" => at = 10
  /\ phase \in {"running", "stopping"} => up = FirstServices(at)
  /\ phase = "exited" => up = {} /\ \A w \in Watchers : ~Listening(w)
  /\ phase \in {"starting", "fatal", "running", "stopping", "exited"}
  /\ \A w \in Watchers : Listening(w) => Owner(w) <= at

LEMMA OrderOfProviders ==
  ASSUME Order
  PROVE  WatchersHaveProviders /\ ExitIsClean
<1>1. ASSUME NEW w \in Watchers, Listening(w) PROVE Provider(w) \in up
  <2>1. /\ Provider(w) = Services[Source(w)] /\ Source(w) \in 1 .. Owner(w) - 1
        /\ Owner(w) \in 1 .. 10 /\ Owner(w) <= at /\ at \in 1 .. 10
    BY <1>1, Providers DEF Order
  <2>2. Source(w) \in 1 .. at - 1 /\ Source(w) \in 1 .. at
    BY <2>1
  <2>3. Provider(w) \in FirstServices(at - 1) /\ Provider(w) \in FirstServices(at)
    BY <2>1, <2>2 DEF FirstServices
  <2>4. QED
    BY <1>1, <2>3 DEF Order
<1>2. QED
  BY <1>1 DEF WatchersHaveProviders, ExitIsClean, Order

\* A subscription is that of the service to start.
LEMMA OrderSubscribes ==
  ASSUME Order, NEW w \in Watchers, ToSubscribe(w),
         NEW s \in {"subscribed", "watching"}, sub' = [sub EXCEPT ![w] = s],
         UNCHANGED mainVars
  PROVE  Order'
<1>1. phase = "starting" /\ at \in 1 .. 10 /\ Owner(w) = at
  BY Owners DEF Order, ToSubscribe
<1>2. \A v \in Watchers : Listening(v)' => v = w \/ Listening(v)
  BY DEF Order, Listening
<1>3. QED
  BY <1>1, <1>2 DEF Order, mainVars

LEMMA OrderUnchanged ==
  ASSUME Order, UNCHANGED <<mainVars, sub>>
  PROVE  Order'
BY DEF Order, mainVars, Listening

LEMMA OrderStarts ==
  ASSUME Order, StartService
  PROVE  Order'
<1>1. /\ phase = "starting" /\ at \in 1 .. 10 /\ up = FirstServices(at - 1) /\ sub' = sub
      /\ up' = up \cup {Services[at]}
      /\ IF at = 10 THEN phase' = "running" /\ at' = at ELSE at' = at + 1 /\ phase' = phase
  BY ServiceNames DEF StartService, Order, subVars
<1>2. up' = FirstServices(at)
  <2>1. 1 .. at = (1 .. at - 1) \cup {at}
    BY <1>1
  <2>2. QED
    BY <1>1, <2>1 DEF FirstServices
<1>3. at + 1 - 1 = at
  BY <1>1
<1>4. \A w \in Watchers : Listening(w)' => Owner(w) <= at' /\ Owner(w) \in 1 .. 10
  <2>1. \A w \in Watchers : Listening(w) => Owner(w) <= at /\ Owner(w) \in 1 .. 10
    BY Providers DEF Order
  <2>2. QED
    BY <1>1, <2>1 DEF Listening
<1>5. QED
  BY <1>1, <1>2, <1>3, <1>4 DEF Order

\* Stop takes the last of the services that are up, and its subscriptions.
LEMMA OrderStops ==
  ASSUME Order, StopAll
  PROVE  Order'
<1> DEFINE s == Services[at]
<1>1. /\ phase = "stopping" /\ at \in 1 .. 10 /\ up = FirstServices(at) /\ up' = up \ {s}
      /\ Cancelled(WatchersIn(s))
      /\ IF at = 1 THEN phase' = "exited" /\ at' = at ELSE at' = at - 1 /\ phase' = phase
  BY DEF StopAll, Stop, Order
<1>2. up' = FirstServices(at - 1)
  <2>1. \A i \in 1 .. at : Services[i] # Services[at] <=> i \in 1 .. at - 1
    <3>1. \A i \in 1 .. at : i \in 1 .. 10 /\ (i # at <=> i \in 1 .. at - 1)
      BY <1>1
    <3>2. QED
      BY <1>1, <3>1, ServiceNames
  <2>2. 1 .. at - 1 \subseteq 1 .. at
    BY <1>1
  <2>3. QED
    BY <1>1, <2>1, <2>2 DEF FirstServices
<1>3. sub' \in [Watchers -> {"none", "subscribed", "watching", "cancelled"}]
  BY <1>1 DEF Cancelled, Order
<1>4. ASSUME NEW w \in Watchers, Listening(w)'
      PROVE  Listening(w) /\ Owner(w) \in 1 .. at - 1
  <2>1. Listening(w) /\ w \notin WatchersIn(s)
    BY <1>1, <1>4 DEF Cancelled, Listening, Order
  <2>2. Owner(w) # at
    BY <1>1, <2>1, Owners, WatcherSet DEF WatchersIn
  <2>3. Owner(w) <= at /\ Owner(w) \in 1 .. 10
    BY <2>1, Providers DEF Order
  <2>4. QED
    BY <1>1, <2>1, <2>2, <2>3
<1>5. CASE at = 1
  <2>1. up' = {} /\ \A w \in Watchers : ~Listening(w)'
    BY <1>2, <1>4, <1>5 DEF FirstServices
  <2>2. QED
    BY <1>1, <1>3, <1>5, <2>1 DEF Order
<1>6. CASE at # 1
  <2>1. at' \in 1 .. 10 /\ at' = at - 1
    BY <1>1, <1>6
  <2>2. \A w \in Watchers : Listening(w)' => Owner(w) <= at'
    BY <1>4, <2>1
  <2>3. QED
    BY <1>1, <1>2, <1>3, <1>6, <2>1, <2>2 DEF Order
<1>7. QED
  BY <1>5, <1>6

LEMMA OrderStep ==
  ASSUME Order, [PipelineNext]_pipelineVars
  PROVE  Order'
<1>1. CASE Subscribe \/ Watch
  BY <1>1, OrderSubscribes DEF Subscribe, Watch
<1>2. CASE StartService
  BY <1>2, OrderStarts
<1>3. CASE StopAll
  BY <1>3, OrderStops
<1>4. CASE StartFails
  BY <1>4 DEF StartFails, Order, subVars, Listening
<1>5. CASE Signal
  BY <1>5 DEF Signal, Order, Listening
<1>6. ASSUME NEW w \in Watchers, WatcherEnds(w) PROVE Order'
  <2>1. /\ sub' \in [Watchers -> {"none", "subscribed", "watching", "cancelled"}]
        /\ \A v \in Watchers : Listening(v)' => Listening(v)
    BY <1>6 DEF WatcherEnds, Cancelled, Order, Listening
  <2>2. QED
    BY <1>6, <2>1 DEF WatcherEnds, Order, mainVars
<1>7. ASSUME NEW u \in PriceUpdates, PricesFail(u) \/ handleTopPricesUpdate(u)
      PROVE  Order'
  BY <1>7, OrderUnchanged DEF PricesFail, handleTopPricesUpdate, Emit, subVars
<1>8. CASE onTokensUpdated \/ handleTierPagesUpdate \/ handleInitialLoadCompleted
           \/ checkTopTiers \/ onTokenListsUpdated
  BY <1>8, OrderUnchanged DEF onTokensUpdated, handleTierPagesUpdate, Publish,
     handleInitialLoadCompleted, checkTopTiers, onTokenListsUpdated, Emit, subVars
<1>9. CASE onTokenListChanged \/ onMarketListChanged \/ LeaderboardMarkets
           \/ LeaderboardPrices \/ ForceUpdate
  BY <1>9, OrderUnchanged
     DEF onTokenListChanged, onMarketListChanged, LeaderboardMarkets,
     LeaderboardPrices, ForceUpdate, See, Receive
<1>10. CASE UNCHANGED pipelineVars
  BY <1>10, OrderUnchanged DEF pipelineVars, subVars
<1>11. QED
  BY <1>1, <1>2, <1>3, <1>4, <1>5, <1>6, <1>7, <1>8, <1>9, <1>10 DEF PipelineNext, Main

LEMMA OrderInductive == PipelineSpec => []Order
<1>1. ASSUME PipelineInit PROVE Order
  <2>1. 1 .. 1 - 1 = {}
    OBVIOUS
  <2>2. QED
    BY <1>1, <2>1 DEF PipelineInit, Order, Listening, FirstServices
<1>2. Order /\ [PipelineNext]_pipelineVars => Order'
  BY OrderStep
<1>3. QED
  BY <1>1, <1>2, PTL DEF PipelineSpec

\* core/service.go starts services in the order of their dependencies and stops
\* them in the reverse one, so whoever is subscribed has a provider that runs.
THEOREM ProvidersAreUp == PipelineSpec => []WatchersHaveProviders
<1>1. Order => WatchersHaveProviders
  BY OrderOfProviders
<1>2. QED
  BY <1>1, OrderInductive, PTL

\* When main returns after a signal each service has been stopped, and each
\* subscription cancelled by its service or by the context.  Of a start that
\* fails it says nothing: log.Fatal skips the deferred StopAll.
THEOREM ExitsAreClean == PipelineSpec => []ExitIsClean
<1>1. Order => ExitIsClean
  BY OrderOfProviders
<1>2. QED
  BY <1>1, OrderInductive, PTL
=============================================================================
