----------------------------- MODULE Scheduler -----------------------------
(***************************************************************************)
(* scheduler/scheduler.go: a Scheduler shared by goroutines that Start and *)
(* Stop it.  Each successful Start makes a context, numbered by `gen`, and *)
(* a loop goroutine that spawns the task on each tick unless a task holds  *)
(* taskRunning.  Tasks run in goroutines of their own, which Stop does not *)
(* wait for.                                                               *)
(***************************************************************************)
EXTENDS Integers

CONSTANTS Callers,    \* goroutines that call Start and Stop
          Tasks,      \* names for the task goroutines
          MaxGen      \* bound on the number of successful Starts

ASSUME SchedulerAssumption == MaxGen \in Nat

VARIABLES running,    \* Scheduler.running
          gen,        \* the context of the last successful Start
          done,       \* the contexts that are cancelled
          stopping,   \* the callers inside Stop, waiting in wg.Wait with mu held
          loop,       \* loop[g]: the goroutine of context g
          tick,       \* tick[g]: a tick waits in the ticker's channel
          taskRunning,\* the mutex of that name is locked
          task        \* task[t]: a task goroutine and its context

loopVars == <<loop, tick>>
taskVars == <<taskRunning, task>>
vars == <<running, gen, done, stopping, loopVars, taskVars>>

Gens == 1 .. MaxGen
Idle == [state |-> "idle", ctx |-> 0]

Init ==
  /\ running = FALSE
  /\ gen = 0
  /\ done = {}
  /\ stopping = {}
  /\ loop = [g \in Gens |-> "none"]
  /\ tick = [g \in Gens |-> FALSE]
  /\ taskRunning = FALSE
  /\ task = [t \in Tasks |-> Idle]

\* mu is free: it is held across steps only by a Stop that waits.
MuFree == stopping = {}

-----------------------------------------------------------------------------
\* Start on a Scheduler that is running returns at once.
Start(firstRunImmediately) ==
  /\ MuFree /\ ~running /\ gen < MaxGen
  /\ running' = TRUE
  /\ gen' = gen + 1
  /\ loop' = [loop EXCEPT ![gen + 1] =
                IF firstRunImmediately THEN "first" ELSE "select"]
  /\ UNCHANGED <<done, stopping, tick, taskVars>>

\* Mutant: Stop waits for the loop without cancelling its context.
StopBeginNoCancel(c) ==
  /\ MuFree /\ running
  /\ stopping' = {c}
  /\ UNCHANGED <<running, gen, done, loopVars, taskVars>>

\* Stop cancels the context, then waits for the loop with mu held.
StopBegin(c) ==
  /\ MuFree /\ running
  /\ stopping' = {c}
  /\ done' = done \cup {gen}
  /\ UNCHANGED <<running, gen, loopVars, taskVars>>

\* Mutant: Stop without wg.Wait.
StopEndNoWait(c) ==
  /\ c \in stopping
  /\ stopping' = {}
  /\ running' = FALSE
  /\ UNCHANGED <<gen, done, loopVars, taskVars>>

StopEnd(c) ==
  /\ c \in stopping /\ \A g \in Gens : loop[g] \in {"none", "gone"}
  /\ stopping' = {}
  /\ running' = FALSE
  /\ UNCHANGED <<gen, done, loopVars, taskVars>>

\* The context passed to Start is cancelled by its owner.
ParentDone(g) ==
  /\ g <= gen /\ g \notin done
  /\ done' = done \cup {g}
  /\ UNCHANGED <<running, gen, stopping, loopVars, taskVars>>

-----------------------------------------------------------------------------
\* Mutant: no TryLock.
runTask(g) ==
  /\ taskRunning' = TRUE
  /\ \E t \in Tasks :
       /\ task[t] = Idle
       /\ task' = [task EXCEPT ![t] = [state |-> "spawned", ctx |-> g]]

\* TryLock: the run is skipped while a task of any context holds the mutex.
runTaskIfNotRunning(g) ==
  \/ taskRunning /\ UNCHANGED taskVars
  \/ /\ ~taskRunning
     /\ taskRunning' = TRUE
     /\ \E t \in Tasks :
          /\ task[t] = Idle
          /\ task' = [task EXCEPT ![t] = [state |-> "spawned", ctx |-> g]]

\* Mutant: the goroutine returns after the immediate run.
LoopFirstOnly(g) ==
  /\ loop[g] = "first"
  /\ runTaskIfNotRunning(g)
  /\ loop' = [loop EXCEPT ![g] = "gone"]
  /\ UNCHANGED <<running, gen, done, stopping, tick>>

LoopFirst(g) ==
  /\ loop[g] = "first"
  /\ runTaskIfNotRunning(g)
  /\ loop' = [loop EXCEPT ![g] = "select"]
  /\ UNCHANGED <<running, gen, done, stopping, tick>>

\* The ticker's channel holds one tick; a tick that finds it full is dropped.
Tick(g) ==
  /\ loop[g] = "select" /\ ~tick[g]
  /\ tick' = [tick EXCEPT ![g] = TRUE]
  /\ UNCHANGED <<running, gen, done, stopping, loop, taskVars>>

\* select with a tick and a cancelled context both ready takes either.
LoopTick(g) ==
  /\ loop[g] = "select" /\ tick[g]
  /\ runTaskIfNotRunning(g)
  /\ tick' = [tick EXCEPT ![g] = FALSE]
  /\ UNCHANGED <<running, gen, done, stopping, loop>>

LoopExit(g) ==
  /\ loop[g] = "select" /\ g \in done
  /\ loop' = [loop EXCEPT ![g] = "gone"]
  /\ tick' = [tick EXCEPT ![g] = FALSE]
  /\ UNCHANGED <<running, gen, done, stopping, taskVars>>

TaskBegin(t) ==
  /\ task[t].state = "spawned"
  /\ task' = [task EXCEPT ![t].state = "executing"]
  /\ UNCHANGED <<running, gen, done, stopping, loopVars, taskRunning>>

\* Mutant: the task's goroutine does not unlock taskRunning.
TaskEndLocked(t) ==
  /\ task[t].state = "executing"
  /\ task' = [task EXCEPT ![t] = Idle]
  /\ UNCHANGED <<running, gen, done, stopping, loopVars, taskRunning>>

TaskEnd(t) ==
  /\ task[t].state = "executing"
  /\ task' = [task EXCEPT ![t] = Idle]
  /\ taskRunning' = FALSE
  /\ UNCHANGED <<running, gen, done, stopping, loopVars>>

-----------------------------------------------------------------------------
Next ==
  \/ \E first \in BOOLEAN : Start(first)
  \/ \E c \in Callers : StopBegin(c) \/ StopEnd(c)
  \/ \E g \in Gens : \/ ParentDone(g) \/ LoopFirst(g) \/ Tick(g)
                     \/ LoopTick(g) \/ LoopExit(g)
  \/ \E t \in Tasks : TaskBegin(t) \/ TaskEnd(t)

\* Runnable goroutines run, time passes, the tasks of this repository return
\* (their requests have timeouts and bounded retries), and select does not
\* pass over a ready ctx.Done for ever.
Fairness ==
  /\ \A c \in Callers : WF_vars(StopEnd(c))
  /\ \A g \in Gens : /\ WF_vars(LoopFirst(g)) /\ WF_vars(Tick(g))
                     /\ WF_vars(LoopTick(g)) /\ SF_vars(LoopExit(g))
  /\ \A t \in Tasks : WF_vars(TaskBegin(t)) /\ WF_vars(TaskEnd(t))

Spec == Init /\ [][Next]_vars
FairSpec == Spec /\ Fairness

-----------------------------------------------------------------------------
TaskState == [state : {"idle", "spawned", "executing"}, ctx : 0 .. MaxGen]

TypeOK ==
  /\ running \in BOOLEAN /\ taskRunning \in BOOLEAN
  /\ gen \in 0 .. MaxGen /\ (running => gen > 0)
  /\ done \subseteq Gens
  /\ stopping \subseteq Callers
  /\ loop \in [Gens -> {"none", "first", "select", "gone"}]
  /\ tick \in [Gens -> BOOLEAN]
  /\ task \in [Tasks -> TaskState]

Active(t) == task[t].state # "idle"
LoopAlive(g) == loop[g] \in {"first", "select"}

\* At most one task is in flight, even across a Stop and a new Start, when
\* the task of the old context outlives the Stop.
NoOverlap == \A t, u \in Tasks : Active(t) /\ Active(u) => t = u

\* A loop lives only while the Scheduler is running and only for the newest
\* context: when Stop returns there is no loop, and two Starts never leave
\* two loops behind.
LoopOnlyWhileRunning == \A g \in Gens : LoopAlive(g) => running /\ g = gen

\* A running Scheduler whose context is live has its loop: Start is refused
\* (running) only when there is something running to refuse it for.
RunningHasLoop == running /\ gen \notin done => LoopAlive(gen)

\* A task is taken up only while the Scheduler is running: once Stop has
\* returned, no tick of a forgotten loop spawns one.
SpawnOnlyWhileRunning ==
  [][\A t \in Tasks : ~Active(t) /\ Active(t)' => running /\ task'[t].ctx = gen]_vars

\* Stop returns, whatever the task is doing.
StopReturns == \A c \in Callers : (c \in stopping) ~> (c \notin stopping)

\* The task recurs: as long as the Scheduler is running on a live context,
\* runs follow each other, although ticks that find a task running are lost.
TaskRecurs ==
  (running /\ gen \notin done) ~>
    (gen \in done \/ \E t \in Tasks : task[t] = [state |-> "executing", ctx |-> gen])
=============================================================================
