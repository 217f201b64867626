---------------------------- MODULE Notification ----------------------------
(***************************************************************************)
(* What events/subscription.go promises its users: state changes are       *)
(* numbered, a watcher that is attached catches up with the newest one     *)
(* (not with every one: notifications collapse), and a change announced    *)
(* under a cancelled context may stay unannounced until the next change.   *)
(***************************************************************************)
EXTENDS Integers

CONSTANTS Subs

VARIABLES version,    \* the newest state
          seen,       \* seen[s]: the state watcher s knows
          attached,   \* the watchers that are owed the newest state
          muted       \* the newest state was announced to only some of them

avars == <<version, seen, attached, muted>>

AInit == /\ version = 0
         /\ seen = [s \in Subs |-> 0]
         /\ attached = {}
         /\ muted = FALSE

Change == /\ version' = version + 1
          /\ muted' = FALSE
          /\ UNCHANGED <<seen, attached>>

Mute == /\ muted' = TRUE
        /\ UNCHANGED <<version, seen, attached>>

\* A watcher reads the newest state.
Observe(s) == /\ seen' = [seen EXCEPT ![s] = version]
              /\ UNCHANGED <<version, attached, muted>>

Attach(s) == /\ attached' = attached \cup {s}
             /\ UNCHANGED <<version, seen, muted>>

Detach(s) == /\ attached' = attached \ {s}
             /\ UNCHANGED <<version, seen, muted>>

ANext == \/ Change \/ Mute
         \/ \E s \in Subs : Observe(s) \/ Attach(s) \/ Detach(s)

CatchUp(s) == s \in attached /\ seen[s] # version /\ ~muted /\ Observe(s)

ASafety == AInit /\ [][ANext]_avars
ASpec == ASafety /\ \A s \in Subs : WF_avars(CatchUp(s))
=============================================================================
