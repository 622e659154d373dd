-------------------------------- MODULE Lease --------------------------------
(***************************************************************************)
(* What a lock with a time to live promises to whoever starts a task under *)
(* it: a task starts only when every other that is under way has lost the  *)
(* lock, and a task that has not lost it takes it from nobody.             *)
(***************************************************************************)
CONSTANT Holders

VARIABLES
  held,  \* the tasks under way
  lost   \* those that had the lock taken away from them

vars == <<held, lost>>

Init == held = {} /\ lost = {}

Take(t) ==
  /\ held \subseteq lost
  /\ t \notin held \union lost
  /\ held' = held \union {t}
  /\ UNCHANGED lost

Release(t) ==
  /\ t \in held
  /\ held' = held \ {t}
  /\ UNCHANGED lost

\* A task that lost the lock ends, and takes it from the one that has it.
ReleaseForeign(t, u) ==
  /\ t \in held \intersect lost
  /\ held' = held \ {t}
  /\ lost' = lost \union {u}

\* The time is up.
Lose(u) ==
  /\ lost' = lost \union {u}
  /\ UNCHANGED held

Next ==
  \E t \in Holders :
    Take(t) \/ Release(t) \/ Lose(t) \/ \E u \in Holders : ReleaseForeign(t, u)

Spec == Init /\ [][Next]_vars
==============================================================================
