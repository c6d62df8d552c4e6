--------------------------- MODULE FleetContract ---------------------------
(***************************************************************************)
(* What a fleet promises whoever spawned it, whatever its processes do:    *)
(* each task is decided once, and branches reach HEAD only after every     *)
(* task is decided `done`, one at a time, in the order of their ids.       *)
(***************************************************************************)
EXTENDS Naturals

CONSTANT NTasks

VARIABLES
    decided,   \* "open", "done" or "failed", per task
    merged     \* the tasks whose branch is in HEAD

Task == 1..NTasks

Init ==
    /\ decided = [t \in Task |-> "open"]
    /\ merged = {}

Decide(t, o) ==
    /\ decided[t] = "open"
    /\ decided' = [decided EXCEPT ![t] = o]
    /\ UNCHANGED merged

Merge(t) ==
    /\ \A u \in Task : decided[u] = "done"
    /\ t \notin merged
    /\ \A u \in Task : u < t => u \in merged
    /\ merged' = merged \cup {t}
    /\ UNCHANGED decided

Next == \E t \in Task : Merge(t) \/ (\E o \in {"done", "failed"} : Decide(t, o))

Spec == Init /\ [][Next]_<<decided, merged>>

=============================================================================
