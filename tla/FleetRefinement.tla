-------------------------- MODULE FleetRefinement --------------------------
(***************************************************************************)
(* Module Fleet implements module FleetContract, for every fleet: however  *)
(* its bodies, cancels, panics, crashes and recoveries interleave, the     *)
(* rows and the repository move as the contract says. The argument rests   *)
(* on the invariant of FleetProofs: a row is decided only while it is open *)
(* (DecidedInv), and the queue of the body in the merge phase is what is   *)
(* not merged yet (MergeInv).                                              *)
(***************************************************************************)
EXTENDS FleetProofs

\* A step as the contract sees it.
Allowed == [Contract!Next]_<<decidedBar, merged>>

(* Rows may change as long as no decided one does and none becomes decided. *)
LEMMA OpenRowsMove ==
    ASSUME \A t \in Task : (Terminal(t) \/ Terminal(t)') => task'[t] = task[t], merged' = merged
    PROVE  Allowed
<1>1. \A t \in Task : (IF Terminal(t)' THEN task'[t] ELSE "open") = (IF Terminal(t) THEN task[t] ELSE "open")
    BY DEF Terminal, is_terminal_task_state
<1>2. decidedBar' = decidedBar
    BY <1>1 DEF decidedBar
<1> QED BY <1>2 DEF Allowed

(* An open row that gets an outcome is a decision of the contract. *)
LEMMA OneRowDecided ==
    ASSUME TypeOK, NEW t \in Task, NEW o \in {"done", "failed"}, ~Terminal(t),
           task' = [task EXCEPT ![t] = o], merged' = merged
    PROVE  Allowed
<1>1. decidedBar[t] = "open"
    BY DEF decidedBar
<1>2. decidedBar' = [decidedBar EXCEPT ![t] = o]
  <2>1. \A u \in Task : u # t => task'[u] = task[u]
    BY DEF TypeOK
  <2>2. task'[t] = o
    BY DEF TypeOK
  <2> QED BY <2>1, <2>2 DEF decidedBar, Terminal, is_terminal_task_state
<1>3. Contract!Decide(t, o)
    BY <1>1, <1>2 DEF Contract!Decide
<1>4. Contract!Next
    BY <1>3 DEF Contract!Next, Contract!Task, Task
<1> QED BY <1>4 DEF Allowed

(* The merge phase takes the branches of a fleet that is all done, the smallest id first. *)
LEMMA OneBranchMerged ==
    ASSUME SafetyInv, NEW t \in Task, MergeNext(t)
    PROVE  Allowed
<1>1. task' = task /\ \A u \in Task : task[u] = "done"
    BY DEF MergeNext, At, SafetyInv, MergeInv, Completing
<1>2. decidedBar' = decidedBar /\ \A u \in Task : decidedBar[u] = "done"
    BY <1>1 DEF decidedBar, Terminal, is_terminal_task_state
<1>3. PICK u \in queue[t] :
          (\A w \in queue[t] : u <= w) /\ (merged' = merged \cup {u} \/ merged' = merged)
    BY DEF MergeNext
<1>4. \A w \in Task : w \in queue[t] <=> w \notin merged
    BY DEF MergeNext, At, SafetyInv, MergeInv
<1>5. u \in Task
    BY DEF SafetyInv, TypeOK
<1>6. \A w \in Task : w < u => w \in merged
    BY <1>3, <1>4, <1>5 DEF Task
<1>7. CASE merged' = merged \cup {u}
  <2>1. Contract!Merge(u)
    BY <1>2, <1>3, <1>4, <1>5, <1>6, <1>7 DEF Contract!Merge, Contract!Task, Task
  <2>2. Contract!Next
    BY <1>5, <2>1 DEF Contract!Next, Contract!Task, Task
  <2> QED BY <2>2 DEF Allowed
<1>8. CASE merged' = merged
    BY <1>2, <1>8 DEF Allowed
<1> QED BY <1>3, <1>7, <1>8

(* Every step of a fleet is a step of the contract or leaves what it speaks about alone. *)
LEMMA StepAllowed ==
    ASSUME SafetyInv, [Next]_vars
    PROVE  Allowed
<1> USE DEF SafetyInv, Terminal, is_terminal_task_state
<1>1. CASE Prepare
  <2>1. merged' = merged /\ \A t \in Task : ~Terminal(t) /\ ~Terminal(t)'
    BY <1>1 DEF Prepare, InsertFleet, InsertTask, AssignTask, StartMembers, PrepareFails, DecidedInv, TypeOK
  <2> QED BY <2>1, OpenRowsMove
<1>2. ASSUME NEW t \in Task, Run(t) PROVE Allowed
  <2>1. merged' = merged /\ ~Terminal(t)
    BY <1>2, RunFrame DEF DecidedInv
  <2>2. outcome[t] \in {"done", "failed"}
    BY DEF TypeOK
  <2>3. CASE task' = task
    BY <2>1, <2>3, OpenRowsMove
  <2>4. CASE task' = [task EXCEPT ![t] = outcome[t]] \/ task' = [task EXCEPT ![t] = "failed"]
    BY <2>1, <2>2, <2>4, OneRowDecided
  <2> QED BY <1>2, <2>3, <2>4, RunTask
<1>3. ASSUME NEW t \in Task, Complete(t) PROVE Allowed
  <2>1. CASE MergeNext(t)
    BY <2>1, OneBranchMerged
  <2>2. CASE ~MergeNext(t)
    <3>1. merged' = merged
      BY <1>3, <2>2 DEF Complete, Finalize, BeginMerge, MergePhaseAborts, FailOnFailedTasks, NoFailedTasks,
         ReviewTask, GatePasses, ParkOnReview, MergeEmpty, EndMerge, EndBody
    <3>2. CASE task' = task
      BY <3>1, <3>2, OpenRowsMove
    <3>3. CASE ~Terminal(t) /\ task' = [task EXCEPT ![t] = "failed"]
      BY <3>1, <3>3, OneRowDecided
    <3> QED BY <1>3, <3>2, <3>3, CompleteTask
  <2> QED BY <2>1, <2>2
<1>4. ASSUME NEW t \in Task, Panic(t) PROVE Allowed
  <2>1. merged' = merged /\ ~Terminal(t)
    BY <1>4 DEF Panic, DecidedInv
  <2>2. task' = task \/ task' = [task EXCEPT ![t] = "failed"]
    BY <1>4, <2>1 DEF Panic
  <2> QED BY <2>1, <2>2, OpenRowsMove, OneRowDecided
<1>5. ASSUME UNCHANGED <<task, merged>> PROVE Allowed
    BY <1>5, OpenRowsMove
<1>6. CASE Cancel
    BY <1>5, <1>6 DEF Cancel, ResolveFleet, TakeChildren, MarkCancelled, TermWorkers, KillWorkers
<1>7. ASSUME NEW r \in Recoverers, Recover(r) PROVE Allowed
  <2>1. merged' = merged
    BY <1>7 DEF Recover, RecoverScan, RecoverStop, RecoverFail, RecoverReset, RecoverEnds
  <2>2. \A t \in Task : (Terminal(t) \/ Terminal(t)') => task'[t] = task[t]
    BY <1>7 DEF Recover, RecoverScan, RecoverStop, RecoverFail, RecoverReset, RecoverEnds, InFlight, TypeOK
  <2> QED BY <2>1, <2>2, OpenRowsMove
<1>8. ASSUME NEW t \in Task, ClaimTask(t) PROVE Allowed
  <2>1. merged' = merged /\ \A u \in Task : (Terminal(u) \/ Terminal(u)') => task'[u] = task[u]
    BY <1>8 DEF ClaimTask, TypeOK
  <2> QED BY <2>1, OpenRowsMove
<1>9. ASSUME NEW t \in Task, ChildExits(t) PROVE Allowed
    BY <1>5, <1>9 DEF ChildExits
<1>10. ASSUME NEW t \in Task, NEW v \in Verdicts, SubmitReview(t, v) PROVE Allowed
    BY <1>5, <1>10 DEF SubmitReview
<1>11. CASE OwnerCrash
    BY <1>5, <1>11 DEF OwnerCrash
<1>12. CASE UNCHANGED vars
    BY <1>5, <1>12, StutterFrame
<1> QED BY <1>1, <1>2, <1>3, <1>4, <1>6, <1>7, <1>8, <1>9, <1>10, <1>11, <1>12 DEF Next

(* A fleet keeps its contract: each task is decided once, by its body, its guard or nobody, and   *)
(* HEAD takes the branches of a fleet that is all done, in order, each once.                      *)
THEOREM FleetKeepsContract == Spec => ImplementsContract
<1>1. Init => Contract!Init
    BY DEF Init, Contract!Init, decidedBar, Terminal, is_terminal_task_state, Contract!Task, Task
<1>2. SafetyInv /\ [Next]_vars => [Contract!Next]_<<decidedBar, merged>>
    BY StepAllowed DEF Allowed
<1> QED BY <1>1, <1>2, Safety, PTL DEF Spec, ImplementsContract, Contract!Spec

=============================================================================
