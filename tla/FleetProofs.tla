---------------------------- MODULE FleetProofs ----------------------------
(***************************************************************************)
(* The safety of Fleet for every number of members, every set of           *)
(* recovering daemons and every choice of the other constants.             *)
(*                                                                         *)
(* The inductive invariant is split by what it is about: who runs          *)
(* (OwnerInv), who is in the merge phase (PhaseInv), which rows are        *)
(* decided (DecidedInv), what has been merged (MergeInv), what the review  *)
(* gate let through (GateInv), what a launch leaves on disk (LaunchInv)    *)
(* and, without the degraded route, who may claim a task (ClaimInv). Each  *)
(* part is shown to be preserved with the help of the ones before it.      *)
(***************************************************************************)
EXTENDS Fleet, TLAPS

(* Membership of the state names, so that the sets need no expanding later. *)
LEMMA StateNames ==
    /\ \A s \in {"none", "spawning", "running", "merging", "blocked_on_review", "done",
                 "failed", "cancelled"} : s \in FleetState
    /\ \A s \in {"none", "pending", "claimed", "in_progress", "done", "failed"} : s \in TaskState
    /\ \A p \in {"off", "start", "check", "mark", "launch", "token", "clear", "register",
                 "recheck", "wait", "record", "finalize", "cas", "gate", "review", "block",
                 "merge", "commit", "giveup", "end", "gone"} : p \in BodyPoint
    /\ \A e \in {"committed", "empty", "bad"} : e \in ChildEnd
  BY DEF FleetState, TaskState, BodyPoint, Launching, Completing, ChildEnd

(* A process that refuses verification is one that a token names. *)
LEMMA RefusedAreNamed ==
    ASSUME NEW R \in (IF "refuse" \in Events THEN SUBSET Named ELSE {{}})
    PROVE  R \subseteq Named /\ Named \subseteq Task
  BY DEF Named

-----------------------------------------------------------------------------
(* Type correctness. *)

(* The steps of the preparation keep the types. *)
LEMMA TypePrepare ==
    ASSUME TypeOK, Prepare
    PROVE  TypeOK'
<1>1. CASE InsertFleet
    BY <1>1, StateNames DEF InsertFleet, Goto, Conclude, TypeOK, files, procs, body, spawn, memory, cancelv, others
<1>2. CASE InsertTask
    BY <1>2, StateNames DEF InsertTask, Goto, Conclude, TypeOK, Task, files, procs, body, spawn, memory, cancelv, others
<1>3. CASE AssignTask
    BY <1>3, StateNames, FleetAssumption DEF AssignTask, Goto, Conclude, TypeOK, Task, files, procs, body, spawn, memory, cancelv, others
<1>4. CASE StartMembers
    BY <1>4, StateNames DEF StartMembers, Goto, Conclude, TypeOK, files, procs, body, spawn, memory, cancelv, others
<1>5. CASE PrepareFails
    BY <1>5, StateNames DEF PrepareFails, Goto, Conclude, TypeOK, files, procs, body, spawn, memory, cancelv, others
<1> QED BY <1>1, <1>2, <1>3, <1>4, <1>5 DEF Prepare

(* The steps of a worker body keep the types. *)
LEMMA TypeRun ==
    ASSUME TypeOK, NEW t \in Task, Run(t)
    PROVE  TypeOK'
<1>1. CASE RunRequested(t)
    BY <1>1, StateNames DEF RunRequested, Goto, Conclude, TypeOK, files, procs, body, spawn, memory, cancelv, others
<1>2. CASE BreakerOpen(t)
    <2>1. pc' \in [Task -> BodyPoint] /\ outcome' \in [Task -> {"done", "failed"}]
      BY <1>2, StateNames DEF BreakerOpen, Conclude, Goto, TypeOK
    <2> QED BY <1>2, <2>1 DEF BreakerOpen, TypeOK, files, procs, body, spawn, memory, cancelv, others
<1>3. CASE CheckPasses(t)
    BY <1>3, StateNames DEF CheckPasses, Goto, Conclude, TypeOK, files, procs, body, spawn, memory, cancelv, others
<1>4. CASE CancelledBeforeLaunch(t)
    BY <1>4, StateNames DEF CancelledBeforeLaunch, Goto, Conclude, TypeOK, files, procs, body, spawn, memory, cancelv, others
<1>5. CASE WriteLaunchMarker(t)
    BY <1>5, StateNames DEF WriteLaunchMarker, Goto, Conclude, TypeOK, files, procs, body, spawn, memory, cancelv, others
<1>6. CASE Launch(t)
    BY <1>6, StateNames DEF Launch, Goto, Conclude, TypeOK, files, procs, body, spawn, memory, cancelv, others
<1>7. CASE LaunchFails(t)
    <2>1. marker' \in SUBSET Task
      BY <1>7 DEF LaunchFails, TypeOK
    <2>2. pc' \in [Task -> BodyPoint] /\ outcome' \in [Task -> {"done", "failed"}]
      BY <1>7, StateNames DEF LaunchFails, Conclude, Goto, TypeOK
    <2> QED BY <1>7, <2>1, <2>2 DEF LaunchFails, TypeOK, files, procs, body, spawn, memory, cancelv, others
<1>8. CASE WriteToken(t)
    BY <1>8, StateNames DEF WriteToken, Goto, Conclude, TypeOK, files, procs, body, spawn, memory, cancelv, others
<1>9. CASE WriteTokenFails(t)
    <2>1. marker' \in SUBSET Task
      BY <1>9 DEF WriteTokenFails, TypeOK
    <2>2. child' \in [Task -> {"none", "alive"} \cup ChildEnd]
      BY <1>9, StateNames DEF WriteTokenFails, TypeOK
    <2>3. pc' \in [Task -> BodyPoint] /\ outcome' \in [Task -> {"done", "failed"}]
      BY <1>9, StateNames DEF WriteTokenFails, Conclude, Goto, TypeOK
    <2> QED BY <1>9, <2>1, <2>2, <2>3 DEF WriteTokenFails, TypeOK, files, procs, body, spawn, memory, cancelv, others
<1>10. CASE NoToken(t)
    BY <1>10, StateNames DEF NoToken, Goto, Conclude, TypeOK, files, procs, body, spawn, memory, cancelv, others
<1>11. CASE ClearLaunchMarker(t)
    BY <1>11, StateNames DEF ClearLaunchMarker, Goto, Conclude, TypeOK, files, procs, body, spawn, memory, cancelv, others
<1>12. CASE RegisterChild(t)
    <2>1. registered' \in SUBSET Task
      BY <1>12 DEF RegisterChild, TypeOK
    <2>2. pc' \in [Task -> BodyPoint]
      BY <1>12, StateNames DEF RegisterChild, Goto, TypeOK
    <2> QED BY <1>12, <2>1, <2>2 DEF RegisterChild, TypeOK, files, procs, body, spawn, memory, cancelv, others
<1>13. CASE RecheckCancel(t)
    BY <1>13, StateNames DEF RecheckCancel, Goto, Conclude, TypeOK, files, procs, body, spawn, memory, cancelv, others
<1>14. CASE WaitEnds(t)
    BY <1>14, StateNames DEF WaitEnds, Goto, Conclude, TypeOK, files, procs, body, spawn, memory, cancelv, others
<1>15. CASE WaitEndsBad(t)
    BY <1>15, StateNames DEF WaitEndsBad, Goto, Conclude, TypeOK, files, procs, body, spawn, memory, cancelv, others
<1>16. CASE WaitTimesOut(t)
    <2>1. child' \in [Task -> {"none", "alive"} \cup ChildEnd]
      BY <1>16, StateNames DEF WaitTimesOut, TypeOK
    <2>2. pc' \in [Task -> BodyPoint] /\ outcome' \in [Task -> {"done", "failed"}]
      BY <1>16, StateNames DEF WaitTimesOut, Conclude, Goto, TypeOK
    <2> QED BY <1>16, <2>1, <2>2 DEF WaitTimesOut, TypeOK, files, procs, body, spawn, memory, cancelv, others
<1>17. CASE RecordTask(t)
    BY <1>17, StateNames DEF RecordTask, Goto, Conclude, TypeOK, files, procs, body, spawn, memory, cancelv, others
<1> QED BY <1>1, <1>2, <1>3, <1>4, <1>5, <1>6, <1>7, <1>8, <1>9, <1>10, <1>11, <1>12, <1>13, <1>14, <1>15, <1>16, <1>17 DEF Run

(* The steps of the merge phase keep the types. *)
LEMMA TypeComplete ==
    ASSUME TypeOK, NEW t \in Task, Complete(t)
    PROVE  TypeOK'
<1>1. CASE Finalize(t)
    BY <1>1, StateNames DEF Finalize, Goto, Conclude, TypeOK, files, procs, body, spawn, memory, cancelv, others
<1>2. CASE BeginMerge(t)
    <2>1. pc' \in [Task -> BodyPoint] /\ fleet' \in FleetState
      BY <1>2, StateNames DEF BeginMerge, Goto, TypeOK
    <2> QED BY <1>2, <2>1 DEF BeginMerge, TypeOK, files, procs, body, spawn, memory, cancelv, others
<1>3. CASE MergePhaseAborts(t)
    BY <1>3, StateNames DEF MergePhaseAborts, Goto, Conclude, TypeOK, files, procs, body, spawn, memory, cancelv, others
<1>4. CASE FailOnFailedTasks(t)
    BY <1>4, StateNames DEF FailOnFailedTasks, Goto, Conclude, TypeOK, files, procs, body, spawn, memory, cancelv, others
<1>5. CASE NoFailedTasks(t)
    BY <1>5, StateNames DEF NoFailedTasks, Goto, Conclude, TypeOK, files, procs, body, spawn, memory, cancelv, others
<1>6. CASE ReviewTask(t)
    <2>1. pc' \in [Task -> BodyPoint]
      BY <1>6, StateNames DEF ReviewTask, Goto, TypeOK
    <2>2. queue' \in [Task -> SUBSET Task] /\ late' \in SUBSET Task
      BY <1>6 DEF ReviewTask, Done, TypeOK
    <2> QED BY <1>6, <2>1, <2>2 DEF ReviewTask, TypeOK, files, procs, body, spawn, memory, cancelv, others
<1>7. CASE GatePasses(t)
    BY <1>7, StateNames DEF GatePasses, Goto, Conclude, TypeOK, files, procs, body, spawn, memory, cancelv, others
<1>8. CASE ParkOnReview(t)
    BY <1>8, StateNames DEF ParkOnReview, Goto, Conclude, TypeOK, files, procs, body, spawn, memory, cancelv, others
<1>9. CASE MergeNext(t)
    <2>1. pc' \in [Task -> BodyPoint]
      BY <1>9, StateNames DEF MergeNext, Goto, TypeOK
    <2>2. queue' \in [Task -> SUBSET Task] /\ merged' \in SUBSET Task
      BY <1>9 DEF MergeNext, TypeOK
    <2> QED BY <1>9, <2>1, <2>2 DEF MergeNext, TypeOK, files, procs, body, spawn, memory, cancelv, others
<1>10. CASE MergeEmpty(t)
    BY <1>10, StateNames DEF MergeEmpty, Goto, Conclude, TypeOK, files, procs, body, spawn, memory, cancelv, others
<1>11. CASE EndMerge(t)
    BY <1>11, StateNames DEF EndMerge, Goto, Conclude, TypeOK, files, procs, body, spawn, memory, cancelv, others
<1>12. CASE EndBody(t)
    BY <1>12, StateNames DEF EndBody, Goto, Conclude, TypeOK, files, procs, body, spawn, memory, cancelv, others
<1> QED BY <1>1, <1>2, <1>3, <1>4, <1>5, <1>6, <1>7, <1>8, <1>9, <1>10, <1>11, <1>12 DEF Complete

(* The steps of fleet_cancel keep the types. *)
LEMMA TypeCancel ==
    ASSUME TypeOK, Cancel
    PROVE  TypeOK'
<1>1. ASSUME NEW local \in BOOLEAN, ResolveFleet(local) PROVE TypeOK'
    BY <1>1, StateNames DEF ResolveFleet, Goto, Conclude, TypeOK, files, procs, body, spawn, memory, cancelv, others
<1>2. CASE TakeChildren
    BY <1>2, StateNames DEF TakeChildren, Goto, Conclude, TypeOK, files, procs, body, spawn, memory, cancelv, others
<1>3. CASE MarkCancelled
    BY <1>3, StateNames DEF MarkCancelled, Goto, Conclude, TypeOK, files, procs, body, spawn, memory, cancelv, others
<1>4. CASE TermWorkers
    <2>1. PICK R \in (IF "refuse" \in Events THEN SUBSET Named ELSE {{}}) :
              /\ cproblems' = R
              /\ ctargets' = Named \ R
              /\ signalled' = signalled \cup (Named \ R)
                                  \cup {t \in ctargets : Alive(t) /\ token[t] # "named"}
      BY <1>4 DEF TermWorkers
    <2>2. R \subseteq Task /\ Named \subseteq Task
      BY <2>1, RefusedAreNamed
    <2>3. cproblems' \in SUBSET Task /\ ctargets' \in SUBSET Task /\ signalled' \in SUBSET Task
      BY <2>1, <2>2 DEF TypeOK
    <2> QED BY <1>4, <2>3 DEF TermWorkers, TypeOK, files, procs, body, spawn, memory, cancelv, others
<1>5. CASE KillWorkers
    <2>1. child' \in [Task -> {"none", "alive"} \cup ChildEnd]
      BY <1>5, StateNames DEF KillWorkers, TypeOK
    <2> QED BY <1>5, <2>1 DEF KillWorkers, TypeOK, files, procs, body, spawn, memory, cancelv, others
<1> QED BY <1>1, <1>2, <1>3, <1>4, <1>5 DEF Cancel

(* The steps of recovery keep the types. *)
LEMMA TypeRecover ==
    ASSUME TypeOK, NEW r \in Recoverers, Recover(r)
    PROVE  TypeOK'
<1>1. CASE RecoverScan(r)
    BY <1>1, StateNames DEF RecoverScan, Goto, Conclude, TypeOK, files, procs, body, spawn, memory, cancelv, others
<1>2. CASE RecoverStop(r)
    <2>1. rpc' \in [Recoverers -> {"idle", "stop", "stoponly", "fail", "reset"}]
      BY <1>2 DEF RecoverStop, TypeOK
    <2>2. child' \in [Task -> {"none", "alive"} \cup ChildEnd]
      BY <1>2, StateNames DEF RecoverStop, TypeOK
    <2> QED BY <1>2, <2>1, <2>2 DEF RecoverStop, TypeOK, files, procs, body, spawn, memory, cancelv, others
<1>3. CASE RecoverFail(r)
    BY <1>3, StateNames DEF RecoverFail, RecoverEnds, Goto, Conclude, TypeOK, files, procs, body, spawn, memory, cancelv, others
<1>4. CASE RecoverReset(r)
    BY <1>4, StateNames DEF RecoverReset, RecoverEnds, Goto, Conclude, TypeOK, files, procs, body, spawn, memory, cancelv, others
<1> QED BY <1>1, <1>2, <1>3, <1>4 DEF Recover

(* The steps of a panic, an MCP claim and the end of a process keep the types. *)
LEMMA TypeWorld ==
    ASSUME TypeOK, NEW t \in Task, Panic(t) \/ ClaimTask(t) \/ ChildExits(t)
    PROVE  TypeOK'
<1>1. CASE Panic(t)
    <2>1. task' \in [Task -> TaskState] /\ pc' \in [Task -> BodyPoint]
      BY <1>1, StateNames DEF Panic, Goto, TypeOK
    <2>2. child' \in [Task -> {"none", "alive"} \cup ChildEnd]
      BY <1>1, StateNames DEF Panic, TypeOK
    <2> QED BY <1>1, <2>1, <2>2 DEF Panic, TypeOK, files, procs, body, spawn, memory, cancelv, others
<1>2. CASE ClaimTask(t)
    <2>1. task' \in [Task -> TaskState]
      BY <1>2, StateNames DEF ClaimTask, TypeOK
    <2>2. granted' \in [Task -> 0..2]
      BY <1>2 DEF ClaimTask, TypeOK
    <2> QED BY <1>2, <2>1, <2>2 DEF ClaimTask, TypeOK, files, procs, body, spawn, memory, cancelv, others
<1>3. CASE ChildExits(t)
    BY <1>3, StateNames DEF ChildExits, Goto, Conclude, TypeOK, files, procs, body, spawn, memory, cancelv, others
<1> QED BY <1>1, <1>2, <1>3

(* Fleet is type correct: no step of any actor takes a variable out of its type. *)
THEOREM TypeCorrect == Spec => []TypeOK
<1>1. Init => TypeOK
  <2> SUFFICES ASSUME Init PROVE TypeOK
    OBVIOUS
  <2>1. idx \in 1..NTasks
    BY FleetAssumption DEF Init
  <2>2. rpc \in [Recoverers -> {"idle", "stop", "stoponly", "fail", "reset"}]
    BY DEF Init
  <2>3. granted \in [Task -> 0..2] /\ queue \in [Task -> SUBSET Task]
    BY DEF Init
  <2> QED BY <2>1, <2>2, <2>3, StateNames DEF Init, TypeOK
<1>2. TypeOK /\ [Next]_vars => TypeOK'
  <2> SUFFICES ASSUME TypeOK, [Next]_vars PROVE TypeOK'
    OBVIOUS
  <2>1. CASE OwnerCrash
    BY <2>1, StateNames DEF OwnerCrash, TypeOK, files, procs
  <2>2. CASE UNCHANGED vars
    BY <2>2 DEF vars, TypeOK, files, procs, body, spawn, memory, cancelv, others
  <2>3. ASSUME NEW t \in Task, Panic(t) \/ ClaimTask(t) \/ ChildExits(t) PROVE TypeOK'
    BY <2>3, TypeWorld
  <2>4. ASSUME NEW t \in Task, NEW v \in Verdicts, SubmitReview(t, v) PROVE TypeOK'
    BY <2>4, FleetAssumption DEF SubmitReview, TypeOK, files, procs, body, spawn, memory, others,
       cancelv
  <2> QED BY <2>1, <2>2, <2>3, <2>4, TypePrepare, TypeRun, TypeComplete, TypeCancel, TypeRecover
           DEF Next
<1> QED BY <1>1, <1>2, PTL DEF Spec

-----------------------------------------------------------------------------
(* The inductive invariant. *)

\* Bodies exist once the preparation is over, and live as long as their owner; recovery acts
\* only on a fleet whose owner is dead.
OwnerInv ==
    /\ prep # "spawned" => \A t \in Task : pc[t] = "off"
    /\ owner = "down" => \A t \in Task : pc[t] \in {"off", "gone"}
    /\ \A r \in Recoverers : rpc[r] # "idle" => owner = "down"

\* While a body is in the merge phase, only a cancel moves the row.
PhaseInv ==
    /\ \A t \in Task : pc[t] \in Completing => fleet \in {"merging", "cancelled"}
    /\ MergeAdmitsOne

\* Rows are decided by the bodies alone, and the merge phase starts when all are.
DecidedInv ==
    /\ prep # "spawned" => \A t \in Task : ~Terminal(t)
    /\ \A t \in Task : pc[t] \in Launching => ~Terminal(t)
    /\ \A t \in Task : pc[t] \in {"cas"} \cup Completing => \A u \in Task : Terminal(u)

\* What is merged and what is still queued make up the fleet, all of it done.
MergeInv ==
    /\ prep # "spawned" => merged = {}
    /\ fleet \in Mergeable => merged = {}
    /\ \A t \in Task : pc[t] \in {"gate", "review", "block"} => merged = {}
    /\ \A t \in Task : pc[t] \in Completing \ {"gate"} => \A u \in Task : task[u] = "done"
    /\ \A t \in Task : pc[t] \in {"merge", "commit"} =>
           \A u \in Task : u \in queue[t] <=> u \notin merged
    /\ \A t \in Task : pc[t] = "commit" => queue[t] = {}
    /\ DoneMeansMerged

\* Whatever the gate let into the queue had no blocking verdict when it was read.
GateInv ==
    /\ \A t \in Task : pc[t] \in {"review", "merge"} =>
           \A u \in queue[t] : GateBlocks(u) => u \in late
    /\ \A t \in merged : GateBlocks(t) => t \in late

\* A process is started under its launch marker, and the marker outlives the lack of a token.
LaunchInv ==
    /\ \A t \in Task : pc[t] \in {"off", "start", "check", "mark", "launch"} => ~Alive(t)
    /\ \A t \in Task : pc[t] \in {"launch", "token"} => t \in marker
    /\ \A t \in Task : pc[t] = "clear" => token[t] = "named" \/ ~Alive(t)
    /\ OrphanLeavesEvidence

\* Without the degraded route a task has one process. The rows of a fleet whose owner lives are
\* in the hands of its bodies, and recovery has stopped whatever runs before it touches them.
ClaimInv ==
    /\ prep = "fleet" => idx = 1
    /\ owner = "up" /\ prep \in {"task", "assign"} => \A t \in 1..(idx - 1) : task[t] = "in_progress"
    /\ owner = "up" /\ prep = "running" => \A t \in Task : task[t] = "in_progress"
    /\ \A t \in Task : pc[t] \in Launching => task[t] = "in_progress"
    /\ \A t \in Task : pc[t] \in {"off", "start", "check", "mark", "launch"} => token[t] = "none"
    /\ \A t \in Task : token[t] # "stale"
    /\ \A t \in Task, r \in Recoverers :
           rpc[r] = "stop" /\ task[t] \in {"claimed", "in_progress"} /\ Alive(t)
               => token[t] = "named"
    /\ \A t \in Task, r \in Recoverers :
           rpc[r] \in {"fail", "reset"} /\ task[t] \in {"claimed", "in_progress"} => ~Alive(t)
    /\ NoSecondWorker

-----------------------------------------------------------------------------
(* What groups of actions leave alone. *)

(* A step of a body up to its outcome moves that body alone, and neither the fleet row nor the  *)
(* merge.                                                                                       *)
LEMMA RunFrame ==
    ASSUME TypeOK, NEW t \in Task, Run(t)
    PROVE  /\ owner = "up" /\ pc[t] \in Launching
           /\ UNCHANGED <<fleet, verdict, late, merged, queue, owner, prep, idx, rpc>>
           /\ \E p \in Launching \cup {"finalize"} : pc' = [pc EXCEPT ![t] = p]
<1> USE DEF At, Goto, Conclude, Launching, spawn, others
<1>1. CASE RunRequested(t)
    BY <1>1 DEF RunRequested
<1>2. CASE BreakerOpen(t)
    BY <1>2 DEF BreakerOpen
<1>3. CASE CheckPasses(t)
    BY <1>3 DEF CheckPasses
<1>4. CASE CancelledBeforeLaunch(t)
    BY <1>4 DEF CancelledBeforeLaunch
<1>5. CASE WriteLaunchMarker(t)
    BY <1>5 DEF WriteLaunchMarker
<1>6. CASE Launch(t)
    BY <1>6 DEF Launch
<1>7. CASE LaunchFails(t)
    BY <1>7 DEF LaunchFails
<1>8. CASE WriteToken(t)
    BY <1>8 DEF WriteToken
<1>9. CASE WriteTokenFails(t)
    BY <1>9 DEF WriteTokenFails
<1>10. CASE NoToken(t)
    BY <1>10 DEF NoToken
<1>11. CASE ClearLaunchMarker(t)
    BY <1>11 DEF ClearLaunchMarker
<1>12. CASE RegisterChild(t)
    BY <1>12 DEF RegisterChild
<1>13. CASE RecheckCancel(t)
    BY <1>13 DEF RecheckCancel
<1>14. CASE WaitEnds(t)
    BY <1>14 DEF WaitEnds
<1>15. CASE WaitEndsBad(t)
    BY <1>15 DEF WaitEndsBad
<1>16. CASE WaitTimesOut(t)
    BY <1>16 DEF WaitTimesOut
<1>17. CASE RecordTask(t)
    BY <1>17 DEF RecordTask
<1> QED BY <1>1, <1>2, <1>3, <1>4, <1>5, <1>6, <1>7, <1>8, <1>9, <1>10, <1>11, <1>12, <1>13, <1>14, <1>15, <1>16, <1>17 DEF Run

(* A step of the merge phase moves the body that drives it. *)
LEMMA CompleteFrame ==
    ASSUME TypeOK, NEW t \in Task, Complete(t)
    PROVE  /\ owner = "up" /\ pc[t] \in {"finalize", "cas", "end"} \cup Completing
           /\ UNCHANGED <<owner, prep, idx, rpc, marker, token, child>>
           /\ \E p \in {"finalize", "cas", "end", "gone"} \cup Completing :
                  pc' = [pc EXCEPT ![t] = p]
<1> USE DEF At, Goto, Completing, spawn, others, files, procs
<1>1. CASE Finalize(t)
    BY <1>1 DEF Finalize
<1>2. CASE BeginMerge(t)
    BY <1>2 DEF BeginMerge
<1>3. CASE MergePhaseAborts(t)
    BY <1>3 DEF MergePhaseAborts
<1>4. CASE FailOnFailedTasks(t)
    BY <1>4 DEF FailOnFailedTasks
<1>5. CASE NoFailedTasks(t)
    BY <1>5 DEF NoFailedTasks
<1>6. CASE ReviewTask(t)
    BY <1>6 DEF ReviewTask
<1>7. CASE GatePasses(t)
    BY <1>7 DEF GatePasses
<1>8. CASE ParkOnReview(t)
    BY <1>8 DEF ParkOnReview
<1>9. CASE MergeNext(t)
    BY <1>9 DEF MergeNext
<1>10. CASE MergeEmpty(t)
    BY <1>10 DEF MergeEmpty
<1>11. CASE EndMerge(t)
    BY <1>11 DEF EndMerge
<1>12. CASE EndBody(t)
    BY <1>12 DEF EndBody
<1> QED BY <1>1, <1>2, <1>3, <1>4, <1>5, <1>6, <1>7, <1>8, <1>9, <1>10, <1>11, <1>12 DEF Complete

(* Claims, reviews, ended processes, and the steps of a cancel that do not mark the row. *)
LEMMA WorldFrame ==
    ASSUME \/ \E t \in Task : ClaimTask(t) \/ ChildExits(t)
           \/ \E t \in Task, v \in Verdicts : SubmitReview(t, v)
           \/ \E local \in BOOLEAN : ResolveFleet(local)
           \/ TakeChildren \/ TermWorkers \/ KillWorkers
    PROVE  UNCHANGED <<fleet, pc, owner, prep, idx, rpc, merged, queue, marker, token>>
  BY DEF ClaimTask, ChildExits, SubmitReview, ResolveFleet, TakeChildren, TermWorkers, KillWorkers,
         body, spawn, others, files

(* A stuttering step leaves what the invariant speaks about alone. *)
LEMMA StutterFrame ==
    ASSUME UNCHANGED vars
    PROVE  UNCHANGED <<fleet, task, pc, owner, prep, idx, rpc, merged, queue, marker, token, child>>
  BY DEF vars, body, spawn, others, files, procs

-----------------------------------------------------------------------------
(* Who runs. *)

(* Bodies run only while the owner is up and has spawned them. *)
LEMMA OwnerStep ==
    ASSUME TypeOK, OwnerInv, [Next]_vars
    PROVE  OwnerInv'
<1> USE DEF OwnerInv
<1>1. CASE Prepare
    BY <1>1 DEF Prepare, InsertFleet, InsertTask, AssignTask, StartMembers, PrepareFails, body, others
<1>2. ASSUME NEW t \in Task, Run(t) PROVE OwnerInv'
    BY <1>2, RunFrame DEF TypeOK, Launching
<1>3. ASSUME NEW t \in Task, Complete(t) PROVE OwnerInv'
    BY <1>3, CompleteFrame DEF TypeOK, Completing
<1>4. ASSUME NEW t \in Task, Panic(t) PROVE OwnerInv'
    BY <1>4 DEF Panic, Goto, TypeOK, Launching, spawn, others
<1>5. CASE MarkCancelled
    BY <1>5 DEF MarkCancelled, body, spawn
<1>6. ASSUME NEW r \in Recoverers, Recover(r) PROVE OwnerInv'
    BY <1>6 DEF Recover, RecoverScan, RecoverStop, RecoverFail, RecoverReset, RecoverEnds, TypeOK, body, spawn
<1>7. CASE OwnerCrash
    BY <1>7 DEF OwnerCrash, TypeOK
<1>8. CASE UNCHANGED vars
    BY <1>8, StutterFrame
<1> QED BY <1>1, <1>2, <1>3, <1>4, <1>5, <1>6, <1>7, <1>8, WorldFrame DEF Next, Cancel

-----------------------------------------------------------------------------
(* Who is in the merge phase. *)

(* The compare-and-swap to `merging` lets one body into complete_fleet, and the row says so while
   it is there. *)
LEMMA PhaseStep ==
    ASSUME TypeOK, OwnerInv, PhaseInv, [Next]_vars
    PROVE  PhaseInv'
<1> USE DEF PhaseInv, MergeAdmitsOne
<1>1. CASE Prepare
    BY <1>1 DEF Prepare, InsertFleet, InsertTask, AssignTask, StartMembers, PrepareFails, OwnerInv,
                Completing, body
<1>2. ASSUME NEW t \in Task, Run(t) PROVE PhaseInv'
    BY <1>2, RunFrame DEF TypeOK, Launching, Completing
<1>3. ASSUME NEW t \in Task, Complete(t) PROVE PhaseInv'
  <2> USE DEF At, Goto, TypeOK
  <2>1. CASE Finalize(t)
    BY <2>1 DEF Finalize, Completing
  <2>2. CASE BeginMerge(t)
    BY <2>2 DEF BeginMerge, Mergeable, Completing
  <2>3. CASE MergePhaseAborts(t)
    BY <2>3 DEF MergePhaseAborts, Completing
  <2>4. CASE FailOnFailedTasks(t)
    BY <2>4 DEF FailOnFailedTasks, Completing
  <2>5. CASE NoFailedTasks(t)
    BY <2>5 DEF NoFailedTasks, Completing
  <2>11. CASE ReviewTask(t)
    BY <2>11 DEF ReviewTask, Completing
  <2>12. CASE GatePasses(t)
    BY <2>12 DEF GatePasses, Completing
  <2>6. CASE ParkOnReview(t)
    BY <2>6 DEF ParkOnReview, Completing
  <2>7. CASE MergeNext(t)
    BY <2>7 DEF MergeNext, Completing
  <2>8. CASE MergeEmpty(t)
    BY <2>8 DEF MergeEmpty, Completing
  <2>9. CASE EndMerge(t)
    BY <2>9 DEF EndMerge, Completing
  <2>10. CASE EndBody(t)
    BY <2>10 DEF EndBody, Completing
  <2> QED BY <1>3, <2>1, <2>2, <2>3, <2>4, <2>5, <2>6, <2>7, <2>8, <2>9, <2>10,
             <2>11, <2>12 DEF Complete
<1>4. ASSUME NEW t \in Task, Panic(t) PROVE PhaseInv'
    BY <1>4 DEF Panic, Goto, TypeOK, Launching, Completing
<1>5. CASE MarkCancelled
    BY <1>5 DEF MarkCancelled, body
<1>6. ASSUME NEW r \in Recoverers, Recover(r) PROVE PhaseInv'
    BY <1>6 DEF Recover, RecoverScan, RecoverStop, RecoverFail, RecoverReset, RecoverEnds, OwnerInv, Completing,
                TypeOK, body
<1>7. CASE OwnerCrash
    BY <1>7 DEF OwnerCrash, Completing
<1>8. CASE UNCHANGED vars
    BY <1>8, StutterFrame
<1> QED BY <1>1, <1>2, <1>3, <1>4, <1>5, <1>6, <1>7, <1>8, WorldFrame DEF Next, Cancel

-----------------------------------------------------------------------------
(* Which rows are decided. *)

(* Up to its outcome, only the two exits of a body that record it write its row. *)
LEMMA RunTask ==
    ASSUME TypeOK, NEW t \in Task, Run(t)
    PROVE  \/ task' = task
           \/ /\ pc' = [pc EXCEPT ![t] = "finalize"]
              /\ \/ ~Terminal(t) /\ task' = [task EXCEPT ![t] = outcome[t]]
                 \/ pc[t] = "check" /\ task' = [task EXCEPT ![t] = "failed"]
<1>1. CASE CancelledBeforeLaunch(t)
    BY <1>1 DEF CancelledBeforeLaunch, At, Goto
<1>2. CASE RecordTask(t)
  <2>1. CASE Terminal(t)
    BY <1>2, <2>1 DEF RecordTask, Terminal, TypeOK
  <2>2. CASE ~Terminal(t)
    BY <1>2, <2>2 DEF RecordTask, Terminal, Goto
  <2> QED BY <2>1, <2>2
<1>3. CASE ~CancelledBeforeLaunch(t) /\ ~RecordTask(t)
    BY <1>3 DEF Run, RunRequested, BreakerOpen, CheckPasses, WriteLaunchMarker, Launch, LaunchFails,
                WriteToken, WriteTokenFails, NoToken, ClearLaunchMarker, RegisterChild,
                RecheckCancel, WaitEnds, WaitEndsBad, WaitTimesOut
<1> QED BY <1>1, <1>2, <1>3

(* The merge phase writes a row only when the guard of its body fires. *)
LEMMA CompleteTask ==
    ASSUME NEW t \in Task, Complete(t)
    PROVE  \/ task' = task
           \/ EndBody(t) /\ ~Terminal(t) /\ task' = [task EXCEPT ![t] = "failed"]
  BY DEF Complete, Finalize, BeginMerge, MergePhaseAborts, FailOnFailedTasks, NoFailedTasks,
         ReviewTask, GatePasses, ParkOnReview, MergeNext, MergeEmpty, EndMerge, EndBody

(* A body past its recording has a decided row, and no step of any actor takes that back. *)
LEMMA DecidedStep ==
    ASSUME TypeOK, OwnerInv, DecidedInv, [Next]_vars
    PROVE  DecidedInv'
<1> USE DEF DecidedInv, Terminal, is_terminal_task_state
<1>1. CASE Prepare
    BY <1>1 DEF Prepare, InsertFleet, InsertTask, AssignTask, StartMembers, PrepareFails, OwnerInv,
                TypeOK, Launching, Completing, body
<1>2. ASSUME NEW t \in Task, Run(t) PROVE DecidedInv'
  <2>1. \A u \in Task : pc[u] \notin {"cas"} \cup Completing
    BY <1>2, RunFrame
  <2>2. \A u \in Task : u # t => task'[u] = task[u] /\ pc'[u] = pc[u]
    BY <1>2, RunFrame, RunTask DEF TypeOK
  <2>3. pc'[t] \notin {"cas"} \cup Completing /\ (pc'[t] \in Launching => task'[t] = task[t])
    BY <1>2, RunFrame, RunTask DEF TypeOK, Launching, Completing
  <2>4. prep' = prep /\ prep = "spawned"
    BY <1>2, RunFrame DEF OwnerInv, Launching
  <2> QED BY <1>2, <2>1, <2>2, <2>3, <2>4, RunFrame
<1>3. ASSUME NEW t \in Task, Complete(t) PROVE DecidedInv'
  <2>1. prep' = prep /\ prep = "spawned"
    BY <1>3, CompleteFrame DEF OwnerInv, Completing
  <2>2. \A u \in Task : u # t => task'[u] = task[u] /\ pc'[u] = pc[u]
    BY <1>3, CompleteFrame, CompleteTask DEF TypeOK
  <2>3. pc'[t] \notin Launching
    BY <1>3, CompleteFrame DEF TypeOK, Launching, Completing
  <2>4. \A u \in Task : Terminal(u) => task'[u] = task[u]
    BY <1>3, CompleteTask DEF TypeOK
  <2>5. pc'[t] \in {"cas"} \cup Completing => \A u \in Task : Terminal(u)
    <3>1. CASE Finalize(t)
      BY <3>1 DEF Finalize, Goto, TypeOK, Completing
    <3>2. CASE EndBody(t)
      BY <3>2 DEF EndBody, Goto, TypeOK, Completing
    <3>3. CASE pc[t] \in {"cas"} \cup Completing
      BY <3>3
    <3> QED BY <1>3, <3>1, <3>2, <3>3 DEF Complete, BeginMerge, MergePhaseAborts, FailOnFailedTasks,
               NoFailedTasks, ReviewTask, GatePasses, ParkOnReview, MergeNext, MergeEmpty, EndMerge, At, Completing
  <2> QED BY <2>1, <2>2, <2>3, <2>4, <2>5
<1>4. ASSUME NEW t \in Task, Panic(t) PROVE DecidedInv'
  <2>1. \A u \in Task : u # t => task'[u] = task[u] /\ pc'[u] = pc[u]
    BY <1>4 DEF Panic, Goto, TypeOK
  <2>2. pc'[t] = "finalize" /\ prep' = prep /\ prep = "spawned"
    BY <1>4 DEF Panic, Goto, TypeOK, OwnerInv, Launching, spawn
  <2>3. \A u \in Task : pc[u] \notin {"cas"} \cup Completing
    BY <1>4 DEF Panic
  <2> QED BY <2>1, <2>2, <2>3 DEF Launching, Completing
<1>5. CASE MarkCancelled
    BY <1>5 DEF MarkCancelled, body, spawn
<1>6. ASSUME NEW r \in Recoverers, Recover(r) PROVE DecidedInv'
    BY <1>6 DEF Recover, RecoverScan, RecoverStop, RecoverFail, RecoverReset, RecoverEnds, InFlight, TypeOK, body,
                spawn
<1>7. CASE OwnerCrash
    BY <1>7 DEF OwnerCrash, Launching, Completing
<1>8. ASSUME NEW t \in Task, ClaimTask(t) PROVE DecidedInv'
    BY <1>8 DEF ClaimTask, TypeOK, body, spawn
<1>9. ASSUME UNCHANGED <<task, pc, prep>> PROVE DecidedInv'
    BY <1>9
<1>10. ASSUME NEW t \in Task, NEW v \in Verdicts, SubmitReview(t, v) PROVE DecidedInv'
    BY <1>9, <1>10 DEF SubmitReview, body, spawn
<1>11. ASSUME NEW t \in Task, ChildExits(t) PROVE DecidedInv'
    BY <1>9, <1>11 DEF ChildExits, body, spawn
<1>12. CASE Cancel
    BY <1>5, <1>9, <1>12 DEF Cancel, ResolveFleet, TakeChildren, TermWorkers, KillWorkers, body, spawn
<1>13. CASE UNCHANGED vars
    BY <1>9, <1>13, StutterFrame
<1> QED BY <1>1, <1>2, <1>3, <1>4, <1>6, <1>7, <1>8, <1>10, <1>11, <1>12, <1>13 DEF Next

-----------------------------------------------------------------------------
(* What has been merged. *)

(* Only decided and merged branches are between the queue and HEAD, so `done` means all of them. *)
LEMMA MergeStep ==
    ASSUME TypeOK, OwnerInv, PhaseInv, DecidedInv, MergeInv, [Next]_vars
    PROVE  MergeInv'
<1> USE DEF MergeInv, DoneMeansMerged, TypeOK
<1>1. CASE Prepare
    BY <1>1 DEF Prepare, InsertFleet, InsertTask, AssignTask, StartMembers, PrepareFails, OwnerInv, body,
                Completing
<1>2. ASSUME NEW t \in Task, Run(t) PROVE MergeInv'
  <2>1. \A u \in Task : pc[u] \notin Completing
    BY <1>2, RunFrame DEF DecidedInv
  <2>2. \A u \in Task : pc'[u] \notin Completing
    BY <1>2, <2>1, RunFrame DEF Launching, Completing
  <2> QED BY <1>2, <2>2, RunFrame DEF Completing
<1>3. ASSUME NEW t \in Task, Complete(t) PROVE MergeInv'
  <2>0. prep = "spawned" /\ prep' = prep
    BY <1>3, CompleteFrame DEF OwnerInv, Completing
  <2> USE <2>0 DEF At, Goto
  <2>1. CASE Finalize(t)
    BY <2>1 DEF Finalize, Completing
  <2>2. CASE BeginMerge(t)
    BY <2>2 DEF BeginMerge, Mergeable, Completing
  <2>3. CASE MergePhaseAborts(t)
    BY <2>3 DEF MergePhaseAborts, Completing
  <2>4. CASE FailOnFailedTasks(t)
    BY <2>4 DEF FailOnFailedTasks, Mergeable, Completing
  <2>5. CASE NoFailedTasks(t)
    <3>1. \A u \in Task : task[u] = "done"
      BY <2>5 DEF NoFailedTasks, DecidedInv, Completing, Failed, Terminal, is_terminal_task_state
    <3>2. merged = {}
      BY <2>5 DEF NoFailedTasks
    <3> QED BY <2>5, <3>1, <3>2 DEF NoFailedTasks, Completing
  <2>11. CASE ReviewTask(t)
    BY <2>11 DEF ReviewTask, Completing
  <2>12. CASE GatePasses(t)
    <3>1. \A u \in Task : task[u] = "done"
      BY <2>12 DEF GatePasses, Completing
    <3>2. \A u \in Task : u \in queue[t]
      BY <2>12, <3>1 DEF GatePasses, Done
    <3> QED BY <2>12, <3>1, <3>2 DEF GatePasses, Completing
  <2>6. CASE ParkOnReview(t)
    BY <2>6 DEF ParkOnReview, Completing
  <2>7. CASE MergeNext(t)
    <3>1. \A u \in Task : pc'[u] \notin {"gate", "review", "block", "commit"}
                         /\ (pc'[u] = "merge" => u = t)
      BY <2>7 DEF MergeNext, PhaseInv, MergeAdmitsOne, Completing
    <3>2. fleet' = fleet /\ fleet \in {"merging", "cancelled"}
      BY <2>7 DEF MergeNext, PhaseInv, Completing
    <3>3. pc'[t] = "merge" => \A u \in Task : u \in queue'[t] <=> u \notin merged'
      BY <2>7 DEF MergeNext
    <3>4. task' = task /\ \A u \in Task : task[u] = "done"
      BY <2>7 DEF MergeNext, Completing
    <3> QED BY <3>1, <3>2, <3>3, <3>4 DEF Mergeable
  <2>8. CASE MergeEmpty(t)
    BY <2>8 DEF MergeEmpty, Completing
  <2>9. CASE EndMerge(t)
    <3>1. ASSUME pc[t] = "commit" PROVE merged = Task
      <4>1. \A u \in Task : u \in merged
        BY <3>1
      <4>2. \A u \in merged : u \in Task
        OBVIOUS
      <4> QED BY <4>1, <4>2
    <3> QED BY <2>9, <3>1 DEF EndMerge, Mergeable, Completing
  <2>10. CASE EndBody(t)
    BY <2>10 DEF EndBody, Completing, Terminal, is_terminal_task_state
  <2> QED BY <1>3, <2>1, <2>2, <2>3, <2>4, <2>5, <2>6, <2>7, <2>8, <2>9, <2>10,
             <2>11, <2>12 DEF Complete
<1>4. ASSUME NEW t \in Task, Panic(t) PROVE MergeInv'
  <2>1. \A u \in Task : pc[u] \notin Completing
    BY <1>4 DEF Panic, DecidedInv
  <2>2. \A u \in Task : pc'[u] \notin Completing
    BY <1>4, <2>1 DEF Panic, Goto, Completing
  <2> QED BY <1>4, <2>2 DEF Panic, Completing, spawn
<1>5. CASE MarkCancelled
    BY <1>5 DEF MarkCancelled, Mergeable, body, spawn
<1>6. ASSUME NEW r \in Recoverers, Recover(r) PROVE MergeInv'
    BY <1>6 DEF Recover, RecoverScan, RecoverStop, RecoverFail, RecoverReset, RecoverEnds, InFlight, Mergeable, body,
                spawn
<1>7. CASE OwnerCrash
    BY <1>7 DEF OwnerCrash, Completing
<1>8. ASSUME NEW t \in Task, ClaimTask(t) PROVE MergeInv'
    BY <1>8 DEF ClaimTask, body, spawn
<1>9. ASSUME UNCHANGED <<fleet, task, pc, prep, merged, queue>> PROVE MergeInv'
    BY <1>9
<1>10. ASSUME NEW t \in Task, NEW v \in Verdicts, SubmitReview(t, v) PROVE MergeInv'
    BY <1>9, <1>10 DEF SubmitReview, body, spawn
<1>11. ASSUME NEW t \in Task, ChildExits(t) PROVE MergeInv'
    BY <1>9, <1>11 DEF ChildExits, body, spawn
<1>12. CASE Cancel
    BY <1>5, <1>9, <1>12 DEF Cancel, ResolveFleet, TakeChildren, TermWorkers, KillWorkers, body, spawn
<1>13. CASE UNCHANGED vars
    BY <1>9, <1>13, StutterFrame
<1> QED BY <1>1, <1>2, <1>3, <1>4, <1>6, <1>7, <1>8, <1>10, <1>11, <1>12, <1>13 DEF Next

-----------------------------------------------------------------------------
(* What a launch leaves on disk. *)

(* Marker before spawn, token before the marker goes: a running agent is never without both. *)
LEMMA LaunchStep ==
    ASSUME TypeOK, OwnerInv, LaunchInv, [Next]_vars
    PROVE  LaunchInv'
<1> USE DEF LaunchInv, OrphanLeavesEvidence, Alive, TypeOK
<1>1. CASE Prepare
    BY <1>1 DEF Prepare, InsertFleet, InsertTask, AssignTask, StartMembers, PrepareFails, OwnerInv,
                body, files, procs
<1>2. ASSUME NEW t \in Task, Run(t) PROVE LaunchInv'
  <2> USE DEF At, Goto, Conclude
  <2>1. CASE RunRequested(t)
    BY <2>1 DEF RunRequested, files, procs
  <2>2. CASE BreakerOpen(t)
    BY <2>2 DEF BreakerOpen, files, procs
  <2>3. CASE CheckPasses(t)
    BY <2>3 DEF CheckPasses, files, procs
  <2>4. CASE CancelledBeforeLaunch(t)
    BY <2>4 DEF CancelledBeforeLaunch, files, procs
  <2>5. CASE WriteLaunchMarker(t)
    BY <2>5 DEF WriteLaunchMarker, procs
  <2>6. CASE Launch(t)
    BY <2>6 DEF Launch
  <2>7. CASE LaunchFails(t)
    BY <2>7 DEF LaunchFails, procs
  <2>8. CASE WriteToken(t)
    BY <2>8 DEF WriteToken, procs
  <2>9. CASE WriteTokenFails(t)
    BY <2>9 DEF WriteTokenFails, ChildEnd
  <2>10. CASE NoToken(t)
    BY <2>10 DEF NoToken, files, procs
  <2>11. CASE ClearLaunchMarker(t)
    BY <2>11 DEF ClearLaunchMarker, procs
  <2>12. CASE RegisterChild(t)
    BY <2>12 DEF RegisterChild, files, procs
  <2>13. CASE RecheckCancel(t)
    BY <2>13 DEF RecheckCancel, files
  <2>14. CASE WaitEnds(t)
    BY <2>14 DEF WaitEnds, files, procs
  <2>15. CASE WaitEndsBad(t)
    BY <2>15 DEF WaitEndsBad, files, procs
  <2>16. CASE WaitTimesOut(t)
    BY <2>16 DEF WaitTimesOut, files
  <2>17. CASE RecordTask(t)
    BY <2>17 DEF RecordTask, files, procs
  <2> QED BY <1>2, <2>1, <2>2, <2>3, <2>4, <2>5, <2>6, <2>7, <2>8, <2>9, <2>10, <2>11, <2>12, <2>13,
             <2>14, <2>15, <2>16, <2>17 DEF Run
<1>3. ASSUME NEW t \in Task, Complete(t) PROVE LaunchInv'
    BY <1>3, CompleteFrame DEF Completing
<1>4. ASSUME NEW t \in Task, Panic(t) PROVE LaunchInv'
    BY <1>4 DEF Panic, Goto, files
<1>5. CASE MarkCancelled
    BY <1>5 DEF MarkCancelled, body, files, procs
<1>6. ASSUME NEW r \in Recoverers, Recover(r) PROVE LaunchInv'
    BY <1>6 DEF Recover, RecoverScan, RecoverStop, RecoverFail, RecoverReset, RecoverEnds, body, files, procs
<1>7. CASE OwnerCrash
    BY <1>7 DEF OwnerCrash, files, procs, OwnerInv
<1>8. CASE KillWorkers
    BY <1>8 DEF KillWorkers, body, files
<1>9. ASSUME NEW t \in Task, ChildExits(t) PROVE LaunchInv'
    BY <1>9 DEF ChildExits, ChildEnd, body, files
<1>10. ASSUME UNCHANGED <<pc, marker, token, child>> PROVE LaunchInv'
    BY <1>10
<1>11. ASSUME NEW t \in Task, ClaimTask(t) \/ \E v \in Verdicts : SubmitReview(t, v) PROVE LaunchInv'
    BY <1>10, <1>11 DEF ClaimTask, SubmitReview, body, files, procs
<1>12. CASE Cancel
    BY <1>5, <1>8, <1>10, <1>12 DEF Cancel, ResolveFleet, TakeChildren, TermWorkers, body, files, procs
<1>13. CASE UNCHANGED vars
    BY <1>10, <1>13, StutterFrame
<1> QED BY <1>1, <1>2, <1>3, <1>4, <1>6, <1>7, <1>9, <1>11, <1>12, <1>13 DEF Next

-----------------------------------------------------------------------------
(* What the review gate let through. *)

(* What is queued or merged was read as not blocking, or judged after the gate read it. *)
LEMMA GateStep ==
    ASSUME TypeOK, OwnerInv, PhaseInv, MergeInv, GateInv, [Next]_vars
    PROVE  GateInv'
<1> USE DEF GateInv
<1>0. ASSUME UNCHANGED <<verdict, late, merged>>,
             \A t \in Task : pc'[t] \in {"review", "merge"} =>
                                 pc[t] \in {"review", "merge"} /\ queue'[t] \subseteq queue[t]
      PROVE  GateInv'
    BY <1>0 DEF GateBlocks
<1>1. CASE Prepare
    BY <1>0, <1>1 DEF Prepare, InsertFleet, InsertTask, AssignTask, StartMembers, PrepareFails, body
<1>2. ASSUME NEW t \in Task, Run(t) PROVE GateInv'
    BY <1>0, <1>2, RunFrame DEF Launching, TypeOK
<1>3. ASSUME NEW t \in Task, Complete(t) PROVE GateInv'
  <2> USE DEF At, Goto, TypeOK
  <2>1. CASE Finalize(t)
    BY <1>0, <2>1 DEF Finalize
  <2>2. CASE BeginMerge(t)
    BY <1>0, <2>2 DEF BeginMerge
  <2>3. CASE MergePhaseAborts(t)
    BY <1>0, <2>3 DEF MergePhaseAborts
  <2>4. CASE FailOnFailedTasks(t)
    BY <1>0, <2>4 DEF FailOnFailedTasks
  <2>5. CASE NoFailedTasks(t)
    BY <2>5 DEF NoFailedTasks, GateBlocks
  <2>6. CASE ReviewTask(t)
    <3>1. merged' = {}
      BY <2>6 DEF ReviewTask, MergeInv
    <3>2. \A w \in Task : pc'[w] \in {"review", "merge"} => w = t /\ pc'[w] = "review"
      BY <2>6 DEF ReviewTask, PhaseInv, MergeAdmitsOne, Completing
    <3>3. PICK u \in Done \ queue[t] :
              /\ queue' = [queue EXCEPT ![t] = @ \cup {u}]
              /\ late' = late \ {u}
              /\ \/ Goto(t, IF GateBlocks(u) THEN "block" ELSE "review")
                 \/ "ledger" \in Events /\ Goto(t, "block")
      BY <2>6 DEF ReviewTask
    <3>4. pc'[t] = "review" => ~GateBlocks(u)
      BY <3>3
    <3>5. verdict' = verdict
      BY <2>6 DEF ReviewTask
    <3>6. pc'[t] = "review" => \A w \in queue'[t] : GateBlocks(w) => w \in late'
      BY <2>6, <3>3, <3>4 DEF ReviewTask
    <3> QED BY <3>1, <3>2, <3>5, <3>6 DEF GateBlocks
  <2>7. CASE GatePasses(t)
    BY <1>0, <2>7 DEF GatePasses
  <2>8. CASE ParkOnReview(t)
    BY <1>0, <2>8 DEF ParkOnReview
  <2>9. CASE MergeNext(t)
    BY <2>9 DEF MergeNext, GateBlocks
  <2>10. CASE MergeEmpty(t)
    BY <1>0, <2>10 DEF MergeEmpty
  <2>11. CASE EndMerge(t)
    BY <1>0, <2>11 DEF EndMerge
  <2>12. CASE EndBody(t)
    BY <1>0, <2>12 DEF EndBody
  <2> QED BY <1>3, <2>1, <2>2, <2>3, <2>4, <2>5, <2>6, <2>7, <2>8, <2>9, <2>10, <2>11, <2>12
          DEF Complete
<1>4. ASSUME NEW t \in Task, Panic(t) PROVE GateInv'
    BY <1>0, <1>4 DEF Panic, Goto, TypeOK
<1>5. ASSUME NEW t \in Task, NEW v \in Verdicts, SubmitReview(t, v) PROVE GateInv'
    BY <1>5 DEF SubmitReview, GateBlocks, TypeOK, body
<1>6. ASSUME NEW r \in Recoverers, Recover(r) PROVE GateInv'
    BY <1>0, <1>6 DEF Recover, RecoverScan, RecoverStop, RecoverFail, RecoverReset, RecoverEnds, body
<1>7. CASE OwnerCrash
    BY <1>0, <1>7 DEF OwnerCrash
<1>8. ASSUME NEW t \in Task, ClaimTask(t) \/ ChildExits(t) PROVE GateInv'
    BY <1>0, <1>8 DEF ClaimTask, ChildExits, body
<1>9. CASE Cancel
    BY <1>0, <1>9 DEF Cancel, ResolveFleet, TakeChildren, MarkCancelled, TermWorkers, KillWorkers, body
<1>10. CASE UNCHANGED vars
    BY <1>0, <1>10 DEF vars, body
<1> QED BY <1>1, <1>2, <1>3, <1>4, <1>5, <1>6, <1>7, <1>8, <1>9, <1>10 DEF Next

-----------------------------------------------------------------------------
(* Who may claim a task. *)

(* One process per task, when there is no degraded route: nothing is launched after a token. *)
LEMMA ClaimStep ==
    ASSUME ~DegradedRoute, TypeOK, OwnerInv, LaunchInv, ClaimInv, [Next]_vars
    PROVE  ClaimInv'
<1> USE DEF ClaimInv, NoSecondWorker, Alive, TypeOK
<1>1. CASE Prepare
  <2>0. /\ owner = "up"
        /\ \A t \in Task : pc[t] = "off" /\ ~Alive(t)
        /\ \A r \in Recoverers : rpc[r] = "idle"
    BY <1>1 DEF Prepare, InsertFleet, InsertTask, AssignTask, StartMembers, PrepareFails, OwnerInv,
                LaunchInv
  <2> USE <2>0 DEF body, spawn, others, files, procs, Launching
  <2>1. CASE InsertFleet
    BY <2>1 DEF InsertFleet
  <2>2. CASE InsertTask
    BY <2>2 DEF InsertTask, Task
  <2>3. CASE AssignTask
    <3>1. \A t \in Task : t < idx => task[t] = "in_progress"
      BY <2>3 DEF AssignTask, Task
    <3>2. \A t \in Task : t <= idx => task'[t] = "in_progress"
      BY <2>3, <3>1 DEF AssignTask, Task
    <3>3. prep' # "fleet" /\ (prep' = "task" => idx' = idx + 1) /\ (prep' = "running" => idx = NTasks)
          /\ prep' # "assign"
      BY <2>3 DEF AssignTask
    <3>4. \A t \in 1..idx : t \in Task
      BY FleetAssumption DEF Task
    <3> QED BY <2>3, <3>2, <3>3, <3>4, FleetAssumption DEF AssignTask, Task
  <2>4. CASE StartMembers
    BY <2>4 DEF StartMembers
  <2>5. CASE PrepareFails
    BY <2>5 DEF PrepareFails
  <2> QED BY <1>1, <2>1, <2>2, <2>3, <2>4, <2>5 DEF Prepare
<1>2. ASSUME NEW t \in Task, Run(t) PROVE ClaimInv'
  <2>0. /\ owner = "up" /\ prep = "spawned" /\ UNCHANGED <<owner, prep, rpc>>
        /\ \A r \in Recoverers : rpc[r] = "idle"
        /\ task[t] = "in_progress"
    BY <1>2, RunFrame DEF OwnerInv, Launching
  <2> USE <2>0 DEF At, Goto, Conclude
  <2>1. CASE RunRequested(t)
    BY <2>1 DEF RunRequested, files, procs, Launching
  <2>2. CASE BreakerOpen(t)
    BY <2>2 DEF BreakerOpen, files, procs, Launching
  <2>3. CASE CheckPasses(t)
    BY <2>3 DEF CheckPasses, files, procs, Launching
  <2>4. CASE CancelledBeforeLaunch(t)
    BY <2>4 DEF CancelledBeforeLaunch, files, procs, Launching
  <2>5. CASE WriteLaunchMarker(t)
    BY <2>5 DEF WriteLaunchMarker, procs, Launching
  <2>6. CASE Launch(t)
    BY <2>6 DEF Launch, Launching
  <2>7. CASE LaunchFails(t)
    BY <2>7 DEF LaunchFails, procs, Launching
  <2>8. CASE WriteToken(t)
    BY <2>8 DEF WriteToken, procs, Launching
  <2>9. CASE WriteTokenFails(t)
    BY <2>9 DEF WriteTokenFails, Launching
  <2>10. CASE NoToken(t)
    BY <2>10 DEF NoToken, files, procs, Launching
  <2>11. CASE ClearLaunchMarker(t)
    BY <2>11 DEF ClearLaunchMarker, procs, Launching
  <2>12. CASE RegisterChild(t)
    BY <2>12 DEF RegisterChild, files, procs, Launching
  <2>13. CASE RecheckCancel(t)
    BY <2>13 DEF RecheckCancel, files, Launching
  <2>14. CASE WaitEnds(t)
    BY <2>14 DEF WaitEnds, files, procs, Launching
  <2>15. CASE WaitEndsBad(t)
    BY <2>15 DEF WaitEndsBad, files, procs, Launching
  <2>16. CASE WaitTimesOut(t)
    BY <2>16 DEF WaitTimesOut, files, Launching
  <2>17. CASE RecordTask(t)
    BY <2>17 DEF RecordTask, is_terminal_task_state, files, procs, Launching
  <2> QED BY <1>2, <2>1, <2>2, <2>3, <2>4, <2>5, <2>6, <2>7, <2>8, <2>9, <2>10, <2>11, <2>12, <2>13,
             <2>14, <2>15, <2>16, <2>17 DEF Run
<1>3. ASSUME NEW t \in Task, Complete(t) PROVE ClaimInv'
  <2>1. /\ owner = "up" /\ prep = "spawned" /\ UNCHANGED <<owner, prep, rpc, token, child>>
        /\ \A r \in Recoverers : rpc[r] = "idle"
    BY <1>3, CompleteFrame DEF OwnerInv, Completing
  <2>2. \A u \in Task : pc'[u] = pc[u]
                        \/ pc'[u] \in {"finalize", "cas", "end", "gone"} \cup Completing
    BY <1>3, CompleteFrame
  <2>3. \A u \in Task : task'[u] = task[u] \/ (u = t /\ task'[u] = "failed")
    BY <1>3, CompleteTask
  <2>4. pc[t] \notin Launching
    BY <1>3, CompleteFrame DEF Launching, Completing
  <2>5. pc'[t] \notin Launching
    BY <1>3, CompleteFrame DEF Launching, Completing
  <2> QED BY <2>1, <2>2, <2>3, <2>4, <2>5 DEF Launching, Completing
<1>4. ASSUME NEW t \in Task, Panic(t) PROVE ClaimInv'
  <2>1. /\ owner = "up" /\ prep = "spawned" /\ UNCHANGED <<owner, prep, rpc, token>>
        /\ \A r \in Recoverers : rpc[r] = "idle"
    BY <1>4 DEF Panic, OwnerInv, Launching, spawn, others, files
  <2>2. \A u \in Task : u # t => task'[u] = task[u] /\ child'[u] = child[u] /\ pc'[u] = pc[u]
    BY <1>4 DEF Panic, Goto
  <2>3. child'[t] # "alive" /\ pc'[t] = "finalize"
    BY <1>4 DEF Panic, Goto
  <2> QED BY <2>1, <2>2, <2>3 DEF Launching
<1>5. ASSUME UNCHANGED <<task, pc, token, owner, prep, idx, rpc>>,
             \A t \in Task : child'[t] = "alive" => child[t] = "alive"
      PROVE  ClaimInv'
    BY <1>5
<1>6. CASE Cancel
    BY <1>5, <1>6 DEF Cancel, ResolveFleet, TakeChildren, MarkCancelled, TermWorkers, KillWorkers,
                      body, spawn, files, procs
<1>7. ASSUME NEW r \in Recoverers, Recover(r) PROVE ClaimInv'
  <2>0. /\ owner = "down" /\ UNCHANGED <<owner, prep, idx, pc, token, marker>>
        /\ \A t \in Task : pc[t] \notin Launching
    BY <1>7 DEF Recover, RecoverScan, RecoverStop, RecoverFail, RecoverReset, RecoverEnds, OwnerInv, Launching,
                body, spawn, files
  <2> USE <2>0
  <2>1. CASE RecoverScan(r)
    <3>1. ASSUME Untracked = {}, NEW t \in Task, task[t] \in {"claimed", "in_progress"}, Alive(t)
          PROVE  token[t] = "named"
      BY <3>1 DEF Untracked, InFlight, LaunchInv, OrphanLeavesEvidence
    <3> QED BY <2>1, <3>1 DEF RecoverScan, procs
  <2>2. CASE RecoverStop(r)
    <3>1. \A t \in Task : child'[t] = "alive" => child[t] = "alive"
      BY <2>2 DEF RecoverStop
    <3>2. rpc'[r] = "fail" => \A t \in Task : child'[t] = "alive" => token[t] # "named" /\ rpc[r] = "stop"
      BY <2>2 DEF RecoverStop, Named
    <3>3. rpc'[r] \in {"fail", "idle"} /\ \A q \in Recoverers : q # r => rpc'[q] = rpc[q]
      BY <2>2 DEF RecoverStop
    <3> QED BY <2>2, <3>1, <3>2, <3>3 DEF RecoverStop
  <2>3. CASE RecoverFail(r)
    BY <2>3 DEF RecoverFail, procs
  <2>4. CASE RecoverReset(r)
    BY <2>4 DEF RecoverReset, RecoverEnds, InFlight, procs
  <2> QED BY <1>7, <2>1, <2>2, <2>3, <2>4 DEF Recover
<1>8. CASE OwnerCrash
    BY <1>8 DEF OwnerCrash, OwnerInv, Launching, files, procs
<1>9. ASSUME NEW t \in Task, ClaimTask(t) PROVE ClaimInv'
  <2>1. \A u \in Task : task[u] = "in_progress" => task'[u] = "in_progress"
    BY <1>9 DEF ClaimTask
  <2>2. \A u \in Task : task'[u] = task[u] \/ (task[u] = "pending" /\ task'[u] = "claimed")
    BY <1>9 DEF ClaimTask
  <2>3. UNCHANGED <<pc, token, owner, prep, idx, rpc, child>>
    BY <1>9 DEF ClaimTask, body, spawn, files, procs
  <2>4. \A u \in 1..(idx - 1) : u \in Task
    BY FleetAssumption DEF Task
  <2> QED BY <2>1, <2>2, <2>3, <2>4
<1>10. ASSUME NEW t \in Task, ChildExits(t) PROVE ClaimInv'
    BY <1>5, <1>10 DEF ChildExits, ChildEnd, body, spawn, files, others
<1>11. ASSUME NEW t \in Task, NEW v \in Verdicts, SubmitReview(t, v) PROVE ClaimInv'
    BY <1>5, <1>11 DEF SubmitReview, body, spawn, files, procs, others
<1>12. CASE UNCHANGED vars
    BY <1>5, <1>12, StutterFrame
<1> QED BY <1>1, <1>2, <1>3, <1>4, <1>6, <1>7, <1>8, <1>9, <1>10, <1>11, <1>12 DEF Next

-----------------------------------------------------------------------------
(* The theorems. *)

SafetyInv == TypeOK /\ OwnerInv /\ PhaseInv /\ DecidedInv /\ MergeInv /\ GateInv /\ LaunchInv

(* The invariant holds before the fleet is spawned. *)
LEMMA InitSafe == Init => OwnerInv /\ PhaseInv /\ DecidedInv /\ MergeInv /\ GateInv /\ LaunchInv
<1> SUFFICES ASSUME Init
             PROVE  OwnerInv /\ PhaseInv /\ DecidedInv /\ MergeInv /\ GateInv /\ LaunchInv
    OBVIOUS
<1> USE DEF Init
<1>1. OwnerInv
    BY DEF OwnerInv
<1>2. PhaseInv
    BY DEF PhaseInv, MergeAdmitsOne, Completing
<1>3. DecidedInv
    BY DEF DecidedInv, Terminal, is_terminal_task_state, Launching, Completing
<1>4. MergeInv
    BY DEF MergeInv, DoneMeansMerged, Completing
<1>5. GateInv
    BY DEF GateInv
<1>6. LaunchInv
    BY DEF LaunchInv, OrphanLeavesEvidence, Alive
<1> QED BY <1>1, <1>2, <1>3, <1>4, <1>5, <1>6

(* The whole invariant holds in every reachable state. *)
THEOREM Safety == Spec => []SafetyInv
<1>1. Init => OwnerInv /\ PhaseInv /\ DecidedInv /\ MergeInv /\ GateInv /\ LaunchInv
    BY InitSafe
<1>2. TypeOK /\ OwnerInv /\ PhaseInv /\ DecidedInv /\ MergeInv /\ GateInv /\ LaunchInv
      /\ [Next]_vars
      => (OwnerInv /\ PhaseInv /\ DecidedInv /\ MergeInv /\ GateInv /\ LaunchInv)'
    BY OwnerStep, PhaseStep, DecidedStep, MergeStep, GateStep, LaunchStep
<1> QED BY <1>1, <1>2, TypeCorrect, PTL DEF Spec, SafetyInv

(* However many bodies finish at once and however the row is moved meanwhile, the conditional    *)
(* update at the head of complete_fleet admits one of them at a time.                            *)
THEOREM MergeAdmitsOneAlways == Spec => []MergeAdmitsOne
<1>1. SafetyInv => MergeAdmitsOne
    BY DEF SafetyInv, PhaseInv
<1> QED BY <1>1, Safety, PTL

(* complete_fleet writes `done` only when every member's branch is in HEAD. *)
THEOREM DoneMeansMergedAlways == Spec => []DoneMeansMerged
<1>1. SafetyInv => DoneMeansMerged
    BY DEF SafetyInv, MergeInv
<1> QED BY <1>1, Safety, PTL

(* No branch is merged over a blocking verdict that the gate could have read. *)
THEOREM BlockedVerdictNotMergedAlways == Spec => []BlockedVerdictNotMerged
<1>1. SafetyInv => BlockedVerdictNotMerged
    BY DEF SafetyInv, GateInv, BlockedVerdictNotMerged, GateBlocks, review_gate_decision
<1> QED BY <1>1, Safety, PTL

(* The launch marker and the token leave no instant in which a running agent has neither. *)
THEOREM OrphanLeavesEvidenceAlways == Spec => []OrphanLeavesEvidence
<1>1. SafetyInv => OrphanLeavesEvidence
    BY DEF SafetyInv, LaunchInv
<1> QED BY <1>1, Safety, PTL

(* Where the degraded route is off, no task is open to a claimant while an agent of the fleet     *)
(* still works on it, whatever dies when and however many daemons recover at once.                *)
THEOREM NoSecondWorkerAlways ==
    ASSUME ~DegradedRoute
    PROVE  Spec => []NoSecondWorker
<1>1. Init => ClaimInv
    BY DEF Init, ClaimInv, NoSecondWorker, Alive, Launching
<1>2. SafetyInv /\ ClaimInv /\ [Next]_vars => ClaimInv'
    BY ClaimStep DEF SafetyInv
<1>3. ClaimInv => NoSecondWorker
    BY DEF ClaimInv
<1> QED BY <1>1, <1>2, <1>3, Safety, PTL DEF Spec

(* The failed tasks of a cancelled fleet do not turn `cancelled` into `failed`, or into anything  *)
(* else: with a task failed, no body is past the check that spares `cancelled`.                   *)
THEOREM CancelKeptByFailedTasksAlways == Spec => CancelKeptByFailedTasks
<1>1. SafetyInv /\ [Next]_vars =>
          [(fleet = "cancelled" /\ Failed # {} /\ prep = "spawned" /\ owner = "up")
               => fleet' = "cancelled"]_fleet
  <2> SUFFICES ASSUME SafetyInv, [Next]_vars, fleet = "cancelled", Failed # {}, prep = "spawned",
                      owner = "up"
               PROVE  fleet' = "cancelled"
    OBVIOUS
  <2>1. CASE Prepare
    BY <2>1 DEF Prepare, InsertFleet, InsertTask, AssignTask, StartMembers, PrepareFails
  <2>2. ASSUME NEW t \in Task, Run(t) PROVE fleet' = "cancelled"
    BY <2>2, RunFrame DEF SafetyInv
  <2>3. ASSUME NEW t \in Task, Complete(t) PROVE fleet' = "cancelled"
    <3>1. pc[t] \notin Completing \ {"gate"}
      BY DEF SafetyInv, MergeInv, Failed
    <3> QED BY <2>3, <3>1 DEF Complete, Finalize, BeginMerge, MergePhaseAborts, FailOnFailedTasks,
               NoFailedTasks, ReviewTask, GatePasses, ParkOnReview, MergeNext, MergeEmpty, EndMerge,
               EndBody, At, Mergeable, Completing
  <2>4. ASSUME NEW t \in Task, Panic(t) PROVE fleet' = "cancelled"
    BY <2>4 DEF Panic
  <2>5. CASE MarkCancelled
    BY <2>5 DEF MarkCancelled, Finished
  <2>6. ASSUME NEW r \in Recoverers, Recover(r) PROVE fleet' = "cancelled"
    BY <2>6 DEF Recover, RecoverScan, RecoverStop, RecoverFail, RecoverReset, RecoverEnds, SafetyInv, OwnerInv
  <2>7. CASE OwnerCrash
    BY <2>7 DEF OwnerCrash
  <2>8. CASE UNCHANGED vars
    BY <2>8, StutterFrame
  <2> QED BY <2>1, <2>2, <2>3, <2>4, <2>5, <2>6, <2>7, <2>8, WorldFrame DEF Next, Cancel
<1> QED BY <1>1, Safety, PTL DEF Spec, CancelKeptByFailedTasks

=============================================================================
