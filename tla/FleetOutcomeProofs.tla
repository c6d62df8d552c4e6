------------------------- MODULE FleetOutcomeProofs -------------------------
(***************************************************************************)
(* What becomes of a fleet, for every value of the constants a theorem     *)
(* does not restrict: its row comes to rest with its bodies (NotStranded), *)
(* a task that recovery freed is handed out once (GrantedOnce), and a      *)
(* cancel that was answered has reached every worker                       *)
(* (CancelReachesEveryWorker) and lets none begin. Each rests on SafetyInv *)
(* of FleetProofs and on one more inductive invariant of its own.          *)
(***************************************************************************)
EXTENDS FleetProofs

-----------------------------------------------------------------------------
(* No fleet is stranded. *)

\* While the ledger takes writes, a body that is past its attempt has a decided row. A row that
\* still says `running` has a body that will look at it, and one that says `merging` a body that
\* is merging: whoever decides the last row finds all of them decided.
SettleInv ==
    ("ledger" \notin Events /\ owner = "up" /\ prep = "spawned") =>
        /\ \A t \in Task : pc[t] \in Launching \/ (pc[t] # "off" /\ Terminal(t))
        /\ fleet \notin {"none", "spawning"}
        /\ fleet = "running" => \E t \in Task : pc[t] \in Launching \cup {"finalize", "cas"}
        /\ fleet = "merging" => \E t \in Task : pc[t] \in Completing

(* A body that leaves its attempt has recorded it, when the ledger takes the write. *)
LEMMA OutcomeRecorded ==
    ASSUME TypeOK, "ledger" \notin Events, NEW t \in Task, Run(t) \/ Panic(t)
    PROVE  /\ pc'[t] = "finalize" => is_terminal_task_state(task'[t])
           /\ \A u \in Task : u # t => task'[u] = task[u]
<1> USE DEF At, Goto, Conclude, TypeOK, is_terminal_task_state
<1>1. CASE RunRequested(t)
    BY <1>1 DEF RunRequested
<1>2. CASE BreakerOpen(t)
    BY <1>2 DEF BreakerOpen
<1>3. CASE CheckPasses(t)
    BY <1>3 DEF CheckPasses
<1>4. CASE CancelledBeforeLaunch(t)
    BY <1>4 DEF CancelledBeforeLaunch
<1>5. CASE WriteLaunchMarker(t)
    BY <1>5 DEF WriteLaunchMarker
<1>6. CASE Launch(t)
    BY <1>6 DEF Launch
<1>7. CASE LaunchFails(t)
    BY <1>7 DEF LaunchFails
<1>8. CASE WriteToken(t)
    BY <1>8 DEF WriteToken
<1>9. CASE WriteTokenFails(t)
    BY <1>9 DEF WriteTokenFails
<1>10. CASE NoToken(t)
    BY <1>10 DEF NoToken
<1>11. CASE ClearLaunchMarker(t)
    BY <1>11 DEF ClearLaunchMarker
<1>12. CASE RegisterChild(t)
    BY <1>12 DEF RegisterChild
<1>13. CASE RecheckCancel(t)
    BY <1>13 DEF RecheckCancel
<1>14. CASE WaitEnds(t)
    BY <1>14 DEF WaitEnds
<1>15. CASE WaitEndsBad(t)
    BY <1>15 DEF WaitEndsBad
<1>16. CASE WaitTimesOut(t)
    BY <1>16 DEF WaitTimesOut
<1>17. CASE RecordTask(t)
    BY <1>17 DEF RecordTask
<1>18. CASE Panic(t)
    BY <1>18 DEF Panic
<1> QED BY <1>1, <1>2, <1>3, <1>4, <1>5, <1>6, <1>7, <1>8, <1>9, <1>10, <1>11, <1>12, <1>13,
           <1>14, <1>15, <1>16, <1>17, <1>18 DEF Run

(* Every step keeps a body in charge of a row that is not at rest. *)
LEMMA SettleStep ==
    ASSUME TypeOK, OwnerInv, PhaseInv, DecidedInv, SettleInv, [Next]_vars
    PROVE  SettleInv'
<1> SUFFICES ASSUME "ledger" \notin Events, owner' = "up", prep' = "spawned"
             PROVE  SettleInv'
    BY DEF SettleInv
<1>1. CASE Prepare
  <2>1. /\ StartMembers
        /\ 1 \in Task
    BY <1>1, FleetAssumption DEF Prepare, InsertFleet, InsertTask, AssignTask, StartMembers,
                                 PrepareFails, Task
  <2> QED BY <2>1 DEF StartMembers, SettleInv, Launching
<1>2. ASSUME NEW t \in Task, Run(t) \/ Panic(t) PROVE SettleInv'
  <2>1. /\ owner = "up" /\ prep = "spawned" /\ fleet' = fleet
        /\ pc[t] \in Launching
    BY <1>2, RunFrame DEF Panic, OwnerInv, Launching, spawn
  <2>2. /\ pc'[t] \in Launching \cup {"finalize"}
        /\ \A u \in Task : u # t => pc'[u] = pc[u]
    BY <1>2, RunFrame DEF Panic, Goto, TypeOK
  <2>3. \A u \in Task : pc'[u] \in Launching \/ (pc'[u] # "off" /\ Terminal(u)')
    BY <2>1, <2>2, <1>2, OutcomeRecorded DEF SettleInv, Terminal
  <2>4. fleet = "merging" => \E u \in Task : pc'[u] \in Completing
    BY <2>1, <2>2 DEF SettleInv, Launching, Completing
  <2> QED BY <2>1, <2>2, <2>3, <2>4 DEF SettleInv
<1>3. ASSUME NEW t \in Task, Complete(t) PROVE SettleInv'
  <2>1. /\ owner = "up" /\ prep = "spawned"
        /\ pc[t] \notin Launching /\ Terminal(t)
        /\ \A u \in Task : u # t => pc'[u] = pc[u]
        /\ pc'[t] # "off" /\ pc'[t] \notin Launching
    BY <1>3, CompleteFrame DEF SettleInv, Launching, Completing, TypeOK
  <2>2. \A u \in Task : pc[u] \in Launching \/ (pc[u] # "off" /\ Terminal(u))
    BY <2>1 DEF SettleInv
  <2>3. \A u \in Task : task'[u] = task[u] \/ (u = t /\ task'[u] = "failed")
    BY <1>3, CompleteTask DEF TypeOK
  <2>4. \A u \in Task : pc'[u] \in Launching \/ (pc'[u] # "off" /\ Terminal(u)')
    BY <2>1, <2>2, <2>3 DEF Terminal, is_terminal_task_state
  <2> USE DEF At, Goto, TypeOK
  <2>5. CASE Finalize(t)
    <3>1. CASE \A u \in Task : Terminal(u)
      <4>1. pc'[t] = "cas" /\ fleet' = fleet
        BY <2>5, <3>1 DEF Finalize
      <4> QED BY <2>1, <2>4, <2>5, <4>1 DEF SettleInv, Finalize, Completing
    <3>2. CASE \E u \in Task : ~Terminal(u)
      <4>1. PICK u \in Task : pc[u] \in Launching /\ pc'[u] = pc[u]
        BY <2>1, <2>2, <3>2
      <4> QED BY <2>1, <2>4, <2>5, <4>1 DEF SettleInv, Finalize, Completing
    <3> QED BY <3>1, <3>2
  <2>6. CASE BeginMerge(t)
    <3>1. CASE fleet \in Mergeable
      BY <2>4, <2>6, <3>1 DEF SettleInv, BeginMerge, Completing
    <3>2. CASE fleet \notin Mergeable
      <4>1. fleet' = fleet /\ fleet # "running" /\ pc[t] \notin Completing
        BY <2>6, <3>2 DEF BeginMerge, Mergeable, Completing
      <4> QED BY <2>1, <2>4, <4>1 DEF SettleInv
    <3> QED BY <3>1, <3>2
  <2>7. CASE MergePhaseAborts(t)
    BY <2>7 DEF MergePhaseAborts
  <2>8. CASE FailOnFailedTasks(t)
    BY <2>1, <2>4, <2>8 DEF FailOnFailedTasks, SettleInv
  <2>9. CASE NoFailedTasks(t) \/ ReviewTask(t) \/ GatePasses(t) \/ MergeNext(t) \/ MergeEmpty(t)
    <3>1. fleet' = fleet /\ pc[t] \in Completing /\ pc'[t] \in Completing
      BY <2>9 DEF NoFailedTasks, ReviewTask, GatePasses, MergeNext, MergeEmpty, Completing
    <3>2. fleet # "running" /\ fleet \notin {"none", "spawning"}
      BY <2>1, <3>1 DEF PhaseInv, SettleInv
    <3> QED BY <2>4, <3>1, <3>2 DEF SettleInv
  <2>10. CASE ParkOnReview(t)
    BY <2>4, <2>10 DEF ParkOnReview, SettleInv
  <2>11. CASE EndMerge(t)
    BY <2>4, <2>11 DEF EndMerge, SettleInv
  <2>12. CASE EndBody(t)
    <3>1. fleet' = fleet /\ pc[t] = "end"
      BY <2>12 DEF EndBody
    <3> QED BY <2>1, <2>4, <3>1 DEF SettleInv, Completing, Launching
  <2> QED BY <1>3, <2>5, <2>6, <2>7, <2>8, <2>9, <2>10, <2>11, <2>12 DEF Complete
<1>4. CASE MarkCancelled
    BY <1>4 DEF MarkCancelled, SettleInv, Terminal, body, spawn
<1>5. ASSUME NEW r \in Recoverers, Recover(r) PROVE SettleInv'
    BY <1>5 DEF Recover, RecoverScan, RecoverStop, RecoverFail, RecoverReset, OwnerInv, spawn
<1>6. CASE OwnerCrash
    BY <1>6 DEF OwnerCrash
<1>7. ASSUME UNCHANGED <<fleet, pc, owner, prep>>,
             \A t \in Task : Terminal(t) => Terminal(t)'
      PROVE  SettleInv'
    BY <1>7 DEF SettleInv
<1>8. ASSUME NEW t \in Task, ClaimTask(t) PROVE SettleInv'
  <2>1. \A u \in Task : Terminal(u) => Terminal(u)'
    BY <1>8 DEF ClaimTask, Terminal, is_terminal_task_state, TypeOK
  <2> QED BY <1>7, <1>8, <2>1 DEF ClaimTask, body, spawn
<1>9. ASSUME task' = task, UNCHANGED <<fleet, pc, owner, prep>> PROVE SettleInv'
    BY <1>7, <1>9 DEF Terminal
<1>10. ASSUME NEW t \in Task, ChildExits(t) \/ (\E v \in Verdicts : SubmitReview(t, v))
       PROVE  SettleInv'
    BY <1>9, <1>10 DEF ChildExits, SubmitReview, body, spawn
<1>11. CASE (\E local \in BOOLEAN : ResolveFleet(local)) \/ TakeChildren \/ TermWorkers \/ KillWorkers
    BY <1>9, <1>11 DEF ResolveFleet, TakeChildren, TermWorkers, KillWorkers, body, spawn
<1>12. CASE UNCHANGED vars
    BY <1>9, <1>12, StutterFrame
<1> QED BY <1>1, <1>2, <1>3, <1>4, <1>5, <1>6, <1>8, <1>10, <1>11, <1>12 DEF Next, Cancel

(* Whichever body panics, times out, is cancelled or loses the race for the merge phase: once     *)
(* all of them are gone, the fleet's row is finished or waits for a reviewer.                     *)
THEOREM NotStrandedAlways == Spec => []NotStranded
<1>1. Init => SettleInv
    BY DEF Init, SettleInv
<1>2. SafetyInv /\ SettleInv /\ [Next]_vars => SettleInv'
    BY SettleStep DEF SafetyInv
<1>3. SafetyInv /\ SettleInv => NotStranded
  <2> SUFFICES ASSUME SafetyInv, SettleInv, owner = "up", "ledger" \notin Events,
                      \A t \in Task : pc[t] = "gone"
               PROVE  fleet \in Finished \cup {"blocked_on_review"}
    BY DEF NotStranded
  <2>1. 1 \in Task
    BY FleetAssumption DEF Task
  <2>2. prep = "spawned"
    BY <2>1 DEF SafetyInv, OwnerInv
  <2>3. fleet \notin {"none", "spawning", "running", "merging"}
    BY <2>2 DEF SettleInv, Launching, Completing
  <2> QED BY <2>3 DEF SafetyInv, TypeOK, FleetState, Finished
<1> QED BY <1>1, <1>2, <1>3, Safety, PTL DEF Spec

-----------------------------------------------------------------------------
(* A freed task is handed out once. *)

\* The tasks of a fleet whose owner lives are not open to anyone; those of a dead one open up when
\* recovery has recorded the fleet `failed` and is done with it, and none is taken back again.
GrantInv ==
    /\ (owner = "up" /\ prep \in {"task", "assign"}) => \A t \in Task : t < idx => granted[t] = 0
    /\ (owner = "up" /\ prep \in {"running", "spawned"}) => \A t \in Task : granted[t] = 0
    /\ (owner = "up" /\ prep = "spawned") =>
           \A t \in Task : task[t] \in {"in_progress", "done", "failed"}
    /\ prep = "spawned" =>
           /\ \A t \in Task : granted[t] # 0 => granted[t] = 1 /\ task[t] = "claimed"
           /\ \A t \in Task : task[t] \in {"none", "pending", "claimed"} =>
                  fleet = "failed" /\ \A r \in Recoverers : rpc[r] = "idle"
           /\ \A r \in Recoverers : rpc[r] = "reset" => fleet = "failed"

(* With one daemon recovering at a time, no step opens a task that was handed out. *)
LEMMA GrantStep ==
    ASSUME \A r, s \in Recoverers : r = s,
           TypeOK, OwnerInv, ClaimInv, GrantInv, [Next]_vars
    PROVE  GrantInv'
<1>1. CASE Prepare
  <2>0. /\ owner = "up" /\ UNCHANGED <<owner, rpc>>
        /\ \A r \in Recoverers : rpc[r] = "idle"
    BY <1>1 DEF Prepare, InsertFleet, InsertTask, AssignTask, StartMembers, PrepareFails, OwnerInv,
                others
  <2> USE <2>0 DEF TypeOK, others
  <2>1. CASE InsertFleet
    <3>1. prep' = "task" /\ idx' = 1 /\ granted' = granted
      BY <2>1 DEF InsertFleet, ClaimInv
    <3> QED BY <3>1 DEF GrantInv, Task
  <2>2. CASE InsertTask
    BY <2>2 DEF InsertTask, GrantInv
  <2>3. CASE AssignTask
    <3>1. \A t \in Task : t <= idx => granted'[t] = 0
      BY <2>3 DEF AssignTask, GrantInv, Task
    <3>2. \/ prep' = "running" /\ idx = NTasks
          \/ prep' = "task" /\ idx' = idx + 1
      BY <2>3 DEF AssignTask
    <3> QED BY <3>1, <3>2, FleetAssumption DEF GrantInv, Task
  <2>4. CASE StartMembers
    <3>1. /\ prep' = "spawned" /\ granted' = granted /\ \A t \in Task : task'[t] = "in_progress"
          /\ \A t \in Task : granted[t] = 0
      BY <2>4 DEF StartMembers, ClaimInv, GrantInv
    <3> QED BY <3>1 DEF GrantInv
  <2>5. CASE PrepareFails
    BY <2>5 DEF PrepareFails, GrantInv
  <2> QED BY <1>1, <2>1, <2>2, <2>3, <2>4, <2>5 DEF Prepare
<1>2. ASSUME owner = "up", prep = "spawned", UNCHANGED <<owner, prep, rpc, granted>>,
             \A t \in Task : task'[t] \in {"in_progress", "done", "failed"}
      PROVE  GrantInv'
  <2>1. \A r \in Recoverers : rpc'[r] = "idle"
    BY <1>2 DEF OwnerInv
  <2> QED BY <1>2, <2>1 DEF GrantInv
<1>3. ASSUME NEW t \in Task, Run(t) \/ Panic(t) \/ Complete(t) PROVE GrantInv'
  <2>1. owner = "up" /\ prep = "spawned" /\ UNCHANGED <<owner, prep, rpc>>
    BY <1>3, RunFrame, CompleteFrame
       DEF Panic, OwnerInv, Launching, Completing, spawn, others
  <2>2. granted' = granted
    BY <1>3 DEF Run, RunRequested, BreakerOpen, CheckPasses, CancelledBeforeLaunch,
                WriteLaunchMarker, Launch, LaunchFails, WriteToken, WriteTokenFails, NoToken,
                ClearLaunchMarker, RegisterChild, RecheckCancel, WaitEnds, WaitEndsBad,
                WaitTimesOut, RecordTask, Panic, Complete, Finalize, BeginMerge, MergePhaseAborts,
                FailOnFailedTasks, NoFailedTasks, ReviewTask, GatePasses, ParkOnReview, MergeNext,
                MergeEmpty, EndMerge, EndBody, others
  <2>3. \A u \in Task : task'[u] = task[u] \/ task'[u] \in {"done", "failed"}
    <3>1. CASE Run(t)
      BY <3>1, RunTask DEF TypeOK
    <3>2. CASE Panic(t)
      BY <3>2 DEF Panic, TypeOK
    <3>3. CASE Complete(t)
      BY <3>3, CompleteTask DEF TypeOK
    <3> QED BY <1>3, <3>1, <3>2, <3>3
  <2>4. \A u \in Task : task[u] \in {"in_progress", "done", "failed"}
    BY <2>1 DEF GrantInv
  <2> QED BY <1>2, <2>1, <2>2, <2>3, <2>4
<1>4. CASE MarkCancelled
  <2>1. UNCHANGED <<task, owner, prep, idx, rpc, granted>> /\ (fleet = "failed" => fleet' = "failed")
    BY <1>4 DEF MarkCancelled, Finished, spawn
  <2> QED BY <2>1 DEF GrantInv
<1>5. ASSUME NEW r \in Recoverers, Recover(r) PROVE GrantInv'
  <2>0. /\ owner = "down" /\ UNCHANGED <<owner, prep, idx, granted>>
    BY <1>5 DEF Recover, RecoverScan, RecoverStop, RecoverFail, RecoverReset, OwnerInv, spawn
  <2> USE <2>0 DEF TypeOK
  <2>1. CASE RecoverScan(r)
    <3>1. fleet # "failed" /\ rpc'[r] \in {"stop", "stoponly"} /\ UNCHANGED <<fleet, task>>
      BY <2>1 DEF RecoverScan, Recoverable
    <3>2. \A q \in Recoverers : rpc'[q] # "reset"
      BY <3>1
    <3> QED BY <3>1, <3>2 DEF GrantInv
  <2>2. CASE RecoverStop(r)
    <3>1. rpc[r] # "idle" /\ rpc'[r] # "reset" /\ UNCHANGED <<fleet, task>>
      BY <2>2 DEF RecoverStop
    <3>2. \A q \in Recoverers : q = r
      OBVIOUS
    <3> QED BY <3>1, <3>2 DEF GrantInv
  <2>3. CASE RecoverFail(r)
    <3>1. /\ rpc[r] # "idle" /\ task' = task
          /\ (rpc'[r] = "reset" => fleet' = "failed")
      BY <2>3 DEF RecoverFail, RecoverEnds
    <3>2. \A q \in Recoverers : q = r
      OBVIOUS
    <3> QED BY <3>1, <3>2 DEF GrantInv
  <2>4. CASE RecoverReset(r)
    <3>1. /\ rpc[r] = "reset" /\ rpc'[r] = "idle" /\ fleet' = fleet
          /\ \A q \in Recoverers : q = r
      BY <2>4 DEF RecoverReset, RecoverEnds
    <3>2. prep = "spawned" =>
              /\ fleet = "failed"
              /\ \A t \in Task : task[t] \notin {"none", "pending", "claimed"} /\ granted[t] = 0
      BY <3>1 DEF GrantInv
    <3>3. \A q \in Recoverers : rpc'[q] = "idle"
      BY <3>1
    <3> QED BY <3>1, <3>2, <3>3 DEF GrantInv
  <2> QED BY <1>5, <2>1, <2>2, <2>3, <2>4 DEF Recover
<1>6. CASE OwnerCrash
  <2>1. owner = "up" /\ owner' = "down" /\ UNCHANGED <<fleet, task, prep, rpc, granted>>
    BY <1>6 DEF OwnerCrash
  <2> QED BY <2>1 DEF GrantInv
<1>7. ASSUME NEW t \in Task, ClaimTask(t) PROVE GrantInv'
  <2>1. /\ task[t] = "pending" /\ task'[t] = "claimed" /\ granted'[t] = granted[t] + 1
        /\ \A u \in Task : u # t => task'[u] = task[u] /\ granted'[u] = granted[u]
        /\ UNCHANGED <<fleet, owner, prep, idx, rpc>>
    BY <1>7 DEF ClaimTask, TypeOK, spawn
  <2>2. owner = "up" => /\ prep \notin {"running", "spawned"}
                        /\ prep \in {"task", "assign"} => ~(t < idx)
    <3>1. (owner = "up" /\ prep \in {"task", "assign"} /\ t < idx) => t \in 1..(idx - 1)
      BY DEF TypeOK, Task
    <3> QED BY <2>1, <3>1 DEF GrantInv, ClaimInv
  <2>3. prep = "spawned" => granted[t] = 0 /\ fleet = "failed" /\ \A r \in Recoverers : rpc[r] = "idle"
    BY <2>1 DEF GrantInv
  <2> QED BY <2>1, <2>2, <2>3 DEF GrantInv
<1>8. ASSUME UNCHANGED <<fleet, task, owner, prep, idx, rpc, granted>> PROVE GrantInv'
    BY <1>8 DEF GrantInv
<1>9. ASSUME NEW t \in Task, ChildExits(t) \/ (\E v \in Verdicts : SubmitReview(t, v))
      PROVE  GrantInv'
    BY <1>8, <1>9 DEF ChildExits, SubmitReview, spawn, others
<1>10. CASE (\E local \in BOOLEAN : ResolveFleet(local)) \/ TakeChildren \/ TermWorkers \/ KillWorkers
    BY <1>8, <1>10 DEF ResolveFleet, TakeChildren, TermWorkers, KillWorkers, spawn
<1>11. CASE UNCHANGED vars
    BY <1>8, <1>11 DEF vars, spawn, others
<1> QED BY <1>1, <1>3, <1>4, <1>5, <1>6, <1>7, <1>9, <1>10, <1>11 DEF Next, Cancel

(* Where one daemon recovers and the degraded route is off, a task that recovery freed goes to    *)
(* one claimant, and no agent of the fleet works beside it. (Of two daemons that recover at once, *)
(* the slower one frees a task again that was already claimed.)                                   *)
THEOREM GrantedOnceAlways ==
    ASSUME ~DegradedRoute, \A r, s \in Recoverers : r = s
    PROVE  Spec => []GrantedOnce
<1>1. Init => ClaimInv /\ GrantInv
    BY DEF Init, ClaimInv, NoSecondWorker, Alive, Launching, GrantInv
<1>2. SafetyInv /\ ClaimInv /\ GrantInv /\ [Next]_vars => ClaimInv' /\ GrantInv'
    BY ClaimStep, GrantStep DEF SafetyInv
<1>3. SafetyInv /\ ClaimInv /\ GrantInv => GrantedOnce
  <2> SUFFICES ASSUME SafetyInv, ClaimInv, GrantInv, prep = "spawned", NEW t \in Task
               PROVE  granted[t] <= 1 /\ (granted[t] = 1 => ~Alive(t))
    BY DEF GrantedOnce
  <2>1. granted[t] \in 0..2
    BY DEF SafetyInv, TypeOK
  <2>2. granted[t] # 0 => granted[t] = 1 /\ task[t] = "claimed"
    BY DEF GrantInv
  <2> QED BY <2>1, <2>2 DEF ClaimInv, NoSecondWorker
<1> QED BY <1>1, <1>2, <1>3, Safety, PTL DEF Spec

-----------------------------------------------------------------------------
(* A cancel reaches every worker. *)

\* The cancel stands where the recheck finds it: in the owner's memory, or in a ledger it can read.
CancelSeen == fleet_cancel_requested /\ (clocal \/ "ledger" \notin Events)

\* A running agent has a body that owns it, and FLEET_CHILDREN names only agents whose body has
\* registered them. A local cancel has set its flag before it takes the children, so whatever is
\* registered afterwards is signalled by its own body; and once the tokens were gone through, an
\* agent that got one later belongs to a body that has yet to recheck, or has rechecked.
CancelInv ==
    /\ owner = "up" => \A t \in Task : Alive(t) => pc[t] \in Owning
    /\ \A t \in registered : pc[t] \in {"recheck", "wait"}
    /\ (owner = "up" /\ clocal /\ cpc \notin {"idle", "take"}) =>
           /\ cancelMem
           /\ \A t \in registered : pc[t] = "wait" /\ Alive(t) => t \in signalled
    /\ (owner = "up" /\ cpc \in {"kill", "answered"} /\ CancelSeen) =>
           \A t \in Task : pc[t] = "wait" /\ Alive(t) /\ token[t] = "named"
                              => t \in signalled \cup cproblems

(* A body up to its outcome: its agent is alive only in its hands, it registers before it         *)
(* rechecks, and it leaves the recheck without a signal only when no cancel was in sight.         *)
LEMMA RunWorker ==
    ASSUME TypeOK, LaunchInv, CancelInv, NEW t \in Task, Run(t) \/ Panic(t)
    PROVE  /\ UNCHANGED <<cancelMem, cancelv>>
           /\ \A u \in Task : u # t => /\ pc'[u] = pc[u] /\ child'[u] = child[u] /\ token'[u] = token[u]
                                       /\ (u \in registered' <=> u \in registered)
                                       /\ (u \in signalled' <=> u \in signalled)
           /\ child'[t] = "alive" => pc'[t] \in Owning
           /\ t \in registered' => pc'[t] \in {"recheck", "wait"}
           /\ (pc'[t] = "wait" /\ child'[t] = "alive") =>
                  \/ pc[t] = "recheck" /\ (t \in signalled' \/ CancelUnseen)
                  \/ t \notin registered' /\ token'[t] # "named"
<1> USE DEF TypeOK, At, Goto, Conclude, Alive, Owning, files, procs, memory, others, cancelv
<1>0. owner = "up"
    BY RunFrame DEF Panic
<1>1. pc[t] \in {"start", "check", "mark", "launch"} => child[t] # "alive"
    BY DEF LaunchInv
<1>2. /\ pc[t] \notin {"recheck", "wait"} => t \notin registered
      /\ child[t] = "alive" => pc[t] \in Owning
    BY <1>0 DEF CancelInv
<1> USE <1>1, <1>2
<1>3. CASE RunRequested(t)
    BY <1>3 DEF RunRequested
<1>4. CASE BreakerOpen(t)
    BY <1>4 DEF BreakerOpen
<1>5. CASE CheckPasses(t)
    BY <1>5 DEF CheckPasses
<1>6. CASE CancelledBeforeLaunch(t)
    BY <1>6 DEF CancelledBeforeLaunch
<1>7. CASE WriteLaunchMarker(t)
    BY <1>7 DEF WriteLaunchMarker
<1>8. CASE Launch(t)
    BY <1>8 DEF Launch
<1>9. CASE LaunchFails(t)
    BY <1>9 DEF LaunchFails
<1>10. CASE WriteToken(t)
    BY <1>10 DEF WriteToken
<1>11. CASE WriteTokenFails(t)
    BY <1>11 DEF WriteTokenFails
<1>12. CASE NoToken(t)
    BY <1>12 DEF NoToken
<1>13. CASE ClearLaunchMarker(t)
    BY <1>13 DEF ClearLaunchMarker
<1>14. CASE RegisterChild(t)
    BY <1>14 DEF RegisterChild
<1>15. CASE RecheckCancel(t)
    BY <1>15 DEF RecheckCancel
<1>16. CASE WaitEnds(t)
    BY <1>16 DEF WaitEnds, ChildEnd
<1>17. CASE WaitEndsBad(t)
    BY <1>17 DEF WaitEndsBad, ChildEnd
<1>18. CASE WaitTimesOut(t)
    BY <1>18 DEF WaitTimesOut
<1>19. CASE RecordTask(t)
    BY <1>19 DEF RecordTask
<1>20. CASE Panic(t)
    BY <1>20 DEF Panic
<1> QED BY <1>3, <1>4, <1>5, <1>6, <1>7, <1>8, <1>9, <1>10, <1>11, <1>12, <1>13, <1>14, <1>15, <1>16,
           <1>17, <1>18, <1>19, <1>20 DEF Run

(* No step leaves an agent between the tokens a cancel goes through and the recheck of its body. *)
LEMMA CancelStep ==
    ASSUME TypeOK, OwnerInv, LaunchInv, CancelInv, [Next]_vars
    PROVE  CancelInv'
<1> USE DEF TypeOK
\* What ends agents, or says that more of them were signalled, and leaves the rest alone.
<1>0. ASSUME UNCHANGED <<pc, token, registered, cancelMem>>,
             owner' = "up" => owner = "up",
             cpc' = cpc, clocal' = clocal, cproblems' = cproblems, signalled' = signalled,
             fleet' = "cancelled" => fleet = "cancelled",
             \A t \in Task : child'[t] = "alive" => child[t] = "alive"
      PROVE  CancelInv'
    BY <1>0 DEF CancelInv, CancelSeen, Alive, fleet_cancel_requested
<1>1. CASE Prepare
  <2>1. owner = "up" /\ prep # "spawned" /\ UNCHANGED <<owner, child, token, registered, cancelMem, cancelv, signalled>>
    BY <1>1 DEF Prepare, InsertFleet, InsertTask, AssignTask, StartMembers, PrepareFails, files,
                procs, memory, others, spawn
  <2>2. \A t \in Task : pc[t] = "off"
    BY <2>1 DEF OwnerInv
  <2>3. registered = {} /\ \A t \in Task : ~Alive(t)
    BY <2>2 DEF CancelInv, LaunchInv
  <2> QED BY <2>1, <2>3 DEF CancelInv, Alive, cancelv
<1>2. ASSUME NEW t \in Task, Run(t) \/ Panic(t) PROVE CancelInv'
  <2>1. owner = "up" /\ UNCHANGED <<owner, fleet>>
    BY <1>2, RunFrame DEF Panic, spawn
  <2>2. UNCHANGED <<cancelMem, cpc, clocal, cproblems>>
    BY <1>2, RunWorker DEF cancelv
  <2>3. \A u \in Task : u # t => /\ pc'[u] = pc[u] /\ child'[u] = child[u] /\ token'[u] = token[u]
                                /\ (u \in registered' <=> u \in registered)
                                /\ (u \in signalled' <=> u \in signalled)
    BY <1>2, RunWorker
  <2>4. /\ child'[t] = "alive" => pc'[t] \in Owning
        /\ t \in registered' => pc'[t] \in {"recheck", "wait"}
    BY <1>2, RunWorker
  <2>5. (pc'[t] = "wait" /\ child'[t] = "alive") =>
                  \/ pc[t] = "recheck" /\ (t \in signalled' \/ CancelUnseen)
                  \/ t \notin registered' /\ token'[t] # "named"
    BY <1>2, RunWorker
  <2>6. registered' \subseteq Task
    BY <1>2, TypeRun, TypeWorld
  <2>7. /\ \A u \in Task : Alive(u)' => pc'[u] \in Owning
        /\ \A u \in registered' : pc'[u] \in {"recheck", "wait"}
    BY <2>1, <2>3, <2>4, <2>6 DEF CancelInv, Alive
  <2>8. (clocal /\ cpc \notin {"idle", "take"}) =>
            /\ cancelMem
            /\ \A u \in registered' : pc'[u] = "wait" /\ Alive(u)' => u \in signalled'
    BY <2>1, <2>3, <2>5, <2>6 DEF CancelInv, Alive, CancelUnseen, fleet_cancel_requested
  <2>9. (cpc \in {"kill", "answered"} /\ CancelSeen) =>
            \A u \in Task : pc'[u] = "wait" /\ Alive(u)' /\ token'[u] = "named"
                              => u \in signalled' \cup cproblems
    <3>1. (cpc \in {"kill", "answered"} /\ CancelSeen) => ~CancelUnseen
      BY <2>1 DEF CancelInv, CancelSeen, CancelUnseen, fleet_cancel_requested
    <3> QED BY <2>1, <2>3, <2>5, <3>1 DEF CancelInv, Alive
  <2> QED BY <2>1, <2>2, <2>7, <2>8, <2>9 DEF CancelInv, CancelSeen, fleet_cancel_requested
<1>3. ASSUME NEW t \in Task, Complete(t) PROVE CancelInv'
  <2>1. /\ owner = "up" /\ UNCHANGED <<owner, token, child>>
        /\ pc[t] \in {"finalize", "cas", "end"} \cup Completing
        /\ pc'[t] \in {"finalize", "cas", "end", "gone"} \cup Completing
        /\ \A u \in Task : u # t => pc'[u] = pc[u]
    BY <1>3, CompleteFrame
  <2>2. /\ UNCHANGED <<registered, cancelMem, cpc, clocal, cproblems, signalled>>
        /\ fleet' = "cancelled" => fleet = "cancelled"
    BY <1>3 DEF Complete, Finalize, BeginMerge, MergePhaseAborts, FailOnFailedTasks, NoFailedTasks,
                ReviewTask, GatePasses, ParkOnReview, MergeNext, MergeEmpty, EndMerge, EndBody,
                memory, others, cancelv, procs
  <2>3. ~Alive(t) /\ t \notin registered
    BY <2>1 DEF CancelInv, Owning, Completing
  <2> QED BY <2>1, <2>2, <2>3 DEF CancelInv, CancelSeen, Alive, fleet_cancel_requested
<1>4. ASSUME NEW local \in BOOLEAN, ResolveFleet(local) PROVE CancelInv'
    BY <1>4 DEF ResolveFleet, CancelInv, Alive, memory, body, spawn, files, procs
<1>5. CASE TakeChildren
  <2>1. UNCHANGED <<fleet, pc, owner, token, child, signalled, clocal, cproblems>>
        /\ cpc = "take" /\ cpc' = "mark"
    BY <1>5 DEF TakeChildren, body, spawn, files, procs
  <2>2. CASE clocal
    BY <1>5, <2>1, <2>2 DEF TakeChildren, CancelInv, Alive
  <2>3. CASE ~clocal
    BY <1>5, <2>1, <2>3 DEF TakeChildren, CancelInv, Alive
  <2> QED BY <2>2, <2>3
<1>6. CASE MarkCancelled
    BY <1>6 DEF MarkCancelled, CancelInv, Alive, memory, body, spawn, files, procs
<1>7. CASE TermWorkers
  <2>1. PICK R \in (IF "refuse" \in Events THEN SUBSET Named ELSE {{}}) :
            /\ cproblems' = R
            /\ signalled' = signalled \cup (Named \ R)
                                \cup {t \in ctargets : Alive(t) /\ token[t] # "named"}
    BY <1>7 DEF TermWorkers
  <2>2. UNCHANGED <<fleet, pc, owner, token, child, clocal, registered, cancelMem>>
        /\ cpc = "term" /\ cpc' = "kill"
    BY <1>7 DEF TermWorkers, body, spawn, files, memory
  <2>3. \A t \in Task : Alive(t) /\ token[t] = "named" => t \in signalled' \cup cproblems'
    BY <2>1 DEF Named
  <2>4. signalled \subseteq signalled'
    BY <2>1
  <2> QED BY <2>2, <2>3, <2>4 DEF CancelInv, Alive
<1>8. CASE KillWorkers
  <2>1. \A t \in Task : child'[t] = "alive" => child[t] = "alive"
    BY <1>8 DEF KillWorkers
  <2>2. UNCHANGED <<fleet, pc, owner, token, signalled, clocal, cproblems, registered, cancelMem>>
        /\ cpc = "kill" /\ cpc' = "answered"
    BY <1>8 DEF KillWorkers, body, spawn, files, memory
  <2> QED BY <2>1, <2>2 DEF CancelInv, CancelSeen, Alive, fleet_cancel_requested
<1>9. ASSUME NEW r \in Recoverers, Recover(r) PROVE CancelInv'
  <2>1. owner = "down" /\ UNCHANGED <<owner, pc, registered>>
    BY <1>9 DEF Recover, RecoverScan, RecoverStop, RecoverFail, RecoverReset, OwnerInv, body, spawn,
                memory
  <2> QED BY <2>1 DEF CancelInv
<1>10. CASE OwnerCrash
    BY <1>10 DEF OwnerCrash, CancelInv
<1>11. ASSUME NEW t \in Task, ClaimTask(t) PROVE CancelInv'
    BY <1>0, <1>11 DEF ClaimTask, body, spawn, files, procs, memory, cancelv
<1>12. ASSUME NEW t \in Task, ChildExits(t) PROVE CancelInv'
    BY <1>0, <1>12 DEF ChildExits, ChildEnd, body, spawn, files, memory, others, cancelv
<1>13. ASSUME NEW t \in Task, NEW v \in Verdicts, SubmitReview(t, v) PROVE CancelInv'
    BY <1>0, <1>13 DEF SubmitReview, body, spawn, files, procs, memory, others, cancelv
<1>14. CASE UNCHANGED vars
    BY <1>0, <1>14 DEF vars, body, spawn, files, procs, memory, others, cancelv
<1> QED BY <1>1, <1>2, <1>3, <1>4, <1>5, <1>6, <1>7, <1>8, <1>9, <1>10, <1>11, <1>12, <1>13, <1>14
        DEF Next, Cancel

(* With CancelInv, what the answer of a cancel promises. *)
LEMMA SeenReachesWorkers ==
    ASSUME CancelInv, clocal \/ "ledger" \notin Events
    PROVE  CancelReachesEveryWorker
<1> SUFFICES ASSUME cpc = "answered", owner = "up", fleet_cancel_requested,
                    NEW t \in Task, Alive(t),
                    pc[t] \notin {"token", "clear", "register", "recheck"}
             PROVE  \/ t \in signalled \cup cproblems
                    \/ token[t] # "named" /\ (~clocal \/ t \notin registered)
    BY DEF CancelReachesEveryWorker
<1>1. pc[t] = "wait"
    BY DEF CancelInv, Owning
<1> QED BY <1>1 DEF CancelInv, CancelSeen

(* CancelInv holds in every reachable state. *)
LEMMA CancelAlways == Spec => []CancelInv
<1>1. Init => CancelInv
    BY DEF Init, CancelInv, Alive
<1>2. SafetyInv /\ CancelInv /\ [Next]_vars => CancelInv'
    BY CancelStep DEF SafetyInv
<1> QED BY <1>1, <1>2, Safety, PTL DEF Spec

(* While the ledger can be read, a cancel that was answered `canceled` and still stands has       *)
(* signalled every agent it could know of, or reported it, or its body is yet to recheck: the     *)
(* children taken from memory, the tokens and the recheck after the registration leave no gap.    *)
THEOREM CancelReachesEveryWorkerAlways ==
    ASSUME "ledger" \notin Events
    PROVE  Spec => []CancelReachesEveryWorker
<1>1. CancelInv => CancelReachesEveryWorker
    BY SeenReachesWorkers
<1> QED BY <1>1, CancelAlways, PTL

(* A cancel in the owner's own process keeps that promise even where ledger statements fail: the  *)
(* recheck finds it in memory. (One from another process does not: a recheck that cannot read the *)
(* row takes the fleet for not cancelled.)                                                        *)
THEOREM LocalCancelReachesEveryWorker == Spec => [](clocal => CancelReachesEveryWorker)
<1>1. CancelInv => (clocal => CancelReachesEveryWorker)
    BY SeenReachesWorkers
<1> QED BY <1>1, CancelAlways, PTL

\* From the moment a cancel in the owner has set its flag, no body begins another attempt: neither
\* one that comes to its pre-launch check nor one whose agy attempt failed and would be retried with
\* codex. Only a body that had passed its check may still launch.
LocalCancelEndsLaunching ==
    [][(clocal /\ owner = "up" /\ cpc \notin {"idle", "take"}) =>
           \A t \in Task : pc'[t] = "mark" => pc[t] = "mark"]_vars

(* The half of CancelHonoured that stands for every fleet, for a cancel in the owner: whatever    *)
(* becomes of the row, and whether or not the ledger can be read, nothing more is launched.       *)
THEOREM LocalCancelEndsLaunchingAlways == Spec => LocalCancelEndsLaunching
<1>1. TypeOK /\ OwnerInv /\ CancelInv /\ [Next]_vars =>
          [(clocal /\ owner = "up" /\ cpc \notin {"idle", "take"}) =>
               \A t \in Task : pc'[t] = "mark" => pc[t] = "mark"]_vars
  <2> SUFFICES ASSUME TypeOK, OwnerInv, CancelInv, [Next]_vars, clocal, owner = "up",
                      cpc \notin {"idle", "take"}, NEW u \in Task, pc'[u] = "mark"
               PROVE  pc[u] = "mark"
    OBVIOUS
  <2>1. ~CancelUnseen
    BY DEF CancelInv, CancelUnseen, fleet_cancel_requested
  <2>2. ASSUME NEW t \in Task, Run(t) PROVE pc[u] = "mark"
    <3>1. CASE u = t
      BY <2>1, <2>2, <3>1
         DEF Run, RunRequested, BreakerOpen, CheckPasses, CancelledBeforeLaunch, WriteLaunchMarker,
             Launch, LaunchFails, WriteToken, WriteTokenFails, NoToken, ClearLaunchMarker,
             RegisterChild, RecheckCancel, WaitEnds, WaitEndsBad, WaitTimesOut, RecordTask, At,
             Goto, Conclude, TypeOK
    <3>2. CASE u # t
      BY <2>2, <3>2, RunFrame DEF TypeOK
    <3> QED BY <3>1, <3>2
  <2>3. ASSUME NEW t \in Task, Complete(t) PROVE pc[u] = "mark"
    BY <2>3, CompleteFrame DEF TypeOK, Completing
  <2>4. ASSUME NEW t \in Task, Panic(t) PROVE pc[u] = "mark"
    BY <2>4 DEF Panic, Goto, TypeOK
  <2>5. CASE Prepare
    BY <2>5 DEF Prepare, InsertFleet, InsertTask, AssignTask, StartMembers, PrepareFails, body
  <2>6. CASE MarkCancelled
    BY <2>6 DEF MarkCancelled, body
  <2>7. ASSUME NEW r \in Recoverers, Recover(r) PROVE pc[u] = "mark"
    BY <2>7 DEF Recover, RecoverScan, RecoverStop, RecoverFail, RecoverReset, body
  <2>8. CASE OwnerCrash
    BY <2>8 DEF OwnerCrash
  <2>9. CASE UNCHANGED vars
    BY <2>9, StutterFrame
  <2> QED BY <2>2, <2>3, <2>4, <2>5, <2>6, <2>7, <2>8, <2>9, WorldFrame DEF Next, Cancel
<1>2. SafetyInv => TypeOK /\ OwnerInv
    BY DEF SafetyInv
<1> QED BY <1>1, <1>2, Safety, CancelAlways, PTL DEF Spec, LocalCancelEndsLaunching

=============================================================================
