------------------------------- MODULE Fleet -------------------------------
(***************************************************************************)
(* One fleet of the legacy engine (crates/fleet/src/orchestrator.rs): the  *)
(* process that spawns it (its owner), one worker body per member, the     *)
(* agent CLI each body launches, the merge phase the last body to finish   *)
(* drives, an operator's fleet_cancel (crates/mcp-tools/src/fleet.rs) from *)
(* this or another process, and the startup recovery of any other daemon   *)
(* (crates/fleet/src/recovery.rs) once the owner has died.                 *)
(*                                                                         *)
(* A step is what one SQL statement, one file operation or one signal does *)
(* to the state other actors share; everything in between is local.        *)
(*                                                                         *)
(* Simplifications: the child is the leader of its process group; a token  *)
(* file that is unreadable counts as one that refuses verification; the    *)
(* wall clock is gone, so a deadline may pass whenever a worker waits; the *)
(* circuit breaker, the slot and the rate limit of agy are an arbitrary    *)
(* answer of mcp-bridge; a panic strikes a body before it has recorded its *)
(* outcome; ledger events are left out.                                    *)
(***************************************************************************)
EXTENDS Naturals

CONSTANTS
    NTasks,         \* members of the fleet; member i runs task i
    Agy,            \* the members whose agent is gemini on the agy backend
    DegradedRoute,  \* TRIUMVIRATE_GEMINI_DEGRADED_ROUTE allows codex
    RequireReview,  \* TRIUMVIRATE_FLEET_REQUIRE_REVIEW
    Wait,           \* fleet_spawn's `wait`: the caller runs the members inline
    Verdicts,       \* the verdicts reviewers give
    Recoverers,     \* other daemons that start, each running recovery
    Events          \* what the environment may do besides running to the end

Task == 1..NTasks

AllVerdicts == {"approve", "concerns", "reject", "indeterminate"}

(* Members of Events: the owner is killed; a worker body panics; a ledger   *)
(* statement fails; a launched process cannot be named by a token; a live   *)
(* process left the group its token names; preparation bails out; an        *)
(* operator cancels; a recovering daemon dies or loses the ledger between   *)
(* two statements; an agent claims a pending task over MCP.                 *)
AllEvents == {"crash", "panic", "ledger", "untracked", "refuse", "prepare",
              "cancel", "interrupt", "claim"}

ASSUME FleetAssumption ==
    /\ NTasks \in Nat \ {0}
    /\ Agy \subseteq Task
    /\ DegradedRoute \in BOOLEAN
    /\ RequireReview \in BOOLEAN
    /\ Wait \in BOOLEAN
    /\ Verdicts \subseteq AllVerdicts
    /\ Events \subseteq AllEvents

VARIABLES
    (* The ledger, the worker directory and the repository: they survive a crash. *)
    fleet,       \* fleets.state of this fleet; "none" before the row exists
    task,        \* tasks.state of each task; "none" before the row exists
    verdict,     \* newest answered review of each task's branch
    marker,      \* the tasks with a <task>.launching file
    token,       \* <task>.json: absent, naming the task's latest child, or an earlier one
    merged,      \* the branches merged into the checked-out HEAD
    (* The operating system. *)
    child,       \* latest agent process of each task: running, or how it ended
    signalled,   \* the running children that were sent SIGTERM
    (* The owner process. *)
    owner,       \* "up" or "down"
    prep, idx,   \* where prepare_fleet_members is, and at which member
    pc,          \* where each worker body is
    armed,       \* the bodies whose WorkerTerminalGuard is armed
    useAgy,      \* the bodies whose current attempt runs agy
    outcome,     \* what a body is about to record
    queue,       \* the MergeCoordinator's completion queue, per body
    registered,  \* FLEET_CHILDREN of this fleet
    cancelMem,   \* this fleet is in CANCELLED_FLEETS of the owner
    (* fleet_cancel. *)
    cpc,         \* where it is
    clocal,      \* it runs in the owner
    cfinished,   \* it found the fleet finished
    ctargets,    \* the children taken from memory, then those it terminates through their tokens
    canswer, cproblems,  \* its answer, and the workers it reports as perhaps still running
    (* recover_stale_fleets, per recovering daemon. *)
    rpc,
    (* Observation only. *)
    late,        \* tasks judged since a review gate last read their verdict
    granted      \* how often each task was handed to an MCP claimant since the fleet assigned it

files   == <<marker, token>>
procs   == <<child, signalled>>
body    == <<pc, armed, useAgy, outcome, queue>>
spawn   == <<owner, prep, idx>>
memory  == <<registered, cancelMem>>
cancelv == <<cpc, clocal, cfinished, ctargets, canswer, cproblems>>
others  == <<cancelv, rpc, granted>>
vars    == <<fleet, task, verdict, files, merged, procs, body, spawn, memory, others, late>>

-----------------------------------------------------------------------------
(* States and their classes. *)

FleetState == {"none", "spawning", "running", "merging", "blocked_on_review",
               "done", "failed", "cancelled"}
TaskState  == {"none", "pending", "claimed", "in_progress", "done", "failed"}

Finished    == {"done", "failed", "cancelled"}              \* fleets a cancel leaves alone
Mergeable   == {"spawning", "running", "blocked_on_review"} \* fleets complete_fleet admits
Recoverable == {"spawning", "running", "merging"}           \* fleets recovery looks at

is_terminal_task_state(s) == s \in {"done", "failed"}
Terminal(t) == is_terminal_task_state(task[t])
Done   == {t \in Task : task[t] = "done"}
Failed == {t \in Task : task[t] = "failed"}
Alive(t) == child[t] = "alive"
ChildEnd == {"committed", "empty", "bad"}  \* exit 0 with a new commit, exit 0 without, any other

(* Program points of a worker body, in order. *)
Launching  == {"start", "check", "mark", "launch", "token", "clear", "register",
               "recheck", "wait", "record"}
Owning     == {"token", "clear", "register", "recheck", "wait"}  \* holds the Child
Completing == {"gate", "review", "block", "merge", "commit", "giveup"}  \* inside complete_fleet
BodyPoint  == {"off"} \cup Launching \cup {"finalize", "cas"} \cup Completing \cup {"end", "gone"}

fleet_cancel_requested == cancelMem \/ fleet = "cancelled"
CancelUnseen == ~fleet_cancel_requested \/ ("ledger" \in Events /\ ~cancelMem)  \* no row, no cancel

(* review_gate_decision on the newest answered review; "none" when nobody answered. *)
review_gate_decision(v) ==
    IF v = "none" THEN IF RequireReview THEN "Blocked" ELSE "AutoApproved"
    ELSE IF v \in {"approve", "concerns"} THEN "Approved" ELSE "Blocked"
GateBlocks(t) == review_gate_decision(verdict[t]) = "Blocked"

TypeOK ==
    /\ fleet \in FleetState
    /\ task \in [Task -> TaskState]
    /\ verdict \in [Task -> AllVerdicts \cup {"none"}]
    /\ marker \in SUBSET Task
    /\ token \in [Task -> {"none", "named", "stale"}]
    /\ merged \in SUBSET Task
    /\ child \in [Task -> {"none", "alive"} \cup ChildEnd]
    /\ signalled \in SUBSET Task
    /\ owner \in {"up", "down"}
    /\ prep \in {"fleet", "task", "assign", "running", "spawned", "failed"}
    /\ idx \in 1..NTasks
    /\ pc \in [Task -> BodyPoint]
    /\ armed \in SUBSET Task
    /\ useAgy \in SUBSET Task
    /\ outcome \in [Task -> {"done", "failed"}]
    /\ queue \in [Task -> SUBSET Task]
    /\ registered \in SUBSET Task
    /\ cancelMem \in BOOLEAN
    /\ cpc \in {"idle", "take", "mark", "term", "kill", "answered", "lost"}
    /\ clocal \in BOOLEAN
    /\ cfinished \in BOOLEAN
    /\ ctargets \in SUBSET Task
    /\ canswer \in {"none", "canceled", "refused"}
    /\ cproblems \in SUBSET Task
    /\ rpc \in [Recoverers -> {"idle", "stop", "stoponly", "fail", "reset"}]
    /\ late \in SUBSET Task
    /\ granted \in [Task -> 0..2]

Init ==
    /\ fleet = "none"
    /\ task = [t \in Task |-> "none"]
    /\ verdict = [t \in Task |-> "none"]
    /\ marker = {} /\ merged = {}
    /\ token = [t \in Task |-> "none"]
    /\ child = [t \in Task |-> "none"]
    /\ signalled = {}
    /\ owner = "up" /\ prep = "fleet" /\ idx = 1
    /\ pc = [t \in Task |-> "off"]
    /\ armed = {} /\ useAgy = {}
    /\ outcome = [t \in Task |-> "failed"]
    /\ queue = [t \in Task |-> {}]
    /\ registered = {} /\ cancelMem = FALSE
    /\ cpc = "idle" /\ clocal = FALSE /\ cfinished = FALSE
    /\ ctargets = {} /\ canswer = "none" /\ cproblems = {}
    /\ rpc = [r \in Recoverers |-> "idle"]
    /\ late = {}
    /\ granted = [t \in Task |-> 0]

-----------------------------------------------------------------------------
(* prepare_fleet_members and the start of spawn_fleet_members. The owner    *)
(* record and the index entry are on disk before the first of these steps.  *)

InsertFleet ==
    /\ owner = "up" /\ prep = "fleet"
    /\ fleet' = "spawning"
    /\ prep' = "task"
    /\ UNCHANGED <<task, verdict, files, merged, procs, body, owner, idx, memory, others, late>>

InsertTask ==
    /\ owner = "up" /\ prep = "task"
    /\ task' = [task EXCEPT ![idx] = "pending"]
    /\ prep' = "assign"
    /\ UNCHANGED <<fleet, verdict, files, merged, procs, body, owner, idx, memory, others, late>>

\* Mutant: the member index runs past the last member.
AssignTask_PastEnd ==
    /\ owner = "up" /\ prep = "assign"
    /\ task' = [task EXCEPT ![idx] = "in_progress"]
    /\ prep' = (IF idx = NTasks THEN "running" ELSE "task") /\ idx' = idx + 1
    /\ granted' = [granted EXCEPT ![idx] = 0]
    /\ UNCHANGED <<fleet, verdict, files, merged, procs, body, owner, memory, cancelv, rpc, late>>

\* A claim that came in between is overwritten.
AssignTask ==
    /\ owner = "up" /\ prep = "assign"
    /\ task' = [task EXCEPT ![idx] = "in_progress"]
    /\ IF idx = NTasks THEN prep' = "running" /\ idx' = idx
                       ELSE prep' = "task" /\ idx' = idx + 1
    /\ granted' = [granted EXCEPT ![idx] = 0]
    /\ UNCHANGED <<fleet, verdict, files, merged, procs, body, owner, memory, cancelv, rpc, late>>

\* The row is set to `running` whatever it holds, and every body starts with its guard armed.
StartMembers ==
    /\ owner = "up" /\ prep = "running"
    /\ fleet' = "running"
    /\ prep' = "spawned"
    /\ pc' = [t \in Task |-> "start"]
    /\ armed' = Task
    /\ UNCHANGED <<task, verdict, files, merged, procs, useAgy, outcome, queue, owner, idx,
                   memory, others, late>>

\* A worktree, file or statement of the preparation fails, the last one after the row says
\* `running`. In the background the row is then set to `failed` if it exists and the ledger takes
\* the write; under `wait` the error goes to the caller and the row stays as it is.
PrepareFails ==
    /\ "prepare" \in Events
    /\ owner = "up" /\ prep \notin {"spawned", "failed"}
    /\ \/ fleet' = IF Wait \/ fleet = "none" THEN fleet ELSE "failed"
       \/ "ledger" \in Events /\ fleet' = fleet
       \/ (Wait \/ "ledger" \in Events) /\ prep = "running" /\ fleet' = "running"
    /\ prep' = "failed"
    /\ UNCHANGED <<task, verdict, files, merged, procs, body, owner, idx, memory, others, late>>

-----------------------------------------------------------------------------
(* The worker body of task t, up to the outcome of its attempt(s). *)

At(t, p) == owner = "up" /\ pc[t] = p
Goto(t, p) == pc' = [pc EXCEPT ![t] = p]
Conclude(t, o) == Goto(t, "record") /\ outcome' = [outcome EXCEPT ![t] = o]

\* The breaker is closed or does not concern this agent: run the requested agent, holding a
\* slot and a rate-limit token when it is agy.
RunRequested(t) ==
    /\ At(t, "start")
    /\ useAgy' = useAgy \cup ({t} \cap Agy)
    /\ Goto(t, "check")
    /\ UNCHANGED <<fleet, task, verdict, files, merged, procs, armed, outcome, queue, spawn,
                   memory, others, late>>

\* agy's breaker is open: codex in its place where the operator allows it, else no launch at all.
BreakerOpen(t) ==
    /\ At(t, "start") /\ t \in Agy
    /\ IF DegradedRoute THEN Goto(t, "check") /\ outcome' = outcome
                        ELSE Conclude(t, "failed")
    /\ UNCHANGED <<fleet, task, verdict, files, merged, procs, armed, useAgy, queue, spawn,
                   memory, others, late>>

\* fleet_cancel_requested, before the launch.
CheckPasses(t) ==
    /\ At(t, "check") /\ CancelUnseen
    /\ Goto(t, "mark")
    /\ UNCHANGED <<fleet, task, verdict, files, merged, procs, armed, useAgy, outcome, queue,
                   spawn, memory, others, late>>

\* The guard is disarmed first; the row is set whatever it holds, and the result is ignored.
CancelledBeforeLaunch(t) ==
    /\ At(t, "check") /\ fleet_cancel_requested
    /\ armed' = armed \ {t}
    /\ \/ task' = [task EXCEPT ![t] = "failed"]
       \/ "ledger" \in Events /\ task' = task
    /\ Goto(t, "finalize")
    /\ UNCHANGED <<fleet, verdict, files, merged, procs, useAgy, outcome, queue, spawn,
                   memory, others, late>>

\* Mutant: no marker before the spawn.
WriteLaunchMarker_Skipped(t) ==
    /\ At(t, "mark")
    /\ Goto(t, "launch")
    /\ UNCHANGED <<fleet, task, verdict, files, merged, procs, armed, useAgy, outcome, queue,
                   spawn, memory, others, late>>

WriteLaunchMarker(t) ==
    /\ At(t, "mark")
    /\ marker' = marker \cup {t}
    /\ Goto(t, "launch")
    /\ UNCHANGED <<fleet, task, verdict, token, merged, procs, armed, useAgy, outcome, queue,
                   spawn, memory, others, late>>

\* The new process takes the place of the task's earlier one, which its token still names.
Launch(t) ==
    /\ At(t, "launch")
    /\ child' = [child EXCEPT ![t] = "alive"]
    /\ signalled' = signalled \ {t}
    /\ token' = [token EXCEPT ![t] = IF @ = "none" THEN "none" ELSE "stale"]
    /\ Goto(t, "token")
    /\ UNCHANGED <<fleet, task, verdict, marker, merged, armed, useAgy, outcome, queue, spawn,
                   memory, others, late>>

\* No marker, no launch; a launch that failed takes its marker back.
LaunchFails(t) ==
    /\ \/ At(t, "mark") /\ marker' = marker
       \/ At(t, "launch") /\ marker' = marker \ {t}
    /\ Conclude(t, "failed")
    /\ UNCHANGED <<fleet, task, verdict, token, merged, procs, armed, useAgy, queue, spawn,
                   memory, others, late>>

\* wait_fleet_child: name the process, then drop the marker.
WriteToken(t) ==
    /\ At(t, "token") /\ Alive(t)
    /\ token' = [token EXCEPT ![t] = "named"]
    /\ Goto(t, "clear")
    /\ UNCHANGED <<fleet, task, verdict, marker, merged, procs, armed, useAgy, outcome, queue,
                   spawn, memory, others, late>>

\* A worker no token can name must not run on: SIGKILL, reap, drop the marker, fail the task.
WriteTokenFails(t) ==
    /\ At(t, "token") /\ "untracked" \in Events
    /\ child' = [child EXCEPT ![t] = IF @ = "alive" THEN "bad" ELSE @]
    /\ marker' = marker \ {t}
    /\ Conclude(t, "failed")
    /\ UNCHANGED <<fleet, task, verdict, token, merged, signalled, armed, useAgy, queue, spawn,
                   memory, others, late>>

\* for_spawned_child yields no token: the process ended already, or the OS will not name it and
\* it runs on untracked, its marker kept.
NoToken(t) ==
    /\ At(t, "token")
    /\ IF Alive(t) THEN "untracked" \in Events /\ Goto(t, "register")
                   ELSE Goto(t, "clear")
    /\ UNCHANGED <<fleet, task, verdict, files, merged, procs, armed, useAgy, outcome, queue,
                   spawn, memory, others, late>>

ClearLaunchMarker(t) ==
    /\ At(t, "clear")
    /\ marker' = marker \ {t}
    /\ Goto(t, "register")
    /\ UNCHANGED <<fleet, task, verdict, token, merged, procs, armed, useAgy, outcome, queue,
                   spawn, memory, others, late>>

\* Only a process the OS reports is registered: not one that ended, and perhaps not one that
\* could not be named by a token either.
RegisterChild(t) ==
    /\ At(t, "register")
    /\ \/ Alive(t) /\ registered' = registered \cup {t} /\ Goto(t, "recheck")
       \/ (~Alive(t) \/ token[t] # "named") /\ registered' = registered /\ Goto(t, "wait")
    /\ UNCHANGED <<fleet, task, verdict, files, merged, procs, armed, useAgy, outcome, queue,
                   spawn, cancelMem, others, late>>

\* Mutant: registering is the end of it.
RecheckCancel_Dropped(t) ==
    /\ At(t, "recheck")
    /\ Goto(t, "wait")
    /\ UNCHANGED <<fleet, task, verdict, files, merged, procs, armed, useAgy, outcome, queue,
                   spawn, memory, others, late>>

\* A cancel that landed between the check and the registration is delivered here.
RecheckCancel(t) ==
    /\ At(t, "recheck")
    /\ \/ fleet_cancel_requested /\ signalled' = signalled \cup {u \in {t} : Alive(u)}
       \/ CancelUnseen /\ signalled' = signalled
    /\ Goto(t, "wait")
    /\ UNCHANGED <<fleet, task, verdict, files, merged, child, armed, useAgy, outcome, queue,
                   spawn, memory, others, late>>

\* The child ended by itself or by a signal. Exit 0 is judged by judge_worktree_run: done only
\* with a new commit on the branch.
WaitEnds(t) ==
    /\ At(t, "wait") /\ child[t] \in {"committed", "empty"}
    /\ registered' = registered \ {t}
    /\ Conclude(t, IF child[t] = "committed" THEN "done" ELSE "failed")
    /\ UNCHANGED <<fleet, task, verdict, files, merged, procs, armed, useAgy, queue, spawn,
                   cancelMem, others, late>>

\* A failed agy attempt is retried once with codex, unless the operator cancelled the fleet.
WaitEndsBad(t) ==
    /\ At(t, "wait") /\ child[t] = "bad"
    /\ registered' = registered \ {t}
    /\ useAgy' = useAgy \ {t}
    /\ \/ /\ t \in useAgy /\ DegradedRoute /\ CancelUnseen
          /\ Goto(t, "mark") /\ outcome' = outcome
       \/ /\ t \notin useAgy \/ ~DegradedRoute \/ fleet_cancel_requested
          /\ Conclude(t, "failed")
    /\ UNCHANGED <<fleet, task, verdict, files, merged, procs, armed, queue, spawn,
                   cancelMem, others, late>>

\* The deadline passed, perhaps just as the child ended: SIGKILL to the group, reap, an error
\* outcome (never degraded to codex).
WaitTimesOut(t) ==
    /\ At(t, "wait")
    /\ child' = [child EXCEPT ![t] = IF @ = "alive" THEN "bad" ELSE @]
    /\ registered' = registered \ {t}
    /\ Conclude(t, "failed")
    /\ UNCHANGED <<fleet, task, verdict, files, merged, signalled, armed, useAgy, queue, spawn,
                   cancelMem, others, late>>

\* record_task_completed / record_task_failed: one guarded update decides who records.
RecordTask(t) ==
    /\ At(t, "record")
    /\ \/ task' = [task EXCEPT ![t] = IF is_terminal_task_state(@) THEN @ ELSE outcome[t]]
       \/ "ledger" \in Events /\ task' = task
    /\ Goto(t, "finalize")
    /\ useAgy' = useAgy \ {t} /\ outcome' = [outcome EXCEPT ![t] = "failed"]  \* locals out of use
    /\ UNCHANGED <<fleet, verdict, files, merged, procs, armed, queue, spawn, memory, others, late>>

\* Mutant: neither the guard nor the join loop records the failure.
Panic_Unrecorded(t) ==
    /\ "panic" \in Events
    /\ owner = "up" /\ pc[t] \in Launching
    /\ child' = [child EXCEPT ![t] = IF @ = "alive" THEN "bad" ELSE @]
    /\ registered' = registered \ {t}
    /\ armed' = armed \ {t}
    /\ Goto(t, "finalize")
    /\ UNCHANGED <<fleet, task, verdict, files, merged, signalled, useAgy, outcome, queue, spawn,
                   cancelMem, others, late>>

\* A body that panics drops its Child (killed), its registration and its guard; the guard, then
\* the join loop, record the task failed and drive the fleet on.
Panic(t) ==
    /\ "panic" \in Events
    /\ owner = "up" /\ pc[t] \in Launching
    /\ child' = [child EXCEPT ![t] = IF @ = "alive" THEN "bad" ELSE @]
    /\ registered' = registered \ {t}
    /\ \/ task' = [task EXCEPT ![t] = IF is_terminal_task_state(@) THEN @ ELSE "failed"]
       \/ "ledger" \in Events /\ task' = task
    /\ armed' = armed \ {t}
    /\ Goto(t, "finalize")
    /\ UNCHANGED <<fleet, verdict, files, merged, signalled, useAgy, outcome, queue, spawn,
                   cancelMem, others, late>>

-----------------------------------------------------------------------------
(* finalize_if_all_tasks_terminal and complete_fleet, run by a body that    *)
(* has recorded its outcome.                                                *)

\* Mutant: the count of pending tasks takes a failed one for pending.
Finalize_WaitsForDone(t) ==
    /\ At(t, "finalize")
    /\ Goto(t, IF Done = Task THEN "cas" ELSE "end")
    /\ UNCHANGED <<fleet, task, verdict, files, merged, procs, armed, useAgy, outcome, queue,
                   spawn, memory, others, late>>

Finalize(t) ==
    /\ At(t, "finalize")
    /\ \/ Goto(t, IF \A u \in Task : Terminal(u) THEN "cas" ELSE "end")
       \/ "ledger" \in Events /\ Goto(t, "end")
    /\ UNCHANGED <<fleet, task, verdict, files, merged, procs, armed, useAgy, outcome, queue,
                   spawn, memory, others, late>>

\* Mutant: a fleet that is merging is admitted as well.
BeginMerge_Readmits(t) ==
    /\ At(t, "cas")
    /\ IF fleet \in Mergeable \cup {"merging"} THEN fleet' = "merging" /\ Goto(t, "gate")
                                               ELSE fleet' = fleet /\ Goto(t, "end")
    /\ UNCHANGED <<task, verdict, files, merged, procs, armed, useAgy, outcome, queue, spawn,
                   memory, others, late>>

\* One conditional update admits one body to the merge phase.
BeginMerge(t) ==
    /\ At(t, "cas")
    /\ IF fleet \in Mergeable THEN fleet' = "merging" /\ Goto(t, "gate")
                               ELSE fleet' = fleet /\ Goto(t, "end")
    /\ UNCHANGED <<task, verdict, files, merged, procs, armed, useAgy, outcome, queue, spawn,
                   memory, others, late>>

\* Any statement of complete_fleet may fail: the error is dropped and the row stays as it is.
MergePhaseAborts(t) ==
    /\ "ledger" \in Events
    /\ owner = "up" /\ pc[t] \in {"cas"} \cup Completing
    /\ queue' = [queue EXCEPT ![t] = {}]
    /\ Goto(t, "end")
    /\ UNCHANGED <<fleet, task, verdict, files, merged, procs, armed, useAgy, outcome, spawn,
                   memory, others, late>>

\* Mutant: the update does not look at the row.
FailOnFailedTasks_Unguarded(t) ==
    /\ At(t, "gate") /\ Failed # {}
    /\ fleet' = "failed"
    /\ Goto(t, "end")
    /\ UNCHANGED <<task, verdict, files, merged, procs, armed, useAgy, outcome, queue, spawn,
                   memory, others, late>>

\* A failed task fails the fleet; the operator's `cancelled` survives.
FailOnFailedTasks(t) ==
    /\ At(t, "gate") /\ Failed # {}
    /\ fleet' = IF fleet = "cancelled" THEN fleet ELSE "failed"
    /\ Goto(t, "end")
    /\ UNCHANGED <<task, verdict, files, merged, procs, armed, useAgy, outcome, queue, spawn,
                   memory, others, late>>

\* No task failed: a fresh coordinator, and the review loop.
NoFailedTasks(t) ==
    /\ At(t, "gate") /\ Failed = {}
    /\ queue' = [queue EXCEPT ![t] = {}]
    /\ Goto(t, "review")
    /\ UNCHANGED <<fleet, task, verdict, files, merged, procs, armed, useAgy, outcome, spawn,
                   memory, others, late>>

\* Mutant: a review store that cannot be read counts as one without objections.
ReviewTask_FailsOpen(t) ==
    /\ At(t, "review")
    /\ \E u \in Done \ queue[t] :
          /\ \A w \in Done \ queue[t] : u <= w
          /\ queue' = [queue EXCEPT ![t] = @ \cup {u}]
          /\ late' = late \ {u}
          /\ \/ Goto(t, IF GateBlocks(u) THEN "block" ELSE "review")
             \/ "ledger" \in Events /\ Goto(t, "review")
    /\ UNCHANGED <<fleet, task, verdict, files, merged, procs, armed, useAgy, outcome, spawn,
                   memory, others>>

\* The done tasks are enqueued and their verdicts read one by one, in the order of task_id. One
\* that blocks parks the whole fleet, whatever the rest say; so does a store that cannot be read.
ReviewTask(t) ==
    /\ At(t, "review")
    /\ \E u \in Done \ queue[t] :
          /\ \A w \in Done \ queue[t] : u <= w
          /\ queue' = [queue EXCEPT ![t] = @ \cup {u}]
          /\ late' = late \ {u}
          /\ \/ Goto(t, IF GateBlocks(u) THEN "block" ELSE "review")
             \/ "ledger" \in Events /\ Goto(t, "block")
    /\ UNCHANGED <<fleet, task, verdict, files, merged, procs, armed, useAgy, outcome, spawn,
                   memory, others>>

GatePasses(t) ==
    /\ At(t, "review") /\ Done \subseteq queue[t]
    /\ Goto(t, "merge")
    /\ UNCHANGED <<fleet, task, verdict, files, merged, procs, armed, useAgy, outcome, queue,
                   spawn, memory, others, late>>

ParkOnReview(t) ==
    /\ At(t, "block")
    /\ fleet' = "blocked_on_review"
    /\ queue' = [queue EXCEPT ![t] = {}]
    /\ Goto(t, "end")
    /\ UNCHANGED <<task, verdict, files, merged, procs, armed, useAgy, outcome, spawn, memory,
                   others, late>>

\* MergeCoordinator::merge_next, in the order of task_id.
MergeNext(t) ==
    /\ At(t, "merge")
    /\ \E u \in queue[t] :
          /\ \A w \in queue[t] : u <= w
          /\ queue' = [queue EXCEPT ![t] = @ \ {u}]
          /\ \/ merged' = merged \cup {u} /\ Goto(t, "merge")
             \/ merged' = merged /\ Goto(t, "giveup")      \* a conflict, or git fails
    /\ UNCHANGED <<fleet, task, verdict, files, procs, armed, useAgy, outcome, spawn, memory,
                   others, late>>

MergeEmpty(t) ==
    /\ At(t, "merge") /\ queue[t] = {}
    /\ Goto(t, "commit")
    /\ UNCHANGED <<fleet, task, verdict, files, merged, procs, armed, useAgy, outcome, queue,
                   spawn, memory, others, late>>

\* Mutant: the merge result is not looked at.
EndMerge_AlwaysDone(t) ==
    /\ owner = "up" /\ pc[t] \in {"commit", "giveup"}
    /\ fleet' = "done"
    /\ queue' = [queue EXCEPT ![t] = {}]
    /\ Goto(t, "end")
    /\ UNCHANGED <<task, verdict, files, merged, procs, armed, useAgy, outcome, spawn, memory,
                   others, late>>

\* The final write, unconditional either way.
EndMerge(t) ==
    /\ owner = "up" /\ pc[t] \in {"commit", "giveup"}
    /\ fleet' = IF pc[t] = "commit" THEN "done" ELSE "failed"
    /\ queue' = [queue EXCEPT ![t] = {}]
    /\ Goto(t, "end")
    /\ UNCHANGED <<task, verdict, files, merged, procs, armed, useAgy, outcome, spawn, memory,
                   others, late>>

\* The end of the body. The guard is disarmed when the row is terminal; otherwise dropping it
\* records the failure and finalizes once more.
EndBody(t) ==
    /\ At(t, "end")
    /\ armed' = armed \ {t}
    /\ \/ /\ t \in armed /\ ~Terminal(t)
          /\ task' = [task EXCEPT ![t] = "failed"]
          /\ Goto(t, "finalize")
       \/ /\ t \notin armed \/ Terminal(t) \/ "ledger" \in Events
          /\ task' = task
          /\ Goto(t, "gone")
    /\ UNCHANGED <<fleet, verdict, files, merged, procs, useAgy, outcome, queue, spawn, memory,
                   others, late>>

-----------------------------------------------------------------------------
(* fleet_cancel_with, in the owner (clocal) or in another process. *)

\* resolve_fleet: the owner knows the fleet from the spawn on, others once the ledger has a row.
ResolveFleet(local) ==
    /\ "cancel" \in Events /\ cpc = "idle"
    /\ IF local THEN owner = "up" ELSE fleet # "none"
    /\ clocal' = local
    /\ cfinished' = (fleet \in Finished)
    /\ cpc' = "take"
    /\ UNCHANGED <<fleet, task, verdict, files, merged, procs, body, spawn, memory,
                   ctargets, canswer, cproblems, rpc, granted, late>>

\* take_fleet_children_for_cancel touches the memory of the process it runs in.
TakeChildren ==
    /\ cpc = "take"
    /\ IF clocal THEN cancelMem' = TRUE /\ ctargets' = registered /\ registered' = {}
                 ELSE UNCHANGED <<cancelMem, ctargets, registered>>
    /\ cpc' = "mark"
    /\ UNCHANGED <<fleet, task, verdict, files, merged, procs, body, spawn,
                   clocal, cfinished, canswer, cproblems, rpc, granted, late>>

\* mark_fleet_cancelled succeeds when its update runs, also when it matches no row.
MarkCancelled ==
    /\ cpc = "mark"
    /\ IF cfinished
       THEN fleet' = fleet /\ canswer' = "refused"
       ELSE \/ /\ fleet' = IF fleet \in Finished \cup {"none"} THEN fleet ELSE "cancelled"
               /\ canswer' = "canceled"
            \/ /\ "ledger" \in Events
               /\ fleet' = fleet /\ canswer' = "refused"
    /\ cpc' = "term"
    /\ cfinished' = FALSE  \* out of use
    /\ UNCHANGED <<task, verdict, files, merged, procs, body, spawn, memory, clocal, ctargets,
                   cproblems, rpc, granted, late>>

Named == {t \in Task : token[t] = "named" /\ Alive(t)}

\* stop_fleet_workers: SIGTERM to the process each token names; a process that left its group is
\* refused and reported. A child taken from memory that no token covers gets one SIGTERM.
TermWorkers ==
    /\ cpc = "term"
    /\ \E refused \in (IF "refuse" \in Events THEN SUBSET Named ELSE {{}}) :
          /\ cproblems' = refused
          /\ ctargets' = Named \ refused
          /\ signalled' = signalled \cup (Named \ refused)
                                    \cup {t \in ctargets : Alive(t) /\ token[t] # "named"}
    /\ cpc' = "kill"
    /\ UNCHANGED <<fleet, task, verdict, files, merged, child, body, spawn, memory,
                   clocal, cfinished, canswer, rpc, granted, late>>

\* The grace is over: SIGKILL whatever is left of the processes SIGTERMed through tokens, and answer.
KillWorkers ==
    /\ cpc = "kill"
    /\ child' = [t \in Task |-> IF Alive(t) /\ t \in ctargets \cap signalled THEN "bad"
                              ELSE child[t]]
    /\ cpc' = "answered"
    /\ ctargets' = {}  \* out of use
    /\ UNCHANGED <<fleet, task, verdict, files, merged, signalled, body, spawn, memory,
                   clocal, cfinished, canswer, cproblems, rpc, granted, late>>

-----------------------------------------------------------------------------
(* recover_stale_fleets in daemon r. *)

InFlight == {t \in Task : task[t] \in {"claimed", "in_progress"}}

\* Mutant: launch markers are not looked at.
Untracked_Ignored == {}

\* Candidates and liveness of the owner. A task in flight that no token names and whose launch
\* marker is there may be running: the fleet is left as it is (the orphans that tokens do name
\* are still stopped).
Untracked == {t \in InFlight : token[t] = "none" /\ t \in marker}

\* Mutant: a fleet with an untracked task is left before its orphans are stopped.
RecoverScan_LeavesOrphans(r) ==
    /\ rpc[r] = "idle"
    /\ owner = "down" /\ fleet \in Recoverable
    /\ rpc' = [rpc EXCEPT ![r] = IF Untracked = {} THEN "stop" ELSE "idle"]
    /\ UNCHANGED <<fleet, task, verdict, files, merged, procs, body, spawn, memory, cancelv,
                   granted, late>>

RecoverScan(r) ==
    /\ rpc[r] = "idle"
    /\ owner = "down" /\ fleet \in Recoverable
    /\ rpc' = [rpc EXCEPT ![r] = IF Untracked = {} THEN "stop" ELSE "stoponly"]
    /\ UNCHANGED <<fleet, task, verdict, files, merged, procs, body, spawn, memory, cancelv,
                   granted, late>>

\* Every token is verified and its process terminated; one that is refused blocks the fleet.
RecoverStop(r) ==
    /\ rpc[r] \in {"stop", "stoponly"}
    /\ \E refused \in (IF "refuse" \in Events THEN SUBSET Named ELSE {{}}) :
          /\ child' = [t \in Task |-> IF t \in Named \ refused THEN "bad" ELSE child[t]]
          /\ rpc' = [rpc EXCEPT ![r] = IF @ = "stop" /\ refused = {} THEN "fail" ELSE "idle"]
    /\ UNCHANGED <<fleet, task, verdict, files, merged, signalled, body, spawn, memory, cancelv,
                   granted, late>>

RecoverEnds(r) == rpc' = [rpc EXCEPT ![r] = "idle"]

\* Two statements outside a transaction; the first does not look at the row it replaces. After an
\* interruption between them the fleet is `failed`, and no later pass looks at its tasks.
RecoverFail(r) ==
    /\ rpc[r] = "fail"
    /\ \/ fleet' = "failed" /\ rpc' = [rpc EXCEPT ![r] = "reset"]
       \/ "interrupt" \in Events /\ fleet' = fleet /\ RecoverEnds(r)
    /\ UNCHANGED <<task, verdict, files, merged, procs, body, spawn, memory, cancelv, granted,
                   late>>

\* Mutant: the reset does not look at the state of the tasks.
RecoverReset_AllTasks(r) ==
    /\ rpc[r] = "reset"
    /\ task' = [t \in Task |-> IF task[t] # "none" THEN "pending" ELSE task[t]]
    /\ RecoverEnds(r)
    /\ UNCHANGED <<fleet, verdict, files, merged, procs, body, spawn, memory, cancelv, granted,
                   late>>

RecoverReset(r) ==
    /\ rpc[r] = "reset"
    /\ \/ task' = [t \in Task |-> IF t \in InFlight THEN "pending" ELSE task[t]]
       \/ "interrupt" \in Events /\ task' = task
    /\ RecoverEnds(r)
    /\ UNCHANGED <<fleet, verdict, files, merged, procs, body, spawn, memory, cancelv, granted,
                   late>>

-----------------------------------------------------------------------------
(* The rest of the world. *)

\* Mutant: the claim's update does not look at the state again.
ClaimTask_Again(t) ==
    /\ "claim" \in Events
    /\ task[t] \in {"pending", "claimed"} /\ granted[t] < 2
    /\ task' = [task EXCEPT ![t] = "claimed"]
    /\ granted' = [granted EXCEPT ![t] = @ + 1]
    /\ UNCHANGED <<fleet, verdict, files, merged, procs, body, spawn, memory, cancelv, rpc, late>>

\* FleetTaskStore::claim_task over MCP, in one immediate transaction. At most two grants per
\* task are followed.
ClaimTask(t) ==
    /\ "claim" \in Events
    /\ task[t] = "pending" /\ granted[t] < 2
    /\ task' = [task EXCEPT ![t] = "claimed"]
    /\ granted' = [granted EXCEPT ![t] = @ + 1]
    /\ UNCHANGED <<fleet, verdict, files, merged, procs, body, spawn, memory, cancelv, rpc, late>>

\* submit_review on the branch of a completed task; a later review may answer otherwise.
SubmitReview(t, v) ==
    /\ task[t] = "done" /\ verdict[t] # v
    /\ verdict' = [verdict EXCEPT ![t] = v]
    /\ late' = late \cup {t}
    /\ UNCHANGED <<fleet, task, files, merged, procs, body, spawn, memory, others>>

\* The agent process ends by itself, or gives way to a SIGTERM.
ChildExits(t) ==
    /\ Alive(t)
    /\ \E e \in ChildEnd : child' = [child EXCEPT ![t] = e]
    /\ UNCHANGED <<fleet, task, verdict, files, merged, signalled, body, spawn, memory, others,
                   late>>

\* The owner is killed. Nothing runs on drop: the children live on, its memory is gone.
OwnerCrash ==
    /\ "crash" \in Events /\ owner = "up"
    /\ owner' = "down"
    /\ pc' = [t \in Task |-> IF prep = "spawned" THEN "gone" ELSE "off"]
    /\ armed' = {} /\ useAgy' = {}
    /\ queue' = [t \in Task |-> {}]
    /\ registered' = {} /\ cancelMem' = FALSE
    /\ cpc' = IF clocal /\ cpc \notin {"idle", "answered"} THEN "lost" ELSE cpc
    /\ UNCHANGED <<fleet, task, verdict, files, merged, procs, outcome, prep, idx, clocal,
                   cfinished, ctargets, canswer, cproblems, rpc, granted, late>>

-----------------------------------------------------------------------------

Prepare == InsertFleet \/ InsertTask \/ AssignTask \/ StartMembers \/ PrepareFails

Run(t) ==
    \/ RunRequested(t) \/ BreakerOpen(t) \/ CheckPasses(t) \/ CancelledBeforeLaunch(t)
    \/ WriteLaunchMarker(t) \/ Launch(t) \/ LaunchFails(t)
    \/ WriteToken(t) \/ WriteTokenFails(t) \/ NoToken(t) \/ ClearLaunchMarker(t)
    \/ RegisterChild(t) \/ RecheckCancel(t)
    \/ WaitEnds(t) \/ WaitEndsBad(t) \/ WaitTimesOut(t)
    \/ RecordTask(t)

Complete(t) ==
    \/ Finalize(t) \/ BeginMerge(t) \/ MergePhaseAborts(t) \/ FailOnFailedTasks(t)
    \/ NoFailedTasks(t) \/ ReviewTask(t) \/ GatePasses(t) \/ ParkOnReview(t)
    \/ MergeNext(t) \/ MergeEmpty(t) \/ EndMerge(t) \/ EndBody(t)

Cancel == (\E local \in BOOLEAN : ResolveFleet(local)) \/ TakeChildren \/ MarkCancelled
          \/ TermWorkers \/ KillWorkers

Recover(r) == RecoverScan(r) \/ RecoverStop(r) \/ RecoverFail(r) \/ RecoverReset(r)

Next ==
    \/ Prepare
    \/ \E t \in Task : Run(t) \/ Complete(t) \/ Panic(t)
    \/ Cancel
    \/ \E r \in Recoverers : Recover(r)
    \/ \E t \in Task : ClaimTask(t) \/ ChildExits(t)
    \/ \E t \in Task, v \in Verdicts : SubmitReview(t, v)
    \/ OwnerCrash

Spec == Init /\ [][Next]_vars

(* tokio polls every body, tasks end or hit their deadline, a tool call that *)
(* was started is carried through, and after a crash some daemon starts and  *)
(* runs recovery. Nothing is assumed of agents, reviewers and operators.     *)
Fairness ==
    /\ WF_vars(Prepare)
    /\ \A t \in Task : WF_vars(Run(t) \/ Complete(t))
    /\ WF_vars(TakeChildren \/ MarkCancelled \/ TermWorkers \/ KillWorkers)
    /\ \A r \in Recoverers : WF_vars(Recover(r))

FairSpec == Spec /\ Fairness

-----------------------------------------------------------------------------
(* Safety. *)

\* At most one worker body is inside complete_fleet, although every body calls it on its way
\* out, cancels and reviews move the row meanwhile, and a parked fleet is admitted again.
MergeAdmitsOne ==
    \A t, u \in Task : pc[t] \in Completing /\ pc[u] \in Completing => t = u

\* A branch that merged although its newest verdict blocks was judged after the gate had read it:
\* complete_fleet never merges over a reject, or over silence when reviews are required.
BlockedVerdictNotMerged ==
    \A t \in merged :
        (verdict[t] \in {"reject", "indeterminate"} \/ (RequireReview /\ verdict[t] = "none"))
            => t \in late

\* A fleet is recorded `done` only when the branch of every member is merged.
DoneMeansMerged ==
    fleet = "done" => merged = Task

\* While the owner lives and the ledger takes writes, no fleet is stranded: once every body is
\* gone (panicked ones included) the row says finished, or waits for a reviewer.
NotStranded ==
    (owner = "up" /\ "ledger" \notin Events /\ \A t \in Task : pc[t] = "gone")
        => fleet \in Finished \cup {"blocked_on_review"}

\* Whatever instant the owner dies in, a running agent has left evidence: its token, or the
\* launch marker written before it started.
OrphanLeavesEvidence ==
    \A t \in Task : Alive(t) => token[t] = "named" \/ t \in marker

\* A task is open to another claimant only when no agent process of the fleet still works on it:
\* recovery resets the rows after the orphans are gone.
NoSecondWorker ==
    \A t \in Task : task[t] \in {"pending", "claimed"} => ~Alive(t)

\* Once the members of a fleet were started, a task that recovery freed is handed to one claimant,
\* and no agent of the fleet runs beside it.
GrantedOnce ==
    prep = "spawned" => \A t \in Task : granted[t] <= 1 /\ (granted[t] = 1 => ~Alive(t))

\* When fleet_cancel has answered and the cancellation stands, every agent still running has been
\* sent SIGTERM, is named in the answer's detail, or belongs to a body that has yet to recheck.
\* (A process no token names is out of reach of a cancel in another process, and one the OS does
\* not report is out of reach altogether.)
CancelReachesEveryWorker ==
    (cpc = "answered" /\ canswer = "canceled" /\ owner = "up" /\ fleet_cancel_requested) =>
        \A t \in Task : Alive(t) =>
            \/ t \in signalled \cup cproblems
            \/ pc[t] \in {"token", "clear", "register", "recheck"}
            \/ token[t] # "named" /\ (~clocal \/ t \notin registered)

-----------------------------------------------------------------------------
(* Refinement: the rows and the repository implement the contract. *)

decidedBar == [t \in Task |-> IF Terminal(t) THEN task[t] ELSE "open"]

Contract == INSTANCE FleetContract WITH decided <- decidedBar

\* Each task is decided once, and HEAD takes branches only of a fleet all of whose tasks are done,
\* in order, each once: no panic, cancel, crash or recovery reopens or repeats anything.
ImplementsContract == Contract!Spec

-----------------------------------------------------------------------------
(* Action properties. *)

\* `cancelled` survives the failed tasks its killed workers leave behind.
CancelKeptByFailedTasks ==
    [][(fleet = "cancelled" /\ Failed # {} /\ prep = "spawned" /\ owner = "up")
           => fleet' = "cancelled"]_fleet

\* A cancel that was answered `canceled` stands: the ledger keeps it, through preparation, merging
\* and the bodies' exits, and a body that reaches its pre-launch check afterwards launches nothing.
CancelHonoured ==
    [][(cpc = "answered" /\ canswer = "canceled" /\ owner = "up") =>
           /\ fleet = "cancelled" => fleet' = "cancelled"
           /\ \A t \in Task : pc[t] = "check" => pc'[t] # "mark"]_vars

-----------------------------------------------------------------------------
(* Liveness, under FairSpec. *)

\* A fleet whose owner lives comes to rest: finished, or parked for a reviewer.
FleetSettles ==
    (fleet = "spawning") ~> (owner = "down" \/ fleet \in Finished \cup {"blocked_on_review"})

\* The agents that outlive their owner and are named by a token are stopped by recovery, unless
\* the operator's cancel took the fleet out of recovery's hands.
OrphanStopped ==
    (owner = "down" /\ Named # {}) ~> (Named = {} \/ fleet \notin Recoverable)

=============================================================================
