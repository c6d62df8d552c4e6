--------------------------- MODULE FleetWorkflow ---------------------------
(***************************************************************************)
(* One fleet of the Temporal engine: FleetWorkflow and its activities      *)
(* (crates/fleet-temporal/src/fleet_workflow.rs), the run_worker attempts  *)
(* (crates/fleet-temporal/src/{lib,worker}.rs), the launch claim and the   *)
(* tokens they share (crates/fleet/src/worker_token.rs), and the shim that *)
(* runs each agent and outlives every daemon (crates/fleet/src/shim.rs).   *)
(*                                                                         *)
(* Daemons run the attempts; workflow state is durable and survives them.  *)
(* A run is <<m, a>>: attempt a of member m, and the shim that attempt     *)
(* spawns if it does. Files and rows are shared; a step is one file        *)
(* operation, one statement or one signal.                                 *)
(*                                                                         *)
(* Simplifications: the shim and its agent are one process group, ended by *)
(* one signal (SIGTERM, then SIGKILL after the grace); an agent's exit and *)
(* the shim's record of it are one step, and so are prepare_fleet,         *)
(* abort_fleet and the merge phase (module Fleet has preparation and merge *)
(* in full); there is no clock: TOKEN_WAIT, the stall window and the       *)
(* heartbeat timeout may expire whenever they are waited on, but no ledger *)
(* activity outlives its start_to_close timeout (300 s) to run on beside   *)
(* its own retry.                                                          *)
(***************************************************************************)
EXTENDS Naturals, FiniteSets

CONSTANTS
    NMembers,   \* members of the fleet
    NDaemons,   \* the daemon processes that poll the task queue
    Events      \* what the environment may do besides running to the end

Member == 1..NMembers
Daemon == 1..NDaemons

AllEvents == {"crash", "cancel", "ledger", "kill", "orphan", "refuse", "stall", "setup"}

ASSUME WorkflowAssumption ==
    /\ NMembers \in Nat \ {0}
    /\ NDaemons \in Nat \ {0}
    /\ Events \subseteq AllEvents

VARIABLES
    (* Temporal: durable. *)
    wf,         \* where FleetWorkflow is
    asked,      \* the workflow's cancellation was requested
    act,        \* per member, the run_worker result the workflow has
    attempt,    \* per member, the attempts dispatched so far
    lost,       \* the runs whose heartbeat timed out: their answers are dropped
    recorded,   \* the members whose outcome reached the ledger
    prep, fin,  \* where the prepare_fleet and finalize_fleet activities are
    (* The daemons. *)
    up,         \* the running ones
    on,         \* the daemon of each run, 0 before it is dispatched
    apc,        \* where each attempt is
    watch,      \* the run whose token the attempt watches, 0 for none
    (* The ledger. *)
    fleet, task,
    (* The worker directory and the processes. *)
    marker,     \* <task>.launching: the run that created it, 0 for no file
    named,      \* the members whose marker holds its claimant's identity
    token,      \* <task>.json: the run whose shim wrote it, 0 for no file
    done,       \* <task>.done: [run, how]
    shim,       \* the shim of each run
    (* Observation only. *)
    excused,    \* members with an attempt declared lost before its shim had a token, or a shim
                \* that died without its agent
    early,      \* the workflow went on while an activity it had cancelled was still at work
    unwritten   \* an outcome never reached the ledger

temporal == <<wf, asked, act, attempt, lost, recorded, prep, fin>>
attempts == <<up, on, apc, watch>>
rows     == <<fleet, task>>
files    == <<marker, named, token, done>>
vars     == <<temporal, attempts, rows, files, shim, excused, early, unwritten>>

-----------------------------------------------------------------------------
MaxAttempts == 2    \* run_worker_options: the second attempt fires only when the first is lost

Run == Member \X (1..MaxAttempts)

Finished  == {"done", "failed", "cancelled"}
Mergeable == {"spawning", "running", "blocked_on_review"}
FleetState == Finished \cup Mergeable \cup {"none", "merging", "stop_failed"}
TaskState == {"none", "in_progress", "done", "failed"}
Terminal(m) == task[m] \in {"done", "failed"}

Ended     == {"completed", "failed", "cancelled", "error"}
Launching == {"decide", "claim", "claim2", "reclaim", "reclaim2", "write", "spawn", "await", "wait"}
AttemptPoint == Launching \cup {"none", "watch", "stall", "ended", "dead"}

NoRecord == [run |-> 0, how |-> "none"]
Record == [run : 1..MaxAttempts, how : {"committed", "failed", "signal"}]

\* A shim: not spawned, running without a token, its token on disk, its
\* agent running, its agent running without it, gone with a record, gone without one.
ShimState == {"none", "starting", "ready", "running", "orphan", "ended", "killed"}
Untracked(x) == shim[x] = "starting"
Verified(x)  == shim[x] \in {"ready", "running"}        \* WorkerToken::verify answers Live
AgentRuns(x) == shim[x] \in {"running", "orphan"}

TypeOK ==
    /\ wf \in {"new", "prepare", "members", "finalize", "cancelling", "failing"} \cup Ended
    /\ asked \in BOOLEAN /\ early \in BOOLEAN /\ unwritten \in BOOLEAN
    /\ act \in [Member -> {"idle", "open", "committed", "bad", "cancelled"}]
    /\ attempt \in [Member -> 0..MaxAttempts]
    /\ lost \subseteq Run
    /\ recorded \subseteq Member /\ named \subseteq Member /\ excused \subseteq Member
    /\ prep \in {"off", "run", "ended"} /\ fin \in {"off", "count", "merge", "ended"}
    /\ up \subseteq Daemon /\ on \in [Run -> 0..NDaemons]
    /\ apc \in [Run -> AttemptPoint]
    /\ watch \in [Run -> 0..MaxAttempts]
    /\ fleet \in FleetState /\ task \in [Member -> TaskState]
    /\ marker \in [Member -> 0..MaxAttempts] /\ token \in [Member -> 0..MaxAttempts]
    /\ done \in [Member -> Record \cup {NoRecord}]
    /\ shim \in [Run -> ShimState]

Init ==
    /\ wf = "new" /\ asked = FALSE /\ early = FALSE /\ unwritten = FALSE
    /\ act = [m \in Member |-> "idle"]
    /\ attempt = [m \in Member |-> 0]
    /\ lost = {} /\ named = {} /\ recorded = {} /\ excused = {}
    /\ prep = "off" /\ fin = "off"
    /\ up = Daemon /\ on = [x \in Run |-> 0]
    /\ apc = [x \in Run |-> "none"]
    /\ watch = [x \in Run |-> 0]
    /\ fleet = "none" /\ task = [m \in Member |-> "none"]
    /\ marker = [m \in Member |-> 0] /\ token = [m \in Member |-> 0]
    /\ done = [m \in Member |-> NoRecord]
    /\ shim = [x \in Run |-> "none"]

-----------------------------------------------------------------------------
(* The workflow: run and drive, and its ledger activities. *)

\* fleet_spawn_temporal: the restart index and the ENGINE file are on disk before this step.
StartFleet ==
    /\ wf = "new"
    /\ wf' = "prepare" /\ prep' = "run"
    /\ UNCHANGED <<asked, act, attempt, lost, recorded, fin, attempts, rows, files, shim,
                   excused, early, unwritten>>

\* fleet_cancel on a Temporal fleet: refused once the ledger says it finished.
CancelFleet ==
    /\ "cancel" \in Events
    /\ wf \notin {"new"} \cup Ended /\ fleet \notin Finished /\ ~asked
    /\ asked' = TRUE
    /\ UNCHANGED <<wf, act, attempt, lost, recorded, prep, fin, attempts, rows, files, shim,
                   excused, early, unwritten>>

\* drive ended short: the abort is a cancellation exactly when one has been requested by now.
Abort == wf' = (IF asked THEN "cancelling" ELSE "failing")

\* The rows are inserted if missing and set whatever they hold, the fleet's last; then one
\* run_worker is opened per member.
PrepareFleet ==
    /\ prep = "run"
    /\ fleet' = "running" /\ task' = [m \in Member |-> "in_progress"]
    /\ prep' = "ended"
    /\ IF wf = "prepare" THEN wf' = "members" /\ act' = [m \in Member |-> "open"]
                         ELSE UNCHANGED <<wf, act>>
    /\ UNCHANGED <<asked, attempt, lost, recorded, fin, attempts, files, shim,
                   excused, early, unwritten>>

\* Its attempts run out, with none, some or all of the rows written. A daemon that dies in it is no
\* step: the next attempt starts over and every statement is idempotent.
PrepareFails ==
    /\ "ledger" \in Events /\ prep = "run"
    /\ fleet' \in {fleet, IF fleet = "none" THEN "spawning" ELSE fleet, "running"}
    /\ \E M \in SUBSET Member :
          /\ M # {} => fleet' # "none"
          /\ task' = [m \in Member |-> IF m \in M THEN "in_progress" ELSE task[m]]
    /\ prep' = "ended"
    /\ IF wf = "prepare" THEN Abort ELSE wf' = wf
    /\ UNCHANGED <<asked, act, attempt, lost, recorded, fin, attempts, files, shim, excused,
                   early, unwritten>>

\* Cancelling an activity that is at work: the workflow may be told at once. prepare_fleet and
\* finalize_fleet never look at the cancellation and run on.
CancelledMeanwhile ==
    /\ asked /\ wf \in {"prepare", "finalize"}
    /\ Abort /\ early' = TRUE
    /\ UNCHANGED <<asked, act, attempt, lost, recorded, prep, fin, attempts, rows, files, shim,
                   excused, unwritten>>

Joined == \A m \in Member : act[m] \notin {"idle", "open"}
ToRecord == {m \in Member : act[m] # "cancelled"} \ recorded

\* Once every member has answered, the outcomes are recorded in order; cancelled members have none.
RecordOutcome(m) ==
    /\ wf = "members" /\ Joined
    /\ m \in ToRecord /\ \A n \in ToRecord : m <= n
    /\ task' = [task EXCEPT ![m] = IF Terminal(m) THEN @
                                   ELSE IF act[m] = "committed" THEN "done" ELSE "failed"]
    /\ recorded' = recorded \cup {m}
    /\ UNCHANGED <<wf, asked, act, attempt, lost, prep, fin, attempts, fleet, files, shim,
                   excused, early, unwritten>>

\* The write did not land in any of its attempts.
RecordFails ==
    /\ "ledger" \in Events
    /\ wf = "members" /\ Joined /\ ToRecord # {}
    /\ Abort /\ unwritten' = TRUE
    /\ UNCHANGED <<asked, act, attempt, lost, recorded, prep, fin, attempts, rows, files, shim,
                   excused, early>>

SomeCancelled == \E m \in Member : act[m] = "cancelled"

AfterMembers ==
    /\ wf = "members" /\ Joined /\ ToRecord = {}
    /\ IF asked \/ SomeCancelled THEN Abort /\ fin' = fin
       ELSE wf' = "finalize" /\ fin' = "count"
    /\ UNCHANGED <<asked, act, attempt, lost, recorded, prep, attempts, rows, files, shim, excused,
                   early, unwritten>>

\* finalize_if_all_tasks_terminal, then the guarded update that admits one merge phase.
FinalizeCount ==
    /\ fin = "count"
    /\ \/ /\ (\A m \in Member : Terminal(m)) /\ fleet \in Mergeable
          /\ fleet' = "merging" /\ fin' = "merge"
       \/ /\ (\E m \in Member : ~Terminal(m)) \/ fleet \notin Mergeable \/ "ledger" \in Events
          /\ fleet' = fleet /\ fin' = "ended"
    /\ UNCHANGED <<wf, asked, act, attempt, lost, recorded, prep, attempts, task, files,
                   shim, excused, early, unwritten>>

\* The rest of complete_fleet. Only the failed-task path spares a `cancelled` row.
FinalizeMerge ==
    /\ fin = "merge"
    /\ \/ /\ \E m \in Member : task[m] = "failed"
          /\ fleet' = IF fleet = "cancelled" THEN fleet ELSE "failed"
       \/ /\ \A m \in Member : task[m] = "done"
          /\ fleet' \in {"done", "failed", "blocked_on_review"}
       \/ "ledger" \in Events /\ fleet' = fleet
    /\ fin' = "ended"
    /\ UNCHANGED <<wf, asked, act, attempt, lost, recorded, prep, attempts, task, files,
                   shim, excused, early, unwritten>>

\* A daemon dies in it and it is retried, or its attempts run out.
FinalizeLost ==
    /\ fin \in {"count", "merge"}
    /\ \/ "crash" \in Events /\ fin' = "count" /\ wf' = wf
       \/ /\ "ledger" \in Events /\ fin' = "ended"
          /\ IF wf = "finalize" THEN Abort ELSE wf' = wf
    /\ UNCHANGED <<asked, act, attempt, lost, recorded, prep, attempts, rows, files, shim, excused,
                   early, unwritten>>

\* The workflow's result is whatever state the ledger was left in.
Complete ==
    /\ wf = "finalize" /\ fin = "ended"
    /\ wf' = "completed"
    /\ UNCHANGED <<asked, act, attempt, lost, recorded, prep, fin, attempts, rows, files,
                   shim, excused, early, unwritten>>

-----------------------------------------------------------------------------
(* abort_fleet: the one cleanup, on a token the cancellation cannot reach. *)

\* WorkerToken::terminate on the group of run x: nothing to do when it is gone; a shim without an
\* agent ignores SIGTERM and is killed; else the agent ends by the signal and the shim records it,
\* or the group is killed and no record is written. The agents that SIGTERM ends are in S.
Stopped(X, S) ==
    /\ shim' = [x \in Run |-> IF x \notin X \/ ~Verified(x) THEN shim[x]
                              ELSE IF x \in S THEN "ended" ELSE "killed"]
    /\ done' = [m \in Member |-> LET T == {x \in X \cap S : x[1] = m /\ shim[x] = "running"}
                                 IN IF T = {} THEN done[m]
                                    ELSE [run |-> (CHOOSE x \in T : TRUE)[2], how |-> "signal"]]
MayRecord(X) == SUBSET {x \in X : shim[x] = "running"}

Tokens == {x \in Run : token[x[1]] = x[2]}

\* The ledger half, record_abort: a fleet that finished keeps its outcome.
AbortedFleet == IF fleet \in Finished \cup {"none"} THEN fleet
                ELSE IF wf = "cancelling" THEN "cancelled" ELSE "failed"
\* Mutant: every task is failed, the finished ones too.
AbortedTasks_All == [m \in Member |-> IF task[m] # "none" THEN "failed" ELSE task[m]]
AbortedTasks == [m \in Member |-> IF task[m] = "in_progress" THEN "failed" ELSE task[m]]

\* Mutant: the abort does not stop the workers its tokens name.
AbortFleet_StopsNone ==
    /\ wf \in {"cancelling", "failing"}
    /\ wf' = IF wf = "cancelling" THEN "cancelled" ELSE "failed"
    /\ fleet' = AbortedFleet /\ task' = AbortedTasks
    /\ UNCHANGED <<asked, act, attempt, lost, recorded, prep, fin, attempts, files, shim,
                   excused, early, unwritten>>

\* abort_fleet, retried from the start when its daemon dies. Every worker a token names is stopped,
\* then the rows are written; a statement that fails, the second one perhaps, is not retried. If
\* one worker cannot be proven stopped the fleet becomes `stop_failed` and nothing else is marked.
AbortFleet ==
    /\ wf \in {"cancelling", "failing"}
    /\ \/ /\ \E S \in MayRecord(Tokens) : Stopped(Tokens, S)
          /\ \/ /\ wf' = IF wf = "cancelling" THEN "cancelled" ELSE "failed"
                /\ fleet' = AbortedFleet /\ task' = AbortedTasks
             \/ "ledger" \in Events /\ wf' = "error" /\ fleet' \in {fleet, AbortedFleet} /\ task' = task
       \/ /\ "refuse" \in Events /\ \E x \in Tokens : Verified(x)
          /\ fleet' = IF fleet \in Finished THEN fleet ELSE "stop_failed"
          /\ wf' = "error" /\ UNCHANGED <<task, shim, done>>
    /\ UNCHANGED <<asked, act, attempt, lost, recorded, prep, fin, attempts, marker, named,
                   token, excused, early, unwritten>>

-----------------------------------------------------------------------------
(* Temporal: dispatching the attempts of run_worker and giving up on them. *)

Busy(x) == apc[x] \notin {"none", "ended", "dead"}
Current(m) == <<m, attempt[m]>>

\* Mutant: the retries are not limited.
LastAttempt_Never(a) == asked

\* run_worker_options: maximum_attempts; and a cancelled activity is not retried.
LastAttempt(a) == a = MaxAttempts \/ asked

\* The first attempt, or the next one once the last was lost or failed retryably.
Dispatch(m, d) ==
    /\ act[m] = "open"
    /\ attempt[m] = 0 \/ Current(m) \in lost
    /\ d \in up
    /\ attempt' = [attempt EXCEPT ![m] = @ + 1]
    /\ on' = [on EXCEPT ![<<m, attempt[m] + 1>>] = d]
    /\ apc' = [apc EXCEPT ![<<m, attempt[m] + 1>>] = "decide"]
    /\ UNCHANGED <<wf, asked, act, lost, recorded, prep, fin, up, watch, rows, files, shim,
                   excused, early, unwritten>>

\* No heartbeat for 20 s: the daemon died, or it cannot reach Temporal and its attempt goes on.
\* Launching takes at most TOKEN_WAIT (15 s), so an attempt lost in the middle of it is excused.
HeartbeatTimeout(m) ==
    /\ act[m] = "open" /\ attempt[m] > 0
    /\ Current(m) \notin lost /\ apc[Current(m)] # "ended"
    /\ "crash" \in Events
    /\ lost' = lost \cup {Current(m)}
    /\ act' = [act EXCEPT ![m] = IF LastAttempt(attempt[m]) THEN "bad" ELSE @]
    /\ excused' = IF Untracked(Current(m)) \/ apc[Current(m)] \in Launching
                  THEN excused \cup {m} ELSE excused
    /\ UNCHANGED <<wf, asked, attempt, recorded, prep, fin, attempts, rows, files, shim,
                   early, unwritten>>

\* A cancelled activity is reported to the workflow: at once, or after its attempt has answered.
CancelReported(m) ==
    /\ asked /\ act[m] = "open"
    /\ act' = [act EXCEPT ![m] = "cancelled"]
    /\ early' = (early \/ \E a \in 1..MaxAttempts : Busy(<<m, a>>) \/ Untracked(<<m, a>>))
    /\ UNCHANGED <<wf, asked, attempt, lost, recorded, prep, fin, attempts, rows, files,
                   shim, excused, unwritten>>

\* An attempt answers. What a lost attempt says is dropped.
Answer(x, r) ==
    /\ apc' = [apc EXCEPT ![x] = "ended"] /\ watch' = [watch EXCEPT ![x] = 0]
    /\ act' = [act EXCEPT ![x[1]] = IF @ = "open" /\ x \notin lost THEN r ELSE @]
    /\ lost' = lost

\* A retryable failure: one more attempt if there is one left and no cancel came.
AnswerRetry(x) ==
    /\ apc' = [apc EXCEPT ![x] = "ended"] /\ watch' = [watch EXCEPT ![x] = 0]
    /\ IF LastAttempt(x[2])
       THEN act' = [act EXCEPT ![x[1]] = IF @ = "open" /\ x \notin lost THEN "bad" ELSE @] /\ lost' = lost
       ELSE act' = act /\ lost' = lost \cup {x}

\* Its attempts die with it; the shims do not.
DaemonDies(d) ==
    /\ "crash" \in Events
    /\ d \in up /\ up # {d}
    /\ up' = up \ {d}
    /\ apc' = [x \in Run |-> IF Busy(x) /\ on[x] = d THEN "dead" ELSE apc[x]]
    /\ watch' = [x \in Run |-> IF on[x] = d THEN 0 ELSE watch[x]]
    /\ UNCHANGED <<temporal, on, rows, files, shim, excused, early, unwritten>>

-----------------------------------------------------------------------------
(* One attempt x = <<m, a>> of run_worker. *)

Move(x, p) == apc' = [apc EXCEPT ![x] = p]
Watch(x, s) == Move(x, "watch") /\ watch' = [watch EXCEPT ![x] = s]
Unmark(m) == marker' = [marker EXCEPT ![m] = 0] /\ named' = named \ {m}     \* clear_launch_marker
TokenLive(m) == token[m] # 0 /\ Verified(<<m, token[m]>>)
Outcome(how) == IF how = "committed" THEN "committed" ELSE "bad"    \* judge_member_run
HasRecord(m, s) == s # 0 /\ done[m].run = s     \* finished: the record of the shim the token names

\* Mutant: a worker that is still running is not adopted.
Decide_NeverAdopts(x) ==
    LET m == x[1] IN
    /\ apc[x] = "decide"
    /\ \/ HasRecord(m, token[m]) /\ Answer(x, Outcome(done[m].how))
       \/ ~HasRecord(m, token[m]) /\ Move(x, "claim") /\ UNCHANGED <<watch, act, lost>>
    /\ UNCHANGED <<wf, asked, attempt, recorded, prep, fin, up, on, rows, files, shim,
                   excused, early, unwritten>>

\* What is on disk decides: finished, adopt a live worker, or launch. A worker that cannot be
\* verified blocks the member for good.
Decide(x) ==
    LET m == x[1] IN
    /\ apc[x] = "decide"
    /\ \/ HasRecord(m, token[m]) /\ Answer(x, Outcome(done[m].how))
       \/ /\ ~HasRecord(m, token[m]) /\ TokenLive(m)
          /\ \/ Watch(x, token[m]) /\ UNCHANGED <<act, lost>>
             \/ "refuse" \in Events /\ Answer(x, "bad")
       \/ /\ ~HasRecord(m, token[m]) /\ ~TokenLive(m)
          /\ Move(x, "claim") /\ UNCHANGED <<watch, act, lost>>
    /\ UNCHANGED <<wf, asked, attempt, recorded, prep, fin, up, on, rows, files, shim,
                   excused, early, unwritten>>

ClaimantDead(m) == m \in named /\ on[<<m, marker[m]>>] \notin up

\* A dead claimant's marker with no token is stale; one without an identity is not ours to judge.
Stale(m) == ClaimantDead(m) /\ token[m] = 0

\* try_claim_launch: an exclusive create, tried twice.
ClaimLaunch(x) ==
    LET m == x[1] IN
    /\ apc[x] \in {"claim", "claim2"}
    /\ \/ /\ marker[m] = 0
          /\ marker' = [marker EXCEPT ![m] = x[2]] /\ Move(x, "write")
       \/ /\ marker[m] # 0
          /\ Move(x, IF Stale(m) THEN IF apc[x] = "claim" THEN "reclaim" ELSE "reclaim2" ELSE "wait")
          /\ marker' = marker
    /\ UNCHANGED <<temporal, up, on, watch, rows, named, token, done, shim, excused, early, unwritten>>

\* The identity goes into the file this attempt created, if it is still the one in place.
WriteClaim(x) ==
    /\ apc[x] = "write"
    /\ named' = IF marker[x[1]] = x[2] THEN named \cup {x[1]} ELSE named
    /\ Move(x, "spawn")
    /\ UNCHANGED <<temporal, up, on, watch, rows, marker, token, done, shim, excused, early, unwritten>>

\* The stale marker is removed by name: whichever file is there now. No file is an error.
Reclaim(x) ==
    LET m == x[1] IN
    /\ apc[x] \in {"reclaim", "reclaim2"}
    /\ IF marker[m] = 0 THEN Answer(x, "bad") ELSE
          Move(x, IF apc[x] = "reclaim" THEN "claim2" ELSE "wait") /\ UNCHANGED <<watch, act, lost>>
    /\ Unmark(m)
    /\ UNCHANGED <<wf, asked, attempt, recorded, prep, fin, up, on, rows,
                   token, done, shim, excused, early, unwritten>>

\* The claim is not followed by another look at the token.
SpawnShim(x) ==
    LET m == x[1] IN
    /\ apc[x] = "spawn"
    /\ \/ /\ shim' = [shim EXCEPT ![x] = "starting"]
          /\ Move(x, "await") /\ UNCHANGED <<marker, named, watch, act, lost>>
       \/ /\ "setup" \in Events
          /\ Unmark(m)
          /\ Answer(x, "bad") /\ shim' = shim
    /\ UNCHANGED <<wf, asked, attempt, recorded, prep, fin, up, on, rows,
                   token, done, excused, early, unwritten>>

\* Its own shim's token appears; or the shim is gone without one; or TOKEN_WAIT passes, and the
\* marker stays because something may be running that no token names.
AwaitToken(x) ==
    LET m == x[1] IN
    /\ apc[x] = "await"
    /\ \/ /\ token[m] = x[2]
          /\ Unmark(m)
          /\ Watch(x, x[2]) /\ UNCHANGED <<act, lost, excused>>
       \/ /\ token[m] # x[2] /\ shim[x] = "killed"
          /\ Unmark(m)
          /\ Answer(x, "bad") /\ excused' = excused
       \/ /\ token[m] # x[2] /\ shim[x] # "killed"
          /\ Answer(x, "bad") /\ excused' = excused \cup {m} /\ UNCHANGED <<marker, named>>
    /\ UNCHANGED <<wf, asked, attempt, recorded, prep, fin, up, on, rows, token,
                   done, shim, early, unwritten>>

\* Another attempt holds the claim: adopt the worker it launches, or give up after TOKEN_WAIT.
AwaitOther(x) ==
    LET m == x[1] IN
    /\ apc[x] = "wait"
    /\ \/ TokenLive(m) /\ Watch(x, token[m]) /\ UNCHANGED <<act, lost>>
       \/ ~TokenLive(m) /\ Answer(x, "bad")
    /\ UNCHANGED <<wf, asked, attempt, recorded, prep, fin, up, on, rows, files, shim,
                   excused, early, unwritten>>

\* The watch loop: the record, or the end without one, which is retryable.
WatchEnds(x) ==
    LET m == x[1] IN
    /\ apc[x] = "watch"
    /\ \/ HasRecord(m, watch[x]) /\ Answer(x, Outcome(done[m].how))
       \/ ~HasRecord(m, watch[x]) /\ ~Verified(<<m, watch[x]>>) /\ AnswerRetry(x)
    /\ UNCHANGED <<wf, asked, attempt, recorded, prep, fin, up, on, rows, files,
                   shim, excused, early, unwritten>>

\* No output for the stall window, and no record yet.
SeesStall(x) ==
    /\ "stall" \in Events
    /\ apc[x] = "watch" /\ ~HasRecord(x[1], watch[x])
    /\ Move(x, "stall")
    /\ UNCHANGED <<temporal, up, on, watch, rows, files, shim, excused, early, unwritten>>

CancelSeen(x) == asked \/ x \in lost \/ act[x[1]] # "open"

\* The activity is cancelled: by the operator, or because Temporal no longer knows the attempt.
\* Stopped: cancelled. Not proven stopped: a failure, never a cancellation.
StopWorker(x) ==
    LET w == <<x[1], watch[x]>> IN
    /\ apc[x] = "watch" /\ CancelSeen(x)
    /\ \/ (\E S \in MayRecord({w}) : Stopped({w}, S)) /\ Answer(x, "cancelled")
       \/ "refuse" \in Events /\ Verified(w) /\ Answer(x, "bad") /\ UNCHANGED <<shim, done>>
    /\ UNCHANGED <<wf, asked, attempt, recorded, prep, fin, up, on, rows, marker,
                   named, token, excused, early, unwritten>>

\* A stalled worker is stopped and failed; if it finished by itself meanwhile, that counts.
StopStalled(x) ==
    LET w == <<x[1], watch[x]>> IN
    /\ apc[x] = "stall"
    /\ \/ \E S \in MayRecord({w}) : Stopped({w}, S)
       \/ "refuse" \in Events /\ Verified(w) /\ UNCHANGED <<shim, done>>
    /\ Answer(x, IF HasRecord(x[1], watch[x]) /\ done[x[1]].how # "signal"
                 THEN Outcome(done[x[1]].how) ELSE "bad")
    /\ UNCHANGED <<wf, asked, attempt, recorded, prep, fin, up, on, rows, marker,
                   named, token, excused, early, unwritten>>

-----------------------------------------------------------------------------
(* The shim of run x, and what may happen to it. *)

\* It removes a stale record, then writes its own token.
ShimToken(x) ==
    /\ shim[x] = "starting"
    /\ done' = [done EXCEPT ![x[1]] = NoRecord]
    /\ token' = [token EXCEPT ![x[1]] = x[2]]
    /\ shim' = [shim EXCEPT ![x] = "ready"]
    /\ UNCHANGED <<temporal, attempts, rows, marker, named, excused, early, unwritten>>

ShimRuns(x) ==
    /\ shim[x] = "ready"
    /\ shim' = [shim EXCEPT ![x] = "running"]
    /\ UNCHANGED <<temporal, attempts, rows, files, excused, early, unwritten>>

ShimRecords(x, how) ==
    /\ shim[x] = "running"
    /\ done' = [done EXCEPT ![x[1]] = [run |-> x[2], how |-> how]]
    /\ shim' = [shim EXCEPT ![x] = "ended"]
    /\ UNCHANGED <<temporal, attempts, rows, marker, named, token, excused, early, unwritten>>

\* Setup fails before an agent runs, or the whole group is killed from outside.
ShimKilled(x) ==
    /\ \/ "setup" \in Events /\ shim[x] \in {"starting", "ready"}
       \/ "kill" \in Events /\ shim[x] = "running"
    /\ shim' = [shim EXCEPT ![x] = "killed"]
    /\ UNCHANGED <<temporal, attempts, rows, files, excused, early, unwritten>>

\* Only the shim is killed: its agent runs on in a group without a leader, and then ends.
ShimOrphans(x) ==
    /\ "orphan" \in Events /\ shim[x] = "running"
    /\ shim' = [shim EXCEPT ![x] = "orphan"]
    /\ excused' = excused \cup {x[1]}
    /\ UNCHANGED <<temporal, attempts, rows, files, early, unwritten>>

OrphanEnds(x) ==
    /\ shim[x] = "orphan"
    /\ shim' = [shim EXCEPT ![x] = "killed"]
    /\ UNCHANGED <<temporal, attempts, rows, files, excused, early, unwritten>>

-----------------------------------------------------------------------------
Workflow ==
    \/ StartFleet \/ PrepareFleet \/ RecordFails \/ AfterMembers \/ CancelledMeanwhile
    \/ (\E m \in Member : RecordOutcome(m) \/ CancelReported(m))
    \/ FinalizeCount \/ FinalizeMerge \/ Complete
    \/ AbortFleet

Faults ==
    \/ CancelFleet \/ PrepareFails \/ FinalizeLost
    \/ (\E d \in Daemon : DaemonDies(d))
    \/ (\E x \in Run : ShimKilled(x) \/ ShimOrphans(x) \/ SeesStall(x))

Attempt(x) ==
    \/ Decide(x) \/ ClaimLaunch(x) \/ WriteClaim(x) \/ Reclaim(x) \/ SpawnShim(x)
    \/ AwaitToken(x) \/ AwaitOther(x) \/ WatchEnds(x)
    \/ StopWorker(x) \/ StopStalled(x)

Shim(x) ==
    \/ ShimToken(x) \/ ShimRuns(x) \/ OrphanEnds(x)
    \/ \E how \in {"committed", "failed"} : ShimRecords(x, how)

Next ==
    \/ Workflow \/ Faults
    \/ (\E m \in Member : HeartbeatTimeout(m) \/ \E d \in Daemon : Dispatch(m, d))
    \/ \E x \in Run : Attempt(x) \/ Shim(x)

Spec == Init /\ [][Next]_vars

-----------------------------------------------------------------------------
(* Properties *)

\* One agent works for a member at a time, whatever is retried, adopted or taken over: provided no
\* attempt was declared lost before its shim had a token and no shim died without its agent.
OneAgentPerMember ==
    \A m \in Member \ excused : Cardinality({a \in 1..MaxAttempts : AgentRuns(<<m, a>>)}) <= 1

\* An abort that reports success leaves no agent working for the fleet, unless the workflow went on
\* before a cancelled activity had answered.
AbortedMeansStopped ==
    wf \in {"failed", "cancelled"} /\ ~early =>
       \A m \in Member \ excused : \A a \in 1..MaxAttempts : ~AgentRuns(<<m, a>>)

\* A member whose run ended keeps its outcome whatever happens to the others: its row is `done` when
\* its agent committed, also when the fleet is cancelled.
OutcomesReachLedger ==
    wf \in {"completed", "failed", "cancelled"} /\ ~unwritten =>
       \A m \in Member : act[m] = "committed" => task[m] = "done"

-----------------------------------------------------------------------------
(* What the code's comments say and the runs refute. *)

\* "Exclusive create (O_EXCL) closes the window between deciding to launch and launching, in which
\* two attempts could both decide "fresh" and both spawn the agent."
LaunchWindowClosed ==
    \A m \in Member : Cardinality({a \in 1..MaxAttempts : AgentRuns(<<m, a>>)}) <= 1

\* "Every abort, from ANY step, goes through abort_fleet, so a crash, a failure or a cancel can no
\* longer leave the fleet Temporal-owned and running with no one to finish it."
EndedMeansSettled ==
    wf \in {"completed", "failed", "cancelled"} => fleet \in Finished \cup {"none", "blocked_on_review"}
====
