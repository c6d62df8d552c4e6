# triumvirate: a TLA+ development

triumvirate is a daemon (Rust, `daemon/crates/`) that lets several agent CLIs (claude, codex, gemini,
grok, ...) work on one repository over MCP. Its most intricate part is the *fleet*: a set of agents,
each with a task, a git worktree and a branch of its own, whose branches are merged when all are done.
A fleet is driven by several processes at once: the process that spawned it, the agent processes
themselves, any other daemon an operator cancels it through, and any daemon that starts after the
first one died. They share a SQLite ledger, a directory of small files and a git repository, and no
lock. Beside it stand a second fleet engine on top of Temporal, a build engine that dispatches single
workers (ABE), an append-only event log that all of them and the agents' session hooks write, and a circuit
breaker and a pool of slots that every call of the agy CLI passes. This
development models those parts, checks them with TLC and proves their safety with TLAPS.

## Inventory

Paths are below `daemon/crates/`.

| part | state it keeps | operations | how it meets the others |
|---|---|---|---|
| fleet orchestrator, `fleet/src/orchestrator.rs` | `fleets.state`, `tasks.state`, `FLEET_CHILDREN`, `CANCELLED_FLEETS`, the guard of each worker body | `fleet_spawn`, `prepare_fleet_members`, worker body, `wait_fleet_child`, `finalize_if_all_tasks_terminal`, `complete_fleet` | writes the ledger, starts agents, reads reviews, merges |
| task store, `fleet/src/tasks.rs` | `tasks` | `insert_fleet`, `insert_task`, `claim_task` | called by the spawn and by `fleet_claim_task` |
| merge coordinator, `fleet/src/merge.rs` | completion queue, pause flag | `enqueue_completed`, `merge_next` | used by `complete_fleet`, one per merge phase |
| worker tokens, `fleet/src/worker_token.rs` | `<task>.json`, `<task>.launching`, `owner.json` | write, clear, `verify`, `terminate`, `try_claim_launch` | written by the owner, read by cancel and recovery |
| recovery, `fleet/src/recovery.rs` | none | `recover_stale_fleets` | run by every daemon that starts |
| fleet tools, `mcp-tools/src/fleet.rs` | cached statuses | `fleet_cancel`, `fleet_claim_task`, `fleet_status` | from any daemon |
| peer review, `peer-review/src/lib.rs` | `reviews` | `request_review`, `submit_review`, `fail_timed_out_reviews` | read by the merge gate |
| Temporal engine, `fleet-temporal/`, `fleet/src/shim.rs` | workflow history, done files, launch markers | `FleetWorkflow`, `run_worker`, `abort_fleet`, the shim | shares tokens, rows and merge phase with the legacy engine |
| build engine, `mcp-tools/src/abe.rs`, `triumvirate/src/abe/` | task tracker, worktrees | dispatch, watch, cancel, `/abe/task-complete` | spawns codex, reports the verdict |
| resilience, `mcp-bridge/src/{agy,deepseek}_resilience.rs`, `triumvirate/src/agy.rs` | circuit breaker, slots, rate limit | `should_skip`, record success or failure, the retry loop | asked by `ask_agent` and worker bodies, closed by probes |
| seats, `daemon-core/src/seat_lock.rs`, `mcp-bridge/src/seat_*.rs` | lock files, quota state | acquire, steal, gate | around every call of a seat |
| event log, `ledger/` | `events`, `sessions`, spool files | `ingest_event`, `drain_spool`, gc | appended to by fleets, hooks and recovery |

The rest (HTTP and MCP plumbing, stream parsers, prompts, juries, the user interface, the archived first
version) moves data and keeps no state that others depend on. `PROJECT.json` lists every part with its
status.

What is hard in fleets, and what makes them correct:

* *Everybody finishes at once.* The last worker body drives the merge; every body thinks it may be the
  last. Exactly one must get in, and somebody must.
* *A cancel can come from anywhere, at any time*: before the rows exist, between the check and the spawn
  of an agent, during the merge. It must reach every agent and must stay on record.
* *The owner can die at any instant.* Its agents go on spending. Recovery must stop them before it frees
  their tasks, and must not touch what it cannot prove to be its own.
* *The gate reads reviews that are still changing*, from a store that may be unreadable.
* *Bodies panic and ledger statements fail*, and the fleet must not be stuck or decided twice.

In the Temporal engine the workflow survives everything and the daemons do not: an attempt that was
declared lost may still be at work, its successor must adopt the running agent instead of launching a
second one, and a fleet that ends must end for good. In the build engine seven actors race to decide one
task, some of them after it was decided, cancelled or dispatched again. In the event log the number of an
event is read in one statement and used in another, and two drains may work on one spool. The breaker of agy
is asked before a wait and told much later, by callers that were let in under different states of it, and
the one that probes it may never come back.

## Modules

* `FleetContract`: what a fleet promises: each task is decided once; branches reach HEAD only when all
  tasks are done, one at a time, in the order of their ids, each once.
* `Fleet`: one fleet of the legacy engine with all its actors. The properties and the mutants used to
  show that they are sensitive to the code are in the same module.
* `PeerReview`: the queue of reviews.
* `FleetWorkflow`: one fleet of the Temporal engine.
* `AbeDispatch`: one task of the build engine.
* `EventLog`: the ledger's events, the spool and its drains.
* `AgyBreaker`: the circuit breaker and the slots of agy with their callers; `AgyProbes` adds a history of
  its probes.
* `FleetProofs`, `FleetOutcomeProofs`, `FleetRefinement`, `PeerReviewProofs`, `WorkflowProofs`, `AbeProofs`,
  `EventLogProofs`, `AgyProofs`: theorems and proofs.

The properties of each module, and the mutants (`X_How`) used to show that they are sensitive to the code,
are in the module itself. The configurations set constants only.

### `Fleet`

A step is one SQL statement, one file operation or one signal: what another process can see in between.

| variables | code |
|---|---|
| `fleet`, `task` | `fleets.state`, `tasks.state` (`ledger/src/store.rs`) |
| `verdict` | newest answered review of each branch |
| `marker`, `token` | launch marker and worker token of each task; a token is `stale` when it names the process of an earlier attempt |
| `merged` | branches merged into HEAD |
| `child`, `signalled` | the latest agent process of each task, and who was sent SIGTERM |
| `owner`, `prep`, `idx` | the owning process and where `prepare_fleet_members` is |
| `pc`, `armed`, `useAgy`, `outcome`, `queue` | the worker bodies: program point, `WorkerTerminalGuard`, current attempt, outcome to record, merge queue |
| `registered`, `cancelMem` | `FLEET_CHILDREN`, `CANCELLED_FLEETS` of the owner |
| `cpc`, `clocal`, `cfinished`, `ctargets`, `canswer`, `cproblems` | one `fleet_cancel` call |
| `rpc` | `recover_stale_fleets` in each recovering daemon |
| `late`, `granted` | observations only |

The actions follow the source: `InsertFleet` to `StartMembers` are the spawn; `RunRequested` to
`RecordTask` one worker body, with the launch marker before the spawn, the token after it and the second
look for a cancel after the registration; `Finalize` to `EndBody` the way out through `complete_fleet`;
`ResolveFleet` to `KillWorkers` a cancel; `RecoverScan` to `RecoverReset` a recovery. The environment can
claim tasks, answer reviews, end agents and kill the owner. What else may go wrong is chosen per run by
the constant `Events`, so that every run has the failures its question is about and stays finite.

Left out: durations (a deadline may pass at any moment a worker waits), the contents of worktrees, prompts
and ledger events, the reason texts, telemetry. The circuit breaker of agy is an arbitrary answer. A
panic strikes a body before it recorded its outcome. A token file that cannot be read counts as one that
refuses verification. Process groups have their leader only.

### `PeerReview`

The queue of reviews in one ledger, with `Callers` that are inside the engine at the same time: MCP clients
and fleets, or the mandatory-review dispatch of a turn (`own`). `rows`, `state`, `verdict` and `owned` are
the columns of `reviews` that matter, `by` records who submitted; `pc`, `id`, `free` and `answer` are the
locals of each call. `open_conn` begins no transaction, so a step is one statement: `RequestReview` counts,
`InsertReview` inserts, `ReadBack` is the dispatch looking at what it got; `SubmitReview` and
`DispatchAnswers` end with the checks of `submit_review` on the row as read, `RecordVerdict` is the guarded
update, `CountAgain`, `PickPending` and `Promote` hand on the freed slot. A call may die between any two of
them. `FailTimedOut` is `fail_timed_out_reviews`; nothing in the daemon calls it, so it happens only in runs
that allow it. Which agent a review is assigned to is reduced to whether a submitter names that agent, and
the verdicts other than `approve`, which the engine treats alike, to one. The clock does not run backwards,
so the order of `requested_at` is the order of the rows.

### `FleetWorkflow`

`wf`, `act`, `attempt`, `lost`, `recorded`, `prep` and `fin` are what Temporal keeps: where the workflow is,
which result of each member it has, and how far its activities got. `up`, `on`, `apc` and `watch` are the
daemons and the attempts of `run_worker` they run; `fleet` and `task` the rows; `marker`, `named`, `token`
and `done` the worker directory (`named` is a marker that holds its claimant's identity: the exclusive
create and the write of the identity are two steps); `shim` the processes. A run `<<m, a>>` is attempt `a`
of member `m`.

* The workflow: `StartFleet`, `PrepareFleet`, `RecordOutcome`, `AfterMembers`, the `Finalize...` steps and
  `Complete` are `drive`; `AbortFleet` is the one cleanup. A retried activity starts over.
* An attempt: `Decide` reads token and record, `ClaimLaunch`, `WriteClaim` and `Reclaim` are
  `try_claim_launch`, `SpawnShim`, `AwaitToken` and `AwaitOther` are `launch`, `WatchEnds` to `StopStalled`
  the watch loop.
* The shim writes its token, runs the agent and records its end; it outlives every daemon.
* Temporal (external, as its documentation and the SDK's defaults have it): an attempt without heartbeats
  is lost, its later answer is dropped, and the next attempt goes to any daemon. A cancelled activity may
  be reported to the workflow before its attempt has ended (TryCancel is the default and the code does not
  change it).

Two observations delimit what the properties may claim. `excused` are members with an attempt that was
declared lost before its shim had a token (which takes 20 s without a heartbeat, while launching is bounded
by `TOKEN_WAIT`, 15 s), or whose shim was killed without its agent. `early` says that the workflow went on
while a cancelled activity was at work.

### `AbeDispatch`

The tracker's record of one task id (`status`, `rec`, `commit`, `via`, `traces`), and per dispatch the
process and the program point of each watcher: `main` is the exit monitor, `timeout`, `sentinel`, `head`
and `stuck` the four others, `escalate` the SIGKILL that a cancel has scheduled; `tree`, `headCommit` and
`complete` are the worktree at the task's path. `Mark` is the arbiter: the first `mark_*` wins, and only the
winner emits a content trace. The timeout watcher holds the `Child` for its whole grace (`Locked`), which
keeps the others from killing or seeing the exit meanwhile. What a watcher does after it lost (killing the
worker, removing the worktree) it does all the same, as in the code. A commit is told apart by what the
contract says of it: it passes, it only has the right form, or neither. The exit monitor resolves the commit
(`found`), validates what is then at the path, and reports `found`: three moments, as in the code.

Every task of the daemon may panic wherever it is (`MainPanics`, `WatcherPanics`). A panic gives up its lock
and its handle of the `Child` (`Released`, `Orphaned`; the last handle kills the worker). Only the monitor of a
plain dispatch has a supervisor.

### `EventLog`

`rows` with `lastId` and `count` are `events`, its AUTOINCREMENT and `sessions.event_count`. A call of
`ingest_fleet_event` (`Patient`, it retries) or of `record_event` (`OneShot`) opens the ledger, reads
`MAX(sequence)`, inserts and updates the session, each of them one statement without a transaction. A hook
(external) writes a temporary file and renames it; a drain lists the spool (temporary files included, as
`drain_spool` does), and takes, inserts, counts and removes file by file. A statement may fail and a
process may die at every point (`MaxFaults` of them). `known` is the in-memory list of projects that the
background sweep goes through; it is lost when the daemon restarts and filled by the next ping.

### `AgyBreaker`

`phase` to `holder` are `BreakerState`, which lives under one mutex, so that each of its methods is a step
(or part of one: `LetIn` is `should_skip`, `RecordSuccess`, `RecordQuota` and `RecordOther` the reports);
`permits` is the semaphore, `stage`, `tries`, `waits` and `err` where each caller's call is. Asks and watchers
run `run_agy_cli_process_with_session` (`TakeSlot` to `Retry`); a watcher neither asks nor feeds the
breaker, and only an exact answer to `breaker_probe` closes it. A fleet member launches agy itself, reports
an exit status, and keeps its slot until its body returns (`FleetReturns`), that is through the codex attempt
of the degraded route and the merge phase. A call may end without a report: the client is gone, the sight
gate rejects the answer, the fleet is cancelled.

Time is the order of events: an open breaker's cooldown may end at any moment (`TimeUp`), the lease of a
half-open one when its probe has ended or is a fleet member, which alone can outlive it (an ask ends by its
deadline, the connector timeout + 15 s; the lease is at least three timeouts). The rate limiter only delays.
`admitted` and `late` are observations (`admitted` is about the current half-open period and starts afresh
with each; `probing` of `AgyProbes` follows every probe to its end), and `well` says that from now on every
call is answered in time and its answer kept: the hypothesis of `Recovers`.

## Runs

The fleet runs use two members (one where a single one shows the point): interference between bodies is
pairwise, every property is about pairs of tasks or about a task and the fleet, and the order of merges needs
two. There is one cancel per behaviour, since `CANCELLED_FLEETS` and the row keep a cancel for good. `granted`
stops at 2, one past what is allowed. Deadlock is not checked: a fleet, a task or a log that has come to its
end has nothing left to do.

| run | question |
|---|---|
| `cancel` | A cancel from any process during launches, with agents no token can name or that refuse verification, the degraded route, panicking bodies and a failing preparation. `CancelReachesEveryWorker`, `CancelKeptByFailedTasks`, `NotStranded` |
| `recovery` | Crash, recovery, interrupted recovery, cancels and claims, fairly scheduled. `CancelReachesEveryWorker`, `OrphanLeavesEvidence`, `NoSecondWorker`, `GrantedOnce`, `ImplementsContract`, and in the end `FleetSettles`, `OrphanStopped` |
| `faults` | Any ledger statement may fail while bodies panic, an operator cancels and reviews are required. `MergeAdmitsOne`, `DoneMeansMerged`, `BlockedVerdictNotMerged` |
| `peer_review` | Two calls of the review engine at once, three reviews, one slot, calls that die, sweeps. `VerdictStands`, `VerdictAuthorised`, `PromotedInOrder`, `CapOvershoot` |
| `workflow` | A Temporal fleet on two daemons with every fault the module has. `OneAgentPerMember`, `AbortedMeansStopped`, `OutcomesReachLedger` |
| `abe` | One dispatch, plain or in a worktree, everything that races to decide it, and a panic of any of it. `OneVerdict`, `TimeoutIsReal`, `ExitCompletesValidated`, and in the end `EventuallyDecided`, `EventuallyStopped` |
| `event_log` | One retrying and one single append, one hook file, the sweep and a ping's drain, two faults, gc. `SpoolNotLost`, `CountsEachRowOnce`, `AppendsAtEnd`, `SpoolDrained` |
| `agy` | An ask, a fleet member and a watcher on two slots; failures, quota, deadlines, dropped requests, late stragglers. `NoStampede`, `OpenSpendsOnce`, `PermitsConserved`, and in the end `Recovers` |

In `workflow` the engine's own limit of two attempts bounds the model; two daemons are enough for an attempt
and its successor to be in different processes. `recovery` leaves out processes that refuse verification,
which recovery may retry for ever, and agents whose token was never written (a crash between spawn and token
has the same effect); its safety theorems hold with both. `abe` dispatches a task once, because two
overlapping dispatches have more than 20 million states; the safety properties are proved for any number of
them (`TimeoutIsReal` and `ExitCompletesValidated` speak of a task with one dispatch, and the second may have
begun). Of one dispatch at most one task is panicked and unnoticed (`MaxPanics`; the theorems have no such
bound). `event_log` has two attempts where the code has eight (a third differs from the second only by its
number) and one file, since files meet only in the order of the listing; the theorems have no such bounds.
`agy` has one caller of each kind (each makes call after call, so that stragglers, probes and observers of
different states of the breaker meet), one slot less than callers, a threshold of two, one backoff (the
schedule has two), and counts opens up to two: `open_count` only sets the length of a cooldown.

Fairness is weak fairness of the daemon's own steps and nothing else. In `Fleet`: tokio polls every body and a
wait ends by the agent's exit or by its deadline, a tool call that was started is carried through, and after a
crash some daemon starts and runs recovery, as `main.rs` does at every start. In `AbeDispatch`: the monitor,
the timers and the watchers that were spawned run, unless they panic; the stuck watcher is assumed to strike
only where no worker is left to write at the path, since a busy one keeps it waiting; a worker owes nothing,
not even to follow SIGTERM. In `EventLog`: the sweep loop keeps going and carries a drain to its end, as long
as the daemon lives. In `AgyBreaker`: timers expire, somebody goes on asking for agy, a call that has a slot
moves on (agy is killed at its timeout, a worker body returns), and, strong fairness, a caller that waits for
a slot gets one, since tokio's semaphore is first come, first served. Agents, reviewers, operators and hooks
are not assumed to do anything.

Four runs show where the code does not keep what its own comments say; each is a finding in `PROJECT.json`:

* `cancel_lost`: the `UPDATE ... 'running'` at the end of the preparation overwrites a cancel that arrived
  from another process, and the workers start. The final `UPDATE ... 'done'` of `complete_fleet` loses a
  cancel of the merge phase in the same way.
* `launch_window`: attempt 1 of a member is declared lost while it launches; attempt 2 finds no token and
  decides to launch; attempt 1's shim writes its token and the marker is cleared; attempt 2 claims the
  launch, which nobody holds any more, does not look at the token again, and starts a second agent.
* `merge_abandoned`: a daemon dies in the merge phase of a Temporal fleet. The retried activity finds
  `merging`, is refused by the guarded update that admits one merge phase, and reports that state as its
  result; the workflow completes and recovery leaves Temporal fleets alone.
* `event_lost`: `ingest_event` treats a taken number as success (`ON CONFLICT DO NOTHING`, returning Ok), so the
  loop of `ingest_fleet_event` that was written to retry collisions never sees one, and the event of the slower
  of two workers vanishes without a message.

Three more claims about the build engine and one about agy are stated in the modules, next to the properties
that hold, with a configuration under which TLC refutes them in less than a minute:

* `ReportedIsValidated` (`ReportedCommit.cfg`), from "This runs AFTER the worker exits, outside the worker's
  control" (`post_exit_validator.rs`): a task is dispatched again at the same path while the exit monitor of the
  first dispatch is between the worker's exit and its verdict. It resolves a commit of the second worker, which
  commits again before the validation, and completes the new record with the first commit. For a task
  dispatched once the two are the same, which is `ExitCompletesValidated`.
* `CompletedMeansValidated` (`Unvalidated.cfg`), from `docs/abe/LESSONS.md` ("The daemon must independently
  validate every commit AFTER the worker exits"): the HEAD watcher completes a task when the subject line has the
  right form, the sentinel watcher when the sentinel names HEAD, the route always; only the exit monitor calls
  `validate_commit`.
* `PanicIsDecided` (`PanicUnmarked.cfg`), from the comment at the worktree watchers ("the timeout watcher
  eventually marks the task `timeout`", "nothing vanishes"): if the exit monitor panics and the worker exits, the
  timeout watcher finds it gone and marks nothing; the stuck watcher spares a task that has a sentinel, and
  removes the worktree; the task stays `working`. `EventuallyDecided` says what is left of the claim.
* `OneProbeAtATime` (`AgyProbes`, `SecondProbe.cfg`), from `half_open_lease` ("a slow-but-alive probe can never
  trigger a second concurrent probe"): a straggler that fails while a probe is out re-trips the breaker, and
  after that cooldown a second probe runs beside the first. Of the two asks of the configuration one is both
  the straggler and, when it asks again, the second probe. What holds is that one half-open period lets in one
  caller (`NoStampede`).

Other behaviour of this kind is in the models without a run of its own, and noted at its hazard in
`PROJECT.json`:

* with the degraded route on, `NoSecondWorker` fails (the token of a failed agy attempt hides the marker of
  the codex attempt from recovery): `recovery` with `DegradedRoute = TRUE` and an agy member shows it;
* with two recovering daemons `GrantedOnce` fails (recovery's statements look at nothing that happened
  since its scan): `recovery` with `Recoverers = {"d1", "d2"}` shows it;
* nothing calls `complete_fleet` after the last body has left, so an approval of a parked fleet is not
  acted on; recovery's `UPDATE ... 'failed'` also overwrites a cancel; a task claimed between its insertion
  and its assignment is taken from its claimant without notice;
* a turn that finds its review queued gives up and leaves the row, which holds a slot once it is promoted;
* a loser of the race for an ABE task removes the worktree of a completed one, and `mark_stuck` spares a task
  with a sentinel while the stuck watcher kills its worker;
* a launch marker without an identity (its daemon died between create and write) blocks its member for good;
  a Temporal workflow can complete with an agent running that a stall stop could not stop;
* after a restart a spool is only drained when its project pings again;
* a probe of agy whose answer the sight gate rejects is not reported and costs a whole lease (30 minutes or
  more).

## Proofs

`FleetProofs` proves, for every number of members, every set of recovering daemons and every choice of
the other constants (`FleetAssumption` is all that is assumed of them):

* `TypeCorrect`;
* `MergeAdmitsOneAlways`, `DoneMeansMergedAlways`, `BlockedVerdictNotMergedAlways`,
  `OrphanLeavesEvidenceAlways`, `CancelKeptByFailedTasksAlways`;
* `NoSecondWorkerAlways`, under the assumption that the degraded route is off (the note above shows
  that it is needed).

None of these is inductive. The invariant `SafetyInv` adds what they rest on, in parts that build on each
other: `OwnerInv` (when the owner is down no body runs and its memory is gone), `PhaseInv` (a body in the
merge phase is alone there, and the row is not one the merge phase admits), `DecidedInv` (a body that has not
recorded has an undecided row, a decided row never changes), `MergeInv` (inside the merge phase all tasks are
done and every task is merged or queued), `GateInv` (what is queued was read and did not block, or was judged
since), `LaunchInv` (where each body is in the launch, against marker, token and process) and `ClaimInv` (a
task that is free to claim has no process, and recovery frees only what it has stopped). `Safety` is that
these hold always: each `...Step` lemma shows that one part is preserved by every action with the help of the
parts before it; the `...Frame` lemmas say once what each group of actions leaves alone.

`FleetOutcomeProofs` builds on `SafetyInv` and adds one inductive invariant per question (each checked by TLC
as an invariant first):

* `NotStrandedAlways`, for every fleet. `SettleInv`: while the ledger takes writes, a body past its attempt
  has a decided row; a row that says `running` still has a body that will look at it, and one that says
  `merging` a body that is merging. The case that matters is a body that finds other tasks undecided: their
  bodies are still before their own look, so the last one to record finds all of them decided.
* `GrantedOnceAlways`, for one recovering daemon at a time and no degraded route (the notes above show that
  both are needed). `GrantInv`: no task of a fleet whose owner lives is open; after its death one opens only
  once the fleet is `failed` and recovery is past it, and a `failed` fleet is never looked at again.
* `CancelReachesEveryWorkerAlways`, where ledger statements do not fail, and `LocalCancelReachesEveryWorker`,
  where they may, for a cancel in the owner. `CancelInv`: a running agent is in the hands of its body; what is
  registered after a local cancel took the children was rechecked and signalled by its own body; and an agent
  that got its token after the tokens were gone through has yet to recheck or has rechecked. With failing
  statements a cancel from another process does not keep the promise: a recheck that cannot read the row takes
  the fleet for not cancelled (`cancel` with `"ledger"` among the events shows it).
* `LocalCancelEndsLaunchingAlways`: once a cancel in the owner has set its flag no body begins another
  attempt, whatever becomes of the row. This is the half of `CancelHonoured` that holds; `cancel_lost` refutes
  the other.

`FleetRefinement` proves `FleetKeepsContract`: every behaviour of `Fleet` is one of `FleetContract`, for every
value of the constants. With the rows and the merged branches mapped to the contract's, each action either
leaves both alone or decides one undecided task (by `DecidedInv`), or merges the head of a queue that holds
exactly what is not merged yet, in order, when all tasks are done (by `MergeInv`).

`PeerReviewProofs` proves every safety property of `PeerReview` for every number of reviews and callers and
every cap (`ReviewAssumption`): `TypeCorrect`, `VerdictAuthorisedAlways`, `VerdictStandsAlways`,
`PromotedInOrderAlways`, `CapOvershootAlways`. The invariant is `TableInv` (rows are appended, a verdict is
there exactly when the review is done), `CallInv` (what a call between two statements still knows: the right
to answer does not lapse, and no older review than the picked one comes to wait) and `SlotInv`: the running
reviews plus the slots counted and not yet used stay below the cap plus the number of callers. The last is
what makes the bound on the overshoot inductive; its steps are counted with the cardinality theorems of the
library.

`WorkflowProofs` proves, for any number of members and daemons and every choice of faults
(`WorkflowAssumption`), `WorkflowTypeOK`, `OneAgentPerMemberAlways`, `AbortedMeansStoppedAlways` and
`OutcomesReachLedgerAlways`. The run
`workflow` has one member, so that what happens to one member leaves another alone is shown by these proofs
only. The invariant adds `AttemptInv` (the last attempt of an open activity has not been given up, so that a
dispatch stays within the limit), `WatchInv` (an attempt that watches knows which run), `LedgerInv` (outcomes
are recorded when all have answered, over rows nobody has decided, and past that point nothing is left to
record) and `AgentInv`, which relates the two attempts of a member to its token and its shims: a second
attempt exists when the first was lost past its launch, and it launches only when the first one's shim is
gone, because a live one is the one the token names. `StopInv` is what the abort relies on: the token names
the live shim, so that stopping what the tokens name stops every shim, and a member that has answered
launches nothing more, so that none starts after the abort has looked.

`AbeProofs` proves the safety properties of `AbeDispatch` for any number of dispatches of the task, with
watchers of old dispatches still at work: `AbeTypeOK`, `AbeOneVerdict`, `AbeTimeoutIsReal`, `AbeExitValidated`.
`AbeTimeoutIsReal` rests on what the program point of the timeout watcher says about the process it was
started for (past the grace it has killed it), `AbeOneVerdict` on `Mark` being the only way to a verdict.
`AbeExitValidated` is about a task with one dispatch (another may have set up its worktree and not spawned yet)
and needs `Found`: while the monitor is between its look at HEAD and the validation its worker is gone, so HEAD
at the path is still what it resolved, or the worktree was removed or replaced, and then nothing validates.

`EventLogProofs` proves, for any sets of callers and drains and any number of files and attempts,
`EventLogTypeOK`, `SpoolNotLostAlways`, `AppendsAtEndAlways` and
`CountsEachRowOnceAlways`. The invariant
adds `Bounded` (the numbers of a log have a maximum, so that `MaxSeq` means what it says), `Fresh` (a number
that was read is taken by now, or still follows the maximum), `FirstOnError` (one that could not be read is 1)
and `Held` (a call that inserted, and a drain that is about to remove its file, have a row to show).
`CountsEachRowOnceAlways` is an account per log (`Balanced`): the rows that were counted, those whose update
was cut off and those a process has still to count add up to the rows inserted; `PendingMoves` counts the
last with the library's cardinality theorems, one process moving at a time.

`AgyProofs` proves, for any sets of callers, any number of slots, any threshold and backoff schedule
(`AgyAssumption`), `AgyTypeOK`, `NoStampedeAlways`, `OpenSpendsOnceAlways` and `PermitsConservedAlways`. The
invariant adds `Queued` (a call in the queue has attempts left by its budget) and `Late` (the history of
starts is empty unless the breaker is open, and a request that started agy under it is not on its way to a
second start); the permits are counted with the library's cardinality theorems.

Every invariant, action property and refinement that a passing run checks is thereby proved (`NoSecondWorker`,
`GrantedOnce` and `CancelReachesEveryWorker` under the restrictions stated above). Only model-checked:
liveness (`FleetSettles`, `OrphanStopped`, `EventuallyDecided`, `EventuallyStopped`, `SpoolDrained`,
`Recovers`), which is out of the prover's reach (fairness and ENABLED).

## Not modelled

* Waves, wave gate, failure handler and resume of the build engine, compression of events, and the replay
  buffer of the WebSocket stream: only their own tests call or construct them.
* The arithmetic of agy's token bucket (it only delays) and the choice of hops on the degraded route. In
  `Fleet` the breaker is an arbitrary answer; `AgyBreaker` has the worker body as one of its callers.
* DeepSeek's breaker (`deepseek_resilience.rs`): the machine of `AgyBreaker` with a latch for 402 and other
  failure classes. To look at when it is modelled: a call in flight can undo the latch, a failure while open
  extends the cooldown, and a neutral outcome leaves it half open until its lease ends.
* Seats (lock files, quota state): a part of the plan.
* A ledger activity of the Temporal engine that outlives its start_to_close timeout (300 s) and runs on beside
  its own retry: `FleetWorkflow` has each of them run once at a time. A `prepare_fleet` left over in this way
  would set rows again that were decided meanwhile.
* `pid.rs`: the lock of a second daemon; the file is unlinked by name when a daemon ends, so two daemons can
  come to hold it, which is why `FleetWorkflow`, `Fleet` and `EventLog` assume nothing of it.
* Prompts, command lines, output parsers, juries, the user interface, the archived first version: they move
  text and keep no state that others depend on.

## Plan

1. An abstract specification of the review queue (requested, started in order, answered once) that
   `PeerReview` implements.
2. Seat locks, and DeepSeek's breaker as a second instance of the breaker's machine.
3. A composition of `EventLog` with the end of a worker body, so that what a lost event hides from a reader of
   the ledger can be stated.
