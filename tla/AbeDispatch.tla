---------------------------- MODULE AbeDispatch ----------------------------
(***************************************************************************)
(* One task of the autonomous build engine: dispatch_codex and             *)
(* dispatch_codex_worktree (crates/mcp-tools/src/abe.rs), the task tracker *)
(* that arbitrates its outcome (crates/triumvirate/src/abe/                *)
(* task_tracker.rs), the worker process, and everything that races to      *)
(* decide the task: the exit monitor, the timeout, the sentinel, HEAD and  *)
(* stuck watchers, POST /abe/task-complete, cancel, and the supervisor of  *)
(* a plain dispatch. Any of the daemon's tasks may panic; only the monitor *)
(* of a plain dispatch has somebody to notice.                             *)
(*                                                                         *)
(* A task is `plain` (dispatch_codex: a fresh task id, one monitor) or a   *)
(* `worktree` one, whose id comes from the caller's contract: it may be    *)
(* dispatched again, at the same path, while the watchers of the earlier   *)
(* dispatch are still at work. Everything but the process and the worktree *)
(* is in the daemon's memory.                                              *)
(*                                                                         *)
(* Simplifications: a commit is the HEAD of the worktree, told apart only  *)
(* by what the contract says of it; SIGTERM is a hint a worker may follow  *)
(* or not, so it has no state; there is no clock, every timer may expire   *)
(* whenever it is waited on; a look that changes nothing is no step.       *)
(***************************************************************************)
EXTENDS Naturals, FiniteSets

CONSTANTS
    MaxDispatch,    \* dispatches of a worktree task
    Commit,         \* the commits a worker may make
    MaxPanics,      \* the daemon's tasks of one dispatch that may have panicked with nobody noticing
    Events          \* what may happen besides a worker running to its end

Dispatch == 1..MaxDispatch
AllEvents == {"cancel", "route", "setup", "panic", "wait_error", "bad_sentinel"}

\* A commit that meets the contract, one whose subject only has the right form, one of another form.
AllCommits == {"valid", "invalid", "misnamed"}
RightForm == {"valid", "invalid"}

ASSUME AbeAssumption ==
    /\ MaxDispatch \in Nat \ {0} /\ MaxPanics \in Nat
    /\ Commit \subseteq AllCommits /\ Events \subseteq AllEvents

VARIABLES
    kind, keep,         \* how the task is dispatched; keep_failed_worktree
    n, setting,         \* dispatches so far; one has its worktree and no process yet
    (* The tracker's record of the task id. *)
    status, rec,        \* rec: the dispatch it is of, 0 for none
    commit, via,        \* the commit a completed task reports, and who reported it
    traces,             \* content traces emitted for the record
    (* Per dispatch: the process, the watchers, cancel's pending SIGKILL. *)
    proc, main, timeout, sentinel, head, stuck, escalate,
    found,              \* the commit the exit monitor resolved before it validates
    (* The worktree at the task's path. *)
    tree,               \* the dispatch that created it, 0 for no directory
    headCommit, complete    \* HEAD; the commit TASK_COMPLETE.json names

task     == <<kind, keep>>
record   == <<status, rec, commit, via, traces>>
watchers == <<main, found, timeout, sentinel, head, stuck>>
files    == <<tree, headCommit, complete>>
vars     == <<task, n, setting, record, proc, watchers, escalate, files>>

Terminal == {"completed", "failed", "timeout", "stuck", "setup_failed", "cancelled"}

Exited(d) == proc[d] \in {"exit0", "exit1", "killed", "timedout"}

TypeOK ==
    /\ kind \in {"plain", "worktree"} /\ keep \in BOOLEAN
    /\ n \in 0..MaxDispatch /\ setting \in BOOLEAN
    /\ status \in {"none", "working"} \cup Terminal /\ rec \in 0..MaxDispatch
    /\ commit \in Commit \cup {"none", "start", "unknown"}
    /\ via \in {"none", "exit", "sentinel", "head", "route"}
    /\ traces \in Nat
    /\ proc \in [Dispatch -> {"none", "running", "exit0", "exit1", "killed", "timedout"}]
    /\ main \in [Dispatch -> {"off", "poll", "exit", "validate", "timeout", "panicked", "cleanup", "end"}]
    /\ timeout \in [Dispatch -> {"off", "sleep", "grace", "mark", "cleanup", "panicked", "end"}]
    /\ sentinel \in [Dispatch -> {"off", "poll", "mark", "kill", "panicked", "end"}]
    /\ head \in [Dispatch -> {"off", "poll", "mark", "kill", "panicked", "end"}]
    /\ stuck \in [Dispatch -> {"off", "poll", "mark", "kill", "cleanup", "panicked", "end"}]
    /\ found \in [Dispatch -> Commit \cup {"none", "unknown"}]
    /\ escalate \subseteq Dispatch
    /\ tree \in 0..MaxDispatch
    /\ headCommit \in Commit \cup {"start"}
    /\ complete \in Commit \cup {"none", "bad"}
    /\ setting => kind = "worktree" /\ n < MaxDispatch
    /\ status = "working" => rec # 0
    /\ tree = 0 => complete = "none"

Init ==
    /\ kind \in {"plain", "worktree"} /\ keep \in BOOLEAN
    /\ n = 0 /\ setting = FALSE
    /\ status = "none" /\ rec = 0 /\ commit = "none" /\ via = "none" /\ traces = 0
    /\ proc = [d \in Dispatch |-> "none"]
    /\ main = [d \in Dispatch |-> "off"] /\ timeout = [d \in Dispatch |-> "off"]
    /\ sentinel = [d \in Dispatch |-> "off"] /\ head = [d \in Dispatch |-> "off"]
    /\ stuck = [d \in Dispatch |-> "off"]
    /\ escalate = {} /\ found = [d \in Dispatch |-> "none"]
    /\ tree = 0 /\ headCommit = "start" /\ complete = "none"

-----------------------------------------------------------------------------
(* Dispatching. Nothing looks at the record the task id already has. *)

\* dispatch_codex: the worker runs in the caller's directory, under one monitor.
DispatchPlain ==
    /\ kind = "plain" /\ n = 0
    /\ n' = 1 /\ tree' = 1
    /\ status' = "working" /\ rec' = 1
    /\ proc' = [proc EXCEPT ![1] = "running"] /\ main' = [main EXCEPT ![1] = "poll"]
    /\ UNCHANGED <<task, setting, commit, via, traces, timeout, sentinel, head, stuck, found, escalate,
                   headCommit, complete>>

\* setup_worktree: what is at the path is removed, a stale sentinel with it.
Setup ==
    /\ kind = "worktree" /\ n < MaxDispatch /\ ~setting
    /\ setting' = TRUE
    /\ tree' = n + 1 /\ headCommit' = "start" /\ complete' = "none"
    /\ UNCHANGED <<task, n, record, proc, watchers, escalate>>

\* The contract is invalid, `git worktree add` fails, or a later step of the setup does: no rollback.
SetupFails ==
    /\ "setup" \in Events
    /\ kind = "worktree" /\ n < MaxDispatch /\ ~setting
    /\ n' = n + 1
    /\ status' = "setup_failed" /\ rec' = 0 /\ commit' = "none" /\ via' = "none" /\ traces' = 0
    /\ \/ UNCHANGED files
       \/ tree' \in {0, n + 1} /\ headCommit' = "start" /\ complete' = "none"
    /\ UNCHANGED <<task, setting, proc, watchers, escalate>>

\* A polling watcher that finds the task decided ends. It has or has not looked when the record is
\* replaced; until then a watcher that has ended is one that looks no more.
Polling(w, v) ==
    \E S \in SUBSET {e \in Dispatch : w[e] = "poll" /\ status # "working"} :
       v = [e \in Dispatch |-> IF e = n + 1 THEN "poll" ELSE IF e \in S THEN "end" ELSE w[e]]

\* spawn_background and register, which replaces the record; then the monitor and its watchers.
Spawn ==
    /\ setting
    /\ setting' = FALSE /\ n' = n + 1
    /\ status' = "working" /\ rec' = n + 1 /\ commit' = "none" /\ via' = "none" /\ traces' = 0
    /\ proc' = [proc EXCEPT ![n + 1] = "running"]
    /\ timeout' = [timeout EXCEPT ![n + 1] = "sleep"]
    /\ Polling(main, main') /\ Polling(sentinel, sentinel')
    /\ Polling(head, head') /\ Polling(stuck, stuck')
    /\ UNCHANGED <<task, found, escalate, files>>

\* The worktree stays and the record is whatever it was.
SpawnFails ==
    /\ "setup" \in Events
    /\ setting
    /\ setting' = FALSE /\ n' = n + 1
    /\ UNCHANGED <<task, record, proc, watchers, escalate, files>>

-----------------------------------------------------------------------------
(* The tracker. *)

\* Mutant: a task that is already terminal is decided again.
Mark_Again(s, c, w, tr) ==
    status' = s /\ commit' = c /\ via' = w /\ traces' = (IF tr /\ traces < 2 THEN traces + 1 ELSE traces)

\* mark_*: the first one wins; the caller emits its content trace exactly when it won.
Mark(s, c, w, tr) ==
    IF status # "working" THEN UNCHANGED <<status, commit, via, traces>>
    ELSE status' = s /\ commit' = c /\ via' = w /\ traces' = (IF tr THEN traces + 1 ELSE traces)

MarkFailed(s) == Mark(s, "none", "none", TRUE)

\* cancel: the verdict is claimed first, then SIGTERM by pid, then SIGKILL after a grace.
Cancel ==
    /\ "cancel" \in Events
    /\ status = "working"
    /\ status' = "cancelled"
    /\ escalate' = escalate \cup {rec}
    /\ UNCHANGED <<task, n, setting, rec, commit, via, traces, proc, watchers, files>>

Escalate(d) ==
    /\ d \in escalate
    /\ escalate' = escalate \ {d}
    /\ proc' = [proc EXCEPT ![d] = IF @ = "running" THEN "killed" ELSE @]
    /\ UNCHANGED <<task, n, setting, record, watchers, files>>

\* POST /abe/task-complete: the reported commit is HEAD, the starting one too.
TaskComplete ==
    /\ "route" \in Events
    /\ kind = "worktree" /\ rec # 0 /\ tree # 0
    /\ Mark("completed", headCommit, "route", FALSE)
    /\ UNCHANGED <<task, n, setting, rec, proc, watchers, escalate, files>>

-----------------------------------------------------------------------------
(* The worker. One whose worktree was removed can do nothing but exit. *)

Commits(d, c) ==
    /\ proc[d] = "running" /\ tree = d
    /\ headCommit' = c
    /\ UNCHANGED <<task, n, setting, record, proc, watchers, escalate, tree, complete>>

WritesSentinel(d) ==
    /\ proc[d] = "running" /\ tree = d /\ kind = "worktree"
    /\ \/ headCommit # "start" /\ complete' = headCommit
       \/ "bad_sentinel" \in Events /\ complete' = "bad"
    /\ UNCHANGED <<task, n, setting, record, proc, watchers, escalate, tree, headCommit>>

Exits(d, how) ==
    /\ proc[d] = "running"
    /\ proc' = [proc EXCEPT ![d] = how]
    /\ UNCHANGED <<task, n, setting, record, watchers, escalate, files>>

\* Who is in state w has given up its handle of the Child. The monitor of a plain dispatch waits for
\* the process; the polling watchers of a worktree dispatch end once they find the task decided.
Released(w) == w \in {"off", "end", "panicked"} \/ (w = "poll" /\ kind = "worktree" /\ status # "working")

\* No handle of the worker's Child is left: the record gave up its own when the task was decided, and
\* the timeout watcher keeps one until the worker has exited, unless it panics.
Orphaned(d) ==
    /\ proc[d] = "running" /\ (status # "working" \/ rec # d)
    /\ \A w \in {main[d], sentinel[d], head[d], stuck[d]} : Released(w)
    /\ timeout[d] \in {"off", "panicked"}

Quits(w, d) == [w EXCEPT ![d] = IF @ = "poll" THEN "end" ELSE @]

\* Mutant: a dropped Child runs on.
ChildDropped_Detaches(d) == Orphaned(d) /\ UNCHANGED vars

\* kill_on_drop: the last handle of the Child is gone.
ChildDropped(d) ==
    /\ Orphaned(d)
    /\ proc' = [proc EXCEPT ![d] = "killed"]
    /\ main' = Quits(main, d) /\ sentinel' = Quits(sentinel, d)
    /\ head' = Quits(head, d) /\ stuck' = Quits(stuck, d)
    /\ UNCHANGED <<task, n, setting, record, timeout, found, escalate, files>>

-----------------------------------------------------------------------------
(* The exit monitor. The timeout watcher holds the Child's lock during its grace. *)

Locked(d) == timeout[d] = "grace"

\* terminate_worker: SIGKILL at once.
Terminated(d) == proc' = [proc EXCEPT ![d] = IF @ = "running" THEN "killed" ELSE @]

MainSeesExit(d) ==
    /\ main[d] = "poll" /\ Exited(d) /\ ~Locked(d)
    /\ main' = [main EXCEPT ![d] = "exit"]
    /\ UNCHANGED <<task, n, setting, record, proc, timeout, sentinel, head, stuck, found, escalate, files>>

\* Waiting for the process fails.
MainWaitError(d) ==
    /\ "wait_error" \in Events
    /\ main[d] = "poll" /\ ~Locked(d)
    /\ MarkFailed("failed")
    /\ main' = [main EXCEPT ![d] = IF kind = "plain" THEN "end" ELSE "cleanup"]
    /\ UNCHANGED <<task, n, setting, rec, proc, timeout, sentinel, head, stuck, found, escalate, files>>

\* The plain monitor's own deadline: the worker is killed, then the task marked.
MainDeadline(d) ==
    /\ main[d] = "poll" /\ kind = "plain"
    /\ Terminated(d)
    /\ main' = [main EXCEPT ![d] = "timeout"]
    /\ UNCHANGED <<task, n, setting, record, timeout, sentinel, head, stuck, found, escalate, files>>

MainMarksTimeout(d) ==
    /\ main[d] = "timeout"
    /\ MarkFailed("timeout")
    /\ main' = [main EXCEPT ![d] = "end"]
    /\ UNCHANGED <<task, n, setting, rec, proc, timeout, sentinel, head, stuck, found, escalate, files>>

\* resolve_commit_outputs: HEAD, or "unknown" without a worktree.
Resolved == IF tree = 0 THEN "unknown" ELSE headCommit

\* Exit 0 with a new HEAD completes a plain task and sends a worktree task to validation; a missing
\* worktree counts as a new HEAD.
MainExit(d) ==
    /\ main[d] = "exit"
    /\ IF proc[d] = "exit0" /\ Resolved # "start"
       THEN IF kind = "plain"
            THEN Mark("completed", Resolved, "exit", TRUE) /\ main' = [main EXCEPT ![d] = "end"] /\ UNCHANGED found
            ELSE /\ main' = [main EXCEPT ![d] = "validate"] /\ found' = [found EXCEPT ![d] = Resolved]
                 /\ UNCHANGED <<status, commit, via, traces>>
       ELSE /\ MarkFailed("failed") /\ UNCHANGED found
            /\ main' = [main EXCEPT ![d] = IF kind = "plain" THEN "end" ELSE "cleanup"]
    /\ UNCHANGED <<task, n, setting, rec, proc, timeout, sentinel, head, stuck, escalate, files>>

\* Mutant: a commit is enough.
Validated_AnyCommit == tree # 0

\* validate_commit: scope, form, stub markers and the test command, in what is now at the path.
Validated == tree # 0 /\ headCommit = "valid"

\* The commit reported is the one resolved before the validation.
MainValidates(d) ==
    /\ main[d] = "validate"
    /\ IF Validated THEN Mark("completed", found[d], "exit", TRUE) /\ main' = [main EXCEPT ![d] = "end"]
                    ELSE MarkFailed("failed") /\ main' = [main EXCEPT ![d] = "cleanup"]
    /\ found' = [found EXCEPT ![d] = "none"]
    /\ UNCHANGED <<task, n, setting, rec, proc, timeout, sentinel, head, stuck, escalate, files>>

\* Mutant: git forgets the worktree and its files stay.
RemoveTree_KeepsFiles == IF keep THEN UNCHANGED files ELSE tree' = 0 /\ UNCHANGED <<headCommit, complete>>

\* cleanup_failed_worktree: whatever is at the path, whoever decided the task.
RemoveTree == IF keep THEN UNCHANGED files ELSE tree' = 0 /\ headCommit' = "start" /\ complete' = "none"

MainCleansUp(d) ==
    /\ main[d] = "cleanup"
    /\ RemoveTree
    /\ main' = [main EXCEPT ![d] = "end"]
    /\ UNCHANGED <<task, n, setting, record, proc, timeout, sentinel, head, stuck, found, escalate>>

Alive(w) == w \notin {"off", "panicked", "end"}

\* The bound on panics.
MayPanic(d) ==
    /\ "panic" \in Events
    /\ Cardinality({w \in 1..5 :
          <<main[d], timeout[d], sentinel[d], head[d], stuck[d]>>[w] = "panicked"}) < MaxPanics

\* The monitor panics, wherever it is. The supervisor of a plain dispatch marks the task; that of a
\* worktree dispatch does not exist.
MainPanics(d) ==
    /\ MayPanic(d) /\ Alive(main[d])
    /\ main' = [main EXCEPT ![d] = "panicked"]
    /\ UNCHANGED <<task, n, setting, record, proc, timeout, sentinel, head, stuck, found, escalate, files>>

\* So does a watcher, and nobody notices. What it locked is unlocked.
WatcherPanics(d) ==
    /\ MayPanic(d)
    /\ \/ /\ Alive(timeout[d]) /\ timeout' = [timeout EXCEPT ![d] = "panicked"]
          /\ UNCHANGED <<sentinel, head, stuck>>
       \/ /\ Alive(sentinel[d]) /\ sentinel' = [sentinel EXCEPT ![d] = "panicked"]
          /\ UNCHANGED <<timeout, head, stuck>>
       \/ /\ Alive(head[d]) /\ head' = [head EXCEPT ![d] = "panicked"]
          /\ UNCHANGED <<timeout, sentinel, stuck>>
       \/ /\ Alive(stuck[d]) /\ stuck' = [stuck EXCEPT ![d] = "panicked"]
          /\ UNCHANGED <<timeout, sentinel, head>>
    /\ UNCHANGED <<task, n, setting, record, proc, main, found, escalate, files>>

\* Mutant: the supervisor does not report a panic.
Supervise_Silent(d) ==
    /\ main[d] = "panicked" /\ kind = "plain"
    /\ main' = [main EXCEPT ![d] = "end"]
    /\ UNCHANGED <<task, n, setting, record, proc, timeout, sentinel, head, stuck, found, escalate, files>>

Supervise(d) ==
    /\ main[d] = "panicked" /\ kind = "plain"
    /\ Mark("failed", "none", "none", FALSE)
    /\ main' = [main EXCEPT ![d] = "end"]
    /\ UNCHANGED <<task, n, setting, rec, proc, timeout, sentinel, head, stuck, found, escalate, files>>

-----------------------------------------------------------------------------
(* enforce_timeout and its watcher. *)

TimeoutFires(d) ==
    /\ timeout[d] = "sleep"
    /\ timeout' = [timeout EXCEPT ![d] = IF Exited(d) THEN "end" ELSE "grace"]
    /\ UNCHANGED <<task, n, setting, record, proc, main, sentinel, head, stuck, found, escalate, files>>

\* Mutant: the worker is not looked at again after the grace.
TimeoutGrace_NoRecheck(d) ==
    /\ timeout[d] = "grace"
    /\ timeout' = [timeout EXCEPT ![d] = "mark"]
    /\ proc' = [proc EXCEPT ![d] = IF @ = "running" THEN "timedout" ELSE @]
    /\ UNCHANGED <<task, n, setting, record, main, sentinel, head, stuck, found, escalate, files>>

\* A worker that ended during the grace is left to the monitor; another is killed.
TimeoutGrace(d) ==
    /\ timeout[d] = "grace"
    /\ timeout' = [timeout EXCEPT ![d] = IF Exited(d) THEN "end" ELSE "mark"]
    /\ proc' = [proc EXCEPT ![d] = IF @ = "running" THEN "timedout" ELSE @]
    /\ UNCHANGED <<task, n, setting, record, main, sentinel, head, stuck, found, escalate, files>>

TimeoutMarks(d) ==
    /\ timeout[d] = "mark"
    /\ MarkFailed("timeout")
    /\ timeout' = [timeout EXCEPT ![d] = "cleanup"]
    /\ UNCHANGED <<task, n, setting, rec, proc, main, sentinel, head, stuck, found, escalate, files>>

TimeoutCleansUp(d) ==
    /\ timeout[d] = "cleanup"
    /\ RemoveTree
    /\ timeout' = [timeout EXCEPT ![d] = "end"]
    /\ UNCHANGED <<task, n, setting, record, proc, main, sentinel, head, stuck, found, escalate>>

-----------------------------------------------------------------------------
(* The sentinel and HEAD watchers: look, resolve the commit and mark, then kill the worker. *)

SentinelLooks(d) ==
    /\ sentinel[d] = "poll"
    /\ status = "working" /\ tree # 0 /\ headCommit # "start" /\ complete = headCommit
    /\ sentinel' = [sentinel EXCEPT ![d] = "mark"]
    /\ UNCHANGED <<task, n, setting, record, proc, main, timeout, head, stuck, found, escalate, files>>

\* HEAD is read again.
SentinelMarks(d) ==
    /\ sentinel[d] = "mark"
    /\ IF Resolved = "start"
       THEN sentinel' = [sentinel EXCEPT ![d] = "poll"] /\ UNCHANGED <<status, commit, via, traces>>
       ELSE Mark("completed", Resolved, "sentinel", TRUE) /\ sentinel' = [sentinel EXCEPT ![d] = "kill"]
    /\ UNCHANGED <<task, n, setting, rec, proc, main, timeout, head, stuck, found, escalate, files>>

SentinelKills(d) ==
    /\ sentinel[d] = "kill" /\ ~Locked(d)
    /\ Terminated(d)
    /\ sentinel' = [sentinel EXCEPT ![d] = "end"]
    /\ UNCHANGED <<task, n, setting, record, main, timeout, head, stuck, found, escalate, files>>

HeadLooks(d) ==
    /\ head[d] = "poll"
    /\ status = "working" /\ tree # 0 /\ headCommit \in RightForm
    /\ head' = [head EXCEPT ![d] = "mark"]
    /\ UNCHANGED <<task, n, setting, record, proc, main, timeout, sentinel, stuck, found, escalate, files>>

HeadMarks(d) ==
    /\ head[d] = "mark"
    /\ IF Resolved = "start"
       THEN head' = [head EXCEPT ![d] = "poll"] /\ UNCHANGED <<status, commit, via, traces>>
       ELSE Mark("completed", Resolved, "head", TRUE) /\ head' = [head EXCEPT ![d] = "kill"]
    /\ UNCHANGED <<task, n, setting, rec, proc, main, timeout, sentinel, stuck, found, escalate, files>>

HeadKills(d) ==
    /\ head[d] = "kill" /\ ~Locked(d)
    /\ Terminated(d)
    /\ head' = [head EXCEPT ![d] = "end"]
    /\ UNCHANGED <<task, n, setting, record, main, timeout, sentinel, stuck, found, escalate, files>>

-----------------------------------------------------------------------------
(* The stuck watcher: 180 s without a change under the worktree. *)

StuckLooks(d) ==
    /\ stuck[d] = "poll" /\ status = "working"
    /\ stuck' = [stuck EXCEPT ![d] = "mark"]
    /\ UNCHANGED <<task, n, setting, record, proc, main, timeout, sentinel, head, found, escalate, files>>

\* mark_stuck refuses while the sentinel exists; the watcher goes on either way.
StuckMarks(d) ==
    /\ stuck[d] = "mark"
    /\ IF complete # "none" THEN UNCHANGED <<status, commit, via, traces>> ELSE MarkFailed("stuck")
    /\ stuck' = [stuck EXCEPT ![d] = "kill"]
    /\ UNCHANGED <<task, n, setting, rec, proc, main, timeout, sentinel, head, found, escalate, files>>

StuckKills(d) ==
    /\ stuck[d] = "kill" /\ ~Locked(d)
    /\ Terminated(d)
    /\ stuck' = [stuck EXCEPT ![d] = "cleanup"]
    /\ UNCHANGED <<task, n, setting, record, main, timeout, sentinel, head, found, escalate, files>>

StuckCleansUp(d) ==
    /\ stuck[d] = "cleanup"
    /\ RemoveTree
    /\ stuck' = [stuck EXCEPT ![d] = "end"]
    /\ UNCHANGED <<task, n, setting, record, proc, main, timeout, sentinel, head, found, escalate>>

-----------------------------------------------------------------------------
Dispatching == DispatchPlain \/ Setup \/ SetupFails \/ Spawn \/ SpawnFails

Worker(d) ==
    \/ WritesSentinel(d)
    \/ \E c \in Commit : Commits(d, c)
    \/ \E how \in {"exit0", "exit1"} : Exits(d, how)

Monitor(d) ==
    \/ MainSeesExit(d) \/ MainDeadline(d) \/ MainMarksTimeout(d)
    \/ MainExit(d) \/ MainValidates(d) \/ MainCleansUp(d) \/ Supervise(d)
Timeout(d)  == TimeoutFires(d) \/ TimeoutGrace(d) \/ TimeoutMarks(d) \/ TimeoutCleansUp(d)
Sentinel(d) == SentinelLooks(d) \/ SentinelMarks(d) \/ SentinelKills(d)
Head(d)     == HeadLooks(d) \/ HeadMarks(d) \/ HeadKills(d)
Stuck(d)    == StuckLooks(d) \/ StuckMarks(d) \/ StuckKills(d) \/ StuckCleansUp(d)

Next ==
    \/ Dispatching \/ Cancel \/ TaskComplete
    \/ \E d \in Dispatch :
          \/ Worker(d) \/ Monitor(d) \/ Timeout(d) \/ Sentinel(d) \/ Head(d) \/ Stuck(d)
          \/ Escalate(d) \/ ChildDropped(d) \/ MainWaitError(d)
          \/ MainPanics(d) \/ WatcherPanics(d)

\* Nothing is written at the path any more: it will have been quiet for 180 s.
Idle == \A e \in Dispatch : proc[e] # "running"

\* The daemon's tasks and timers run; a worker owes nothing, and may keep the stuck watcher waiting.
Fairness ==
    \A d \in Dispatch :
       /\ WF_vars(Monitor(d)) /\ WF_vars(Timeout(d))
       /\ WF_vars(Sentinel(d)) /\ WF_vars(Head(d))
       /\ WF_vars(Idle /\ StuckLooks(d))
       /\ WF_vars(StuckMarks(d) \/ StuckKills(d) \/ StuckCleansUp(d))
       /\ WF_vars(Escalate(d)) /\ WF_vars(ChildDropped(d))

Spec == Init /\ [][Next]_vars
FairSpec == Spec /\ Fairness

-----------------------------------------------------------------------------
(* Properties *)

\* However many watchers, routes, cancels and dispatches race, a record gets at most one content
\* trace, and a cancelled task none: the mark_* that lost the race stays silent.
OneVerdict == traces <= 1 /\ (status = "cancelled" => traces = 0)

\* A worktree task that was dispatched once is `timeout` only if its worker outlived the grace and
\* was killed for it: one that ended meanwhile is left to the exit monitor.
TimeoutIsReal ==
    status = "timeout" /\ kind = "worktree" /\ n = 1 => proc[1] = "timedout"

\* The exit monitor completes a worktree task that was dispatched once only with a commit that passed
\* validation, also when another watcher removes the worktree, or the next dispatch begins to replace
\* it, between the look at HEAD and the validation.
ExitCompletesValidated ==
    status = "completed" /\ via = "exit" /\ kind = "worktree" /\ n = 1 => commit = "valid"

\* The same however often the task is dispatched: the commit an exit monitor reports is one it has
\* validated after its worker exited, "outside the worker's control". Refuted: the monitor of an earlier
\* dispatch resolves one commit of the worker that took its path, validates a later one, and completes
\* the new record with the first.
ReportedIsValidated ==
    status = "completed" /\ via = "exit" /\ kind = "worktree" => commit = "valid"

\* No commit leaves before the daemon has validated it ("The daemon must independently validate every
\* commit AFTER the worker exits"). Refuted: the HEAD watcher completes a task on the subject line of
\* the commit, the sentinel watcher and POST /abe/task-complete on less.
CompletedMeansValidated == status = "completed" /\ kind = "worktree" => commit = "valid"

\* A task that is being worked on is decided in the end, whatever its worker does: a plain one also when
\* its monitor panics, a worktree one unless its exit monitor or its timeout watcher does; that the
\* sentinel, HEAD or stuck watcher does not matter.
EventuallyDecided ==
    status = "working" ~>
        status # "working" \/ (kind = "worktree" /\ "panicked" \in {main[rec], timeout[rec]})

\* One watcher's panic costs a worktree task the right verdict, never the verdict ("the timeout watcher
\* eventually marks the task `timeout`", "nothing vanishes"): here the panic of the exit monitor.
\* Refuted: the timeout watcher leaves a worker that has exited to the monitor, and the stuck watcher
\* one that has written a sentinel to the sentinel watcher, whose files it then removes.
PanicIsDecided ==
    \A d \in Dispatch :
       kind = "worktree" /\ status = "working" /\ rec = d /\ main[d] = "panicked" ~>
          \/ status # "working" \/ rec # d
          \/ "panicked" \in {timeout[d], sentinel[d], head[d], stuck[d]}

\* The worker of a decided or superseded dispatch does not run forever, also one that ignores
\* SIGTERM or that no watcher was told to stop.
EventuallyStopped ==
    \A d \in Dispatch : proc[d] = "running" /\ (status # "working" \/ rec # d) ~> proc[d] # "running"

====
