----------------------------- MODULE AgyBreaker -----------------------------
(***************************************************************************)
(* The circuit breaker and the concurrency cap that every call of agy      *)
(* passes (crates/mcp-bridge/src/agy_resilience.rs), with its three kinds  *)
(* of callers:                                                             *)
(*   asks      ask_agent (triumvirate/src/agent_exec.rs) through the retry *)
(*             loop of run_agy_cli_process_with_session (agy.rs),          *)
(*   fleets    gemini members of a fleet (fleet/src/orchestrator.rs), which*)
(*             launch agy themselves, once, and see an exit status only,   *)
(*   watchers  breaker_probe and the health probe (agy.rs), which run the  *)
(*             same loop as observers.                                     *)
(* The breaker is one struct under one mutex, so each of its methods is    *)
(* atomic; the callers ask it, wait, run agy and report to it much later.  *)
(*                                                                         *)
(* Simplifications: time is the order of events. The cooldown of an open   *)
(* breaker may end at any moment, the lease of a half-open one once its    *)
(* probe is gone or is a fleet member, which alone may outlive it: an ask  *)
(* ends by its deadline (connector timeout + 15 s) and the lease is at     *)
(* least three connector timeouts. The rate limiter only delays. A refused *)
(* call takes the degraded route, which agy has no part in: no step.       *)
(***************************************************************************)
EXTENDS Naturals, FiniteSets

CONSTANTS
    Asks, Fleets, Watchers,     \* callers; each makes one call after the other
    Slots,                      \* agy_max_concurrent
    Threshold,                  \* breaker_threshold
    Backoffs,                   \* length of the quota backoff schedule
    MaxOpens,                   \* bound: opens after which open_count no longer grows
    None

Loop    == Asks \cup Watchers   \* run through the retry loop
Traffic == Asks \cup Fleets     \* BreakerRole::Traffic
Caller  == Asks \cup Fleets \cup Watchers

ASSUME AgyAssumption ==
    /\ IsFiniteSet(Caller) /\ None \notin Caller
    /\ Asks \cap Fleets = {} /\ Asks \cap Watchers = {} /\ Fleets \cap Watchers = {}
    /\ Slots \in Nat \ {0} /\ Threshold \in Nat \ {0} /\ Backoffs \in Nat /\ MaxOpens \in Nat \ {0}

VARIABLES
    (* BreakerState. *)
    phase, consecutive, openCount,
    inflight,       \* half_open_inflight
    due,            \* the cooldown (open) or the lease (half open) is over
    holder,         \* whose call set half_open_since
    (* The semaphore. *)
    permits,
    (* Per caller: where its call is, attempt_idx, backoffs used, class of last_err. *)
    stage, tries, waits, err,
    (* The world: from some moment on every call is answered in time and its answer is kept. *)
    well,
    (* History: the callers let in by the half-open breaker of now, since it last opened or a lease *)
    (* ended, and how often each one started agy under the breaker that is open now (2: twice or    *)
    (* more).                                                                                       *)
    admitted, late

breaker == <<phase, consecutive, openCount, inflight, due, holder, admitted, late>>
call    == <<stage, tries, waits, err>>
vars    == <<breaker, permits, call, well>>

Holding == {"rate", "run", "after"}     \* stages that hold a permit

NoneLate == [c \in Caller |-> 0]

TypeOK ==
    /\ phase \in {"closed", "open", "half_open"}
    /\ consecutive \in 0..Threshold /\ openCount \in 0..MaxOpens
    /\ inflight \in BOOLEAN /\ due \in BOOLEAN
    /\ holder \in Caller \cup {None}
    /\ permits \in 0..Slots
    /\ stage \in [Caller -> {"idle", "queue", "rate", "run", "retry", "answered", "failed", "after"}]
    /\ tries \in [Caller -> 0..Backoffs + 2] /\ waits \in [Caller -> 0..Backoffs]
    /\ err \in [Caller -> {"none", "quota", "other"}]
    /\ well \in BOOLEAN
    /\ admitted \subseteq Caller /\ late \in [Caller -> 0..2]

Init ==
    /\ phase = "closed" /\ consecutive = 0 /\ openCount = 0
    /\ inflight = FALSE /\ due = FALSE /\ holder = None
    /\ permits = Slots
    /\ stage = [c \in Caller |-> "idle"]
    /\ tries = [c \in Caller |-> 0] /\ waits = [c \in Caller |-> 0]
    /\ err = [c \in Caller |-> "none"]
    /\ well = FALSE
    /\ admitted = {} /\ late = NoneLate

-----------------------------------------------------------------------------
(* BreakerState: what its methods do. *)

ShouldSkip_Stampede == phase = "open" /\ ~due

ShouldSkip_NoLease ==
    \/ phase = "open" /\ ~due
    \/ phase = "half_open" /\ inflight

ShouldSkip ==
    \/ phase = "open" /\ ~due
    \/ phase = "half_open" /\ inflight /\ ~due

\* should_skip lets c in: past the cooldown or the lease, c becomes the one probe.
LetIn(c) ==
    /\ ~ShouldSkip
    /\ IF phase = "closed"
       THEN UNCHANGED breaker
       ELSE /\ phase' = "half_open" /\ inflight' = TRUE /\ due' = FALSE /\ holder' = c
            /\ admitted' = (IF due THEN {} ELSE admitted) \cup {c}
            /\ late' = NoneLate
            /\ UNCHANGED <<consecutive, openCount>>

RecordSuccess ==
    /\ phase' = "closed" /\ consecutive' = 0 /\ openCount' = 0
    /\ inflight' = FALSE /\ due' = FALSE /\ holder' = None
    /\ admitted' = {} /\ late' = NoneLate

\* A new open period; calls that are under way, a probe among them, are not looked at.
Trip ==
    /\ openCount' = IF openCount < MaxOpens THEN openCount + 1 ELSE openCount
    /\ phase' = "open" /\ consecutive' = 0
    /\ inflight' = FALSE /\ due' = FALSE /\ holder' = None
    /\ admitted' = {} /\ late' = NoneLate

\* A failure that trips a closed breaker at `bar`, and a half-open one at once.
RecordFailure(bar) ==
    \/ phase = "open" /\ UNCHANGED breaker
    \/ phase = "half_open" /\ Trip
    \/ phase = "closed" /\ consecutive + 1 >= bar /\ Trip
    \/ /\ phase = "closed" /\ consecutive + 1 < bar
       /\ consecutive' = consecutive + 1
       /\ UNCHANGED <<phase, openCount, inflight, due, holder, admitted, late>>

RecordQuota == RecordFailure(Threshold)
RecordOther == RecordFailure(Threshold + 1)

\* The cooldown or the lease runs out.
TimeUp ==
    /\ ~due
    /\ \/ phase = "open"
       \/ phase = "half_open" /\ (holder \in Fleets \/ stage[holder] = "idle")
    /\ due' = TRUE
    /\ UNCHANGED <<phase, consecutive, openCount, inflight, holder, admitted, late, permits, call, well>>

-----------------------------------------------------------------------------
(* The steps all calls share. *)

Goes(c, s) == stage' = [stage EXCEPT ![c] = s]

\* A call returns to its caller: the permit it may hold is dropped with it.
Ends(c) ==
    /\ Goes(c, "idle")
    /\ tries' = [tries EXCEPT ![c] = 0] /\ waits' = [waits EXCEPT ![c] = 0]
    /\ err' = [err EXCEPT ![c] = "none"]
    /\ permits' = permits + (IF stage[c] \in Holding THEN 1 ELSE 0)

\* ask_agent and the worker body ask the breaker first, a watcher does not.
Start(c) ==
    /\ stage[c] = "idle"
    /\ IF c \in Traffic THEN LetIn(c) ELSE UNCHANGED breaker
    /\ Goes(c, "queue")
    /\ UNCHANGED <<tries, waits, err, permits, well>>

\* agy_acquire_slot; what let the call in was decided before the wait.
TakeSlot(c) ==
    /\ stage[c] = "queue" /\ permits > 0
    /\ permits' = permits - 1
    /\ tries' = [tries EXCEPT ![c] = @ + 1]
    /\ Goes(c, "rate")
    /\ UNCHANGED <<breaker, waits, err, well>>

\* agy_rate_limit grants the call, and agy is started.
Launch(c) ==
    /\ stage[c] = "rate"
    /\ Goes(c, "run")
    /\ late' = IF phase = "open" /\ late[c] < 2 THEN [late EXCEPT ![c] = @ + 1] ELSE late
    /\ UNCHANGED <<phase, consecutive, openCount, inflight, due, holder, admitted, tries, waits, err,
                   permits, well>>

-----------------------------------------------------------------------------
(* run_agy_cli_process_with_session. *)

\* An attempt ends: its permit is dropped before anything else happens.
Attempted(c, s, e) ==
    /\ stage[c] = "run"
    /\ Goes(c, s) /\ err' = [err EXCEPT ![c] = e]
    /\ permits' = permits + 1
    /\ UNCHANGED <<tries, well>>

Answer(c) ==
    /\ c \in Loop
    /\ Attempted(c, "answered", "none")
    /\ UNCHANGED <<breaker, waits>>

\* A timeout, no output or a truncated stream: the next attempt, if one is left.
Empty(c) ==
    /\ c \in Loop /\ ~well
    /\ Attempted(c, "retry", "other")
    /\ UNCHANGED <<breaker, waits>>

\* Feeds the breaker when the call is traffic.
Feeds(c, Record) == IF c \in Traffic THEN Record ELSE UNCHANGED breaker

\* A 429 with a backoff left: the breaker is told and the call tries once more.
QuotaBackoff(c) ==
    /\ c \in Loop /\ ~well /\ waits[c] < Backoffs
    /\ Attempted(c, "retry", "quota")
    /\ waits' = [waits EXCEPT ![c] = @ + 1]
    /\ Feeds(c, RecordQuota)

\* A 429 when the schedule is used up: without output it is counted and then treated as no
\* output, with a non-zero exit it ends the call.
QuotaLast(c) ==
    /\ c \in Loop /\ ~well /\ waits[c] = Backoffs
    /\ \/ Attempted(c, "retry", "other") /\ Feeds(c, RecordQuota)
       \/ Attempted(c, "failed", "quota") /\ UNCHANGED breaker
    /\ UNCHANGED waits

\* Any other exit, agy that cannot be started, an action it refused: no retry.
Broken(c) ==
    /\ c \in Loop /\ ~well
    /\ Attempted(c, "failed", "other")
    /\ UNCHANGED <<breaker, waits>>

\* An oversized prompt or the wrong version ends a call before its first attempt.
Refused(c) ==
    /\ c \in Loop /\ ~well /\ stage[c] = "queue" /\ tries[c] = 0
    /\ Goes(c, "failed") /\ err' = [err EXCEPT ![c] = "other"]
    /\ UNCHANGED <<breaker, tries, waits, permits, well>>

Deadline_KeepsSlot(c) ==
    /\ c \in Loop /\ ~well /\ stage[c] \in {"queue", "rate"}
    /\ Goes(c, "failed")
    /\ err' = [err EXCEPT ![c] = IF @ = "none" THEN "other" ELSE @]
    /\ UNCHANGED <<breaker, tries, waits, permits, well>>

\* The overall deadline passes in the queue or at the rate limiter.
Deadline(c) ==
    /\ c \in Loop /\ ~well /\ stage[c] \in {"queue", "rate"}
    /\ Goes(c, "failed")
    /\ err' = [err EXCEPT ![c] = IF @ = "none" THEN "other" ELSE @]
    /\ permits' = permits + (IF stage[c] = "rate" THEN 1 ELSE 0)
    /\ UNCHANGED <<breaker, tries, waits, well>>

Spent_OneMore(c) == tries[c] > 2 + waits[c]

Spent(c) == tries[c] >= 2 + waits[c]

Retry_Unasked(c) ==
    /\ stage[c] = "retry"
    /\ Goes(c, IF Spent(c) THEN "failed" ELSE "queue")
    /\ UNCHANGED <<breaker, tries, waits, err, permits, well>>

\* The top of the loop. Traffic asks the breaker again; a refusal reads as a quota failure. The
\* deadline is looked at after that.
Retry(c) ==
    /\ stage[c] = "retry"
    /\ \/ /\ Spent(c)
          /\ Goes(c, "failed") /\ UNCHANGED <<breaker, err>>
       \/ /\ ~Spent(c) /\ c \in Traffic /\ ShouldSkip
          /\ Goes(c, "failed") /\ err' = [err EXCEPT ![c] = "quota"]
          /\ UNCHANGED breaker
       \/ /\ ~Spent(c)
          /\ IF c \in Traffic THEN LetIn(c) ELSE UNCHANGED breaker
          /\ Goes(c, "failed") \/ Goes(c, "queue")
          /\ UNCHANGED err
    /\ UNCHANGED <<tries, waits, permits, well>>

-----------------------------------------------------------------------------
(* What the callers report. *)

\* ask_agent: the answer passes the sight gate.
AskSucceeds(c) ==
    /\ c \in Asks /\ stage[c] = "answered"
    /\ RecordSuccess /\ Ends(c)
    /\ UNCHANGED well

AskFails(c) ==
    /\ c \in Asks /\ stage[c] = "failed"
    /\ IF err[c] = "quota" THEN RecordQuota ELSE RecordOther
    /\ Ends(c)
    /\ UNCHANGED well

\* The sight gate rejects the answer, or the client goes away and the future is dropped: nothing
\* is reported.
AskUnreported(c) ==
    /\ c \in Asks /\ ~well /\ stage[c] # "idle"
    /\ Ends(c)
    /\ UNCHANGED <<breaker, well>>

\* breaker_probe closes the breaker on the exact answer; any other outcome changes nothing.
WatchEnds(c) ==
    /\ c \in Watchers /\ stage[c] \in {"answered", "failed"}
    /\ \/ stage[c] = "answered" /\ RecordSuccess
       \/ UNCHANGED breaker
    /\ Ends(c)
    /\ UNCHANGED well

\* A fleet member: committed work is a success, an exit status or a timeout a failure. The body keeps
\* its slot until it returns, through the codex attempt of the degraded route and the merge phase.
FleetSucceeds(c) ==
    /\ c \in Fleets /\ stage[c] = "run"
    /\ RecordSuccess /\ Goes(c, "after")
    /\ UNCHANGED <<tries, waits, err, permits, well>>

FleetFails(c) ==
    /\ c \in Fleets /\ stage[c] = "run" /\ ~well
    /\ RecordOther /\ Goes(c, "after")
    /\ UNCHANGED <<tries, waits, err, permits, well>>

\* Cancelled before or after the launch, not started, panicked, work rejected: nothing is reported.
FleetUnreported(c) ==
    /\ c \in Fleets /\ ~well /\ stage[c] \in {"rate", "run"}
    /\ Goes(c, "after")
    /\ UNCHANGED <<breaker, tries, waits, err, permits, well>>

FleetReturns(c) ==
    /\ c \in Fleets /\ stage[c] = "after"
    /\ Ends(c)
    /\ UNCHANGED <<breaker, well>>

Heal ==
    /\ ~well /\ well' = TRUE
    /\ UNCHANGED <<breaker, permits, call>>

Next ==
    \/ TimeUp \/ Heal
    \/ \E c \in Caller :
          \/ Start(c) \/ TakeSlot(c) \/ Launch(c)
          \/ Answer(c) \/ Empty(c) \/ QuotaBackoff(c) \/ QuotaLast(c) \/ Broken(c)
          \/ Refused(c) \/ Deadline(c) \/ Retry(c)
          \/ AskSucceeds(c) \/ AskFails(c) \/ AskUnreported(c) \/ WatchEnds(c)
          \/ FleetSucceeds(c) \/ FleetFails(c) \/ FleetUnreported(c) \/ FleetReturns(c)

Spec == Init /\ [][Next]_vars

\* A call moves on once it is let in: agy is killed at its timeout, and a worker body returns.
Steps(c) ==
    \/ Launch(c) \/ Answer(c) \/ Retry(c)
    \/ AskSucceeds(c) \/ AskFails(c) \/ WatchEnds(c) \/ FleetSucceeds(c) \/ FleetReturns(c)

\* Timers expire, somebody asks, the semaphore is first come first served, and calls move.
Fairness ==
    /\ WF_vars(TimeUp)
    /\ WF_vars(\E c \in Traffic : Start(c))
    /\ \A c \in Caller : SF_vars(TakeSlot(c)) /\ WF_vars(Steps(c))

FairSpec == Spec /\ Fairness

-----------------------------------------------------------------------------
(* Properties. *)

\* Of all callers that ask a breaker whose cooldown is over one gets in, and no other in the same
\* half-open period: until somebody's outcome ends the period or the probe's lease ends (should_skip:
\* "no stampede"). Outside such a period the breaker has no probe on its books, and a closed one no
\* opens. A probe of an earlier period may still be under way: that is module AgyProbes.
NoStampede ==
    /\ phase = "half_open" => inflight /\ holder # None /\ admitted = {holder}
    /\ phase # "half_open" => ~inflight /\ holder = None /\ admitted = {}
    /\ phase = "closed" <=> openCount = 0

\* What a caller was told is stale when it gets its slot: it may start agy although the breaker has
\* opened meanwhile. It does so at most once before it asks again, however often it retries.
OpenSpendsOnce == phase = "open" => \A c \in Traffic : late[c] <= 1

\* No way out of a call keeps its slot: not a deadline at the rate limiter, not a dropped request, a
\* backoff or a panic (agy_acquire_slot, whose permits bound all callers together).
PermitsConserved == permits + Cardinality({c \in Caller : stage[c] \in Holding}) = Slots

\* Once agy answers again the breaker closes, whatever was going on before: a probe that was dropped
\* or rejected and never reported must not wedge it (half_open_lease), nor a straggler's failure.
Recovers == well ~> phase = "closed"

=============================================================================
