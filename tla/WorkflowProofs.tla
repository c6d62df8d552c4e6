--------------------------- MODULE WorkflowProofs ---------------------------
(***************************************************************************)
(* What module FleetWorkflow promises for any number of members and        *)
(* daemons: its types, which include that no member gets a third attempt;  *)
(* that one agent works for a member at a time; that an abort which        *)
(* reports success leaves none; and that an outcome the workflow knows     *)
(* reaches the ledger. TLC checks these for one member; that what happens  *)
(* to one member leaves another alone is shown here.                       *)
(***************************************************************************)
EXTENDS FleetWorkflow, FiniteSetTheorems, TLAPS

Idle == \A m \in Member : act[m] = "idle"
Past == wf \notin {"new", "prepare", "members"}

\* Nothing is known of a member before its activity is opened, and the last attempt of an open
\* activity has not been given up: the next attempt, if there is one, is within the limit.
AttemptInv ==
    /\ wf \in {"new", "prepare"} \/ prep = "run" => Idle
    /\ \A x \in Run : act[x[1]] = "idle" => apc[x] = "none" /\ x \notin lost
    /\ \A m \in Member : act[m] = "open" => <<m, MaxAttempts>> \notin lost

\* Outcomes are recorded once all members have answered, over rows nobody else has decided. Past
\* that point no activity is open, and every outcome is recorded unless a write was given up.
LedgerInv ==
    /\ recorded # {} => Joined
    /\ wf = "members" => \A m \in Member \ recorded : task[m] = "in_progress"
    /\ \A m \in recorded : act[m] = "committed" => task[m] = "done"
    /\ Past => Idle \/ Joined
    /\ Past /\ Joined /\ ~unwritten => ToRecord = {}

\* An attempt that watches a worker knows its run.
WatchInv == \A x \in Run : apc[x] \in {"watch", "stall"} => watch[x] # 0

\* Where the two attempts of a member are, against its token and its shims. A second attempt exists
\* only when the first was given up, past its launch (or else the member is excused), and it launches
\* only when the first one's shim is gone: a live one is named by the token and adopted.
AgentInv ==
    /\ \A x \in Run : apc[x] # "none" \/ x \in lost => x[2] <= attempt[x[1]]
    /\ \A m \in Member : attempt[m] = 2 => <<m, 1>> \in lost
    /\ \A m \in Member \ excused : <<m, 1>> \in lost => apc[<<m, 1>>] \notin Launching /\ shim[<<m, 1>>] # "starting"
    /\ \A x \in Run : apc[x] \in {"none"} \cup (Launching \ {"await"}) => shim[x] = "none"
    /\ \A x \in Run : shim[x] = "starting" => apc[x] \in {"await", "ended", "dead"}
    /\ \A x \in Run : token[x[1]] = x[2] => shim[x] \notin {"none", "starting"}
    /\ \A x \in Run : Verified(x) => token[x[1]] # 0
    /\ \A x \in Run : shim[x] = "orphan" => x[1] \in excused
    /\ \A m \in Member \ excused :
          apc[<<m, 2>>] \in Launching \ {"decide", "wait"} \/ shim[<<m, 2>>] # "none"
             => shim[<<m, 1>>] \notin {"starting", "ready", "running"}

\* A member that has an answer is launching nothing, unless the workflow was told of a cancellation
\* before the attempt had answered. (An attempt given up on may still be watching.)
Settled(m) == act[m] \notin {"idle", "open"}
NotLaunching(m) == \A a \in 1..MaxAttempts : apc[<<m, a>>] \notin Launching /\ shim[<<m, a>>] # "starting"
Alive == {"starting", "ready", "running"}

\* What an abort relies on: the token names the live shim, so stopping what tokens name stops every
\* shim there is; and no attempt that is still to launch is left behind to start another one.
StopInv ==
    /\ \A x \in Run : Verified(x) /\ x[1] \notin excused => token[x[1]] = x[2]
    /\ ~early => \A m \in Member \ excused : Settled(m) => NotLaunching(m)
    /\ wf \in {"failed", "cancelled"} /\ ~early =>
          \A m \in Member \ excused : \A a \in 1..MaxAttempts : shim[<<m, a>>] \notin Alive

IInv == TypeOK /\ AttemptInv /\ WatchInv /\ LedgerInv

USE WorkflowAssumption DEF Member, Daemon, MaxAttempts, Run

Act == {"idle", "open", "committed", "bad", "cancelled"}

-----------------------------------------------------------------------------
(* Activities are answered, never opened: an answer changes the result of an open one only. *)
Settles == \A m \in Member : act'[m] = act[m] \/ (act[m] = "open" /\ act'[m] \in {"committed", "bad", "cancelled"})

ledger == <<wf, prep, recorded, task, unwritten>>

LEMMA MemberExists == 1 \in Member
OBVIOUS

LEMMA LedgerKept ==
  ASSUME IInv, Settles, UNCHANGED ledger
  PROVE  LedgerInv'
<1> USE DEF ledger
<1>1. Joined => Joined' /\ \A m \in Member : act'[m] = act[m]
  BY DEF Settles, Joined
<1>2. Idle => Idle' /\ \A m \in Member : act'[m] = act[m]
  BY DEF Settles, Idle
<1>3. recorded' # {} => Joined'
  BY <1>1 DEF IInv, LedgerInv
<1>4. wf' = "members" => \A m \in Member \ recorded' : task'[m] = "in_progress"
  BY DEF IInv, LedgerInv
<1>5. \A m \in recorded' : act'[m] = "committed" => task'[m] = "done"
  BY <1>1 DEF IInv, LedgerInv, TypeOK
<1>6. Past' => Idle' \/ Joined'
  BY <1>1, <1>2 DEF IInv, LedgerInv, Past
<1>7. Past' /\ Joined' /\ ~unwritten' => ToRecord' = {}
  <2> SUFFICES ASSUME Past', Joined', ~unwritten' PROVE ToRecord' = {}
    OBVIOUS
  <2>1. ~Idle
    BY <1>2, MemberExists DEF Joined, Idle
  <2>2. Joined /\ Past
    BY <2>1 DEF IInv, LedgerInv, Past
  <2>3. ToRecord = {}
    BY <2>2 DEF IInv, LedgerInv
  <2>4. QED
    BY <1>1, <2>2, <2>3 DEF ToRecord
<1>8. QED
  BY <1>3, <1>4, <1>5, <1>6, <1>7 DEF LedgerInv

(* What an attempt may do, when it does not lose or start one. *)
LEMMA AttemptKept ==
  ASSUME IInv, Settles, UNCHANGED <<wf, prep>>, apc' \in [Run -> AttemptPoint],
         \A x \in Run : apc[x] = "none" => apc'[x] = "none",
         \A x \in Run : x \in lost' => x \in lost \/ (apc[x] # "none" /\ act[x[1]] # "idle" /\ (x[2] = MaxAttempts => act'[x[1]] # "open"))
  PROVE  AttemptInv'
<1>1. \A m \in Member : (act[m] = "idle") <=> (act'[m] = "idle")
  BY DEF Settles
<1>2. wf' \in {"new", "prepare"} \/ prep' = "run" => Idle'
  BY <1>1 DEF IInv, AttemptInv, Idle
<1>3. ASSUME NEW x \in Run, act'[x[1]] = "idle" PROVE apc'[x] = "none" /\ x \notin lost'
  <2>1. x[1] \in Member
    OBVIOUS
  <2>2. act[x[1]] = "idle"
    BY <1>1, <1>3, <2>1
  <2>3. QED
    BY <2>2 DEF IInv, AttemptInv
<1>4. ASSUME NEW m \in Member, act'[m] = "open" PROVE <<m, MaxAttempts>> \notin lost'
  <2>1. act[m] = "open"
    BY <1>4 DEF Settles
  <2>2. <<m, MaxAttempts>> \in Run /\ <<m, MaxAttempts>>[1] = m /\ <<m, MaxAttempts>>[2] = MaxAttempts
    OBVIOUS
  <2>3. QED
    BY <1>4, <2>1, <2>2 DEF IInv, AttemptInv
<1>5. QED
  BY <1>2, <1>3, <1>4 DEF AttemptInv

-----------------------------------------------------------------------------
(* The pieces the steps of an attempt are made of. *)
Typed ==
    /\ act' \in [Member -> Act] /\ lost' \subseteq Run
    /\ apc' \in [Run -> AttemptPoint] /\ watch' \in [Run -> 0..MaxAttempts]
    /\ WatchInv'

Going(x) == /\ \A y \in Run : apc[y] = "none" => apc'[y] = "none"
            /\ apc[x] # "none"

Results == {"committed", "bad", "cancelled"}

LEMMA AnswerOK ==
  ASSUME IInv, NEW x \in Run, apc[x] # "none", NEW r \in Results, Answer(x, r)
  PROVE  Typed /\ Settles /\ Going(x) /\ lost' = lost
<1>1. /\ act \in [Member -> Act] /\ lost \subseteq Run /\ x[1] \in Member
      /\ apc \in [Run -> AttemptPoint] /\ watch \in [Run -> 0..MaxAttempts]
  BY DEF IInv, TypeOK, Act
<1>2. "ended" \in AttemptPoint /\ 0 \in 0..MaxAttempts
  BY DEF AttemptPoint
<1>3. r \in Act
  BY DEF Results, Act
<1>4. Typed /\ lost' = lost
  BY <1>1, <1>2, <1>3 DEF Answer, Typed, IInv, WatchInv
<1>5. Settles
  BY <1>1 DEF Answer, Settles, Results
<1>6. Going(x)
  BY <1>1 DEF Answer, Going
<1>7. QED
  BY <1>4, <1>5, <1>6

LEMMA MoveOK ==
  ASSUME IInv, NEW x \in Run, apc[x] # "none", NEW p \in AttemptPoint, NEW s \in 0..MaxAttempts,
         Move(x, p), watch' = watch \/ watch' = [watch EXCEPT ![x] = s], UNCHANGED <<act, lost>>,
         p \in {"watch", "stall"} => watch'[x] # 0
  PROVE  Typed /\ Settles /\ Going(x) /\ lost' = lost
<1>1. /\ act \in [Member -> Act] /\ lost \subseteq Run
      /\ apc \in [Run -> AttemptPoint] /\ watch \in [Run -> 0..MaxAttempts]
  BY DEF IInv, TypeOK, Act
<1>2. Typed
  BY <1>1 DEF Move, Typed, IInv, WatchInv
<1>3. Settles /\ Going(x)
  BY <1>1 DEF Move, Settles, Going
<1>4. QED
  BY <1>2, <1>3

(* An attempt answers, goes on to another point, or watches a run. *)
Proceeds(x) ==
    \/ \E r \in Results : Answer(x, r)
    \/ \E p \in AttemptPoint \ {"watch", "stall"} : Move(x, p) /\ UNCHANGED <<watch, act, lost>>
    \/ \E s \in 1..MaxAttempts : Watch(x, s) /\ UNCHANGED <<act, lost>>

LEMMA ProceedsOK ==
  ASSUME IInv, NEW x \in Run, apc[x] # "none", Proceeds(x)
  PROVE  Typed /\ Settles /\ Going(x) /\ lost' = lost
<1>1. CASE \E r \in Results : Answer(x, r)
  BY <1>1, AnswerOK
<1>2. CASE \E p \in AttemptPoint \ {"watch", "stall"} : Move(x, p) /\ UNCHANGED <<watch, act, lost>>
  <2>1. PICK p \in AttemptPoint \ {"watch", "stall"} : Move(x, p) /\ UNCHANGED <<watch, act, lost>>
    BY <1>2
  <2>2. 0 \in 0..MaxAttempts
    OBVIOUS
  <2>3. QED
    BY <2>1, <2>2, MoveOK
<1>3. CASE \E s \in 1..MaxAttempts : Watch(x, s) /\ UNCHANGED <<act, lost>>
  <2>1. PICK s \in 1..MaxAttempts : Watch(x, s) /\ UNCHANGED <<act, lost>>
    BY <1>3
  <2>2. Move(x, "watch") /\ watch' = [watch EXCEPT ![x] = s]
    BY <2>1 DEF Watch
  <2>3. "watch" \in AttemptPoint /\ s \in 0..MaxAttempts /\ watch'[x] # 0
    BY <2>2 DEF AttemptPoint, IInv, TypeOK
  <2>4. QED
    BY <2>1, <2>2, <2>3, MoveOK
<1>4. QED
  BY <1>1, <1>2, <1>3 DEF Proceeds

LEMMA UnmarkOK ==
  ASSUME TypeOK, NEW m \in Member, Unmark(m)
  PROVE  marker' \in [Member -> 0..MaxAttempts] /\ named' \subseteq Member
<1>1. marker \in [Member -> 0..MaxAttempts] /\ named \subseteq Member /\ 0 \in 0..MaxAttempts
  BY DEF TypeOK
<1>2. QED
  BY <1>1 DEF Unmark

(* The record a stopped worker leaves is well formed. *)
LEMMA StoppedOK ==
  ASSUME TypeOK, NEW X \in SUBSET Run, NEW S, Stopped(X, S)
  PROVE  shim' \in [Run -> ShimState] /\ done' \in [Member -> Record \cup {NoRecord}]
<1>1. shim' \in [Run -> ShimState]
  BY DEF TypeOK, Stopped, ShimState
<1>2. ASSUME NEW m \in Member PROVE done'[m] \in Record \cup {NoRecord}
  <2> DEFINE T == {x \in X \cap S : x[1] = m /\ shim[x] = "running"}
  <2>1. done'[m] = IF T = {} THEN done[m] ELSE [run |-> (CHOOSE x \in T : TRUE)[2], how |-> "signal"]
    BY DEF Stopped
  <2>2. CASE T = {}
    BY <2>1, <2>2 DEF TypeOK
  <2>3. CASE T # {}
    <3>1. (CHOOSE x \in T : TRUE) \in T
      BY <2>3
    <3>2. (CHOOSE x \in T : TRUE) \in Run
      BY <3>1
    <3>3. (CHOOSE x \in T : TRUE)[2] \in 1..MaxAttempts
      BY <3>2
    <3>4. QED
      BY <2>1, <2>3, <3>3 DEF Record
  <2>4. QED
    BY <2>2, <2>3
<1>3. done' = [m \in Member |-> done'[m]]
  BY DEF Stopped
<1>4. QED
  BY <1>1, <1>2, <1>3

(* An attempt's step that answers, moves or watches preserves the invariant. *)
LEMMA AttemptOK ==
  ASSUME IInv, NEW x \in Run, Typed, Settles, Going(x), UNCHANGED ledger,
         lost' = lost \/ (lost' = lost \cup {x} /\ x[2] # MaxAttempts),
         UNCHANGED <<asked, attempt, fin, up, on, fleet, early>>,
         marker' \in [Member -> 0..MaxAttempts], named' \subseteq Member, UNCHANGED token,
         done' \in [Member -> Record \cup {NoRecord}], shim' \in [Run -> ShimState],
         excused' \subseteq Member
  PROVE  IInv'
<1>1. TypeOK'
  BY DEF IInv, TypeOK, Typed, Act, ledger
<1>2. LedgerInv'
  BY LedgerKept
<1>3. act[x[1]] # "idle"
  BY DEF IInv, AttemptInv, Going
<1>4. AttemptInv'
  <2>1. \A y \in Run : y \in lost' => y \in lost \/ (apc[y] # "none" /\ act[y[1]] # "idle" /\ (y[2] = MaxAttempts => act'[y[1]] # "open"))
    BY <1>3 DEF Going
  <2>2. UNCHANGED <<wf, prep>> /\ apc' \in [Run -> AttemptPoint]
    BY DEF ledger, Typed
  <2>3. QED
    BY <2>1, <2>2, AttemptKept DEF Going
<1>5. QED
  BY <1>1, <1>2, <1>4 DEF IInv, Typed

-----------------------------------------------------------------------------
(* The steps of an attempt, the shims and Temporal. *)
LEMMA AttemptStep ==
  ASSUME IInv, NEW x \in Run, Attempt(x)
  PROVE  IInv'
<1>1. /\ x[1] \in Member /\ x[2] \in 1..MaxAttempts /\ x[2] \in 0..MaxAttempts
      /\ marker \in [Member -> 0..MaxAttempts] /\ token \in [Member -> 0..MaxAttempts]
      /\ token[x[1]] \in 0..MaxAttempts /\ watch[x] \in 0..MaxAttempts
      /\ named \subseteq Member /\ excused \subseteq Member
      /\ done \in [Member -> Record \cup {NoRecord}] /\ shim \in [Run -> ShimState] /\ TypeOK
  BY DEF IInv, TypeOK
<1>2. \A h : Outcome(h) \in Results
  BY DEF Outcome, Results
<1>3. "bad" \in Results /\ "cancelled" \in Results
  BY DEF Results
<1>4. {"claim", "claim2", "reclaim", "reclaim2", "write", "spawn", "await", "wait", "watch", "stall"} \subseteq AttemptPoint
  BY DEF AttemptPoint, Launching
<1>5. ASSUME Unmark(x[1]) PROVE marker' \in [Member -> 0..MaxAttempts] /\ named' \subseteq Member
  BY <1>1, <1>5, UnmarkOK
<1>6. CASE Decide(x)
  <2>1. /\ apc[x] # "none" /\ UNCHANGED ledger /\ UNCHANGED <<asked, attempt, fin, up, on, fleet, early, files, shim, excused>>
    BY <1>6 DEF Decide, ledger, rows
  <2>2. Typed /\ Settles /\ Going(x) /\ lost' = lost
    <3>1. Proceeds(x)
      BY <1>1, <1>2, <1>3, <1>4, <1>6 DEF Decide, Proceeds, TokenLive
    <3>2. QED
      BY <2>1, <3>1, ProceedsOK
  <2>3. QED
    BY <1>1, <2>1, <2>2, AttemptOK DEF files
<1>7. CASE ClaimLaunch(x)
  <2>1. /\ apc[x] # "none" /\ UNCHANGED ledger /\ UNCHANGED <<asked, attempt, fin, up, on, fleet, early, shim, excused>>
        /\ UNCHANGED <<named, token, done, watch, act, lost>>
    BY <1>7 DEF ClaimLaunch, ledger, rows, temporal
  <2>2. marker' \in [Member -> 0..MaxAttempts]
    BY <1>1, <1>7 DEF ClaimLaunch
  <2>3. Proceeds(x)
    BY <1>4, <1>7, <2>1 DEF ClaimLaunch, Proceeds
  <2>4. Typed /\ Settles /\ Going(x) /\ lost' = lost
    BY <2>1, <2>3, ProceedsOK
  <2>5. QED
    BY <1>1, <2>1, <2>2, <2>4, AttemptOK
<1>8. CASE WriteClaim(x)
  <2>1. /\ apc[x] # "none" /\ UNCHANGED ledger /\ UNCHANGED <<asked, attempt, fin, up, on, fleet, early, shim, excused>>
        /\ UNCHANGED <<marker, token, done, watch, act, lost>>
    BY <1>8 DEF WriteClaim, ledger, rows, temporal
  <2>2. named' \subseteq Member
    BY <1>1, <1>8 DEF WriteClaim
  <2>3. Typed /\ Settles /\ Going(x) /\ lost' = lost
    <3>1. Proceeds(x)
      BY <1>4, <1>8, <2>1 DEF WriteClaim, Proceeds
    <3>2. QED
      BY <2>1, <3>1, ProceedsOK
  <2>4. QED
    BY <1>1, <2>1, <2>2, <2>3, AttemptOK
<1>9. CASE Reclaim(x)
  <2>1. /\ apc[x] # "none" /\ UNCHANGED ledger /\ UNCHANGED <<asked, attempt, fin, up, on, fleet, early, shim, excused>>
        /\ UNCHANGED <<token, done>> /\ Unmark(x[1])
    BY <1>9 DEF Reclaim, ledger, rows
  <2>2. Typed /\ Settles /\ Going(x) /\ lost' = lost
    <3>1. Proceeds(x)
      BY <1>1, <1>2, <1>3, <1>4, <1>9 DEF Reclaim, Proceeds
    <3>2. QED
      BY <2>1, <3>1, ProceedsOK
  <2>3. QED
    BY <1>1, <1>5, <2>1, <2>2, AttemptOK
<1>10. CASE SpawnShim(x)
  <2>1. /\ apc[x] # "none" /\ UNCHANGED ledger /\ UNCHANGED <<asked, attempt, fin, up, on, fleet, early, excused>>
        /\ UNCHANGED <<token, done>>
    BY <1>10 DEF SpawnShim, ledger, rows
  <2>2. Typed /\ Settles /\ Going(x) /\ lost' = lost
    <3>1. Proceeds(x)
      BY <1>1, <1>2, <1>3, <1>4, <1>10 DEF SpawnShim, Proceeds
    <3>2. QED
      BY <2>1, <3>1, ProceedsOK
  <2>3. shim' \in [Run -> ShimState] /\ marker' \in [Member -> 0..MaxAttempts] /\ named' \subseteq Member
    BY <1>1, <1>5, <1>10 DEF SpawnShim, ShimState
  <2>4. QED
    BY <1>1, <2>1, <2>2, <2>3, AttemptOK
<1>11. CASE AwaitToken(x)
  <2>1. /\ apc[x] # "none" /\ UNCHANGED ledger /\ UNCHANGED <<asked, attempt, fin, up, on, fleet, early, shim>>
        /\ UNCHANGED <<token, done>>
    BY <1>11 DEF AwaitToken, ledger, rows
  <2>2. Typed /\ Settles /\ Going(x) /\ lost' = lost
    <3>1. Proceeds(x)
      BY <1>1, <1>2, <1>3, <1>4, <1>11 DEF AwaitToken, Proceeds
    <3>2. QED
      BY <2>1, <3>1, ProceedsOK
  <2>3. excused' \subseteq Member /\ marker' \in [Member -> 0..MaxAttempts] /\ named' \subseteq Member
    BY <1>1, <1>5, <1>11 DEF AwaitToken
  <2>4. QED
    BY <1>1, <2>1, <2>2, <2>3, AttemptOK
<1>12. CASE AwaitOther(x)
  <2>1. /\ apc[x] # "none" /\ UNCHANGED ledger /\ UNCHANGED <<asked, attempt, fin, up, on, fleet, early, files, shim, excused>>
    BY <1>12 DEF AwaitOther, ledger, rows
  <2>2. Typed /\ Settles /\ Going(x) /\ lost' = lost
    <3>1. Proceeds(x)
      BY <1>1, <1>2, <1>3, <1>4, <1>12 DEF AwaitOther, Proceeds, TokenLive
    <3>2. QED
      BY <2>1, <3>1, ProceedsOK
  <2>3. QED
    BY <1>1, <2>1, <2>2, AttemptOK DEF files
<1>13. CASE WatchEnds(x)
  <2>1. /\ apc[x] # "none" /\ UNCHANGED ledger /\ UNCHANGED <<asked, attempt, fin, up, on, fleet, early, files, shim, excused>>
    BY <1>13 DEF WatchEnds, ledger, rows
  <2>2. CASE LastAttempt(x[2]) \/ ~AnswerRetry(x)
    <3>1. \E r \in Results : Answer(x, r)
      BY <1>2, <1>3, <1>13, <2>2 DEF WatchEnds, AnswerRetry, Answer
    <3>2. Typed /\ Settles /\ Going(x) /\ lost' = lost
      BY <2>1, <3>1, AnswerOK
    <3>3. QED
      BY <1>1, <2>1, <3>2, AttemptOK DEF files
  <2>3. CASE ~LastAttempt(x[2]) /\ AnswerRetry(x)
    <3>1. /\ act' = act /\ lost' = lost \cup {x} /\ x[2] # MaxAttempts
          /\ apc' = [apc EXCEPT ![x] = "ended"] /\ watch' = [watch EXCEPT ![x] = 0]
      BY <2>3 DEF AnswerRetry, LastAttempt
    <3>2. Typed /\ Settles /\ Going(x)
      BY <1>1, <2>1, <3>1 DEF Typed, Settles, Going, IInv, TypeOK, WatchInv, Act, AttemptPoint
    <3>3. QED
      BY <1>1, <2>1, <3>1, <3>2, AttemptOK DEF files
  <2>4. QED
    BY <2>2, <2>3
<1>14. CASE StopWorker(x)
  <2>1. /\ apc[x] # "none" /\ UNCHANGED ledger /\ UNCHANGED <<asked, attempt, fin, up, on, fleet, early, marker, named, token, excused>>
        /\ {<<x[1], watch[x]>>} \in SUBSET Run
    BY <1>1, <1>14 DEF StopWorker, ledger, rows, IInv, WatchInv
  <2>2. Typed /\ Settles /\ Going(x) /\ lost' = lost
    BY <1>3, <1>14, <2>1, AnswerOK DEF StopWorker
  <2>3. shim' \in [Run -> ShimState] /\ done' \in [Member -> Record \cup {NoRecord}]
    <3>1. CASE UNCHANGED <<shim, done>>
      BY <1>1, <3>1
    <3>2. CASE \E S : Stopped({<<x[1], watch[x]>>}, S)
      BY <1>1, <2>1, <3>2, StoppedOK
    <3>3. QED
      BY <1>14, <3>1, <3>2 DEF StopWorker
  <2>4. QED
    BY <1>1, <2>1, <2>2, <2>3, AttemptOK
<1>15. CASE StopStalled(x)
  <2>1. /\ apc[x] # "none" /\ UNCHANGED ledger /\ UNCHANGED <<asked, attempt, fin, up, on, fleet, early, marker, named, token, excused>>
        /\ {<<x[1], watch[x]>>} \in SUBSET Run
    BY <1>1, <1>15 DEF StopStalled, ledger, rows, IInv, WatchInv
  <2>2. Typed /\ Settles /\ Going(x) /\ lost' = lost
    BY <1>2, <1>3, <1>15, <2>1, AnswerOK DEF StopStalled
  <2>3. shim' \in [Run -> ShimState] /\ done' \in [Member -> Record \cup {NoRecord}]
    <3>1. CASE UNCHANGED <<shim, done>>
      BY <1>1, <3>1
    <3>2. CASE \E S : Stopped({<<x[1], watch[x]>>}, S)
      BY <1>1, <2>1, <3>2, StoppedOK
    <3>3. QED
      BY <1>15, <3>1, <3>2 DEF StopStalled
  <2>4. QED
    BY <1>1, <2>1, <2>2, <2>3, AttemptOK
<1>16. QED
  BY <1>6, <1>7, <1>8, <1>9, <1>10, <1>11, <1>12, <1>13, <1>14, <1>15 DEF Attempt

LEMMA FilesOK ==
  ASSUME IInv, UNCHANGED <<temporal, attempts, rows, marker, named, early, unwritten>>,
         token' \in [Member -> 0..MaxAttempts], done' \in [Member -> Record \cup {NoRecord}],
         shim' \in [Run -> ShimState], excused' \subseteq Member
  PROVE  IInv'
<1> USE DEF temporal, attempts, rows
<1>1. TypeOK'
  BY DEF IInv, TypeOK
<1>2. WatchInv'
  BY DEF IInv, WatchInv
<1>3. AttemptInv'
  BY DEF IInv, AttemptInv, Idle
<1>4. LedgerInv'
  BY LedgerKept DEF Settles, ledger
<1>5. QED
  BY <1>1, <1>2, <1>3, <1>4 DEF IInv

LEMMA ShimStep ==
  ASSUME IInv, NEW x \in Run, Shim(x) \/ ShimKilled(x) \/ ShimOrphans(x)
  PROVE  IInv'
<1>1. /\ x[1] \in Member /\ x[2] \in 1..MaxAttempts /\ x[2] \in 0..MaxAttempts
      /\ token \in [Member -> 0..MaxAttempts] /\ excused \subseteq Member
      /\ done \in [Member -> Record \cup {NoRecord}] /\ shim \in [Run -> ShimState]
  BY DEF IInv, TypeOK
<1>2. {"ready", "running", "orphan", "ended", "killed"} \subseteq ShimState
  BY DEF ShimState
<1>3. CASE ShimToken(x)
  <2>1. /\ token' \in [Member -> 0..MaxAttempts] /\ done' \in [Member -> Record \cup {NoRecord}]
        /\ shim' \in [Run -> ShimState]
    BY <1>1, <1>2, <1>3 DEF ShimToken
  <2>2. QED
    BY <1>1, <1>3, <2>1, FilesOK DEF ShimToken
<1>4. CASE \E how \in {"committed", "failed"} : ShimRecords(x, how)
  <2>1. PICK how \in {"committed", "failed"} : ShimRecords(x, how)
    BY <1>4
  <2>2. [run |-> x[2], how |-> how] \in Record
    BY <1>1 DEF Record
  <2>3. done' \in [Member -> Record \cup {NoRecord}] /\ shim' \in [Run -> ShimState]
    BY <1>1, <1>2, <2>1, <2>2 DEF ShimRecords
  <2>4. QED
    BY <1>1, <2>1, <2>3, FilesOK DEF ShimRecords
<1>5. CASE ShimRuns(x) \/ OrphanEnds(x) \/ ShimKilled(x) \/ ShimOrphans(x)
  <2>1. shim' \in [Run -> ShimState] /\ excused' \subseteq Member
    BY <1>1, <1>2, <1>5 DEF ShimRuns, OrphanEnds, ShimKilled, ShimOrphans
  <2>2. UNCHANGED <<temporal, attempts, rows, files, early, unwritten>>
    BY <1>5 DEF ShimRuns, OrphanEnds, ShimKilled, ShimOrphans
  <2>3. QED
    BY <1>1, <2>1, <2>2, FilesOK DEF files
<1>6. QED
  BY <1>3, <1>4, <1>5 DEF Shim

LEMMA StallStep ==
  ASSUME IInv, NEW x \in Run, SeesStall(x)
  PROVE  IInv'
<1>1. /\ apc[x] = "watch" /\ Move(x, "stall") /\ UNCHANGED ledger
      /\ UNCHANGED <<asked, attempt, fin, up, on, fleet, early, watch, act, lost, files, shim, excused>>
  BY DEF SeesStall, temporal, rows, ledger
<1>2. /\ marker \in [Member -> 0..MaxAttempts] /\ named \subseteq Member /\ excused \subseteq Member
      /\ done \in [Member -> Record \cup {NoRecord}] /\ shim \in [Run -> ShimState]
  BY DEF IInv, TypeOK
<1>3. "stall" \in AttemptPoint /\ 0 \in 0..MaxAttempts /\ watch'[x] # 0
  BY <1>1 DEF AttemptPoint, IInv, WatchInv
<1>4. Typed /\ Settles /\ Going(x) /\ lost' = lost
  BY <1>1, <1>3, MoveOK
<1>5. QED
  BY <1>1, <1>2, <1>4, AttemptOK DEF files

(* Temporal's own steps. *)
LEMMA DispatchStep ==
  ASSUME IInv, NEW m \in Member, NEW d \in Daemon, Dispatch(m, d)
  PROVE  IInv'
<1> DEFINE y == <<m, attempt[m] + 1>>
<1>1. /\ attempt \in [Member -> 0..MaxAttempts] /\ apc \in [Run -> AttemptPoint]
      /\ on \in [Run -> 0..NDaemons] /\ d \in 0..NDaemons
  BY DEF IInv, TypeOK
<1>2. act[m] = "open" /\ (attempt[m] = 0 \/ <<m, attempt[m]>> \in lost)
  BY DEF Dispatch, Current
<1>3. attempt[m] # MaxAttempts
  BY <1>2 DEF IInv, AttemptInv
<1>4. attempt[m] + 1 \in 1..MaxAttempts /\ attempt[m] + 1 \in 0..MaxAttempts /\ y \in Run
  BY <1>1, <1>3
<1>5. /\ attempt' = [attempt EXCEPT ![m] = attempt[m] + 1] /\ on' = [on EXCEPT ![y] = d]
      /\ apc' = [apc EXCEPT ![y] = "decide"]
      /\ UNCHANGED <<wf, asked, act, lost, recorded, prep, fin, up, watch, rows, files, shim, excused, early, unwritten>>
  BY DEF Dispatch
<1>6. "decide" \in AttemptPoint
  BY DEF AttemptPoint, Launching
<1>7. /\ attempt' \in [Member -> 0..MaxAttempts] /\ apc' \in [Run -> AttemptPoint]
      /\ on' \in [Run -> 0..NDaemons]
  BY <1>1, <1>4, <1>5, <1>6
<1>8. TypeOK'
  BY <1>5, <1>7 DEF IInv, TypeOK, rows, files
<1>9. WatchInv'
  BY <1>1, <1>5 DEF IInv, WatchInv
<1>10. AttemptInv'
  BY <1>1, <1>2, <1>4, <1>5 DEF IInv, AttemptInv, Idle
<1>11. LedgerInv'
  BY <1>5, LedgerKept DEF Settles, ledger, rows
<1>12. QED
  BY <1>8, <1>9, <1>10, <1>11 DEF IInv

LEMMA HeartbeatStep ==
  ASSUME IInv, NEW m \in Member, HeartbeatTimeout(m)
  PROVE  IInv'
<1> DEFINE y == <<m, attempt[m]>>
<1>1. /\ attempt \in [Member -> 0..MaxAttempts] /\ attempt[m] \in 1..MaxAttempts /\ y \in Run
      /\ act \in [Member -> Act] /\ act[m] = "open" /\ excused \subseteq Member /\ lost \subseteq Run
  BY DEF IInv, TypeOK, HeartbeatTimeout, Act
<1>2. /\ lost' = lost \cup {y} /\ excused' \in {excused, excused \cup {m}}
      /\ act' = [act EXCEPT ![m] = IF LastAttempt(attempt[m]) THEN "bad" ELSE act[m]]
      /\ UNCHANGED <<wf, asked, attempt, recorded, prep, fin, attempts, rows, files, shim, early, unwritten>>
  BY DEF HeartbeatTimeout, Current
<1>3. act' \in [Member -> Act] /\ Settles
  BY <1>1, <1>2 DEF Act, Settles
<1>4. TypeOK'
  BY <1>1, <1>2, <1>3 DEF IInv, TypeOK, Act, attempts, rows, files
<1>5. WatchInv'
  BY <1>2 DEF IInv, WatchInv, attempts
<1>6. AttemptInv'
  <2>1. attempt[m] = MaxAttempts => act'[m] # "open"
    BY <1>1, <1>2 DEF LastAttempt
  <2>2. \A z \in Run : act'[z[1]] = "idle" => apc'[z] = "none" /\ z \notin lost'
    BY <1>1, <1>2, <1>3 DEF IInv, AttemptInv, attempts, Settles
  <2>3. \A n \in Member : act'[n] = "open" => <<n, MaxAttempts>> \notin lost'
    BY <1>1, <1>2, <1>3, <2>1 DEF IInv, AttemptInv, Settles
  <2>4. wf' \in {"new", "prepare"} \/ prep' = "run" => Idle'
    BY <1>1, <1>2 DEF IInv, AttemptInv, Idle
  <2>5. QED
    BY <2>2, <2>3, <2>4 DEF AttemptInv
<1>7. LedgerInv'
  BY <1>2, <1>3, LedgerKept DEF ledger, rows
<1>8. QED
  BY <1>4, <1>5, <1>6, <1>7 DEF IInv

LEMMA CancelReportedStep ==
  ASSUME IInv, NEW m \in Member, CancelReported(m)
  PROVE  IInv'
<1>1. act \in [Member -> Act] /\ act[m] = "open"
  BY DEF IInv, TypeOK, CancelReported, Act
<1>2. /\ act' = [act EXCEPT ![m] = "cancelled"]
      /\ UNCHANGED <<wf, asked, attempt, lost, recorded, prep, fin, attempts, rows, files, shim, excused, unwritten>>
  BY DEF CancelReported
<1>3. early' \in BOOLEAN
  BY DEF CancelReported, IInv, TypeOK
<1>4. act' \in [Member -> Act] /\ Settles
  BY <1>1, <1>2 DEF Act, Settles
<1>5. TypeOK'
  BY <1>2, <1>3, <1>4 DEF IInv, TypeOK, Act, attempts, rows, files
<1>6. WatchInv'
  BY <1>2 DEF IInv, WatchInv, attempts
<1>7. apc' \in [Run -> AttemptPoint] /\ UNCHANGED <<wf, prep, apc, lost>>
  BY <1>2 DEF IInv, TypeOK, attempts
<1>8. AttemptInv'
  BY <1>4, <1>7, AttemptKept
<1>9. LedgerInv'
  BY <1>2, <1>4, LedgerKept DEF ledger, rows
<1>10. QED
  BY <1>5, <1>6, <1>8, <1>9 DEF IInv

LEMMA DaemonDiesStep ==
  ASSUME IInv, NEW d \in Daemon, DaemonDies(d)
  PROVE  IInv'
<1>1. /\ up' = up \ {d} /\ apc' = [x \in Run |-> IF Busy(x) /\ on[x] = d THEN "dead" ELSE apc[x]]
      /\ watch' = [x \in Run |-> IF on[x] = d THEN 0 ELSE watch[x]]
      /\ UNCHANGED <<temporal, on, rows, files, shim, excused, early, unwritten>>
  BY DEF DaemonDies
<1>2. "dead" \in AttemptPoint /\ 0 \in 0..MaxAttempts
  BY DEF AttemptPoint
<1>3. apc' \in [Run -> AttemptPoint] /\ watch' \in [Run -> 0..MaxAttempts] /\ up' \subseteq Daemon
  BY <1>1, <1>2 DEF IInv, TypeOK
<1>4. TypeOK'
  BY <1>1, <1>3 DEF IInv, TypeOK, temporal, rows, files
<1>5. WatchInv'
  BY <1>1 DEF IInv, WatchInv, Busy
<1>6. AttemptInv'
  BY <1>1 DEF IInv, AttemptInv, Idle, temporal, Busy
<1>7. LedgerInv'
  BY <1>1, LedgerKept DEF Settles, ledger, rows, temporal
<1>8. QED
  BY <1>4, <1>5, <1>6, <1>7 DEF IInv

-----------------------------------------------------------------------------
(* The workflow. *)
WfState == {"new", "prepare", "members", "finalize", "cancelling", "failing"} \cup Ended

LEMMA IdleNotJoined == ~(Idle /\ Joined)
BY MemberExists DEF Idle, Joined

(* A step of the workflow that opens no activity. *)
LEMMA WorkflowOK ==
  ASSUME IInv, UNCHANGED <<act, attempt, lost, attempts, marker, named, token, excused>>,
         wf' \in WfState, asked' \in BOOLEAN, early' \in BOOLEAN, unwritten' \in BOOLEAN,
         recorded' \subseteq Member, prep' \in {"off", "run", "ended"}, fin' \in {"off", "count", "merge", "ended"},
         fleet' \in FleetState, task' \in [Member -> TaskState],
         done' \in [Member -> Record \cup {NoRecord}], shim' \in [Run -> ShimState],
         wf' \in {"new", "prepare"} \/ prep' = "run" => Idle,
         LedgerInv'
  PROVE  IInv'
<1> USE DEF attempts
<1>1. TypeOK'
  BY DEF IInv, TypeOK, WfState
<1>2. WatchInv'
  BY DEF IInv, WatchInv
<1>3. AttemptInv'
  BY DEF IInv, AttemptInv, Idle
<1>4. QED
  BY <1>1, <1>2, <1>3 DEF IInv

(* What the rows say is kept when the workflow moves on past the members. *)
LEMMA PastOK ==
  ASSUME IInv, UNCHANGED <<act, recorded>>, task' \in [Member -> TaskState],
         \A m \in Member : task[m] = "done" => task'[m] = "done",
         wf' \notin {"new", "prepare", "members"},
         Idle \/ Joined, Joined => unwritten' \/ ToRecord = {}
  PROVE  LedgerInv'
<1>1. (Joined' <=> Joined) /\ (Idle' <=> Idle) /\ ToRecord' = ToRecord
  BY DEF Joined, Idle, ToRecord
<1>2. recorded' # {} => Joined'
  BY <1>1 DEF IInv, LedgerInv
<1>3. \A m \in recorded' : act'[m] = "committed" => task'[m] = "done"
  BY DEF IInv, LedgerInv, TypeOK
<1>4. QED
  BY <1>1, <1>2, <1>3 DEF LedgerInv, Past

LEMMA Unmoved ==
  ASSUME IInv
  PROVE  /\ wf \in WfState /\ asked \in BOOLEAN /\ early \in BOOLEAN /\ unwritten \in BOOLEAN
         /\ recorded \subseteq Member /\ prep \in {"off", "run", "ended"} /\ fin \in {"off", "count", "merge", "ended"}
         /\ fleet \in FleetState /\ task \in [Member -> TaskState]
         /\ done \in [Member -> Record \cup {NoRecord}] /\ shim \in [Run -> ShimState]
         /\ (wf \in {"new", "prepare"} \/ prep = "run" => Idle)
         /\ (Past => Idle \/ Joined) /\ (Past /\ Joined => unwritten \/ ToRecord = {})
BY DEF IInv, TypeOK, AttemptInv, LedgerInv, WfState

LEMMA AbortState == ASSUME Abort PROVE wf' \in WfState /\ wf' \notin {"new", "prepare", "members"}
BY DEF Abort, WfState

(* Before an activity is opened there is nothing to record. *)
LEMMA IdleOK ==
  ASSUME IInv, Idle, UNCHANGED <<act, recorded>>, wf' # "members"
  PROVE  LedgerInv'
<1>1. Idle' /\ ~Joined /\ ~Joined'
  BY IdleNotJoined DEF Idle, Joined
<1>2. recorded = {}
  BY <1>1 DEF IInv, LedgerInv
<1>3. QED
  BY <1>1, <1>2 DEF LedgerInv

LEMMA PrepareStep ==
  ASSUME IInv, StartFleet \/ PrepareFleet \/ PrepareFails
  PROVE  IInv'
<1> USE Unmoved
<1>1. CASE StartFleet
  <2>1. Idle /\ UNCHANGED <<act, recorded>> /\ wf' = "prepare" /\ prep' = "run"
    BY <1>1 DEF StartFleet
  <2>2. LedgerInv'
    BY <2>1, IdleOK
  <2>3. wf' \in WfState
    BY <2>1 DEF WfState
  <2>4. QED
    BY <1>1, <2>1, <2>2, <2>3, WorkflowOK DEF StartFleet, rows, files
<1>2. CASE PrepareFleet
  <2>1. /\ Idle /\ prep' = "ended" /\ recorded' = recorded /\ fleet' = "running"
        /\ task' = [m \in Member |-> "in_progress"]
        /\ UNCHANGED <<asked, attempt, lost, fin, attempts, files, shim, excused, early, unwritten>>
    BY <1>2 DEF PrepareFleet
  <2>2. fleet' \in FleetState /\ task' \in [Member -> TaskState]
    BY <2>1 DEF FleetState, Mergeable, TaskState
  <2>3. CASE wf = "prepare"
    <3>1. wf' = "members" /\ act' = [m \in Member |-> "open"]
      BY <1>2, <2>3 DEF PrepareFleet
    <3>2. recorded = {}
      BY <2>1, IdleNotJoined DEF IInv, LedgerInv
    <3>3. LedgerInv'
      BY <2>1, <3>1, <3>2 DEF LedgerInv, Past
    <3>4. AttemptInv'
      <4>1. \A x \in Run : apc[x] = "none" /\ x \notin lost
        BY <2>1 DEF IInv, AttemptInv, Idle
      <4>2. QED
        BY <2>1, <3>1, <4>1 DEF AttemptInv
    <3>5. TypeOK'
      BY <2>1, <2>2, <3>1 DEF IInv, TypeOK, attempts, files
    <3>6. WatchInv'
      BY <2>1 DEF IInv, WatchInv, attempts
    <3>7. QED
      BY <3>3, <3>4, <3>5, <3>6 DEF IInv
  <2>4. CASE wf # "prepare"
    <3>1. UNCHANGED <<wf, act>>
      BY <1>2, <2>4 DEF PrepareFleet
    <3>2. LedgerInv'
      <4>1. CASE wf = "members"
        <5>1. Idle' /\ ~Joined /\ ~Joined'
          BY <2>1, <3>1, IdleNotJoined DEF Idle, Joined
        <5>2. recorded = {}
          BY <5>1 DEF IInv, LedgerInv
        <5>3. QED
          BY <2>1, <3>1, <4>1, <5>1, <5>2 DEF LedgerInv, Past
      <4>2. CASE wf # "members"
        BY <2>1, <3>1, <4>2, IdleOK
      <4>3. QED
        BY <4>1, <4>2
    <3>3. QED
      BY <2>1, <2>2, <3>1, <3>2, WorkflowOK DEF files
  <2>5. QED
    BY <2>3, <2>4
<1>3. CASE PrepareFails
  <2>1. /\ Idle /\ prep' = "ended" /\ UNCHANGED <<act, recorded>>
        /\ UNCHANGED <<asked, attempt, lost, fin, attempts, files, shim, excused, early, unwritten>>
    BY <1>3 DEF PrepareFails
  <2>2. PICK M \in SUBSET Member : task' = [m \in Member |-> IF m \in M THEN "in_progress" ELSE task[m]]
    BY <1>3 DEF PrepareFails
  <2>3. task' \in [Member -> TaskState] /\ \A m \in Member : task[m] = "in_progress" => task'[m] = "in_progress"
    BY <2>2 DEF TaskState
  <2>4. fleet' \in FleetState
    BY <1>3 DEF PrepareFails, FleetState, Mergeable
  <2>5. wf' = wf \/ Abort
    BY <1>3 DEF PrepareFails
  <2>6. wf' \in WfState /\ (wf' = "members" => wf = "members")
    BY <2>5, AbortState
  <2>7. LedgerInv'
    <3>1. CASE wf' = "members"
      <4>1. Idle' /\ ~Joined /\ ~Joined'
        BY <2>1, IdleNotJoined DEF Idle, Joined
      <4>2. recorded = {}
        BY <4>1 DEF IInv, LedgerInv
      <4>3. \A m \in Member : task'[m] = "in_progress"
        BY <2>3, <2>6, <3>1, <4>2 DEF IInv, LedgerInv
      <4>4. QED
        BY <2>1, <3>1, <4>1, <4>2, <4>3 DEF LedgerInv, Past
    <3>2. CASE wf' # "members"
      BY <2>1, <3>2, IdleOK
    <3>3. QED
      BY <3>1, <3>2
  <2>8. QED
    BY <2>1, <2>3, <2>4, <2>6, <2>7, WorkflowOK DEF files
<1>4. QED
  BY <1>1, <1>2, <1>3

LEMMA MembersStep ==
  ASSUME IInv, RecordFails \/ AfterMembers \/ \E m \in Member : RecordOutcome(m)
  PROVE  IInv'
<1> USE Unmoved
<1>1. CASE RecordFails
  <2>1. /\ Joined /\ Abort /\ unwritten' = TRUE
        /\ UNCHANGED <<asked, act, attempt, lost, recorded, prep, fin, attempts, rows, files, shim, excused, early>>
    BY <1>1 DEF RecordFails
  <2>2. wf' \in WfState /\ wf' \notin {"new", "prepare", "members"}
    BY <2>1, AbortState
  <2>3. LedgerInv'
    BY <2>1, <2>2, PastOK DEF rows
  <2>4. QED
    BY <2>1, <2>2, <2>3, WorkflowOK DEF rows, files
<1>2. CASE AfterMembers
  <2>1. /\ Joined /\ ToRecord = {} /\ UNCHANGED <<act, recorded, unwritten, prep>>
        /\ UNCHANGED <<asked, attempt, lost, attempts, rows, files, shim, excused, early>>
    BY <1>2 DEF AfterMembers
  <2>2. /\ wf' \in WfState /\ wf' \notin {"new", "prepare", "members"}
        /\ fin' \in {"off", "count", "merge", "ended"}
    BY <1>2, AbortState DEF AfterMembers, WfState
  <2>3. LedgerInv'
    BY <2>1, <2>2, PastOK DEF rows
  <2>4. QED
    BY <2>1, <2>2, <2>3, WorkflowOK DEF rows, files
<1>3. CASE \E m \in Member : RecordOutcome(m)
  <2>1. PICK m \in Member : RecordOutcome(m)
    BY <1>3
  <2>2. /\ wf = "members" /\ Joined /\ m \notin recorded /\ recorded' = recorded \cup {m}
        /\ UNCHANGED <<wf, asked, act, attempt, lost, prep, fin, attempts, fleet, files, shim, excused, early, unwritten>>
    BY <2>1 DEF RecordOutcome, ToRecord
  <2>3. task[m] = "in_progress"
    BY <2>2 DEF IInv, LedgerInv
  <2>4. task' = [task EXCEPT ![m] = IF act[m] = "committed" THEN "done" ELSE "failed"]
    BY <2>1, <2>3 DEF RecordOutcome, Terminal
  <2>5. task' \in [Member -> TaskState]
    BY <2>4 DEF TaskState
  <2>6. Joined'
    BY <2>2 DEF Joined
  <2>7. \A n \in Member \ recorded' : task'[n] = "in_progress"
    BY <2>2, <2>4 DEF IInv, LedgerInv
  <2>8. \A n \in recorded' : act'[n] = "committed" => task'[n] = "done"
    BY <2>2, <2>4 DEF IInv, LedgerInv
  <2>9. LedgerInv'
    BY <2>2, <2>6, <2>7, <2>8 DEF LedgerInv, Past
  <2>10. QED
    BY <2>2, <2>5, <2>9, WorkflowOK DEF files
<1>4. QED
  BY <1>1, <1>2, <1>3

LEMMA FinalizeStep ==
  ASSUME IInv, CancelFleet \/ CancelledMeanwhile \/ FinalizeCount \/ FinalizeMerge \/ FinalizeLost \/ Complete
  PROVE  IInv'
<1> USE Unmoved
<1>1. CASE CancelFleet \/ FinalizeCount \/ FinalizeMerge
  <2>1. UNCHANGED <<wf, act, attempt, lost, recorded, prep, attempts, task, files, shim, excused, early, unwritten>>
    BY <1>1 DEF CancelFleet, FinalizeCount, FinalizeMerge, rows
  <2>2. LedgerInv'
    BY <2>1, LedgerKept DEF Settles, ledger
  <2>3. asked' \in BOOLEAN /\ fin' \in {"off", "count", "merge", "ended"} /\ fleet' \in FleetState
    BY <1>1 DEF CancelFleet, FinalizeCount, FinalizeMerge, rows, FleetState, Finished, Mergeable
  <2>4. QED
    BY <2>1, <2>2, <2>3, WorkflowOK DEF files
<1>2. CASE CancelledMeanwhile \/ FinalizeLost \/ Complete
  <2>1. UNCHANGED <<asked, act, attempt, lost, recorded, prep, attempts, rows, files, shim, excused, unwritten>>
    BY <1>2 DEF CancelledMeanwhile, FinalizeLost, Complete
  <2>2. early' \in BOOLEAN /\ fin' \in {"off", "count", "merge", "ended"}
    BY <1>2 DEF CancelledMeanwhile, FinalizeLost, Complete
  <2>3. wf' = wf \/ (wf \in {"prepare", "finalize"} /\ wf' \in WfState /\ wf' \notin {"new", "prepare", "members"})
    BY <1>2, AbortState DEF CancelledMeanwhile, FinalizeLost, Complete, WfState, Ended
  <2>4. LedgerInv'
    <3>1. CASE wf' = wf
      BY <2>1, <3>1, LedgerKept DEF Settles, ledger, rows
    <3>2. CASE wf = "prepare" /\ wf' \notin {"new", "prepare", "members"}
      BY <2>1, <3>2, IdleOK
    <3>3. CASE wf = "finalize" /\ wf' \notin {"new", "prepare", "members"}
      BY <2>1, <3>3, PastOK DEF Past, rows
    <3>4. QED
      BY <2>3, <3>1, <3>2, <3>3
  <2>5. QED
    BY <2>1, <2>2, <2>3, <2>4, WorkflowOK DEF rows, files
<1>3. QED
  BY <1>1, <1>2

LEMMA AbortStep ==
  ASSUME IInv, AbortFleet
  PROVE  IInv'
<1> USE Unmoved
<1>1. UNCHANGED <<asked, act, attempt, lost, recorded, prep, fin, attempts, marker, named, token, excused, early, unwritten>>
  BY DEF AbortFleet
<1>2. wf \in {"cancelling", "failing"} /\ wf' \in {"cancelled", "failed", "error"}
  BY DEF AbortFleet
<1>3. fleet' \in FleetState
  BY DEF AbortFleet, AbortedFleet, FleetState, Finished
<1>4. task' \in {task, AbortedTasks}
  BY DEF AbortFleet
<1>5. task' \in [Member -> TaskState] /\ \A m \in Member : task[m] = "done" => task'[m] = "done"
  BY <1>4 DEF AbortedTasks, TaskState
<1>6. shim' \in [Run -> ShimState] /\ done' \in [Member -> Record \cup {NoRecord}]
  <2>1. CASE UNCHANGED <<shim, done>>
    BY <2>1
  <2>2. CASE \E S \in MayRecord(Tokens) : Stopped(Tokens, S)
    BY <2>2, StoppedOK DEF Tokens, IInv
  <2>3. QED
    BY <2>1, <2>2 DEF AbortFleet
<1>7. LedgerInv'
  BY <1>1, <1>2, <1>5, PastOK DEF Past
<1>8. wf' \in WfState
  BY <1>2 DEF WfState, Ended
<1>9. QED
  BY <1>1, <1>2, <1>3, <1>5, <1>6, <1>7, <1>8, WorkflowOK

-----------------------------------------------------------------------------
LEMMA InitIInv == Init => IInv
<1> SUFFICES ASSUME Init PROVE IInv
  OBVIOUS
<1> USE DEF Init
<1>1. TypeOK
  <2>1. "none" \in AttemptPoint /\ "none" \in FleetState /\ "none" \in TaskState /\ "none" \in ShimState
    BY DEF AttemptPoint, FleetState, TaskState, ShimState
  <2>2. 0 \in 0..MaxAttempts /\ 0 \in 0..NDaemons
    OBVIOUS
  <2>3. done \in [Member -> Record \cup {NoRecord}] /\ token \in [Member -> 0..MaxAttempts]
        /\ marker \in [Member -> 0..MaxAttempts] /\ attempt \in [Member -> 0..MaxAttempts]
    BY <2>2
  <2>4. watch \in [Run -> 0..MaxAttempts] /\ on \in [Run -> 0..NDaemons] /\ apc \in [Run -> AttemptPoint]
        /\ shim \in [Run -> ShimState]
    BY <2>1, <2>2
  <2>5. fleet \in FleetState /\ task \in [Member -> TaskState]
    BY <2>1
  <2>6. QED
    BY <2>3, <2>4, <2>5 DEF TypeOK
<1>2. Idle
  BY DEF Idle
<1>3. AttemptInv /\ WatchInv
  BY <1>2 DEF AttemptInv, WatchInv
<1>4. LedgerInv
  BY DEF LedgerInv, Past
<1>5. QED
  BY <1>1, <1>3, <1>4 DEF IInv

LEMMA NextIInv == IInv /\ [Next]_vars => IInv'
<1> SUFFICES ASSUME IInv, [Next]_vars PROVE IInv'
  OBVIOUS
<1>1. CASE Workflow
  BY <1>1, PrepareStep, MembersStep, FinalizeStep, AbortStep, CancelReportedStep DEF Workflow
<1>2. CASE Faults
  BY <1>2, PrepareStep, FinalizeStep, DaemonDiesStep, ShimStep, StallStep DEF Faults
<1>3. CASE \E m \in Member : HeartbeatTimeout(m) \/ \E d \in Daemon : Dispatch(m, d)
  BY <1>3, HeartbeatStep, DispatchStep
<1>4. CASE \E x \in Run : Attempt(x) \/ Shim(x)
  BY <1>4, AttemptStep, ShimStep
<1>5. CASE UNCHANGED vars
  <2>1. UNCHANGED <<temporal, attempts, rows, marker, named, early, unwritten, token, done, shim, excused>>
    BY <1>5 DEF vars, files
  <2>2. /\ token \in [Member -> 0..MaxAttempts] /\ done \in [Member -> Record \cup {NoRecord}]
        /\ shim \in [Run -> ShimState] /\ excused \subseteq Member
    BY DEF IInv, TypeOK
  <2>3. QED
    BY <2>1, <2>2, FilesOK
<1>6. QED
  BY <1>1, <1>2, <1>3, <1>4, <1>5 DEF Next

-----------------------------------------------------------------------------
(* One agent per member. *)
LEMMA RunPair == \A x \in Run : x = <<x[1], x[2]>> /\ x[1] \in Member /\ x[2] \in {1, 2}
OBVIOUS

LEMMA FirstSecond == \A m \in Member : <<m, 1>> \in Run /\ <<m, 2>> \in Run /\ <<m, 1>> # <<m, 2>>
                                    /\ <<m, 1>>[1] = m /\ <<m, 2>>[1] = m /\ <<m, 1>>[2] = 1 /\ <<m, 2>>[2] = 2
OBVIOUS

(* Attempts and shims only come to an end. *)
Quieter ==
    /\ UNCHANGED <<token, attempt>> /\ excused \subseteq excused'
    /\ \A y \in Run : apc'[y] = apc[y] \/ (apc[y] # "none" /\ apc'[y] \in {"ended", "dead"})
    /\ \A y \in Run : \/ shim'[y] = shim[y]
                      \/ shim[y] # "none" /\ shim'[y] \in {"ended", "killed"}
                      \/ shim[y] = "running" /\ shim'[y] = "orphan" /\ y[1] \in excused'
    /\ \A y \in Run : y \in lost' => \/ y \in lost
                                     \/ /\ y[2] <= attempt[y[1]]
                                        /\ y[1] \in excused' \/ (apc'[y] \notin Launching /\ shim'[y] # "starting")
    /\ lost \subseteq lost'

LEMMA QuieterOK ==
  ASSUME IInv, AgentInv, Quieter
  PROVE  AgentInv'
<1> USE RunPair, FirstSecond
<1>0. "ended" \notin Launching /\ "dead" \notin Launching /\ "none" \notin Launching
  BY DEF Launching
<1>1. \A x \in Run : apc'[x] # "none" \/ x \in lost' => x[2] <= attempt'[x[1]]
  BY DEF AgentInv, Quieter
<1>2. \A m \in Member : attempt'[m] = 2 => <<m, 1>> \in lost'
  BY DEF AgentInv, Quieter
<1>3. \A m \in Member \ excused' : <<m, 1>> \in lost' => apc'[<<m, 1>>] \notin Launching /\ shim'[<<m, 1>>] # "starting"
  BY <1>0 DEF AgentInv, Quieter
<1>4. \A x \in Run : apc'[x] \in {"none"} \cup (Launching \ {"await"}) => shim'[x] = "none"
  BY <1>0 DEF AgentInv, Quieter
<1>5. \A x \in Run : shim'[x] = "starting" => apc'[x] \in {"await", "ended", "dead"}
  BY DEF AgentInv, Quieter
<1>6. \A x \in Run : token'[x[1]] = x[2] => shim'[x] \notin {"none", "starting"}
  BY DEF AgentInv, Quieter
<1>7. \A x \in Run : Verified(x)' => token'[x[1]] # 0
  BY DEF AgentInv, Quieter, Verified
<1>8. \A x \in Run : shim'[x] = "orphan" => x[1] \in excused'
  BY DEF AgentInv, Quieter
<1>9. \A m \in Member \ excused' :
          apc'[<<m, 2>>] \in Launching \ {"decide", "wait"} \/ shim'[<<m, 2>>] # "none"
             => shim'[<<m, 1>>] \notin {"starting", "ready", "running"}
  BY <1>0 DEF AgentInv, Quieter
<1>10. QED
  BY <1>1, <1>2, <1>3, <1>4, <1>5, <1>6, <1>7, <1>8, <1>9 DEF AgentInv

(* The first attempt's shim is gone for good when the second attempt may launch. *)
FirstGone(m) == m \notin excused => shim[<<m, 1>>] \notin {"starting", "ready", "running"}

LEMMA MovesOK ==
  ASSUME IInv, AgentInv, NEW x \in Run, NEW q, Move(x, q), UNCHANGED <<shim, token, lost, attempt, excused>>,
         apc[x] # "none", q # "none", q # "await",
         q \in Launching => apc[x] \in Launching \ {"await"},
         q \in Launching \ {"decide", "wait"} /\ x[2] = 2 => FirstGone(x[1]),
         q \notin Launching => shim[x] # "starting"
  PROVE  AgentInv'
<1> USE RunPair, FirstSecond
<1>0. apc' = [apc EXCEPT ![x] = q] /\ apc \in [Run -> AttemptPoint]
  BY DEF Move, IInv, TypeOK
<1>1. \A y \in Run : apc'[y] # "none" \/ y \in lost' => y[2] <= attempt'[y[1]]
  BY <1>0 DEF AgentInv
<1>2. \A m \in Member \ excused' : <<m, 1>> \in lost' => apc'[<<m, 1>>] \notin Launching /\ shim'[<<m, 1>>] # "starting"
  BY <1>0 DEF AgentInv
<1>3. \A y \in Run : apc'[y] \in {"none"} \cup (Launching \ {"await"}) => shim'[y] = "none"
  BY <1>0 DEF AgentInv
<1>4. \A y \in Run : shim'[y] = "starting" => apc'[y] \in {"await", "ended", "dead"}
  BY <1>0 DEF AgentInv
<1>5. \A m \in Member \ excused' :
          apc'[<<m, 2>>] \in Launching \ {"decide", "wait"} \/ shim'[<<m, 2>>] # "none"
             => shim'[<<m, 1>>] \notin {"starting", "ready", "running"}
  BY <1>0 DEF AgentInv, FirstGone
<1>6. QED
  BY <1>1, <1>2, <1>3, <1>4, <1>5 DEF AgentInv, Verified

(* A second attempt past its decision has no live predecessor. *)
LEMMA SecondAlone ==
  ASSUME IInv, AgentInv, NEW m \in Member, apc[<<m, 2>>] \in Launching, apc[<<m, 2>>] # "wait",
         apc[<<m, 2>>] = "decide" => ~TokenLive(m)
  PROVE  FirstGone(m)
<1> USE RunPair, FirstSecond
<1> SUFFICES ASSUME m \notin excused PROVE shim[<<m, 1>>] \notin {"starting", "ready", "running"}
  BY DEF FirstGone
<1>1. CASE apc[<<m, 2>>] # "decide"
  BY <1>1 DEF AgentInv
<1>2. CASE apc[<<m, 2>>] = "decide"
  <2>1. attempt[m] = 2 /\ token[m] \in {0, 1, 2}
    <3>1. attempt[m] \in 0..2 /\ token[m] \in 0..2
      BY DEF IInv, TypeOK
    <3>2. 2 <= attempt[m]
      BY <1>2 DEF AgentInv
    <3>3. QED
      BY <3>1, <3>2
  <2>2. shim[<<m, 1>>] # "starting"
    BY <2>1 DEF AgentInv
  <2>3. shim[<<m, 2>>] = "none"
    BY <1>2 DEF AgentInv, Launching
  <2>4. token[m] # 2
    BY <2>3 DEF AgentInv
  <2>5. ~Verified(<<m, 1>>)
    BY <1>2, <2>1, <2>4 DEF AgentInv, TokenLive
  <2>6. QED
    BY <2>2, <2>5 DEF Verified
<1>3. QED
  BY <1>1, <1>2

LEMMA AnswerQuiet ==
  ASSUME IInv, AgentInv, NEW x \in Run, apc[x] # "none",
         apc' = [apc EXCEPT ![x] = "ended"], UNCHANGED <<token, attempt>>, excused \subseteq excused',
         lost' = lost \/ (lost' = lost \cup {x} /\ shim[x] # "starting"),
         \A y \in Run : shim'[y] = shim[y] \/ (shim[y] # "none" /\ shim'[y] \in {"ended", "killed"})
  PROVE  AgentInv'
<1>1. apc \in [Run -> AttemptPoint]
  BY DEF IInv, TypeOK
<1>2. "ended" \notin Launching
  BY DEF Launching
<1>3. x[2] <= attempt[x[1]]
  BY DEF AgentInv
<1>4. Quieter
  BY <1>1, <1>2, <1>3 DEF Quieter
<1>5. QED
  BY <1>4, QuieterOK

LEMMA StoppedQuiet ==
  ASSUME NEW X, NEW S, Stopped(X, S)
  PROVE  \A y \in Run : shim'[y] = shim[y] \/ (shim[y] # "none" /\ shim'[y] \in {"ended", "killed"})
BY DEF Stopped, Verified

LEMMA SpawnOK ==
  ASSUME IInv, AgentInv, NEW x \in Run, apc[x] = "spawn", Move(x, "await"),
         shim' = [shim EXCEPT ![x] = "starting"], UNCHANGED <<token, lost, attempt, excused>>
  PROVE  AgentInv'
<1> USE RunPair, FirstSecond
<1>0. /\ apc' = [apc EXCEPT ![x] = "await"] /\ apc \in [Run -> AttemptPoint] /\ shim \in [Run -> ShimState]
      /\ "spawn" \in Launching \ {"await", "decide", "wait"} /\ shim[x] = "none"
  BY DEF Move, IInv, TypeOK, AgentInv, Launching
<1>1. \A y \in Run : apc'[y] # "none" \/ y \in lost' => y[2] <= attempt'[y[1]]
  BY <1>0 DEF AgentInv
<1>2. \A m \in Member \ excused' : <<m, 1>> \in lost' => apc'[<<m, 1>>] \notin Launching /\ shim'[<<m, 1>>] # "starting"
  BY <1>0 DEF AgentInv
<1>3. \A y \in Run : apc'[y] \in {"none"} \cup (Launching \ {"await"}) => shim'[y] = "none"
  BY <1>0 DEF AgentInv
<1>4. \A y \in Run : shim'[y] = "starting" => apc'[y] \in {"await", "ended", "dead"}
  BY <1>0 DEF AgentInv
<1>5. \A y \in Run : token'[y[1]] = y[2] => shim'[y] \notin {"none", "starting"}
  BY <1>0 DEF AgentInv
<1>6. \A y \in Run : (Verified(y)' => token'[y[1]] # 0) /\ (shim'[y] = "orphan" => y[1] \in excused')
  BY <1>0 DEF AgentInv, Verified
<1>7. ASSUME NEW m \in Member \ excused',
             apc'[<<m, 2>>] \in Launching \ {"decide", "wait"} \/ shim'[<<m, 2>>] # "none"
      PROVE  shim'[<<m, 1>>] \notin {"starting", "ready", "running"}
  <2>1. CASE x = <<m, 1>>
    <3>1. apc[<<m, 2>>] \in Launching \ {"decide", "wait"} \/ shim[<<m, 2>>] # "none"
      BY <1>0, <1>7, <2>1
    <3>2. apc[<<m, 2>>] # "none"
      BY <3>1 DEF AgentInv, Launching
    <3>3. 2 <= attempt[m] /\ attempt[m] \in 0..2
      BY <3>2 DEF AgentInv, IInv, TypeOK
    <3>4. <<m, 1>> \in lost
      BY <3>3 DEF AgentInv
    <3>5. QED
      BY <1>0, <2>1, <3>4 DEF AgentInv
  <2>2. CASE x = <<m, 2>>
    BY <1>0, <2>2 DEF AgentInv
  <2>3. CASE x # <<m, 1>> /\ x # <<m, 2>>
    BY <1>0, <1>7, <2>3 DEF AgentInv
  <2>4. QED
    BY <2>1, <2>2, <2>3
<1>8. QED
  BY <1>1, <1>2, <1>3, <1>4, <1>5, <1>6, <1>7 DEF AgentInv

LEMMA AgentAttempt ==
  ASSUME IInv, AgentInv, NEW x \in Run, Attempt(x)
  PROVE  AgentInv'
<1> USE RunPair, FirstSecond
<1>1. /\ {"decide", "claim", "claim2", "reclaim", "reclaim2", "write", "spawn", "await", "wait"} = Launching
      /\ "watch" \notin Launching /\ "stall" \notin Launching
  BY DEF Launching
<1>2. ASSUME NEW r, Answer(x, r), apc[x] # "none", UNCHANGED <<token, attempt>>, excused \subseteq excused', shim' = shim
      PROVE  AgentInv'
  <2>1. apc' = [apc EXCEPT ![x] = "ended"] /\ lost' = lost
    BY <1>2 DEF Answer
  <2>2. QED
    BY <1>2, <2>1, AnswerQuiet
<1>3. ASSUME x[2] = 2, apc[x] \in Launching \ {"wait"}, apc[x] = "decide" => ~TokenLive(x[1]) PROVE FirstGone(x[1])
  BY <1>3, SecondAlone
<1>4. ASSUME apc[x] \in {"decide", "wait"} PROVE shim[x] # "starting"
  BY <1>1, <1>4 DEF AgentInv
<1>5. CASE Decide(x)
  <2>1. apc[x] = "decide" /\ UNCHANGED <<token, attempt, excused, shim>>
    BY <1>5 DEF Decide, files
  <2>2. CASE \E r : Answer(x, r)
    BY <1>2, <2>1, <2>2
  <2>3. CASE Move(x, "watch") /\ lost' = lost
    BY <1>1, <1>4, <2>1, <2>3, MovesOK
  <2>4. CASE Move(x, "claim") /\ lost' = lost /\ ~TokenLive(x[1])
    BY <1>1, <1>3, <2>1, <2>4, MovesOK
  <2>5. QED
    BY <1>5, <2>2, <2>3, <2>4 DEF Decide, Watch
<1>6. CASE ClaimLaunch(x) \/ WriteClaim(x)
  <2>1. /\ apc[x] \in {"claim", "claim2", "write"} /\ UNCHANGED <<token, attempt, excused, shim, lost>>
        /\ \E q \in {"write", "reclaim", "reclaim2", "wait", "spawn"} : Move(x, q)
    BY <1>6 DEF ClaimLaunch, WriteClaim, temporal
  <2>2. QED
    BY <1>1, <1>3, <2>1, MovesOK
<1>7. CASE Reclaim(x)
  <2>1. apc[x] \in {"reclaim", "reclaim2"} /\ UNCHANGED <<token, attempt, excused, shim>>
    BY <1>7 DEF Reclaim
  <2>2. CASE Answer(x, "bad")
    BY <1>2, <2>1, <2>2
  <2>3. CASE (\E q \in {"claim2", "wait"} : Move(x, q)) /\ lost' = lost
    BY <1>1, <1>3, <2>1, <2>3, MovesOK
  <2>4. QED
    BY <1>7, <2>2, <2>3 DEF Reclaim
<1>8. CASE SpawnShim(x)
  <2>1. apc[x] = "spawn" /\ UNCHANGED <<token, attempt, excused>>
    BY <1>8 DEF SpawnShim
  <2>2. CASE Answer(x, "bad") /\ shim' = shim
    BY <1>2, <2>1, <2>2
  <2>3. CASE shim' = [shim EXCEPT ![x] = "starting"] /\ Move(x, "await") /\ lost' = lost
    BY <2>1, <2>3, SpawnOK
  <2>4. QED
    BY <1>8, <2>2, <2>3 DEF SpawnShim
<1>9. CASE AwaitToken(x)
  <2>1. apc[x] = "await" /\ UNCHANGED <<token, attempt, shim>> /\ excused \subseteq excused'
    BY <1>9 DEF AwaitToken
  <2>2. CASE Answer(x, "bad")
    BY <1>2, <2>1, <2>2
  <2>3. CASE token[x[1]] = x[2] /\ Move(x, "watch") /\ UNCHANGED <<lost, excused>>
    <3>1. shim[x] # "starting"
      BY <2>3 DEF AgentInv
    <3>2. QED
      BY <1>1, <2>1, <2>3, <3>1, MovesOK
  <2>4. QED
    BY <1>9, <2>2, <2>3 DEF AwaitToken, Watch
<1>10. CASE AwaitOther(x)
  <2>1. apc[x] = "wait" /\ UNCHANGED <<token, attempt, excused, shim>>
    BY <1>10 DEF AwaitOther, files
  <2>2. CASE Answer(x, "bad")
    BY <1>2, <2>1, <2>2
  <2>3. CASE Move(x, "watch") /\ lost' = lost
    BY <1>1, <1>4, <2>1, <2>3, MovesOK
  <2>4. QED
    BY <1>10, <2>2, <2>3 DEF AwaitOther, Watch
<1>11. CASE WatchEnds(x)
  <2>1. apc[x] = "watch" /\ UNCHANGED <<token, attempt, excused, shim>>
    BY <1>11 DEF WatchEnds, files
  <2>2. shim[x] # "starting"
    BY <2>1 DEF AgentInv
  <2>3. apc' = [apc EXCEPT ![x] = "ended"] /\ (lost' = lost \/ lost' = lost \cup {x})
    BY <1>11 DEF WatchEnds, Answer, AnswerRetry
  <2>4. QED
    BY <2>1, <2>2, <2>3, AnswerQuiet
<1>12. CASE StopWorker(x) \/ StopStalled(x)
  <2>1. apc[x] \in {"watch", "stall"} /\ UNCHANGED <<token, attempt, excused>>
    BY <1>12 DEF StopWorker, StopStalled
  <2>2. apc' = [apc EXCEPT ![x] = "ended"] /\ lost' = lost
    BY <1>12 DEF StopWorker, StopStalled, Answer
  <2>3. \A y \in Run : shim'[y] = shim[y] \/ (shim[y] # "none" /\ shim'[y] \in {"ended", "killed"})
    BY <1>12, StoppedQuiet DEF StopWorker, StopStalled
  <2>4. QED
    BY <2>1, <2>2, <2>3, AnswerQuiet
<1>13. QED
  BY <1>5, <1>6, <1>7, <1>8, <1>9, <1>10, <1>11, <1>12 DEF Attempt

LEMMA AgentShim ==
  ASSUME IInv, AgentInv, NEW x \in Run, Shim(x) \/ ShimKilled(x) \/ ShimOrphans(x)
  PROVE  AgentInv'
<1> USE RunPair, FirstSecond
<1>0. shim \in [Run -> ShimState] /\ token \in [Member -> 0..MaxAttempts] /\ x[1] \in Member /\ x[2] \in {1, 2}
  BY DEF IInv, TypeOK
<1>1. CASE ShimToken(x) \/ ShimRuns(x)
  <2>1. /\ UNCHANGED <<apc, lost, attempt, excused>>
        /\ \/ shim[x] = "starting" /\ shim' = [shim EXCEPT ![x] = "ready"] /\ token' = [token EXCEPT ![x[1]] = x[2]]
           \/ shim[x] = "ready" /\ shim' = [shim EXCEPT ![x] = "running"] /\ token' = token
    BY <1>1 DEF ShimToken, ShimRuns, temporal, attempts, files
  <2>2. \A y \in Run : apc'[y] # "none" \/ y \in lost' => y[2] <= attempt'[y[1]]
    BY <2>1 DEF AgentInv
  <2>3. \A m \in Member \ excused' : <<m, 1>> \in lost' => apc'[<<m, 1>>] \notin Launching /\ shim'[<<m, 1>>] # "starting"
    BY <1>0, <2>1 DEF AgentInv
  <2>4. \A y \in Run : apc'[y] \in {"none"} \cup (Launching \ {"await"}) => shim'[y] = "none"
    BY <1>0, <2>1 DEF AgentInv
  <2>5. \A y \in Run : shim'[y] = "starting" => apc'[y] \in {"await", "ended", "dead"}
    BY <1>0, <2>1 DEF AgentInv
  <2>6. ASSUME NEW y \in Run, token'[y[1]] = y[2] PROVE shim'[y] \notin {"none", "starting"}
    <3>1. CASE y = x
      BY <1>0, <2>1, <3>1
    <3>2. CASE y # x
      <4>1. y[1] \in Member /\ (y[1] # x[1] \/ y[2] # x[2])
        BY <3>2
      <4>2. token[y[1]] = y[2]
        BY <1>0, <2>1, <2>6, <4>1
      <4>3. QED
        BY <1>0, <2>1, <3>2, <4>2 DEF AgentInv
    <3>3. QED
      BY <3>1, <3>2
  <2>7. \A y \in Run : Verified(y)' => token'[y[1]] # 0
    BY <1>0, <2>1 DEF AgentInv, Verified
  <2>8. \A y \in Run : shim'[y] = "orphan" => y[1] \in excused'
    BY <1>0, <2>1 DEF AgentInv
  <2>9. \A m \in Member \ excused' :
            apc'[<<m, 2>>] \in Launching \ {"decide", "wait"} \/ shim'[<<m, 2>>] # "none"
               => shim'[<<m, 1>>] \notin {"starting", "ready", "running"}
    BY <1>0, <2>1 DEF AgentInv
  <2>10. \A m \in Member : attempt'[m] = 2 => <<m, 1>> \in lost'
    BY <2>1 DEF AgentInv
  <2>11. QED
    BY <2>2, <2>3, <2>4, <2>5, <2>6, <2>7, <2>8, <2>9, <2>10 DEF AgentInv
<1>2. CASE OrphanEnds(x) \/ ShimKilled(x) \/ ShimOrphans(x) \/ \E how \in {"committed", "failed"} : ShimRecords(x, how)
  <2>1. UNCHANGED <<apc, lost, attempt, token>> /\ excused \subseteq excused'
    BY <1>2 DEF OrphanEnds, ShimKilled, ShimOrphans, ShimRecords, temporal, attempts, files
  <2>2. /\ shim[x] # "none"
        /\ \/ \E s \in {"ended", "killed"} : shim' = [shim EXCEPT ![x] = s]
           \/ shim[x] = "running" /\ shim' = [shim EXCEPT ![x] = "orphan"] /\ x[1] \in excused'
    BY <1>2 DEF OrphanEnds, ShimKilled, ShimOrphans, ShimRecords
  <2>3. Quieter
    BY <1>0, <2>1, <2>2 DEF Quieter
  <2>4. QED
    BY <2>3, QuieterOK
<1>3. QED
  BY <1>1, <1>2 DEF Shim

LEMMA AgentDispatch ==
  ASSUME IInv, AgentInv, NEW m \in Member, NEW d \in Daemon, Dispatch(m, d)
  PROVE  AgentInv'
<1> USE RunPair, FirstSecond
<1> DEFINE y == <<m, attempt[m] + 1>>
<1>1. attempt \in [Member -> 0..MaxAttempts] /\ apc \in [Run -> AttemptPoint]
  BY DEF IInv, TypeOK
<1>2. act[m] = "open" /\ (attempt[m] = 0 \/ <<m, attempt[m]>> \in lost)
  BY DEF Dispatch, Current
<1>3. attempt[m] # MaxAttempts
  BY <1>2 DEF IInv, AttemptInv
<1>4. attempt[m] \in {0, 1} /\ y \in Run /\ y[1] = m /\ y[2] = attempt[m] + 1
  BY <1>1, <1>3
<1>5. /\ attempt' = [attempt EXCEPT ![m] = attempt[m] + 1] /\ apc' = [apc EXCEPT ![y] = "decide"]
      /\ UNCHANGED <<lost, shim, token, excused>>
  BY DEF Dispatch, files
<1>6. apc[y] = "none" /\ y \notin lost /\ shim[y] = "none"
  BY <1>1, <1>4 DEF AgentInv
<1>7. \A x \in Run : apc'[x] # "none" \/ x \in lost' => x[2] <= attempt'[x[1]]
  <2> SUFFICES ASSUME NEW x \in Run, apc'[x] # "none" \/ x \in lost' PROVE x[2] <= attempt'[x[1]]
    OBVIOUS
  <2>1. CASE x = y
    BY <1>1, <1>4, <1>5, <2>1
  <2>2. CASE x # y
    <3>1. x[2] <= attempt[x[1]]
      BY <1>1, <1>4, <1>5, <2>2 DEF AgentInv
    <3>2. QED
      BY <1>1, <1>4, <1>5, <3>1
  <2>3. QED
    BY <2>1, <2>2
<1>8. ASSUME NEW n \in Member, attempt'[n] = 2 PROVE <<n, 1>> \in lost'
  <2>1. CASE n = m
    <3>1. attempt[m] = 1
      BY <1>1, <1>4, <1>5, <1>8, <2>1
    <3>2. <<m, 1>> \in lost
      BY <1>2, <3>1
    <3>3. QED
      BY <1>5, <2>1, <3>2
  <2>2. CASE n # m
    BY <1>1, <1>5, <1>8, <2>2 DEF AgentInv
  <2>3. QED
    BY <2>1, <2>2
<1>9. \A n \in Member \ excused' : <<n, 1>> \in lost' => apc'[<<n, 1>>] \notin Launching /\ shim'[<<n, 1>>] # "starting"
  BY <1>1, <1>4, <1>5, <1>6 DEF AgentInv
<1>10. \A x \in Run : apc'[x] \in {"none"} \cup (Launching \ {"await"}) => shim'[x] = "none"
  BY <1>1, <1>4, <1>5, <1>6 DEF AgentInv
<1>11. \A x \in Run : shim'[x] = "starting" => apc'[x] \in {"await", "ended", "dead"}
  BY <1>1, <1>4, <1>5, <1>6 DEF AgentInv
<1>12. \A x \in Run : (token'[x[1]] = x[2] => shim'[x] \notin {"none", "starting"})
                   /\ (Verified(x)' => token'[x[1]] # 0) /\ (shim'[x] = "orphan" => x[1] \in excused')
  BY <1>5 DEF AgentInv, Verified
<1>13. \A n \in Member \ excused' :
           apc'[<<n, 2>>] \in Launching \ {"decide", "wait"} \/ shim'[<<n, 2>>] # "none"
              => shim'[<<n, 1>>] \notin {"starting", "ready", "running"}
  BY <1>1, <1>4, <1>5, <1>6 DEF AgentInv
<1>14. QED
  BY <1>7, <1>8, <1>9, <1>10, <1>11, <1>12, <1>13 DEF AgentInv

LEMMA AgentHeartbeat ==
  ASSUME IInv, AgentInv, NEW m \in Member, HeartbeatTimeout(m)
  PROVE  AgentInv'
<1> DEFINE y == <<m, attempt[m]>>
<1>1. attempt[m] \in 1..MaxAttempts /\ y \in Run /\ y[1] = m /\ y[2] = attempt[m]
  BY DEF IInv, TypeOK, HeartbeatTimeout
<1>2. /\ lost' = lost \cup {y} /\ UNCHANGED <<apc, shim, token, attempt>>
      /\ excused' = IF shim[y] = "starting" \/ apc[y] \in Launching THEN excused \cup {m} ELSE excused
  BY DEF HeartbeatTimeout, Current, Untracked, attempts, files
<1>3. Quieter
  BY <1>1, <1>2 DEF Quieter
<1>4. QED
  BY <1>3, QuieterOK

(* The workflow's own steps do not touch an attempt, but abort_fleet stops shims. *)
LEMMA AgentUntouched ==
  ASSUME IInv, AgentInv, UNCHANGED <<apc, shim, token, lost, attempt, excused>>
  PROVE  AgentInv'
<1>1. Quieter
  BY DEF Quieter
<1>2. QED
  BY <1>1, QuieterOK

LEMMA AgentWorkflow ==
  ASSUME IInv, AgentInv, Workflow
  PROVE  AgentInv'
<1>1. CASE AbortFleet
  <2>1. UNCHANGED <<apc, token, lost, attempt, excused>>
    BY <1>1 DEF AbortFleet, attempts
  <2>2. \A y \in Run : shim'[y] = shim[y] \/ (shim[y] # "none" /\ shim'[y] \in {"ended", "killed"})
    BY <1>1, StoppedQuiet DEF AbortFleet
  <2>3. Quieter
    BY <2>1, <2>2 DEF Quieter
  <2>4. QED
    BY <2>3, QuieterOK
<1>2. CASE ~AbortFleet
  <2>1. UNCHANGED <<apc, shim, token, lost, attempt, excused>>
    BY <1>2 DEF Workflow, StartFleet, PrepareFleet, RecordFails, AfterMembers, CancelledMeanwhile,
                RecordOutcome, CancelReported, FinalizeCount, FinalizeMerge, Complete, attempts, files
  <2>2. QED
    BY <2>1, AgentUntouched
<1>3. QED
  BY <1>1, <1>2

LEMMA AgentFaults ==
  ASSUME IInv, AgentInv, Faults
  PROVE  AgentInv'
<1>1. CASE CancelFleet \/ PrepareFails \/ FinalizeLost
  <2>1. UNCHANGED <<apc, shim, token, lost, attempt, excused>>
    BY <1>1 DEF CancelFleet, PrepareFails, FinalizeLost, attempts, files
  <2>2. QED
    BY <2>1, AgentUntouched
<1>2. ASSUME NEW d \in Daemon, DaemonDies(d) PROVE AgentInv'
  <2>1. /\ apc' = [x \in Run |-> IF Busy(x) /\ on[x] = d THEN "dead" ELSE apc[x]]
        /\ UNCHANGED <<shim, token, lost, attempt, excused>>
    BY <1>2 DEF DaemonDies, temporal, files
  <2>2. Quieter
    BY <2>1 DEF Quieter, Busy
  <2>3. QED
    BY <2>2, QuieterOK
<1>3. ASSUME NEW x \in Run, SeesStall(x) PROVE AgentInv'
  <2>1. apc[x] = "watch" /\ Move(x, "stall") /\ UNCHANGED <<shim, token, lost, attempt, excused>>
    BY <1>3 DEF SeesStall, temporal, files
  <2>2. shim[x] # "starting" /\ "stall" \notin Launching
    BY <2>1 DEF AgentInv, Launching
  <2>3. QED
    BY <2>1, <2>2, MovesOK
<1>4. QED
  BY <1>1, <1>2, <1>3, AgentShim DEF Faults

LEMMA NextAgentInv == IInv /\ AgentInv /\ [Next]_vars => AgentInv'
<1> SUFFICES ASSUME IInv, AgentInv, [Next]_vars PROVE AgentInv'
  OBVIOUS
<1>1. CASE \E m \in Member : HeartbeatTimeout(m) \/ \E d \in Daemon : Dispatch(m, d)
  BY <1>1, AgentHeartbeat, AgentDispatch
<1>2. CASE \E x \in Run : Attempt(x) \/ Shim(x)
  BY <1>2, AgentAttempt, AgentShim
<1>3. CASE UNCHANGED vars
  BY <1>3, AgentUntouched DEF vars, temporal, attempts, files
<1>4. QED
  BY <1>1, <1>2, <1>3, AgentWorkflow, AgentFaults DEF Next

LEMMA InitAgentInv == Init => AgentInv
<1> SUFFICES ASSUME Init PROVE AgentInv
  OBVIOUS
<1> USE RunPair, FirstSecond DEF Init
<1>1. \A x \in Run : apc[x] = "none" /\ shim[x] = "none" /\ token[x[1]] = 0 /\ x \notin lost
  OBVIOUS
<1>2. \A m \in Member : attempt[m] = 0
  OBVIOUS
<1>3. "none" \notin Launching
  BY DEF Launching
<1>4. QED
  BY <1>1, <1>2, <1>3 DEF AgentInv, Verified

-----------------------------------------------------------------------------
(* A successful abort leaves no agent. *)

\* No step starts a shim except an attempt's spawn, and none starts a launch but a dispatch.
Calm ==
    /\ excused \subseteq excused' /\ (early => early')
    /\ \A y \in Run : shim'[y] = "starting" => shim[y] = "starting" \/ apc[y] = "spawn"
    /\ \A y \in Run : shim'[y] \in Alive => shim[y] \in Alive \/ apc[y] = "spawn"
    /\ \A y \in Run : apc'[y] \in Launching => apc[y] \in Launching \/ act[y[1]] = "open"

LEMMA CalmAttempt ==
  ASSUME IInv, NEW x \in Run, Attempt(x)
  PROVE  Calm
<1> USE DEF Alive
<1>0. apc \in [Run -> AttemptPoint] /\ shim \in [Run -> ShimState]
  BY DEF IInv, TypeOK
<1>1. excused \subseteq excused' /\ early' = early
  BY DEF Attempt, Decide, ClaimLaunch, WriteClaim, Reclaim, SpawnShim, AwaitToken, AwaitOther, WatchEnds, StopWorker, StopStalled
<1>2. \A y \in Run : shim'[y] = shim[y] \/ (shim[y] # "none" /\ shim'[y] \in {"ended", "killed"})
                                        \/ (apc[y] = "spawn" /\ shim'[y] = "starting")
  <2>1. CASE Decide(x) \/ ClaimLaunch(x) \/ WriteClaim(x) \/ Reclaim(x) \/ AwaitToken(x) \/ AwaitOther(x) \/ WatchEnds(x)
    BY <2>1 DEF Decide, ClaimLaunch, WriteClaim, Reclaim, AwaitToken, AwaitOther, WatchEnds
  <2>2. CASE SpawnShim(x)
    BY <1>0, <2>2 DEF SpawnShim
  <2>3. CASE StopWorker(x) \/ StopStalled(x)
    BY <2>3, StoppedQuiet DEF StopWorker, StopStalled
  <2>4. QED
    BY <2>1, <2>2, <2>3 DEF Attempt
<1>3. \E q : apc' = [apc EXCEPT ![x] = q] /\ (q \in Launching => apc[x] \in Launching)
  <2>0. "ended" \notin Launching /\ "watch" \notin Launching
    BY DEF Launching
  <2>1. apc[x] \in Launching \/ apc[x] \in {"watch", "stall"}
    BY DEF Attempt, Decide, ClaimLaunch, WriteClaim, Reclaim, SpawnShim, AwaitToken, AwaitOther, WatchEnds, StopWorker, StopStalled, Launching
  <2>2. CASE apc[x] \in Launching
    BY <2>2 DEF Attempt, Decide, ClaimLaunch, WriteClaim, Reclaim, SpawnShim, AwaitToken, AwaitOther, WatchEnds, StopWorker, StopStalled,
                Answer, AnswerRetry, Watch, Move
  <2>3. CASE apc[x] \in {"watch", "stall"}
    <3>1. WatchEnds(x) \/ StopWorker(x) \/ StopStalled(x)
      BY <2>3 DEF Attempt, Decide, ClaimLaunch, WriteClaim, Reclaim, SpawnShim, AwaitToken, AwaitOther
    <3>2. apc' = [apc EXCEPT ![x] = "ended"]
      BY <3>1 DEF WatchEnds, StopWorker, StopStalled, Answer, AnswerRetry
    <3>3. QED
      BY <2>0, <3>2
  <2>4. QED
    BY <2>1, <2>2, <2>3
<1>4. QED
  BY <1>0, <1>1, <1>2, <1>3 DEF Calm

LEMMA CalmStep ==
  ASSUME IInv, [Next]_vars
  PROVE  Calm
<1> USE DEF Alive
<1>0. /\ apc \in [Run -> AttemptPoint] /\ shim \in [Run -> ShimState] /\ early \in BOOLEAN
      /\ excused \subseteq Member
  BY DEF IInv, TypeOK
<1>1. CASE AbortFleet
  <2>1. UNCHANGED <<apc, excused, early>>
    BY <1>1 DEF AbortFleet, attempts
  <2>2. \A y \in Run : shim'[y] = shim[y] \/ (shim[y] # "none" /\ shim'[y] \in {"ended", "killed"})
    BY <1>1, StoppedQuiet DEF AbortFleet
  <2>3. QED
    BY <2>1, <2>2 DEF Calm
<1>2. CASE Workflow /\ ~AbortFleet
  <2>1. UNCHANGED <<apc, shim, excused>>
    BY <1>2 DEF Workflow, StartFleet, PrepareFleet, RecordFails, AfterMembers, CancelledMeanwhile,
                RecordOutcome, CancelReported, FinalizeCount, FinalizeMerge, Complete, attempts
  <2>2. early => early'
    BY <1>2 DEF Workflow, StartFleet, PrepareFleet, RecordFails, AfterMembers, CancelledMeanwhile,
                RecordOutcome, CancelReported, FinalizeCount, FinalizeMerge, Complete
  <2>3. QED
    BY <2>1, <2>2 DEF Calm
<1>3. CASE CancelFleet \/ PrepareFails \/ FinalizeLost \/ UNCHANGED vars
  <2>1. UNCHANGED <<apc, shim, excused, early>>
    BY <1>3 DEF CancelFleet, PrepareFails, FinalizeLost, attempts, vars
  <2>2. QED
    BY <2>1 DEF Calm
<1>4. ASSUME NEW d \in Daemon, DaemonDies(d) PROVE Calm
  <2>1. "dead" \notin Launching
    BY DEF Launching
  <2>2. QED
    BY <1>4, <2>1 DEF DaemonDies, Calm
<1>5. ASSUME NEW x \in Run, SeesStall(x) PROVE Calm
  <2>1. "stall" \notin Launching
    BY DEF Launching
  <2>2. QED
    BY <1>0, <1>5, <2>1 DEF SeesStall, Move, Calm
<1>6. ASSUME NEW x \in Run, Shim(x) \/ ShimKilled(x) \/ ShimOrphans(x) PROVE Calm
  <2>1. UNCHANGED <<apc, early>> /\ excused \subseteq excused'
    BY <1>6 DEF Shim, ShimToken, ShimRuns, OrphanEnds, ShimRecords, ShimKilled, ShimOrphans, attempts
  <2>2. \E q \in ShimState \ {"none", "starting"} : shim' = [shim EXCEPT ![x] = q] /\ (q \in Alive => shim[x] \in Alive)
    BY <1>6 DEF Shim, ShimToken, ShimRuns, OrphanEnds, ShimRecords, ShimKilled, ShimOrphans, ShimState
  <2>3. QED
    BY <1>0, <2>1, <2>2 DEF Calm
<1>7. ASSUME NEW m \in Member, HeartbeatTimeout(m) PROVE Calm
  BY <1>0, <1>7 DEF HeartbeatTimeout, attempts, Calm
<1>8. ASSUME NEW m \in Member, NEW d \in Daemon, Dispatch(m, d) PROVE Calm
  <2>1. /\ act[m] = "open" /\ apc' = [apc EXCEPT ![<<m, attempt[m] + 1>>] = "decide"]
        /\ UNCHANGED <<shim, excused, early>>
    BY <1>8 DEF Dispatch
  <2>2. \A y \in Run : apc'[y] = apc[y] \/ y[1] = m
    BY <1>0, <2>1
  <2>3. QED
    BY <2>1, <2>2 DEF Calm
<1>9. QED
  BY <1>1, <1>2, <1>3, <1>4, <1>5, <1>6, <1>7, <1>8, CalmAttempt DEF Next, Faults

\* The token names the live shim.
LEMMA TokenNamesLive ==
  ASSUME IInv, AgentInv, StopInv, [Next]_vars
  PROVE  \A x \in Run : Verified(x)' /\ x[1] \notin excused' => token'[x[1]] = x[2]
<1> USE RunPair, FirstSecond
<1>0. /\ shim \in [Run -> ShimState] /\ token \in [Member -> 0..MaxAttempts] /\ Calm
      /\ \A x \in Run : Verified(x) /\ x[1] \notin excused => token[x[1]] = x[2]
  BY CalmStep DEF IInv, TypeOK, StopInv
<1>1. ASSUME token' = token, \A y \in Run : Verified(y)' => Verified(y)
      PROVE  \A x \in Run : Verified(x)' /\ x[1] \notin excused' => token'[x[1]] = x[2]
  BY <1>0, <1>1 DEF Calm
<1>2. ASSUME NEW x \in Run, ShimToken(x), NEW y \in Run, Verified(y)', y[1] \notin excused'
      PROVE  token'[y[1]] = y[2]
  <2>1. /\ shim[x] = "starting" /\ shim' = [shim EXCEPT ![x] = "ready"]
        /\ token' = [token EXCEPT ![x[1]] = x[2]] /\ excused' = excused
    BY <1>2 DEF ShimToken
  <2>2. CASE y[1] # x[1]
    <3>1. Verified(y) /\ token'[y[1]] = token[y[1]]
      BY <1>0, <1>2, <2>1, <2>2 DEF Verified
    <3>2. QED
      BY <1>0, <1>2, <2>1, <3>1
  <2>3. CASE y = x
    BY <1>0, <2>1, <2>3
  <2>4. CASE y[1] = x[1] /\ y # x
    <3>1. Verified(y)
      BY <1>0, <1>2, <2>1, <2>4 DEF Verified
    <3>2. (x[2] = 2 /\ y[2] = 1) \/ (x[2] = 1 /\ y[2] = 2)
      <4>1. x = <<x[1], x[2]>> /\ y = <<y[1], y[2]>> /\ x[2] \in {1, 2} /\ y[2] \in {1, 2}
        BY <1>2
      <4>2. x[2] # y[2]
        BY <2>4, <4>1
      <4>3. CASE x[2] = 1
        BY <4>1, <4>2, <4>3
      <4>4. CASE x[2] = 2
        BY <4>1, <4>2, <4>4
      <4>5. QED
        BY <4>1, <4>3, <4>4
    <3>3. QED
      BY <1>2, <2>1, <2>4, <3>1, <3>2 DEF AgentInv, Verified
  <2>5. QED
    BY <2>2, <2>3, <2>4
<1>3. ASSUME NEW x \in Run, Shim(x) \/ ShimKilled(x) \/ ShimOrphans(x), ~ShimToken(x)
      PROVE  token' = token /\ \A y \in Run : Verified(y)' => Verified(y)
  BY <1>0, <1>3 DEF Shim, ShimRuns, OrphanEnds, ShimRecords, ShimKilled, ShimOrphans, files, Verified
<1>4. CASE Workflow
  <2>1. CASE AbortFleet
    <3>1. token' = token
      BY <2>1 DEF AbortFleet
    <3>2. \A y \in Run : shim'[y] = shim[y] \/ shim'[y] \in {"ended", "killed"}
      BY <2>1, StoppedQuiet DEF AbortFleet
    <3>3. QED
      BY <1>1, <3>1, <3>2 DEF Verified
  <2>2. CASE ~AbortFleet
    <3>1. UNCHANGED <<token, shim>>
      BY <1>4, <2>2 DEF Workflow, StartFleet, PrepareFleet, RecordFails, AfterMembers, CancelledMeanwhile,
                        RecordOutcome, CancelReported, FinalizeCount, FinalizeMerge, Complete, files
    <3>2. QED
      BY <1>1, <3>1 DEF Verified
  <2>3. QED
    BY <2>1, <2>2
<1>5. ASSUME UNCHANGED <<token, shim>>
      PROVE  \A x \in Run : Verified(x)' /\ x[1] \notin excused' => token'[x[1]] = x[2]
  BY <1>1, <1>5 DEF Verified
<1>6. CASE CancelFleet \/ PrepareFails \/ FinalizeLost \/ UNCHANGED vars
           \/ (\E d \in Daemon : DaemonDies(d)) \/ (\E x \in Run : SeesStall(x))
           \/ (\E m \in Member : HeartbeatTimeout(m) \/ \E d \in Daemon : Dispatch(m, d))
  <2>1. UNCHANGED <<token, shim>>
    BY <1>6 DEF CancelFleet, PrepareFails, FinalizeLost, vars, DaemonDies, SeesStall, HeartbeatTimeout, Dispatch, files
  <2>2. QED
    BY <1>5, <2>1
<1>7. ASSUME NEW x \in Run, Attempt(x)
      PROVE  token' = token /\ \A y \in Run : Verified(y)' => Verified(y)
  <2>1. token' = token
    BY <1>7 DEF Attempt, Decide, ClaimLaunch, WriteClaim, Reclaim, SpawnShim, AwaitToken, AwaitOther, WatchEnds, StopWorker, StopStalled, files
  <2>2. \A y \in Run : shim'[y] = shim[y] \/ shim'[y] \in {"ended", "killed", "starting"}
    <3>1. CASE StopWorker(x) \/ StopStalled(x)
      BY <3>1, StoppedQuiet DEF StopWorker, StopStalled
    <3>2. CASE ~(StopWorker(x) \/ StopStalled(x))
      BY <1>0, <1>7, <3>2 DEF Attempt, Decide, ClaimLaunch, WriteClaim, Reclaim, SpawnShim, AwaitToken, AwaitOther, WatchEnds
    <3>3. QED
      BY <3>1, <3>2
  <2>3. QED
    BY <2>1, <2>2 DEF Verified
<1>8. QED
  BY <1>1, <1>2, <1>3, <1>4, <1>6, <1>7 DEF Next, Faults

\* An attempt that Temporal waits for has nobody launching beside it.
LEMMA AloneLaunching ==
  ASSUME IInv, AgentInv, NEW x \in Run, NEW y \in Run, y[1] = x[1], y # x,
         x[1] \notin excused, attempt[x[1]] = x[2]
  PROVE  apc[y] \notin Launching /\ shim[y] # "starting"
<1> USE RunPair, FirstSecond
<1>1. x = <<x[1], x[2]>> /\ y = <<x[1], y[2]>> /\ x[1] \in Member /\ x[2] \in {1, 2} /\ y[2] \in {1, 2} /\ x[2] # y[2]
  OBVIOUS
<1>2. CASE x[2] = 1
  <2>1. y = <<x[1], 2>> /\ ~(2 <= attempt[x[1]])
    BY <1>1, <1>2
  <2>2. apc[y] = "none"
    BY <2>1 DEF AgentInv
  <2>3. shim[y] = "none" /\ "none" \notin Launching
    BY <2>2 DEF AgentInv, Launching
  <2>4. QED
    BY <2>2, <2>3
<1>3. CASE x[2] = 2
  <2>1. y = <<x[1], 1>> /\ attempt[x[1]] = 2
    BY <1>1, <1>3
  <2>2. y \in lost
    BY <1>1, <2>1 DEF AgentInv
  <2>3. QED
    BY <1>1, <2>1, <2>2 DEF AgentInv
<1>4. QED
  BY <1>1, <1>2, <1>3

\* An answer that settles a member comes from its current attempt, and nothing of it is untracked.
LEMMA AttemptSettles ==
  ASSUME IInv, AgentInv, NEW x \in Run, Attempt(x), NEW m \in Member, act'[m] # act[m], m \notin excused'
  PROVE  /\ x[1] = m /\ attempt[m] = x[2] /\ apc' = [apc EXCEPT ![x] = "ended"]
         /\ shim[x] # "starting" /\ (apc[x] = "spawn" => shim' = shim)
<1> USE RunPair, FirstSecond
<1>0. /\ act \in [Member -> Act] /\ attempt \in [Member -> 0..MaxAttempts] /\ x = <<x[1], x[2]>>
      /\ x[1] \in Member /\ x[2] \in {1, 2} /\ attempt[x[1]] \in 0..2
  BY DEF IInv, TypeOK, Act
<1>1. (\E r : Answer(x, r)) \/ (AnswerRetry(x) /\ LastAttempt(x[2]))
  <2>1. act' # act
    OBVIOUS
  <2>2. ~(ClaimLaunch(x) \/ WriteClaim(x))
    BY <2>1 DEF ClaimLaunch, WriteClaim, temporal
  <2>3. CASE WatchEnds(x)
    BY <2>1, <2>3 DEF WatchEnds, AnswerRetry
  <2>4. CASE Decide(x) \/ Reclaim(x)
    BY <2>1, <2>4, Zenon DEF Decide, Reclaim
  <2>5. CASE SpawnShim(x) \/ AwaitToken(x)
    BY <2>1, <2>5, Zenon DEF SpawnShim, AwaitToken
  <2>6. CASE AwaitOther(x) \/ StopWorker(x) \/ StopStalled(x)
    BY <2>1, <2>6, Zenon DEF AwaitOther, StopWorker, StopStalled
  <2>7. QED
    BY <2>2, <2>3, <2>4, <2>5, <2>6 DEF Attempt
<1>2. apc' = [apc EXCEPT ![x] = "ended"]
  BY <1>1 DEF Answer, AnswerRetry
<1>3. x[1] = m /\ act[m] = "open" /\ x \notin lost
  BY <1>0, <1>1 DEF Answer, AnswerRetry
<1>4. apc[x] \notin {"none", "ended", "dead"}
  BY DEF Attempt, Decide, ClaimLaunch, WriteClaim, Reclaim, SpawnShim, AwaitToken, AwaitOther, WatchEnds, StopWorker, StopStalled
<1>5. attempt[m] = x[2]
  <2>1. x[2] <= attempt[m]
    BY <1>3, <1>4 DEF AgentInv
  <2>2. attempt[m] = 2 => x # <<m, 1>>
    BY <1>3 DEF AgentInv
  <2>3. QED
    BY <1>0, <1>3, <2>1, <2>2
<1>6. shim[x] # "starting"
  <2>1. CASE AwaitToken(x)
    <3>1. shim[x] = "killed" \/ token[x[1]] = x[2]
      BY <1>3, <2>1 DEF AwaitToken
    <3>2. QED
      BY <3>1 DEF AgentInv
  <2>2. CASE ~AwaitToken(x)
    <3>1. apc[x] # "await"
      BY <2>2 DEF Attempt, Decide, ClaimLaunch, WriteClaim, Reclaim, SpawnShim, AwaitOther, WatchEnds, StopWorker, StopStalled
    <3>2. QED
      BY <1>4, <3>1 DEF AgentInv
  <2>3. QED
    BY <2>1, <2>2
<1>7. apc[x] = "spawn" => shim' = shim
  <2>1. ASSUME apc[x] = "spawn" PROVE shim' = shim
    <3>1. SpawnShim(x)
      BY <2>1 DEF Attempt, Decide, ClaimLaunch, WriteClaim, Reclaim, AwaitToken, AwaitOther, WatchEnds, StopWorker, StopStalled
    <3>2. QED
      BY <3>1 DEF SpawnShim
  <2>2. QED
    BY <2>1
<1>8. QED
  BY <1>2, <1>3, <1>5, <1>6, <1>7

LEMMA SettledQuiet ==
  ASSUME IInv, AgentInv, StopInv, [Next]_vars, ~early', NEW m \in Member, m \notin excused', Settled(m)'
  PROVE  NotLaunching(m)'
<1> USE RunPair, FirstSecond
<1>0. /\ Calm /\ ~early /\ m \notin excused /\ "spawn" \in Launching /\ "ended" \notin Launching
      /\ apc \in [Run -> AttemptPoint] /\ act \in [Member -> Act] /\ attempt \in [Member -> 0..MaxAttempts]
  BY CalmStep DEF Calm, Launching, IInv, TypeOK, Act
<1>1. CASE Settled(m)
  <2>1. NotLaunching(m) /\ act[m] # "open"
    BY <1>0, <1>1 DEF StopInv, Settled
  <2>2. ASSUME NEW a \in 1..MaxAttempts PROVE apc'[<<m, a>>] \notin Launching /\ shim'[<<m, a>>] # "starting"
    <3>1. <<m, a>> \in Run /\ <<m, a>>[1] = m
      OBVIOUS
    <3>2. apc[<<m, a>>] \notin Launching /\ shim[<<m, a>>] # "starting"
      BY <2>1 DEF NotLaunching
    <3>3. QED
      BY <1>0, <2>1, <3>1, <3>2 DEF Calm
  <2>3. QED
    BY <2>2 DEF NotLaunching
<1>2. ASSUME NEW x \in Run, x[1] = m, attempt[m] = x[2], apc'[x] \notin Launching, shim'[x] # "starting",
             \A y \in Run : y # x => apc'[y] = apc[y]
      PROVE  NotLaunching(m)'
  <2> SUFFICES ASSUME NEW a \in 1..MaxAttempts PROVE apc'[<<m, a>>] \notin Launching /\ shim'[<<m, a>>] # "starting"
    BY DEF NotLaunching
  <2>1. CASE x = <<m, a>>
    BY <1>2, <2>1
  <2>2. CASE x # <<m, a>>
    <3>1. apc[<<m, a>>] \notin Launching /\ shim[<<m, a>>] # "starting"
      BY <1>0, <1>2, <2>2, AloneLaunching
    <3>2. QED
      BY <1>0, <1>2, <2>2, <3>1 DEF Calm
  <2>3. QED
    BY <2>1, <2>2
<1>3. CASE ~Settled(m)
  <2>0. act'[m] # act[m] /\ act'[m] \notin {"idle", "open"}
    BY <1>3 DEF Settled
  <2>1. ASSUME NEW x \in Run, Attempt(x) PROVE NotLaunching(m)'
    <3>1. /\ x[1] = m /\ attempt[m] = x[2] /\ apc' = [apc EXCEPT ![x] = "ended"]
          /\ shim[x] # "starting" /\ (apc[x] = "spawn" => shim' = shim)
      BY <2>0, <2>1, AttemptSettles
    <3>2. shim'[x] # "starting" /\ apc'[x] \notin Launching /\ \A y \in Run : y # x => apc'[y] = apc[y]
      BY <1>0, <3>1 DEF Calm
    <3>3. QED
      BY <1>2, <3>1, <3>2
  <2>2. ASSUME NEW n \in Member, HeartbeatTimeout(n) PROVE NotLaunching(m)'
    <3>1. /\ n = m /\ attempt[m] > 0 /\ UNCHANGED <<apc, shim>>
          /\ excused' = IF Untracked(Current(m)) \/ apc[Current(m)] \in Launching THEN excused \cup {m} ELSE excused
      BY <1>0, <2>0, <2>2 DEF HeartbeatTimeout, attempts
    <3>2. Current(m) \in Run /\ Current(m)[1] = m /\ Current(m)[2] = attempt[m]
      BY <1>0, <3>1 DEF Current
    <3>3. apc[Current(m)] \notin Launching /\ shim[Current(m)] # "starting"
      BY <3>1 DEF Untracked
    <3>4. QED
      BY <1>2, <3>1, <3>2, <3>3
  <2>3. ASSUME NEW n \in Member, CancelReported(n) PROVE NotLaunching(m)'
    <3>1. n = m /\ UNCHANGED <<apc, shim>>
      BY <1>0, <2>0, <2>3 DEF CancelReported, attempts
    <3>2. \A a \in 1..MaxAttempts : ~Busy(<<m, a>>) /\ ~Untracked(<<m, a>>)
      BY <2>3, <3>1 DEF CancelReported
    <3>3. "none" \notin Launching /\ "ended" \notin Launching /\ "dead" \notin Launching
      BY DEF Launching
    <3>4. QED
      BY <3>1, <3>2, <3>3 DEF NotLaunching, Busy, Untracked
  <2>4. ~PrepareFleet
    BY <1>0, <2>0 DEF PrepareFleet
  <2>5. CASE Workflow
    <3>1. \E n \in Member : CancelReported(n)
      BY <2>0, <2>4, <2>5 DEF Workflow, StartFleet, RecordFails, AfterMembers, CancelledMeanwhile, RecordOutcome,
                              FinalizeCount, FinalizeMerge, Complete, AbortFleet
    <3>2. QED
      BY <2>3, <3>1
  <2>6. ~Faults /\ ~UNCHANGED vars
    BY <2>0 DEF Faults, CancelFleet, PrepareFails, FinalizeLost, DaemonDies, ShimKilled, ShimOrphans, SeesStall, temporal, vars
  <2>7. ASSUME NEW x \in Run PROVE ~Shim(x)
    BY <2>0 DEF Shim, ShimToken, ShimRuns, OrphanEnds, ShimRecords, temporal
  <2>8. ASSUME NEW n \in Member, NEW d \in Daemon PROVE ~Dispatch(n, d)
    BY <2>0 DEF Dispatch
  <2>9. QED
    BY <2>1, <2>2, <2>5, <2>6, <2>7, <2>8 DEF Next
<1>4. QED
  BY <1>1, <1>3

\* Once the workflow has ended its drive, no member is launching anything.
LEMMA PastQuiet ==
  ASSUME IInv, AgentInv, StopInv, Past, ~early, NEW m \in Member, m \notin excused, NEW a \in 1..MaxAttempts
  PROVE  apc[<<m, a>>] \notin Launching /\ shim[<<m, a>>] # "starting"
<1> USE RunPair, FirstSecond
<1>1. CASE Joined
  <2>1. Settled(m)
    BY <1>1 DEF Joined, Settled
  <2>2. NotLaunching(m)
    BY <2>1 DEF StopInv
  <2>3. QED
    BY <2>2 DEF NotLaunching
<1>2. CASE Idle
  <2>1. <<m, a>> \in Run /\ <<m, a>>[1] = m
    OBVIOUS
  <2>2. apc[<<m, a>>] = "none"
    BY <1>2, <2>1 DEF Idle, IInv, AttemptInv
  <2>3. shim[<<m, a>>] = "none" /\ "none" \notin Launching
    BY <2>1, <2>2 DEF AgentInv, Launching
  <2>4. QED
    BY <2>2, <2>3
<1>3. QED
  BY <1>1, <1>2 DEF IInv, LedgerInv

LEMMA OnlyAbortEnds ==
  ASSUME [Next]_vars, wf' \in {"failed", "cancelled"}
  PROVE  wf' = wf \/ AbortFleet
<1>1. CASE Workflow
  BY <1>1 DEF Workflow, StartFleet, PrepareFleet, RecordFails, AfterMembers, CancelledMeanwhile, RecordOutcome,
              CancelReported, FinalizeCount, FinalizeMerge, Complete, Abort
<1>2. CASE Faults
  BY <1>2 DEF Faults, CancelFleet, PrepareFails, FinalizeLost, DaemonDies, ShimKilled, ShimOrphans, SeesStall, temporal, Abort
<1>3. CASE \E x \in Run : Attempt(x)
  BY <1>3 DEF Attempt, Decide, ClaimLaunch, WriteClaim, Reclaim, SpawnShim, AwaitToken, AwaitOther, WatchEnds, StopWorker, StopStalled, temporal
<1>4. CASE \E x \in Run : Shim(x)
  BY <1>4 DEF Shim, ShimToken, ShimRuns, OrphanEnds, ShimRecords, temporal
<1>5. CASE \E m \in Member : HeartbeatTimeout(m) \/ \E d \in Daemon : Dispatch(m, d)
  BY <1>5 DEF HeartbeatTimeout, Dispatch
<1>6. QED
  BY <1>1, <1>2, <1>3, <1>4, <1>5 DEF Next, vars, temporal

LEMMA AbortStops ==
  ASSUME IInv, AgentInv, StopInv, [Next]_vars, wf' \in {"failed", "cancelled"}, ~early',
         NEW m \in Member, m \notin excused', NEW a \in 1..MaxAttempts
  PROVE  shim'[<<m, a>>] \notin Alive
<1> DEFINE y == <<m, a>>
<1>0. /\ y \in Run /\ y[1] = m /\ y[2] = a /\ Calm /\ ~early /\ m \notin excused /\ "spawn" \in Launching
      /\ shim \in [Run -> ShimState]
  BY CalmStep DEF Calm, Launching, IInv, TypeOK
<1>1. CASE wf' = wf
  <2>1. shim[y] \notin Alive
    BY <1>0, <1>1 DEF StopInv
  <2>2. apc[y] # "spawn"
    <3>1. Past
      BY <1>1 DEF Past
    <3>2. QED
      BY <1>0, <3>1, PastQuiet
  <2>3. QED
    BY <1>0, <2>1, <2>2 DEF Calm
<1>2. CASE AbortFleet
  <2>1. Past
    BY <1>2 DEF AbortFleet, Past
  <2>2. shim[y] # "starting"
    BY <1>0, <2>1, PastQuiet
  <2>3. PICK S \in MayRecord(Tokens) : Stopped(Tokens, S)
    BY <1>2 DEF AbortFleet
  <2>4. shim'[y] = IF y \notin Tokens \/ ~Verified(y) THEN shim[y] ELSE IF y \in S THEN "ended" ELSE "killed"
    BY <1>0, <2>3 DEF Stopped
  <2>5. Verified(y) => y \in Tokens
    BY <1>0 DEF StopInv, Tokens
  <2>6. QED
    BY <2>2, <2>4, <2>5 DEF Verified, Alive
<1>3. QED
  BY <1>1, <1>2, OnlyAbortEnds

LEMMA Invariant == Spec => []IInv
BY InitIInv, NextIInv, PTL DEF Spec

LEMMA AlwaysAgentInv == Spec => []AgentInv
BY InitAgentInv, NextAgentInv, Invariant, PTL DEF Spec

\* Every reachable state is well typed; in particular no member is given more attempts than
\* run_worker_options allows, whatever daemons die and however many members there are.
THEOREM WorkflowTypeOK == Spec => []TypeOK
<1>1. IInv => TypeOK
  BY DEF IInv
<1>2. QED
  BY <1>1, Invariant, PTL

\* A member whose agent committed is `done` in the ledger when the workflow ends, for any number of
\* members, whichever of them were cancelled, failed or lost (drive, abort_fleet).
THEOREM OutcomesReachLedgerAlways == Spec => []OutcomesReachLedger
<1>1. IInv => OutcomesReachLedger
  <2> SUFFICES ASSUME IInv, wf \in {"completed", "failed", "cancelled"}, ~unwritten,
                      NEW m \in Member, act[m] = "committed"
               PROVE  task[m] = "done"
    BY DEF OutcomesReachLedger
  <2>1. Past /\ ~Idle
    BY DEF Past, Idle
  <2>2. Joined /\ ToRecord = {}
    BY <2>1 DEF IInv, LedgerInv
  <2>3. m \in recorded
    BY <2>2 DEF ToRecord
  <2>4. QED
    BY <2>3 DEF IInv, LedgerInv
<1>2. QED
  BY <1>1, Invariant, PTL

\* At most one agent works for a member at a time, for any number of members and daemons, whatever
\* daemons die, attempts are lost, adopted or retried and launches are reclaimed: unless an attempt
\* was lost before its shim had a token, or a shim died without its agent (decide, launch, watch).
THEOREM OneAgentPerMemberAlways == Spec => []OneAgentPerMember
<1>1. IInv /\ AgentInv => OneAgentPerMember
  <2> SUFFICES ASSUME IInv, AgentInv, NEW m \in Member \ excused
               PROVE  Cardinality({a \in 1..MaxAttempts : AgentRuns(<<m, a>>)}) <= 1
    BY DEF OneAgentPerMember
  <2> DEFINE A == {a \in 1..MaxAttempts : AgentRuns(<<m, a>>)}
  <2>1. A \subseteq {1, 2}
    OBVIOUS
  <2>2. ~(1 \in A /\ 2 \in A)
    BY FirstSecond DEF AgentRuns, AgentInv
  <2>3. A = {} \/ A = {1} \/ A = {2}
    BY <2>1, <2>2
  <2>4. Cardinality({}) = 0 /\ Cardinality({1}) = 1 /\ Cardinality({2}) = 1
    BY FS_EmptySet, FS_Singleton
  <2>5. Cardinality(A) \in {0, 1}
    BY <2>3, <2>4
  <2>6. QED
    BY <2>5
<1>2. QED
  BY <1>1, Invariant, AlwaysAgentInv, PTL

\* A workflow that reports `failed` or `cancelled` has left no agent working, for any number of
\* members and daemons, provided that it was not told of a cancellation before the attempt had
\* answered: abort_fleet stops what the tokens name, and that is every live shim.
THEOREM AbortedMeansStoppedAlways == Spec => []AbortedMeansStopped
<1>1. Init => StopInv
  <2> SUFFICES ASSUME Init PROVE StopInv
    OBVIOUS
  <2>1. \A x \in Run : shim[x] = "none"
    BY DEF Init
  <2>2. \A m \in Member : ~Settled(m)
    BY DEF Init, Settled
  <2>3. QED
    BY <2>1, <2>2 DEF StopInv, Verified, Init
<1>2. IInv /\ AgentInv /\ StopInv /\ [Next]_vars => StopInv'
  BY TokenNamesLive, SettledQuiet, AbortStops DEF StopInv
<1>3. IInv /\ AgentInv /\ StopInv => AbortedMeansStopped
  <2> SUFFICES ASSUME AgentInv, StopInv, wf \in {"failed", "cancelled"}, ~early,
                      NEW m \in Member \ excused, NEW a \in 1..MaxAttempts
               PROVE  ~AgentRuns(<<m, a>>)
    BY DEF AbortedMeansStopped
  <2>1. shim[<<m, a>>] \notin Alive
    BY DEF StopInv
  <2>2. shim[<<m, a>>] # "orphan"
    BY FirstSecond DEF AgentInv
  <2>3. QED
    BY <2>1, <2>2 DEF AgentRuns, Alive
<1>4. QED
  BY <1>1, <1>2, <1>3, Invariant, AlwaysAgentInv, PTL DEF Spec

=============================================================================
