----------------------------- MODULE AgyProofs ------------------------------
(***************************************************************************)
(* What module AgyBreaker promises for any number of callers, slots and    *)
(* backoffs and for any threshold.                                         *)
(***************************************************************************)
EXTENDS AgyBreaker, FiniteSetTheorems, TLAPS

\* A call that waits for a slot has an attempt left.
Queued ==
    /\ \A c \in Caller : stage[c] = "queue" => tries[c] < 2 + waits[c]
    /\ \A c \in Caller : stage[c] = "idle" => tries[c] = 0 /\ waits[c] = 0

\* A caller that started agy under the open breaker is past the point where it can do so again.
Late ==
    /\ phase # "open" => late = NoneLate
    /\ phase = "open" => \A c \in Traffic :
          late[c] = 0 \/ (late[c] = 1 /\ stage[c] \notin {"queue", "rate"})

Stages == {"idle", "queue", "rate", "run", "retry", "answered", "failed", "after"}

Holders == {c \in Caller : stage[c] \in Holding}

IInv == TypeOK /\ NoStampede /\ Queued /\ Late /\ PermitsConserved

USE AgyAssumption DEF Loop, Traffic, Caller, Holding

-----------------------------------------------------------------------------
(* The breaker's methods keep its type and its books. *)
BreakerOK ==
    /\ phase \in {"closed", "open", "half_open"}
    /\ consecutive \in 0..Threshold /\ openCount \in 0..MaxOpens
    /\ inflight \in BOOLEAN /\ due \in BOOLEAN
    /\ holder \in Caller \cup {None}
    /\ admitted \subseteq Caller /\ late \in [Caller -> 0..2]
    /\ NoStampede
    /\ phase # "open" => late = NoneLate

\* What a step of the breaker may do to the history of launches.
Calmer == late' = NoneLate \/ (late' = late /\ phase' = phase)

LEMMA LetInOK ==
  ASSUME BreakerOK, NEW c \in Caller, LetIn(c)
  PROVE  BreakerOK' /\ Calmer
<1>1. CASE phase = "closed"
  BY <1>1 DEF LetIn, BreakerOK, breaker, Calmer, NoStampede, NoneLate
<1>2. CASE phase # "closed"
  <2>1. (IF due THEN {} ELSE admitted) = {}
    BY <1>2 DEF LetIn, ShouldSkip, BreakerOK, NoStampede
  <2>2. admitted' = {c} /\ holder' = c /\ phase' = "half_open" /\ inflight' = TRUE /\ due' = FALSE
        /\ late' = NoneLate /\ consecutive' = consecutive /\ openCount' = openCount
    BY <1>2, <2>1 DEF LetIn
  <2>3. c # None
    OBVIOUS
  <2>4. NoneLate' = NoneLate /\ NoneLate \in [Caller -> 0..2]
    BY DEF NoneLate
  <2>5. QED
    BY <1>2, <2>2, <2>3, <2>4 DEF BreakerOK, NoStampede, Calmer
<1>3. QED
  BY <1>1, <1>2

LEMMA SuccessOK ==
  ASSUME BreakerOK, RecordSuccess
  PROVE  BreakerOK' /\ Calmer
<1>1. NoneLate' = NoneLate /\ NoneLate \in [Caller -> 0..2]
  BY DEF NoneLate
<1>2. 0 \in 0..Threshold /\ 0 \in 0..MaxOpens
  OBVIOUS
<1>3. NoStampede'
  BY DEF RecordSuccess, NoStampede
<1>4. QED
  BY <1>1, <1>2, <1>3 DEF RecordSuccess, BreakerOK, Calmer

LEMMA TripOK ==
  ASSUME BreakerOK, Trip
  PROVE  BreakerOK' /\ Calmer
<1>1. NoneLate' = NoneLate /\ NoneLate \in [Caller -> 0..2]
  BY DEF NoneLate
<1>2. openCount' \in 0..MaxOpens /\ openCount' # 0
  BY DEF Trip, BreakerOK
<1>3. 0 \in 0..Threshold
  OBVIOUS
<1>4. NoStampede'
  BY <1>2 DEF Trip, NoStampede
<1>5. QED
  BY <1>1, <1>2, <1>3, <1>4 DEF Trip, BreakerOK, Calmer

LEMMA FailureOK ==
  ASSUME BreakerOK, NEW bar \in {Threshold, Threshold + 1}, RecordFailure(bar)
  PROVE  BreakerOK' /\ Calmer
<1>1. CASE UNCHANGED breaker
  BY <1>1 DEF BreakerOK, NoStampede, breaker, Calmer, NoneLate
<1>2. CASE Trip
  BY <1>2, TripOK
<1>3. CASE /\ phase = "closed" /\ consecutive + 1 < bar
           /\ consecutive' = consecutive + 1
           /\ UNCHANGED <<phase, openCount, inflight, due, holder, admitted, late>>
  <2>1. consecutive' \in 0..Threshold
    BY <1>3 DEF BreakerOK
  <2>2. NoneLate' = NoneLate
    BY DEF NoneLate
  <2>3. QED
    BY <1>3, <2>1, <2>2 DEF BreakerOK, NoStampede, Calmer
<1>4. QED
  BY <1>1, <1>2, <1>3 DEF RecordFailure

LEMMA SameOK ==
  ASSUME BreakerOK, UNCHANGED breaker
  PROVE  BreakerOK' /\ Calmer
BY DEF BreakerOK, NoStampede, breaker, Calmer, NoneLate

-----------------------------------------------------------------------------
(* A caller moves to another stage and its permit with it: none is lost or made up. *)
LEMMA PermitsMove ==
  ASSUME stage \in [Caller -> Stages], permits \in Nat, PermitsConserved, NEW c \in Caller, NEW s \in Stages,
         Goes(c, s), permits' \in Nat,
         permits' = permits + (IF stage[c] \in Holding THEN 1 ELSE 0) - (IF s \in Holding THEN 1 ELSE 0)
  PROVE  PermitsConserved' /\ permits' \in 0..Slots
<1>1. IsFiniteSet(Holders) /\ Cardinality(Holders) \in Nat
  BY FS_Subset, FS_CardinalityType DEF Holders
<1>2. permits + Cardinality(Holders) = Slots
  BY DEF PermitsConserved, Holders
<1>3. stage' = [stage EXCEPT ![c] = s]
  BY DEF Goes
<1>4. PermitsConserved' <=> permits' + Cardinality(Holders') = Slots
  BY DEF PermitsConserved, Holders
<1>5. IsFiniteSet(Holders') /\ Cardinality(Holders') \in Nat
  BY FS_Subset, FS_CardinalityType DEF Holders
<1>6. permits' + Cardinality(Holders') = Slots
  <2>1. CASE (stage[c] \in Holding) <=> (s \in Holding)
    <3>1. Holders' = Holders
      BY <1>3, <2>1 DEF Holders
    <3>2. QED
      BY <1>2, <2>1, <3>1
  <2>2. CASE stage[c] \in Holding /\ s \notin Holding
    <3>1. Holders' = Holders \ {c} /\ c \in Holders
      BY <1>3, <2>2 DEF Holders
    <3>2. Cardinality(Holders') = Cardinality(Holders) - 1
      BY <1>1, <3>1, FS_RemoveElement
    <3>3. QED
      BY <1>1, <1>2, <2>2, <3>2
  <2>3. CASE stage[c] \notin Holding /\ s \in Holding
    <3>1. Holders' = Holders \cup {c} /\ c \notin Holders
      BY <1>3, <2>3 DEF Holders
    <3>2. Cardinality(Holders') = Cardinality(Holders) + 1
      BY <1>1, <3>1, FS_AddElement
    <3>3. QED
      BY <1>1, <1>2, <2>3, <3>2
  <2>4. QED
    BY <2>1, <2>2, <2>3
<1>7. QED
  BY <1>4, <1>5, <1>6

(* One caller moves. What has to be shown of a step: the breaker's books, the counters of the    *)
(* caller, and that it is not on its way to agy a second time under the breaker that is open now. *)
LEMMA CallerMoves ==
  ASSUME IInv, NEW c \in Caller, NEW s \in Stages, Goes(c, s),
         permits' \in Nat,
         permits' = permits + (IF stage[c] \in Holding THEN 1 ELSE 0) - (IF s \in Holding THEN 1 ELSE 0),
         tries' \in [Caller -> 0..Backoffs + 2], waits' \in [Caller -> 0..Backoffs],
         err' \in [Caller -> {"none", "quota", "other"}], well' \in BOOLEAN,
         \A d \in Caller \ {c} : tries'[d] = tries[d] /\ waits'[d] = waits[d],
         s = "queue" => tries'[c] < 2 + waits'[c],
         s = "idle" => tries'[c] = 0 /\ waits'[c] = 0,
         BreakerOK',
         \A d \in Traffic \ {c} : phase' = "open" => late'[d] = 0 \/ (phase = "open" /\ late'[d] = late[d]),
         c \in Traffic /\ phase' = "open" => late'[c] = 0 \/ (late'[c] = 1 /\ s \notin {"queue", "rate"})
  PROVE  IInv'
<1>1. stage \in [Caller -> Stages] /\ permits \in Nat
  BY DEF IInv, TypeOK, Stages
<1>2. stage' \in [Caller -> Stages] /\ stage'[c] = s /\ \A d \in Caller \ {c} : stage'[d] = stage[d]
  BY <1>1 DEF Goes
<1>3. PermitsConserved' /\ permits' \in 0..Slots
  BY <1>1, PermitsMove DEF IInv
<1>4. TypeOK'
  BY <1>2, <1>3 DEF BreakerOK, TypeOK, Stages
<1>5. NoStampede'
  BY DEF BreakerOK
<1>6. Queued'
  BY <1>2 DEF IInv, Queued
<1>7. Late'
  <2>1. phase' # "open" => late' = NoneLate'
    BY DEF BreakerOK
  <2>2. ASSUME phase' = "open", NEW d \in Traffic
        PROVE  late'[d] = 0 \/ (late'[d] = 1 /\ stage'[d] \notin {"queue", "rate"})
    <3>1. CASE d = c
      BY <1>2, <2>2, <3>1
    <3>2. CASE d # c
      BY <1>2, <2>2, <3>2 DEF IInv, Late
    <3>3. QED
      BY <3>1, <3>2
  <2>3. QED
    BY <2>1, <2>2 DEF Late
<1>8. QED
  BY <1>3, <1>4, <1>5, <1>6, <1>7 DEF IInv

(* A step of the breaker starts the history of launches anew or leaves it alone. *)
LEMMA CalmLate ==
  ASSUME IInv, Calmer
  PROVE  \A d \in Traffic : phase' = "open" =>
            late'[d] = 0 \/ (phase = "open" /\ late'[d] = late[d] /\ late[d] \in {0, 1})
<1>1. CASE late' = NoneLate
  BY <1>1 DEF NoneLate
<1>2. CASE late' = late /\ phase' = phase
  BY <1>2 DEF IInv, Late
<1>3. QED
  BY <1>1, <1>2 DEF Calmer

LEMMA BooksOK == ASSUME IInv PROVE BreakerOK
BY DEF IInv, TypeOK, BreakerOK, Late

(* A caller that moves away from the queue. *)
LEMMA CallerSettles ==
  ASSUME IInv, NEW c \in Caller, NEW s \in Stages \ {"queue", "rate", "run", "after"}, Goes(c, s),
         permits' = permits + (IF stage[c] \in Holding THEN 1 ELSE 0),
         tries' \in [Caller -> 0..Backoffs + 2], waits' \in [Caller -> 0..Backoffs],
         err' \in [Caller -> {"none", "quota", "other"}], well' \in BOOLEAN,
         \A d \in Caller \ {c} : tries'[d] = tries[d] /\ waits'[d] = waits[d],
         s = "idle" => tries'[c] = 0 /\ waits'[c] = 0,
         BreakerOK', Calmer
  PROVE  IInv'
<1>1. permits \in Nat
  BY DEF IInv, TypeOK
<1>2. permits' \in Nat
  BY <1>1
<1>3. permits' = permits + (IF stage[c] \in Holding THEN 1 ELSE 0) - (IF s \in Holding THEN 1 ELSE 0)
  BY <1>1
<1>4. \A d \in Traffic : phase' = "open" =>
            late'[d] = 0 \/ (phase = "open" /\ late'[d] = late[d] /\ late[d] \in {0, 1})
  BY CalmLate
<1>5. QED
  BY <1>2, <1>3, <1>4, CallerMoves

LEMMA EndsOK ==
  ASSUME IInv, NEW c \in Caller, Ends(c), well' = well, BreakerOK', Calmer
  PROVE  IInv'
<1>1. /\ tries \in [Caller -> 0..Backoffs + 2] /\ waits \in [Caller -> 0..Backoffs]
      /\ err \in [Caller -> {"none", "quota", "other"}] /\ well \in BOOLEAN
  BY DEF IInv, TypeOK
<1>2. /\ tries' \in [Caller -> 0..Backoffs + 2] /\ waits' \in [Caller -> 0..Backoffs]
      /\ err' \in [Caller -> {"none", "quota", "other"}]
      /\ tries'[c] = 0 /\ waits'[c] = 0
      /\ \A d \in Caller \ {c} : tries'[d] = tries[d] /\ waits'[d] = waits[d]
  BY <1>1 DEF Ends
<1>3. "idle" \in Stages \ {"queue", "rate", "run", "after"}
  BY DEF Stages
<1>4. Goes(c, "idle") /\ permits' = permits + (IF stage[c] \in Holding THEN 1 ELSE 0)
  BY DEF Ends
<1>5. QED
  BY <1>1, <1>2, <1>3, <1>4, CallerSettles

(* A fleet member that is done with agy and keeps its permit. *)
LEMMA AfterOK ==
  ASSUME IInv, NEW c \in Caller, stage[c] \in {"rate", "run"}, Goes(c, "after"),
         UNCHANGED <<tries, waits, err, permits, well>>, BreakerOK', Calmer
  PROVE  IInv'
<1>1. /\ tries' \in [Caller -> 0..Backoffs + 2] /\ waits' \in [Caller -> 0..Backoffs]
      /\ err' \in [Caller -> {"none", "quota", "other"}] /\ well' \in BOOLEAN
      /\ \A d \in Caller \ {c} : tries'[d] = tries[d] /\ waits'[d] = waits[d]
      /\ permits \in Nat /\ permits' \in Nat /\ "after" \in Stages
  BY DEF IInv, TypeOK, Stages
<1>2. permits' = permits + (IF stage[c] \in Holding THEN 1 ELSE 0) - (IF "after" \in Holding THEN 1 ELSE 0)
  BY <1>1
<1>3. \A d \in Traffic : phase' = "open" =>
            late'[d] = 0 \/ (phase = "open" /\ late'[d] = late[d] /\ late[d] \in {0, 1})
  BY CalmLate
<1>4. c \in Traffic /\ phase' = "open" => late'[c] = 0 \/ (late'[c] = 1 /\ "after" \notin {"queue", "rate"})
  BY <1>3
<1>5. QED
  BY <1>1, <1>2, <1>3, <1>4, CallerMoves

LEMMA AttemptedOK ==
  ASSUME IInv, NEW c \in Caller, NEW s \in {"retry", "answered", "failed"}, NEW e \in {"none", "quota", "other"},
         Attempted(c, s, e), waits' \in [Caller -> 0..Backoffs], \A d \in Caller \ {c} : waits'[d] = waits[d],
         BreakerOK', Calmer
  PROVE  IInv'
<1>1. /\ tries \in [Caller -> 0..Backoffs + 2] /\ well \in BOOLEAN
      /\ err \in [Caller -> {"none", "quota", "other"}]
  BY DEF IInv, TypeOK
<1>2. /\ tries' = tries /\ well' = well
      /\ err' \in [Caller -> {"none", "quota", "other"}]
  BY <1>1 DEF Attempted
<1>3. s \in Stages \ {"queue", "rate", "run", "after"} /\ s # "idle"
  BY DEF Stages
<1>4. Goes(c, s) /\ permits' = permits + (IF stage[c] \in Holding THEN 1 ELSE 0)
  BY DEF Attempted
<1>5. QED
  BY <1>1, <1>2, <1>3, <1>4, CallerSettles

(* The breaker as the caller of each kind leaves it. *)
LEMMA FeedsOK ==
  ASSUME BreakerOK, NEW c \in Caller, Feeds(c, RecordQuota)
  PROVE  BreakerOK' /\ Calmer
BY FailureOK, SameOK DEF Feeds, RecordQuota

LEMMA AskedOK ==
  ASSUME BreakerOK, NEW c \in Caller, IF c \in Traffic THEN LetIn(c) ELSE UNCHANGED breaker
  PROVE  BreakerOK' /\ Calmer /\ (c \in Traffic => phase' # "open")
<1>1. CASE c \in Traffic
  <2>1. phase' # "open"
    BY <1>1 DEF LetIn, breaker
  <2>2. QED
    BY <1>1, <2>1, LetInOK
<1>2. CASE c \notin Traffic
  BY <1>2, SameOK
<1>3. QED
  BY <1>1, <1>2

-----------------------------------------------------------------------------
(* The invariant. *)
LEMMA InitIInv == Init => IInv
<1> SUFFICES ASSUME Init PROVE IInv
  OBVIOUS
<1>1. 0 \in 0..Threshold /\ 0 \in 0..MaxOpens /\ Slots \in 0..Slots /\ 0 \in 0..Backoffs + 2
      /\ 0 \in 0..Backoffs /\ NoneLate \in [Caller -> 0..2]
  BY DEF NoneLate
<1>2. TypeOK
  BY <1>1 DEF Init, TypeOK
<1>3. NoStampede
  BY DEF Init, NoStampede
<1>4. Queued /\ Late
  BY DEF Init, Queued, Late
<1>5. PermitsConserved
  <2>1. {c \in Caller : stage[c] \in Holding} = {}
    BY DEF Init
  <2>2. QED
    BY <2>1, FS_EmptySet DEF Init, PermitsConserved
<1>6. QED
  BY <1>2, <1>3, <1>4, <1>5 DEF IInv

(* One step of one caller. *)
LEMMA CallerStep ==
  ASSUME IInv, NEW c \in Caller,
         \/ Start(c) \/ TakeSlot(c) \/ Launch(c)
         \/ Answer(c) \/ Empty(c) \/ QuotaBackoff(c) \/ QuotaLast(c) \/ Broken(c)
         \/ Refused(c) \/ Deadline(c) \/ Retry(c)
         \/ AskSucceeds(c) \/ AskFails(c) \/ AskUnreported(c) \/ WatchEnds(c)
         \/ FleetSucceeds(c) \/ FleetFails(c) \/ FleetUnreported(c) \/ FleetReturns(c)
  PROVE  IInv'
<1> USE BooksOK
<1>1. /\ stage \in [Caller -> Stages] /\ permits \in 0..Slots
      /\ tries \in [Caller -> 0..Backoffs + 2] /\ waits \in [Caller -> 0..Backoffs]
      /\ err \in [Caller -> {"none", "quota", "other"}] /\ well \in BOOLEAN
  BY DEF IInv, TypeOK, Stages
<1>2. CASE Start(c)
  <2>1. BreakerOK' /\ Calmer /\ (c \in Traffic => phase' # "open")
    BY <1>2, AskedOK DEF Start
  <2>2. /\ Goes(c, "queue") /\ "queue" \in Stages
        /\ UNCHANGED <<tries, waits, err, permits, well>> /\ stage[c] = "idle"
    BY <1>2 DEF Start, Stages
  <2>3. tries'[c] < 2 + waits'[c]
    BY <2>2 DEF IInv, Queued
  <2>4. \A d \in Traffic \ {c} : phase' = "open" => late'[d] = 0 \/ (phase = "open" /\ late'[d] = late[d])
    BY <2>1, CalmLate
  <2>5. QED
    BY <1>1, <2>1, <2>2, <2>3, <2>4, CallerMoves
<1>3. CASE TakeSlot(c)
  <2>1. BreakerOK' /\ Calmer /\ phase' = phase /\ late' = late
    BY <1>3, SameOK DEF TakeSlot, breaker
  <2>2. /\ Goes(c, "rate") /\ "rate" \in Stages /\ stage[c] = "queue"
        /\ UNCHANGED <<waits, err, well>> /\ permits' = permits - 1 /\ permits' \in Nat
    BY <1>1, <1>3 DEF TakeSlot, Stages
  <2>3. /\ tries' \in [Caller -> 0..Backoffs + 2]
        /\ \A d \in Caller \ {c} : tries'[d] = tries[d]
    <3>1. tries[c] + 1 \in 0..Backoffs + 2
      BY <1>1, <2>2 DEF IInv, Queued
    <3>2. QED
      BY <1>1, <1>3, <3>1 DEF TakeSlot
  <2>4. permits' = permits + (IF stage[c] \in Holding THEN 1 ELSE 0) - (IF "rate" \in Holding THEN 1 ELSE 0)
    BY <1>1, <2>2
  <2>5. \A d \in Traffic \ {c} : phase' = "open" => late'[d] = 0 \/ (phase = "open" /\ late'[d] = late[d])
    BY <2>1
  <2>6. c \in Traffic /\ phase' = "open" => late'[c] = 0
    BY <2>1, <2>2 DEF IInv, Late
  <2>7. QED
    BY <1>1, <2>1, <2>2, <2>3, <2>4, <2>5, <2>6, CallerMoves
<1>4. CASE Launch(c)
  <2>1. late \in [Caller -> 0..2] /\ late' \in [Caller -> 0..2]
    BY <1>4 DEF IInv, TypeOK, Launch
  <2>2. BreakerOK'
    <3>1. NoStampede' /\ (phase' # "open" => late' = NoneLate')
      BY <1>4 DEF Launch, BreakerOK, NoStampede, NoneLate
    <3>2. QED
      BY <1>4, <2>1, <3>1 DEF Launch, BreakerOK
  <2>3. /\ Goes(c, "run") /\ "run" \in Stages /\ stage[c] = "rate"
        /\ UNCHANGED <<phase, tries, waits, err, permits, well>>
    BY <1>4 DEF Launch, Stages
  <2>4. permits' = permits + (IF stage[c] \in Holding THEN 1 ELSE 0) - (IF "run" \in Holding THEN 1 ELSE 0)
    BY <1>1, <2>3
  <2>5. \A d \in Traffic \ {c} : phase' = "open" => late'[d] = 0 \/ (phase = "open" /\ late'[d] = late[d])
    BY <1>4, <2>1 DEF Launch
  <2>6. c \in Traffic /\ phase' = "open" => late'[c] = 1
    BY <1>4, <2>1, <2>3 DEF Launch, IInv, Late
  <2>7. QED
    BY <1>1, <2>2, <2>3, <2>4, <2>5, <2>6, CallerMoves
<1>5. CASE Answer(c) \/ Empty(c) \/ Broken(c)
  <2>1. BreakerOK' /\ Calmer /\ waits' = waits
    BY <1>5, SameOK DEF Answer, Empty, Broken
  <2>2. Attempted(c, "answered", "none") \/ Attempted(c, "retry", "other") \/ Attempted(c, "failed", "other")
    BY <1>5 DEF Answer, Empty, Broken
  <2>3. QED
    BY <1>1, <2>1, <2>2, AttemptedOK
<1>6. CASE QuotaBackoff(c)
  <2>1. BreakerOK' /\ Calmer
    BY <1>6, FeedsOK DEF QuotaBackoff
  <2>2. waits' \in [Caller -> 0..Backoffs] /\ \A d \in Caller \ {c} : waits'[d] = waits[d]
    <3>1. waits[c] + 1 \in 0..Backoffs
      BY <1>1, <1>6 DEF QuotaBackoff
    <3>2. QED
      BY <1>1, <1>6, <3>1 DEF QuotaBackoff
  <2>3. Attempted(c, "retry", "quota")
    BY <1>6 DEF QuotaBackoff
  <2>4. QED
    BY <2>1, <2>2, <2>3, AttemptedOK
<1>7. CASE QuotaLast(c)
  <2>1. BreakerOK' /\ Calmer /\ waits' = waits
    BY <1>7, FeedsOK, SameOK DEF QuotaLast
  <2>2. Attempted(c, "retry", "other") \/ Attempted(c, "failed", "quota")
    BY <1>7 DEF QuotaLast
  <2>3. QED
    BY <1>1, <2>1, <2>2, AttemptedOK
<1>8. CASE Refused(c)
  <2>1. BreakerOK' /\ Calmer
    BY <1>8, SameOK DEF Refused
  <2>2. Goes(c, "failed") /\ "failed" \in Stages /\ UNCHANGED <<tries, waits, permits, well>> /\ stage[c] = "queue"
    BY <1>8 DEF Refused, Stages
  <2>3. err' \in [Caller -> {"none", "quota", "other"}]
    BY <1>1, <1>8 DEF Refused
  <2>4. QED
    BY <1>1, <2>1, <2>2, <2>3, CallerSettles
<1>9. CASE Deadline(c)
  <2>1. BreakerOK' /\ Calmer
    BY <1>9, SameOK DEF Deadline
  <2>2. Goes(c, "failed") /\ "failed" \in Stages /\ UNCHANGED <<tries, waits, well>> /\ stage[c] \in {"queue", "rate"}
    BY <1>9 DEF Deadline, Stages
  <2>3. permits' = permits + (IF stage[c] \in Holding THEN 1 ELSE 0)
    BY <1>9, <2>2 DEF Deadline
  <2>4. err' \in [Caller -> {"none", "quota", "other"}]
    BY <1>1, <1>9 DEF Deadline
  <2>5. QED
    BY <1>1, <2>1, <2>2, <2>3, <2>4, CallerSettles
<1>10. CASE Retry(c)
  <2>1. UNCHANGED <<tries, waits, permits, well>> /\ stage[c] = "retry"
    BY <1>10 DEF Retry
  <2>2. err' \in [Caller -> {"none", "quota", "other"}]
    BY <1>1, <1>10 DEF Retry
  <2>3. BreakerOK' /\ Calmer
    BY <1>10, SameOK, AskedOK DEF Retry
  <2>4. CASE Goes(c, "failed")
    <3>1. "failed" \in Stages
      BY DEF Stages
    <3>2. QED
      BY <1>1, <2>1, <2>2, <2>3, <2>4, <3>1, CallerSettles
  <2>5. CASE Goes(c, "queue")
    <3>1. ~Goes(c, "failed")
      BY <1>1, <2>5 DEF Goes
    <3>2. ~Spent(c) /\ (c \in Traffic => phase' # "open")
      BY <1>10, <3>1, AskedOK DEF Retry
    <3>3. tries'[c] < 2 + waits'[c] /\ "queue" \in Stages
      BY <1>1, <2>1, <3>2 DEF Spent, Stages
    <3>4. \A d \in Traffic \ {c} : phase' = "open" => late'[d] = 0 \/ (phase = "open" /\ late'[d] = late[d])
      BY <2>3, CalmLate
    <3>5. QED
      BY <1>1, <2>1, <2>2, <2>3, <2>5, <3>2, <3>3, <3>4, CallerMoves
  <2>6. QED
    BY <1>10, <2>4, <2>5 DEF Retry
<1>11. CASE AskSucceeds(c)
  BY <1>11, SuccessOK, EndsOK DEF AskSucceeds
<1>12. CASE AskFails(c)
  <2>1. BreakerOK' /\ Calmer
    BY <1>12, FailureOK DEF AskFails, RecordQuota, RecordOther
  <2>2. QED
    BY <1>12, <2>1, EndsOK DEF AskFails
<1>13. CASE FleetSucceeds(c) \/ FleetFails(c) \/ FleetUnreported(c)
  <2>1. BreakerOK' /\ Calmer
    BY <1>13, SuccessOK, FailureOK, SameOK DEF FleetSucceeds, FleetFails, FleetUnreported, RecordOther
  <2>2. QED
    BY <1>13, <2>1, AfterOK DEF FleetSucceeds, FleetFails, FleetUnreported
<1>14. CASE AskUnreported(c) \/ FleetReturns(c)
  BY <1>14, SameOK, EndsOK DEF AskUnreported, FleetReturns
<1>15. CASE WatchEnds(c)
  <2>1. BreakerOK' /\ Calmer
    BY <1>15, SuccessOK, SameOK DEF WatchEnds
  <2>2. QED
    BY <1>15, <2>1, EndsOK DEF WatchEnds
<1>16. QED
  BY <1>2, <1>3, <1>4, <1>5, <1>6, <1>7, <1>8, <1>9, <1>10, <1>11, <1>12, <1>13, <1>14, <1>15

LEMMA NextIInv == IInv /\ [Next]_vars => IInv'
<1> SUFFICES ASSUME IInv, [Next]_vars PROVE IInv'
  OBVIOUS
<1>1. CASE TimeUp
  <2>1. /\ UNCHANGED <<phase, consecutive, openCount, inflight, holder, admitted, late, permits, call, well>>
        /\ due' = TRUE
    BY <1>1 DEF TimeUp
  <2>2. TypeOK'
    BY <2>1 DEF IInv, TypeOK, call
  <2>3. NoStampede'
    BY <2>1 DEF IInv, NoStampede
  <2>4. Queued' /\ Late' /\ PermitsConserved'
    BY <2>1 DEF IInv, Queued, Late, PermitsConserved, call, NoneLate
  <2>5. QED
    BY <2>2, <2>3, <2>4 DEF IInv
<1>2. CASE UNCHANGED <<breaker, permits, call>> /\ well' \in BOOLEAN
  <2>1. TypeOK'
    BY <1>2 DEF IInv, TypeOK, call, breaker
  <2>2. NoStampede'
    BY <1>2 DEF IInv, NoStampede, breaker
  <2>3. Queued' /\ Late' /\ PermitsConserved'
    BY <1>2 DEF IInv, Queued, Late, PermitsConserved, call, breaker, NoneLate
  <2>4. QED
    BY <2>1, <2>2, <2>3 DEF IInv
<1>3. Heal \/ UNCHANGED vars => UNCHANGED <<breaker, permits, call>> /\ well' \in BOOLEAN
  BY DEF Heal, vars, IInv, TypeOK
<1>4. QED
  BY <1>1, <1>2, <1>3, CallerStep DEF Next

LEMMA InductiveInvariant == Spec => []IInv
BY InitIInv, NextIInv, PTL DEF Spec

-----------------------------------------------------------------------------
(* Every reachable state is well typed: the counter stays below its bars (record_quota,          *)
(* record_other) and no call makes more attempts than its budget and its backoffs give it.       *)
THEOREM AgyTypeOK == Spec => []TypeOK
<1>1. IInv => TypeOK
  BY DEF IInv
<1>2. QED
  BY <1>1, InductiveInvariant, PTL

(* However many callers find the cooldown over, should_skip lets one of them in per half-open    *)
(* period; probes of earlier periods, cut off by a straggler's failure, are not counted.          *)
THEOREM NoStampedeAlways == Spec => []NoStampede
<1>1. IInv => NoStampede
  BY DEF IInv
<1>2. QED
  BY <1>1, InductiveInvariant, PTL

(* Nobody starts agy twice under an open breaker, however long its queue and its retry loop.      *)
THEOREM OpenSpendsOnceAlways == Spec => []OpenSpendsOnce
<1>1. IInv => OpenSpendsOnce
  BY DEF IInv, Late, OpenSpendsOnce
<1>2. QED
  BY <1>1, InductiveInvariant, PTL

(* Every permit of agy_acquire_slot is free or held by a call that is running or about to.       *)
THEOREM PermitsConservedAlways == Spec => []PermitsConserved
<1>1. IInv => PermitsConserved
  BY DEF IInv
<1>2. QED
  BY <1>1, InductiveInvariant, PTL

=============================================================================
