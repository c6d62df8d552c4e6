-------------------------- MODULE PeerReviewProofs --------------------------
(***************************************************************************)
(* The safety of PeerReview for every number of reviews and callers and    *)
(* every cap.                                                              *)
(*                                                                         *)
(* The inductive invariant has three parts: what the table looks like      *)
(* (TableInv), what a call between two of its statements still knows about *)
(* the row it works on (CallInv), and how many reviews can run once every  *)
(* slot that was counted as free has been used (SlotInv).                  *)
(***************************************************************************)
EXTENDS PeerReview, FiniteSetTheorems, TLAPS

TableInv ==
    /\ \A r \in Review : state[r] = "none" <=> r > rows
    /\ \A r \in owned : r <= rows
    /\ VerdictAuthorised

CallInv ==
    \A c \in Callers :
        /\ pc[c] = "update" =>
               /\ id[c] <= rows
               /\ id[c] \in owned => answer[c].by = "dispatch"
               /\ answer[c].verdict = "approve" => answer[c].by \in {"dispatch", "assigned"}
        /\ pc[c] = "promote" =>
               /\ c \in free
               /\ id[c] <= rows
               /\ \A q \in Review : q < id[c] => state[q] # "pending"

SlotInv == inflight + Cardinality(free) < MaxInflight + Cardinality(Callers)

-----------------------------------------------------------------------------
(* Type correctness. *)

(* The names that the steps assign belong to the sets that TypeOK names. *)
LEMMA Names ==
    /\ \A s \in {"none", "pending", "in_progress", "done", "failed"} : s \in RowState
    /\ \A p \in {"idle", "insert", "reread", "asked", "update", "count", "pick", "promote"} : p \in Point
    /\ 1 \in Review
    /\ NoAnswer \in [verdict : Verdicts, by : Agents \cup {"dispatch"}]
    /\ \A v \in Verdicts, who \in Agents \cup {"dispatch"} :
           [verdict |-> v, by |-> who] \in [verdict : Verdicts, by : Agents \cup {"dispatch"}]
  BY ReviewAssumption DEF RowState, Point, Review, NoAnswer, Verdicts, Agents

(* A call that returns leaves its locals typed. *)
LEMMA ReturnTypes ==
    ASSUME TypeOK, NEW c \in Callers, Return(c)
    PROVE  /\ pc' \in [Callers -> Point] /\ id' \in [Callers -> Review]
           /\ own' \in SUBSET Callers /\ free' \in SUBSET Callers
           /\ answer' \in [Callers -> [verdict : Verdicts, by : Agents \cup {"dispatch"}]]
  BY Names DEF TypeOK, Return, Goto

(* Every step of every call, and the sweep, keep the types. *)
LEMMA TypeStep ==
    ASSUME TypeOK, [Next]_vars
    PROVE  TypeOK'
<1>1. ASSUME NEW c \in Callers, InsertReview(c)
      PROVE  TypeOK'
    <2>1. rows + 1 \in Review /\ rows' \in 0..NReviews
        BY <1>1, ReviewAssumption DEF InsertReview, TypeOK, Review
    <2>2. state' \in [Review -> RowState] /\ owned' \in SUBSET Review
        BY <1>1, <2>1, Names DEF InsertReview, TypeOK
    <2>3. CASE c \in own
        BY <1>1, <2>1, <2>2, <2>3, Names DEF InsertReview, TypeOK, Goto
    <2>4. CASE c \notin own
        BY <1>1, <2>1, <2>2, <2>4, ReturnTypes DEF InsertReview, TypeOK
    <2> QED BY <2>3, <2>4
<1>2. ASSUME NEW c \in Callers, ReadBack(c)
      PROVE  TypeOK'
    BY <1>2, Names, ReturnTypes DEF ReadBack, TypeOK, reviews, Goto
<1>3. ASSUME NEW c \in Callers, NEW v \in Verdicts, DispatchAnswers(c, v)
      PROVE  TypeOK'
    <2>1. CASE MayAnswer(id[c], v, "dispatch")
        <3>1. [verdict |-> v, by |-> "dispatch"] \in [verdict : Verdicts, by : Agents \cup {"dispatch"}]
            BY Names
        <3> QED BY <1>3, <2>1, <3>1, Names DEF DispatchAnswers, TypeOK, reviews, Goto
    <2>2. CASE ~MayAnswer(id[c], v, "dispatch")
        BY <1>3, <2>2, ReturnTypes DEF DispatchAnswers, TypeOK, reviews
    <2> QED BY <2>1, <2>2
<1>4. ASSUME NEW c \in Callers, RecordVerdict(c)
      PROVE  TypeOK'
    <2>1. id[c] \in Review /\ answer[c].verdict \in Verdicts
          /\ answer[c].by \in Agents \cup {"dispatch"}
        BY <1>4 DEF TypeOK
    <2>2. CASE state[id[c]] = "in_progress"
        <3>1. state' \in [Review -> RowState] /\ pc' \in [Callers -> Point]
            BY <1>4, <2>1, <2>2, Names DEF RecordVerdict, TypeOK, Goto
        <3>2. verdict' = [verdict EXCEPT ![id[c]] = answer[c].verdict]
              /\ by' = [by EXCEPT ![id[c]] = answer[c].by]
            BY <1>4, <2>2 DEF RecordVerdict
        <3>3. verdict' \in [Review -> Verdicts \cup {"none"}]
            BY <2>1, <3>2 DEF TypeOK
        <3>4. by' \in [Review -> Agents \cup {"dispatch", "none"}]
            BY <2>1, <3>2 DEF TypeOK
        <3> QED BY <1>4, <2>2, <3>1, <3>3, <3>4 DEF RecordVerdict, TypeOK
    <2>3. CASE state[id[c]] # "in_progress"
        BY <1>4, <2>3, ReturnTypes DEF RecordVerdict, TypeOK
    <2> QED BY <2>2, <2>3
<1>5. ASSUME NEW c \in Callers, CountAgain(c)
      PROVE  TypeOK'
    BY <1>5, Names DEF CountAgain, CountSlots, TypeOK, reviews, Goto
<1>6. ASSUME NEW c \in Callers, PickPending(c)
      PROVE  TypeOK'
    <2>1. CASE Return(c)
        BY <1>6, <2>1, ReturnTypes DEF PickPending, TypeOK, reviews
    <2>2. CASE \E r \in Review : id' = [id EXCEPT ![c] = r] /\ Goto(c, "promote")
                                  /\ UNCHANGED <<own, free, answer>>
        BY <1>6, <2>2, Names DEF PickPending, TypeOK, reviews, Goto
    <2> QED BY <1>6, <2>1, <2>2 DEF PickPending
<1>7. ASSUME NEW c \in Callers, Promote(c)
      PROVE  TypeOK'
    BY <1>7, Names, ReturnTypes DEF Promote, TypeOK
<1>8. ASSUME NEW c \in Callers, CallerDies(c)
      PROVE  TypeOK'
    BY <1>8, ReturnTypes DEF CallerDies, TypeOK, reviews
<1>9. ASSUME NEW c \in Callers, NEW dispatch \in BOOLEAN, RequestReview(c, dispatch)
      PROVE  TypeOK'
    BY <1>9, Names DEF RequestReview, CountSlots, TypeOK, reviews, Goto
<1>10. ASSUME NEW c \in Callers, NEW r \in Review, NEW v \in Verdicts, NEW who \in Agents,
              SubmitReview(c, r, v, who)
       PROVE  TypeOK'
    BY <1>10, Names DEF SubmitReview, TypeOK, reviews, Goto
<1>11. ASSUME NEW r \in Review, FailTimedOut(r)
       PROVE  TypeOK'
    BY <1>11, Names DEF FailTimedOut, TypeOK
<1>12. CASE UNCHANGED vars
    BY <1>12 DEF vars, reviews, TypeOK
<1> QED BY <1>1, <1>2, <1>3, <1>4, <1>5, <1>6, <1>7, <1>8, <1>9, <1>10, <1>11, <1>12
        DEF Next, Call, Answered

(* The rows of `reviews` and the locals of every call of the engine keep their types. *)
THEOREM TypeCorrect == Spec => []TypeOK
<1>1. Init => TypeOK
    BY ReviewAssumption DEF Init, TypeOK, Review, Verdicts, Agents, RowState, Point, NoAnswer
<1> QED BY <1>1, TypeStep, PTL DEF Spec

-----------------------------------------------------------------------------
(* The table and the calls. *)

(* Rows are appended, verdicts are written by calls that may write them, and what a call knows  *)
(* of its row stays true while others run.                                                      *)
LEMMA TableStep ==
    ASSUME TypeOK, TableInv, CallInv, [Next]_vars
    PROVE  TableInv' /\ CallInv'
<1> USE ReviewAssumption DEF TypeOK, Review, Verdicts, Agents, RowState, Point, reviews, At, Goto,
        Return, NoAnswer, TableInv, CallInv, VerdictAuthorised, Rows
<1>1. ASSUME NEW c \in Callers, InsertReview(c)
      PROVE  TableInv' /\ CallInv'
    BY <1>1 DEF InsertReview
<1>2. ASSUME NEW c \in Callers, ReadBack(c)
      PROVE  TableInv' /\ CallInv'
    BY <1>2 DEF ReadBack
<1>3. ASSUME NEW c \in Callers, NEW v \in Verdicts, DispatchAnswers(c, v)
      PROVE  TableInv' /\ CallInv'
    BY <1>3 DEF DispatchAnswers, MayAnswer
<1>4. ASSUME NEW c \in Callers, RecordVerdict(c)
      PROVE  TableInv' /\ CallInv'
    BY <1>4 DEF RecordVerdict
<1>5. ASSUME NEW c \in Callers, CountAgain(c)
      PROVE  TableInv' /\ CallInv'
    BY <1>5 DEF CountAgain, CountSlots
<1>6. ASSUME NEW c \in Callers, PickPending(c)
      PROVE  TableInv' /\ CallInv'
    BY <1>6 DEF PickPending, Oldest
<1>7. ASSUME NEW c \in Callers, Promote(c)
      PROVE  TableInv' /\ CallInv'
    BY <1>7 DEF Promote
<1>8. ASSUME NEW c \in Callers, CallerDies(c)
      PROVE  TableInv' /\ CallInv'
    BY <1>8 DEF CallerDies
<1>9. ASSUME NEW c \in Callers, NEW dispatch \in BOOLEAN, RequestReview(c, dispatch)
      PROVE  TableInv' /\ CallInv'
    BY <1>9 DEF RequestReview, CountSlots
<1>10. ASSUME NEW c \in Callers, NEW r \in Review, NEW v \in Verdicts, NEW who \in Agents,
              SubmitReview(c, r, v, who)
       PROVE  TableInv' /\ CallInv'
    BY <1>10 DEF SubmitReview, MayAnswer
<1>11. ASSUME NEW r \in Review, FailTimedOut(r)
       PROVE  TableInv' /\ CallInv'
    BY <1>11 DEF FailTimedOut
<1>12. CASE UNCHANGED vars
    BY <1>12 DEF vars
<1> QED BY <1>1, <1>2, <1>3, <1>4, <1>5, <1>6, <1>7, <1>8, <1>9, <1>10, <1>11, <1>12
        DEF Next, Call, Answered

-----------------------------------------------------------------------------
(* The slots. *)

(* Nothing new runs: the two cardinalities do not grow. *)
LEMMA SlotsKept ==
    ASSUME NEW A, NEW F, IsFiniteSet(A), IsFiniteSet(F), NEW B \in SUBSET A, NEW G \in SUBSET F
    PROVE  /\ IsFiniteSet(B) /\ IsFiniteSet(G)
           /\ Cardinality(B) + Cardinality(G) <= Cardinality(A) + Cardinality(F)
<1>1. /\ IsFiniteSet(B) /\ Cardinality(B) <= Cardinality(A)
      /\ IsFiniteSet(G) /\ Cardinality(G) <= Cardinality(F)
    BY FS_Subset
<1> QED BY <1>1, FS_CardinalityType

(* A slot that was counted is used: what one cardinality gains the other loses. *)
LEMMA SlotsUsed ==
    ASSUME NEW A, NEW F, IsFiniteSet(A), IsFiniteSet(F), NEW x, NEW c \in F,
           NEW B \in SUBSET (A \cup {x})
    PROVE  /\ IsFiniteSet(B) /\ IsFiniteSet(F \ {c})
           /\ Cardinality(B) + Cardinality(F \ {c}) <= Cardinality(A) + Cardinality(F)
<1>1. /\ IsFiniteSet(A \cup {x})
      /\ Cardinality(A \cup {x}) = IF x \in A THEN Cardinality(A) ELSE Cardinality(A) + 1
    BY FS_AddElement
<1>2. IsFiniteSet(F \ {c}) /\ Cardinality(F \ {c}) = Cardinality(F) - 1
    BY FS_RemoveElement
<1>3. IsFiniteSet(B) /\ Cardinality(B) <= Cardinality(A \cup {x})
    BY <1>1, FS_Subset
<1>4. Cardinality(A) \in Nat /\ Cardinality(B) \in Nat /\ Cardinality(F) \in Nat
    BY <1>3, FS_CardinalityType
<1> QED BY <1>1, <1>2, <1>3, <1>4

(* Each step either counts a slot while fewer than MaxInflight reviews run, or uses up what was  *)
(* counted, or lets nothing new run.                                                             *)
LEMMA SlotStep ==
    ASSUME TypeOK, TableInv, CallInv, SlotInv, [Next]_vars
    PROVE  SlotInv'
<1> DEFINE A == Rows("in_progress")
           B == Rows("in_progress")'
<1>1. IsFiniteSet(A) /\ IsFiniteSet(free) /\ IsFiniteSet(Callers)
    <2>1. A \subseteq 1..NReviews /\ NReviews \in Nat
        BY ReviewAssumption DEF Rows, Review
    <2> QED BY <2>1, FS_Interval, FS_Subset, ReviewAssumption DEF TypeOK
<1>2. \/ UNCHANGED state /\ \E c \in Callers : CountSlots(c)
      \/ B \subseteq A /\ free' \subseteq free
      \/ \E x \in Review, c \in free : B \subseteq A \cup {x} /\ free' = free \ {c}
    <2> USE DEF Rows, Goto, Return, reviews, At
    <2>1. ASSUME NEW c \in Callers, InsertReview(c)
          PROVE  <1>2!1 \/ <1>2!2 \/ <1>2!3
        <3>1. rows + 1 \in Review
            BY <2>1, ReviewAssumption DEF InsertReview, TypeOK, Review
        <3>2. CASE c \in free
            <4>1. B \subseteq A \cup {rows + 1} /\ free' = free \ {c}
                BY <2>1, <3>2 DEF InsertReview, TypeOK
            <4> QED BY <3>1, <3>2, <4>1
        <3>3. CASE c \notin free
            BY <2>1, <3>3 DEF InsertReview, TypeOK
        <3> QED BY <3>2, <3>3
    <2>2. ASSUME NEW c \in Callers, ReadBack(c)
          PROVE  <1>2!2
        BY <2>2 DEF ReadBack
    <2>3. ASSUME NEW c \in Callers, NEW v \in Verdicts, DispatchAnswers(c, v)
          PROVE  <1>2!2
        BY <2>3 DEF DispatchAnswers
    <2>4. ASSUME NEW c \in Callers, RecordVerdict(c)
          PROVE  <1>2!2
        BY <2>4 DEF RecordVerdict, TypeOK
    <2>5. ASSUME NEW c \in Callers, CountAgain(c)
          PROVE  <1>2!1
        BY <2>5 DEF CountAgain
    <2>6. ASSUME NEW c \in Callers, PickPending(c)
          PROVE  <1>2!2
        BY <2>6 DEF PickPending
    <2>7. ASSUME NEW c \in Callers, Promote(c)
          PROVE  <1>2!3
        <3>1. c \in free /\ id[c] \in Review
            BY <2>7 DEF Promote, CallInv, TypeOK
        <3>2. B \subseteq A \cup {id[c]} /\ free' = free \ {c}
            BY <2>7 DEF Promote, TypeOK
        <3> QED BY <3>1, <3>2
    <2>8. ASSUME NEW c \in Callers, CallerDies(c)
          PROVE  <1>2!2
        BY <2>8 DEF CallerDies
    <2>9. ASSUME NEW c \in Callers, NEW dispatch \in BOOLEAN, RequestReview(c, dispatch)
          PROVE  <1>2!1
        BY <2>9 DEF RequestReview
    <2>10. ASSUME NEW c \in Callers, NEW r \in Review, NEW v \in Verdicts, NEW who \in Agents,
                  SubmitReview(c, r, v, who)
           PROVE  <1>2!2
        BY <2>10 DEF SubmitReview
    <2>11. ASSUME NEW r \in Review, FailTimedOut(r)
           PROVE  <1>2!2
        BY <2>11 DEF FailTimedOut
    <2>12. CASE UNCHANGED vars
        BY <2>12 DEF vars
    <2> QED BY <2>1, <2>2, <2>3, <2>4, <2>5, <2>6, <2>7, <2>8, <2>9, <2>10, <2>11, <2>12
            DEF Next, Call, Answered
<1>3. CASE <1>2!1
    <2>1. PICK c \in Callers : CountSlots(c)
        BY <1>3
    <2>2. B = A
        BY <1>3 DEF Rows
    <2>3. CASE inflight < MaxInflight
        <3>1. free' \subseteq Callers
            BY <2>1, <2>3 DEF CountSlots, TypeOK
        <3>2. Cardinality(free') <= Cardinality(Callers) /\ IsFiniteSet(free')
            BY <3>1, <1>1, FS_Subset
        <3> QED BY <2>2, <2>3, <3>2, <1>1, FS_CardinalityType, ReviewAssumption DEF SlotInv, inflight
    <2>4. CASE ~(inflight < MaxInflight)
        <3>1. free' \subseteq free
            BY <2>1, <2>4 DEF CountSlots
        <3>2. Cardinality(free') <= Cardinality(free) /\ IsFiniteSet(free')
            BY <3>1, <1>1, FS_Subset
        <3> QED BY <2>2, <3>2, <1>1, FS_CardinalityType, ReviewAssumption DEF SlotInv, inflight
    <2> QED BY <2>3, <2>4
<1>4. ASSUME IsFiniteSet(B) /\ IsFiniteSet(free'),
             Cardinality(B) + Cardinality(free') <= Cardinality(A) + Cardinality(free)
      PROVE  SlotInv'
    BY <1>1, <1>4, FS_CardinalityType, ReviewAssumption DEF SlotInv, inflight
<1>5. CASE <1>2!2
    BY <1>1, <1>4, <1>5, SlotsKept
<1>6. CASE <1>2!3
    <2>1. PICK x \in Review, c \in free : B \subseteq A \cup {x} /\ free' = free \ {c}
        BY <1>6
    <2>2. /\ IsFiniteSet(B) /\ IsFiniteSet(free')
          /\ Cardinality(B) + Cardinality(free') <= Cardinality(A) + Cardinality(free)
        BY <1>1, <2>1, SlotsUsed
    <2> QED BY <1>4, <2>2
<1> QED BY <1>2, <1>3, <1>5, <1>6

-----------------------------------------------------------------------------
(* The inductive invariant holds in every reachable state of the review queue. *)
THEOREM Safety == Spec => [](TypeOK /\ TableInv /\ CallInv /\ SlotInv)
<1>1. Init => TypeOK /\ TableInv /\ CallInv /\ SlotInv
    <2> SUFFICES ASSUME Init PROVE TypeOK /\ TableInv /\ CallInv /\ SlotInv
        OBVIOUS
    <2>1. TypeOK
        BY ReviewAssumption
        DEF Init, TypeOK, Review, Verdicts, Agents, RowState, Point, NoAnswer
    <2>2. TableInv /\ CallInv
        BY ReviewAssumption DEF Init, TableInv, CallInv, VerdictAuthorised, Review
    <2>3. Rows("in_progress") = {} /\ free = {}
        BY DEF Init, Rows
    <2>4. SlotInv
        BY <2>3, FS_EmptySet, FS_CardinalityType, ReviewAssumption DEF SlotInv, inflight
    <2> QED BY <2>1, <2>2, <2>4
<1>2. TypeOK /\ TableInv /\ CallInv /\ SlotInv /\ [Next]_vars
        => (TypeOK /\ TableInv /\ CallInv /\ SlotInv)'
    BY TypeStep, TableStep, SlotStep
<1> QED BY <1>1, <1>2, PTL DEF Spec

(* submit_review lets nobody but the dispatch answer the dispatch's own review, and nobody but   *)
(* the assigned reviewer approve, with any number of calls at once.                              *)
THEOREM VerdictAuthorisedAlways == Spec => []VerdictAuthorised
<1>1. TableInv => VerdictAuthorised
    BY DEF TableInv
<1> QED BY <1>1, Safety, PTL

(* TRIUMVIRATE_REVIEW_MAX_INFLIGHT is exceeded by fewer reviews than there are calls at once.    *)
THEOREM CapOvershootAlways == Spec => []CapOvershoot
<1>1. TypeOK /\ SlotInv => CapOvershoot
    <2> SUFFICES ASSUME TypeOK, SlotInv PROVE CapOvershoot
        OBVIOUS
    <2>1. IsFiniteSet(free) /\ IsFiniteSet(Callers) /\ IsFiniteSet(Rows("in_progress"))
        <3>1. Rows("in_progress") \subseteq 1..NReviews /\ NReviews \in Nat
            BY ReviewAssumption DEF Rows, Review
        <3> QED BY <3>1, FS_Interval, FS_Subset, ReviewAssumption DEF TypeOK
    <2> QED BY <2>1, FS_CardinalityType, ReviewAssumption DEF SlotInv, CapOvershoot, inflight
<1> QED BY <1>1, Safety, PTL

-----------------------------------------------------------------------------
(* Action properties. *)

(* The guarded updates of submit_review, its promotion and the sweep never touch a review that   *)
(* was answered or has failed.                                                                   *)
THEOREM VerdictStandsAlways == Spec => VerdictStands
<1> DEFINE Stands(r) == state'[r] = state[r] /\ verdict'[r] = verdict[r] /\ by'[r] = by[r]
<1>1. ASSUME TypeOK, TableInv, [Next]_vars,
             NEW r \in Review, state[r] \in {"done", "failed"}
      PROVE  Stands(r)
    <2> USE DEF TypeOK, reviews
    <2>1. ASSUME NEW c \in Callers, InsertReview(c)
          PROVE  Stands(r)
        BY <1>1, <2>1, ReviewAssumption DEF InsertReview, TableInv, Review
    <2>2. ASSUME NEW c \in Callers, RecordVerdict(c)
          PROVE  Stands(r)
        BY <1>1, <2>2 DEF RecordVerdict
    <2>3. ASSUME NEW c \in Callers, Promote(c)
          PROVE  Stands(r)
        BY <1>1, <2>3 DEF Promote
    <2>4. ASSUME NEW o \in Review, FailTimedOut(o)
          PROVE  Stands(r)
        BY <1>1, <2>4 DEF FailTimedOut
    <2>5. CASE UNCHANGED reviews
        BY <2>5
    <2> QED BY <1>1, <2>1, <2>2, <2>3, <2>4, <2>5
            DEF Next, Call, Answered, vars, ReadBack, DispatchAnswers, CountAgain, PickPending,
                CallerDies, RequestReview, SubmitReview
<1>2. TypeOK /\ TableInv /\ [Next]_vars
        => [\A r \in Review : state[r] \in {"done", "failed"} =>
                state'[r] = state[r] /\ verdict'[r] = verdict[r] /\ by'[r] = by[r]]_vars
    BY <1>1
<1> QED BY <1>2, Safety, PTL DEF Spec, VerdictStands

(* A promotion goes to the oldest review that waits, although its call picked it earlier: a row  *)
(* that is inserted meanwhile is younger, and none goes back to waiting.                         *)
THEOREM PromotedInOrderAlways == Spec => PromotedInOrder
<1> DEFINE InOrder(r) == \A q \in Review : q < r => state[q] # "pending"
<1>1. ASSUME TypeOK, TableInv, CallInv, [Next]_vars,
             NEW r \in Review, state[r] = "pending", state'[r] = "in_progress"
      PROVE  InOrder(r)
    <2> USE DEF TypeOK, reviews
    <2>1. ASSUME NEW c \in Callers, InsertReview(c)
          PROVE  InOrder(r)
        BY <1>1, <2>1, ReviewAssumption DEF InsertReview, TableInv, Review
    <2>2. ASSUME NEW c \in Callers, RecordVerdict(c)
          PROVE  InOrder(r)
        BY <1>1, <2>2 DEF RecordVerdict
    <2>3. ASSUME NEW c \in Callers, Promote(c)
          PROVE  InOrder(r)
        BY <1>1, <2>3 DEF Promote, CallInv, At
    <2>4. ASSUME NEW o \in Review, FailTimedOut(o)
          PROVE  InOrder(r)
        BY <1>1, <2>4 DEF FailTimedOut
    <2>5. CASE UNCHANGED reviews
        BY <1>1, <2>5
    <2> QED BY <1>1, <2>1, <2>2, <2>3, <2>4, <2>5
            DEF Next, Call, Answered, vars, ReadBack, DispatchAnswers, CountAgain, PickPending,
                CallerDies, RequestReview, SubmitReview
<1>2. TypeOK /\ TableInv /\ CallInv /\ [Next]_vars
        => [\A r \in Review : (state[r] = "pending" /\ state'[r] = "in_progress") =>
                \A q \in Review : q < r => state[q] # "pending"]_vars
    BY <1>1
<1> QED BY <1>2, Safety, PTL DEF Spec, PromotedInOrder

=============================================================================
