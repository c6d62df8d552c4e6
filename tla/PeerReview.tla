----------------------------- MODULE PeerReview -----------------------------
(***************************************************************************)
(* The review queue of one ledger (crates/peer-review/src/lib.rs) and its  *)
(* callers: MCP clients and fleets, which request reviews and submit       *)
(* verdicts as some agent, and the mandatory-review dispatch of a turn     *)
(* (crates/triumvirate/src/agent_exec.rs), which requests a review that    *)
(* only it may answer. Every call opens its own connection and uses no     *)
(* transaction: a step is one SQL statement.                               *)
(*                                                                         *)
(* Which agent a review is assigned to is reduced to whether a submitter   *)
(* names that agent; rows are numbered in the order of their insertion,    *)
(* which is the order of requested_at.                                     *)
(***************************************************************************)
EXTENDS Naturals, FiniteSets

CONSTANTS
    NReviews,     \* bound: reviews requested in a behaviour
    MaxInflight,  \* TRIUMVIRATE_REVIEW_MAX_INFLIGHT
    Callers,      \* what can be inside the engine at the same time
    Faults        \* what may go wrong: a call that dies, a sweep of timed-out reviews

AllFaults == {"death", "sweep"}

ASSUME ReviewAssumption ==
    /\ NReviews \in Nat \ {0}
    /\ MaxInflight \in Nat \ {0}
    /\ IsFiniteSet(Callers) /\ Callers # {}
    /\ Faults \subseteq AllFaults

Review   == 1..NReviews
Verdicts == {"approve", "reject"}  \* "reject" for the verdicts that do not approve
Agents   == {"assigned", "other"}  \* a client that names the assigned reviewer, or another name

VARIABLES
    rows,     \* how many reviews were inserted
    state,    \* reviews.state; "none" before the row exists
    verdict,  \* reviews.verdict
    owned,    \* the rows with dispatch_owned
    by,       \* who submitted the verdict (observation only)
    pc,       \* where each caller is
    id,       \* the review a caller works on
    own,      \* the caller is a turn's mandatory-review dispatch
    free,     \* a caller about to insert or promote has counted a free slot
    answer    \* the verdict and the submitter of a call of submit_review

reviews == <<rows, state, verdict, owned, by>>
vars    == <<reviews, pc, id, own, free, answer>>

NoAnswer == [verdict |-> "reject", by |-> "other"]

RowState == {"none", "pending", "in_progress", "done", "failed"}
Point    == {"idle", "insert", "reread", "asked", "update", "count", "pick", "promote"}

Rows(s)  == {r \in Review : state[r] = s}
inflight == Cardinality(Rows("in_progress"))

TypeOK ==
    /\ rows \in 0..NReviews
    /\ state \in [Review -> RowState]
    /\ verdict \in [Review -> Verdicts \cup {"none"}]
    /\ owned \in SUBSET Review
    /\ by \in [Review -> Agents \cup {"dispatch", "none"}]
    /\ pc \in [Callers -> Point]
    /\ id \in [Callers -> Review]
    /\ own \in SUBSET Callers
    /\ free \in SUBSET Callers
    /\ answer \in [Callers -> [verdict : Verdicts, by : Agents \cup {"dispatch"}]]

Init ==
    /\ rows = 0
    /\ state = [r \in Review |-> "none"]
    /\ verdict = [r \in Review |-> "none"]
    /\ owned = {}
    /\ by = [r \in Review |-> "none"]
    /\ pc = [c \in Callers |-> "idle"]
    /\ id = [c \in Callers |-> 1]
    /\ own = {} /\ free = {}
    /\ answer = [c \in Callers |-> NoAnswer]

-----------------------------------------------------------------------------
At(c, p)   == pc[c] = p
Goto(c, p) == pc' = [pc EXCEPT ![c] = p]
Return(c)  ==
    /\ Goto(c, "idle") /\ own' = own \ {c} /\ free' = free \ {c}
    /\ id' = [id EXCEPT ![c] = 1] /\ answer' = [answer EXCEPT ![c] = NoAnswer]

\* Mutant: the cap is off by one.
CountSlots_AtCap(c) == free' = IF inflight <= MaxInflight THEN free \cup {c} ELSE free \ {c}

CountSlots(c) == free' = IF inflight < MaxInflight THEN free \cup {c} ELSE free \ {c}

\* request_review, up to the count; `dispatch` when it is the mandatory review of a turn.
RequestReview(c, dispatch) ==
    /\ At(c, "idle")
    /\ rows + Cardinality({d \in Callers : pc[d] = "insert"}) < NReviews
    /\ own' = IF dispatch THEN own \cup {c} ELSE own \ {c}
    /\ CountSlots(c)
    /\ Goto(c, "insert")
    /\ UNCHANGED <<reviews, id, answer>>

\* The insert. A client only reports the row it reads back; the dispatch decides by it.
InsertReview(c) ==
    /\ At(c, "insert") /\ rows < NReviews
    /\ rows' = rows + 1
    /\ state' = [state EXCEPT ![rows + 1] = IF c \in free THEN "in_progress" ELSE "pending"]
    /\ owned' = IF c \in own THEN owned \cup {rows + 1} ELSE owned
    /\ IF c \in own
       THEN /\ id' = [id EXCEPT ![c] = rows + 1]
            /\ Goto(c, "reread") /\ free' = free \ {c} /\ UNCHANGED <<own, answer>>
       ELSE Return(c)
    /\ UNCHANGED <<verdict, by>>

\* The dispatch reads its row back: it asks the reviewer when the review is in progress, and
\* otherwise gives up its turn and leaves the row behind.
ReadBack(c) ==
    /\ At(c, "reread")
    /\ \/ /\ state[id[c]] = "in_progress"
          /\ Goto(c, "asked") /\ UNCHANGED <<id, own, free, answer>>
       \/ state[id[c]] # "in_progress" /\ Return(c)
    /\ UNCHANGED reviews

\* Mutant: nobody asks whether the review is the dispatch's own.
MayAnswer_AnyRow(r, v, who) ==
    state[r] = "in_progress" /\ (v = "approve" => who \in {"dispatch", "assigned"})

\* The checks of submit_review on the row it has read.
MayAnswer(r, v, who) ==
    /\ state[r] = "in_progress"
    /\ r \in owned => who = "dispatch"
    /\ v = "approve" => who \in {"dispatch", "assigned"}

\* submit_review by a client, up to the checks. One that is refused changes nothing.
SubmitReview(c, r, v, who) ==
    /\ At(c, "idle") /\ MayAnswer(r, v, who)
    /\ id' = [id EXCEPT ![c] = r]
    /\ answer' = [answer EXCEPT ![c] = [verdict |-> v, by |-> who]]
    /\ Goto(c, "update")
    /\ UNCHANGED <<reviews, own, free>>

\* The dispatch has its reviewer's answer, or `indeterminate` for want of one, and submits it.
DispatchAnswers(c, v) ==
    /\ At(c, "asked")
    /\ IF MayAnswer(id[c], v, "dispatch")
       THEN /\ answer' = [answer EXCEPT ![c] = [verdict |-> v, by |-> "dispatch"]]
            /\ Goto(c, "update") /\ UNCHANGED <<id, own, free>>
       ELSE Return(c)
    /\ UNCHANGED reviews

\* Mutant: the state is not checked again by the statement that writes.
RecordVerdict_Unchecked(c) ==
    /\ At(c, "update")
    /\ state' = [state EXCEPT ![id[c]] = "done"]
    /\ verdict' = [verdict EXCEPT ![id[c]] = answer[c].verdict]
    /\ by' = [by EXCEPT ![id[c]] = answer[c].by]
    /\ Goto(c, "count") /\ UNCHANGED <<rows, owned, id, own, free, answer>>

\* The guarded update of submit_review: whoever comes second gets an error.
RecordVerdict(c) ==
    /\ At(c, "update")
    /\ IF state[id[c]] = "in_progress"
       THEN /\ state' = [state EXCEPT ![id[c]] = "done"]
            /\ verdict' = [verdict EXCEPT ![id[c]] = answer[c].verdict]
            /\ by' = [by EXCEPT ![id[c]] = answer[c].by]
            /\ Goto(c, "count") /\ UNCHANGED <<id, own, free, answer>>
       ELSE Return(c) /\ UNCHANGED <<state, verdict, by>>
    /\ UNCHANGED <<rows, owned>>

\* The freed slot, counted again.
CountAgain(c) ==
    /\ At(c, "count")
    /\ CountSlots(c)
    /\ Goto(c, "pick")
    /\ UNCHANGED <<reviews, id, own, answer>>

\* Mutant: the newest review that waits is picked.
Oldest_Newest(r) == state[r] = "pending" /\ \A q \in Rows("pending") : q <= r

Oldest(r) == state[r] = "pending" /\ \A q \in Rows("pending") : r <= q

\* Mutant: that nothing waits is not told apart from a row.
PickPending_NoRow(c) ==
    /\ At(c, "pick")
    /\ id' = [id EXCEPT ![c] = IF Rows("pending") = {} THEN 0
                              ELSE CHOOSE r \in Review : Oldest(r)]
    /\ Goto(c, "promote")
    /\ UNCHANGED <<reviews, own, free, answer>>

\* No slot was free, or nothing waits; otherwise the oldest review that waits is to be promoted.
PickPending(c) ==
    /\ At(c, "pick")
    /\ \/ /\ c \notin free \/ Rows("pending") = {}
          /\ Return(c)
       \/ /\ c \in free
          /\ \E r \in Review : Oldest(r) /\ id' = [id EXCEPT ![c] = r]
          /\ Goto(c, "promote") /\ UNCHANGED <<own, free, answer>>
    /\ UNCHANGED reviews

\* Guarded: a review that another call promoted meanwhile is left alone.
Promote(c) ==
    /\ At(c, "promote")
    /\ state' = [state EXCEPT ![id[c]] = IF @ = "pending" THEN "in_progress" ELSE @]
    /\ Return(c)
    /\ UNCHANGED <<rows, verdict, owned, by>>

\* fail_timed_out_reviews: one statement fails every running review that is old enough.
FailTimedOut(oldest) ==
    /\ "sweep" \in Faults
    /\ state' = [r \in Review |-> IF state[r] = "in_progress" /\ r <= oldest THEN "failed"
                                ELSE state[r]]
    /\ UNCHANGED <<rows, verdict, owned, by, pc, id, own, free, answer>>

\* The process of a call dies, or one of its statements fails.
CallerDies(c) ==
    /\ "death" \in Faults /\ pc[c] # "idle"
    /\ Return(c)
    /\ UNCHANGED reviews

-----------------------------------------------------------------------------
Call(c) ==
    \/ InsertReview(c) \/ ReadBack(c)
    \/ \E v \in Verdicts : DispatchAnswers(c, v)
    \/ RecordVerdict(c) \/ CountAgain(c) \/ PickPending(c) \/ Promote(c)

Answered(c, r) == \E v \in Verdicts, who \in Agents : SubmitReview(c, r, v, who)

Next ==
    \/ \E c \in Callers : Call(c) \/ CallerDies(c)
    \/ \E c \in Callers, dispatch \in BOOLEAN : RequestReview(c, dispatch)
    \/ \E c \in Callers, r \in Review : Answered(c, r)
    \/ \E r \in Review : FailTimedOut(r)

Spec == Init /\ [][Next]_vars

-----------------------------------------------------------------------------
\* A review that was answered or has failed stays as it is: of two submits that both found it
\* running, or a submit and a sweep, the second changes nothing.
VerdictStands ==
    [][\A r \in Review : state[r] \in {"done", "failed"} =>
           state'[r] = state[r] /\ verdict'[r] = verdict[r] /\ by'[r] = by[r]]_vars

\* No verdict on a review that the dispatch conducts is anybody else's, no approval comes from an
\* agent the review was not assigned to, and only answered reviews carry a verdict.
VerdictAuthorised ==
    \A r \in Review :
        /\ verdict[r] # "none" <=> state[r] = "done"
        /\ verdict[r] # "none" /\ r \in owned => by[r] = "dispatch"
        /\ verdict[r] = "approve" => by[r] \in {"dispatch", "assigned"}

\* Reviews that wait are promoted first come, first served, whichever calls promote them.
PromotedInOrder ==
    [][\A r \in Review : (state[r] = "pending" /\ state'[r] = "in_progress") =>
           \A q \in Review : q < r => state[q] # "pending"]_vars

\* The cap is exceeded by at most the calls that counted the same free slot.
CapOvershoot == inflight < MaxInflight + Cardinality(Callers)

=============================================================================
