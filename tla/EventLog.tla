------------------------------ MODULE EventLog ------------------------------
(***************************************************************************)
(* The ledger's event log: the two callers that append fleet events at a   *)
(* number they read first (ingest_fleet_event and TaskStore::record_event),*)
(* the spool that the session hooks fill and the daemon drains, and gc.    *)
(*                                                                         *)
(* One statement of SQL is one step: every call opens a connection of its  *)
(* own and no two statements share a transaction.  The rows that can meet  *)
(* are those of one fleet and one event type ("fleet") and those of one    *)
(* hook session ("hook"); a hook numbers its own events.                   *)
(***************************************************************************)
EXTENDS Integers, FiniteSets, FiniteSetsExt

CONSTANTS
    Patient,    \* calls of ingest_fleet_event, one event each
    OneShot,    \* calls of record_event, one event each
    Drains,     \* callers of drain_spool: "sweep" is the background loop, the others /ledger/wake
    NFiles,     \* events the hooks spool
    MaxTries,   \* attempts of ingest_fleet_event (8 in the code)
    MaxFaults,  \* bound: statements that fail (SQLITE_BUSY after 5 s, I/O) and deaths
    Events      \* faults admitted: "death", "gc"

Writers == Patient \cup OneShot
File    == 1..NFiles
Log     == {"fleet", "hook"}
Path    == File \X {"tmp", "final"}
NoPath  == <<0, "tmp">>

ASSUME EventLogAssumption ==
    /\ Patient \cap OneShot = {} /\ "hook" \notin Writers
    /\ NFiles \in Nat /\ MaxTries \in Nat \ {0} /\ MaxFaults \in Nat
    /\ IsFiniteSet(Writers) /\ IsFiniteSet(Drains)

VARIABLES
    rows,     \* events: [log, seq, by, id], unique in log and seq
    lastId,   \* AUTOINCREMENT: rows inserted in each log, a row's id being its place there
    count,    \* sessions.event_count of each log's session
    wpc, wseq, wtry,        \* a writer: where it is, the number it took, attempts used
    wgood,                  \* ghost: the writer's number comes from a read that succeeded
    hpc, spool,             \* a hook and the files in the spool directory
    dpc, dlist, dcur,       \* a drain: where it is, the files it still has to take, the one in hand
    known,                  \* the project is in the daemon's ledger_project_lru
    faults,   \* failed statements and deaths so far
    ever,     \* ghost: every row ever inserted
    cut       \* ghost: inserts whose update of the session never ran

table == <<rows, lastId, ever>>
writers == <<wpc, wseq, wtry, wgood>>
drains == <<dpc, dlist, dcur>>
vars == <<rows, lastId, count, wpc, wseq, wtry, wgood, hpc, spool, dpc, dlist, dcur, known, faults, ever, cut>>

Row == [log : Log, seq : Nat \ {0}, by : Writers \cup {"hook"}, id : Nat]

TypeOK ==
    /\ rows \subseteq ever /\ ever \subseteq Row
    /\ lastId \in [Log -> Nat] /\ count \in [Log -> Nat]
    /\ wpc \in [Writers -> {"open", "read", "insert", "bump", "returned", "dropped"}]
    /\ wseq \in [Writers -> Nat] /\ wtry \in [Writers -> 0..MaxTries] /\ wgood \in [Writers -> BOOLEAN]
    /\ hpc \in [File -> {"none", "partial", "whole", "over"}]
    /\ spool \subseteq Path
    /\ dpc \in [Drains -> {"idle", "next", "insert", "bump", "remove"}]
    /\ dlist \in [Drains -> SUBSET Path] /\ dcur \in [Drains -> Path \cup {NoPath}]
    /\ known \in BOOLEAN /\ faults \in 0..MaxFaults /\ cut \in [Log -> Nat]

Init ==
    /\ rows = {} /\ ever = {} /\ lastId = [l \in Log |-> 0] /\ count = [l \in Log |-> 0]
    /\ wpc = [w \in Writers |-> "open"] /\ wseq = [w \in Writers |-> 0]
    /\ wtry = [w \in Writers |-> 0] /\ wgood = [w \in Writers |-> FALSE]
    /\ hpc = [f \in File |-> "none"] /\ spool = {}
    /\ dpc = [d \in Drains |-> "idle"] /\ dlist = [d \in Drains |-> {}]
    /\ dcur = [d \in Drains |-> NoPath]
    /\ known = FALSE /\ faults = 0 /\ cut = [l \in Log |-> 0]

-----------------------------------------------------------------------------
(* The table. *)

\* Mutant: no UNIQUE key.
Taken_Never(l, n) == FALSE

\* ON CONFLICT(session_id, event_type, sequence).
Taken(l, n) == \E r \in rows : r.log = l /\ r.seq = n

\* Mutant: the NULL of an empty log read as -1.
MaxSeq_Sentinel(l) ==
    LET s == {r.seq : r \in {q \in rows : q.log = l}} IN IF s = {} THEN -1 ELSE Max(s)

\* SELECT MAX(sequence), 0 for NULL.
MaxSeq(l) == Max({r.seq : r \in {q \in rows : q.log = l}} \cup {0})

\* The two statements of ingest_event: ON CONFLICT DO NOTHING, and the session's count.
InsertRow(l, n, w) ==
    LET r == [log |-> l, seq |-> n, by |-> w, id |-> lastId[l] + 1]
    IN  /\ rows' = rows \cup {r} /\ ever' = ever \cup {r} /\ lastId' = [lastId EXCEPT ![l] = @ + 1]

CountRow(l) == count' = [count EXCEPT ![l] = @ + 1]

\* Bookkeeping: n inserts of log l end without their update of the session.
Cut(l, n) == cut' = [cut EXCEPT ![l] = @ + n]

\* A statement fails (the connection was busy for 5 seconds, the disk refused) or a process dies.
Fault == faults < MaxFaults /\ faults' = faults + 1

-----------------------------------------------------------------------------
(* Appending a fleet event. *)

At(w, point) == wpc' = [wpc EXCEPT ![w] = point]

\* The call ends: "returned" without a word, "dropped" with an error logged or handed to the caller.
End(w, result) ==
    /\ At(w, result)
    /\ wseq' = [wseq EXCEPT ![w] = 0]
    /\ wtry' = [wtry EXCEPT ![w] = 0] /\ wgood' = [wgood EXCEPT ![w] = FALSE]

\* LedgerStore::open; both callers give up when it fails.
Open(w) ==
    /\ wpc[w] = "open"
    /\ \/ At(w, "read") /\ UNCHANGED <<wseq, wtry, wgood, faults>>
       \/ Fault /\ End(w, "dropped")
    /\ UNCHANGED <<table, count, hpc, spool, drains, known, cut>>

\* A failed attempt of ingest_fleet_event is repeated; record_event returns the error.
Retry(w) ==
    IF w \in Patient /\ wtry[w] + 1 < MaxTries
    THEN At(w, "read") /\ wtry' = [wtry EXCEPT ![w] = @ + 1] /\ UNCHANGED <<wseq, wgood>>
    ELSE End(w, "dropped")

\* MAX(sequence) + 1 over a connection of its own; ingest_fleet_event takes 1 if the read fails.
ReadMax(w) ==
    /\ wpc[w] = "read"
    /\ \/ /\ wseq' = [wseq EXCEPT ![w] = MaxSeq("fleet") + 1]
          /\ wgood' = [wgood EXCEPT ![w] = TRUE]
          /\ At(w, "insert") /\ UNCHANGED <<wtry, faults>>
       \/ /\ Fault /\ w \in Patient
          /\ wseq' = [wseq EXCEPT ![w] = 1] /\ wgood' = [wgood EXCEPT ![w] = FALSE]
          /\ At(w, "insert") /\ UNCHANGED wtry
       \/ Fault /\ w \in OneShot /\ Retry(w)
    /\ UNCHANGED <<table, count, hpc, spool, drains, known, cut>>

\* The insert.  A taken number is no error: nothing is inserted and the call returns Ok.
Insert(w) ==
    /\ wpc[w] = "insert"
    /\ \/ Taken("fleet", wseq[w]) /\ End(w, "returned") /\ UNCHANGED <<table, faults>>
       \/ /\ ~Taken("fleet", wseq[w]) /\ InsertRow("fleet", wseq[w], w)
          /\ At(w, "bump") /\ UNCHANGED <<wseq, wtry, wgood, faults>>
       \/ Fault /\ Retry(w) /\ UNCHANGED table
    /\ UNCHANGED <<count, hpc, spool, drains, known, cut>>

\* The session's count; a failure here repeats the whole attempt, insert included.
Bump(w) ==
    /\ wpc[w] = "bump"
    /\ \/ CountRow("fleet") /\ End(w, "returned") /\ UNCHANGED <<faults, cut>>
       \/ Fault /\ Retry(w) /\ Cut("fleet", 1) /\ UNCHANGED count
    /\ UNCHANGED <<table, hpc, spool, drains, known>>

WriterDies(w) ==
    /\ "death" \in Events /\ Fault /\ wpc[w] \in {"read", "insert", "bump"}
    /\ End(w, "dropped") /\ Cut("fleet", IF wpc[w] = "bump" THEN 1 ELSE 0)
    /\ UNCHANGED <<table, count, hpc, spool, drains, known>>

-----------------------------------------------------------------------------
(* The hooks, external: a temporary file, its rename, a ping that may be lost. *)

Hook(f) ==
    /\ \A g \in File : g < f => hpc[g] # "none"
    /\ \/ /\ hpc[f] = "none" /\ hpc' = [hpc EXCEPT ![f] = "partial"]
          /\ spool' = spool \cup {<<f, "tmp">>}
       \/ hpc[f] = "partial" /\ hpc' = [hpc EXCEPT ![f] = "whole"] /\ UNCHANGED spool
       \/ /\ hpc[f] = "whole" /\ hpc' = [hpc EXCEPT ![f] = "over"]
          /\ spool' = IF <<f, "tmp">> \in spool
                      THEN (spool \ {<<f, "tmp">>}) \cup {<<f, "final">>} ELSE spool
    /\ UNCHANGED <<table, count, writers, drains, known, faults, cut>>

-----------------------------------------------------------------------------
(* drain_spool. *)

\* ledger_wake_route remembers the project and drains; the sweep drains the projects remembered.
ListSpool(d) ==
    /\ dpc[d] = "idle" /\ (d = "sweep" => known)
    /\ known' = TRUE
    /\ dlist' = [dlist EXCEPT ![d] = spool] /\ dpc' = [dpc EXCEPT ![d] = "next"]
    /\ UNCHANGED <<table, count, writers, hpc, spool, dcur, faults, cut>>

\* The oldest file of the listing; one that is gone, or not yet whole, is counted as failed.
Oldest(s) == CHOOSE p \in s : \A q \in s : p[1] <= q[1]

TakeFile(d) ==
    LET p == Oldest(dlist[d])
        readable == p \in spool /\ hpc[p[1]] # "partial"
    IN  /\ dpc[d] = "next"
        /\ \/ /\ dlist[d] = {} /\ dpc' = [dpc EXCEPT ![d] = "idle"] /\ UNCHANGED <<dlist, dcur>>
           \/ /\ dlist[d] # {} /\ dlist' = [dlist EXCEPT ![d] = @ \ {p}]
              /\ dcur' = IF readable THEN [dcur EXCEPT ![d] = p] ELSE dcur
              /\ dpc' = IF readable THEN [dpc EXCEPT ![d] = "insert"] ELSE dpc
        /\ UNCHANGED <<table, count, writers, hpc, spool, known, faults, cut>>

\* Mutants: a failed file is removed; a row that is there is counted again; it is an error.
DrainInsert_RemovesFailed(d) ==
    /\ dpc[d] = "insert"
    /\ \/ /\ Taken("hook", dcur[d][1]) /\ dpc' = [dpc EXCEPT ![d] = "remove"]
          /\ UNCHANGED <<table, faults>>
       \/ /\ ~Taken("hook", dcur[d][1]) /\ InsertRow("hook", dcur[d][1], "hook")
          /\ dpc' = [dpc EXCEPT ![d] = "bump"] /\ UNCHANGED faults
       \/ Fault /\ dpc' = [dpc EXCEPT ![d] = "remove"] /\ UNCHANGED table
    /\ UNCHANGED <<count, writers, hpc, spool, dlist, dcur, known, cut>>

DrainInsert_CountsAgain(d) ==
    /\ dpc[d] = "insert" /\ dpc' = [dpc EXCEPT ![d] = "bump"]
    /\ IF Taken("hook", dcur[d][1]) THEN UNCHANGED table ELSE InsertRow("hook", dcur[d][1], "hook")
    /\ UNCHANGED <<faults, count, writers, hpc, spool, dlist, dcur, known, cut>>

DrainInsert_ConflictFails(d) ==
    /\ dpc[d] = "insert"
    /\ IF Taken("hook", dcur[d][1])
       THEN dpc' = [dpc EXCEPT ![d] = "next"] /\ UNCHANGED table
       ELSE dpc' = [dpc EXCEPT ![d] = "bump"] /\ InsertRow("hook", dcur[d][1], "hook")
    /\ UNCHANGED <<faults, count, writers, hpc, spool, dlist, dcur, known, cut>>

\* ingest_event of the file in hand; the file stays when a statement fails.
DrainInsert(d) ==
    /\ dpc[d] = "insert"
    /\ \/ /\ Taken("hook", dcur[d][1]) /\ dpc' = [dpc EXCEPT ![d] = "remove"]
          /\ UNCHANGED <<table, faults>>
       \/ /\ ~Taken("hook", dcur[d][1]) /\ InsertRow("hook", dcur[d][1], "hook")
          /\ dpc' = [dpc EXCEPT ![d] = "bump"] /\ UNCHANGED faults
       \/ Fault /\ dpc' = [dpc EXCEPT ![d] = "next"] /\ UNCHANGED table
    /\ UNCHANGED <<count, writers, hpc, spool, dlist, dcur, known, cut>>

DrainBump(d) ==
    /\ dpc[d] = "bump"
    /\ \/ /\ CountRow("hook") /\ dpc' = [dpc EXCEPT ![d] = "remove"]
          /\ UNCHANGED <<faults, cut>>
       \/ Fault /\ dpc' = [dpc EXCEPT ![d] = "next"] /\ Cut("hook", 1) /\ UNCHANGED count
    /\ UNCHANGED <<table, writers, hpc, spool, dlist, dcur, known>>

\* remove_file(..)?: a file that another drain removed, or a hook renamed, ends the whole drain.
RemoveFile(d) ==
    /\ dpc[d] = "remove"
    /\ spool' = spool \ {dcur[d]}
    /\ IF dcur[d] \in spool THEN dpc' = [dpc EXCEPT ![d] = "next"] /\ UNCHANGED dlist
       ELSE dpc' = [dpc EXCEPT ![d] = "idle"] /\ dlist' = [dlist EXCEPT ![d] = {}]
    /\ dcur' = [dcur EXCEPT ![d] = NoPath]
    /\ UNCHANGED <<table, count, writers, hpc, known, faults, cut>>

\* The daemon dies and restarts: drains and the remembered projects are gone.
DaemonDies ==
    /\ "death" \in Events /\ Fault /\ (known \/ \E d \in Drains : dpc[d] # "idle")
    /\ dpc' = [d \in Drains |-> "idle"] /\ dlist' = [d \in Drains |-> {}]
    /\ dcur' = [d \in Drains |-> NoPath] /\ known' = FALSE
    /\ Cut("hook", Cardinality({d \in Drains : dpc[d] = "bump"}))
    /\ UNCHANGED <<table, count, writers, hpc, spool>>

-----------------------------------------------------------------------------
(* gc deletes the events of more than 30 days that have no summary, far older than any call under *)
(* way; no code of the daemon writes summaries, so it is a log's oldest rows that go.             *)

Quiet == /\ \A w \in Writers : wpc[w] \in {"open", "returned", "dropped"}
         /\ \A d \in Drains : dpc[d] = "idle"

Gc ==
    /\ "gc" \in Events /\ Quiet
    /\ \E c \in [Log -> 0..(lastId["fleet"] + lastId["hook"])] : rows' = {r \in rows : r.id > c[r.log]}
    /\ rows' # rows
    /\ UNCHANGED <<lastId, ever, count, writers, hpc, spool, drains, known, faults, cut>>

-----------------------------------------------------------------------------

DrainStep(d) == ListSpool(d) \/ TakeFile(d) \/ DrainInsert(d) \/ DrainBump(d) \/ RemoveFile(d)

Next ==
    \/ \E w \in Writers : Open(w) \/ ReadMax(w) \/ Insert(w) \/ Bump(w) \/ WriterDies(w)
    \/ \E f \in File : Hook(f)
    \/ \E d \in Drains : DrainStep(d)
    \/ DaemonDies \/ Gc

Spec == Init /\ [][Next]_vars

\* The background loop keeps sweeping, and a drain it began comes to its end.
FairSpec == Spec /\ WF_vars(DrainStep("sweep"))

-----------------------------------------------------------------------------
(* Properties. *)

Logged(l, n) == \E r \in ever : r.log = l /\ r.seq = n

\* An event that left the spool is in the ledger: with drains that overlap, statements that fail,
\* a daemon that dies between two of them and a hook that renames the file meanwhile.
SpoolNotLost ==
    \A f \in File : (hpc[f] # "none" /\ <<f, "tmp">> \notin spool /\ <<f, "final">> \notin spool)
                        => Logged("hook", f)

\* An event of ingest_fleet_event is logged, or the call says that it gave up ("it retries now, and
\* says so when it gives up"). Refuted: the number another call took first is no error to ingest_event,
\* which passes over the conflict, and so nothing is retried and nothing is said.
LostMeansSaid ==
    \A w \in Patient : wpc[w] = "returned" => \E r \in ever : r.log = "fleet" /\ r.by = w

\* sessions.event_count counts each row once: redelivery of a spooled event adds nothing, and only
\* an update that failed or was cut off by a death is missing.
CountsEachRowOnce ==
    /\ count["fleet"] + cut["fleet"] + Cardinality({w \in Writers : wpc[w] = "bump"}) = lastId["fleet"]
    /\ count["hook"] + cut["hook"] + Cardinality({d \in Drains : dpc[d] = "bump"}) = lastId["hook"]

\* Reading the log in the order of its numbers reads it in the order it was written: an event whose
\* number was read goes in above every other, however many calls read the same maximum.
AppendsAtEnd ==
    [][\A r \in rows' \ rows :
           (r.log = "fleet" /\ wgood[r.by]) => \A q \in rows : q.log = "fleet" => q.seq < r.seq]_vars

\* A file that a hook has finished leaves the spool for as long as the daemon remembers the project.
SpoolDrained ==
    \A f \in File : (known /\ <<f, "final">> \in spool) ~> (~known \/ <<f, "final">> \notin spool)

=============================================================================
