--------------------------- MODULE EventLogProofs ---------------------------
(***************************************************************************)
(* What module EventLog promises for any number of calls, drains, spooled  *)
(* files and faults.                                                       *)
(***************************************************************************)
EXTENDS EventLog, FiniteSetTheorems, WellFoundedInduction, TLAPS

FleetRows == {r \in rows : r.log = "fleet"}

\* The numbers in the log, and those about to go in, stay within the number of inserts.
Bounded ==
    /\ \A r \in FleetRows : r.seq <= lastId["fleet"]
    /\ \A w \in Writers : wpc[w] = "insert" => wseq[w] >= 1 /\ wseq[w] <= lastId["fleet"] + 1

\* A number that was read is taken by now, or is the one that follows the maximum.
Fresh ==
    \A w \in Writers : (wpc[w] = "insert" /\ wgood[w]) =>
        \/ Taken("fleet", wseq[w])
        \/ /\ \A q \in FleetRows : q.seq < wseq[w]
           /\ wseq[w] = 1 \/ \E q \in FleetRows : q.seq >= wseq[w] - 1

\* A number that was not read is 1.
FirstOnError == \A w \in Writers : (wpc[w] = "insert" /\ ~wgood[w]) => wseq[w] = 1

\* A call that inserted, and a drain that may remove its file, have a row to show.
(* Some row of S has number n of log l. *)
Known(S, l, n) == \E r \in S : r.log = l /\ r.seq = n

Held ==
    /\ \A w \in Writers : wpc[w] = "bump" => Logged("fleet", wseq[w])
    /\ \A d \in Drains : /\ dpc[d] \in {"insert", "bump", "remove"} => dcur[d] \in Path
                         /\ dpc[d] \in {"bump", "remove"} => Logged("hook", dcur[d][1])

IInv == TypeOK /\ Bounded /\ Fresh /\ FirstOnError /\ Held /\ SpoolNotLost

USE EventLogAssumption DEF Log, Path, NoPath, File

-----------------------------------------------------------------------------
(* The maximum of the log. *)

\* A set of naturals that is not empty has a least element.
LEMMA LeastNat ==
  ASSUME NEW S \in SUBSET Nat, S # {}
  PROVE  \E m \in S : \A n \in S : m <= n
<1>1. PICK m \in S : \A y \in S : ~(<<y, m>> \in OpToRel(<, Nat))
  BY NatLessThanWellFounded, WFMin
<1>2. \A n \in S : ~(n < m)
  BY <1>1 DEF OpToRel
<1>3. QED
  BY <1>2

\* A bounded set of naturals has a greatest element, which is what Max picks.
LEMMA MaxOfBounded ==
  ASSUME NEW S \in SUBSET Nat, NEW b \in Nat, \A n \in S : n <= b
  PROVE  Max(S \cup {0}) \in S \cup {0} /\ \A n \in S : n <= Max(S \cup {0})
<1> DEFINE T == S \cup {0}
           U == {u \in Nat : \A n \in T : n <= u}
<1>1. b \in U
  OBVIOUS
<1>2. PICK m \in U : \A u \in U : m <= u
  BY <1>1, LeastNat
<1>3. m \in T
  <2>1. CASE m = 0
    BY <2>1
  <2>2. CASE m # 0 /\ m \notin T
    <3>1. m - 1 \in Nat /\ \A n \in T : n <= m - 1
      BY <1>2, <2>2
    <3>2. m - 1 \in U
      BY <3>1
    <3>3. QED
      BY <1>2, <3>2
  <2>3. QED
    BY <2>1, <2>2
<1>4. \A n \in T : m >= n
  BY <1>2
<1>5. \E x \in T : \A y \in T : x >= y
  BY <1>3, <1>4
<1>6. Max(T) \in T /\ \A y \in T : Max(T) >= y
  BY <1>5, Zenon DEF Max
<1>7. \A n \in S : n <= Max(T)
  BY <1>6
<1>8. QED
  BY <1>6, <1>7

\* What MaxSeq reads from a log whose numbers are bounded.
LEMMA MaxSeqRead ==
  ASSUME TypeOK, Bounded
  PROVE  /\ MaxSeq("fleet") \in Nat /\ MaxSeq("fleet") <= lastId["fleet"]
         /\ \A q \in FleetRows : q.seq <= MaxSeq("fleet")
         /\ MaxSeq("fleet") = 0 \/ \E q \in FleetRows : q.seq = MaxSeq("fleet")
<1> DEFINE S == {r.seq : r \in {q \in rows : q.log = "fleet"}}
<1>1. S \in SUBSET Nat /\ lastId["fleet"] \in Nat
  BY DEF TypeOK, Row
<1>2. \A n \in S : n <= lastId["fleet"]
  BY DEF Bounded, FleetRows
<1>3. Max(S \cup {0}) \in S \cup {0} /\ \A n \in S : n <= Max(S \cup {0})
  BY <1>1, <1>2, MaxOfBounded
<1>4. MaxSeq("fleet") = Max(S \cup {0})
  BY DEF MaxSeq
<1> HIDE DEF S
<1>5. MaxSeq("fleet") \in S \cup {0} /\ \A n \in S : n <= MaxSeq("fleet")
  BY <1>3, <1>4
<1>6. MaxSeq("fleet") \in Nat /\ MaxSeq("fleet") <= lastId["fleet"]
  <2>1. CASE MaxSeq("fleet") \in S
    BY <2>1, <1>1, <1>2
  <2>2. CASE MaxSeq("fleet") = 0
    BY <2>2, <1>1
  <2>3. QED
    BY <2>1, <2>2, <1>5
<1>7. QED
  BY <1>5, <1>6 DEF S, FleetRows

-----------------------------------------------------------------------------
LEMMA InitIInv == Init => IInv
<1> SUFFICES ASSUME Init PROVE IInv
  OBVIOUS
<1>1. TypeOK
  <2>1. 0 \in 0..MaxTries /\ 0 \in 0..MaxFaults /\ 0 \in Nat
    OBVIOUS
  <2>2. QED
    BY <2>1 DEF Init, TypeOK, Row
<1>2. Bounded /\ Fresh /\ FirstOnError /\ Held /\ SpoolNotLost
  BY DEF Init, Bounded, Fresh, FirstOnError, Held, SpoolNotLost, FleetRows
<1>3. QED
  BY <1>1, <1>2 DEF IInv

-----------------------------------------------------------------------------
(* What an insert does to the log. *)
LEMMA InsertRowAdds ==
  ASSUME TypeOK, NEW l \in Log, NEW n \in Nat \ {0}, NEW w \in Writers \cup {"hook"}, InsertRow(l, n, w)
  PROVE  /\ rows \subseteq rows' /\ ever \subseteq ever' /\ rows' \subseteq ever' /\ ever' \subseteq Row
         /\ lastId' \in [Log -> Nat] /\ lastId'[l] = lastId[l] + 1
         /\ \A k \in Log : k # l => lastId'[k] = lastId[k]
         /\ \E r \in rows' : r.log = l /\ r.seq = n
         /\ \A q \in rows' \ rows : q.log = l /\ q.seq = n /\ q.by = w
<1> DEFINE r == [log |-> l, seq |-> n, by |-> w, id |-> lastId[l] + 1]
<1>1. r \in Row /\ lastId \in [Log -> Nat] /\ lastId[l] \in Nat
  BY DEF TypeOK, Row
<1>2. rows' = rows \cup {r} /\ ever' = ever \cup {r} /\ lastId' = [lastId EXCEPT ![l] = @ + 1]
  BY DEF InsertRow
<1>3. r.log = l /\ r.seq = n /\ r.by = w
  OBVIOUS
<1>4. lastId' \in [Log -> Nat] /\ lastId'[l] = lastId[l] + 1 /\ \A k \in Log : k # l => lastId'[k] = lastId[k]
  BY <1>1, <1>2
<1>5. rows \subseteq rows' /\ ever \subseteq ever' /\ rows' \subseteq ever' /\ ever' \subseteq Row
  BY <1>1, <1>2 DEF TypeOK
<1> HIDE DEF r
<1>6. \E q \in rows' : q.log = l /\ q.seq = n
  BY <1>2, <1>3
<1>7. \A q \in rows' \ rows : q.log = l /\ q.seq = n /\ q.by = w
  BY <1>2, <1>3
<1>8. QED
  BY <1>4, <1>5, <1>6, <1>7

(* The number a drain gives its row is a natural. *)
LEMMA CurNumber ==
  ASSUME Held, NEW d \in Drains, dpc[d] = "insert"
  PROVE  dcur[d] \in Path /\ dcur[d][1] \in Nat \ {0} /\ dcur[d][1] \in File
BY DEF Held

\* The types of a writer's variables.
WriterTypes(p, n, t, g) ==
    /\ p \in [Writers -> {"open", "read", "insert", "bump", "returned", "dropped"}]
    /\ n \in [Writers -> Nat] /\ t \in [Writers -> 0..MaxTries] /\ g \in [Writers -> BOOLEAN]

LEMMA EndTypes ==
  ASSUME TypeOK, NEW w \in Writers, NEW result \in {"returned", "dropped"}, End(w, result)
  PROVE  WriterTypes(wpc', wseq', wtry', wgood')
<1>1. wpc' \in [Writers -> {"open", "read", "insert", "bump", "returned", "dropped"}]
  BY DEF TypeOK, End, At
<1>2. wseq' \in [Writers -> Nat]
  BY DEF TypeOK, End
<1>3. wtry' \in [Writers -> 0..MaxTries]
  BY DEF TypeOK, End
<1>4. wgood' \in [Writers -> BOOLEAN]
  BY DEF TypeOK, End
<1>5. QED
  BY <1>1, <1>2, <1>3, <1>4 DEF WriterTypes

LEMMA RetryTypes ==
  ASSUME TypeOK, NEW w \in Writers, Retry(w)
  PROVE  WriterTypes(wpc', wseq', wtry', wgood')
<1>1. CASE w \in Patient /\ wtry[w] + 1 < MaxTries
  <2>1. wtry' = [wtry EXCEPT ![w] = @ + 1] /\ At(w, "read") /\ UNCHANGED <<wseq, wgood>>
    BY <1>1 DEF Retry
  <2>2. wtry' \in [Writers -> 0..MaxTries]
    BY <1>1, <2>1 DEF TypeOK
  <2>3. QED
    BY <2>1, <2>2 DEF TypeOK, At, WriterTypes
<1>2. CASE ~(w \in Patient /\ wtry[w] + 1 < MaxTries)
  BY <1>2, EndTypes DEF Retry
<1>3. QED
  BY <1>1, <1>2

LEMMA FaultType ==
  ASSUME TypeOK, Fault
  PROVE  faults' \in 0..MaxFaults
BY DEF TypeOK, Fault

LEMMA CountType ==
  ASSUME TypeOK, NEW l \in Log
  PROVE  /\ CountRow(l) => count' \in [Log -> Nat]
         /\ \A n \in Nat : Cut(l, n) => cut' \in [Log -> Nat]
BY DEF TypeOK, CountRow, Cut

(* Every step keeps the types. *)
LEMMA NextTypeOK ==
  ASSUME IInv, [Next]_vars
  PROVE  TypeOK'
<1> USE DEF IInv
<1>0. CASE UNCHANGED vars
  BY <1>0 DEF TypeOK, vars
<1>1. ASSUME NEW w \in Writers, Open(w) PROVE TypeOK'
  <2>1. WriterTypes(wpc', wseq', wtry', wgood') /\ faults' \in 0..MaxFaults
    <3>1. CASE At(w, "read") /\ UNCHANGED <<wseq, wtry, wgood, faults>>
      BY <3>1 DEF TypeOK, At, WriterTypes
    <3>2. CASE Fault /\ End(w, "dropped")
      BY <3>2, EndTypes, FaultType
    <3>3. QED
      BY <1>1, <3>1, <3>2 DEF Open
  <2>2. QED
    BY <1>1, <2>1 DEF TypeOK, Open, WriterTypes, table, drains
<1>2. ASSUME NEW w \in Writers, ReadMax(w) PROVE TypeOK'
  <2>1. MaxSeq("fleet") + 1 \in Nat
    BY MaxSeqRead
  <2>2. WriterTypes(wpc', wseq', wtry', wgood') /\ faults' \in 0..MaxFaults
    <3>1. CASE /\ wseq' = [wseq EXCEPT ![w] = MaxSeq("fleet") + 1]
               /\ wgood' = [wgood EXCEPT ![w] = TRUE] /\ At(w, "insert") /\ UNCHANGED <<wtry, faults>>
      BY <2>1, <3>1 DEF TypeOK, At, WriterTypes
    <3>2. CASE /\ Fault /\ wseq' = [wseq EXCEPT ![w] = 1] /\ wgood' = [wgood EXCEPT ![w] = FALSE]
               /\ At(w, "insert") /\ UNCHANGED wtry
      BY <3>2, FaultType DEF TypeOK, At, WriterTypes
    <3>3. CASE Fault /\ Retry(w)
      BY <3>3, FaultType, RetryTypes
    <3>4. QED
      BY <1>2, <3>1, <3>2, <3>3 DEF ReadMax
  <2>3. QED
    BY <1>2, <2>2 DEF TypeOK, ReadMax, WriterTypes, table, drains
<1>3. ASSUME NEW w \in Writers, Insert(w) PROVE TypeOK'
  <2>1. CASE ~Taken("fleet", wseq[w]) /\ InsertRow("fleet", wseq[w], w) /\ UNCHANGED <<wseq, wtry, wgood, faults>> /\ At(w, "bump")
    <3>1. wseq[w] \in Nat \ {0}
      BY <1>3 DEF TypeOK, Bounded, Insert
    <3>2. rows' \subseteq ever' /\ ever' \subseteq Row /\ lastId' \in [Log -> Nat]
      BY <2>1, <3>1, InsertRowAdds
    <3>3. QED
      BY <1>3, <2>1, <3>2 DEF TypeOK, Insert, At, drains
  <2>2. CASE UNCHANGED table
    <3>1. WriterTypes(wpc', wseq', wtry', wgood') /\ faults' \in 0..MaxFaults
      <4>1. CASE End(w, "returned") /\ UNCHANGED faults
        BY <4>1, EndTypes DEF TypeOK
      <4>2. CASE Fault /\ Retry(w)
        BY <4>2, FaultType, RetryTypes
      <4>3. CASE At(w, "bump") /\ UNCHANGED <<wseq, wtry, wgood, faults>>
        BY <4>3 DEF TypeOK, At, WriterTypes
      <4>4. QED
        BY <1>3, <4>1, <4>2, <4>3 DEF Insert
    <3>2. QED
      BY <1>3, <2>2, <3>1 DEF TypeOK, Insert, WriterTypes, table, drains
  <2>3. QED
    BY <1>3, <2>1, <2>2 DEF Insert
<1>4. ASSUME NEW w \in Writers, Bump(w) PROVE TypeOK'
  <2>1. WriterTypes(wpc', wseq', wtry', wgood') /\ faults' \in 0..MaxFaults
        /\ count' \in [Log -> Nat] /\ cut' \in [Log -> Nat]
    <3>1. CASE CountRow("fleet") /\ End(w, "returned") /\ UNCHANGED <<faults, cut>>
      BY <3>1, EndTypes, CountType DEF TypeOK
    <3>2. CASE Fault /\ Retry(w) /\ Cut("fleet", 1) /\ UNCHANGED count
      BY <3>2, FaultType, RetryTypes, CountType DEF TypeOK
    <3>3. QED
      BY <1>4, <3>1, <3>2 DEF Bump
  <2>2. QED
    BY <1>4, <2>1 DEF TypeOK, Bump, WriterTypes, table, drains
<1>5. ASSUME NEW w \in Writers, WriterDies(w) PROVE TypeOK'
  <2>1. WriterTypes(wpc', wseq', wtry', wgood') /\ faults' \in 0..MaxFaults /\ cut' \in [Log -> Nat]
    BY <1>5, EndTypes, FaultType, CountType DEF WriterDies
  <2>2. QED
    BY <1>5, <2>1 DEF TypeOK, WriterDies, WriterTypes, table, drains
<1>6. ASSUME NEW f \in File, Hook(f) PROVE TypeOK'
  BY <1>6 DEF TypeOK, Hook, table, writers, drains
<1>7. ASSUME NEW d \in Drains, ListSpool(d) PROVE TypeOK'
  BY <1>7 DEF TypeOK, ListSpool, table, writers
<1>8. ASSUME NEW d \in Drains, TakeFile(d) PROVE TypeOK'
  <2>1. Oldest(dlist[d]) \in spool => Oldest(dlist[d]) \in Path
    BY DEF TypeOK
  <2>2. dpc' \in [Drains -> {"idle", "next", "insert", "bump", "remove"}]
    BY <1>8 DEF TypeOK, TakeFile
  <2>3. dlist' \in [Drains -> SUBSET Path]
    <3>1. dlist' = dlist \/ dlist' = [dlist EXCEPT ![d] = @ \ {Oldest(dlist[d])}]
      BY <1>8 DEF TakeFile
    <3>2. dlist[d] \ {Oldest(dlist[d])} \in SUBSET Path
      BY DEF TypeOK
    <3>3. QED
      BY <3>1, <3>2 DEF TypeOK
  <2>4. dcur' \in [Drains -> Path \cup {NoPath}]
    BY <1>8, <2>1 DEF TypeOK, TakeFile
  <2>5. QED
    BY <1>8, <2>2, <2>3, <2>4 DEF TypeOK, TakeFile, table, writers
<1>9. ASSUME NEW d \in Drains, DrainInsert(d) PROVE TypeOK'
  <2>1. CASE InsertRow("hook", dcur[d][1], "hook") /\ dpc' = [dpc EXCEPT ![d] = "bump"] /\ UNCHANGED faults
    <3>1. dcur[d][1] \in Nat \ {0}
      BY <1>9, CurNumber DEF DrainInsert
    <3>2. rows' \subseteq ever' /\ ever' \subseteq Row /\ lastId' \in [Log -> Nat]
      BY <2>1, <3>1, InsertRowAdds
    <3>3. QED
      BY <1>9, <2>1, <3>2 DEF TypeOK, DrainInsert, writers
  <2>2. CASE UNCHANGED table
    <3>1. faults' \in 0..MaxFaults /\ dpc' \in [Drains -> {"idle", "next", "insert", "bump", "remove"}]
      BY <1>9, FaultType DEF TypeOK, DrainInsert
    <3>2. QED
      BY <1>9, <2>2, <3>1 DEF TypeOK, DrainInsert, table, writers
  <2>3. QED
    BY <1>9, <2>1, <2>2 DEF DrainInsert
<1>10. ASSUME NEW d \in Drains, DrainBump(d) PROVE TypeOK'
  <2>1. /\ faults' \in 0..MaxFaults /\ dpc' \in [Drains -> {"idle", "next", "insert", "bump", "remove"}]
        /\ count' \in [Log -> Nat] /\ cut' \in [Log -> Nat]
    BY <1>10, FaultType, CountType DEF TypeOK, DrainBump
  <2>2. QED
    BY <1>10, <2>1 DEF TypeOK, DrainBump, table, writers
<1>11. ASSUME NEW d \in Drains, RemoveFile(d) PROVE TypeOK'
  BY <1>11 DEF TypeOK, RemoveFile, table, writers
<1>12. ASSUME DaemonDies PROVE TypeOK'
  <2>1. Cardinality({d \in Drains : dpc[d] = "bump"}) \in Nat
    BY FS_Subset, FS_CardinalityType
  <2>2. QED
    BY <1>12, <2>1, FaultType, CountType DEF TypeOK, DaemonDies, table, writers
<1>13. ASSUME Gc PROVE TypeOK'
  <2>1. rows' \subseteq rows
    BY <1>13 DEF Gc
  <2>2. QED
    BY <1>13, <2>1 DEF TypeOK, Gc, writers, drains
<1>14. QED
  BY <1>0, <1>1, <1>2, <1>3, <1>4, <1>5, <1>6, <1>7, <1>8, <1>9, <1>10, <1>11, <1>12, <1>13 DEF Next, DrainStep

-----------------------------------------------------------------------------
(* The numbers.  A step other than an insert and gc leaves the log alone; a call that is past its
   read keeps its number until it leaves that point. *)

\* The calls that wait to insert, as a step leaves them: where they were, one more, or one less.
Waiting(w) == wpc[w] = "insert"

LEMMA NextNumbers ==
  ASSUME IInv, [Next]_vars
  PROVE  Bounded' /\ Fresh'
<1> USE DEF IInv
<1> DEFINE Keeps == \A v \in Writers : Waiting(v)' => Waiting(v) /\ wseq'[v] = wseq[v] /\ wgood'[v] = wgood[v]
<1>1. ASSUME Keeps, UNCHANGED <<rows, lastId>> PROVE Bounded' /\ Fresh'
  <2>1. Bounded'
    BY <1>1 DEF Bounded, Waiting, FleetRows
  <2>2. Fresh'
    BY <1>1 DEF Fresh, Waiting, FleetRows, Taken
  <2>3. QED
    BY <2>1, <2>2
<1>2. ASSUME NEW w \in Writers, ReadMax(w), wpc'[w] = "insert" PROVE Bounded' /\ Fresh'
  <2>1. /\ UNCHANGED <<rows, lastId>>
        /\ \A v \in Writers \ {w} : wpc'[v] = wpc[v] /\ wseq'[v] = wseq[v] /\ wgood'[v] = wgood[v]
    BY <1>2 DEF TypeOK, ReadMax, Retry, End, At, table
  <2>2. \/ wseq'[w] = MaxSeq("fleet") + 1
        \/ wseq'[w] = 1 /\ wgood'[w] = FALSE
    BY <1>2 DEF TypeOK, ReadMax, Retry, End, At
  <2>3. /\ MaxSeq("fleet") \in Nat /\ MaxSeq("fleet") <= lastId["fleet"] /\ lastId["fleet"] \in Nat
        /\ \A q \in FleetRows : q.seq \in Nat /\ q.seq <= MaxSeq("fleet")
        /\ MaxSeq("fleet") = 0 \/ \E q \in FleetRows : q.seq = MaxSeq("fleet")
    BY MaxSeqRead DEF TypeOK, Row, FleetRows
  <2>4. wseq'[w] >= 1 /\ wseq'[w] <= lastId["fleet"] + 1
    BY <2>2, <2>3
  <2>5. wgood'[w] => /\ \A q \in FleetRows : q.seq < wseq'[w]
                     /\ wseq'[w] = 1 \/ \E q \in FleetRows : q.seq >= wseq'[w] - 1
    BY <2>2, <2>3
  <2>6. Bounded'
    BY <2>1, <2>4 DEF Bounded, FleetRows
  <2>7. Fresh'
    BY <2>1, <2>5 DEF Fresh, FleetRows, Taken
  <2>8. QED
    BY <2>6, <2>7
<1>3. ASSUME NEW w \in Writers, wpc[w] = "insert", ~Taken("fleet", wseq[w]),
             InsertRow("fleet", wseq[w], w), At(w, "bump"), UNCHANGED <<wseq, wgood>>
      PROVE  Bounded' /\ Fresh'
  <2>1. wseq[w] \in Nat \ {0} /\ wseq[w] <= lastId["fleet"] + 1 /\ lastId["fleet"] \in Nat
    BY <1>3 DEF Bounded, TypeOK
  <2>2. /\ rows \subseteq rows' /\ lastId'["fleet"] = lastId["fleet"] + 1
        /\ \E r \in rows' : r.log = "fleet" /\ r.seq = wseq[w]
        /\ \A q \in rows' \ rows : q.log = "fleet" /\ q.seq = wseq[w]
    BY <1>3, <2>1, InsertRowAdds
  <2>3. \A q \in FleetRows' : q \in FleetRows \/ q.seq = wseq[w]
    BY <2>2 DEF FleetRows
  <2>4. FleetRows \subseteq FleetRows' /\ \A q \in FleetRows : q.seq \in Nat \ {0} /\ q.seq <= lastId["fleet"]
    BY <2>2 DEF FleetRows, Bounded, TypeOK, Row
  <2>5. \A v \in Writers : Waiting(v)' => v # w /\ Waiting(v)
    BY <1>3 DEF Waiting, At, TypeOK
  <2>6. Bounded'
    <3>1. \A q \in FleetRows' : q.seq <= lastId'["fleet"]
      BY <2>1, <2>2, <2>3, <2>4
    <3>2. \A v \in Writers : wseq[v] \in Nat
      BY DEF TypeOK
    <3>3. ASSUME NEW v \in Writers, wpc'[v] = "insert"
          PROVE  wseq'[v] >= 1 /\ wseq'[v] <= lastId'["fleet"] + 1
      <4>1. wpc[v] = "insert" /\ wseq'[v] = wseq[v]
        BY <1>3, <2>5, <3>3 DEF Waiting
      <4>2. wseq[v] >= 1 /\ wseq[v] <= lastId["fleet"] + 1
        BY <4>1 DEF Bounded
      <4>3. QED
        BY <4>1, <4>2, <3>2, <2>1, <2>2
    <3>4. QED
      BY <3>1, <3>3 DEF Bounded
  <2>7. Taken("fleet", wseq[w])'
    BY <1>3, <2>2 DEF Taken
  <2>8. ASSUME NEW v \in Writers, Waiting(v)', wgood'[v]
        PROVE  \/ Taken("fleet", wseq[v])'
               \/ /\ \A q \in FleetRows' : q.seq < wseq[v]
                  /\ wseq[v] = 1 \/ \E q \in FleetRows' : q.seq >= wseq[v] - 1
    <3>1. v # w /\ wpc[v] = "insert" /\ wgood[v] /\ wseq[v] \in Nat /\ wseq[v] >= 1
      BY <1>3, <2>5, <2>8 DEF Waiting, TypeOK, Bounded
    <3>2. CASE Taken("fleet", wseq[v])
      BY <1>3, <2>2, <3>2 DEF Taken
    <3>3. CASE /\ \A q \in FleetRows : q.seq < wseq[v]
               /\ wseq[v] = 1 \/ \E q \in FleetRows : q.seq >= wseq[v] - 1
      <4>1. CASE wseq[v] = wseq[w]
        BY <1>3, <2>7, <4>1 DEF Taken
      <4>2. CASE wseq[v] # wseq[w]
        <5>1. wseq[w] < wseq[v]
          <6>1. CASE wgood[w]
            <7>1. /\ \A q \in FleetRows : q.seq < wseq[w]
                  /\ wseq[w] = 1 \/ \E q \in FleetRows : q.seq >= wseq[w] - 1
              BY <1>3, <6>1 DEF Fresh
            <7>2. QED
              BY <7>1, <3>1, <3>3, <4>2, <2>1, <2>4
          <6>2. CASE ~wgood[w]
            BY <1>3, <6>2, <3>1, <4>2, <2>1 DEF IInv, FirstOnError
          <6>3. QED
            BY <6>1, <6>2
        <5>2. \A q \in FleetRows' : q.seq < wseq[v]
          BY <5>1, <3>3, <2>3
        <5>3. wseq[v] = 1 \/ \E q \in FleetRows' : q.seq >= wseq[v] - 1
          BY <3>3, <2>4
        <5>4. QED
          BY <5>2, <5>3
      <4>3. QED
        BY <4>1, <4>2
    <3>4. QED
      BY <3>1, <3>2, <3>3 DEF Fresh
  <2>9. Fresh'
    BY <1>3, <2>8 DEF Fresh, Waiting, Taken
  <2>10. QED
    BY <2>6, <2>9
<1>4. ASSUME NEW w \in Writers, Open(w) \/ ReadMax(w) \/ Insert(w) \/ Bump(w) \/ WriterDies(w)
      PROVE  Bounded' /\ Fresh'
  <2>1. CASE ReadMax(w) /\ wpc'[w] = "insert"
    BY <2>1, <1>2
  <2>2. CASE Insert(w) /\ ~UNCHANGED table
    BY <2>2, <1>3 DEF Insert
  <2>3. CASE Open(w) \/ (ReadMax(w) /\ wpc'[w] # "insert") \/ (Insert(w) /\ UNCHANGED table) \/ Bump(w) \/ WriterDies(w)
    <3>1. UNCHANGED <<rows, lastId>>
      BY <2>3 DEF Open, ReadMax, Insert, Bump, WriterDies, table
    <3>2. Keeps
      BY <2>3 DEF Open, ReadMax, Insert, Bump, WriterDies, Retry, End, At, Waiting, TypeOK
    <3>3. QED
      BY <3>1, <3>2, <1>1
  <2>4. QED
    BY <1>4, <2>1, <2>2, <2>3
<1>5. ASSUME UNCHANGED writers PROVE Keeps
  BY <1>5 DEF writers, Waiting
<1>6. ASSUME NEW d \in Drains, DrainInsert(d) PROVE Bounded' /\ Fresh'
  <2>1. CASE InsertRow("hook", dcur[d][1], "hook")
    <3>1. dcur[d][1] \in Nat \ {0}
      BY <1>6, CurNumber DEF DrainInsert
    <3>2. /\ rows \subseteq rows' /\ lastId'["fleet"] = lastId["fleet"]
          /\ \A q \in rows' \ rows : q.log = "hook"
      BY <2>1, <3>1, InsertRowAdds
    <3>3. FleetRows' = FleetRows /\ UNCHANGED <<wpc, wseq, wgood>>
      BY <1>6, <3>2 DEF FleetRows, DrainInsert, writers
    <3>4. Bounded'
      BY <3>2, <3>3 DEF Bounded
    <3>5. Fresh'
      BY <3>2, <3>3 DEF Fresh, Taken
    <3>6. QED
      BY <3>4, <3>5
  <2>2. CASE UNCHANGED table
    BY <1>6, <2>2, <1>5, <1>1 DEF DrainInsert, table
  <2>3. QED
    BY <1>6, <2>1, <2>2 DEF DrainInsert
<1>7. ASSUME Gc PROVE Bounded' /\ Fresh'
  <2>1. rows' \subseteq rows /\ UNCHANGED <<lastId, wpc, wseq>> /\ \A w \in Writers : wpc[w] # "insert"
    BY <1>7 DEF Gc, Quiet, writers
  <2>2. QED
    BY <2>1 DEF Bounded, Fresh, FleetRows
<1>8. ASSUME UNCHANGED table, UNCHANGED writers PROVE Bounded' /\ Fresh'
  BY <1>8, <1>5, <1>1 DEF table
<1>9. QED
  BY <1>4, <1>6, <1>7, <1>8 DEF Next, DrainStep, ListSpool, TakeFile, DrainBump, RemoveFile, DaemonDies,
     Hook, vars, table, writers

-----------------------------------------------------------------------------
(* Rows that are there stay known. *)

LEMMA EverGrows ==
  ASSUME IInv, [Next]_vars
  PROVE  ever \subseteq ever' /\ \A l \in Log : \A n : Known(ever, l, n) => Known(ever', l, n)
<1>1. ever \subseteq ever'
  BY DEF Next, vars, table, Open, ReadMax, Insert, Bump, WriterDies, Hook, DrainStep, ListSpool, TakeFile,
     DrainInsert, DrainBump, RemoveFile, DaemonDies, Gc, InsertRow
<1>2. QED
  BY <1>1 DEF Logged, Known

\* An inserted row, and one that stood in the way, are known.
LEMMA RowLogged ==
  ASSUME TypeOK, NEW l \in Log, NEW n
  PROVE  /\ Taken(l, n) => Known(ever, l, n)
         /\ \A w : InsertRow(l, n, w) => Known(ever', l, n)
<1>1. Taken(l, n) => Known(ever, l, n)
  BY DEF TypeOK, Taken, Logged, Known
<1>2. ASSUME NEW w, InsertRow(l, n, w) PROVE Known(ever', l, n)
  <2> DEFINE r == [log |-> l, seq |-> n, by |-> w, id |-> lastId[l] + 1]
  <2>1. r \in ever' /\ r.log = l /\ r.seq = n
    BY <1>2 DEF InsertRow
  <2>2. QED
    BY <2>1 DEF Logged, Known
<1>3. QED
  BY <1>1, <1>2

LEMMA NextWriters ==
  ASSUME IInv, [Next]_vars
  PROVE  /\ FirstOnError'
         /\ \A w \in Writers : wpc'[w] = "bump" => Known(ever', "fleet", wseq[w]) /\ wseq'[w] = wseq[w]
<1> USE DEF IInv
<1> DEFINE Good(w) == /\ (wpc'[w] = "insert" /\ ~wgood'[w]) => wseq'[w] = 1
                      /\ wpc'[w] = "bump" => Known(ever', "fleet", wseq'[w]) /\ wseq'[w] = wseq[w]
<1>1. \A n : Known(ever, "fleet", n) => Known(ever', "fleet", n)
  BY EverGrows
<1>2. ASSUME NEW w \in Writers, UNCHANGED <<wpc[w], wseq[w], wgood[w]>> PROVE Good(w)
  BY <1>1, <1>2 DEF FirstOnError, Held, Logged, Known
<1>3. ASSUME NEW w \in Writers, Open(w) \/ ReadMax(w) \/ Insert(w) \/ Bump(w) \/ WriterDies(w)
      PROVE  \A v \in Writers : Good(v)
  <2>1. ASSUME NEW v \in Writers, v # w PROVE UNCHANGED <<wpc[v], wseq[v], wgood[v]>>
    BY <1>3, <2>1 DEF TypeOK, Open, ReadMax, Insert, Bump, WriterDies, Retry, End, At
  <2>2. Good(w)
    <3>1. CASE Open(w)
      BY <3>1 DEF Open, End, At, TypeOK
    <3>2. CASE ReadMax(w)
      BY <3>2 DEF ReadMax, Retry, End, At, TypeOK
    <3>3. CASE Insert(w)
      <4>1. CASE End(w, "returned")
        BY <4>1 DEF End, At, TypeOK
      <4>2. CASE InsertRow("fleet", wseq[w], w) /\ At(w, "bump") /\ UNCHANGED wseq
        <5>1. wpc'[w] = "bump" /\ wseq'[w] = wseq[w]
          BY <4>2 DEF At, TypeOK
        <5>2. QED
          BY <4>2, <5>1, RowLogged DEF Logged, Known
      <4>3. CASE Retry(w)
        BY <4>3 DEF Retry, End, At, TypeOK
      <4>4. QED
        BY <3>3, <4>1, <4>2, <4>3 DEF Insert
    <3>4. CASE Bump(w)
      <4>1. CASE End(w, "returned")
        BY <4>1 DEF End, At, TypeOK
      <4>2. CASE Retry(w)
        BY <4>2 DEF Retry, End, At, TypeOK
      <4>3. QED
        BY <3>4, <4>1, <4>2 DEF Bump
    <3>5. CASE WriterDies(w)
      BY <3>5 DEF WriterDies, End, At, TypeOK
    <3>6. QED
      BY <1>3, <3>1, <3>2, <3>3, <3>4, <3>5
  <2>3. QED
    BY <2>1, <2>2, <1>2
<1>4. ASSUME UNCHANGED writers PROVE \A v \in Writers : Good(v)
  <2>1. ASSUME NEW v \in Writers PROVE UNCHANGED <<wpc[v], wseq[v], wgood[v]>>
    BY <1>4 DEF writers
  <2>2. QED
    BY <2>1, <1>2
<1>5. \A v \in Writers : Good(v)
  <2> HIDE DEF Good
  <2>1. UNCHANGED writers \/ \E w \in Writers : Open(w) \/ ReadMax(w) \/ Insert(w) \/ Bump(w) \/ WriterDies(w)
    BY DEF Next, DrainStep, ListSpool, TakeFile, DrainInsert, DrainBump, RemoveFile, DaemonDies, Gc, Hook, vars, writers
  <2>2. QED
    BY <2>1, <1>3, <1>4
<1>6. QED
  BY <1>5 DEF FirstOnError, Known

(* The drains: a file in hand is a path, and it is removed only when its event is known. *)
LEMMA NextSpool ==
  ASSUME IInv, [Next]_vars
  PROVE  /\ SpoolNotLost'
         /\ \A d \in Drains : /\ dpc'[d] \in {"insert", "bump", "remove"} => dcur'[d] \in Path
                              /\ dpc'[d] \in {"bump", "remove"} => Known(ever', "hook", dcur'[d][1])
<1> USE DEF IInv
<1> DEFINE Good(d) == /\ dpc'[d] \in {"insert", "bump", "remove"} => dcur'[d] \in Path
                      /\ dpc'[d] \in {"bump", "remove"} => Known(ever', "hook", dcur'[d][1])
           Absent(f) == <<f, "tmp">> \notin spool /\ <<f, "final">> \notin spool
<1>1. \A n : Known(ever, "hook", n) => Known(ever', "hook", n)
  BY EverGrows
<1>2. ASSUME NEW d \in Drains, UNCHANGED <<dpc[d], dcur[d]>> PROVE Good(d)
  BY <1>1, <1>2 DEF Held, Logged, Known
<1>3. ASSUME NEW d \in Drains, DrainStep(d) PROVE \A e \in Drains : Good(e)
  <2>1. ASSUME NEW e \in Drains, e # d PROVE UNCHANGED <<dpc[e], dcur[e]>>
    BY <1>3, <2>1 DEF TypeOK, DrainStep, ListSpool, TakeFile, DrainInsert, DrainBump, RemoveFile
  <2>2. Good(d)
    <3>1. CASE ListSpool(d) \/ RemoveFile(d)
      BY <3>1 DEF ListSpool, RemoveFile, TypeOK
    <3>2. CASE TakeFile(d)
      BY <3>2 DEF TakeFile, TypeOK
    <3>3. CASE DrainInsert(d)
      <4>1. dcur[d] \in Path /\ dcur'[d] = dcur[d]
        BY <3>3, CurNumber DEF DrainInsert
      <4>2. CASE dpc'[d] = "next"
        BY <4>2
      <4>3. CASE Taken("hook", dcur[d][1])
        BY <4>1, <4>3, <1>1, RowLogged DEF Logged, Known
      <4>4. CASE InsertRow("hook", dcur[d][1], "hook")
        BY <4>1, <4>4, RowLogged DEF Logged, Known
      <4>5. QED
        BY <3>3, <4>2, <4>3, <4>4 DEF DrainInsert, TypeOK
    <3>4. CASE DrainBump(d)
      <4>1. dcur[d] \in Path /\ Known(ever, "hook", dcur[d][1]) /\ dcur'[d] = dcur[d]
        BY <3>4 DEF DrainBump, Held, Logged, Known
      <4>2. QED
        BY <4>1, <1>1
    <3>5. QED
      BY <1>3, <3>1, <3>2, <3>3, <3>4 DEF DrainStep
  <2>3. QED
    BY <2>1, <2>2, <1>2
<1>4. ASSUME DaemonDies PROVE \A e \in Drains : Good(e)
  BY <1>4 DEF DaemonDies
<1>5. \A e \in Drains : Good(e)
  <2>1. CASE UNCHANGED drains
    BY <2>1, <1>2 DEF drains
  <2>2. QED
    BY <1>3, <1>4, <2>1 DEF Next, Open, ReadMax, Insert, Bump, WriterDies, Hook, Gc, vars, drains
<1>6. ASSUME UNCHANGED <<hpc, spool>> PROVE SpoolNotLost'
  BY <1>1, <1>6 DEF SpoolNotLost, Logged, Known
<1>7. ASSUME NEW d \in Drains, RemoveFile(d) PROVE SpoolNotLost'
  <2>1. dcur[d] \in Path /\ Known(ever, "hook", dcur[d][1]) /\ spool' = spool \ {dcur[d]} /\ UNCHANGED hpc
    BY <1>7 DEF RemoveFile, Held, Logged, Known
  <2>2. ASSUME NEW f \in File, hpc[f] # "none", Absent(f)' PROVE Known(ever, "hook", f)
    <3>1. CASE Absent(f)
      BY <2>2, <3>1 DEF SpoolNotLost, Logged, Known
    <3>2. CASE ~Absent(f)
      <4>1. dcur[d] = <<f, "tmp">> \/ dcur[d] = <<f, "final">>
        BY <2>1, <2>2, <3>2
      <4>2. QED
        BY <2>1, <4>1
    <3>3. QED
      BY <3>1, <3>2
  <2>3. QED
    BY <1>1, <2>1, <2>2 DEF SpoolNotLost, Logged, Known
<1>8. ASSUME NEW g \in File, Hook(g) PROVE SpoolNotLost'
  <2>1. ASSUME NEW f \in File, hpc'[f] # "none", Absent(f)' PROVE Known(ever, "hook", f)
    <3>1. hpc[f] # "none" /\ Absent(f)
      BY <1>8, <2>1 DEF Hook, TypeOK
    <3>2. QED
      BY <3>1 DEF SpoolNotLost, Logged, Known
  <2>2. QED
    BY <1>1, <2>1 DEF SpoolNotLost, Logged, Known
<1>9. SpoolNotLost'
  BY <1>6, <1>7, <1>8 DEF Next, DrainStep, Open, ReadMax, Insert, Bump, WriterDies, ListSpool, TakeFile,
     DrainInsert, DrainBump, DaemonDies, Gc, vars
<1>10. QED
  BY <1>5, <1>9

-----------------------------------------------------------------------------
(* Counting the rows whose session is still to be updated. *)
Pending(S, f) == {s \in S : f[s] = "bump"}

\* One process moves from one point to another.
LEMMA PendingMoves ==
  ASSUME NEW S, IsFiniteSet(S), NEW f, NEW x \in S, NEW g,
         \A s \in S : s # x => g[s] = f[s]
  PROVE  /\ Cardinality(Pending(S, f)) \in Nat
         /\ f[x] # "bump" /\ g[x] # "bump" => Cardinality(Pending(S, g)) = Cardinality(Pending(S, f))
         /\ f[x] # "bump" /\ g[x] = "bump" => Cardinality(Pending(S, g)) = Cardinality(Pending(S, f)) + 1
         /\ f[x] = "bump" /\ g[x] # "bump" => Cardinality(Pending(S, g)) = Cardinality(Pending(S, f)) - 1
<1> DEFINE A == Pending(S, f)
           B == Pending(S, g)
<1>1. IsFiniteSet(A) /\ Cardinality(A) \in Nat
  <2>1. A \in SUBSET S
    BY DEF Pending
  <2>2. IsFiniteSet(A)
    BY <2>1, FS_Subset
  <2>3. QED
    BY <2>2, FS_CardinalityType
<1>2. ASSUME f[x] # "bump", g[x] # "bump" PROVE B = A
  BY <1>2 DEF Pending
<1>3. ASSUME f[x] # "bump", g[x] = "bump" PROVE Cardinality(B) = Cardinality(A) + 1
  <2>1. B = A \cup {x} /\ x \notin A
    BY <1>3 DEF Pending
  <2> HIDE DEF A, B
  <2>2. QED
    BY <1>1, <2>1, FS_AddElement
<1>4. ASSUME f[x] = "bump", g[x] # "bump" PROVE Cardinality(B) = Cardinality(A) - 1
  <2>1. B = A \ {x} /\ x \in A
    BY <1>4 DEF Pending
  <2> HIDE DEF A, B
  <2>2. QED
    BY <1>1, <2>1, FS_RemoveElement
<1>5. QED
  BY <1>1, <1>2, <1>3, <1>4

\* The account of log l: its rows are counted, cut off, or still to be counted by a process of S.
Balanced(l, S, f) == count[l] + cut[l] + Cardinality(Pending(S, f)) = lastId[l]
Same(l) == count'[l] = count[l] /\ cut'[l] = cut[l] /\ lastId'[l] = lastId[l]

\* A process may leave "bump" only by counting or cutting one row, and enter it only by adding one.
Accounts(l, before, after) ==
    /\ before # "bump" /\ after # "bump" => Same(l)
    /\ before # "bump" /\ after = "bump" =>
          count'[l] = count[l] /\ cut'[l] = cut[l] /\ lastId'[l] = lastId[l] + 1
    /\ before = "bump" => /\ after # "bump" /\ lastId'[l] = lastId[l]
                          /\ count'[l] + cut'[l] = count[l] + cut[l] + 1

LEMMA BalanceKept ==
  ASSUME NEW l \in Log, TypeOK, NEW S, IsFiniteSet(S), NEW f, NEW g, NEW x \in S,
         count[l] + cut[l] + Cardinality(Pending(S, f)) = lastId[l],
         count' \in [Log -> Nat], cut' \in [Log -> Nat],
         \A s \in S : s # x => g[s] = f[s],
         Accounts(l, f[x], g[x])
  PROVE  count'[l] + cut'[l] + Cardinality(Pending(S, g)) = lastId'[l]
<1>1. /\ count[l] \in Nat /\ cut[l] \in Nat /\ lastId[l] \in Nat /\ count'[l] \in Nat /\ cut'[l] \in Nat
      /\ Cardinality(Pending(S, f)) \in Nat
  BY PendingMoves DEF TypeOK
<1>2. CASE f[x] # "bump" /\ g[x] # "bump"
  <2>1. Cardinality(Pending(S, g)) = Cardinality(Pending(S, f))
    BY <1>2, PendingMoves
  <2>2. QED
    BY <1>1, <1>2, <2>1 DEF Accounts, Same
<1>3. CASE f[x] # "bump" /\ g[x] = "bump"
  <2>1. Cardinality(Pending(S, g)) = Cardinality(Pending(S, f)) + 1
    BY <1>3, PendingMoves
  <2>2. QED
    BY <1>1, <1>3, <2>1 DEF Accounts
<1>4. CASE f[x] = "bump"
  <2>1. g[x] # "bump"
    BY <1>4 DEF Accounts
  <2>2. Cardinality(Pending(S, g)) = Cardinality(Pending(S, f)) - 1
    BY <1>4, <2>1, PendingMoves
  <2>3. QED
    BY <1>1, <1>4, <2>2 DEF Accounts
<1>5. QED
  BY <1>2, <1>3, <1>4

FleetBalanced == Balanced("fleet", Writers, wpc)
HookBalanced  == Balanced("hook", Drains, dpc)

LEMMA FleetBalance ==
  ASSUME IInv, FleetBalanced, [Next]_vars
  PROVE  FleetBalanced'
<1>0. /\ TypeOK /\ TypeOK' /\ "fleet" \in Log /\ IsFiniteSet(Writers)
  BY NextTypeOK DEF IInv
<1>1. /\ count \in [Log -> Nat] /\ cut \in [Log -> Nat] /\ lastId \in [Log -> Nat]
      /\ count' \in [Log -> Nat] /\ cut' \in [Log -> Nat]
      /\ wpc \in [Writers -> {"open", "read", "insert", "bump", "returned", "dropped"}]
  BY <1>0 DEF TypeOK
<1>2. ASSUME NEW w \in Writers, \A v \in Writers : v # w => wpc'[v] = wpc[v],
             Accounts("fleet", wpc[w], wpc'[w])
      PROVE  FleetBalanced'
  BY <1>0, <1>1, <1>2, BalanceKept DEF FleetBalanced, Balanced
<1>3. ASSUME NEW w \in Writers, Open(w) \/ ReadMax(w) \/ Insert(w) \/ Bump(w) \/ WriterDies(w)
      PROVE  FleetBalanced'
  <2>1. \E q \in {"read", "insert", "bump", "returned", "dropped"} : wpc' = [wpc EXCEPT ![w] = q]
    BY <1>3 DEF Open, ReadMax, Insert, Bump, WriterDies, Retry, End, At
  <2>2. \A v \in Writers : v # w => wpc'[v] = wpc[v]
    BY <1>1, <2>1
  <2>3. CASE Open(w) \/ ReadMax(w)
    <3>1. wpc[w] # "bump" /\ UNCHANGED <<lastId, count, cut>>
      BY <2>3 DEF Open, ReadMax, table
    <3>2. wpc'[w] # "bump"
      BY <1>1, <2>3 DEF Open, ReadMax, Retry, End, At
    <3>3. QED
      BY <1>2, <2>2, <3>1, <3>2 DEF Accounts, Same
  <2>4. CASE Insert(w)
    <3>1. wpc[w] = "insert" /\ UNCHANGED <<count, cut>>
      BY <2>4 DEF Insert
    <3>2. CASE InsertRow("fleet", wseq[w], w) /\ At(w, "bump")
      BY <1>1, <1>2, <2>2, <3>1, <3>2 DEF InsertRow, At, Accounts
    <3>3. CASE UNCHANGED table /\ (End(w, "returned") \/ Retry(w))
      BY <1>1, <1>2, <2>2, <3>1, <3>3 DEF table, End, Retry, At, Accounts, Same
    <3>4. QED
      BY <2>4, <3>2, <3>3 DEF Insert
  <2>5. CASE Bump(w)
    <3>1. wpc[w] = "bump" /\ lastId' = lastId
      BY <2>5 DEF Bump, table
    <3>2. wpc'[w] # "bump"
      BY <1>1, <2>5 DEF Bump, Retry, End, At
    <3>3. count'["fleet"] + cut'["fleet"] = count["fleet"] + cut["fleet"] + 1
      BY <1>1, <2>5 DEF Bump, CountRow, Cut
    <3>4. QED
      BY <1>2, <2>2, <3>1, <3>2, <3>3 DEF Accounts
  <2>6. CASE WriterDies(w)
    <3>1. wpc'[w] = "dropped" /\ UNCHANGED <<lastId, count>>
      BY <1>1, <2>6 DEF WriterDies, End, At, table
    <3>2. cut'["fleet"] = IF wpc[w] = "bump" THEN cut["fleet"] + 1 ELSE cut["fleet"]
      BY <1>1, <2>6 DEF WriterDies, Cut
    <3>3. QED
      BY <1>1, <1>2, <2>2, <3>1, <3>2 DEF Accounts, Same
  <2>7. QED
    BY <1>3, <2>3, <2>4, <2>5, <2>6
<1>4. ASSUME wpc' = wpc, Same("fleet") PROVE FleetBalanced'
  BY <1>4 DEF FleetBalanced, Balanced, Same
<1>5. ASSUME NEW d \in Drains, DrainStep(d) PROVE FleetBalanced'
  <2>1. wpc' = wpc
    BY <1>5 DEF DrainStep, ListSpool, TakeFile, DrainInsert, DrainBump, RemoveFile, writers
  <2>2. Same("fleet")
    BY <1>1, <1>5 DEF DrainStep, ListSpool, TakeFile, DrainInsert, DrainBump, RemoveFile, table, InsertRow,
                      CountRow, Cut, Same
  <2>3. QED
    BY <1>4, <2>1, <2>2
<1>6. CASE DaemonDies \/ Gc \/ (\E f \in File : Hook(f)) \/ UNCHANGED vars
  <2>1. wpc' = wpc /\ Same("fleet")
    BY <1>1, <1>6 DEF DaemonDies, Gc, Hook, writers, table, Cut, Same, vars
  <2>2. QED
    BY <1>4, <2>1
<1>7. QED
  BY <1>3, <1>5, <1>6 DEF Next

LEMMA HookBalance ==
  ASSUME IInv, HookBalanced, [Next]_vars
  PROVE  HookBalanced'
<1>0. /\ TypeOK /\ TypeOK' /\ "hook" \in Log /\ IsFiniteSet(Drains)
  BY NextTypeOK DEF IInv
<1>1. /\ count \in [Log -> Nat] /\ cut \in [Log -> Nat] /\ lastId \in [Log -> Nat]
      /\ count' \in [Log -> Nat] /\ cut' \in [Log -> Nat]
      /\ dpc \in [Drains -> {"idle", "next", "insert", "bump", "remove"}]
  BY <1>0 DEF TypeOK
<1>2. ASSUME NEW d \in Drains, \A e \in Drains : e # d => dpc'[e] = dpc[e],
             Accounts("hook", dpc[d], dpc'[d])
      PROVE  HookBalanced'
  BY <1>0, <1>1, <1>2, BalanceKept DEF HookBalanced, Balanced
<1>3. ASSUME NEW d \in Drains, DrainStep(d) PROVE HookBalanced'
  <2>1. \A e \in Drains : e # d => dpc'[e] = dpc[e]
    BY <1>1, <1>3 DEF DrainStep, ListSpool, TakeFile, DrainInsert, DrainBump, RemoveFile
  <2>2. CASE ListSpool(d) \/ TakeFile(d) \/ RemoveFile(d)
    <3>1. dpc[d] # "bump" /\ dpc'[d] # "bump"
      BY <1>1, <2>2 DEF ListSpool, TakeFile, RemoveFile
    <3>2. UNCHANGED <<lastId, count, cut>>
      BY <2>2 DEF ListSpool, TakeFile, RemoveFile, table
    <3>3. QED
      BY <1>2, <2>1, <3>1, <3>2 DEF Accounts, Same
  <2>3. CASE DrainInsert(d)
    <3>1. dpc[d] = "insert" /\ UNCHANGED <<count, cut>>
      BY <2>3 DEF DrainInsert
    <3>2. CASE InsertRow("hook", dcur[d][1], "hook") /\ dpc' = [dpc EXCEPT ![d] = "bump"]
      BY <1>1, <1>2, <2>1, <3>1, <3>2 DEF InsertRow, Accounts
    <3>3. CASE UNCHANGED table /\ dpc'[d] # "bump"
      BY <1>2, <2>1, <3>1, <3>3 DEF table, Accounts, Same
    <3>4. QED
      BY <1>1, <2>3, <3>2, <3>3 DEF DrainInsert
  <2>4. CASE DrainBump(d)
    <3>1. dpc[d] = "bump" /\ dpc'[d] # "bump" /\ lastId' = lastId
      BY <1>1, <2>4 DEF DrainBump, table
    <3>2. count'["hook"] + cut'["hook"] = count["hook"] + cut["hook"] + 1
      BY <1>1, <2>4 DEF DrainBump, CountRow, Cut
    <3>3. QED
      BY <1>2, <2>1, <3>1, <3>2 DEF Accounts
  <2>5. QED
    BY <1>3, <2>2, <2>3, <2>4 DEF DrainStep
<1>4. CASE DaemonDies
  <2>1. Pending(Drains, dpc') = {}
    BY <1>4 DEF DaemonDies, Pending
  <2>2. Cardinality(Pending(Drains, dpc')) = 0
    BY <2>1, FS_EmptySet
  <2>3. Cardinality(Pending(Drains, dpc)) \in Nat
    <3>1. Pending(Drains, dpc) \in SUBSET Drains
      BY DEF Pending
    <3>2. QED
      BY <1>0, <3>1, FS_Subset, FS_CardinalityType
  <2>4. cut'["hook"] = cut["hook"] + Cardinality(Pending(Drains, dpc)) /\ UNCHANGED <<lastId, count>>
    BY <1>1, <1>4 DEF DaemonDies, Cut, Pending, table
  <2>5. QED
    BY <1>1, <2>2, <2>3, <2>4 DEF HookBalanced, Balanced
<1>5. ASSUME dpc' = dpc, Same("hook") PROVE HookBalanced'
  BY <1>5 DEF HookBalanced, Balanced, Same
<1>6. ASSUME NEW w \in Writers, Open(w) \/ ReadMax(w) \/ Insert(w) \/ Bump(w) \/ WriterDies(w)
      PROVE  HookBalanced'
  <2>1. dpc' = dpc
    BY <1>6 DEF Open, ReadMax, Insert, Bump, WriterDies, drains
  <2>2. Same("hook")
    BY <1>1, <1>6 DEF Open, ReadMax, Insert, Bump, WriterDies, table, InsertRow, CountRow, Cut, Same
  <2>3. QED
    BY <1>5, <2>1, <2>2
<1>7. CASE Gc \/ (\E f \in File : Hook(f)) \/ UNCHANGED vars
  <2>1. dpc' = dpc /\ Same("hook")
    BY <1>7 DEF Gc, Hook, drains, table, Same, vars
  <2>2. QED
    BY <1>5, <2>1
<1>8. QED
  BY <1>3, <1>4, <1>6, <1>7 DEF Next

-----------------------------------------------------------------------------
(* The theorems. *)

LEMMA AlwaysIInv == Spec => []IInv
<1>1. IInv /\ [Next]_vars => IInv'
  <2> SUFFICES ASSUME IInv, [Next]_vars PROVE IInv'
    OBVIOUS
  <2>1. Held'
    BY NextWriters, NextSpool DEF Held, Logged, Known
  <2>2. QED
    BY <2>1, NextTypeOK, NextNumbers, NextWriters, NextSpool DEF IInv
<1>2. QED
  BY <1>1, InitIInv, PTL DEF Spec

\* Every reachable state of the event log is well typed, its numbers starting at 1.
THEOREM EventLogTypeOK == Spec => []TypeOK
BY AlwaysIInv, PTL DEF IInv

\* No spooled event is lost, with any number of overlapping drains, faults and deaths
\* (drain_spool removes a file only after ingest_event returned Ok).
THEOREM SpoolNotLostAlways == Spec => []SpoolNotLost
BY AlwaysIInv, PTL DEF IInv

\* sessions.event_count counts each row once, for any number of calls, overlapping drains, failed
\* statements and deaths: a row missing from it is one whose update failed, was cut off by a death,
\* or is still to come (ingest_event skips the update when the row is there, so redelivery adds none).
THEOREM CountsEachRowOnceAlways == Spec => []CountsEachRowOnce
<1>1. Init => FleetBalanced /\ HookBalanced
  <2> SUFFICES ASSUME Init PROVE FleetBalanced /\ HookBalanced
    OBVIOUS
  <2>1. Pending(Writers, wpc) = {} /\ Pending(Drains, dpc) = {}
    BY DEF Init, Pending
  <2>2. Cardinality(Pending(Writers, wpc)) = 0 /\ Cardinality(Pending(Drains, dpc)) = 0
    BY <2>1, FS_EmptySet
  <2>3. \A l \in Log : count[l] = 0 /\ cut[l] = 0 /\ lastId[l] = 0
    BY DEF Init
  <2>4. QED
    BY <2>2, <2>3 DEF FleetBalanced, HookBalanced, Balanced
<1>2. IInv /\ (FleetBalanced /\ HookBalanced) /\ [Next]_vars => (FleetBalanced /\ HookBalanced)'
  BY FleetBalance, HookBalance
<1>3. FleetBalanced /\ HookBalanced => CountsEachRowOnce
  BY DEF FleetBalanced, HookBalanced, Balanced, Pending, CountsEachRowOnce
<1>4. QED
  BY <1>1, <1>2, <1>3, AlwaysIInv, PTL DEF Spec

\* With any number of calls that read the same maximum, an event whose number was read goes in
\* above every event of its log: the order of the numbers is the order of the inserts.
THEOREM AppendsAtEndAlways == Spec => AppendsAtEnd
<1> DEFINE Step == \A r \in rows' \ rows :
           (r.log = "fleet" /\ wgood[r.by]) => \A q \in rows : q.log = "fleet" => q.seq < r.seq
<1>1. IInv /\ [Next]_vars => [Step]_vars
  <2> SUFFICES ASSUME IInv, Next PROVE Step
    BY DEF vars
  <2>1. ASSUME NEW w \in Writers, Insert(w) PROVE Step
    <3>1. CASE UNCHANGED table
      BY <3>1 DEF table
    <3>2. CASE ~Taken("fleet", wseq[w]) /\ InsertRow("fleet", wseq[w], w)
      <4>1. wpc[w] = "insert" /\ wseq[w] \in Nat \ {0}
        BY <2>1 DEF Insert, IInv, Bounded, TypeOK
      <4>2. \A q \in rows' \ rows : q.by = w /\ q.seq = wseq[w]
        BY <3>2, <4>1, InsertRowAdds DEF IInv
      <4>3. wgood[w] => \A q \in FleetRows : q.seq < wseq[w]
        BY <3>2, <4>1 DEF IInv, Fresh
      <4>4. QED
        BY <4>2, <4>3 DEF FleetRows
    <3>3. QED
      BY <2>1, <3>1, <3>2 DEF Insert
  <2>2. ASSUME NEW d \in Drains, DrainInsert(d) PROVE Step
    <3>1. CASE UNCHANGED table
      BY <3>1 DEF table
    <3>2. CASE InsertRow("hook", dcur[d][1], "hook")
      <4>1. dcur[d][1] \in Nat \ {0}
        BY <2>2, CurNumber DEF DrainInsert, IInv
      <4>2. \A q \in rows' \ rows : q.log = "hook"
        BY <3>2, <4>1, InsertRowAdds DEF IInv
      <4>3. QED
        BY <4>2
    <3>3. QED
      BY <2>2, <3>1, <3>2 DEF DrainInsert
  <2>3. CASE rows' \subseteq rows
    BY <2>3
  <2>4. QED
    BY <2>1, <2>2, <2>3 DEF Next, DrainStep, Open, ReadMax, Bump, WriterDies, Hook, ListSpool, TakeFile,
       DrainBump, RemoveFile, DaemonDies, Gc, table
<1>2. QED
  BY <1>1, AlwaysIInv, PTL DEF Spec, AppendsAtEnd

=============================================================================
