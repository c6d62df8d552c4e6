----------------------------- MODULE AbeProofs -----------------------------
(***************************************************************************)
(* What module AbeDispatch promises for any number of dispatches of a      *)
(* task, the watchers of the earlier ones still at work: TLC checks one    *)
(* dispatch, these theorems the races between several.                     *)
(***************************************************************************)
EXTENDS AbeDispatch, TLAPS

\* A task that is not decided has no trace, and a cancelled one gets none.
Traces ==
    /\ traces \in Nat /\ traces <= 1
    /\ status \in {"none", "working", "cancelled"} => traces = 0

\* Only the plain monitor has a deadline of its own.
Deadlines == \A d \in Dispatch : main[d] = "timeout" => kind = "plain"

\* Dispatches that have not happened have no watcher.
Ahead ==
    /\ \A d \in Dispatch : d > n => main[d] = "off" /\ timeout[d] = "off" /\ proc[d] = "none"
    /\ n = 0 => status = "none"

\* A timeout is marked for a worker that was killed for it.
Killed ==
    \A d \in Dispatch :
       /\ timeout[d] # "off" => proc[d] # "none"
       /\ timeout[d] \in {"mark", "cleanup"} => proc[d] = "timedout"

\* While the only dispatch is being validated its worker has exited, so HEAD at its path is the commit
\* the monitor resolved, unless somebody removed the worktree or a new dispatch began to replace it.
Found ==
    n = 1 /\ main[1] = "validate" =>
       proc[1] = "exit0" /\ (tree = 0 \/ headCommit \in {"start", found[1]})

IInv ==
    /\ TypeOK /\ Traces /\ Deadlines /\ Ahead /\ Killed /\ Found
    /\ TimeoutIsReal /\ ExitCompletesValidated

USE AbeAssumption DEF Dispatch, Terminal

-----------------------------------------------------------------------------
(* A watcher of another dispatch stays where it is or ends. *)
LEMMA PollingKeeps ==
  ASSUME NEW T, NEW w \in [Dispatch -> T], NEW v, Polling(w, v), n + 1 \in Dispatch, {"poll", "end"} \subseteq T
  PROVE  /\ v \in [Dispatch -> T]
         /\ v[n + 1] = "poll"
         /\ \A e \in Dispatch \ {n + 1} : v[e] = w[e] \/ (w[e] = "poll" /\ v[e] = "end")
<1>1. PICK S \in SUBSET {e \in Dispatch : w[e] = "poll" /\ status # "working"} :
         v = [e \in Dispatch |-> IF e = n + 1 THEN "poll" ELSE IF e \in S THEN "end" ELSE w[e]]
  BY DEF Polling
<1>2. v \in [Dispatch -> T]
  BY <1>1
<1>3. v[n + 1] = "poll"
  BY <1>1
<1>4. \A e \in Dispatch \ {n + 1} : v[e] = w[e] \/ (w[e] = "poll" /\ v[e] = "end")
  BY <1>1
<1>5. QED
  BY <1>2, <1>3, <1>4

(* Spawning starts one exit monitor; those of earlier dispatches stay where they are or end. *)
LEMMA SpawnMain ==
  ASSUME TypeOK, Spawn
  PROVE  /\ n + 1 \in Dispatch /\ main'[n + 1] = "poll"
         /\ \A e \in Dispatch \ {n + 1} : main'[e] = main[e] \/ (main[e] = "poll" /\ main'[e] = "end")
<1> DEFINE T == {"off", "poll", "exit", "validate", "timeout", "panicked", "cleanup", "end"}
<1>1. n + 1 \in Dispatch
  BY DEF Spawn, TypeOK
<1>2. Polling(main, main') /\ main \in [Dispatch -> T] /\ {"poll", "end"} \subseteq T
  BY DEF Spawn, TypeOK
<1> HIDE DEF T
<1>3. QED
  BY <1>1, <1>2, PollingKeeps

(* The invariant holds at the start, part by part. *)
LEMMA InitIInv == Init => IInv
<1> SUFFICES ASSUME Init PROVE IInv
  OBVIOUS
<1>1. TypeOK
  <2>1. 0 \in 0..MaxDispatch /\ 0 \in Nat
    OBVIOUS
  <2>2. QED
    BY <2>1 DEF Init, TypeOK
<1>2. Traces
  BY DEF Init, Traces
<1>3. Deadlines
  BY DEF Init, Deadlines
<1>4. Ahead
  BY DEF Init, Ahead
<1>5. Killed
  BY DEF Init, Killed
<1>6. TimeoutIsReal
  BY DEF Init, TimeoutIsReal
<1>7. ExitCompletesValidated
  BY DEF Init, ExitCompletesValidated
<1>8. Found
  BY DEF Init, Found
<1>9. QED
  BY <1>1, <1>2, <1>3, <1>4, <1>5, <1>6, <1>7, <1>8 DEF IInv

(* Every step keeps the types: a commit is one a worker made, the start or none to be read. *)
LEMMA NextTypeOK ==
  ASSUME TypeOK, [Next]_vars
  PROVE  TypeOK'
<1> USE DEF TypeOK
<1>1. CASE DispatchPlain
  BY <1>1 DEF DispatchPlain, task, record, watchers, files
<1>2. CASE Setup
  BY <1>2 DEF Setup, task, record, watchers, files
<1>3. CASE SetupFails
  BY <1>3 DEF SetupFails, task, record, watchers, files
<1>4. CASE Spawn
  <2>1. n + 1 \in Dispatch /\ n + 1 \in 0..MaxDispatch /\ n + 1 # 0
    BY <1>4 DEF Spawn
  <2>2. QED
    BY <1>4, <2>1, PollingKeeps DEF Spawn, task, record, watchers, files
<1>5. CASE SpawnFails
  <2>1. n + 1 \in 0..MaxDispatch
    BY <1>5 DEF SpawnFails
  <2>2. n' = n + 1 /\ setting' = FALSE /\ UNCHANGED <<task, record, proc, watchers, escalate, files>>
    BY <1>5 DEF SpawnFails
  <2>3. /\ n' \in 0..MaxDispatch /\ setting' \in BOOLEAN
        /\ setting' => kind' = "worktree" /\ n' < MaxDispatch
    BY <2>1, <2>2
  <2>4. UNCHANGED <<kind, keep, status, rec, commit, via, traces, proc, main, timeout, sentinel, head, stuck,
                    found, escalate, tree, headCommit, complete>>
    BY <2>2 DEF task, record, watchers, files
  <2>5. QED
    BY <2>3, <2>4
<1>6. CASE Cancel
  BY <1>6 DEF Cancel, task, record, watchers, files
<1>7. CASE TaskComplete
  BY <1>7 DEF TaskComplete, Mark, task, record, watchers, files
<1>8. ASSUME NEW d \in Dispatch, WritesSentinel(d) PROVE TypeOK'
  BY <1>8 DEF WritesSentinel, task, record, watchers, files
<1>9. ASSUME NEW d \in Dispatch, NEW c \in Commit, Commits(d, c) PROVE TypeOK'
  BY <1>9 DEF Commits, task, record, watchers, files
<1>10. ASSUME NEW d \in Dispatch, NEW how \in {"exit0", "exit1"}, Exits(d, how) PROVE TypeOK'
  BY <1>10 DEF Exits, task, record, watchers, files
<1>11. ASSUME NEW d \in Dispatch, MainSeesExit(d) PROVE TypeOK'
  BY <1>11 DEF MainSeesExit, Exited, task, record, watchers, files
<1>12. ASSUME NEW d \in Dispatch, MainDeadline(d) PROVE TypeOK'
  BY <1>12 DEF MainDeadline, Terminated, task, record, watchers, files
<1>13. ASSUME NEW d \in Dispatch, MainMarksTimeout(d) PROVE TypeOK'
  BY <1>13 DEF MainMarksTimeout, Mark, MarkFailed, task, record, watchers, files
<1>14. ASSUME NEW d \in Dispatch, MainExit(d) PROVE TypeOK'
  BY <1>14 DEF MainExit, Mark, MarkFailed, Resolved, task, record, watchers, files
<1>15. ASSUME NEW d \in Dispatch, MainValidates(d) PROVE TypeOK'
  BY <1>15 DEF MainValidates, Mark, MarkFailed, Validated, task, record, watchers, files
<1>16. ASSUME NEW d \in Dispatch, MainCleansUp(d) PROVE TypeOK'
  BY <1>16 DEF MainCleansUp, RemoveTree, files, task, record, watchers, files
<1>17. ASSUME NEW d \in Dispatch, Supervise(d) PROVE TypeOK'
  BY <1>17 DEF Supervise, Mark, task, record, watchers, files
<1>18. ASSUME NEW d \in Dispatch, TimeoutFires(d) PROVE TypeOK'
  BY <1>18 DEF TimeoutFires, Exited, task, record, watchers, files
<1>19. ASSUME NEW d \in Dispatch, TimeoutGrace(d) PROVE TypeOK'
  BY <1>19 DEF TimeoutGrace, Exited, task, record, watchers, files
<1>20. ASSUME NEW d \in Dispatch, TimeoutMarks(d) PROVE TypeOK'
  BY <1>20 DEF TimeoutMarks, Mark, MarkFailed, task, record, watchers, files
<1>21. ASSUME NEW d \in Dispatch, TimeoutCleansUp(d) PROVE TypeOK'
  BY <1>21 DEF TimeoutCleansUp, RemoveTree, files, task, record, watchers, files
<1>22. ASSUME NEW d \in Dispatch, SentinelLooks(d) PROVE TypeOK'
  BY <1>22 DEF SentinelLooks, task, record, watchers, files
<1>23. ASSUME NEW d \in Dispatch, SentinelMarks(d) PROVE TypeOK'
  BY <1>23 DEF SentinelMarks, Mark, Resolved, task, record, watchers, files
<1>24. ASSUME NEW d \in Dispatch, SentinelKills(d) PROVE TypeOK'
  BY <1>24 DEF SentinelKills, Terminated, task, record, watchers, files
<1>25. ASSUME NEW d \in Dispatch, HeadLooks(d) PROVE TypeOK'
  BY <1>25 DEF HeadLooks, task, record, watchers, files
<1>26. ASSUME NEW d \in Dispatch, HeadMarks(d) PROVE TypeOK'
  BY <1>26 DEF HeadMarks, Mark, Resolved, task, record, watchers, files
<1>27. ASSUME NEW d \in Dispatch, HeadKills(d) PROVE TypeOK'
  BY <1>27 DEF HeadKills, Terminated, task, record, watchers, files
<1>28. ASSUME NEW d \in Dispatch, StuckLooks(d) PROVE TypeOK'
  BY <1>28 DEF StuckLooks, task, record, watchers, files
<1>29. ASSUME NEW d \in Dispatch, StuckMarks(d) PROVE TypeOK'
  BY <1>29 DEF StuckMarks, Mark, MarkFailed, task, record, watchers, files
<1>30. ASSUME NEW d \in Dispatch, StuckKills(d) PROVE TypeOK'
  BY <1>30 DEF StuckKills, Terminated, task, record, watchers, files
<1>31. ASSUME NEW d \in Dispatch, StuckCleansUp(d) PROVE TypeOK'
  BY <1>31 DEF StuckCleansUp, RemoveTree, files, task, record, watchers, files
<1>32. ASSUME NEW d \in Dispatch, Escalate(d) PROVE TypeOK'
  BY <1>32 DEF Escalate, task, record, watchers, files
<1>33. ASSUME NEW d \in Dispatch, ChildDropped(d) PROVE TypeOK'
  BY <1>33 DEF ChildDropped, Orphaned, Quits, task, record, watchers, files
<1>34. ASSUME NEW d \in Dispatch, MainWaitError(d) PROVE TypeOK'
  BY <1>34 DEF MainWaitError, Mark, MarkFailed, task, record, watchers, files
<1>35. ASSUME NEW d \in Dispatch, MainPanics(d) PROVE TypeOK'
  BY <1>35 DEF MainPanics, Alive, task, record, watchers, files
<1>36. ASSUME NEW d \in Dispatch, WatcherPanics(d) PROVE TypeOK'
  <2>1. UNCHANGED <<kind, keep, n, setting, status, rec, commit, via, traces, proc, main, found, escalate,
                    tree, headCommit, complete>>
    BY <1>36 DEF WatcherPanics, task, record, files
  <2>2. timeout' \in [Dispatch -> {"off", "sleep", "grace", "mark", "cleanup", "panicked", "end"}]
    BY <1>36 DEF WatcherPanics
  <2>3. sentinel' \in [Dispatch -> {"off", "poll", "mark", "kill", "panicked", "end"}]
    BY <1>36 DEF WatcherPanics
  <2>4. head' \in [Dispatch -> {"off", "poll", "mark", "kill", "panicked", "end"}]
    BY <1>36 DEF WatcherPanics
  <2>5. stuck' \in [Dispatch -> {"off", "poll", "mark", "kill", "cleanup", "panicked", "end"}]
    BY <1>36 DEF WatcherPanics
  <2>6. QED
    BY <2>1, <2>2, <2>3, <2>4, <2>5
<1>37. CASE UNCHANGED vars
  BY <1>37 DEF vars, task, record, watchers, files
<1>38. QED
  BY <1>1, <1>2, <1>3, <1>4, <1>5, <1>6, <1>7, <1>8, <1>9, <1>10, <1>11, <1>12, <1>13, <1>14, <1>15, <1>16, <1>17, <1>18, <1>19, <1>20, <1>21, <1>22, <1>23, <1>24, <1>25, <1>26, <1>27, <1>28, <1>29, <1>30, <1>31, <1>32, <1>33, <1>34, <1>35, <1>36, <1>37 DEF Next, Dispatching, Worker, Monitor, Timeout, Sentinel, Head, Stuck

(* The first mark_* emits the only trace; a new record starts without one. *)
LEMMA NextTraces ==
  ASSUME TypeOK, Traces, Ahead, [Next]_vars
  PROVE  Traces'
<1> USE DEF Traces, Ahead, TypeOK
<1>1. CASE DispatchPlain
  BY <1>1 DEF DispatchPlain, task, record, watchers, files
<1>2. CASE Setup
  BY <1>2 DEF Setup, task, record, watchers, files
<1>3. CASE SetupFails
  BY <1>3 DEF SetupFails, task, record, watchers, files
<1>4. CASE Spawn
  <2>1. n + 1 \in Dispatch /\ n + 1 \in 0..MaxDispatch /\ n + 1 # 0
    BY <1>4 DEF Spawn
  <2>2. QED
    BY <1>4, <2>1, PollingKeeps DEF Spawn, task, record, watchers, files
<1>5. CASE SpawnFails
  BY <1>5 DEF SpawnFails, task, record, watchers, files
<1>6. CASE Cancel
  BY <1>6 DEF Cancel, task, record, watchers, files
<1>7. CASE TaskComplete
  BY <1>7 DEF TaskComplete, Mark, task, record, watchers, files
<1>8. ASSUME NEW d \in Dispatch, WritesSentinel(d) PROVE Traces'
  BY <1>8 DEF WritesSentinel, task, record, watchers, files
<1>9. ASSUME NEW d \in Dispatch, NEW c \in Commit, Commits(d, c) PROVE Traces'
  BY <1>9 DEF Commits, task, record, watchers, files
<1>10. ASSUME NEW d \in Dispatch, NEW how \in {"exit0", "exit1"}, Exits(d, how) PROVE Traces'
  BY <1>10 DEF Exits, task, record, watchers, files
<1>11. ASSUME NEW d \in Dispatch, MainSeesExit(d) PROVE Traces'
  BY <1>11 DEF MainSeesExit, Exited, task, record, watchers, files
<1>12. ASSUME NEW d \in Dispatch, MainDeadline(d) PROVE Traces'
  BY <1>12 DEF MainDeadline, Terminated, task, record, watchers, files
<1>13. ASSUME NEW d \in Dispatch, MainMarksTimeout(d) PROVE Traces'
  BY <1>13 DEF MainMarksTimeout, Mark, MarkFailed, task, record, watchers, files
<1>14. ASSUME NEW d \in Dispatch, MainExit(d) PROVE Traces'
  BY <1>14 DEF MainExit, Mark, MarkFailed, Resolved, task, record, watchers, files
<1>15. ASSUME NEW d \in Dispatch, MainValidates(d) PROVE Traces'
  BY <1>15 DEF MainValidates, Mark, MarkFailed, Validated, task, record, watchers, files
<1>16. ASSUME NEW d \in Dispatch, MainCleansUp(d) PROVE Traces'
  BY <1>16 DEF MainCleansUp, RemoveTree, files, task, record, watchers, files
<1>17. ASSUME NEW d \in Dispatch, Supervise(d) PROVE Traces'
  BY <1>17 DEF Supervise, Mark, task, record, watchers, files
<1>18. ASSUME NEW d \in Dispatch, TimeoutFires(d) PROVE Traces'
  BY <1>18 DEF TimeoutFires, Exited, task, record, watchers, files
<1>19. ASSUME NEW d \in Dispatch, TimeoutGrace(d) PROVE Traces'
  BY <1>19 DEF TimeoutGrace, Exited, task, record, watchers, files
<1>20. ASSUME NEW d \in Dispatch, TimeoutMarks(d) PROVE Traces'
  BY <1>20 DEF TimeoutMarks, Mark, MarkFailed, task, record, watchers, files
<1>21. ASSUME NEW d \in Dispatch, TimeoutCleansUp(d) PROVE Traces'
  BY <1>21 DEF TimeoutCleansUp, RemoveTree, files, task, record, watchers, files
<1>22. ASSUME NEW d \in Dispatch, SentinelLooks(d) PROVE Traces'
  BY <1>22 DEF SentinelLooks, task, record, watchers, files
<1>23. ASSUME NEW d \in Dispatch, SentinelMarks(d) PROVE Traces'
  BY <1>23 DEF SentinelMarks, Mark, Resolved, task, record, watchers, files
<1>24. ASSUME NEW d \in Dispatch, SentinelKills(d) PROVE Traces'
  BY <1>24 DEF SentinelKills, Terminated, task, record, watchers, files
<1>25. ASSUME NEW d \in Dispatch, HeadLooks(d) PROVE Traces'
  BY <1>25 DEF HeadLooks, task, record, watchers, files
<1>26. ASSUME NEW d \in Dispatch, HeadMarks(d) PROVE Traces'
  BY <1>26 DEF HeadMarks, Mark, Resolved, task, record, watchers, files
<1>27. ASSUME NEW d \in Dispatch, HeadKills(d) PROVE Traces'
  BY <1>27 DEF HeadKills, Terminated, task, record, watchers, files
<1>28. ASSUME NEW d \in Dispatch, StuckLooks(d) PROVE Traces'
  BY <1>28 DEF StuckLooks, task, record, watchers, files
<1>29. ASSUME NEW d \in Dispatch, StuckMarks(d) PROVE Traces'
  BY <1>29 DEF StuckMarks, Mark, MarkFailed, task, record, watchers, files
<1>30. ASSUME NEW d \in Dispatch, StuckKills(d) PROVE Traces'
  BY <1>30 DEF StuckKills, Terminated, task, record, watchers, files
<1>31. ASSUME NEW d \in Dispatch, StuckCleansUp(d) PROVE Traces'
  BY <1>31 DEF StuckCleansUp, RemoveTree, files, task, record, watchers, files
<1>32. ASSUME NEW d \in Dispatch, Escalate(d) PROVE Traces'
  BY <1>32 DEF Escalate, task, record, watchers, files
<1>33. ASSUME NEW d \in Dispatch, ChildDropped(d) PROVE Traces'
  BY <1>33 DEF ChildDropped, Orphaned, Quits, task, record, watchers, files
<1>34. ASSUME NEW d \in Dispatch, MainWaitError(d) PROVE Traces'
  BY <1>34 DEF MainWaitError, Mark, MarkFailed, task, record, watchers, files
<1>35. ASSUME NEW d \in Dispatch, MainPanics(d) PROVE Traces'
  BY <1>35 DEF MainPanics, Alive, task, record, watchers, files
<1>36. ASSUME NEW d \in Dispatch, WatcherPanics(d) PROVE Traces'
  BY <1>36 DEF WatcherPanics, Alive, task, record, watchers, files
<1>37. CASE UNCHANGED vars
  BY <1>37 DEF vars, task, record, watchers, files
<1>38. QED
  BY <1>1, <1>2, <1>3, <1>4, <1>5, <1>6, <1>7, <1>8, <1>9, <1>10, <1>11, <1>12, <1>13, <1>14, <1>15, <1>16, <1>17, <1>18, <1>19, <1>20, <1>21, <1>22, <1>23, <1>24, <1>25, <1>26, <1>27, <1>28, <1>29, <1>30, <1>31, <1>32, <1>33, <1>34, <1>35, <1>36, <1>37 DEF Next, Dispatching, Worker, Monitor, Timeout, Sentinel, Head, Stuck

(* Where the watchers of every dispatch can be. *)
LEMMA NextWatchers ==
  ASSUME TypeOK, Deadlines, Ahead, Killed, [Next]_vars
  PROVE  (Deadlines /\ Ahead /\ Killed)'
<1> USE DEF Deadlines, Ahead, Killed, TypeOK
<1>1. CASE DispatchPlain
  BY <1>1 DEF DispatchPlain, task, record, watchers, files
<1>2. CASE Setup
  BY <1>2 DEF Setup, task, record, watchers, files
<1>3. CASE SetupFails
  BY <1>3 DEF SetupFails, task, record, watchers, files
<1>4. CASE Spawn
  <2>1. n + 1 \in Dispatch /\ n + 1 \in 0..MaxDispatch /\ n + 1 # 0
    BY <1>4 DEF Spawn
  <2>2. /\ n' = n + 1 /\ status' = "working" /\ kind' = kind
        /\ proc' = [proc EXCEPT ![n + 1] = "running"] /\ timeout' = [timeout EXCEPT ![n + 1] = "sleep"]
    BY <1>4 DEF Spawn, task
  <2>s. /\ main'[n + 1] = "poll"
        /\ \A e \in Dispatch \ {n + 1} : main'[e] = main[e] \/ (main[e] = "poll" /\ main'[e] = "end")
    BY <1>4, SpawnMain
  <2>3. Deadlines'
    <3>1. ASSUME NEW e \in Dispatch, main'[e] = "timeout" PROVE kind = "plain"
      <4>1. main[e] = "timeout"
        BY <2>s, <3>1
      <4>2. QED
        BY <4>1 DEF Deadlines
    <3>2. QED
      BY <2>2, <3>1 DEF Deadlines
  <2>4. Ahead'
    <3>1. ASSUME NEW e \in Dispatch, e > n + 1
          PROVE  main'[e] = "off" /\ timeout'[e] = "off" /\ proc'[e] = "none"
      <4>1. e # n + 1 /\ e > n
        BY <2>1, <3>1
      <4>2. main[e] = "off" /\ timeout[e] = "off" /\ proc[e] = "none"
        BY <4>1
      <4>3. QED
        BY <2>s, <2>2, <4>1, <4>2
    <3>2. QED
      BY <2>1, <2>2, <3>1
  <2>5. Killed'
    BY <2>1, <2>2
  <2>6. QED
    BY <2>3, <2>4, <2>5
<1>5. CASE SpawnFails
  BY <1>5 DEF SpawnFails, task, record, watchers, files
<1>6. CASE Cancel
  BY <1>6 DEF Cancel, task, record, watchers, files
<1>7. CASE TaskComplete
  BY <1>7 DEF TaskComplete, Mark, task, record, watchers, files
<1>8. ASSUME NEW d \in Dispatch, WritesSentinel(d) PROVE (Deadlines /\ Ahead /\ Killed)'
  BY <1>8 DEF WritesSentinel, task, record, watchers, files
<1>9. ASSUME NEW d \in Dispatch, NEW c \in Commit, Commits(d, c) PROVE (Deadlines /\ Ahead /\ Killed)'
  BY <1>9 DEF Commits, task, record, watchers, files
<1>10. ASSUME NEW d \in Dispatch, NEW how \in {"exit0", "exit1"}, Exits(d, how) PROVE (Deadlines /\ Ahead /\ Killed)'
  BY <1>10 DEF Exits, task, record, watchers, files
<1>11. ASSUME NEW d \in Dispatch, MainSeesExit(d) PROVE (Deadlines /\ Ahead /\ Killed)'
  BY <1>11 DEF MainSeesExit, Exited, task, record, watchers, files
<1>12. ASSUME NEW d \in Dispatch, MainDeadline(d) PROVE (Deadlines /\ Ahead /\ Killed)'
  BY <1>12 DEF MainDeadline, Terminated, task, record, watchers, files
<1>13. ASSUME NEW d \in Dispatch, MainMarksTimeout(d) PROVE (Deadlines /\ Ahead /\ Killed)'
  BY <1>13 DEF MainMarksTimeout, Mark, MarkFailed, task, record, watchers, files
<1>14. ASSUME NEW d \in Dispatch, MainExit(d) PROVE (Deadlines /\ Ahead /\ Killed)'
  BY <1>14 DEF MainExit, Mark, MarkFailed, Resolved, task, record, watchers, files
<1>15. ASSUME NEW d \in Dispatch, MainValidates(d) PROVE (Deadlines /\ Ahead /\ Killed)'
  BY <1>15 DEF MainValidates, Mark, MarkFailed, Validated, task, record, watchers, files
<1>16. ASSUME NEW d \in Dispatch, MainCleansUp(d) PROVE (Deadlines /\ Ahead /\ Killed)'
  BY <1>16 DEF MainCleansUp, RemoveTree, files, task, record, watchers, files
<1>17. ASSUME NEW d \in Dispatch, Supervise(d) PROVE (Deadlines /\ Ahead /\ Killed)'
  BY <1>17 DEF Supervise, Mark, task, record, watchers, files
<1>18. ASSUME NEW d \in Dispatch, TimeoutFires(d) PROVE (Deadlines /\ Ahead /\ Killed)'
  BY <1>18 DEF TimeoutFires, Exited, task, record, watchers, files
<1>19. ASSUME NEW d \in Dispatch, TimeoutGrace(d) PROVE (Deadlines /\ Ahead /\ Killed)'
  BY <1>19 DEF TimeoutGrace, Exited, task, record, watchers, files
<1>20. ASSUME NEW d \in Dispatch, TimeoutMarks(d) PROVE (Deadlines /\ Ahead /\ Killed)'
  BY <1>20 DEF TimeoutMarks, Mark, MarkFailed, task, record, watchers, files
<1>21. ASSUME NEW d \in Dispatch, TimeoutCleansUp(d) PROVE (Deadlines /\ Ahead /\ Killed)'
  BY <1>21 DEF TimeoutCleansUp, RemoveTree, files, task, record, watchers, files
<1>22. ASSUME NEW d \in Dispatch, SentinelLooks(d) PROVE (Deadlines /\ Ahead /\ Killed)'
  BY <1>22 DEF SentinelLooks, task, record, watchers, files
<1>23. ASSUME NEW d \in Dispatch, SentinelMarks(d) PROVE (Deadlines /\ Ahead /\ Killed)'
  BY <1>23 DEF SentinelMarks, Mark, Resolved, task, record, watchers, files
<1>24. ASSUME NEW d \in Dispatch, SentinelKills(d) PROVE (Deadlines /\ Ahead /\ Killed)'
  BY <1>24 DEF SentinelKills, Terminated, task, record, watchers, files
<1>25. ASSUME NEW d \in Dispatch, HeadLooks(d) PROVE (Deadlines /\ Ahead /\ Killed)'
  BY <1>25 DEF HeadLooks, task, record, watchers, files
<1>26. ASSUME NEW d \in Dispatch, HeadMarks(d) PROVE (Deadlines /\ Ahead /\ Killed)'
  BY <1>26 DEF HeadMarks, Mark, Resolved, task, record, watchers, files
<1>27. ASSUME NEW d \in Dispatch, HeadKills(d) PROVE (Deadlines /\ Ahead /\ Killed)'
  BY <1>27 DEF HeadKills, Terminated, task, record, watchers, files
<1>28. ASSUME NEW d \in Dispatch, StuckLooks(d) PROVE (Deadlines /\ Ahead /\ Killed)'
  BY <1>28 DEF StuckLooks, task, record, watchers, files
<1>29. ASSUME NEW d \in Dispatch, StuckMarks(d) PROVE (Deadlines /\ Ahead /\ Killed)'
  BY <1>29 DEF StuckMarks, Mark, MarkFailed, task, record, watchers, files
<1>30. ASSUME NEW d \in Dispatch, StuckKills(d) PROVE (Deadlines /\ Ahead /\ Killed)'
  BY <1>30 DEF StuckKills, Terminated, task, record, watchers, files
<1>31. ASSUME NEW d \in Dispatch, StuckCleansUp(d) PROVE (Deadlines /\ Ahead /\ Killed)'
  BY <1>31 DEF StuckCleansUp, RemoveTree, files, task, record, watchers, files
<1>32. ASSUME NEW d \in Dispatch, Escalate(d) PROVE (Deadlines /\ Ahead /\ Killed)'
  BY <1>32 DEF Escalate, task, record, watchers, files
<1>33. ASSUME NEW d \in Dispatch, ChildDropped(d) PROVE (Deadlines /\ Ahead /\ Killed)'
  BY <1>33 DEF ChildDropped, Orphaned, Quits, task, record, watchers, files
<1>34. ASSUME NEW d \in Dispatch, MainWaitError(d) PROVE (Deadlines /\ Ahead /\ Killed)'
  BY <1>34 DEF MainWaitError, Mark, MarkFailed, task, record, watchers, files
<1>35. ASSUME NEW d \in Dispatch, MainPanics(d) PROVE (Deadlines /\ Ahead /\ Killed)'
  BY <1>35 DEF MainPanics, Alive, task, record, watchers, files
<1>36. ASSUME NEW d \in Dispatch, WatcherPanics(d) PROVE (Deadlines /\ Ahead /\ Killed)'
  BY <1>36 DEF WatcherPanics, Alive, task, record, watchers, files
<1>37. CASE UNCHANGED vars
  BY <1>37 DEF vars, task, record, watchers, files
<1>38. QED
  BY <1>1, <1>2, <1>3, <1>4, <1>5, <1>6, <1>7, <1>8, <1>9, <1>10, <1>11, <1>12, <1>13, <1>14, <1>15, <1>16, <1>17, <1>18, <1>19, <1>20, <1>21, <1>22, <1>23, <1>24, <1>25, <1>26, <1>27, <1>28, <1>29, <1>30, <1>31, <1>32, <1>33, <1>34, <1>35, <1>36, <1>37 DEF Next, Dispatching, Worker, Monitor, Timeout, Sentinel, Head, Stuck

(* A verdict of timeout comes from a watcher that killed the worker. *)
LEMMA NextTimeoutIsReal ==
  ASSUME TypeOK, Deadlines, Ahead, Killed, TimeoutIsReal, [Next]_vars
  PROVE  TimeoutIsReal'
<1> USE DEF TimeoutIsReal, Deadlines, Ahead, Killed, TypeOK
<1>1. CASE DispatchPlain
  BY <1>1 DEF DispatchPlain, task, record, watchers, files
<1>2. CASE Setup
  BY <1>2 DEF Setup, task, record, watchers, files
<1>3. CASE SetupFails
  BY <1>3 DEF SetupFails, task, record, watchers, files
<1>4. CASE Spawn
  <2>1. n + 1 \in Dispatch /\ n + 1 \in 0..MaxDispatch /\ n + 1 # 0
    BY <1>4 DEF Spawn
  <2>2. QED
    BY <1>4, <2>1, PollingKeeps DEF Spawn, task, record, watchers, files
<1>5. CASE SpawnFails
  BY <1>5 DEF SpawnFails, task, record, watchers, files
<1>6. CASE Cancel
  BY <1>6 DEF Cancel, task, record, watchers, files
<1>7. CASE TaskComplete
  BY <1>7 DEF TaskComplete, Mark, task, record, watchers, files
<1>8. ASSUME NEW d \in Dispatch, WritesSentinel(d) PROVE TimeoutIsReal'
  BY <1>8 DEF WritesSentinel, task, record, watchers, files
<1>9. ASSUME NEW d \in Dispatch, NEW c \in Commit, Commits(d, c) PROVE TimeoutIsReal'
  BY <1>9 DEF Commits, task, record, watchers, files
<1>10. ASSUME NEW d \in Dispatch, NEW how \in {"exit0", "exit1"}, Exits(d, how) PROVE TimeoutIsReal'
  BY <1>10 DEF Exits, task, record, watchers, files
<1>11. ASSUME NEW d \in Dispatch, MainSeesExit(d) PROVE TimeoutIsReal'
  BY <1>11 DEF MainSeesExit, Exited, task, record, watchers, files
<1>12. ASSUME NEW d \in Dispatch, MainDeadline(d) PROVE TimeoutIsReal'
  BY <1>12 DEF MainDeadline, Terminated, task, record, watchers, files
<1>13. ASSUME NEW d \in Dispatch, MainMarksTimeout(d) PROVE TimeoutIsReal'
  BY <1>13 DEF MainMarksTimeout, Mark, MarkFailed, task, record, watchers, files
<1>14. ASSUME NEW d \in Dispatch, MainExit(d) PROVE TimeoutIsReal'
  BY <1>14 DEF MainExit, Mark, MarkFailed, Resolved, task, record, watchers, files
<1>15. ASSUME NEW d \in Dispatch, MainValidates(d) PROVE TimeoutIsReal'
  BY <1>15 DEF MainValidates, Mark, MarkFailed, Validated, task, record, watchers, files
<1>16. ASSUME NEW d \in Dispatch, MainCleansUp(d) PROVE TimeoutIsReal'
  BY <1>16 DEF MainCleansUp, RemoveTree, files, task, record, watchers, files
<1>17. ASSUME NEW d \in Dispatch, Supervise(d) PROVE TimeoutIsReal'
  BY <1>17 DEF Supervise, Mark, task, record, watchers, files
<1>18. ASSUME NEW d \in Dispatch, TimeoutFires(d) PROVE TimeoutIsReal'
  BY <1>18 DEF TimeoutFires, Exited, task, record, watchers, files
<1>19. ASSUME NEW d \in Dispatch, TimeoutGrace(d) PROVE TimeoutIsReal'
  BY <1>19 DEF TimeoutGrace, Exited, task, record, watchers, files
<1>20. ASSUME NEW d \in Dispatch, TimeoutMarks(d) PROVE TimeoutIsReal'
  BY <1>20 DEF TimeoutMarks, Mark, MarkFailed, task, record, watchers, files
<1>21. ASSUME NEW d \in Dispatch, TimeoutCleansUp(d) PROVE TimeoutIsReal'
  BY <1>21 DEF TimeoutCleansUp, RemoveTree, files, task, record, watchers, files
<1>22. ASSUME NEW d \in Dispatch, SentinelLooks(d) PROVE TimeoutIsReal'
  BY <1>22 DEF SentinelLooks, task, record, watchers, files
<1>23. ASSUME NEW d \in Dispatch, SentinelMarks(d) PROVE TimeoutIsReal'
  BY <1>23 DEF SentinelMarks, Mark, Resolved, task, record, watchers, files
<1>24. ASSUME NEW d \in Dispatch, SentinelKills(d) PROVE TimeoutIsReal'
  BY <1>24 DEF SentinelKills, Terminated, task, record, watchers, files
<1>25. ASSUME NEW d \in Dispatch, HeadLooks(d) PROVE TimeoutIsReal'
  BY <1>25 DEF HeadLooks, task, record, watchers, files
<1>26. ASSUME NEW d \in Dispatch, HeadMarks(d) PROVE TimeoutIsReal'
  BY <1>26 DEF HeadMarks, Mark, Resolved, task, record, watchers, files
<1>27. ASSUME NEW d \in Dispatch, HeadKills(d) PROVE TimeoutIsReal'
  BY <1>27 DEF HeadKills, Terminated, task, record, watchers, files
<1>28. ASSUME NEW d \in Dispatch, StuckLooks(d) PROVE TimeoutIsReal'
  BY <1>28 DEF StuckLooks, task, record, watchers, files
<1>29. ASSUME NEW d \in Dispatch, StuckMarks(d) PROVE TimeoutIsReal'
  BY <1>29 DEF StuckMarks, Mark, MarkFailed, task, record, watchers, files
<1>30. ASSUME NEW d \in Dispatch, StuckKills(d) PROVE TimeoutIsReal'
  BY <1>30 DEF StuckKills, Terminated, task, record, watchers, files
<1>31. ASSUME NEW d \in Dispatch, StuckCleansUp(d) PROVE TimeoutIsReal'
  BY <1>31 DEF StuckCleansUp, RemoveTree, files, task, record, watchers, files
<1>32. ASSUME NEW d \in Dispatch, Escalate(d) PROVE TimeoutIsReal'
  BY <1>32 DEF Escalate, task, record, watchers, files
<1>33. ASSUME NEW d \in Dispatch, ChildDropped(d) PROVE TimeoutIsReal'
  BY <1>33 DEF ChildDropped, Orphaned, Quits, task, record, watchers, files
<1>34. ASSUME NEW d \in Dispatch, MainWaitError(d) PROVE TimeoutIsReal'
  BY <1>34 DEF MainWaitError, Mark, MarkFailed, task, record, watchers, files
<1>35. ASSUME NEW d \in Dispatch, MainPanics(d) PROVE TimeoutIsReal'
  BY <1>35 DEF MainPanics, Alive, task, record, watchers, files
<1>36. ASSUME NEW d \in Dispatch, WatcherPanics(d) PROVE TimeoutIsReal'
  BY <1>36 DEF WatcherPanics, Alive, task, record, watchers, files
<1>37. CASE UNCHANGED vars
  BY <1>37 DEF vars, task, record, watchers, files
<1>38. QED
  BY <1>1, <1>2, <1>3, <1>4, <1>5, <1>6, <1>7, <1>8, <1>9, <1>10, <1>11, <1>12, <1>13, <1>14, <1>15, <1>16, <1>17, <1>18, <1>19, <1>20, <1>21, <1>22, <1>23, <1>24, <1>25, <1>26, <1>27, <1>28, <1>29, <1>30, <1>31, <1>32, <1>33, <1>34, <1>35, <1>36, <1>37 DEF Next, Dispatching, Worker, Monitor, Timeout, Sentinel, Head, Stuck

(* Nobody commits at the path of a worker that has exited. *)
LEMMA NextFound ==
  ASSUME TypeOK, Ahead, Found, [Next]_vars
  PROVE  Found'
<1> USE DEF Ahead, Found, TypeOK
<1>1. CASE DispatchPlain
  BY <1>1 DEF DispatchPlain, task, record, watchers, files
<1>2. CASE Setup
  BY <1>2 DEF Setup, task, record, watchers, files
<1>3. CASE SetupFails
  BY <1>3 DEF SetupFails, task, record, watchers, files
<1>4. CASE Spawn
  <2>1. n + 1 \in Dispatch /\ n + 1 \in 0..MaxDispatch /\ n + 1 # 0
    BY <1>4 DEF Spawn
  <2>2. QED
    BY <1>4, <2>1, SpawnMain DEF Spawn, task, record, watchers, files
<1>5. CASE SpawnFails
  BY <1>5 DEF SpawnFails, task, record, watchers, files
<1>6. CASE Cancel
  BY <1>6 DEF Cancel, task, record, watchers, files
<1>7. CASE TaskComplete
  BY <1>7 DEF TaskComplete, Mark, task, record, watchers, files
<1>8. ASSUME NEW d \in Dispatch, WritesSentinel(d) PROVE Found'
  BY <1>8 DEF WritesSentinel, task, record, watchers, files
<1>9. ASSUME NEW d \in Dispatch, NEW c \in Commit, Commits(d, c) PROVE Found'
  BY <1>9 DEF Commits, task, record, watchers, files
<1>10. ASSUME NEW d \in Dispatch, NEW how \in {"exit0", "exit1"}, Exits(d, how) PROVE Found'
  BY <1>10 DEF Exits, task, record, watchers, files
<1>11. ASSUME NEW d \in Dispatch, MainSeesExit(d) PROVE Found'
  BY <1>11 DEF MainSeesExit, Exited, task, record, watchers, files
<1>12. ASSUME NEW d \in Dispatch, MainDeadline(d) PROVE Found'
  BY <1>12 DEF MainDeadline, Terminated, task, record, watchers, files
<1>13. ASSUME NEW d \in Dispatch, MainMarksTimeout(d) PROVE Found'
  BY <1>13 DEF MainMarksTimeout, Mark, MarkFailed, task, record, watchers, files
<1>14. ASSUME NEW d \in Dispatch, MainExit(d) PROVE Found'
  BY <1>14 DEF MainExit, Mark, MarkFailed, Resolved, task, record, watchers, files
<1>15. ASSUME NEW d \in Dispatch, MainValidates(d) PROVE Found'
  BY <1>15 DEF MainValidates, Mark, MarkFailed, Validated, task, record, watchers, files
<1>16. ASSUME NEW d \in Dispatch, MainCleansUp(d) PROVE Found'
  BY <1>16 DEF MainCleansUp, RemoveTree, files, task, record, watchers, files
<1>17. ASSUME NEW d \in Dispatch, Supervise(d) PROVE Found'
  BY <1>17 DEF Supervise, Mark, task, record, watchers, files
<1>18. ASSUME NEW d \in Dispatch, TimeoutFires(d) PROVE Found'
  BY <1>18 DEF TimeoutFires, Exited, task, record, watchers, files
<1>19. ASSUME NEW d \in Dispatch, TimeoutGrace(d) PROVE Found'
  BY <1>19 DEF TimeoutGrace, Exited, task, record, watchers, files
<1>20. ASSUME NEW d \in Dispatch, TimeoutMarks(d) PROVE Found'
  BY <1>20 DEF TimeoutMarks, Mark, MarkFailed, task, record, watchers, files
<1>21. ASSUME NEW d \in Dispatch, TimeoutCleansUp(d) PROVE Found'
  BY <1>21 DEF TimeoutCleansUp, RemoveTree, files, task, record, watchers, files
<1>22. ASSUME NEW d \in Dispatch, SentinelLooks(d) PROVE Found'
  BY <1>22 DEF SentinelLooks, task, record, watchers, files
<1>23. ASSUME NEW d \in Dispatch, SentinelMarks(d) PROVE Found'
  BY <1>23 DEF SentinelMarks, Mark, Resolved, task, record, watchers, files
<1>24. ASSUME NEW d \in Dispatch, SentinelKills(d) PROVE Found'
  BY <1>24 DEF SentinelKills, Terminated, task, record, watchers, files
<1>25. ASSUME NEW d \in Dispatch, HeadLooks(d) PROVE Found'
  BY <1>25 DEF HeadLooks, task, record, watchers, files
<1>26. ASSUME NEW d \in Dispatch, HeadMarks(d) PROVE Found'
  BY <1>26 DEF HeadMarks, Mark, Resolved, task, record, watchers, files
<1>27. ASSUME NEW d \in Dispatch, HeadKills(d) PROVE Found'
  BY <1>27 DEF HeadKills, Terminated, task, record, watchers, files
<1>28. ASSUME NEW d \in Dispatch, StuckLooks(d) PROVE Found'
  BY <1>28 DEF StuckLooks, task, record, watchers, files
<1>29. ASSUME NEW d \in Dispatch, StuckMarks(d) PROVE Found'
  BY <1>29 DEF StuckMarks, Mark, MarkFailed, task, record, watchers, files
<1>30. ASSUME NEW d \in Dispatch, StuckKills(d) PROVE Found'
  BY <1>30 DEF StuckKills, Terminated, task, record, watchers, files
<1>31. ASSUME NEW d \in Dispatch, StuckCleansUp(d) PROVE Found'
  BY <1>31 DEF StuckCleansUp, RemoveTree, files, task, record, watchers, files
<1>32. ASSUME NEW d \in Dispatch, Escalate(d) PROVE Found'
  BY <1>32 DEF Escalate, task, record, watchers, files
<1>33. ASSUME NEW d \in Dispatch, ChildDropped(d) PROVE Found'
  BY <1>33 DEF ChildDropped, Orphaned, Quits, task, record, watchers, files
<1>34. ASSUME NEW d \in Dispatch, MainWaitError(d) PROVE Found'
  BY <1>34 DEF MainWaitError, Mark, MarkFailed, task, record, watchers, files
<1>35. ASSUME NEW d \in Dispatch, MainPanics(d) PROVE Found'
  BY <1>35 DEF MainPanics, Alive, task, record, watchers, files
<1>36. ASSUME NEW d \in Dispatch, WatcherPanics(d) PROVE Found'
  BY <1>36 DEF WatcherPanics, Alive, task, record, watchers, files
<1>37. CASE UNCHANGED vars
  BY <1>37 DEF vars, task, record, watchers, files
<1>38. QED
  BY <1>1, <1>2, <1>3, <1>4, <1>5, <1>6, <1>7, <1>8, <1>9, <1>10, <1>11, <1>12, <1>13, <1>14, <1>15, <1>16, <1>17, <1>18, <1>19, <1>20, <1>21, <1>22, <1>23, <1>24, <1>25, <1>26, <1>27, <1>28, <1>29, <1>30, <1>31, <1>32, <1>33, <1>34, <1>35, <1>36, <1>37 DEF Next, Dispatching, Worker, Monitor, Timeout, Sentinel, Head, Stuck

(* The commit the exit monitor resolved is the one it validated, unless there is another dispatch. *)
LEMMA NextExitValidated ==
  ASSUME TypeOK, Ahead, Found, ExitCompletesValidated, [Next]_vars
  PROVE  ExitCompletesValidated'
<1> USE DEF ExitCompletesValidated, Ahead, Found, TypeOK
<1>1. CASE DispatchPlain
  BY <1>1 DEF DispatchPlain, task, record, watchers, files
<1>2. CASE Setup
  BY <1>2 DEF Setup, task, record, watchers, files
<1>3. CASE SetupFails
  BY <1>3 DEF SetupFails, task, record, watchers, files
<1>4. CASE Spawn
  <2>1. n + 1 \in Dispatch /\ n + 1 \in 0..MaxDispatch /\ n + 1 # 0
    BY <1>4 DEF Spawn
  <2>2. QED
    BY <1>4, <2>1, PollingKeeps DEF Spawn, task, record, watchers, files
<1>5. CASE SpawnFails
  BY <1>5 DEF SpawnFails, task, record, watchers, files
<1>6. CASE Cancel
  BY <1>6 DEF Cancel, task, record, watchers, files
<1>7. CASE TaskComplete
  BY <1>7 DEF TaskComplete, Mark, task, record, watchers, files
<1>8. ASSUME NEW d \in Dispatch, WritesSentinel(d) PROVE ExitCompletesValidated'
  BY <1>8 DEF WritesSentinel, task, record, watchers, files
<1>9. ASSUME NEW d \in Dispatch, NEW c \in Commit, Commits(d, c) PROVE ExitCompletesValidated'
  BY <1>9 DEF Commits, task, record, watchers, files
<1>10. ASSUME NEW d \in Dispatch, NEW how \in {"exit0", "exit1"}, Exits(d, how) PROVE ExitCompletesValidated'
  BY <1>10 DEF Exits, task, record, watchers, files
<1>11. ASSUME NEW d \in Dispatch, MainSeesExit(d) PROVE ExitCompletesValidated'
  BY <1>11 DEF MainSeesExit, Exited, task, record, watchers, files
<1>12. ASSUME NEW d \in Dispatch, MainDeadline(d) PROVE ExitCompletesValidated'
  BY <1>12 DEF MainDeadline, Terminated, task, record, watchers, files
<1>13. ASSUME NEW d \in Dispatch, MainMarksTimeout(d) PROVE ExitCompletesValidated'
  BY <1>13 DEF MainMarksTimeout, Mark, MarkFailed, task, record, watchers, files
<1>14. ASSUME NEW d \in Dispatch, MainExit(d) PROVE ExitCompletesValidated'
  BY <1>14 DEF MainExit, Mark, MarkFailed, Resolved, task, record, watchers, files
<1>15. ASSUME NEW d \in Dispatch, MainValidates(d) PROVE ExitCompletesValidated'
  BY <1>15 DEF MainValidates, Mark, MarkFailed, Validated, task, record, watchers, files
<1>16. ASSUME NEW d \in Dispatch, MainCleansUp(d) PROVE ExitCompletesValidated'
  BY <1>16 DEF MainCleansUp, RemoveTree, files, task, record, watchers, files
<1>17. ASSUME NEW d \in Dispatch, Supervise(d) PROVE ExitCompletesValidated'
  BY <1>17 DEF Supervise, Mark, task, record, watchers, files
<1>18. ASSUME NEW d \in Dispatch, TimeoutFires(d) PROVE ExitCompletesValidated'
  BY <1>18 DEF TimeoutFires, Exited, task, record, watchers, files
<1>19. ASSUME NEW d \in Dispatch, TimeoutGrace(d) PROVE ExitCompletesValidated'
  BY <1>19 DEF TimeoutGrace, Exited, task, record, watchers, files
<1>20. ASSUME NEW d \in Dispatch, TimeoutMarks(d) PROVE ExitCompletesValidated'
  BY <1>20 DEF TimeoutMarks, Mark, MarkFailed, task, record, watchers, files
<1>21. ASSUME NEW d \in Dispatch, TimeoutCleansUp(d) PROVE ExitCompletesValidated'
  BY <1>21 DEF TimeoutCleansUp, RemoveTree, files, task, record, watchers, files
<1>22. ASSUME NEW d \in Dispatch, SentinelLooks(d) PROVE ExitCompletesValidated'
  BY <1>22 DEF SentinelLooks, task, record, watchers, files
<1>23. ASSUME NEW d \in Dispatch, SentinelMarks(d) PROVE ExitCompletesValidated'
  BY <1>23 DEF SentinelMarks, Mark, Resolved, task, record, watchers, files
<1>24. ASSUME NEW d \in Dispatch, SentinelKills(d) PROVE ExitCompletesValidated'
  BY <1>24 DEF SentinelKills, Terminated, task, record, watchers, files
<1>25. ASSUME NEW d \in Dispatch, HeadLooks(d) PROVE ExitCompletesValidated'
  BY <1>25 DEF HeadLooks, task, record, watchers, files
<1>26. ASSUME NEW d \in Dispatch, HeadMarks(d) PROVE ExitCompletesValidated'
  BY <1>26 DEF HeadMarks, Mark, Resolved, task, record, watchers, files
<1>27. ASSUME NEW d \in Dispatch, HeadKills(d) PROVE ExitCompletesValidated'
  BY <1>27 DEF HeadKills, Terminated, task, record, watchers, files
<1>28. ASSUME NEW d \in Dispatch, StuckLooks(d) PROVE ExitCompletesValidated'
  BY <1>28 DEF StuckLooks, task, record, watchers, files
<1>29. ASSUME NEW d \in Dispatch, StuckMarks(d) PROVE ExitCompletesValidated'
  BY <1>29 DEF StuckMarks, Mark, MarkFailed, task, record, watchers, files
<1>30. ASSUME NEW d \in Dispatch, StuckKills(d) PROVE ExitCompletesValidated'
  BY <1>30 DEF StuckKills, Terminated, task, record, watchers, files
<1>31. ASSUME NEW d \in Dispatch, StuckCleansUp(d) PROVE ExitCompletesValidated'
  BY <1>31 DEF StuckCleansUp, RemoveTree, files, task, record, watchers, files
<1>32. ASSUME NEW d \in Dispatch, Escalate(d) PROVE ExitCompletesValidated'
  BY <1>32 DEF Escalate, task, record, watchers, files
<1>33. ASSUME NEW d \in Dispatch, ChildDropped(d) PROVE ExitCompletesValidated'
  BY <1>33 DEF ChildDropped, Orphaned, Quits, task, record, watchers, files
<1>34. ASSUME NEW d \in Dispatch, MainWaitError(d) PROVE ExitCompletesValidated'
  BY <1>34 DEF MainWaitError, Mark, MarkFailed, task, record, watchers, files
<1>35. ASSUME NEW d \in Dispatch, MainPanics(d) PROVE ExitCompletesValidated'
  BY <1>35 DEF MainPanics, Alive, task, record, watchers, files
<1>36. ASSUME NEW d \in Dispatch, WatcherPanics(d) PROVE ExitCompletesValidated'
  BY <1>36 DEF WatcherPanics, Alive, task, record, watchers, files
<1>37. CASE UNCHANGED vars
  BY <1>37 DEF vars, task, record, watchers, files
<1>38. QED
  BY <1>1, <1>2, <1>3, <1>4, <1>5, <1>6, <1>7, <1>8, <1>9, <1>10, <1>11, <1>12, <1>13, <1>14, <1>15, <1>16, <1>17, <1>18, <1>19, <1>20, <1>21, <1>22, <1>23, <1>24, <1>25, <1>26, <1>27, <1>28, <1>29, <1>30, <1>31, <1>32, <1>33, <1>34, <1>35, <1>36, <1>37 DEF Next, Dispatching, Worker, Monitor, Timeout, Sentinel, Head, Stuck

(* The inductive invariant. *)
LEMMA AlwaysIInv == Spec => []IInv
<1>1. IInv /\ [Next]_vars => IInv'
  BY NextTypeOK, NextTraces, NextWatchers, NextTimeoutIsReal, NextFound, NextExitValidated DEF IInv
<1>2. QED
  BY InitIInv, <1>1, PTL DEF Spec

\* The record, the worktree and every watcher stay within their types, however often the task is
\* dispatched; a record that is being worked on is of some dispatch.
THEOREM AbeTypeOK == Spec => []TypeOK
<1>1. IInv => TypeOK
  BY DEF IInv
<1>2. QED
  BY AlwaysIInv, <1>1, PTL

\* For every number of dispatches whose watchers race on one record: at most one content trace per
\* record, and none for a cancelled one.
THEOREM AbeOneVerdict == Spec => []OneVerdict
<1>1. IInv => OneVerdict
  BY DEF IInv, Traces, OneVerdict
<1>2. QED
  BY AlwaysIInv, <1>1, PTL

\* enforce_timeout's second look: a task dispatched once is never `timeout` when its worker ended.
THEOREM AbeTimeoutIsReal == Spec => []TimeoutIsReal
<1>1. IInv => TimeoutIsReal
  BY DEF IInv
<1>2. QED
  BY AlwaysIInv, <1>1, PTL

\* The exit monitor completes a task that was dispatched once only with the commit it validated, though
\* it resolves that commit before it validates, and whatever other watchers, or a second dispatch that
\* has not spawned its worker yet, do to the worktree in between.
THEOREM AbeExitValidated == Spec => []ExitCompletesValidated
<1>1. IInv => ExitCompletesValidated
  BY DEF IInv
<1>2. QED
  BY AlwaysIInv, <1>1, PTL
====
