----------------------------- MODULE AgyProbes ------------------------------
(***************************************************************************)
(* AgyBreaker with a history of its probes that no trip and no success     *)
(* resets: which asks were let in by a half-open breaker and are still on  *)
(* their way to agy or in it. An ask ends by its deadline, well within the *)
(* lease, so that the lease of such a probe is not over.                   *)
(***************************************************************************)
EXTENDS AgyBreaker

VARIABLE probing

\* Let in and not yet answered, failed, backing off or dropped.
UnderWay(s) == s \in {"queue", "rate", "run"}

\* An ask that comes into the queue has just asked the breaker, which is half open if it made the ask
\* its probe. Nothing that happens to the breaker afterwards makes the call another one.
History ==
    probing' = {c \in Asks : /\ UnderWay(stage'[c])
                             /\ IF UnderWay(stage[c]) THEN c \in probing ELSE phase' = "half_open"}

ProbesInit == Init /\ probing = {}
ProbesSpec == ProbesInit /\ [][Next /\ History]_<<vars, probing>>

\* While agy runs for an ask that was let in as the probe it runs for no other probe ("a slow-but-alive
\* probe can never trigger a second concurrent probe", half_open_lease). Refuted: the failure of a call
\* that began before the breaker opened trips the half-open breaker again, and the ask that the next
\* cooldown lets in runs beside the first probe.
OneProbeAtATime == Cardinality({c \in probing : stage[c] = "run"}) <= 1

=============================================================================
