---------------------------- MODULE JobDeadline ----------------------------
(***************************************************************************)
(* The queue under the timing that a healthy deployment gives it: timers   *)
(* fire when due, an idle runner polls at every tick, and a handler ends   *)
(* within GraceMs of its deadline, because it listens to its abort signal. *)
(* Workers outside Reliable may still be killed, shut down and restarted   *)
(* at any moment, and those outside Prompt carry an old `now`.  Under      *)
(* these assumptions no job stays unsettled for longer than                *)
(* SettlementBound.                                                        *)
(***************************************************************************)
EXTENDS JobQueue

CONSTANTS Reliable,   \* the workers that stay up
          GraceMs     \* how long an aborted handler takes to end

ASSUME DeadlineAssumption ==
    /\ IsFiniteSet(Jobs) /\ GraceMs \in Nat
    /\ Reliable \subseteq Prompt
    /\ \A j \in Jobs : \E w \in Reliable : j \in Accepts[w]

HandlerOverdue(w) == Busy(w) /\ runner[w].deadline + GraceMs <= clock
PollDue(w) == /\ runner[w].phase = "idle"
              /\ Claimable(w, clock) \union Exhausted(clock) # {}

\* Every job is queued when the clock is 1.
UrgentTick ==
    /\ Tick
    /\ \A j \in Jobs : jobs[j].state # "absent"
    /\ \A w \in Workers : ~HandlerOverdue(w) /\ ~PollDue(w) /\ ~BeatDue(w) /\ ~TimeoutDue(w)

HealthyStep(w) ==
    \/ ClaimNext(w)
    \/ Heartbeat(w)
    \/ HeartbeatError(w)
    \/ Timeout(w)
    \/ HandlerResolves(w)
    \/ HandlerThrows(w)

DeadlineNext ==
    \/ \E j \in Jobs : Cancel(j) \/ (clock = 1 /\ Enqueue(j))
    \/ \E w \in Workers : HealthyStep(w)
    \/ \E w \in Workers \ Reliable : Shutdown(w) \/ Crash(w) \/ Restart(w)
    \/ UrgentTick

DeadlineSpec == Init /\ [][DeadlineNext]_vars

-----------------------------------------------------------------------------
Longest == IF LeaseMs >= RetryMaxMs THEN LeaseMs ELSE RetryMaxMs

\* An attempt keeps a job until its handler ends and the backoff is over or, if
\* the process died just after a heartbeat, until its lease runs out.
AttemptMs == TimeoutMs + GraceMs + Longest

Attempts == UNION {{j} \X (1..MaxAttempts[j]) : j \in Jobs}

\* A job waits at most for every attempt of every job, one after the other.
SettlementBound == AttemptMs * Cardinality(Attempts)

\* Bounded response: no crash, shutdown, failing heartbeat or failing handler
\* leaves a job queued or leased for longer than SettlementBound, because leases
\* run out, attempts are counted when they start, and any worker's claim sweeps
\* the jobs whose last attempt was lost (claimNext).
SettledInTime ==
    clock > 1 + SettlementBound => \A j \in Jobs : jobs[j].state \in Settled
=============================================================================
