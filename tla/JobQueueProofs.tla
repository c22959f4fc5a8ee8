--------------------------- MODULE JobQueueProofs ---------------------------
(***************************************************************************)
(* Theorems about the job queue, for any jobs, workers, durations and      *)
(* stalls.                                                                 *)
(***************************************************************************)
EXTENDS JobDeadline, FiniteSetTheorems, TLAPS

\* What a row may be: its type, the CHECK constraints, and that a running row
\* counts the attempt that is running.
RowOK(j, row) ==
    /\ row \in JobRow
    /\ row.attempts <= MaxAttempts[j]
    /\ (row.state = "running") <=> (row.owner # NoWorker)
    /\ (row.state = "running") <=> (row.leaseExpiresAt # 0)
    /\ (row.state \in Settled) <=> row.completed
    /\ row.state = "queued" => row.attempts < MaxAttempts[j]
    /\ row.state = "running" => row.attempts >= 1
    /\ row.state = "absent" => row.attempts = 0

RowsOK == jobs \in [Jobs -> JobRow] /\ \A j \in Jobs : RowOK(j, jobs[j])

RunnersOK ==
    /\ runner \in [Workers -> Runner]
    /\ \A w \in Workers : Busy(w) => runner[w].job \in Jobs

Inv == /\ clock \in Nat
       /\ crashes \in Nat
       /\ RowsOK
       /\ RunnersOK

-----------------------------------------------------------------------------
(* The row updates keep a row in order.                                    *)

LEMMA MaxAttemptsNat == \A j \in Jobs : MaxAttempts[j] \in Nat \ {0}
BY QueueAssumption

LEMMA ReleasedRow ==
    ASSUME NEW j \in Jobs, NEW row, RowOK(j, row), NEW s \in Settled
    PROVE  RowOK(j, Released(row, s))
BY QueueAssumption DEF RowOK, Released, JobRow, JobStates, Settled

LEMMA RequeuedRow ==
    ASSUME NEW j \in Jobs, NEW row, RowOK(j, row), NEW t \in Nat,
           row.attempts < MaxAttempts[j]
    PROVE  RowOK(j, Requeued(row, t))
<1>1. Requeued(row, t) \in JobRow
  BY DEF RowOK, Requeued, JobRow, JobStates
<1>2. /\ Requeued(row, t).state = "queued"
      /\ Requeued(row, t).attempts = row.attempts
      /\ Requeued(row, t).owner = NoWorker
      /\ Requeued(row, t).leaseExpiresAt = 0
      /\ Requeued(row, t).completed = FALSE
  BY DEF RowOK, Requeued, JobRow
<1> QED
  BY <1>1, <1>2 DEF RowOK, Settled

LEMMA LeasedRow ==
    ASSUME NEW j \in Jobs, NEW row, RowOK(j, row), NEW w \in Workers, NEW t \in Nat \ {0},
           row.attempts < MaxAttempts[j]
    PROVE  RowOK(j, Leased(row, w, t))
<1>0. row \in JobRow /\ row.attempts + 1 \in Nat
  BY DEF RowOK, JobRow
<1>1. Leased(row, w, t) \in JobRow
  BY <1>0, Zenon DEF Leased, JobRow, JobStates
<1>2. /\ Leased(row, w, t).state = "running"
      /\ Leased(row, w, t).attempts = row.attempts + 1
      /\ Leased(row, w, t).owner = w
      /\ Leased(row, w, t).leaseExpiresAt = t
      /\ Leased(row, w, t).completed = FALSE
  BY DEF RowOK, Leased, JobRow
<1>3. row.attempts \in Nat
  BY DEF RowOK, JobRow
<1> QED
  BY <1>1, <1>2, <1>3, MaxAttemptsNat, QueueAssumption DEF RowOK, JobRow, JobStates, Settled

LEMMA EnqueuedRow ==
    ASSUME NEW j \in Jobs, NEW row, RowOK(j, row), NEW t \in Nat, row.state = "absent"
    PROVE  RowOK(j, [row EXCEPT !.state = "queued", !.runAfter = t])
<1> DEFINE new == [row EXCEPT !.state = "queued", !.runAfter = t]
<1>1. new \in JobRow
  BY DEF RowOK, JobRow, JobStates
<1>2. /\ new.state = "queued" /\ new.attempts = 0 /\ new.owner = row.owner
      /\ new.leaseExpiresAt = row.leaseExpiresAt /\ new.completed = row.completed
  BY DEF RowOK, JobRow
<1> QED
  BY <1>1, <1>2, MaxAttemptsNat DEF RowOK, Settled

LEMMA RenewedRow ==
    ASSUME NEW j \in Jobs, NEW row, RowOK(j, row), NEW t \in Nat \ {0},
           row.state = "running"
    PROVE  RowOK(j, [row EXCEPT !.leaseExpiresAt = t])
<1> DEFINE new == [row EXCEPT !.leaseExpiresAt = t]
<1>1. new \in JobRow
  BY DEF RowOK, JobRow
<1>2. /\ new.state = row.state /\ new.attempts = row.attempts /\ new.owner = row.owner
      /\ new.leaseExpiresAt = t /\ new.completed = row.completed
  BY DEF RowOK, JobRow
<1> QED
  BY <1>1, <1>2 DEF RowOK, Settled

LEMMA OneRow ==
    ASSUME RowsOK, NEW j \in Jobs, NEW row, RowOK(j, row),
           jobs' = [jobs EXCEPT ![j] = row]
    PROVE  RowsOK'
BY DEF RowsOK, RowOK

LEMMA NowIsPast ==
    ASSUME clock \in Nat, NEW w \in Workers, NEW now \in NowOf(w)
    PROVE  now \in Nat /\ now <= clock
BY QueueAssumption DEF NowOf

LEMMA RunningNotSettled == "running" \notin Settled /\ "queued" \notin Settled
BY DEF Settled

LEMMA SweptRows ==
    ASSUME RowsOK, NEW now
    PROVE  /\ AfterSweep(now) \in [Jobs -> JobRow]
           /\ \A j \in Jobs : RowOK(j, AfterSweep(now)[j])
<1>1. ASSUME NEW j \in Jobs PROVE RowOK(j, AfterSweep(now)[j])
  BY ReleasedRow DEF RowsOK, AfterSweep, Settled
<1> QED
  BY <1>1 DEF AfterSweep, RowOK

-----------------------------------------------------------------------------
(* Each action keeps the invariant.                                        *)

LEMMA FreshRunnerType == FreshRunner \in Runner /\ FreshRunner.phase = "idle"
BY DEF FreshRunner, Runner, AbortReasons

LEMMA StoppedRunnerType ==
    /\ [FreshRunner EXCEPT !.phase = "stopped"] \in Runner
    /\ [FreshRunner EXCEPT !.phase = "stopped"].phase = "stopped"
BY DEF FreshRunner, Runner, AbortReasons

LEMMA ReturnedType ==
    ASSUME NEW w \in Workers
    PROVE  Returned(w) \in Runner /\ Returned(w).phase # "busy"
BY FreshRunnerType, StoppedRunnerType DEF Returned

LEMMA ClaimKeepsInv ==
    ASSUME Inv, NEW w \in Workers, ClaimNext(w)
    PROVE  Inv'
<1>1. PICK now \in NowOf(w) :
         \/ /\ Claimable(w, now) = {}
            /\ jobs' = AfterSweep(now)
            /\ UNCHANGED runner
         \/ \E j \in Oldest(Claimable(w, now)) :
              /\ jobs' = [AfterSweep(now) EXCEPT ![j] = Leased(jobs[j], w, now + LeaseMs)]
              /\ runner' = [runner EXCEPT ![w] =
                              [FreshRunner EXCEPT !.phase = "busy", !.job = j,
                                                  !.beatAt = clock + HeartbeatMs,
                                                  !.deadline = clock + TimeoutMs,
                                                  !.attempt = jobs[j].attempts + 1]]
  BY DEF ClaimNext
<1>2. now \in Nat /\ now + LeaseMs \in Nat \ {0}
  BY NowIsPast, QueueAssumption, HeartbeatAssumption DEF Inv
<1>3. UNCHANGED <<clock, crashes>>
  BY DEF ClaimNext
<1>4. CASE jobs' = AfterSweep(now) /\ UNCHANGED runner
  BY <1>3, <1>4, SweptRows DEF Inv, RowsOK, RunnersOK, Busy
<1>5. ASSUME NEW j \in Oldest(Claimable(w, now)),
             jobs' = [AfterSweep(now) EXCEPT ![j] = Leased(jobs[j], w, now + LeaseMs)],
             runner' = [runner EXCEPT ![w] =
                              [FreshRunner EXCEPT !.phase = "busy", !.job = j,
                                                  !.beatAt = clock + HeartbeatMs,
                                                  !.deadline = clock + TimeoutMs,
                                                  !.attempt = jobs[j].attempts + 1]]
      PROVE  Inv'
  <2>1. j \in Jobs /\ jobs[j].attempts < MaxAttempts[j]
    BY QueueAssumption DEF Oldest, Claimable
  <2>2. RowOK(j, Leased(jobs[j], w, now + LeaseMs))
    BY <2>1, <1>2, LeasedRow DEF Inv, RowsOK
  <2>3. RowsOK'
    BY <2>1, <2>2, <1>5, SweptRows DEF Inv, RowsOK, RowOK
  <2>4. clock + HeartbeatMs \in Nat /\ clock + TimeoutMs \in Nat /\ jobs[j].attempts + 1 \in Nat
    BY <2>1, QueueAssumption DEF Inv, RowsOK, RowOK, JobRow
  <2> DEFINE new == [FreshRunner EXCEPT !.phase = "busy", !.job = j,
                                        !.beatAt = clock + HeartbeatMs,
                                        !.deadline = clock + TimeoutMs,
                                        !.attempt = jobs[j].attempts + 1]
  <2>5. new \in Runner /\ new.job = j
    BY <2>1, <2>4, FreshRunnerType, Zenon DEF Runner, FreshRunner, AbortReasons
  <2>6. RunnersOK'
    BY <2>1, <2>5, <1>5 DEF Inv, RunnersOK, Busy
  <2> QED
    BY <2>3, <2>6, <1>3 DEF Inv
<1> QED
  BY <1>1, <1>4, <1>5

LEMMA FailKeepsRows ==
    ASSUME Inv, NEW w \in Workers, NEW j \in Jobs, NEW now \in Nat, NEW retryable \in BOOLEAN,
           HoldsLease(w, j, now), Fail(j, now, retryable)
    PROVE  RowsOK'
<1>1. RowOK(j, jobs[j]) /\ jobs[j].state = "running"
  BY DEF Inv, RowsOK, HoldsLease
<1>2. CASE ~retryable \/ jobs[j].attempts >= MaxAttempts[j]
  <2>1. jobs' = [jobs EXCEPT ![j] = Released(jobs[j], "failed")]
    BY <1>2 DEF Fail
  <2> QED
    BY <2>1, <1>1, ReleasedRow, OneRow DEF Inv, Settled
<1>3. CASE ~(~retryable \/ jobs[j].attempts >= MaxAttempts[j])
  <2>1. jobs' = [jobs EXCEPT ![j] = Requeued(jobs[j], now + RetryDelay(jobs[j].attempts))]
    BY <1>3 DEF Fail
  <2>2. jobs[j].attempts \in 1..MaxAttempts[j] /\ jobs[j].attempts < MaxAttempts[j]
    BY <1>1, <1>3, MaxAttemptsNat DEF RowOK, JobRow
  <2>3. now + RetryDelay(jobs[j].attempts) \in Nat
    BY <2>2, RetryAssumption
  <2> QED
    BY <2>1, <2>2, <2>3, <1>1, RequeuedRow, OneRow DEF Inv
<1> QED
  BY <1>2, <1>3

LEMMA PersistFailureKeepsRows ==
    ASSUME Inv, NEW w \in Workers, Busy(w), NEW retryable \in BOOLEAN,
           PersistFailure(w, retryable)
    PROVE  RowsOK'
<1>1. PICK now \in NowOf(w) : IF HoldsLease(w, runner[w].job, now)
                              THEN Fail(runner[w].job, now, retryable)
                              ELSE UNCHANGED jobs
  BY DEF PersistFailure
<1>2. runner[w].job \in Jobs /\ now \in Nat
  BY NowIsPast DEF Inv, RunnersOK
<1>3. CASE HoldsLease(w, runner[w].job, now)
  BY <1>1, <1>2, <1>3, FailKeepsRows
<1>4. CASE UNCHANGED jobs
  BY <1>4 DEF Inv, RowsOK
<1> QED
  BY <1>1, <1>3, <1>4

LEMMA PersistSuccessKeepsRows ==
    ASSUME Inv, NEW w \in Workers, Busy(w), PersistSuccess(w)
    PROVE  RowsOK'
<1>1. CASE UNCHANGED jobs
  BY <1>1 DEF Inv, RowsOK
<1>2. CASE Succeed(runner[w].job)
  <2>1. runner[w].job \in Jobs
    BY DEF Inv, RunnersOK
  <2> QED
    BY <1>2, <2>1, ReleasedRow, OneRow DEF Inv, RowsOK, Succeed, Settled
<1> QED
  BY <1>1, <1>2 DEF PersistSuccess

\* A run that ends leaves a runner that is not busy.
LEMMA ReturnKeepsRunners ==
    ASSUME RunnersOK, NEW w \in Workers, runner' = [runner EXCEPT ![w] = Returned(w)]
    PROVE  RunnersOK'
BY ReturnedType DEF RunnersOK, Busy

LEMMA HandlerResolvesKeepsInv ==
    ASSUME Inv, NEW w \in Workers, HandlerResolves(w)
    PROVE  Inv'
<1>1. RowsOK'
  <2>1. CASE UNCHANGED jobs
    BY <2>1 DEF Inv, RowsOK
  <2> QED
    BY <2>1, PersistFailureKeepsRows, PersistSuccessKeepsRows DEF HandlerResolves
<1> QED
  BY <1>1, ReturnKeepsRunners DEF Inv, HandlerResolves

LEMMA HandlerThrowsKeepsInv ==
    ASSUME Inv, NEW w \in Workers, HandlerThrows(w)
    PROVE  Inv'
<1>1. RowsOK'
  <2>1. CASE UNCHANGED jobs
    BY <2>1 DEF Inv, RowsOK
  <2> QED
    BY <2>1, PersistFailureKeepsRows DEF HandlerThrows
<1> QED
  BY <1>1, ReturnKeepsRunners DEF Inv, HandlerThrows

LEMMA AtMostNat == ASSUME NEW x \in Nat, NEW cap \in Nat PROVE AtMost(x, cap) \in Nat
BY DEF AtMost

LEMMA FirstReasonType ==
    ASSUME RunnersOK, NEW w \in Workers, NEW r \in AbortReasons
    PROVE  FirstReason(w, r) \in AbortReasons
BY DEF RunnersOK, FirstReason, Runner

LEMMA HeartbeatKeepsInv ==
    ASSUME Inv, NEW w \in Workers, Heartbeat(w)
    PROVE  Inv'
<1>1. Busy(w) /\ runner[w].job \in Jobs /\ runner[w] \in Runner
  BY DEF Heartbeat, BeatDue, Inv, RunnersOK
<1>2. clock + HeartbeatMs \in Nat /\ UNCHANGED <<clock, crashes>>
  BY QueueAssumption DEF Inv, Heartbeat
<1>3. PICK now \in NowOf(w) :
         IF HoldsLease(w, runner[w].job, now)
         THEN /\ Renew(runner[w].job, now)
              /\ runner' = [runner EXCEPT ![w].beatAt = clock + HeartbeatMs, ![w].misses = 0]
         ELSE /\ runner' = [runner EXCEPT ![w].beatAt = clock + HeartbeatMs,
                                          ![w].leaseLost = TRUE,
                                          ![w].reason = FirstReason(w, "lease_lost")]
              /\ UNCHANGED jobs
  BY DEF Heartbeat
<1>4. CASE HoldsLease(w, runner[w].job, now)
  <2>1. now + LeaseMs \in Nat \ {0}
    BY NowIsPast, QueueAssumption, HeartbeatAssumption DEF Inv
  <2>2. jobs' = [jobs EXCEPT ![runner[w].job] =
                   [jobs[runner[w].job] EXCEPT !.leaseExpiresAt = now + LeaseMs]]
    BY <1>3, <1>4 DEF Renew
  <2>3. jobs[runner[w].job].state = "running" /\ RowOK(runner[w].job, jobs[runner[w].job])
    BY <1>1, <1>4 DEF HoldsLease, Inv, RowsOK
  <2>4. RowOK(runner[w].job, [jobs[runner[w].job] EXCEPT !.leaseExpiresAt = now + LeaseMs])
    BY <1>1, <2>1, <2>3, RenewedRow
  <2>5. RowsOK'
    BY <1>1, <2>2, <2>4, OneRow DEF Inv
  <2>6. RunnersOK'
    BY <1>1, <1>2, <1>3, <1>4 DEF Inv, RunnersOK, Runner, Busy
  <2> QED
    BY <1>2, <2>5, <2>6 DEF Inv
<1>5. CASE ~HoldsLease(w, runner[w].job, now)
  <2>1. FirstReason(w, "lease_lost") \in AbortReasons
    BY FirstReasonType DEF Inv, AbortReasons
  <2>2. RunnersOK'
    BY <1>1, <1>2, <1>3, <1>5, <2>1 DEF Inv, RunnersOK, Runner, Busy
  <2> QED
    BY <1>2, <1>3, <1>5, <2>2 DEF Inv, RowsOK
<1> QED
  BY <1>4, <1>5

LEMMA OneRunner ==
    ASSUME RunnersOK, NEW w \in Workers, NEW new \in Runner,
           new.phase = "busy" => new.job \in Jobs,
           runner' = [runner EXCEPT ![w] = new]
    PROVE  RunnersOK'
BY DEF RunnersOK, Busy

LEMMA HeartbeatErrorKeepsInv ==
    ASSUME Inv, NEW w \in Workers, HeartbeatError(w)
    PROVE  Inv'
<1>1. Busy(w) /\ runner[w] \in Runner /\ runner[w].job \in Jobs /\ clock + HeartbeatMs \in Nat
  BY QueueAssumption DEF HeartbeatError, BeatDue, Inv, RunnersOK
<1>2. runner[w].misses + 1 \in Nat
  BY <1>1 DEF Runner
<1>3. /\ AtMost(runner[w].misses + 1, 2) \in Nat
      /\ FirstReason(w, "heartbeat_failed") \in AbortReasons
  BY <1>2, AtMostNat, FirstReasonType DEF Inv, AbortReasons
<1> DEFINE new == [runner[w] EXCEPT !.beatAt = clock + HeartbeatMs,
                                    !.misses = AtMost(runner[w].misses + 1, 2),
                                    !.reason = FirstReason(w, "heartbeat_failed")]
<1>4. new \in Runner /\ new.job = runner[w].job
  BY <1>1, <1>3, Zenon DEF Runner
<1>5. runner' = [runner EXCEPT ![w] = new]
  BY <1>1 DEF HeartbeatError, Inv, RunnersOK, Runner
<1>6. RunnersOK'
  BY <1>1, <1>4, <1>5, OneRunner DEF Inv
<1> QED
  BY <1>6 DEF HeartbeatError, Inv, RowsOK

LEMMA ProcessStepKeepsInv ==
    ASSUME Inv, NEW w \in Workers, Timeout(w) \/ Shutdown(w) \/ Crash(w) \/ Restart(w)
    PROVE  Inv'
<1>1. RowsOK'
  BY DEF Inv, RowsOK, Timeout, Shutdown, Crash, Restart
<1>2. clock' \in Nat /\ crashes' \in Nat
  BY DEF Inv, Timeout, Shutdown, Crash, Restart
<1>3. RunnersOK /\ runner[w] \in Runner
  BY DEF Inv, RunnersOK
<1>4. ASSUME Timeout(w) PROVE RunnersOK'
  <2> DEFINE new == [runner[w] EXCEPT !.reason = "timeout"]
  <2>1. new \in Runner /\ new.phase = runner[w].phase /\ new.job = runner[w].job
    BY <1>3, Zenon DEF Runner, AbortReasons
  <2>2. runner' = [runner EXCEPT ![w] = new]
    BY <1>4 DEF Timeout
  <2> QED
    BY <1>3, <2>1, <2>2, OneRunner DEF RunnersOK, Busy
<1>5. ASSUME Shutdown(w), Busy(w) PROVE RunnersOK'
  <2>1. FirstReason(w, "shutdown") \in AbortReasons
    BY <1>3, FirstReasonType DEF AbortReasons
  <2> DEFINE new == [runner[w] EXCEPT !.shutdown = TRUE, !.reason = FirstReason(w, "shutdown")]
  <2>2. new \in Runner /\ new.phase = runner[w].phase /\ new.job = runner[w].job
    BY <1>3, <2>1, Zenon DEF Runner
  <2>3. runner' = [runner EXCEPT ![w] = new]
    BY <1>5 DEF Shutdown
  <2> QED
    BY <1>3, <2>2, <2>3, OneRunner DEF RunnersOK, Busy
<1>6. ASSUME (Shutdown(w) /\ ~Busy(w)) \/ Crash(w) PROVE RunnersOK'
  <2>1. runner' = [runner EXCEPT ![w] = [FreshRunner EXCEPT !.phase = "stopped"]]
    BY <1>6 DEF Shutdown, Crash
  <2> QED
    BY <1>3, <2>1, StoppedRunnerType, OneRunner
<1>7. ASSUME Restart(w) PROVE RunnersOK'
  <2>1. runner' = [runner EXCEPT ![w] = FreshRunner]
    BY <1>7 DEF Restart
  <2> QED
    BY <1>3, <2>1, FreshRunnerType, OneRunner
<1>8. RunnersOK'
  BY <1>4, <1>5, <1>6, <1>7
<1> QED
  BY <1>1, <1>2, <1>8 DEF Inv

LEMMA EnqueueKeepsInv ==
    ASSUME Inv, NEW j \in Jobs, Enqueue(j)
    PROVE  Inv'
<1>1. RowOK(j, jobs[j]) /\ jobs[j].state = "absent" /\ clock \in Nat
  BY DEF Inv, RowsOK, Enqueue
<1>2. jobs' = [jobs EXCEPT ![j] = [jobs[j] EXCEPT !.state = "queued", !.runAfter = clock]]
  BY DEF Enqueue
<1>3. RowOK(j, [jobs[j] EXCEPT !.state = "queued", !.runAfter = clock])
  BY <1>1, EnqueuedRow
<1>4. RowsOK'
  BY <1>2, <1>3, OneRow DEF Inv
<1> QED
  BY <1>4 DEF Inv, RunnersOK, Busy, Enqueue

LEMMA CancelKeepsInv ==
    ASSUME Inv, NEW j \in Jobs, Cancel(j)
    PROVE  Inv'
<1>1. RowOK(j, Released(jobs[j], "cancelled"))
  BY ReleasedRow DEF Inv, RowsOK, Settled
<1>2. RowsOK'
  BY <1>1, OneRow DEF Inv, Cancel
<1> QED
  BY <1>2 DEF Inv, RunnersOK, Busy, Cancel

LEMMA InitInv == Init => Inv
<1> SUFFICES ASSUME Init PROVE Inv
  OBVIOUS
<1>1. \A j \in Jobs : RowOK(j, AbsentJob)
  BY MaxAttemptsNat DEF RowOK, AbsentJob, JobRow, JobStates, Settled
<1>2. RowsOK
  BY <1>1 DEF Init, RowsOK, RowOK
<1>3. RunnersOK
  BY FreshRunnerType DEF Init, RunnersOK, Busy
<1> QED
  BY <1>2, <1>3 DEF Init, Inv

LEMMA NextInv == Inv /\ [Next]_vars => Inv'
<1> SUFFICES ASSUME Inv, [Next]_vars PROVE Inv'
  OBVIOUS
<1>1. CASE \E j \in Jobs : Enqueue(j) \/ Cancel(j)
  BY <1>1, EnqueueKeepsInv, CancelKeepsInv
<1>2. ASSUME NEW w \in Workers, WorkerStep(w) PROVE Inv'
  BY <1>2, ClaimKeepsInv, HeartbeatKeepsInv, HeartbeatErrorKeepsInv, HandlerResolvesKeepsInv,
     HandlerThrowsKeepsInv, ProcessStepKeepsInv DEF WorkerStep
<1>3. CASE Tick
  BY <1>3 DEF Tick, Inv, RowsOK, RunnersOK, Busy
<1>4. CASE UNCHANGED vars
  BY <1>4 DEF vars, Inv, RowsOK, RunnersOK, Busy
<1> QED
  BY <1>1, <1>2, <1>3, <1>4 DEF Next

LEMMA InvInvariant == Spec => []Inv
BY InitInv, NextInv, PTL DEF Spec

\* The tables and the processes always hold values of their types.
THEOREM TypeCorrect == Spec => []TypeOK
<1>1. Inv => TypeOK
  BY DEF Inv, TypeOK, RowsOK, RunnersOK
<1> QED
  BY <1>1, InvInvariant, PTL

\* No sequence of claims, heartbeats, results, cancellations, crashes and
\* restarts writes a row that the CHECK constraints of the jobs table refuse.
THEOREM ChecksHold == Spec => []TableChecks
<1>1. Inv => TableChecks
  BY DEF Inv, RowsOK, RowOK, TableChecks
<1> QED
  BY <1>1, InvInvariant, PTL

-----------------------------------------------------------------------------
(* What a step does to the rows.                                           *)

LEMMA ReleasedFields ==
    ASSUME NEW row \in JobRow, NEW s
    PROVE  /\ Released(row, s).state = s
           /\ Released(row, s).owner = NoWorker
           /\ Released(row, s).attempts = row.attempts
BY DEF Released, JobRow

LEMMA RequeuedFields ==
    ASSUME NEW row \in JobRow, NEW t
    PROVE  /\ Requeued(row, t).state = "queued"
           /\ Requeued(row, t).owner = NoWorker
           /\ Requeued(row, t).attempts = row.attempts
BY DEF Requeued, JobRow

LEMMA LeasedFields ==
    ASSUME NEW row \in JobRow, NEW w, NEW t
    PROVE  /\ Leased(row, w, t).state = "running"
           /\ Leased(row, w, t).owner = w
           /\ Leased(row, w, t).attempts = row.attempts + 1
           /\ Leased(row, w, t).leaseExpiresAt = t
BY DEF Leased, JobRow

\* A queued job has an attempt left, so the sweep only settles leased jobs.
LEMMA SweptRow ==
    ASSUME Inv, NEW now, NEW j \in Jobs, AfterSweep(now)[j] # jobs[j]
    PROVE  /\ j \in Exhausted(now)
           /\ AfterSweep(now)[j] = Released(jobs[j], "failed")
           /\ jobs[j].state = "running" /\ jobs[j].leaseExpiresAt <= now
           /\ jobs[j].attempts = MaxAttempts[j]
<1>1. j \in Exhausted(now) /\ AfterSweep(now)[j] = Released(jobs[j], "failed")
  BY DEF AfterSweep
<1>2. RowOK(j, jobs[j]) /\ jobs[j].attempts >= MaxAttempts[j]
  BY <1>1 DEF Inv, RowsOK, Exhausted
<1>3. jobs[j].attempts = MaxAttempts[j] /\ jobs[j].state # "queued"
  BY <1>2, MaxAttemptsNat DEF RowOK, JobRow
<1> QED
  BY <1>1, <1>3 DEF Exhausted, LeaseExpired

SweepOf(now) == /\ now \in Nat /\ now <= clock
                /\ jobs' = AfterSweep(now)
                /\ UNCHANGED <<clock, runner, crashes>>

Takes(w, now, j) ==
    /\ now \in NowOf(w) /\ now \in Nat /\ now <= clock
    /\ j \in Jobs /\ j \in Claimable(w, now)
    /\ jobs' = [AfterSweep(now) EXCEPT ![j] = Leased(jobs[j], w, now + LeaseMs)]
    /\ runner' = [runner EXCEPT ![w] =
                    [FreshRunner EXCEPT !.phase = "busy", !.job = j,
                                        !.beatAt = clock + HeartbeatMs,
                                        !.deadline = clock + TimeoutMs,
                                        !.attempt = jobs[j].attempts + 1]]
    /\ UNCHANGED <<clock, crashes>>

\* A claim takes one job or none.
LEMMA ClaimKinds ==
    ASSUME Inv, NEW w \in Workers, ClaimNext(w)
    PROVE  \E now \in Nat : SweepOf(now) \/ \E j \in Jobs : Takes(w, now, j)
<1>1. PICK now \in NowOf(w) :
         \/ /\ Claimable(w, now) = {}
            /\ jobs' = AfterSweep(now)
            /\ UNCHANGED runner
         \/ \E j \in Oldest(Claimable(w, now)) :
              /\ jobs' = [AfterSweep(now) EXCEPT ![j] = Leased(jobs[j], w, now + LeaseMs)]
              /\ runner' = [runner EXCEPT ![w] =
                              [FreshRunner EXCEPT !.phase = "busy", !.job = j,
                                                  !.beatAt = clock + HeartbeatMs,
                                                  !.deadline = clock + TimeoutMs,
                                                  !.attempt = jobs[j].attempts + 1]]
  BY DEF ClaimNext
<1>2. now \in Nat /\ now <= clock /\ UNCHANGED <<clock, crashes>>
  BY NowIsPast DEF Inv, ClaimNext
<1>3. \A j \in Oldest(Claimable(w, now)) : j \in Jobs /\ j \in Claimable(w, now)
  BY QueueAssumption DEF Oldest, Claimable
<1> QED
  BY <1>1, <1>2, <1>3 DEF SweepOf, Takes

\* What the end of a run writes, if anything: the lease still names the worker.
SettlesAs(w, j, row) ==
    /\ jobs[j].state = "running" /\ jobs[j].owner = w
    /\ jobs' = [jobs EXCEPT ![j] = row]
    /\ \/ row = Released(jobs[j], "succeeded") /\ runner[w].reason = "none"
       \/ row = Released(jobs[j], "failed")
       \/ /\ jobs[j].attempts < MaxAttempts[j]
          /\ \E t \in Nat : t <= clock + RetryMaxMs /\ row = Requeued(jobs[j], t)

Settles(w) == \E row : SettlesAs(w, runner[w].job, row)

\* The backoff is capped, whatever the exponent.
LEMMA BackoffIsCapped ==
    ASSUME NEW j \in Jobs, NEW n \in 1..MaxAttempts[j]
    PROVE  RetryDelay(n) \in Nat /\ RetryDelay(n) <= RetryMaxMs
<1>1. ASSUME NEW x PROVE AtMost(x, RetryMaxMs) <= RetryMaxMs
  BY QueueAssumption DEF AtMost
<1> QED
  BY <1>1, RetryAssumption DEF RetryDelay

LEMMA PersistFailureSettles ==
    ASSUME Inv, NEW w \in Workers, Busy(w), NEW retryable \in BOOLEAN,
           PersistFailure(w, retryable)
    PROVE  UNCHANGED jobs \/ Settles(w)
<1> DEFINE j == runner[w].job
<1>1. PICK now \in NowOf(w) : IF HoldsLease(w, j, now) THEN Fail(j, now, retryable)
                              ELSE UNCHANGED jobs
  BY DEF PersistFailure
<1>2. RowOK(j, jobs[j]) /\ j \in Jobs
  BY DEF Inv, RunnersOK, RowsOK
<1>3. ASSUME HoldsLease(w, j, now), Fail(j, now, retryable) PROVE Settles(w)
  <2>1. jobs[j].state = "running" /\ jobs[j].owner = w
    BY <1>3 DEF HoldsLease
  <2>2. CASE ~retryable \/ jobs[j].attempts >= MaxAttempts[j]
    <3>1. jobs' = [jobs EXCEPT ![j] = Released(jobs[j], "failed")]
      BY <1>3, <2>2 DEF Fail
    <3> QED
      BY <2>1, <3>1 DEF Settles, SettlesAs
  <2>3. CASE ~(~retryable \/ jobs[j].attempts >= MaxAttempts[j])
    <3>1. jobs' = [jobs EXCEPT ![j] = Requeued(jobs[j], now + RetryDelay(jobs[j].attempts))]
      BY <1>3, <2>3 DEF Fail
    <3>2. jobs[j].attempts < MaxAttempts[j] /\ jobs[j].attempts \in 1..MaxAttempts[j]
      BY <1>2, <2>1, <2>3, MaxAttemptsNat DEF RowOK, JobRow
    <3>3. now \in Nat /\ now <= clock /\ clock \in Nat
      BY NowIsPast DEF Inv
    <3>4. /\ now + RetryDelay(jobs[j].attempts) \in Nat
          /\ now + RetryDelay(jobs[j].attempts) <= clock + RetryMaxMs
      BY <1>2, <3>2, <3>3, BackoffIsCapped, QueueAssumption
    <3> QED
      BY <2>1, <3>1, <3>2, <3>4 DEF Settles, SettlesAs
  <2> QED
    BY <2>2, <2>3
<1> QED
  BY <1>1, <1>3

\* A run that ends settles its job, requeues it or leaves the table alone, and
\* the worker is no longer busy.
LEMMA RunEnds ==
    ASSUME Inv, NEW w \in Workers, HandlerResolves(w) \/ HandlerThrows(w)
    PROVE  /\ Busy(w) /\ ~(Busy(w))'
           /\ runner' = [runner EXCEPT ![w] = Returned(w)]
           /\ UNCHANGED <<clock, crashes>>
           /\ UNCHANGED jobs \/ Settles(w)
<1>1. Busy(w) /\ UNCHANGED <<clock, crashes>> /\ runner' = [runner EXCEPT ![w] = Returned(w)]
  BY DEF HandlerResolves, HandlerThrows
<1>2. ~(Busy(w))'
  BY <1>1, ReturnedType DEF Busy, Inv, RunnersOK
<1>3. ASSUME PersistSuccess(w), runner[w].reason = "none" PROVE UNCHANGED jobs \/ Settles(w)
  <2>1. PICK now \in NowOf(w) : IF HoldsLease(w, runner[w].job, now)
                                THEN Succeed(runner[w].job) ELSE UNCHANGED jobs
    BY <1>3 DEF PersistSuccess
  <2>2. ASSUME HoldsLease(w, runner[w].job, now), Succeed(runner[w].job) PROVE Settles(w)
    BY <1>3, <2>2 DEF HoldsLease, Succeed, Settles, SettlesAs
  <2> QED
    BY <2>1, <2>2
<1>4. UNCHANGED jobs \/ Settles(w)
  BY <1>1, <1>3, PersistFailureSettles DEF HandlerResolves, HandlerThrows
<1> QED
  BY <1>1, <1>2, <1>4

SameRun(w) == (Busy(w))' => /\ Busy(w)
                            /\ runner'[w].job = runner[w].job
                            /\ runner'[w].attempt = runner[w].attempt
                            /\ runner'[w].deadline = runner[w].deadline

Renews(w, t) ==
    /\ Heartbeat(w) /\ t <= clock + LeaseMs
    /\ Busy(w) /\ jobs[runner[w].job].state = "running" /\ jobs[runner[w].job].owner = w
    /\ jobs' = [jobs EXCEPT ![runner[w].job] = [@ EXCEPT !.leaseExpiresAt = t]]

LEMMA OneRunnerMoves ==
    ASSUME RunnersOK, NEW w \in Workers, NEW new,
           runner' = [runner EXCEPT ![w] = new],
           new.phase = "busy" => /\ Busy(w) /\ new.job = runner[w].job
                                 /\ new.attempt = runner[w].attempt
                                 /\ new.deadline = runner[w].deadline
    PROVE  \A v \in Workers : SameRun(v)
BY DEF RunnersOK, SameRun, Busy

LEMMA HeartbeatKinds ==
    ASSUME Inv, NEW w \in Workers, Heartbeat(w)
    PROVE  /\ \A v \in Workers : SameRun(v)
           /\ UNCHANGED jobs \/ \E t \in Nat : Renews(w, t)
<1>1. Busy(w) /\ runner[w] \in Runner /\ runner \in [Workers -> Runner]
  BY DEF Heartbeat, BeatDue, Inv, RunnersOK
<1>2. PICK now \in NowOf(w) :
         IF HoldsLease(w, runner[w].job, now)
         THEN /\ Renew(runner[w].job, now)
              /\ runner' = [runner EXCEPT ![w].beatAt = clock + HeartbeatMs, ![w].misses = 0]
         ELSE /\ runner' = [runner EXCEPT ![w].beatAt = clock + HeartbeatMs,
                                          ![w].leaseLost = TRUE,
                                          ![w].reason = FirstReason(w, "lease_lost")]
              /\ UNCHANGED jobs
  BY DEF Heartbeat
<1>3. \A v \in Workers : SameRun(v)
  BY <1>1, <1>2 DEF SameRun, Busy, Runner
<1>4. CASE HoldsLease(w, runner[w].job, now)
  <2>1. now + LeaseMs \in Nat /\ now + LeaseMs <= clock + LeaseMs
    BY NowIsPast, QueueAssumption DEF Inv
  <2>2. Renews(w, now + LeaseMs)
    BY <1>1, <1>2, <1>4, <2>1 DEF Renew, Renews, HoldsLease
  <2> QED
    BY <1>3, <2>1, <2>2
<1> QED
  BY <1>2, <1>3, <1>4

LEMMA QuietStep ==
    ASSUME Inv, NEW w \in Workers, Timeout(w) \/ Shutdown(w) \/ Crash(w) \/ Restart(w)
                                     \/ HeartbeatError(w)
    PROVE  UNCHANGED jobs /\ \A v \in Workers : SameRun(v)
<1>1. RunnersOK /\ runner[w] \in Runner
  BY DEF Inv, RunnersOK
<1>2. UNCHANGED jobs
  BY DEF Timeout, Shutdown, Crash, Restart, HeartbeatError
<1>3. CASE Timeout(w) \/ HeartbeatError(w)
  BY <1>1, <1>3 DEF Timeout, HeartbeatError, RunnersOK, SameRun, Busy, Runner
<1>4. CASE Shutdown(w)
  <2>1. CASE Busy(w)
    BY <1>1, <1>4, <2>1 DEF Shutdown, RunnersOK, SameRun, Busy, Runner
  <2>2. CASE ~Busy(w)
    BY <1>1, <1>4, <2>2, StoppedRunnerType, OneRunnerMoves DEF Shutdown
  <2> QED
    BY <2>1, <2>2
<1>5. CASE Crash(w) \/ Restart(w)
  BY <1>1, <1>5, StoppedRunnerType, FreshRunnerType, OneRunnerMoves DEF Crash, Restart
<1> QED
  BY <1>2, <1>3, <1>4, <1>5

\* Every step of the system is one of these.
LEMMA StepKinds ==
    ASSUME Inv, [Next]_vars
    PROVE  \/ \E w \in Workers, now \in Nat, j \in Jobs : Takes(w, now, j)
           \/ \E now \in Nat : SweepOf(now)
           \/ \E w \in Workers : /\ Busy(w) /\ ~(Busy(w))' /\ Settles(w)
                                 /\ UNCHANGED clock /\ \A v \in Workers : SameRun(v)
           \/ \E w \in Workers, t \in Nat : Renews(w, t) /\ \A v \in Workers : SameRun(v)
           \/ \E j \in Jobs : (Enqueue(j) \/ Cancel(j)) /\ \A v \in Workers : SameRun(v)
           \/ UNCHANGED jobs /\ \A v \in Workers : SameRun(v)
<1>1. UNCHANGED runner => \A v \in Workers : SameRun(v)
  BY DEF SameRun, Busy
<1>2. CASE \E j \in Jobs : Enqueue(j) \/ Cancel(j)
  BY <1>1, <1>2 DEF Enqueue, Cancel
<1>3. CASE Tick \/ UNCHANGED vars
  BY <1>1, <1>3 DEF Tick, vars
<1>4. ASSUME NEW w \in Workers, HandlerResolves(w) \/ HandlerThrows(w)
      PROVE  /\ Busy(w) /\ ~(Busy(w))' /\ UNCHANGED clock
             /\ UNCHANGED jobs \/ Settles(w)
             /\ \A v \in Workers : SameRun(v)
  <2>1. /\ Busy(w) /\ ~(Busy(w))' /\ UNCHANGED clock
        /\ UNCHANGED jobs \/ Settles(w)
        /\ runner' = [runner EXCEPT ![w] = Returned(w)]
    BY <1>4, RunEnds
  <2>2. RunnersOK /\ Returned(w).phase # "busy"
    BY ReturnedType DEF Inv
  <2>3. \A v \in Workers : SameRun(v)
    BY <2>1, <2>2, OneRunnerMoves
  <2> QED
    BY <2>1, <2>3
<1>5. ASSUME NEW w \in Workers, ClaimNext(w)
      PROVE  \E now \in Nat : SweepOf(now) \/ \E j \in Jobs : Takes(w, now, j)
  BY <1>5, ClaimKinds
<1>6. ASSUME NEW w \in Workers, Heartbeat(w)
      PROVE  /\ \A v \in Workers : SameRun(v)
             /\ UNCHANGED jobs \/ \E t \in Nat : Renews(w, t)
  BY <1>6, HeartbeatKinds
<1>7. ASSUME NEW w \in Workers, Timeout(w) \/ Shutdown(w) \/ Crash(w) \/ Restart(w)
                                  \/ HeartbeatError(w)
      PROVE  UNCHANGED jobs /\ \A v \in Workers : SameRun(v)
  BY <1>7, QuietStep
<1> QED
  BY <1>2, <1>3, <1>4, <1>5, <1>6, <1>7 DEF Next, WorkerStep

-----------------------------------------------------------------------------
(* The lease names the attempt.                                            *)

\* A row that is leased after a step was leased to the same worker, for the same
\* attempt, before it.
KeepsLease(j) == jobs'[j].state = "running" => /\ jobs[j].state = "running"
                                               /\ jobs'[j].owner = jobs[j].owner
                                               /\ jobs'[j].attempts = jobs[j].attempts

LEMMA SweepKeepsLease ==
    ASSUME Inv, NEW now, NEW j \in Jobs, jobs'[j] = AfterSweep(now)[j]
    PROVE  KeepsLease(j)
<1>1. CASE AfterSweep(now)[j] = jobs[j]
  BY <1>1 DEF KeepsLease
<1>2. CASE AfterSweep(now)[j] # jobs[j]
  <2>1. jobs'[j] = Released(jobs[j], "failed") /\ jobs[j] \in JobRow
    BY <1>2, SweptRow DEF Inv, RowsOK
  <2>2. jobs'[j].state = "failed"
    BY <2>1, ReleasedFields
  <2> QED
    BY <2>2 DEF KeepsLease
<1> QED
  BY <1>1, <1>2

LEMMA OthersKeepTheLease ==
    ASSUME Inv, [Next]_vars, NEW j \in Jobs,
           ~\E w \in Workers, now \in Nat : Takes(w, now, j)
    PROVE  KeepsLease(j)
<1>1. jobs \in [Jobs -> JobRow] /\ jobs[j] \in JobRow
  BY DEF Inv, RowsOK
<1>2. ASSUME NEW w \in Workers, NEW now \in Nat, NEW k \in Jobs, Takes(w, now, k)
      PROVE  KeepsLease(j)
  <2>1. k # j /\ jobs'[j] = AfterSweep(now)[j]
    BY <1>2 DEF Takes, AfterSweep
  <2> QED
    BY <2>1, SweepKeepsLease
<1>3. ASSUME NEW now \in Nat, SweepOf(now) PROVE KeepsLease(j)
  BY <1>3, SweepKeepsLease DEF SweepOf
<1>4. ASSUME NEW w \in Workers, Busy(w), Settles(w) PROVE KeepsLease(j)
  <2>0. PICK row : SettlesAs(w, runner[w].job, row)
    BY <1>4 DEF Settles
  <2>1. CASE j # runner[w].job
    BY <1>1, <2>0, <2>1 DEF SettlesAs, KeepsLease
  <2>2. CASE j = runner[w].job
    <3>1. jobs'[j] = row
      BY <1>1, <2>0, <2>2 DEF SettlesAs
    <3>2. row.state # "running"
      BY <1>1, <2>0, <2>2, ReleasedFields, RequeuedFields DEF SettlesAs
    <3> QED
      BY <3>1, <3>2 DEF KeepsLease
  <2> QED
    BY <2>1, <2>2
<1>5. ASSUME NEW w \in Workers, NEW t \in Nat, Renews(w, t) PROVE KeepsLease(j)
  BY <1>1, <1>5 DEF Renews, KeepsLease, JobRow
<1>6. ASSUME NEW k \in Jobs, Enqueue(k) \/ Cancel(k) PROVE KeepsLease(j)
  <2>1. CASE k # j
    BY <1>1, <1>6, <2>1 DEF Enqueue, Cancel, KeepsLease
  <2>2. CASE k = j
    <3>1. \/ jobs'[j] = [jobs[j] EXCEPT !.state = "queued", !.runAfter = clock]
          \/ jobs'[j] = Released(jobs[j], "cancelled")
      BY <1>1, <1>6, <2>2 DEF Enqueue, Cancel
    <3>2. jobs'[j].state # "running"
      BY <1>1, <3>1, ReleasedFields DEF JobRow
    <3> QED
      BY <3>2 DEF KeepsLease
  <2> QED
    BY <2>1, <2>2
<1>7. ASSUME UNCHANGED jobs PROVE KeepsLease(j)
  BY <1>7 DEF KeepsLease
<1> QED
  BY StepKinds, <1>2, <1>3, <1>4, <1>5, <1>6, <1>7

LEMMA TakenRow ==
    ASSUME Inv, NEW w \in Workers, NEW now, NEW j \in Jobs, Takes(w, now, j)
    PROVE  /\ jobs'[j] = Leased(jobs[j], w, now + LeaseMs)
           /\ jobs'[j].state = "running" /\ jobs'[j].owner = w
           /\ jobs'[j].attempts = jobs[j].attempts + 1
           /\ jobs'[j].leaseExpiresAt = now + LeaseMs
           /\ runner'[w].job = j /\ runner'[w].attempt = jobs[j].attempts + 1
           /\ \A k \in Jobs \ {j} : jobs'[k] = AfterSweep(now)[k]
           /\ \A v \in Workers \ {w} : runner'[v] = runner[v]
<1>1. jobs'[j] = Leased(jobs[j], w, now + LeaseMs) /\ jobs[j] \in JobRow
  BY DEF Takes, AfterSweep, Inv, RowsOK
<1>2. \A k \in Jobs \ {j} : jobs'[k] = AfterSweep(now)[k]
  BY DEF Takes, AfterSweep
<1>3. /\ \A v \in Workers \ {w} : runner'[v] = runner[v]
      /\ runner'[w].job = j /\ runner'[w].attempt = jobs[j].attempts + 1
  BY DEF Takes, Inv, RunnersOK, FreshRunner
<1> QED
  BY <1>1, <1>2, <1>3, LeasedFields

LEMMA LeaseNamesStep ==
    ASSUME Inv, LeaseNamesTheAttempt, [Next]_vars
    PROVE  LeaseNamesTheAttempt'
<1> SUFFICES ASSUME NEW w \in Workers, (Busy(w))',
                    jobs'[runner'[w].job].state = "running",
                    jobs'[runner'[w].job].owner = w
             PROVE  runner'[w].attempt = jobs'[runner'[w].job].attempts
  BY DEF LeaseNamesTheAttempt, Busy
<1> DEFINE j == runner'[w].job
<1>1. j \in Jobs
  BY NextInv DEF Inv, RunnersOK, Busy
<1>2. CASE \E v \in Workers, now \in Nat : Takes(v, now, j)
  <2>1. PICK v \in Workers, now \in Nat : Takes(v, now, j)
    BY <1>2
  <2>2. v = w /\ jobs'[j].attempts = jobs[j].attempts + 1
        /\ runner'[v].attempt = jobs[j].attempts + 1
    BY <1>1, <2>1, TakenRow
  <2> QED
    BY <2>2
<1>3. CASE ~\E v \in Workers, now \in Nat : Takes(v, now, j)
  <2>1. KeepsLease(j)
    BY <1>1, <1>3, OthersKeepTheLease
  <2>2. SameRun(w)
    <3>1. ASSUME NEW v \in Workers, NEW now \in Nat, NEW k \in Jobs, Takes(v, now, k)
          PROVE  SameRun(w)
      <4>1. v # w
        BY <1>3, <3>1, TakenRow
      <4> QED
        BY <3>1, <4>1, TakenRow DEF SameRun, Busy
    <3>2. ASSUME NEW now \in Nat, SweepOf(now) PROVE SameRun(w)
      BY <3>2 DEF SweepOf, SameRun, Busy
    <3> QED
      BY StepKinds, <3>1, <3>2
  <2> QED
    BY <2>1, <2>2 DEF KeepsLease, SameRun, LeaseNamesTheAttempt
<1> QED
  BY <1>2, <1>3

\* A handler left over from an earlier attempt never passes for the current one.
THEOREM LeaseIsTheAttempt == Spec => []LeaseNamesTheAttempt
<1>1. Init => LeaseNamesTheAttempt
  BY FreshRunnerType DEF Init, LeaseNamesTheAttempt, Busy
<1>2. Inv /\ LeaseNamesTheAttempt /\ [Next]_vars => LeaseNamesTheAttempt'
  BY LeaseNamesStep
<1> QED
  BY <1>1, <1>2, InvInvariant, PTL DEF Spec

-----------------------------------------------------------------------------
(* Who may end an attempt, and who may take it over.                       *)

LEMMA SettledStep ==
    ASSUME Inv, LeaseNamesTheAttempt, [Next]_vars
    PROVE  SettledByItsAttempt
<1> DEFINE Ended(j) ==
      \/ \E w \in Workers : /\ Busy(w) /\ ~(Busy(w))'
                            /\ runner[w].job = j
                            /\ runner[w].attempt = jobs[j].attempts
                            /\ runner[w].reason = "none" \/ jobs'[j].state # "succeeded"
      \/ /\ jobs'[j].state = "failed" /\ jobs[j].leaseExpiresAt <= clock
         /\ jobs[j].attempts = MaxAttempts[j]
      \/ jobs'[j].state = "cancelled"
<1> SUFFICES ASSUME NEW j \in Jobs, jobs[j].state = "running", jobs'[j].state # "running"
             PROVE  Ended(j)
  BY DEF SettledByItsAttempt
<1>1. jobs \in [Jobs -> JobRow] /\ jobs[j] \in JobRow /\ clock \in Nat
  BY DEF Inv, RowsOK
<1>2. ASSUME NEW now \in Nat, now <= clock, jobs'[j] = AfterSweep(now)[j] PROVE Ended(j)
  <2>1. AfterSweep(now)[j] # jobs[j]
    BY <1>2
  <2>2. /\ jobs'[j] = Released(jobs[j], "failed") /\ jobs[j].leaseExpiresAt <= now
        /\ jobs[j].attempts = MaxAttempts[j]
    BY <1>2, <2>1, SweptRow
  <2>3. jobs'[j].state = "failed" /\ jobs[j].leaseExpiresAt <= clock
    BY <1>1, <1>2, <2>2, ReleasedFields DEF JobRow
  <2> QED
    BY <2>2, <2>3
<1>3. ASSUME NEW w \in Workers, NEW now \in Nat, NEW k \in Jobs, Takes(w, now, k)
      PROVE  Ended(j)
  <2>1. k # j
    BY <1>3, TakenRow
  <2>2. jobs'[j] = AfterSweep(now)[j]
    BY <1>3, <2>1, TakenRow
  <2>3. now <= clock
    BY <1>3 DEF Takes
  <2> QED
    BY <1>2, <2>2, <2>3
<1>4. ASSUME NEW now \in Nat, SweepOf(now) PROVE Ended(j)
  BY <1>2, <1>4 DEF SweepOf
<1>5. ASSUME NEW w \in Workers, Busy(w), ~(Busy(w))', Settles(w) PROVE Ended(j)
  <2>1. PICK row : SettlesAs(w, runner[w].job, row)
    BY <1>5 DEF Settles
  <2>2. runner[w].job = j
    BY <1>1, <2>1 DEF SettlesAs
  <2>3. jobs[j].owner = w /\ jobs'[j] = row
    BY <1>1, <2>1, <2>2 DEF SettlesAs
  <2>4. runner[w].attempt = jobs[j].attempts
    BY <1>5, <2>2, <2>3 DEF LeaseNamesTheAttempt
  <2>5. runner[w].reason = "none" \/ jobs'[j].state # "succeeded"
    BY <1>1, <2>1, <2>2, <2>3, ReleasedFields, RequeuedFields DEF SettlesAs
  <2> QED
    BY <1>5, <2>2, <2>4, <2>5
<1>6. ASSUME NEW w \in Workers, NEW t \in Nat, Renews(w, t) PROVE Ended(j)
  BY <1>1, <1>6 DEF Renews, JobRow
<1>7. ASSUME NEW k \in Jobs, Enqueue(k) \/ Cancel(k) PROVE Ended(j)
  <2>1. k = j /\ jobs'[j] = Released(jobs[j], "cancelled")
    BY <1>1, <1>7 DEF Enqueue, Cancel
  <2> QED
    BY <1>1, <2>1, ReleasedFields
<1> QED
  BY StepKinds, <1>3, <1>4, <1>5, <1>6, <1>7

\* A leased job leaves that state only by the run of its current attempt, by the
\* sweep after its last lease has run out, or by a cancellation.
THEOREM SettlementIsFenced == Spec => FencedSettlement
<1>1. Inv /\ LeaseNamesTheAttempt /\ [Next]_vars => [SettledByItsAttempt]_vars
  BY SettledStep
<1> QED
  BY <1>1, InvInvariant, LeaseIsTheAttempt, PTL DEF Spec, FencedSettlement

TakenAfterItsLease ==
    \A j \in Jobs : jobs[j].state = "running" /\ jobs'[j].state = "running"
                      /\ jobs'[j].attempts # jobs[j].attempts => jobs[j].leaseExpiresAt <= clock

\* A job changes hands only after its lease has run out, however old the `now`
\* of the claiming transaction.
THEOREM TakeoverIsNotEarly == Spec => NoEarlyTakeover
<1>1. ASSUME Inv, [Next]_vars PROVE TakenAfterItsLease
  <2> SUFFICES ASSUME NEW j \in Jobs, jobs[j].state = "running", jobs'[j].state = "running",
                      jobs'[j].attempts # jobs[j].attempts
               PROVE  jobs[j].leaseExpiresAt <= clock
    BY DEF TakenAfterItsLease
  <2>1. PICK w \in Workers, now \in Nat : Takes(w, now, j)
    BY <1>1, OthersKeepTheLease DEF KeepsLease
  <2>2. jobs[j].leaseExpiresAt <= now /\ now <= clock
    BY <2>1 DEF Takes, Claimable, LeaseExpired
  <2> QED
    BY <1>1, <2>2 DEF Inv, RowsOK, JobRow
<1>2. Inv /\ [Next]_vars => [TakenAfterItsLease]_vars
  BY <1>1
<1> QED
  BY <1>2, InvInvariant, PTL DEF Spec, NoEarlyTakeover, TakenAfterItsLease

-----------------------------------------------------------------------------
(* A worker whose event loop is not blocked keeps its lease.               *)

\* At the next beat at least LeaseMs less one interval per missed beat is left of
\* the lease; one more missed beat and the next still finds it.
Unlost(w) ==
    LET row == jobs[runner[w].job]
    IN  \/ row.state = "cancelled"
        \/ /\ row.state = "running" /\ row.owner = w
           /\ runner[w].misses = 0 =>
                row.leaseExpiresAt + HeartbeatMs >= runner[w].beatAt + LeaseMs
           /\ runner[w].misses = 1 =>
                row.leaseExpiresAt + HeartbeatMs + HeartbeatMs >= runner[w].beatAt + LeaseMs

Beating(w) == Busy(w) => /\ clock <= runner[w].beatAt
                         /\ runner[w].misses <= 1 => Unlost(w)

BeatsInTime == \A w \in Prompt : Beating(w)

LEMMA PromptNow ==
    ASSUME NEW w \in Prompt, NEW now \in NowOf(w)
    PROVE  now = clock
BY DEF NowOf

\* While it lasts, such a lease is neither swept nor taken over.
LEMMA UnlostIsLeased ==
    ASSUME Inv, NEW w \in Prompt, Beating(w), Busy(w), runner[w].misses <= 1
    PROVE  \/ jobs[runner[w].job].state = "cancelled"
           \/ /\ HoldsLease(w, runner[w].job, clock)
              /\ jobs[runner[w].job].leaseExpiresAt > clock
<1>1. w \in Workers /\ runner[w] \in Runner /\ runner[w].job \in Jobs /\ clock \in Nat
  BY QueueAssumption DEF Inv, RunnersOK
<1>2. /\ jobs[runner[w].job].leaseExpiresAt \in Nat
      /\ runner[w].beatAt \in Nat /\ runner[w].misses \in 0..1
  <2>1. runner[w].beatAt \in Nat /\ runner[w].misses \in Nat
    BY <1>1 DEF Runner
  <2>2. jobs[runner[w].job] \in JobRow
    BY <1>1 DEF Inv, RowsOK
  <2> QED
    BY <2>1, <2>2 DEF JobRow
<1>3. clock <= runner[w].beatAt /\ Unlost(w)
  BY DEF Beating
<1>4. CASE jobs[runner[w].job].state # "cancelled"
  <2>1. /\ jobs[runner[w].job].state = "running" /\ jobs[runner[w].job].owner = w
        /\ jobs[runner[w].job].leaseExpiresAt + HeartbeatMs + HeartbeatMs
             >= runner[w].beatAt + LeaseMs
    BY <1>2, <1>3, <1>4, QueueAssumption DEF Unlost
  <2>2. jobs[runner[w].job].leaseExpiresAt > clock
    BY <1>1, <1>2, <1>3, <2>1, QueueAssumption, HeartbeatAssumption
  <2> QED
    BY <1>1, <1>2, <2>1, <2>2 DEF HoldsLease, LeaseExpired
<1> QED
  BY <1>4

\* Apart from its own heartbeat, only a cancellation disturbs the lease.
LEMMA LeaseStays ==
    ASSUME Inv, BeatsInTime, [Next]_vars, NEW w \in Prompt, Busy(w), (Busy(w))',
           runner[w].misses <= 1, ~Heartbeat(w)
    PROVE  \/ jobs'[runner[w].job].state = "cancelled"
           \/ jobs'[runner[w].job] = jobs[runner[w].job]
<1> DEFINE j == runner[w].job
<1> SUFFICES ASSUME jobs'[j] # jobs[j], jobs'[j].state # "cancelled"
             PROVE  FALSE
  OBVIOUS
<1>1. /\ w \in Workers /\ j \in Jobs /\ clock \in Nat
      /\ jobs \in [Jobs -> JobRow] /\ jobs[j] \in JobRow
  BY QueueAssumption DEF Inv, RunnersOK, RowsOK
<1>2. \/ jobs[j].state = "cancelled"
      \/ jobs[j].state = "running" /\ jobs[j].owner = w /\ jobs[j].leaseExpiresAt > clock
  BY UnlostIsLeased DEF BeatsInTime, HoldsLease
<1>3. ASSUME NEW now \in Nat, now <= clock, jobs'[j] = AfterSweep(now)[j] PROVE FALSE
  <2>1. jobs[j].state = "running" /\ jobs[j].leaseExpiresAt <= now
    BY <1>1, <1>3, SweptRow
  <2> QED
    BY <1>1, <1>2, <1>3, <2>1 DEF JobRow
<1>4. ASSUME NEW v \in Workers, NEW now \in Nat, NEW k \in Jobs, Takes(v, now, k) PROVE FALSE
  <2>1. now <= clock
    BY <1>4 DEF Takes
  <2>2. CASE k # j
    <3>1. jobs'[j] = AfterSweep(now)[j]
      BY <1>1, <1>4, <2>2, TakenRow
    <3> QED
      BY <1>3, <2>1, <3>1
  <2>3. CASE k = j
    <3>1. /\ jobs[j].state \in {"queued", "running"}
          /\ jobs[j].state = "running" => jobs[j].leaseExpiresAt <= now
      BY <1>4, <2>3 DEF Takes, Claimable, LeaseExpired
    <3> QED
      BY <1>1, <1>2, <2>1, <3>1 DEF JobRow
  <2> QED
    BY <2>2, <2>3
<1>5. ASSUME NEW now \in Nat, SweepOf(now) PROVE FALSE
  BY <1>3, <1>5 DEF SweepOf
<1>6. ASSUME NEW v \in Workers, ~(Busy(v))', Settles(v) PROVE FALSE
  <2>1. PICK row : SettlesAs(v, runner[v].job, row)
    BY <1>6 DEF Settles
  <2>2. runner[v].job = j
    BY <1>1, <2>1 DEF SettlesAs
  <2>3. v = w
    BY <1>2, <2>1, <2>2 DEF SettlesAs
  <2> QED
    BY <1>6, <2>3
<1>7. ASSUME NEW v \in Workers, NEW t \in Nat, Renews(v, t) PROVE FALSE
  <2>1. runner[v].job = j
    BY <1>1, <1>7 DEF Renews
  <2>2. v = w
    BY <1>2, <1>7, <2>1 DEF Renews
  <2> QED
    BY <1>7, <2>2 DEF Renews
<1>8. ASSUME NEW k \in Jobs, Enqueue(k) \/ Cancel(k) PROVE FALSE
  <2>1. k = j
    BY <1>1, <1>8 DEF Enqueue, Cancel
  <2>2. jobs'[j] = Released(jobs[j], "cancelled")
    BY <1>1, <1>2, <1>8, <2>1 DEF Enqueue, Cancel
  <2> QED
    BY <1>1, <2>2, ReleasedFields
<1> QED
  BY StepKinds, <1>4, <1>5, <1>6, <1>7, <1>8

\* Only a claim or a beat sets the timer of the next beat, and time does not
\* pass it.
LEMMA BeatStays ==
    ASSUME Inv, [Next]_vars, NEW w \in Prompt, (Busy(w))', ~Heartbeat(w), ~HeartbeatError(w),
           ~\E now \in Nat, j \in Jobs : Takes(w, now, j)
    PROVE  /\ Busy(w) /\ runner'[w].job = runner[w].job
           /\ runner'[w].beatAt = runner[w].beatAt /\ runner'[w].misses = runner[w].misses
           /\ clock <= runner[w].beatAt => clock' <= runner[w].beatAt
<1> DEFINE Same == /\ Busy(w) /\ runner'[w].job = runner[w].job
                   /\ runner'[w].beatAt = runner[w].beatAt
                   /\ runner'[w].misses = runner[w].misses
<1>1. /\ w \in Workers /\ RunnersOK /\ runner[w] \in Runner /\ clock \in Nat
      /\ runner \in [Workers -> Runner]
  BY QueueAssumption DEF Inv, RunnersOK
<1>2. runner'[w] = runner[w] => Same
  BY DEF Busy
<1>3. CASE \E j \in Jobs : Enqueue(j) \/ Cancel(j)
  BY <1>2, <1>3 DEF Enqueue, Cancel
<1>4. CASE UNCHANGED vars
  BY <1>2, <1>4 DEF vars
<1>5. CASE Tick
  BY <1>1, <1>2, <1>5 DEF Tick, BeatDue, Busy, Runner
<1>6. ASSUME NEW v \in Workers \ {w}, WorkerStep(v) PROVE UNCHANGED clock /\ Same
  <2>1. CASE ClaimNext(v)
    BY <1>1, <1>2, <1>6, <2>1 DEF ClaimNext
  <2>2. CASE Heartbeat(v) \/ HeartbeatError(v)
    BY <1>1, <1>2, <1>6, <2>2 DEF Heartbeat, HeartbeatError
  <2>3. CASE Timeout(v) \/ Shutdown(v) \/ Crash(v) \/ Restart(v)
    BY <1>1, <1>2, <1>6, <2>3 DEF Timeout, Shutdown, Crash, Restart
  <2>4. CASE HandlerResolves(v) \/ HandlerThrows(v)
    BY <1>1, <1>2, <1>6, <2>4 DEF HandlerResolves, HandlerThrows
  <2> QED
    BY <1>6, <2>1, <2>2, <2>3, <2>4 DEF WorkerStep
<1>7. ASSUME WorkerStep(w) PROVE UNCHANGED clock /\ Same
  <2>1. ASSUME ClaimNext(w) PROVE UNCHANGED clock /\ Same
    <3>1. PICK now \in Nat : SweepOf(now)
      BY <1>1, <2>1, ClaimKinds
    <3> QED
      BY <1>2, <3>1 DEF SweepOf
  <2>2. ASSUME Timeout(w) PROVE UNCHANGED clock /\ Same
    BY <1>1, <2>2 DEF Timeout, TimeoutDue, Busy, Runner
  <2>3. ASSUME Shutdown(w) PROVE UNCHANGED clock /\ Same
    <3>1. CASE Busy(w)
      BY <1>1, <2>3, <3>1 DEF Shutdown, Busy, Runner
    <3>2. CASE ~Busy(w)
      BY <1>1, <2>3, <3>2, StoppedRunnerType DEF Shutdown, Busy
    <3> QED
      BY <3>1, <3>2
  <2>4. ASSUME Crash(w) \/ Restart(w) PROVE FALSE
    BY <1>1, <2>4, StoppedRunnerType, FreshRunnerType DEF Crash, Restart, Busy
  <2>5. ASSUME HandlerResolves(w) \/ HandlerThrows(w) PROVE FALSE
    BY <1>1, <2>5, RunEnds
  <2> QED
    BY <1>7, <2>1, <2>2, <2>3, <2>4, <2>5 DEF WorkerStep
<1> QED
  BY <1>3, <1>4, <1>5, <1>6, <1>7 DEF Next

LEMMA HeartbeatBeats ==
    ASSUME Inv, NEW w \in Prompt, Beating(w), Heartbeat(w)
    PROVE  (Beating(w))'
<1> DEFINE j == runner[w].job
<1>1. /\ w \in Workers /\ runner[w] \in Runner /\ j \in Jobs /\ clock \in Nat
      /\ runner \in [Workers -> Runner] /\ jobs \in [Jobs -> JobRow] /\ jobs[j] \in JobRow
      /\ Busy(w) /\ UNCHANGED clock
  BY QueueAssumption DEF Inv, RunnersOK, RowsOK, Heartbeat, BeatDue
<1>2. PICK now \in NowOf(w) :
         IF HoldsLease(w, j, now)
         THEN /\ Renew(j, now)
              /\ runner' = [runner EXCEPT ![w].beatAt = clock + HeartbeatMs, ![w].misses = 0]
         ELSE /\ runner' = [runner EXCEPT ![w].beatAt = clock + HeartbeatMs,
                                          ![w].leaseLost = TRUE,
                                          ![w].reason = FirstReason(w, "lease_lost")]
              /\ UNCHANGED jobs
  BY DEF Heartbeat
<1>3. now = clock
  BY PromptNow
<1>4. runner'[w].job = j /\ runner'[w].beatAt = clock + HeartbeatMs
  BY <1>1, <1>2 DEF Runner
<1>5. clock' <= runner'[w].beatAt
  BY <1>1, <1>4, QueueAssumption
<1>6. CASE HoldsLease(w, j, clock)
  <2>1. jobs'[j] = [jobs[j] EXCEPT !.leaseExpiresAt = clock + LeaseMs]
    BY <1>1, <1>2, <1>3, <1>6 DEF Renew
  <2>2. /\ jobs'[j].state = "running" /\ jobs'[j].owner = w
        /\ jobs'[j].leaseExpiresAt = clock + LeaseMs
    BY <1>1, <1>6, <2>1 DEF HoldsLease, JobRow
  <2>3. runner'[w].misses = 0
    BY <1>1, <1>2, <1>3, <1>6 DEF Runner
  <2>4. jobs'[j].leaseExpiresAt + HeartbeatMs >= runner'[w].beatAt + LeaseMs
    BY <1>1, <1>4, <2>2, QueueAssumption
  <2>5. (Unlost(w))'
    BY <1>4, <2>2, <2>3, <2>4 DEF Unlost
  <2> QED
    BY <1>5, <2>5 DEF Beating
<1>7. CASE ~HoldsLease(w, j, clock)
  <2>1. UNCHANGED jobs /\ runner'[w].misses = runner[w].misses
    BY <1>1, <1>2, <1>3, <1>7 DEF Runner
  <2>2. runner[w].misses <= 1 => jobs[j].state = "cancelled"
    BY <1>1, <1>7, UnlostIsLeased
  <2>3. runner'[w].misses <= 1 => (Unlost(w))'
    BY <1>4, <2>1, <2>2 DEF Unlost
  <2> QED
    BY <1>5, <2>3 DEF Beating
<1> QED
  BY <1>6, <1>7

LEMMA HeartbeatErrorBeats ==
    ASSUME Inv, NEW w \in Prompt, Beating(w), HeartbeatError(w)
    PROVE  (Beating(w))'
<1> DEFINE j == runner[w].job
<1>1. /\ w \in Workers /\ runner[w] \in Runner /\ j \in Jobs /\ clock \in Nat
      /\ runner \in [Workers -> Runner] /\ jobs \in [Jobs -> JobRow] /\ jobs[j] \in JobRow
      /\ Busy(w) /\ UNCHANGED <<clock, jobs>>
  BY QueueAssumption DEF Inv, RunnersOK, RowsOK, HeartbeatError, BeatDue
<1>2. /\ runner'[w].job = j /\ runner'[w].beatAt = clock + HeartbeatMs
      /\ runner'[w].misses = AtMost(runner[w].misses + 1, 2)
  BY <1>1 DEF HeartbeatError, Runner
<1>3. clock = runner[w].beatAt
  BY <1>1 DEF HeartbeatError, BeatDue, Beating, Runner
<1>4. clock' <= runner'[w].beatAt
  BY <1>1, <1>2, QueueAssumption
<1>5. ASSUME runner'[w].misses <= 1 PROVE (Unlost(w))'
  <2>1. runner[w].misses = 0 /\ runner'[w].misses = 1
    BY <1>1, <1>2, <1>5 DEF AtMost, Runner
  <2>2. Unlost(w)
    BY <1>1, <2>1 DEF Beating
  <2>3. CASE jobs[j].state = "cancelled"
    BY <1>1, <1>2, <2>3 DEF Unlost
  <2>4. CASE jobs[j].state # "cancelled"
    <3>1. /\ jobs[j].state = "running" /\ jobs[j].owner = w
          /\ jobs[j].leaseExpiresAt + HeartbeatMs >= runner[w].beatAt + LeaseMs
      BY <2>1, <2>2, <2>4 DEF Unlost
    <3>2. jobs[j].leaseExpiresAt + HeartbeatMs + HeartbeatMs >= runner'[w].beatAt + LeaseMs
      BY <1>1, <1>2, <1>3, <3>1, QueueAssumption DEF JobRow, Runner
    <3> QED
      BY <1>1, <1>2, <2>1, <3>1, <3>2 DEF Unlost
  <2> QED
    BY <2>3, <2>4
<1> QED
  BY <1>4, <1>5 DEF Beating

LEMMA TakenBeats ==
    ASSUME Inv, NEW w \in Prompt, NEW now \in Nat, NEW j \in Jobs, Takes(w, now, j)
    PROVE  (Beating(w))'
<1>1. w \in Workers /\ clock \in Nat /\ UNCHANGED clock /\ now = clock
  BY QueueAssumption, PromptNow DEF Inv, Takes
<1>2. /\ jobs'[j].state = "running" /\ jobs'[j].owner = w
      /\ jobs'[j].leaseExpiresAt = clock + LeaseMs /\ runner'[w].job = j
  BY <1>1, TakenRow
<1>3. runner'[w].beatAt = clock + HeartbeatMs /\ runner'[w].misses = 0
  BY <1>1 DEF Takes, Inv, RunnersOK, FreshRunner
<1>4. /\ clock' <= runner'[w].beatAt
      /\ jobs'[j].leaseExpiresAt + HeartbeatMs >= runner'[w].beatAt + LeaseMs
  BY <1>1, <1>2, <1>3, QueueAssumption
<1>5. (Unlost(w))'
  BY <1>2, <1>3, <1>4 DEF Unlost
<1> QED
  BY <1>4, <1>5 DEF Beating

LEMMA BeatsStep ==
    ASSUME Inv, BeatsInTime, [Next]_vars
    PROVE  BeatsInTime'
<1> SUFFICES ASSUME NEW w \in Prompt, (Busy(w))' PROVE (Beating(w))'
  BY DEF BeatsInTime, Beating
<1>1. CASE Heartbeat(w)
  BY <1>1, HeartbeatBeats DEF BeatsInTime
<1>2. CASE HeartbeatError(w)
  BY <1>2, HeartbeatErrorBeats DEF BeatsInTime
<1>3. CASE \E now \in Nat, j \in Jobs : Takes(w, now, j)
  BY <1>3, TakenBeats
<1>4. CASE /\ ~Heartbeat(w) /\ ~HeartbeatError(w)
           /\ ~\E now \in Nat, j \in Jobs : Takes(w, now, j)
  <2>1. /\ Busy(w) /\ runner'[w].job = runner[w].job
        /\ runner'[w].beatAt = runner[w].beatAt /\ runner'[w].misses = runner[w].misses
        /\ clock <= runner[w].beatAt => clock' <= runner[w].beatAt
    BY <1>4, BeatStays
  <2>2. clock' <= runner'[w].beatAt
    BY <2>1 DEF BeatsInTime, Beating
  <2>3. ASSUME runner'[w].misses <= 1 PROVE (Unlost(w))'
    <3>1. Unlost(w)
      BY <2>1, <2>3 DEF BeatsInTime, Beating
    <3>2. \/ jobs'[runner[w].job].state = "cancelled"
          \/ jobs'[runner[w].job] = jobs[runner[w].job]
      BY <1>4, <2>1, <2>3, LeaseStays
    <3> QED
      BY <2>1, <3>1, <3>2 DEF Unlost
  <2> QED
    BY <2>2, <2>3 DEF Beating
<1> QED
  BY <1>1, <1>2, <1>3, <1>4

\* A worker that is not blocked survives one missed heartbeat in a row, for every
\* lease that fits two heartbeats.
THEOREM OneBeatMayMiss == Spec => []OneMissedBeatIsHarmless
<1>1. Init => BeatsInTime
  BY FreshRunnerType, QueueAssumption DEF Init, BeatsInTime, Beating, Busy
<1>2. Inv /\ BeatsInTime /\ [Next]_vars => BeatsInTime'
  BY BeatsStep
<1>3. Inv /\ BeatsInTime => OneMissedBeatIsHarmless
  BY UnlostIsLeased DEF BeatsInTime, OneMissedBeatIsHarmless
<1> QED
  BY <1>1, <1>2, <1>3, InvInvariant, PTL DEF Spec

-----------------------------------------------------------------------------
(* The queue implements the ledger.                                        *)

EntryOf(row) == [state |-> row.state, attempts |-> row.attempts, owner |-> row.owner]

LEMMA TableRows == /\ \A j \in Jobs : Table[j] = EntryOf(jobs[j])
                   /\ Table = [j \in Jobs |-> Table[j]]
BY DEF Table, EntryOf

LEMMA TableRowsNext == /\ \A j \in Jobs : Table'[j] = EntryOf(jobs'[j])
                       /\ Table' = [j \in Jobs |-> Table'[j]]
BY DEF Table, EntryOf

LEMMA ReleasedEntry ==
    ASSUME NEW row \in JobRow, NEW s
    PROVE  EntryOf(Released(row, s)) = Ledger!Released(EntryOf(row), s)
BY ReleasedFields, Zenon DEF EntryOf, Ledger!Released

LEMMA RequeuedEntry ==
    ASSUME NEW row \in JobRow, NEW t
    PROVE  EntryOf(Requeued(row, t)) = Ledger!Released(EntryOf(row), "queued")
BY RequeuedFields, Zenon DEF EntryOf, Ledger!Released

\* The entry after a sweep.
LEMMA SweptEntry ==
    ASSUME Inv, NEW now, NEW j \in Jobs, jobs'[j] = AfterSweep(now)[j]
    PROVE  Table'[j] = IF j \in Exhausted(now) THEN Ledger!Released(Table[j], "failed")
                       ELSE Table[j]
<1>1. jobs[j] \in JobRow
  BY DEF Inv, RowsOK
<1>2. CASE j \in Exhausted(now)
  <2>1. jobs'[j] = Released(jobs[j], "failed")
    BY <1>2 DEF AfterSweep
  <2> QED
    BY <1>1, <1>2, <2>1, ReleasedEntry, TableRows, TableRowsNext
<1>3. CASE j \notin Exhausted(now)
  BY <1>3, TableRows, TableRowsNext DEF AfterSweep
<1> QED
  BY <1>2, <1>3

LEMMA ExhaustedEntries == \A now : Exhausted(now) \in SUBSET Ledger!Exhaustible
BY TableRows DEF Exhausted, Ledger!Exhaustible, EntryOf

LEMMA SweepRefines ==
    ASSUME Inv, NEW now \in Nat, SweepOf(now)
    PROVE  Ledger!LedgerNext
<1>1. \A j \in Jobs : Table'[j] = IF j \in Exhausted(now)
                                  THEN Ledger!Released(Table[j], "failed") ELSE Table[j]
  BY SweptEntry DEF SweepOf
<1>2. Ledger!Sweep(Exhausted(now))
  BY <1>1, TableRowsNext DEF Ledger!Sweep
<1> QED
  BY <1>2, ExhaustedEntries DEF Ledger!LedgerNext

LEMMA TakeRefines ==
    ASSUME Inv, NEW w \in Workers, NEW now \in Nat, NEW j \in Jobs, Takes(w, now, j)
    PROVE  Ledger!LedgerNext
<1>1. jobs[j] \in JobRow /\ RowOK(j, jobs[j])
  BY DEF Inv, RowsOK
<1>2. /\ jobs[j].state \in {"queued", "running"} /\ jobs[j].attempts < MaxAttempts[j]
  BY DEF Takes, Claimable
<1>3. j \in Ledger!Startable /\ j \notin Exhausted(now)
  BY <1>1, <1>2, TableRows, MaxAttemptsNat DEF Ledger!Startable, EntryOf, Exhausted, JobRow
<1>4. Table'[j] = [state |-> "running", attempts |-> Table[j].attempts + 1, owner |-> w]
  BY TakenRow, TableRows, TableRowsNext DEF EntryOf
<1>5. \A k \in Jobs \ {j} : Table'[k] = IF k \in Exhausted(now)
                                        THEN Ledger!Released(Table[k], "failed") ELSE Table[k]
  BY TakenRow, SweptEntry
<1>6. Ledger!Start(w, Exhausted(now), j)
  BY <1>3, <1>4, <1>5, TableRowsNext DEF Ledger!Start
<1> QED
  BY <1>3, <1>6, ExhaustedEntries DEF Ledger!LedgerNext

\* A step that touches one row touches one entry.
LEMMA OneEntry ==
    ASSUME Inv, NEW j \in Jobs, NEW row, jobs' = [jobs EXCEPT ![j] = row]
    PROVE  Table' = [Table EXCEPT ![j] = EntryOf(row)]
<1>1. jobs \in [Jobs -> JobRow]
  BY DEF Inv, RowsOK
<1>2. \A k \in Jobs : jobs'[k] = IF k = j THEN row ELSE jobs[k]
  BY <1>1
<1> QED
  BY <1>2, TableRows, TableRowsNext

LEMMA SettleRefines ==
    ASSUME Inv, NEW w \in Workers, Busy(w), Settles(w)
    PROVE  Ledger!LedgerNext
<1> DEFINE j == runner[w].job
<1>1. j \in Jobs /\ jobs[j] \in JobRow
  BY DEF Inv, RunnersOK, RowsOK
<1>2. PICK row : SettlesAs(w, j, row)
  BY DEF Settles
<1>3. Ledger!Owns(w, j) /\ Table[j] = EntryOf(jobs[j])
  BY <1>1, <1>2, TableRows DEF SettlesAs, Ledger!Owns, EntryOf
<1>4. Table' = [Table EXCEPT ![j] = EntryOf(row)]
  BY <1>1, <1>2, OneEntry DEF SettlesAs
<1>5. CASE row = Released(jobs[j], "succeeded")
  <2>1. Ledger!Complete(w, j)
    BY <1>1, <1>3, <1>4, <1>5, ReleasedEntry DEF Ledger!Complete
  <2> QED
    BY <1>1, <2>1 DEF Ledger!LedgerNext
<1>6. CASE row = Released(jobs[j], "failed")
  <2>1. Ledger!Reject(w, j)
    BY <1>1, <1>3, <1>4, <1>6, ReleasedEntry DEF Ledger!Reject
  <2> QED
    BY <1>1, <2>1 DEF Ledger!LedgerNext
<1>7. ASSUME jobs[j].attempts < MaxAttempts[j], NEW t, row = Requeued(jobs[j], t)
      PROVE  Ledger!LedgerNext
  <2>1. Table[j].attempts < MaxAttempts[j]
    BY <1>3, <1>7 DEF EntryOf
  <2>2. Ledger!GiveBack(w, j)
    BY <1>1, <1>3, <1>4, <1>7, <2>1, RequeuedEntry DEF Ledger!GiveBack
  <2> QED
    BY <1>1, <2>2 DEF Ledger!LedgerNext
<1> QED
  BY <1>2, <1>5, <1>6, <1>7 DEF SettlesAs

LEMMA EnqueueRefines ==
    ASSUME Inv, NEW j \in Jobs, Enqueue(j)
    PROVE  Ledger!LedgerNext
<1>1. jobs[j] \in JobRow /\ jobs[j].state = "absent"
  BY DEF Inv, RowsOK, Enqueue
<1> DEFINE row == [jobs[j] EXCEPT !.state = "queued", !.runAfter = clock]
<1>2. Table' = [Table EXCEPT ![j] = EntryOf(row)]
  BY OneEntry DEF Enqueue
<1>3. EntryOf(row) = [EntryOf(jobs[j]) EXCEPT !.state = "queued"]
  BY <1>1 DEF EntryOf, JobRow
<1>4. Table[j].state = "absent" /\ Table[j] = EntryOf(jobs[j])
  BY <1>1, TableRows DEF EntryOf
<1>5. Table' = [Table EXCEPT ![j] = [Table[j] EXCEPT !.state = "queued"]]
  BY <1>2, <1>3, <1>4
<1>6. Ledger!Add(j)
  BY <1>4, <1>5, Zenon DEF Ledger!Add
<1> QED
  BY <1>6 DEF Ledger!LedgerNext

LEMMA CancelRefines ==
    ASSUME Inv, NEW j \in Jobs, Cancel(j)
    PROVE  Ledger!LedgerNext
<1>1. jobs[j] \in JobRow /\ jobs[j].state \in {"queued", "running"}
  BY DEF Inv, RowsOK, Cancel
<1>2. Table' = [Table EXCEPT ![j] = Ledger!Released(Table[j], "cancelled")]
  <2>1. jobs' = [jobs EXCEPT ![j] = Released(jobs[j], "cancelled")]
    BY DEF Cancel
  <2>2. Table' = [Table EXCEPT ![j] = EntryOf(Released(jobs[j], "cancelled"))]
    BY <2>1, OneEntry
  <2>3. EntryOf(Released(jobs[j], "cancelled")) = Ledger!Released(Table[j], "cancelled")
    BY <1>1, ReleasedEntry, TableRows
  <2> QED
    BY <2>2, <2>3
<1>3. {j} \in SUBSET Ledger!Withdrawable
  BY <1>1, TableRows DEF Ledger!Withdrawable, EntryOf
<1>4. Ledger!Withdraw({j})
  BY <1>2, TableRows DEF Ledger!Withdraw
<1> QED
  BY <1>3, <1>4 DEF Ledger!LedgerNext

LEMMA RenewRefines ==
    ASSUME Inv, NEW w \in Workers, NEW t \in Nat, Renews(w, t)
    PROVE  UNCHANGED Table
<1> DEFINE j == runner[w].job
<1>1. j \in Jobs /\ jobs[j] \in JobRow
  BY DEF Inv, RunnersOK, RowsOK, Renews
<1>2. jobs' = [jobs EXCEPT ![j] = [jobs[j] EXCEPT !.leaseExpiresAt = t]]
  BY DEF Renews
<1>3. EntryOf([jobs[j] EXCEPT !.leaseExpiresAt = t]) = EntryOf(jobs[j])
  BY <1>1 DEF EntryOf, JobRow
<1>4. Table' = [Table EXCEPT ![j] = EntryOf(jobs[j])]
  BY <1>1, <1>2, <1>3, OneEntry
<1> QED
  BY <1>1, <1>4, TableRows

LEMMA StepRefines ==
    ASSUME Inv, [Next]_vars
    PROVE  [Ledger!LedgerNext]_Table
<1>1. UNCHANGED jobs => UNCHANGED Table
  BY DEF Table
<1> QED
  BY <1>1, StepKinds, TakeRefines, SweepRefines, SettleRefines, RenewRefines, EnqueueRefines,
     CancelRefines

\* Whatever the stalls, lost leases, crashes and retries, the queue is a ledger:
\* one owner per running job, final settlements, at most MaxAttempts[j] starts.
THEOREM KeepsTheLedger == Spec => ImplementsLedger
<1>1. Init => Ledger!LedgerInit
  BY DEF Init, Table, AbsentJob, Ledger!LedgerInit
<1>2. Inv /\ [Next]_vars => [Ledger!LedgerNext]_Table
  BY StepRefines
<1> QED
  BY <1>1, <1>2, InvInvariant, PTL DEF Spec, ImplementsLedger, Ledger!LedgerSpec

-----------------------------------------------------------------------------
(* Under healthy timing every job is settled in time.                      *)

\* The attempts started so far, and the time they may have taken: the latest
\* moment at which an unsettled job may still be waiting for anything.
Started == {a \in Attempts : a[2] <= jobs[a[1]].attempts}
Reached == 1 + AttemptMs * Cardinality(Started)

RowInTime(j) == jobs[j].runAfter <= Reached /\ jobs[j].leaseExpiresAt <= Reached

RunInTime(w) == Busy(w) => /\ clock <= runner[w].deadline + GraceMs
                           /\ runner[w].deadline + GraceMs + Longest <= Reached

Unsettled == \E j \in Jobs : jobs[j].state \notin Settled

InTime ==
    /\ Unsettled => clock <= Reached
    /\ \A j \in Jobs : RowInTime(j)
    /\ \A w \in Workers : RunInTime(w)
    /\ \A w \in Reliable : runner[w].phase # "stopped" /\ ~runner[w].shutdown

LEMMA AttemptsAreFinite == IsFiniteSet(Attempts) /\ Cardinality(Attempts) \in Nat
<1> DEFINE Of == [j \in Jobs |-> {j} \X (1..MaxAttempts[j])]
           Each == {Of[j] : j \in Jobs}
<1>1. Of \in Surjection(Jobs, Each)
  BY Zenon DEF Surjection
<1>2. IsFiniteSet(Each)
  BY <1>1, FS_Surjection, DeadlineAssumption
<1>3. ASSUME NEW T \in Each PROVE IsFiniteSet(T)
  <2>1. PICK j \in Jobs : T = {j} \X (1..MaxAttempts[j])
    OBVIOUS
  <2>2. 1 \in Int /\ MaxAttempts[j] \in Int
    BY <2>1, MaxAttemptsNat
  <2>3. IsFiniteSet(1..MaxAttempts[j])
    BY <2>2, FS_Interval
  <2>4. IsFiniteSet({j})
    BY FS_Singleton
  <2> QED
    BY <2>1, <2>3, <2>4, FS_Product
<1>4. Attempts = UNION Each
  BY DEF Attempts
<1>5. IsFiniteSet(Attempts)
  BY <1>2, <1>3, <1>4, FS_UNION
<1> QED
  BY <1>5, FS_CardinalityType

LEMMA AttemptMembers ==
    ASSUME NEW j \in Jobs, NEW n \in 1..MaxAttempts[j]
    PROVE  <<j, n>> \in Attempts
BY DEF Attempts

LEMMA DurationsNat == AttemptMs \in Nat /\ Longest \in Nat /\ GraceMs \in Nat
                      /\ LeaseMs <= Longest /\ RetryMaxMs <= Longest
                      /\ AttemptMs = TimeoutMs + GraceMs + Longest
BY QueueAssumption, DeadlineAssumption DEF AttemptMs, Longest

LEMMA Products ==
    \A m \in Nat, n \in Nat, k \in Nat :
        /\ k * m \in Nat
        /\ m <= n => k * m <= k * n
        /\ m < n => k * m + k <= k * n
<1> SUFFICES ASSUME NEW m \in Nat, NEW n \in Nat, NEW k \in Nat
             PROVE  /\ k * m \in Nat
                    /\ m <= n => k * m <= k * n
                    /\ m < n => k * m + k <= k * n
  OBVIOUS
<1>1. k * m \in Nat
  OBVIOUS
<1>2. ASSUME m <= n PROVE k * m <= k * n
  <2>1. PICK d \in Nat : n = m + d
    <3>1. n - m \in Nat /\ n = m + (n - m)
      BY <1>2
    <3> QED
      BY <3>1
  <2>2. k * n = k * m + k * d /\ k * d \in Nat
    BY <2>1
  <2> QED
    BY <1>1, <2>2
<1>3. ASSUME m < n PROVE k * m + k <= k * n
  <2>1. PICK d \in Nat : n = m + 1 + d
    <3>1. n - m - 1 \in Nat /\ n = m + 1 + (n - m - 1)
      BY <1>3
    <3> QED
      BY <3>1
  <2>2. k * n = k * m + k + k * d /\ k * d \in Nat
    BY <2>1
  <2> QED
    BY <1>1, <2>2
<1> QED
  BY <1>1, <1>2, <1>3

\* The moment reached is a time, and at most SettlementBound after the start.
LEMMA ReachedIsBounded == Reached \in Nat /\ Reached >= 1 /\ Reached <= 1 + SettlementBound
<1>1. Started \in SUBSET Attempts
  BY DEF Started
<1>2. IsFiniteSet(Started) /\ Cardinality(Started) <= Cardinality(Attempts)
  BY <1>1, AttemptsAreFinite, FS_Subset
<1>3. Cardinality(Started) \in Nat /\ Cardinality(Attempts) \in Nat
  BY <1>2, AttemptsAreFinite, FS_CardinalityType
<1>4. /\ AttemptMs * Cardinality(Started) \in Nat
      /\ AttemptMs * Cardinality(Started) <= AttemptMs * Cardinality(Attempts)
      /\ AttemptMs * Cardinality(Attempts) \in Nat
  BY <1>2, <1>3, DurationsNat, Products
<1> DEFINE some == AttemptMs * Cardinality(Started)
           all == AttemptMs * Cardinality(Attempts)
<1>5. some \in Nat /\ all \in Nat /\ some <= all
  BY <1>4
<1>6. Reached = 1 + some /\ SettlementBound = all
  BY DEF Reached, SettlementBound
<1> HIDE DEF some, all
<1> QED
  BY <1>5, <1>6

\* Attempts are never taken back.
LEMMA AttemptsGrow ==
    ASSUME Inv, [Next]_vars
    PROVE  \A j \in Jobs : jobs'[j].attempts >= jobs[j].attempts
<1> SUFFICES ASSUME NEW j \in Jobs PROVE jobs'[j].attempts >= jobs[j].attempts
  OBVIOUS
<1>1. jobs \in [Jobs -> JobRow] /\ jobs[j] \in JobRow /\ jobs[j].attempts \in Nat
  BY DEF Inv, RowsOK, JobRow
<1>2. ASSUME NEW now, jobs'[j] = AfterSweep(now)[j] PROVE jobs'[j].attempts = jobs[j].attempts
  BY <1>1, <1>2, ReleasedFields DEF AfterSweep
<1>3. ASSUME NEW w \in Workers, NEW now \in Nat, NEW k \in Jobs, Takes(w, now, k)
      PROVE  jobs'[j].attempts >= jobs[j].attempts
  <2>1. CASE k = j
    BY <1>1, <1>3, <2>1, TakenRow
  <2>2. CASE k # j
    BY <1>1, <1>2, <1>3, <2>2, TakenRow
  <2> QED
    BY <2>1, <2>2
<1>4. ASSUME NEW now \in Nat, SweepOf(now) PROVE jobs'[j].attempts >= jobs[j].attempts
  BY <1>1, <1>2, <1>4 DEF SweepOf
<1>5. ASSUME NEW w \in Workers, Settles(w) PROVE jobs'[j].attempts >= jobs[j].attempts
  <2>1. PICK row : SettlesAs(w, runner[w].job, row)
    BY <1>5 DEF Settles
  <2>2. CASE j # runner[w].job
    BY <1>1, <2>1, <2>2 DEF SettlesAs
  <2>3. CASE j = runner[w].job
    <3>1. jobs'[j] = row /\ row.attempts = jobs[j].attempts
      BY <1>1, <2>1, <2>3, ReleasedFields, RequeuedFields DEF SettlesAs
    <3> QED
      BY <1>1, <3>1
  <2> QED
    BY <2>2, <2>3
<1>6. ASSUME NEW w \in Workers, NEW t \in Nat, Renews(w, t)
      PROVE  jobs'[j].attempts >= jobs[j].attempts
  <2>1. jobs'[j].attempts = jobs[j].attempts
    BY <1>1, <1>6 DEF Renews, JobRow
  <2> QED
    BY <1>1, <2>1
<1>7. ASSUME NEW k \in Jobs, Enqueue(k) \/ Cancel(k)
      PROVE  jobs'[j].attempts >= jobs[j].attempts
  <2>1. jobs'[j].attempts = jobs[j].attempts
    <3>1. \/ jobs'[j] = jobs[j]
          \/ jobs'[j] = [jobs[j] EXCEPT !.state = "queued", !.runAfter = clock]
          \/ jobs'[j] = Released(jobs[j], "cancelled")
      BY <1>1, <1>7 DEF Enqueue, Cancel
    <3>2. Released(jobs[j], "cancelled").attempts = jobs[j].attempts
      BY <1>1, ReleasedFields
    <3>3. [jobs[j] EXCEPT !.state = "queued", !.runAfter = clock].attempts = jobs[j].attempts
      BY <1>1 DEF JobRow
    <3> QED
      BY <3>1, <3>2, <3>3, Zenon
  <2> QED
    BY <1>1, <2>1
<1>8. ASSUME UNCHANGED jobs PROVE jobs'[j].attempts >= jobs[j].attempts
  BY <1>1, <1>8
<1> QED
  BY StepKinds, <1>3, <1>4, <1>5, <1>6, <1>7, <1>8

\* The moment reached never goes back, and a claim puts it off by an attempt.
LEMMA ReachedGrows ==
    ASSUME Inv, [Next]_vars
    PROVE  /\ Reached \in Nat /\ Reached' \in Nat /\ Reached <= Reached'
           /\ \A w \in Workers, now \in Nat, j \in Jobs :
                Takes(w, now, j) => Reached + AttemptMs <= Reached'
<1>1. \A j \in Jobs : jobs[j].attempts \in Nat /\ jobs'[j].attempts \in Nat
  BY NextInv DEF Inv, RowsOK, JobRow
<1>2. \A a \in Attempts : a[1] \in Jobs /\ a[2] \in Nat
  BY MaxAttemptsNat DEF Attempts
<1>3. Started \in SUBSET Started' /\ Started' \in SUBSET Attempts
  BY <1>1, <1>2, AttemptsGrow DEF Started
<1>4. IsFiniteSet(Started')
  BY <1>3, AttemptsAreFinite, FS_Subset
<1>5. /\ IsFiniteSet(Started) /\ Cardinality(Started) <= Cardinality(Started')
      /\ Cardinality(Started) = Cardinality(Started') => Started = Started'
  BY <1>3, <1>4, FS_Subset
<1>6. Cardinality(Started) \in Nat /\ Cardinality(Started') \in Nat
  BY <1>4, <1>5, FS_CardinalityType
<1> DEFINE now == AttemptMs * Cardinality(Started)
           then == AttemptMs * Cardinality(Started')
<1>7. now \in Nat /\ then \in Nat /\ now <= then
  BY <1>5, <1>6, DurationsNat, Products
<1>8. Cardinality(Started) < Cardinality(Started') => now + AttemptMs <= then
  BY <1>6, DurationsNat, Products
<1>9. Reached = 1 + now /\ Reached' = 1 + then
  BY DEF Reached
<1>10. ASSUME NEW w \in Workers, NEW t \in Nat, NEW j \in Jobs, Takes(w, t, j)
       PROVE  Cardinality(Started) < Cardinality(Started')
  <2>0. jobs[j].attempts < MaxAttempts[j]
    BY <1>10 DEF Takes, Claimable
  <2>1. jobs'[j].attempts = jobs[j].attempts + 1 /\ jobs[j].attempts < MaxAttempts[j]
    BY <1>10, <2>0, TakenRow
  <2>2. jobs[j].attempts + 1 \in 1..MaxAttempts[j]
    BY <1>1, <2>1, MaxAttemptsNat
  <2> DEFINE new == <<j, jobs[j].attempts + 1>>
  <2>3. new \in Attempts
    BY <2>2, AttemptMembers
  <2>4. new \in Started' /\ new \notin Started
    BY <1>1, <2>1, <2>3 DEF Started
  <2>5. Started # Started'
    BY <2>4
  <2> QED
    BY <1>5, <1>6, <2>5
<1> HIDE DEF now, then
<1>11. Reached \in Nat /\ Reached' \in Nat /\ Reached <= Reached'
  BY <1>7, <1>9
<1>12. Cardinality(Started) < Cardinality(Started') => Reached + AttemptMs <= Reached'
  BY <1>7, <1>8, <1>9, DurationsNat
<1> QED
  BY <1>10, <1>11, <1>12

LEMMA DeadlineStep == DeadlineNext => Next
BY DeadlineAssumption, QueueAssumption
   DEF DeadlineNext, Next, HealthyStep, WorkerStep, UrgentTick

\* A settled job stays settled.
LEMMA SettledStays ==
    ASSUME Inv, [Next]_vars, NEW j \in Jobs, jobs[j].state \in Settled
    PROVE  jobs'[j].state \in Settled
<1>1. jobs \in [Jobs -> JobRow] /\ jobs[j] \in JobRow
  BY DEF Inv, RowsOK
<1>2. jobs[j].state \notin {"absent", "queued", "running"}
  BY DEF Settled
<1>3. ASSUME NEW now, jobs'[j] = AfterSweep(now)[j] PROVE jobs'[j].state \in Settled
  BY <1>2, <1>3, SweptRow
<1>4. ASSUME NEW w \in Workers, NEW now \in Nat, NEW k \in Jobs, Takes(w, now, k)
      PROVE  jobs'[j].state \in Settled
  <2>1. k # j
    BY <1>2, <1>4 DEF Takes, Claimable
  <2> QED
    BY <1>3, <1>4, <2>1, TakenRow
<1>5. ASSUME NEW now \in Nat, SweepOf(now) PROVE jobs'[j].state \in Settled
  BY <1>3, <1>5 DEF SweepOf
<1>6. ASSUME NEW w \in Workers, Settles(w) PROVE jobs'[j] = jobs[j]
  BY <1>1, <1>2, <1>6 DEF Settles, SettlesAs
<1>7. ASSUME NEW w \in Workers, NEW t \in Nat, Renews(w, t) PROVE jobs'[j] = jobs[j]
  BY <1>1, <1>2, <1>7 DEF Renews
<1>8. ASSUME NEW k \in Jobs, Enqueue(k) \/ Cancel(k) PROVE jobs'[j] = jobs[j]
  BY <1>1, <1>2, <1>8 DEF Enqueue, Cancel
<1> QED
  BY StepKinds, <1>3, <1>4, <1>5, <1>6, <1>7, <1>8

\* While a job is unsettled a reliable worker either runs a handler or waits for
\* the job's backoff or lease: no tick passes the moment reached.
LEMMA TickInTime ==
    ASSUME Inv, InTime, UrgentTick, Unsettled
    PROVE  clock + 1 <= Reached
<1>1. PICK j \in Jobs : jobs[j].state \notin Settled
  BY DEF Unsettled
<1>2. PICK w \in Reliable : j \in Accepts[w]
  BY DeadlineAssumption
<1>3. /\ w \in Workers /\ runner[w] \in Runner /\ clock \in Nat /\ Reached \in Nat
      /\ jobs[j] \in JobRow /\ RowOK(j, jobs[j])
  BY QueueAssumption, DeadlineAssumption, ReachedIsBounded DEF Inv, RunnersOK, RowsOK
<1>4. jobs[j].state \in {"queued", "running"}
  BY <1>1, <1>3 DEF UrgentTick, JobRow, JobStates
<1>5. CASE Busy(w)
  <2>1. ~(runner[w].deadline + GraceMs <= clock)
    BY <1>3, <1>5 DEF UrgentTick, HandlerOverdue
  <2>2. runner[w].deadline + GraceMs + Longest <= Reached
    BY <1>3, <1>5 DEF InTime, RunInTime
  <2>3. runner[w].deadline \in Nat
    BY <1>3 DEF Runner
  <2> QED
    BY <1>3, <2>1, <2>2, <2>3, DurationsNat
<1>6. CASE ~Busy(w)
  <2>1. runner[w].phase = "idle"
    BY <1>3, <1>6 DEF InTime, Busy, Runner
  <2>2. j \notin Claimable(w, clock) /\ j \notin Exhausted(clock)
    BY <1>3, <2>1 DEF UrgentTick, PollDue
  <2>3. jobs[j].attempts \in Nat /\ MaxAttempts[j] \in Nat
    BY <1>3, MaxAttemptsNat DEF JobRow
  <2>4. jobs[j].runAfter \in Nat /\ jobs[j].leaseExpiresAt \in Nat
    BY <1>3 DEF JobRow
  <2>5. jobs[j].runAfter <= Reached /\ jobs[j].leaseExpiresAt <= Reached
    BY DEF InTime, RowInTime
  <2>6. CASE jobs[j].state = "queued"
    <3>1. jobs[j].attempts < MaxAttempts[j]
      BY <1>3, <2>6 DEF RowOK
    <3>2. ~(jobs[j].runAfter <= clock)
      BY <1>2, <2>2, <2>6, <3>1 DEF Claimable
    <3> QED
      BY <1>3, <2>4, <2>5, <3>2
  <2>7. CASE jobs[j].state = "running"
    <3>1. ~(jobs[j].leaseExpiresAt <= clock)
      BY <1>2, <2>2, <2>3, <2>7 DEF Claimable, Exhausted, LeaseExpired
    <3> QED
      BY <1>3, <2>4, <2>5, <3>1
  <2> QED
    BY <1>4, <2>6, <2>7
<1> QED
  BY <1>5, <1>6

LEMMA ClockMoves ==
    ASSUME [DeadlineNext]_vars
    PROVE  (UNCHANGED clock) \/ (UrgentTick /\ clock' = clock + 1)
BY DEF DeadlineNext, HealthyStep, ClaimNext, Heartbeat, HeartbeatError, Timeout, HandlerResolves,
       HandlerThrows, Shutdown, Crash, Restart, Enqueue, Cancel, UrgentTick, Tick, vars

LEMMA ClockInTime ==
    ASSUME Inv, InTime, [DeadlineNext]_vars, Unsettled'
    PROVE  clock' <= Reached'
<1>1. [Next]_vars
  BY DeadlineStep
<1>2. Unsettled
  BY <1>1, SettledStays DEF Unsettled
<1>3. clock \in Nat /\ clock <= Reached
  BY <1>2 DEF Inv, InTime
<1>4. Reached \in Nat /\ Reached' \in Nat /\ Reached <= Reached'
  BY <1>1, ReachedGrows
<1>5. ASSUME UrgentTick, clock' = clock + 1 PROVE clock' <= Reached
  BY <1>2, <1>5, TickInTime
<1>6. clock' <= Reached /\ clock' \in Nat
  BY <1>3, <1>5, ClockMoves
<1> QED
  BY <1>4, <1>6

LEMMA RowTimes ==
    ASSUME NEW row \in JobRow, NEW s, NEW w, NEW t
    PROVE  /\ Released(row, s).runAfter = row.runAfter
           /\ Released(row, s).leaseExpiresAt = 0
           /\ Requeued(row, t).runAfter = t
           /\ Requeued(row, t).leaseExpiresAt = 0
           /\ Leased(row, w, t).runAfter = row.runAfter
           /\ Leased(row, w, t).leaseExpiresAt = t
BY DEF Released, Requeued, Leased, JobRow

\* A run under way leaves room for a lease or a backoff.
LEMMA RoomOfARun ==
    ASSUME Inv, InTime, NEW w \in Workers, Busy(w)
    PROVE  clock + LeaseMs <= Reached /\ clock + RetryMaxMs <= Reached
<1>1. runner[w].deadline \in Nat /\ clock \in Nat /\ Reached \in Nat
  BY ReachedIsBounded DEF Inv, RunnersOK, Runner
<1>2. /\ clock <= runner[w].deadline + GraceMs
      /\ runner[w].deadline + GraceMs + Longest <= Reached
  BY DEF InTime, RunInTime
<1> QED
  BY <1>1, <1>2, DurationsNat, QueueAssumption

LEMMA RowsInTime ==
    ASSUME Inv, InTime, [Next]_vars, NEW j \in Jobs
    PROVE  (RowInTime(j))'
<1> DEFINE Timely == jobs'[j].runAfter <= Reached /\ jobs'[j].leaseExpiresAt <= Reached
<1>1. jobs \in [Jobs -> JobRow] /\ jobs[j] \in JobRow /\ clock \in Nat
  BY DEF Inv, RowsOK
<1>2. jobs[j].runAfter \in Nat /\ jobs[j].leaseExpiresAt \in Nat
  BY <1>1 DEF JobRow
<1>3. jobs'[j].runAfter \in Nat /\ jobs'[j].leaseExpiresAt \in Nat
  BY NextInv DEF Inv, RowsOK, JobRow
<1>4. Reached \in Nat /\ Reached' \in Nat /\ Reached <= Reached'
  BY ReachedGrows
<1>5. jobs[j].runAfter <= Reached /\ jobs[j].leaseExpiresAt <= Reached
  BY DEF InTime, RowInTime
<1>6. ASSUME NEW s, jobs'[j] = Released(jobs[j], s) PROVE Timely
  BY <1>1, <1>4, <1>5, <1>6, RowTimes
<1>7. ASSUME NEW now, jobs'[j] = AfterSweep(now)[j] PROVE Timely
  BY <1>5, <1>6, <1>7 DEF AfterSweep
<1>8. Timely => (RowInTime(j))'
  BY <1>3, <1>4 DEF RowInTime
<1>9. ASSUME NEW w \in Workers, NEW now \in Nat, NEW k \in Jobs, Takes(w, now, k)
      PROVE  (RowInTime(j))'
  <2>1. CASE k # j
    BY <1>7, <1>8, <1>9, <2>1, TakenRow
  <2>2. CASE k = j
    <3>1. jobs[j].state \in {"queued", "running"} /\ now <= clock
      BY <1>9, <2>2 DEF Takes, Claimable
    <3>2. clock <= Reached
      BY <3>1 DEF InTime, Unsettled, Settled
    <3>3. Reached + AttemptMs <= Reached'
      BY <1>9, ReachedGrows
    <3>4. jobs'[j] = Leased(jobs[j], w, now + LeaseMs)
      BY <1>9, <2>2, TakenRow
    <3>5. jobs'[j].runAfter = jobs[j].runAfter /\ jobs'[j].leaseExpiresAt = now + LeaseMs
      BY <1>1, <3>4, RowTimes
    <3>6. jobs'[j].leaseExpiresAt <= Reached'
      BY <1>1, <1>4, <3>1, <3>2, <3>3, <3>5, DurationsNat, QueueAssumption
    <3>7. jobs'[j].runAfter <= Reached'
      BY <1>2, <1>4, <1>5, <3>5
    <3> QED
      BY <3>6, <3>7 DEF RowInTime
  <2> QED
    BY <2>1, <2>2
<1>10. ASSUME NEW now \in Nat, SweepOf(now) PROVE Timely
  BY <1>7, <1>10 DEF SweepOf
<1>11. ASSUME NEW w \in Workers, Busy(w), Settles(w) PROVE Timely
  <2>1. PICK row : SettlesAs(w, runner[w].job, row)
    BY <1>11 DEF Settles
  <2>2. CASE j # runner[w].job
    <3>1. jobs'[j] = jobs[j]
      BY <1>1, <2>1, <2>2 DEF SettlesAs
    <3> QED
      BY <1>5, <3>1
  <2>3. CASE j = runner[w].job
    <3>1. jobs'[j] = row
      BY <1>1, <2>1, <2>3 DEF SettlesAs
    <3>2. ASSUME NEW t \in Nat, t <= clock + RetryMaxMs, row = Requeued(jobs[j], t) PROVE Timely
      <4>1. jobs'[j].runAfter = t /\ jobs'[j].leaseExpiresAt = 0
        BY <1>1, <3>1, <3>2, RowTimes
      <4>2. clock + RetryMaxMs <= Reached
        BY <1>11, RoomOfARun
      <4> QED
        BY <1>1, <1>4, <3>2, <4>1, <4>2, QueueAssumption
    <3> QED
      BY <1>6, <2>1, <2>3, <3>1, <3>2 DEF SettlesAs
  <2> QED
    BY <2>2, <2>3
<1>12. ASSUME NEW w \in Workers, NEW t \in Nat, Renews(w, t) PROVE Timely
  <2>1. clock + LeaseMs <= Reached /\ t <= clock + LeaseMs
    BY <1>12, RoomOfARun DEF Renews
  <2>2. \/ jobs'[j] = jobs[j]
        \/ jobs'[j] = [jobs[j] EXCEPT !.leaseExpiresAt = t]
    BY <1>1, <1>12 DEF Renews
  <2>3. /\ [jobs[j] EXCEPT !.leaseExpiresAt = t].runAfter = jobs[j].runAfter
        /\ [jobs[j] EXCEPT !.leaseExpiresAt = t].leaseExpiresAt = t
    BY <1>1 DEF JobRow
  <2>4. t <= Reached
    BY <1>1, <1>4, <2>1, QueueAssumption
  <2> QED
    BY <1>5, <2>2, <2>3, <2>4
<1>13. ASSUME NEW k \in Jobs, Enqueue(k) \/ Cancel(k) PROVE Timely
  <2>1. \/ jobs'[j] = jobs[j]
        \/ jobs'[j] = Released(jobs[j], "cancelled")
        \/ Enqueue(j) /\ jobs'[j] = [jobs[j] EXCEPT !.state = "queued", !.runAfter = clock]
    BY <1>1, <1>13 DEF Enqueue, Cancel
  <2> DEFINE new == [jobs[j] EXCEPT !.state = "queued", !.runAfter = clock]
  <2>2. new.runAfter = clock /\ new.leaseExpiresAt = jobs[j].leaseExpiresAt
    BY <1>1 DEF JobRow
  <2>3. ASSUME Enqueue(j), jobs'[j] = new PROVE Timely
    <3>1. clock <= Reached
      BY <2>3 DEF Enqueue, InTime, Unsettled, Settled
    <3> QED
      BY <1>5, <2>2, <2>3, <3>1
  <2> QED
    BY <1>5, <1>6, <2>1, <2>3
<1>14. ASSUME UNCHANGED jobs PROVE Timely
  BY <1>5, <1>14
<1> HIDE DEF Timely
<1> QED
  BY StepKinds, <1>8, <1>9, <1>10, <1>11, <1>12, <1>13, <1>14

\* A run that a step does not start is the run that was under way.
LEMMA RunsStay ==
    ASSUME Inv, [Next]_vars, NEW w \in Workers,
           ~\E now \in Nat, j \in Jobs : Takes(w, now, j)
    PROVE  SameRun(w)
<1>1. ASSUME NEW v \in Workers, NEW now \in Nat, NEW j \in Jobs, Takes(v, now, j)
      PROVE  SameRun(w)
  BY <1>1, TakenRow DEF SameRun, Busy
<1>2. ASSUME NEW now \in Nat, SweepOf(now) PROVE SameRun(w)
  BY <1>2 DEF SweepOf, SameRun, Busy
<1> QED
  BY StepKinds, <1>1, <1>2

LEMMA RunsInTime ==
    ASSUME Inv, InTime, [DeadlineNext]_vars, NEW w \in Workers, (Busy(w))'
    PROVE  (RunInTime(w))'
<1>1. [Next]_vars
  BY DeadlineStep
<1>2. Reached \in Nat /\ Reached' \in Nat /\ Reached <= Reached'
  BY <1>1, ReachedGrows
<1>3. clock \in Nat /\ runner \in [Workers -> Runner] /\ runner[w].deadline \in Nat
  BY DEF Inv, RunnersOK, Runner
<1>4. ASSUME NEW now \in Nat, NEW j \in Jobs, Takes(w, now, j) PROVE (RunInTime(w))'
  <2>1. jobs[j].state \in {"queued", "running"} /\ clock' = clock
    BY <1>4 DEF Takes, Claimable
  <2>2. clock <= Reached
    BY <2>1 DEF InTime, Unsettled, Settled
  <2>3. Reached + AttemptMs <= Reached'
    BY <1>1, <1>4, ReachedGrows
  <2>4. runner'[w].deadline = clock + TimeoutMs
    BY <1>3, <1>4 DEF Takes, FreshRunner
  <2>5. /\ clock' <= runner'[w].deadline + GraceMs
        /\ runner'[w].deadline + GraceMs + Longest <= Reached'
    BY <1>2, <1>3, <2>1, <2>2, <2>3, <2>4, DurationsNat, QueueAssumption
  <2> QED
    BY <2>5 DEF RunInTime
<1>5. CASE ~\E now \in Nat, j \in Jobs : Takes(w, now, j)
  <2>1. Busy(w) /\ runner'[w].deadline = runner[w].deadline
    BY <1>1, <1>5, RunsStay DEF SameRun
  <2>2. /\ clock <= runner[w].deadline + GraceMs
        /\ runner[w].deadline + GraceMs + Longest <= Reached
    BY <2>1 DEF InTime, RunInTime
  <2>3. ASSUME UrgentTick PROVE ~(runner[w].deadline + GraceMs <= clock)
    BY <2>1, <2>3 DEF UrgentTick, HandlerOverdue
  <2>4. clock' <= runner[w].deadline + GraceMs
    BY <1>3, <2>2, <2>3, ClockMoves, DurationsNat
  <2>5. runner[w].deadline + GraceMs + Longest <= Reached'
    BY <1>2, <1>3, <2>2, DurationsNat
  <2> QED
    BY <2>1, <2>4, <2>5 DEF RunInTime
<1> QED
  BY <1>4, <1>5

\* No step of a healthy deployment stops a reliable worker.
LEMMA ReliableStay ==
    ASSUME Inv, InTime, [DeadlineNext]_vars, NEW w \in Reliable
    PROVE  runner'[w].phase # "stopped" /\ ~runner'[w].shutdown
<1>1. /\ w \in Workers /\ runner \in [Workers -> Runner] /\ runner[w] \in Runner
      /\ runner[w].phase # "stopped" /\ ~runner[w].shutdown
  BY QueueAssumption, DeadlineAssumption DEF Inv, RunnersOK, InTime
<1>2. CASE runner'[w] = runner[w]
  BY <1>1, <1>2
<1>3. CASE ClaimNext(w)
  <2>1. CASE UNCHANGED runner
    BY <1>1, <2>1
  <2>2. CASE ~UNCHANGED runner
    <3>1. PICK now \in Nat, j \in Jobs : Takes(w, now, j)
      BY <1>1, <1>3, <2>2, ClaimKinds DEF SweepOf
    <3> QED
      BY <1>1, <3>1 DEF Takes, FreshRunner
  <2> QED
    BY <2>1, <2>2
<1>4. CASE Heartbeat(w) \/ HeartbeatError(w) \/ Timeout(w)
  BY <1>1, <1>4 DEF Heartbeat, HeartbeatError, Timeout, Runner
<1>5. CASE HandlerResolves(w) \/ HandlerThrows(w)
  <2>1. runner'[w] = FreshRunner
    BY <1>1, <1>5 DEF HandlerResolves, HandlerThrows, Returned
  <2> QED
    BY <2>1 DEF FreshRunner
<1>6. ASSUME NEW v \in Workers \ {w}, HealthyStep(v) PROVE runner'[w] = runner[w]
  <2>1. CASE ClaimNext(v)
    BY <1>1, <2>1 DEF ClaimNext
  <2>2. CASE Heartbeat(v) \/ HeartbeatError(v) \/ Timeout(v)
    BY <1>1, <2>2 DEF Heartbeat, HeartbeatError, Timeout
  <2>3. CASE HandlerResolves(v) \/ HandlerThrows(v)
    BY <1>1, <2>3 DEF HandlerResolves, HandlerThrows
  <2> QED
    BY <1>6, <2>1, <2>2, <2>3 DEF HealthyStep
<1>7. ASSUME NEW v \in Workers \ Reliable, Shutdown(v) \/ Crash(v) \/ Restart(v)
      PROVE  runner'[w] = runner[w]
  BY <1>1, <1>7 DEF Shutdown, Crash, Restart
<1>8. ASSUME UrgentTick \/ UNCHANGED vars \/ \E j \in Jobs : Enqueue(j) \/ Cancel(j)
      PROVE  runner'[w] = runner[w]
  BY <1>8 DEF UrgentTick, Tick, vars, Enqueue, Cancel
<1>9. HealthyStep(w) => runner'[w].phase # "stopped" /\ ~runner'[w].shutdown
  BY <1>3, <1>4, <1>5 DEF HealthyStep
<1> QED
  BY <1>1, <1>2, <1>6, <1>7, <1>8, <1>9 DEF DeadlineNext

\* Bounded response: in a deployment with a reliable worker for every type of
\* job, whatever the others suffer, every job is settled within the time that all
\* attempts take one after the other.
THEOREM SettlesInTime == DeadlineSpec => []SettledInTime
<1>1. Init => Inv /\ InTime
  <2> SUFFICES ASSUME Init PROVE Inv /\ InTime
    OBVIOUS
  <2>1. Inv
    BY InitInv
  <2>2. Reached \in Nat /\ Reached >= 1 /\ clock = 1
    BY ReachedIsBounded DEF Init
  <2>3. \A j \in Jobs : RowInTime(j)
    BY <2>2 DEF Init, RowInTime, AbsentJob
  <2>4. \A w \in Workers : ~Busy(w) /\ runner[w].phase # "stopped" /\ ~runner[w].shutdown
    BY DEF Init, Busy, FreshRunner
  <2>5. \A w \in Reliable : w \in Workers
    BY QueueAssumption, DeadlineAssumption
  <2> QED
    BY <2>1, <2>2, <2>3, <2>4, <2>5 DEF InTime, RunInTime
<1>2. Inv /\ InTime /\ [DeadlineNext]_vars => Inv' /\ InTime'
  <2> SUFFICES ASSUME Inv, InTime, [DeadlineNext]_vars PROVE Inv' /\ InTime'
    OBVIOUS
  <2>1. [Next]_vars
    BY DeadlineStep
  <2>2. Inv'
    BY <2>1, NextInv
  <2>3. Unsettled' => clock' <= Reached'
    BY ClockInTime
  <2>4. \A j \in Jobs : (RowInTime(j))'
    BY <2>1, RowsInTime
  <2>5. \A w \in Workers : (RunInTime(w))'
    BY RunsInTime DEF RunInTime
  <2>6. \A w \in Reliable : runner'[w].phase # "stopped" /\ ~runner'[w].shutdown
    BY ReliableStay
  <2> QED
    BY <2>2, <2>3, <2>4, <2>5, <2>6 DEF InTime
<1>3. Inv /\ InTime => SettledInTime
  <2> SUFFICES ASSUME Inv, InTime, clock > 1 + SettlementBound, NEW j \in Jobs
               PROVE  jobs[j].state \in Settled
    BY DEF SettledInTime
  <2>1. Reached \in Nat /\ Reached <= 1 + SettlementBound /\ clock \in Nat
    BY ReachedIsBounded DEF Inv
  <2>2. SettlementBound \in Nat
    BY AttemptsAreFinite, DurationsNat, Products DEF SettlementBound
  <2>3. ~(clock <= Reached)
    BY <2>1, <2>2
  <2> QED
    BY <2>3 DEF InTime, Unsettled
<1> QED
  BY <1>1, <1>2, <1>3, PTL DEF DeadlineSpec
=============================================================================
