------------------------------ MODULE JobQueue ------------------------------
(***************************************************************************)
(* The durable job queue: SqliteJobRepository (jobs/repository.ts), one    *)
(* action per immediate transaction, and the JobRunner (jobs/runner.ts) of *)
(* each worker process, with its three timers, its abort signal and the    *)
(* way it turns a finished handler into a job state.                       *)
(*                                                                         *)
(* Time is an integer clock shared by all processes (they run on one host  *)
(* and share one SQLite file).  A worker in Prompt has an event loop that  *)
(* is never blocked past the next tick, so that its timers fire when due;  *)
(* any other worker may be suspended for any time between two of its steps,*)
(* and may hold a transaction's `now` for up to MaxLag while it waits for  *)
(* SQLite's write lock (busy_timeout).                                     *)
(***************************************************************************)
EXTENDS Naturals, FiniteSets

CONSTANTS Jobs, Workers, NoWorker, NoJob,
          MaxAttempts,            \* jobs.max_attempts, per job
          Accepts,                \* the jobs whose type the worker has a handler for
          LeaseMs, HeartbeatMs, TimeoutMs,
          RetryBaseMs, RetryMaxMs,
          Prompt, MaxLag,
          MaxClock,               \* bound: the clock stops here
          MaxCrashes              \* bound: number of process deaths

ASSUME QueueAssumption ==
    /\ NoWorker \notin Workers
    /\ NoJob \notin Jobs
    /\ MaxAttempts \in [Jobs -> Nat \ {0}]
    /\ Accepts \in [Workers -> SUBSET Jobs]
    /\ LeaseMs \in Nat /\ HeartbeatMs \in Nat \ {0} /\ TimeoutMs \in Nat \ {0}
    /\ RetryBaseMs \in Nat \ {0} /\ RetryMaxMs \in Nat
    /\ Prompt \subseteq Workers
    /\ MaxLag \in Nat /\ MaxClock \in Nat /\ MaxCrashes \in Nat

\* The JobRunner constructor throws otherwise.
ASSUME HeartbeatAssumption == HeartbeatMs * 2 < LeaseMs

VARIABLES clock,    \* milliseconds, in units of the model
          jobs,     \* the jobs table
          runner,   \* per worker process: the JobRunner and the handler in flight
          crashes   \* how many processes have died

vars == <<clock, jobs, runner, crashes>>

-----------------------------------------------------------------------------
(* The table and the processes.                                            *)

Settled == {"succeeded", "failed", "cancelled"}
JobStates == {"absent", "queued", "running"} \union Settled

\* leaseExpiresAt = 0 is NULL; completed says whether completed_at is set.
JobRow == [state : JobStates, attempts : Nat, runAfter : Nat,
           owner : Workers \union {NoWorker}, leaseExpiresAt : Nat, completed : BOOLEAN]

AbortReasons == {"none", "shutdown", "timeout", "heartbeat_failed", "lease_lost"}

\* attempt and misses are history: the attempt the handler was started for, and
\* the heartbeats in a row that failed for a reason other than a lost lease.
Runner == [phase : {"idle", "busy", "stopped"}, job : Jobs \union {NoJob},
           leaseLost : BOOLEAN, shutdown : BOOLEAN, reason : AbortReasons,
           beatAt : Nat, deadline : Nat, attempt : Nat, misses : Nat]

AbsentJob == [state |-> "absent", attempts |-> 0, runAfter |-> 0, owner |-> NoWorker,
              leaseExpiresAt |-> 0, completed |-> FALSE]

FreshRunner == [phase |-> "idle", job |-> NoJob, leaseLost |-> FALSE, shutdown |-> FALSE,
                reason |-> "none", beatAt |-> 0, deadline |-> 0, attempt |-> 0, misses |-> 0]

Init ==
    /\ clock = 1
    /\ jobs = [j \in Jobs |-> AbsentJob]
    /\ runner = [w \in Workers |-> FreshRunner]
    /\ crashes = 0

\* The values of `now` that worker w can carry into a transaction committed now.
NowOf(w) == IF w \in Prompt THEN {clock}
            ELSE {t \in 0..clock : clock <= t + MaxLag}

Busy(w) == runner[w].phase = "busy"

-----------------------------------------------------------------------------
(* The repository (jobs/repository.ts).                                    *)

AtMost(x, cap) == IF x <= cap THEN x ELSE cap

\* retryDelayMs: exponential backoff from the attempt that failed, capped.
RetryDelay(attempt) == AtMost(RetryBaseMs * 2^AtMost(attempt - 1, 30), RetryMaxMs)

\* The provers know nothing of exponentiation: what they need of it, evaluated
\* by TLC on the constants of every run.
ASSUME RetryAssumption ==
    \A j \in Jobs : \A n \in 1..MaxAttempts[j] : RetryDelay(n) \in Nat

\* A mutant: the lease is taken to end before it does.
LeaseExpiredEarly(j, now) == jobs[j].leaseExpiresAt <= now + 1

LeaseExpired(j, now) == jobs[j].leaseExpiresAt <= now

\* A mutant: the lease guard forgets to compare the owner.
HoldsAnyLease(w, j, now) == jobs[j].state = "running" /\ ~LeaseExpired(j, now)

HoldsLease(w, j, now) ==
    jobs[j].state = "running" /\ jobs[j].owner = w /\ ~LeaseExpired(j, now)

\* A mutant: the sweep forgets leased jobs.
ExhaustedQueuedOnly(now) ==
    {j \in Jobs : jobs[j].attempts >= MaxAttempts[j] /\ jobs[j].state = "queued"}

\* The sweep that opens every claim covers jobs of every type.
Exhausted(now) ==
    {j \in Jobs : /\ jobs[j].attempts >= MaxAttempts[j]
                  /\ \/ jobs[j].state = "queued"
                     \/ jobs[j].state = "running" /\ LeaseExpired(j, now)}

\* A mutant: an expired lease is taken over whatever the attempts.
ClaimableWithoutLimit(w, now) ==
    {j \in Accepts[w] : \/ jobs[j].state = "queued" /\ jobs[j].runAfter <= now
                        \/ jobs[j].state = "running" /\ LeaseExpired(j, now)}

Claimable(w, now) ==
    {j \in Accepts[w] : /\ jobs[j].attempts < MaxAttempts[j]
                        /\ \/ jobs[j].state = "queued" /\ jobs[j].runAfter <= now
                           \/ jobs[j].state = "running" /\ LeaseExpired(j, now)}

\* order by run_after; created_at and the random id only break ties, which are
\* left open here.
Oldest(S) == {j \in S : \A k \in S : jobs[j].runAfter <= jobs[k].runAfter}

\* A mutant: the lease's end is left in the row.
ReleasedWithLease(row, s) ==
    [row EXCEPT !.state = s, !.owner = NoWorker, !.completed = s \in Settled]

Released(row, s) ==
    [row EXCEPT !.state = s, !.owner = NoWorker, !.leaseExpiresAt = 0,
                !.completed = s \in Settled]

\* A mutant: a takeover leaves the previous owner in place.
LeasedToFormerOwner(row, w, until) ==
    [row EXCEPT !.state = "running", !.attempts = @ + 1,
                !.owner = IF row.owner = NoWorker THEN w ELSE row.owner,
                !.leaseExpiresAt = until, !.completed = FALSE]

Leased(row, w, until) ==
    [row EXCEPT !.state = "running", !.attempts = @ + 1, !.owner = w,
                !.leaseExpiresAt = until, !.completed = FALSE]

Requeued(row, after) ==
    [row EXCEPT !.state = "queued", !.runAfter = after, !.owner = NoWorker,
                !.leaseExpiresAt = 0, !.completed = FALSE]

AfterSweep(now) ==
    [j \in Jobs |-> IF j \in Exhausted(now) THEN Released(jobs[j], "failed") ELSE jobs[j]]

\* A mutant: a heartbeat only extends the lease to the next heartbeat.
RenewBriefly(j, now) ==
    jobs' = [jobs EXCEPT ![j] = [@ EXCEPT !.leaseExpiresAt = now + HeartbeatMs]]

\* heartbeat, succeed: one guarded UPDATE; no row changed means the lease is lost.
Renew(j, now) ==
    jobs' = [jobs EXCEPT ![j] = [@ EXCEPT !.leaseExpiresAt = now + LeaseMs]]
Succeed(j) == jobs' = [jobs EXCEPT ![j] = Released(@, "succeeded")]

\* fail: settle the job, or queue it again after the backoff.
Fail(j, now, retryable) ==
    LET final == ~retryable \/ jobs[j].attempts >= MaxAttempts[j]
    IN  jobs' = [jobs EXCEPT ![j] =
                   IF final THEN Released(@, "failed")
                   ELSE Requeued(@, now + RetryDelay(jobs[j].attempts))]

-----------------------------------------------------------------------------
(* The rows that other code writes.                                        *)

\* Uploads, derivatives, AI indexing and agent runs insert queued jobs.
Enqueue(j) ==
    /\ jobs[j].state = "absent"
    /\ jobs' = [jobs EXCEPT ![j] = [@ EXCEPT !.state = "queued", !.runAfter = clock]]
    /\ UNCHANGED <<clock, runner, crashes>>

\* An agent run that is cancelled withdraws its queued and running jobs; a
\* derivative that is invalidated withdraws its queued job.  Neither looks at
\* the lease.
Cancel(j) ==
    /\ jobs[j].state \in {"queued", "running"}
    /\ jobs' = [jobs EXCEPT ![j] = Released(@, "cancelled")]
    /\ UNCHANGED <<clock, runner, crashes>>

-----------------------------------------------------------------------------
(* The runner (jobs/runner.ts).                                            *)

\* An AbortController keeps the reason of its first abort.
FirstReason(w, r) == IF runner[w].reason = "none" THEN r ELSE runner[w].reason

\* runOnce returned: the run loop goes on unless a shutdown was requested.
Returned(w) == IF runner[w].shutdown THEN [FreshRunner EXCEPT !.phase = "stopped"]
               ELSE FreshRunner

\* runOnce claims a job, sets its timers and calls the handler.
ClaimNext(w) ==
    /\ runner[w].phase = "idle"
    /\ ~runner[w].shutdown
    /\ \E now \in NowOf(w) :
         \/ /\ Claimable(w, now) = {}
            /\ jobs' = AfterSweep(now)
            /\ UNCHANGED runner
         \/ \E j \in Oldest(Claimable(w, now)) :
              /\ jobs' = [AfterSweep(now) EXCEPT ![j] = Leased(jobs[j], w, now + LeaseMs)]
              /\ runner' = [runner EXCEPT ![w] =
                              [FreshRunner EXCEPT !.phase = "busy", !.job = j,
                                                  !.beatAt = clock + HeartbeatMs,
                                                  !.deadline = clock + TimeoutMs,
                                                  !.attempt = jobs[j].attempts + 1]]
    /\ UNCHANGED <<clock, crashes>>

\* The heartbeat interval.  It runs until the handler is done, aborted or not.
BeatDue(w) == Busy(w) /\ runner[w].beatAt <= clock

Heartbeat(w) ==
    /\ BeatDue(w)
    /\ \E now \in NowOf(w) :
         IF HoldsLease(w, runner[w].job, now)
         THEN /\ Renew(runner[w].job, now)
              /\ runner' = [runner EXCEPT ![w].beatAt = clock + HeartbeatMs, ![w].misses = 0]
         ELSE /\ runner' = [runner EXCEPT ![w].beatAt = clock + HeartbeatMs,
                                          ![w].leaseLost = TRUE,
                                          ![w].reason = FirstReason(w, "lease_lost")]
              /\ UNCHANGED jobs
    /\ UNCHANGED <<clock, crashes>>

\* The UPDATE itself failed (SQLITE_BUSY, an I/O error).
HeartbeatError(w) ==
    /\ BeatDue(w)
    /\ runner' = [runner EXCEPT ![w].beatAt = clock + HeartbeatMs,
                                ![w].misses = AtMost(@ + 1, 2),
                                ![w].reason = FirstReason(w, "heartbeat_failed")]
    /\ UNCHANGED <<clock, jobs, crashes>>

TimeoutDue(w) == Busy(w) /\ runner[w].reason = "none" /\ runner[w].deadline <= clock

Timeout(w) ==
    /\ TimeoutDue(w)
    /\ runner' = [runner EXCEPT ![w].reason = "timeout"]
    /\ UNCHANGED <<clock, jobs, crashes>>

\* persistFailure: a lease lost meanwhile turns the failure into lease_lost.
PersistFailure(w, retryable) ==
    LET j == runner[w].job
    IN  \E now \in NowOf(w) : IF HoldsLease(w, j, now) THEN Fail(j, now, retryable)
                              ELSE UNCHANGED jobs

PersistSuccess(w) ==
    LET j == runner[w].job
    IN  \E now \in NowOf(w) : IF HoldsLease(w, j, now) THEN Succeed(j) ELSE UNCHANGED jobs

\* The handler's promise resolved.  A handler may resolve after its signal was
\* aborted: the abort reason then decides.
HandlerResolves(w) ==
    /\ Busy(w)
    /\ \/ /\ runner[w].leaseLost \/ runner[w].shutdown      \* lease_lost, interrupted
          /\ UNCHANGED jobs
       \/ /\ ~runner[w].leaseLost /\ ~runner[w].shutdown
          /\ runner[w].reason \in {"timeout", "heartbeat_failed"}
          /\ PersistFailure(w, TRUE)
       \/ /\ ~runner[w].leaseLost /\ ~runner[w].shutdown
          /\ runner[w].reason = "none"
          /\ PersistSuccess(w)
    /\ runner' = [runner EXCEPT ![w] = Returned(w)]
    /\ UNCHANGED <<clock, crashes>>

\* The handler threw.  A JobLeaseLostError (from reportProgress) ends the run
\* without a write; so do a lost lease and a shutdown.
HandlerThrows(w) ==
    /\ Busy(w)
    /\ \/ /\ \/ runner[w].leaseLost \/ runner[w].shutdown
             \/ \E now \in NowOf(w) : ~HoldsLease(w, runner[w].job, now)
          /\ UNCHANGED jobs
       \/ /\ ~runner[w].leaseLost /\ ~runner[w].shutdown
          /\ \E retryable \in BOOLEAN :
               /\ runner[w].reason = "timeout" => retryable
               /\ PersistFailure(w, retryable)
    /\ runner' = [runner EXCEPT ![w] = Returned(w)]
    /\ UNCHANGED <<clock, crashes>>

-----------------------------------------------------------------------------
(* The worker process (worker.ts, ai-worker.ts) and time.                  *)

\* SIGTERM: an idle runner leaves its loop, a busy one aborts its handler.
Shutdown(w) ==
    /\ runner[w].phase # "stopped"
    /\ ~runner[w].shutdown
    /\ runner' = [runner EXCEPT ![w] =
                    IF Busy(w) THEN [@ EXCEPT !.shutdown = TRUE,
                                              !.reason = FirstReason(w, "shutdown")]
                    ELSE [FreshRunner EXCEPT !.phase = "stopped"]]
    /\ UNCHANGED <<clock, jobs, crashes>>

\* The process dies: killed, past its forced-exit deadline, or ended by a
\* database error that runOnce does not catch.
Crash(w) ==
    /\ runner[w].phase # "stopped"
    /\ crashes < MaxCrashes
    /\ crashes' = crashes + 1
    /\ runner' = [runner EXCEPT ![w] = [FreshRunner EXCEPT !.phase = "stopped"]]
    /\ UNCHANGED <<clock, jobs>>

\* The container is restarted, with the same worker identifier.
Restart(w) ==
    /\ runner[w].phase = "stopped"
    /\ runner' = [runner EXCEPT ![w] = FreshRunner]
    /\ UNCHANGED <<clock, jobs, crashes>>

Tick ==
    /\ clock < MaxClock
    /\ \A w \in Prompt : ~BeatDue(w) /\ ~TimeoutDue(w)
    /\ clock' = clock + 1
    /\ UNCHANGED <<jobs, runner, crashes>>

WorkerStep(w) ==
    \/ ClaimNext(w)
    \/ Heartbeat(w)
    \/ HeartbeatError(w)
    \/ Timeout(w)
    \/ HandlerResolves(w)
    \/ HandlerThrows(w)
    \/ Shutdown(w)
    \/ Crash(w)
    \/ Restart(w)

Next ==
    \/ \E j \in Jobs : Enqueue(j) \/ Cancel(j)
    \/ \E w \in Workers : WorkerStep(w)
    \/ Tick

Spec == Init /\ [][Next]_vars

-----------------------------------------------------------------------------
(* Properties.                                                             *)

\* The tables and the processes hold values of their types.
TypeOK ==
    /\ clock \in Nat
    /\ jobs \in [Jobs -> JobRow]
    /\ runner \in [Workers -> Runner]
    /\ crashes \in Nat

\* No write of the repository or of the code that cancels jobs trips a CHECK
\* constraint of the jobs table (db/schema.ts), which would end the worker:
\* jobs_attempts_within_max, jobs_lease_consistent, jobs_completion_consistent.
\* A queued job, moreover, always has an attempt left, so that the sweep only
\* ever has to settle leased jobs.
TableChecks ==
    \A j \in Jobs :
        /\ jobs[j].attempts <= MaxAttempts[j]
        /\ (jobs[j].state = "running") <=> (jobs[j].owner # NoWorker)
        /\ (jobs[j].state = "running") <=> (jobs[j].leaseExpiresAt # 0)
        /\ (jobs[j].state \in Settled) <=> jobs[j].completed
        /\ jobs[j].state = "queued" => jobs[j].attempts < MaxAttempts[j]

\* A runner that is still busy while its job is leased to it executes exactly
\* the attempt that the row counts: the lease names a worker and no attempt, and
\* yet a handler left over from an earlier attempt never passes for the current
\* one (updateLeased, requireLease).
LeaseNamesTheAttempt ==
    \A w \in Workers :
        LET j == runner[w].job
        IN  Busy(w) /\ jobs[j].state = "running" /\ jobs[j].owner = w
                => runner[w].attempt = jobs[j].attempts

\* A leased job is settled or queued again only by the run of its handler that
\* the row's current attempt started, by the sweep once the lease has run out and
\* no attempt is left, or by a cancellation.
SettledByItsAttempt ==
    \A j \in Jobs :
        jobs[j].state = "running" /\ jobs'[j].state # "running" =>
            \/ \E w \in Workers : /\ Busy(w) /\ ~(Busy(w))'
                                  /\ runner[w].job = j
                                  /\ runner[w].attempt = jobs[j].attempts
                                  /\ runner[w].reason = "none" \/ jobs'[j].state # "succeeded"
            \/ /\ jobs'[j].state = "failed" /\ jobs[j].leaseExpiresAt <= clock
               /\ jobs[j].attempts = MaxAttempts[j]
            \/ jobs'[j].state = "cancelled"
FencedSettlement == [][SettledByItsAttempt]_vars

\* A job changes hands only after its lease has run out by the real clock, even
\* when the claiming transaction carries an old `now`.
NoEarlyTakeover ==
    [][\A j \in Jobs : jobs[j].state = "running" /\ jobs'[j].state = "running"
                         /\ jobs'[j].attempts # jobs[j].attempts => jobs[j].leaseExpiresAt <= clock]_vars

\* Why the runner insists that two heartbeats fit in a lease: a worker whose
\* event loop is not blocked keeps its lease although one heartbeat in a row
\* fails; only a cancellation takes the job away from it.
OneMissedBeatIsHarmless ==
    \A w \in Prompt :
        Busy(w) /\ runner[w].misses <= 1 =>
            \/ HoldsLease(w, runner[w].job, clock)
            \/ jobs[runner[w].job].state = "cancelled"

\* Without its times the queue is a job ledger.
Table == [j \in Jobs |-> [state |-> jobs[j].state, attempts |-> jobs[j].attempts,
                          owner |-> jobs[j].owner]]
Ledger == INSTANCE JobLedger WITH ledger <- Table
ImplementsLedger == Ledger!LedgerSpec
=============================================================================
