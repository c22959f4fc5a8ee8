----------------------------- MODULE JobLedger -----------------------------
(***************************************************************************)
(* What the job table promises to the code that enqueues work and to the   *)
(* handlers that perform it, with time left out: a running job belongs to  *)
(* one worker, only that worker can settle it, a settled job never moves   *)
(* again, and no job is started more than MaxAttempts[j] times.            *)
(*                                                                         *)
(* The ledger lets a running job be taken over at any moment.  JobQueue    *)
(* says when that really happens (the lease ran out) and is shown to       *)
(* implement this module.  The domain modules are built on the ledger, so  *)
(* what they show holds for every pattern of stalls and lost leases.       *)
(***************************************************************************)
EXTENDS Naturals, FiniteSets

CONSTANTS Jobs,         \* the rows of the jobs table
          Workers,      \* worker identifiers (WORKER_ID or worker:<host>:<pid>)
          NoWorker,     \* lease_owner IS NULL
          MaxAttempts   \* max_attempts of each job

ASSUME LedgerAssumption ==
    /\ NoWorker \notin Workers
    /\ MaxAttempts \in [Jobs -> Nat \ {0}]

VARIABLE ledger

Settled == {"succeeded", "failed", "cancelled"}
JobStates == {"absent", "queued", "running"} \union Settled

Entry == [state : JobStates, attempts : Nat, owner : Workers \union {NoWorker}]

LedgerInit ==
    ledger = [j \in Jobs |-> [state |-> "absent", attempts |-> 0, owner |-> NoWorker]]

Released(entry, s) == [state |-> s, attempts |-> entry.attempts, owner |-> NoWorker]

\* A mutant: a job whose last worker has died is not noticed.
ExhaustedInTheQueue == {j \in Jobs : /\ ledger[j].state = "queued"
                                     /\ ledger[j].attempts >= MaxAttempts[j]}

\* The jobs that the sweep at the head of claimNext may declare exhausted, and
\* those that it may hand to a worker.
Exhaustible == {j \in Jobs : /\ ledger[j].state \in {"queued", "running"}
                             /\ ledger[j].attempts >= MaxAttempts[j]}
Startable   == {j \in Jobs : /\ ledger[j].state \in {"queued", "running"}
                             /\ ledger[j].attempts < MaxAttempts[j]}

Add(j) ==
    /\ ledger[j].state = "absent"
    /\ ledger' = [ledger EXCEPT ![j].state = "queued"]

\* One claim fails the exhausted jobs it notices and starts at most one other.
Sweep(swept) ==
    ledger' = [j \in Jobs |-> IF j \in swept THEN Released(ledger[j], "failed") ELSE ledger[j]]

Start(w, swept, job) ==
    ledger' = [j \in Jobs |->
                 IF j \in swept THEN Released(ledger[j], "failed")
                 ELSE IF j = job
                      THEN [state |-> "running", attempts |-> ledger[j].attempts + 1, owner |-> w]
                      ELSE ledger[j]]

Owns(w, j) == ledger[j].state = "running" /\ ledger[j].owner = w

\* The owner settles the job or gives it back for another attempt.
Complete(w, j) == Owns(w, j) /\ ledger' = [ledger EXCEPT ![j] = Released(@, "succeeded")]
Reject(w, j)   == Owns(w, j) /\ ledger' = [ledger EXCEPT ![j] = Released(@, "failed")]
GiveBack(w, j) == /\ Owns(w, j)
                  /\ ledger[j].attempts < MaxAttempts[j]
                  /\ ledger' = [ledger EXCEPT ![j] = Released(@, "queued")]

\* The runner settles the job with what the handler ended with.  When the deadline or
\* a renewal that failed has aborted the signal, it records that instead, which is
\* retryable whatever the handler ended with.  Without the job's lease, or when
\* shutting down, it writes nothing.
Settles(w, j, result) ==
    \/ UNCHANGED ledger
    \/ result = "ok" /\ Complete(w, j)
    \/ result = "reject" /\ Reject(w, j)
    \/ GiveBack(w, j)
    \/ ledger[j].attempts = MaxAttempts[j] /\ Reject(w, j)

\* One UPDATE withdraws every job that its WHERE clause selects.
Withdrawable == {j \in Jobs : ledger[j].state \in {"queued", "running"}}

Withdraw(withdrawn) ==
    ledger' = [j \in Jobs |-> IF j \in withdrawn THEN Released(ledger[j], "cancelled")
                              ELSE ledger[j]]

LedgerNext ==
    \/ \E j \in Jobs : Add(j)
    \/ \E withdrawn \in SUBSET Withdrawable : Withdraw(withdrawn)
    \/ \E swept \in SUBSET Exhaustible : Sweep(swept)
    \/ \E w \in Workers, swept \in SUBSET Exhaustible, j \in Startable : Start(w, swept, j)
    \/ \E w \in Workers, j \in Jobs : Complete(w, j) \/ Reject(w, j) \/ GiveBack(w, j)

LedgerSpec == LedgerInit /\ [][LedgerNext]_ledger
=============================================================================
