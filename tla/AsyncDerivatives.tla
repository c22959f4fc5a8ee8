-------------------------- MODULE AsyncDerivatives --------------------------
(***************************************************************************)
(* Derivatives of videos and documents: AsyncDerivativeService.create      *)
(* queues a media.derive job with the row, a worker's                      *)
(* MediaDerivativeHandler generates under a lease owned by job:<id>, and   *)
(* invalidation withdraws what is still queued.  The queue is the job      *)
(* ledger, so a running job may be claimed by another worker, or swept,    *)
(* while its first worker is still generating.                             *)
(***************************************************************************)
EXTENDS JobLedger, DerivativeStore

ASSUME WorkersAssumption == Makers = Workers /\ Owners = Jobs

VARIABLES payload,   \* derivativeId in each job's payload
          current,   \* the job whose handler each worker is running
          late       \* history: whether the attempt that last acquired the row had
                     \* lost its job by then

vars == <<ledger, storeVars, payload, current, late>>

NoJob == NoOwner

Init ==
    /\ LedgerInit /\ StoreInit
    /\ payload = [j \in Jobs |-> 0]
    /\ current = [w \in Workers |-> NoJob]
    /\ late = FALSE

-----------------------------------------------------------------------------
(* The API.                                                                *)

\* create: one transaction inserts the row, or queues a failed one again, and
\* adds its job.  A row in any other state is returned as it is.
Create(j) ==
    /\ row.state \in {"absent", "failed"} /\ RowBound
    /\ row' = IF row.state = "absent" THEN NextRow("queued") ELSE [row EXCEPT !.state = "queued"]
    /\ Add(j)
    /\ payload' = [payload EXCEPT ![j] = row'.id]
    /\ UNCHANGED <<object, blobs, maker, invalidation, current, late>>

\* invalidate withdraws the jobs that are still queued for the row.
QueuedFor(id) == {j \in Jobs : ledger[j].state = "queued" /\ payload[j] = id}

Invalidate(a) ==
    /\ PrepareInvalidation(a)
    /\ Withdraw(QueuedFor(row.id))
    /\ UNCHANGED <<payload, current, late>>

-----------------------------------------------------------------------------
(* A worker.                                                               *)

Idle(w) == maker[w].pc = "idle"

ClaimNext(w) ==
    /\ Idle(w)
    /\ \E swept \in SUBSET Exhaustible :
         \/ /\ swept # {}
            /\ Sweep(swept)
            /\ UNCHANGED <<maker, current>>
         \/ \E j \in Startable :
              /\ Start(w, swept, j)
              /\ maker' = [maker EXCEPT ![w] = [@ EXCEPT !.pc = "acquire", !.id = payload[j]]]
              /\ current' = [current EXCEPT ![w] = j]
    /\ UNCHANGED <<row, object, blobs, invalidation, payload, late>>

\* lookup: derivative_target_missing is final.
LookupFails(w) ==
    /\ maker[w].pc = "acquire"
    /\ row.state = "absent" \/ row.id # maker[w].id
    /\ Ends(w, "reject")
    /\ UNCHANGED <<ledger, row, object, blobs, invalidation, payload, current, late>>

\* The acquisition follows in a transaction of its own, by cache key: the row it
\* finds need not be the one that was looked up.  The lease belongs to the job,
\* not to the attempt: a worker that has lost the job acquires the row as well.
AcquireOrLeave(w) ==
    /\ maker[w].pc = "acquire"
    /\ \/ Acquire(w, current[w], maker[w].id) /\ late' = ~Owns(w, current[w])
       \/ /\ ~Acquirable(current[w])
          /\ Ends(w, IF row.state = "ready" THEN "ok" ELSE "retry")   \* derivative_busy
          /\ UNCHANGED <<row, object, blobs, invalidation, late>>
    /\ UNCHANGED <<ledger, payload, current>>

\* reportProgress(10) and reportProgress(70) stand around the generation: without
\* the job's lease they throw.
Progress(w) == maker[w].pc = "make" /\ Owns(w, current[w]) /\ Transform(w)

\* The audit event and reportProgress(95) come after complete, and still inside
\* the try block.
Report(w) ==
    /\ maker[w].pc = "published"
    /\ \/ Owns(w, current[w]) /\ Ends(w, "ok")
       \/ (DatabaseFails \/ ~Owns(w, current[w])) /\ Throws(w, TRUE)
    /\ UNCHANGED <<row, object, blobs, invalidation>>

Generate(w) ==
    /\ Progress(w) \/ MakerStep(w) \/ Report(w)
    /\ UNCHANGED <<ledger, payload, current, late>>

Settle(w) ==
    /\ maker[w].pc = "done"
    /\ Settles(w, current[w], maker[w].result)
    /\ maker' = [maker EXCEPT ![w] = IdleMaker]
    /\ current' = [current EXCEPT ![w] = NoJob]
    /\ UNCHANGED <<row, object, blobs, invalidation, payload, late>>

\* The process dies, or is past its forced-exit deadline.
Crash(w) ==
    /\ ~Idle(w)
    /\ maker' = [maker EXCEPT ![w] = IdleMaker]
    /\ current' = [current EXCEPT ![w] = NoJob]
    /\ UNCHANGED <<ledger, row, object, blobs, invalidation, payload, late>>

Environment == LeaseRunsOut \/ \E a \in Admins : InvalidationStep(a) \/ InvalidationLost(a)

Next ==
    \/ \E j \in Jobs : Create(j)
    \/ \E a \in Admins : Invalidate(a)
    \/ \E w \in Workers : \/ ClaimNext(w)
                          \/ LookupFails(w)
                          \/ AcquireOrLeave(w)
                          \/ Generate(w)
                          \/ Settle(w)
                          \/ Crash(w)
    \/ Environment /\ UNCHANGED <<ledger, payload, current, late>>

Spec == Init /\ [][Next]_vars

-----------------------------------------------------------------------------
(* Properties.                                                             *)

Unsettled(j) == ledger[j].state \in {"queued", "running"}

\* A row that a job has left generating gets another attempt of that job, which
\* the lease does not keep out, with two exceptions: the job's last attempt was
\* lost, or the row was acquired by an attempt that had already lost the job.
AbandonedOnlyWhenExhausted ==
    row.state = "generating" /\ row.live /\ payload[row.owner] = row.id =>
        LET j == row.owner
        IN  Unsettled(j) \/ ledger[j].attempts = MaxAttempts[j] \/ late
=============================================================================
