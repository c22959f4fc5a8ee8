-------------------------- MODULE ImageDerivatives --------------------------
(***************************************************************************)
(* Image transformations on delivery (ImageDerivativeService.resolve): the *)
(* request that finds no ready derivative generates it itself, under a     *)
(* lease owned by request:<id>, while other requests answer 503 and the    *)
(* API process may die with everything it was doing.                       *)
(***************************************************************************)
EXTENDS DerivativeStore

CONSTANT OwnerOf    \* the lease owner of each request

ASSUME OwnerAssumption ==
    /\ OwnerOf \in [Makers -> Owners]
    /\ \A m, n \in Makers : OwnerOf[m] = OwnerOf[n] => m = n   \* randomUUID

\* ready(): the derivative and its object as the request may serve them.
Ready == row.state = "ready" /\ object[row.object] = "available"

Resolve(m) ==
    /\ maker[m].pc = "idle"
    /\ IF Ready \/ ~Acquirable(OwnerOf[m])
       THEN /\ Ends(m, IF Ready THEN "ok" ELSE "retry")     \* served, or 503 pending
            /\ UNCHANGED <<row, object, blobs, invalidation>>
       ELSE Acquire(m, OwnerOf[m], AcquiredRow(OwnerOf[m]).id)

\* What was published is read back, by ready(), and served.
Serve(m) ==
    /\ maker[m].pc = "published"
    /\ Ends(m, "ok")
    /\ UNCHANGED <<row, object, blobs, invalidation>>

\* That SELECT is the last statement of the try block: when it fails, the catch
\* block discards what has been published.
ReadBackFails(m) ==
    /\ DatabaseFails
    /\ maker[m].pc = "published"
    /\ Throws(m, TRUE)
    /\ UNCHANGED <<row, object, blobs, invalidation>>

\* What a dead request had generated stays on record.
ApiDies ==
    /\ maker' = [m \in Makers |-> IF maker[m].pc = "idle" THEN maker[m]
                                  ELSE [maker[m] EXCEPT !.pc = "done"]]
    /\ invalidation' = [a \in Admins |-> IdleInvalidation]
    /\ UNCHANGED <<row, object, blobs>>

ImageNext ==
    \/ \E m \in Makers : Resolve(m) \/ Transform(m) \/ MakerStep(m) \/ Serve(m) \/ ReadBackFails(m)
    \/ \E a \in Admins : PrepareInvalidation(a) \/ InvalidationStep(a)
    \/ LeaseRunsOut
    \/ ApiDies

ImageSpec == StoreInit /\ [][ImageNext]_storeVars

-----------------------------------------------------------------------------
(* Properties.                                                             *)

\* A request that generated o has thrown after all: nobody but itself, reading
\* back what it had published, gives it a reason to.
TakenBack(o) == \E m \in Makers : maker[m].object = o /\ maker[m].result = "retry"

\* What a delivery request is answered with is there (ready, then open), unless the
\* very request that published it could not read it back and discarded it.  Nobody
\* else's failure, death or invalidation leaves a ready row without its bytes.
ServedUnlessTakenBack == ServedIsBacked \/ TakenBack(row.object)

\* While a request generates under a lease that still stands, nobody else changes the
\* row: the lease ends by the request's own publication or failure, by time, or with
\* the row, deleted by an invalidation that had seen it (acquire, requireLease).
LeaseIsExclusive ==
    [][\A m \in Makers :
          maker[m].pc \in {"make", "made", "stored", "finalized"} /\ HoldsRow(m) =>
            \/ row' = row
            \/ maker'[m] # maker[m]
            \/ row' = [row EXCEPT !.live = FALSE]
            \/ \E a \in Admins : invalidation[a].pc = "finish" /\ invalidation[a].id = row.id
      ]_storeVars
=============================================================================
