-------------------------- MODULE DerivativeStore --------------------------
(***************************************************************************)
(* One entry of the derivative cache: the row that a cache key selects in  *)
(* derivatives (derivatives/repository.ts), the storage_objects rows that  *)
(* its generations insert, the bytes in the store, and the makers: the     *)
(* calls that generate the derivative, each writing its own object.  The   *)
(* same steps serve the image requests of the API (ImageDerivatives) and   *)
(* the media.derive jobs of the workers (AsyncDerivatives).                *)
(*                                                                         *)
(* The lease of a generating row is a flag here: it may run out at any     *)
(* moment, as it does when a maker stalls.                                 *)
(***************************************************************************)
EXTENDS Naturals, FiniteSets

CONSTANTS Makers,             \* requests, or worker processes
          Owners, NoOwner,    \* lease_owner: request:<id> or job:<id>
          Objects, NoObject,  \* storage_objects identifiers, and their keys; bound: runs
          Admins,             \* invalidation requests in flight
          DatabaseFails,      \* whether a database statement may fail
          MaxRows             \* bound: how often the row is inserted

ASSUME StoreAssumption ==
    /\ NoOwner \notin Owners /\ NoObject \notin Objects
    /\ MaxRows \in Nat
    /\ DatabaseFails \in BOOLEAN

VARIABLES row,            \* in Row: the derivatives row of the cache key
          object,         \* [Objects -> ObjectStates]: storage_objects.state
          blobs,          \* the objects whose bytes are in the store
          maker,          \* [Makers -> Maker]: the calls that generate
          invalidation    \* [Admins -> Invalidation]: the calls that invalidate

storeVars == <<row, object, blobs, maker, invalidation>>

-----------------------------------------------------------------------------
\* id tells the incarnations of the row apart; live says that its lease has not
\* run out; object is storage_object_id.
Row == [id : 0..MaxRows, state : {"absent", "queued", "generating", "ready", "failed"},
        owner : Owners \union {NoOwner}, live : BOOLEAN, object : Objects \union {NoObject}]

ObjectStates == {"none", "staging", "available", "deleting", "deleted", "failed"}

\* "made": the output is in memory; "stored": the bytes are in the store; "finalized": their row is available;
\* "published": the derivative is ready; "discard" to "fail": the catch block.
Phases == {"idle", "acquire", "make", "made", "stored", "finalized", "published",
           "discard", "discarded", "fail", "done"}

\* What the call ended with: an error is retryable or not, a result is "ok".
Results == {"none", "ok", "retry", "reject"}

Maker == [pc : Phases, owner : Owners \union {NoOwner}, id : 0..MaxRows,
          object : Objects \union {NoObject}, result : Results]

Invalidation == [pc : {"idle", "delete", "restore", "finish"}, id : 0..MaxRows,
                 object : Objects \union {NoObject}]

NoRow == [id |-> 0, state |-> "absent", owner |-> NoOwner, live |-> FALSE, object |-> NoObject]
IdleMaker == [pc |-> "idle", owner |-> NoOwner, id |-> 0, object |-> NoObject, result |-> "none"]
IdleInvalidation == [pc |-> "idle", id |-> 0, object |-> NoObject]

StoreInit ==
    /\ row = NoRow
    /\ object = [o \in Objects |-> "none"]
    /\ blobs = {}
    /\ maker = [m \in Makers |-> IdleMaker]
    /\ invalidation = [a \in Admins |-> IdleInvalidation]

-----------------------------------------------------------------------------
(* The repository.                                                         *)

RowBound == row.state = "absent" => row.id < MaxRows

NextRow(state) == [NoRow EXCEPT !.id = row.id + 1, !.state = state]

\* acquire: a new row, a row that nobody generates, or one whose lease ran out;
\* the owner of a generating row gets it again, whether its lease ran out or not.
Acquirable(owner) ==
    \/ row.state \in {"absent", "queued", "failed"}
    \/ row.state = "generating" /\ (row.owner = owner \/ ~row.live)

AcquiredRow(owner) ==
    [(IF row.state = "absent" THEN NextRow("generating") ELSE row)
        EXCEPT !.state = "generating", !.owner = owner, !.live = TRUE]

\* A mutant: the lease guard forgets the owner and the time, and takes a ready row.
HoldsRowByOwner(m) == row.id = maker[m].id /\ row.state \in {"generating", "ready"}

\* requireLease, and the WHERE clause of updateLeased.
HoldsRow(m) ==
    /\ row.id = maker[m].id
    /\ row.state = "generating"
    /\ row.owner = maker[m].owner
    /\ row.live

LeaseRunsOut ==
    /\ row.state = "generating" /\ row.live
    /\ row' = [row EXCEPT !.live = FALSE]
    /\ UNCHANGED <<object, blobs, maker, invalidation>>

-----------------------------------------------------------------------------
(* A call that generates.  Every call of the store may fail, and every     *)
(* database statement if DatabaseFails.                                    *)

Goto(m, pc) == maker' = [maker EXCEPT ![m].pc = pc]
Ends(m, result) == maker' = [maker EXCEPT ![m].pc = "done", ![m].result = result]

\* An error inside the try block: the catch block follows.
Throws(m, retryable) ==
    maker' = [maker EXCEPT ![m].pc = "discard",
                           ![m].result = IF retryable THEN "retry" ELSE "reject"]

\* acquire and the insertion of the staging row.  The insertion stands before
\* the try block: when it fails, nothing gives the lease back.
Acquire(m, owner, id) ==
    /\ Acquirable(owner) /\ RowBound
    /\ row' = AcquiredRow(owner)
    /\ \/ \E o \in Objects :
            /\ object[o] = "none"
            /\ object' = [object EXCEPT ![o] = "staging"]
            /\ maker' = [maker EXCEPT ![m] = [@ EXCEPT !.pc = "make", !.owner = owner,
                                                       !.id = id, !.object = o]]
       \/ DatabaseFails /\ Ends(m, "retry") /\ UNCHANGED object
    /\ UNCHANGED <<blobs, invalidation>>

\* open and transform.
Transform(m) ==
    /\ maker[m].pc = "make"
    /\ Goto(m, "made")
    /\ UNCHANGED <<row, object, blobs, invalidation>>

TransformFails(m) ==
    /\ maker[m].pc = "make"
    /\ \E retryable \in BOOLEAN : Throws(m, retryable)
    /\ UNCHANGED <<row, object, blobs, invalidation>>

\* A mutant: the derivative is finalized before the store has the bytes.
PutDetached(m) ==
    /\ maker[m].pc = "made"
    /\ Goto(m, "stored")
    /\ UNCHANGED <<row, object, blobs, invalidation>>

Put(m) ==
    /\ maker[m].pc = "made"
    /\ blobs' = blobs \union {maker[m].object}
    /\ Goto(m, "stored")
    /\ UNCHANGED <<row, object, invalidation>>

\* A put that reports an error may have stored.
PutFails(m) ==
    /\ maker[m].pc = "made"
    /\ blobs' \in {blobs, blobs \union {maker[m].object}}
    /\ \E retryable \in BOOLEAN : Throws(m, retryable)
    /\ UNCHANGED <<row, object, invalidation>>

\* The storage row becomes available, unconditionally.
Finalize(m) ==
    /\ maker[m].pc = "stored"
    /\ object' = [object EXCEPT ![maker[m].object] = "available"]
    /\ Goto(m, "finalized")
    /\ UNCHANGED <<row, blobs, invalidation>>

\* complete.
Publish(m) ==
    /\ maker[m].pc = "finalized"
    /\ HoldsRow(m)
    /\ row' = [row EXCEPT !.state = "ready", !.object = maker[m].object,
                          !.owner = NoOwner, !.live = FALSE]
    /\ Goto(m, "published")
    /\ UNCHANGED <<object, blobs, invalidation>>

\* Either UPDATE fails, the lease is lost, or what the image service reads back
\* from the store does not pass its inspection.
PublishFails(m) ==
    /\ \/ maker[m].pc = "stored"
       \/ maker[m].pc = "finalized" /\ (DatabaseFails \/ ~HoldsRow(m))
    /\ Throws(m, TRUE)
    /\ UNCHANGED <<row, object, blobs, invalidation>>

\* The catch block: discard deletes the bytes as best it can, then marks the
\* storage row; fail gives the derivative up if its lease still stands.
DiscardBytes(m) ==
    /\ maker[m].pc = "discard"
    /\ blobs' \in {blobs, blobs \ {maker[m].object}}
    /\ Goto(m, "discarded")
    /\ UNCHANGED <<row, object, invalidation>>

\* A mutant: discard records the object as deleted, whether or not it was.
DiscardRowAsDeleted(m) ==
    /\ maker[m].pc = "discarded"
    /\ object' = [object EXCEPT ![maker[m].object] = "deleted"]
    /\ Goto(m, "fail")
    /\ UNCHANGED <<row, blobs, invalidation>>

DiscardRow(m) ==
    /\ maker[m].pc = "discarded"
    /\ object' = [object EXCEPT ![maker[m].object] = "failed"]
    /\ Goto(m, "fail")
    /\ UNCHANGED <<row, blobs, invalidation>>

\* A mutant: the catch block does not fail the derivative.
GiveUpSilently(m) ==
    /\ maker[m].pc = "fail"
    /\ Ends(m, maker[m].result)
    /\ UNCHANGED <<row, object, blobs, invalidation>>

\* A mutant: fail gives up whatever generation of the row is under way.
GiveUpAnyLease(m) ==
    /\ maker[m].pc = "fail"
    /\ row' = IF row.id = maker[m].id /\ row.state = "generating"
              THEN [row EXCEPT !.state = "failed", !.owner = NoOwner, !.live = FALSE]
              ELSE row
    /\ Ends(m, maker[m].result)
    /\ UNCHANGED <<object, blobs, invalidation>>

GiveUp(m) ==
    /\ maker[m].pc = "fail"
    /\ row' = IF HoldsRow(m)
              THEN [row EXCEPT !.state = "failed", !.owner = NoOwner, !.live = FALSE]
              ELSE row
    /\ Ends(m, maker[m].result)
    /\ UNCHANGED <<object, blobs, invalidation>>

\* A database error in the catch block leaves it: the row keeps its lease.
CatchFails(m) ==
    /\ DatabaseFails
    /\ maker[m].pc \in {"discarded", "fail"}
    /\ Ends(m, "retry")
    /\ UNCHANGED <<row, object, blobs, invalidation>>

\* Everything but Transform, on which the callers differ.
MakerStep(m) ==
    \/ TransformFails(m)
    \/ Put(m)
    \/ PutFails(m)
    \/ Finalize(m)
    \/ Publish(m)
    \/ PublishFails(m)
    \/ DiscardBytes(m)
    \/ DiscardRow(m)
    \/ GiveUp(m)
    \/ CatchFails(m)

-----------------------------------------------------------------------------
(* Invalidation (AsyncDerivativeService.invalidate), of either kind of     *)
(* derivative: a transaction, the deletion of the bytes, a transaction.    *)

Invalidable == row.state \notin {"absent", "generating"}

PrepareInvalidation(a) ==
    /\ invalidation[a].pc = "idle"
    /\ Invalidable
    /\ invalidation' = [invalidation EXCEPT ![a] =
                          [pc |-> IF row.object = NoObject THEN "finish" ELSE "delete",
                           id |-> row.id, object |-> row.object]]
    /\ object' = [o \in Objects |-> IF o = row.object THEN "deleting" ELSE object[o]]
    /\ UNCHANGED <<row, blobs, maker>>

\* not_found counts as deleted; any other error leads to the restoration.
DeleteBytes(a) ==
    /\ invalidation[a].pc = "delete"
    /\ \/ /\ blobs' = blobs \ {invalidation[a].object}
          /\ invalidation' = [invalidation EXCEPT ![a].pc = "finish"]
       \/ /\ blobs' \in {blobs, blobs \ {invalidation[a].object}}
          /\ invalidation' = [invalidation EXCEPT ![a].pc = "restore"]
    /\ UNCHANGED <<row, object, maker>>

\* restoreInvalidationFailure.  If another generation has begun meanwhile, its
\* UPDATE leaves the lease in a failed row: derivatives_lease_consistent refuses
\* it and the transaction rolls back.
Restore(a) ==
    LET same == row.id = invalidation[a].id /\ row.state # "absent"
    IN  /\ invalidation[a].pc = "restore"
        /\ invalidation' = [invalidation EXCEPT ![a] = IdleInvalidation]
        /\ IF same /\ row.state = "generating"
           THEN UNCHANGED <<row, object>>
           ELSE /\ object' = [object EXCEPT ![invalidation[a].object] = "failed"]
                /\ row' = IF same THEN [row EXCEPT !.state = "failed"] ELSE row
        /\ UNCHANGED <<blobs, maker>>

\* The row is deleted by its identifier, in whatever state it is by now.
FinishInvalidation(a) ==
    /\ invalidation[a].pc = "finish"
    /\ row' = IF row.id = invalidation[a].id THEN [NoRow EXCEPT !.id = row.id] ELSE row
    /\ object' = [o \in Objects |-> IF o = invalidation[a].object THEN "deleted" ELSE object[o]]
    /\ invalidation' = [invalidation EXCEPT ![a] = IdleInvalidation]
    /\ UNCHANGED <<blobs, maker>>

\* The API dies between two steps; nothing resumes the invalidation.
InvalidationLost(a) ==
    /\ invalidation[a].pc # "idle"
    /\ invalidation' = [invalidation EXCEPT ![a] = IdleInvalidation]
    /\ UNCHANGED <<row, object, blobs, maker>>

InvalidationStep(a) == DeleteBytes(a) \/ Restore(a) \/ FinishInvalidation(a)

-----------------------------------------------------------------------------
(* Properties.                                                             *)

\* What the API serves is there: a ready derivative whose storage row is available
\* has its bytes (AsyncDerivativeService.open, ImageDerivativeService.ready).
ServedIsBacked ==
    row.state = "ready" /\ object[row.object] = "available" => row.object \in blobs

\* A derivative becomes ready once per generation and with its own finalized
\* object, and it keeps that object until an invalidation that saw it: no stalled
\* or repeated generation publishes over it or takes it back.
Published ==
    /\ row'.state = "ready" /\ row.state # "ready" =>
         /\ row'.object \in blobs /\ object[row'.object] = "available"
         /\ row.state = "generating" /\ row.live
    /\ row.state = "ready" /\ row' # row =>
         \E a \in Admins : /\ invalidation[a].pc \in {"restore", "finish"}
                           /\ invalidation[a].id = row.id
PublishedOnce == [][Published]_storeVars

\* No bytes are left in the store without a storage row that says so: deletion
\* that failed stays discoverable (the comments of both discard functions).
BytesStayListed == \A o \in blobs : object[o] \notin {"none", "deleted"}
=============================================================================
