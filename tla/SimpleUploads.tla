--------------------------- MODULE SimpleUploads ---------------------------
(***************************************************************************)
(* UploadService.create (uploads/service.ts) and the UploadReconciler      *)
(* (uploads/reconciler.ts), which cleans up behind interrupted uploads     *)
(* before the API listens.                                                 *)
(***************************************************************************)
EXTENDS UploadStore

CONSTANTS Simple,         \* the uploads that use the simple protocol
          NoKey, Key      \* uploads.idempotency_key

ASSUME SimpleAssumption == Simple \subseteq Uploads

SameKey(u) == {v \in Simple : Key[v] # NoKey /\ Key[v] = Key[u]}

\* A mutant: the quota is compared with what is stored only.
ReserveStoredOnly(r, u) ==
    /\ Idle(r) /\ u \in Simple
    /\ uploads[u].state = "absent"
    /\ \A v \in SameKey(u) : uploads[v].state = "absent"
    /\ Total(Holding) + Size[u] <= Quota
    /\ Write(u, Reservation)
    /\ task' = [task EXCEPT ![r] = [NoTask EXCEPT !.call = "simple", !.upload = u,
                                                  !.at = "putting"]]
    /\ UNCHANGED stored

\* reserve: a request whose key was used before is answered from the recorded
\* upload or refused and changes nothing; another one reserves its bytes.
Reserve(r, u) ==
    /\ Idle(r) /\ u \in Simple
    /\ uploads[u].state = "absent"
    /\ \A v \in SameKey(u) : uploads[v].state = "absent"
    /\ WithinQuota(u)
    /\ Write(u, Reservation)
    /\ task' = [task EXCEPT ![r] = [NoTask EXCEPT !.call = "simple", !.upload = u,
                                                  !.at = "putting"]]
    /\ UNCHANGED stored

Unstored(row, s) == [row EXCEPT !.state = s, !.asset = s, !.object = "failed"]

\* markStorageFailure.  A size or a checksum is found wrong before the object
\* appears; any other error may follow a write that took effect.
StorageFails(r) ==
    LET u == Of(r)
    IN  /\ task[r].call = "simple" /\ task[r].at = "putting"
        /\ \/ stored[u] = 0 /\ Write(u, Unstored(uploads[u], "rejected"))
           \/ \E row \in Outstanding(u, Unstored(uploads[u], "failed")) : Write(u, row)
        /\ Return(r)
        /\ UNCHANGED stored

-----------------------------------------------------------------------------
(* The reconciler.                                                         *)

Candidates == {u \in Simple : /\ uploads[u].state \in Open \union {"failed", "rejected"}
                              /\ uploads[u].object \in {"staging", "failed"}}

Reconcile(r, u) ==
    /\ Idle(r) /\ u \in Candidates
    /\ task' = [task EXCEPT ![r] = [NoTask EXCEPT !.call = "simple", !.upload = u,
                                                  !.at = "removing"]]
    /\ UNCHANGED <<uploads, stored>>

\* A mutant: every candidate is turned into an interrupted upload.
CleanedRegardless(row, object) ==
    [row EXCEPT !.object = object, !.state = "failed", !.asset = "failed"]

Cleaned(row, object) ==
    IF row.state \in Open THEN [row EXCEPT !.object = object, !.state = "failed", !.asset = "failed"]
    ELSE [row EXCEPT !.object = object]

Reconciled(r) ==
    /\ task[r].at = "removing"
    /\ \/ stored[Of(r)] = 0 /\ Write(Of(r), Cleaned(uploads[Of(r)], "deleted"))
       \/ Write(Of(r), Cleaned(uploads[Of(r)], "failed"))
    /\ Return(r)
    /\ UNCHANGED stored

SimpleStep(r) ==
    \/ task[r].call = "simple" /\ PutLands(r)
    \/ StorageFails(r)
    \/ Reconciled(r)
=============================================================================
