---------------------------- MODULE UploadStore ----------------------------
(***************************************************************************)
(* What simple and resumable uploads share: the rows of an upload (upload, *)
(* asset, first version, storage object), the bytes in the storage         *)
(* backend, the quota of the project and the UploadFinalizer               *)
(* (uploads/finalizer.ts).                                                 *)
(*                                                                         *)
(* The API is one process with one thread: a request runs undisturbed from *)
(* one await to the next, and task[r].at is the await that request r stands*)
(* at.  A transaction is a single step.                                    *)
(***************************************************************************)
EXTENDS ProjectQuota

CONSTANTS Requests, NoUpload

ASSUME UploadAssumption == NoUpload \notin Uploads

VARIABLES uploads,  \* the joined rows of each upload
          stored,   \* bytes under the key of the storage object, 0 when there are none
          task      \* the requests in flight

-----------------------------------------------------------------------------
(* Rows and requests.                                                      *)

Open == {"receiving", "validating"}
UploadStates == Open \union {"absent", "completed", "rejected", "failed", "expired", "terminated"}
AssetStates == {"absent", "uploading", "validating", "processing", "ready", "rejected", "failed"}
ObjectStates == {"absent", "staging", "available", "failed", "deleted"}

\* asset stands for the asset and its first version, which every transaction
\* here writes together.  lapsed says that expires_at has passed; content is what
\* its signature shows the upload to be, of the declared type or another, once
\* somebody has read it.  Two fields are history.  unhinged: the staging file was
\* removed and the stored object perhaps was not.  late: a put of these bytes was
\* given up while its last request may still be served.
UploadRow == [state : UploadStates, received : 0..MaxBytes, asset : AssetStates,
              object : ObjectStates, inspections : Nat, lapsed : BOOLEAN,
              content : {"unread", "declared", "other"}, unhinged : BOOLEAN,
              late : BOOLEAN]

AbsentUpload == [state |-> "absent", received |-> 0, asset |-> "absent", object |-> "absent",
                 inspections |-> 0, lapsed |-> FALSE, content |-> "unread", unhinged |-> FALSE,
                 late |-> FALSE]

\* "created" is overwritten in the transaction that writes it.
Reservation == [AbsentUpload EXCEPT !.state = "receiving", !.asset = "uploading",
                                    !.object = "staging"]

Awaits == {"idle", "putting", "checking", "rejecting", "cleaning", "creating", "sizing",
           "truncating", "appending", "dropping", "erasing", "removing"}
Calls == {"none", "simple", "create", "head", "patch", "delete", "reconcile"}

\* offset is row.receivedBytes as the request read it, size the bytes of its
\* chunk, ends the state that a termination or an expiry is to leave.
Task == [call : Calls, upload : Uploads \union {NoUpload}, at : Awaits,
         offset : 0..MaxBytes, size : 0..MaxBytes, ends : {"none", "expired", "terminated"}]

NoTask == [call |-> "none", upload |-> NoUpload, at |-> "idle",
           offset |-> 0, size |-> 0, ends |-> "none"]

Idle(r) == task[r].at = "idle"
Of(r) == task[r].upload
Write(u, row) == uploads' = [uploads EXCEPT ![u] = row]
GoTo(r, await) == task' = [task EXCEPT ![r].at = await]
Return(r) == task' = [task EXCEPT ![r] = NoTask]

-----------------------------------------------------------------------------
(* The quota, summed in the transaction that inserts an upload.            *)

Holding == {u \in Uploads : uploads[u].object = "available"}
Reserving == {u \in Uploads : uploads[u].state \in Open}
WithinQuota(u) == Total(Holding) + Total(Reserving) + Size[u] <= Quota

-----------------------------------------------------------------------------
(* The storage backend.  put and delete take effect at some moment of the  *)
(* call, which may still report an error; a crash may fall in between.     *)

PutLands(r) ==
    /\ task[r].at = "putting"
    /\ stored[Of(r)] = 0
    /\ stored' = [stored EXCEPT ![Of(r)] = Size[Of(r)]]
    /\ UNCHANGED <<uploads, task>>

\* The row of an upload whose put is given up, by an error or a death.  While
\* nothing is stored the CompleteMultipartUpload of a put to S3 may be on its way;
\* the AbortMultipartUpload sent after it overtakes it or not.
Outstanding(u, row) ==
    {row} \union (IF stored[u] = 0 THEN {[row EXCEPT !.late = TRUE]} ELSE {})

\* S3 serves it after all, unless an object is there already (IfNoneMatch).  How
\* many such requests a resumable upload has left behind is not counted.  Served
\* between a deletion and the row that records it, it might as well be served
\* after the row.  (A deletion that is served late finds bytes that no row will
\* publish.)
LateLands(u) ==
    /\ uploads[u].late /\ stored[u] = 0
    /\ stored' = [stored EXCEPT ![u] = Size[u]]
    /\ UNCHANGED <<uploads, task>>

DeleteLands(r) ==
    /\ task[r].at \in {"rejecting", "erasing", "removing"}
    /\ stored[Of(r)] # 0
    /\ stored' = [stored EXCEPT ![Of(r)] = 0]
    /\ UNCHANGED <<uploads, task>>

-----------------------------------------------------------------------------
(* The finalizer.                                                          *)

\* put resolved, or found the object of an earlier attempt in place: the upload
\* is marked validating and the stored content is read back.
MarkValidating(r) ==
    LET u == Of(r)
    IN  /\ task[r].at = "putting"
        /\ stored[u] = Size[u]
        /\ Write(u, [uploads[u] EXCEPT !.state = "validating", !.received = stored[u],
                                       !.asset = "validating"])
        /\ GoTo(r, "checking")
        /\ UNCHANGED stored

\* A resumable upload goes on to remove its staging file.
Finished(r) == IF task[r].call = "simple" THEN Return(r) ELSE GoTo(r, "cleaning")

\* One transaction makes the object available, the asset processing and the
\* upload completed, and queues the inspection.
Completed(row) ==
    [row EXCEPT !.state = "completed", !.asset = "processing", !.object = "available",
                !.inspections = @ + 1]

\* A mutant: the stored content is not read back.
CompleteUnread(r) ==
    /\ task[r].at = "checking"
    /\ Write(Of(r), Completed(uploads[Of(r)]))
    /\ Finished(r)
    /\ UNCHANGED stored

Complete(r) ==
    /\ task[r].at = "checking"
    /\ stored[Of(r)] # 0 /\ uploads[Of(r)].content # "other"
    /\ Write(Of(r), [Completed(uploads[Of(r)]) EXCEPT !.content = "declared"])
    /\ Finished(r)
    /\ UNCHANGED stored

Refuse(r) ==
    /\ task[r].at = "checking"
    /\ stored[Of(r)] # 0 /\ uploads[Of(r)].content # "declared"
    /\ Write(Of(r), [uploads[Of(r)] EXCEPT !.content = "other"])
    /\ GoTo(r, "rejecting")
    /\ UNCHANGED stored

Rejected(row, object) ==
    [row EXCEPT !.state = "rejected", !.asset = "rejected", !.object = object]

\* A mutant: the object counts as deleted although its deletion failed.
RejectAsDeleted(r) ==
    /\ task[r].at = "rejecting"
    /\ Write(Of(r), Rejected(uploads[Of(r)], "deleted"))
    /\ Finished(r)
    /\ UNCHANGED stored

RejectContent(r) ==
    /\ task[r].at = "rejecting"
    /\ \/ stored[Of(r)] = 0 /\ Write(Of(r), Rejected(uploads[Of(r)], "deleted"))
       \/ Write(Of(r), Rejected(uploads[Of(r)], "failed"))
    /\ Finished(r)
    /\ UNCHANGED stored

\* A call fails in a way that writes nothing more: the storage backend while the
\* content is read back, the staging file, SQLite.  (In the simple reconciler
\* such a failure ends the process.)
Abandon(r) ==
    /\ ~Idle(r) /\ task[r].at # "removing"
    /\ IF task[r].at = "putting"
       THEN \E row \in Outstanding(Of(r), uploads[Of(r)]) : Write(Of(r), row)
       ELSE UNCHANGED uploads
    /\ Return(r)
    /\ UNCHANGED stored

FinalizerStep(r) ==
    \/ DeleteLands(r)
    \/ MarkValidating(r)
    \/ Complete(r)
    \/ Refuse(r)
    \/ RejectContent(r)
    \/ Abandon(r)

\* A worker inspects the published asset.  As module Inspection shows, it may be
\* rejected even after it was made ready.
Inspect(u) ==
    /\ uploads[u].asset \in {"processing", "ready"}
    /\ \E s \in {"ready", "rejected"} : Write(u, [uploads[u] EXCEPT !.asset = s])
    /\ UNCHANGED <<stored, task>>
=============================================================================
