---------------------------- MODULE TusUploads -----------------------------
(***************************************************************************)
(* TusUploadService (uploads/tus-service.ts) over TusStagingStore          *)
(* (uploads/tus-staging.ts): chunks go to a staging file, whose length and *)
(* the row's received_bytes advance in separate steps.  A lock per upload, *)
(* kept in memory, runs its requests one after the other.                  *)
(***************************************************************************)
EXTENDS UploadStore

CONSTANTS Tus,      \* the uploads that use the resumable protocol
          NoFile

ASSUME TusAssumption == Tus \subseteq Uploads /\ NoFile \notin Nat

VARIABLE staging    \* the length of the staging file

Received(u) == uploads[u].received
Lasting == <<uploads, stored, staging>>

\* A mutant: requests are not serialized.
NeverLocked(u) == TRUE

\* #exclusive.
Unlocked(u) == \A r \in Requests : Of(r) # u

Begin(r, call, u, await) ==
    task' = [task EXCEPT ![r] = [NoTask EXCEPT !.call = call, !.upload = u, !.at = await,
                                               !.offset = Received(u)]]

\* #markTerminal.
Ended(row, s) ==
    [row EXCEPT !.state = s, !.asset = IF s = "failed" THEN "failed" ELSE "rejected",
                !.object = "deleted"]

-----------------------------------------------------------------------------
(* create.                                                                 *)

CreateTus(r, u) ==
    /\ Idle(r) /\ u \in Tus
    /\ uploads[u].state = "absent"
    /\ WithinQuota(u)
    /\ Write(u, Reservation)
    /\ task' = [task EXCEPT ![r] = [NoTask EXCEPT !.call = "create", !.upload = u,
                                                  !.at = "creating"]]
    /\ UNCHANGED <<stored, staging>>

FileCreated(r) ==
    /\ task[r].at = "creating"
    /\ staging' = [staging EXCEPT ![Of(r)] = 0]
    /\ Return(r)
    /\ UNCHANGED <<uploads, stored>>

CreationFails(r) ==
    /\ task[r].at = "creating"
    /\ Write(Of(r), Ended(uploads[Of(r)], "failed"))
    /\ Return(r)
    /\ UNCHANGED <<stored, staging>>

-----------------------------------------------------------------------------
(* #active: an ended upload is gone, an expired one is made so first.      *)

Expiring(r, u, call) ==
    /\ Unlocked(u)
    /\ task' = [task EXCEPT ![r] = [NoTask EXCEPT !.call = call, !.upload = u,
                                                  !.at = "dropping", !.ends = "expired"]]
    /\ UNCHANGED Lasting

\* A request that finds its upload completed or gone, or a PATCH whose offset is
\* not the row's, changes nothing.
RequestTus(r, u, call) ==
    /\ Idle(r) /\ u \in Tus
    /\ uploads[u].state \in Open
    /\ \/ uploads[u].lapsed /\ Expiring(r, u, call)
       \/ /\ ~uploads[u].lapsed /\ Unlocked(u)
          /\ \/ call # "delete" /\ Begin(r, call, u, "sizing")
             \/ call = "delete" /\ task' = [task EXCEPT ![r] =
                    [NoTask EXCEPT !.call = call, !.upload = u, !.at = "dropping",
                                   !.ends = "terminated"]]
          /\ UNCHANGED Lasting

TerminateCompleted(r, u) ==
    /\ Idle(r) /\ u \in Tus
    /\ uploads[u].state = "completed" /\ Unlocked(u)
    /\ Write(u, [uploads[u] EXCEPT !.state = "terminated"])
    /\ UNCHANGED <<stored, staging, task>>

-----------------------------------------------------------------------------
(* #repairStagingOffset, at the start of every request and of the          *)
(* reconciliation, which gives up on a missing file before it comes to it. *)

FileLost(r) ==
    /\ task[r].at = "sizing"
    /\ IF staging[Of(r)] = NoFile THEN TRUE ELSE staging[Of(r)] < task[r].offset
    /\ IF task[r].call = "reconcile" /\ staging[Of(r)] = NoFile THEN UNCHANGED uploads
       ELSE Write(Of(r), Ended(uploads[Of(r)], "failed"))
    /\ Return(r)
    /\ UNCHANGED <<stored, staging>>

TooLong(r) ==
    /\ task[r].at = "sizing" /\ staging[Of(r)] # NoFile
    /\ staging[Of(r)] > task[r].offset
    /\ GoTo(r, "truncating")
    /\ UNCHANGED Lasting

\* What comes after the repair: the append of a chunk of n bytes, the retry of
\* the finalization of a full upload, or the end of the request.
Repaired(r) ==
    LET u == Of(r)
    IN  \/ /\ task[r].call \in {"patch", "reconcile"} /\ task[r].offset = Size[u]
           /\ GoTo(r, "putting")
        \/ /\ task[r].call = "patch" /\ task[r].offset < Size[u]
           /\ \E n \in 0..(Size[u] - task[r].offset) :
                task' = [task EXCEPT ![r].at = "appending", ![r].size = n]
        \/ /\ \/ task[r].call = "head"
              \/ task[r].call = "reconcile" /\ task[r].offset < Size[u]
           /\ Return(r)

RightLength(r) ==
    /\ task[r].at = "sizing" /\ staging[Of(r)] = task[r].offset
    /\ Repaired(r)
    /\ UNCHANGED Lasting

Truncate(r) ==
    /\ task[r].at = "truncating"
    /\ staging' = [staging EXCEPT ![Of(r)] = task[r].offset]
    /\ Repaired(r)
    /\ UNCHANGED <<uploads, stored>>

\* #finalize streams the staging file into the backend.
StagedPutLands(r) ==
    /\ task[r].at = "putting" /\ task[r].call # "simple"
    /\ staging[Of(r)] = Size[Of(r)]
    /\ PutLands(r)
    /\ UNCHANGED staging

-----------------------------------------------------------------------------
(* append.                                                                 *)

\* The chunk goes into the file piece by piece.
ChunkLands(r) ==
    /\ task[r].at = "appending"
    /\ staging[Of(r)] \in task[r].offset..(task[r].offset + task[r].size - 1)
    /\ \E n \in (staging[Of(r)] + 1)..(task[r].offset + task[r].size) :
         staging' = [staging EXCEPT ![Of(r)] = n]
    /\ UNCHANGED <<uploads, stored, task>>

\* A mutant: the offset is recorded before the chunk is on disk.
AppendedEarly(r) ==
    LET u == Of(r)
        offset == task[r].offset + task[r].size
    IN  /\ task[r].at = "appending"
        /\ Write(u, [uploads[u] EXCEPT !.received = offset, !.lapsed = FALSE,
                        !.state = IF offset = Size[u] THEN "validating" ELSE "receiving"])
        /\ IF offset = Size[u] THEN GoTo(r, "putting") ELSE Return(r)
        /\ UNCHANGED <<stored, staging>>

\* The chunk is in the file: the offset moves on if it is still the one the
\* request has read, and the last chunk finalizes the upload.
Appended(r) ==
    LET u == Of(r)
        offset == task[r].offset + task[r].size
    IN  /\ task[r].at = "appending"
        /\ staging[u] = offset
        /\ IF Received(u) = task[r].offset
           THEN Write(u, [uploads[u] EXCEPT !.received = offset, !.lapsed = FALSE,
                             !.state = IF offset = Size[u] THEN "validating" ELSE "receiving"])
           ELSE UNCHANGED uploads
        /\ IF offset = Size[u] THEN GoTo(r, "putting") ELSE Return(r)
        /\ UNCHANGED <<stored, staging>>

\* The chunk is broken off, has the wrong length or checksum: the file is cut
\* back, if that works, and the offset stays.
AppendFails(r) ==
    /\ task[r].at = "appending"
    /\ staging' \in {staging, [staging EXCEPT ![Of(r)] = task[r].offset]}
    /\ Return(r)
    /\ UNCHANGED <<uploads, stored>>

-----------------------------------------------------------------------------
(* The end of an upload: its staging file goes when it is completed or     *)
(* rejected; a termination or an expiry removes the file, then the object, *)
(* then settles the rows.                                                  *)

StagingRemoved(r) ==
    /\ task[r].at = "cleaning"
    /\ staging' = [staging EXCEPT ![Of(r)] = NoFile]
    /\ Return(r)
    /\ UNCHANGED <<uploads, stored>>

Dropped(r) ==
    /\ task[r].at = "dropping"
    /\ staging' = [staging EXCEPT ![Of(r)] = NoFile]
    /\ Write(Of(r), [uploads[Of(r)] EXCEPT !.unhinged = TRUE])
    /\ GoTo(r, "erasing")
    /\ UNCHANGED stored

Erased(r) ==
    /\ task[r].at = "erasing" /\ stored[Of(r)] = 0
    /\ Write(Of(r), [Ended(uploads[Of(r)], task[r].ends) EXCEPT !.unhinged = FALSE])
    /\ Return(r)
    /\ UNCHANGED <<stored, staging>>

\* 24 hours pass without a chunk.
Lapse(u) ==
    /\ u \in Tus /\ uploads[u].state \in Open /\ ~uploads[u].lapsed
    /\ Write(u, [uploads[u] EXCEPT !.lapsed = TRUE])
    /\ UNCHANGED <<stored, staging, task>>

-----------------------------------------------------------------------------
(* reconcile, before the API listens.                                      *)

TusCandidates == {u \in Tus : uploads[u].state \in Open \union {"completed"}}

ReconcileTus(r, u) ==
    /\ Idle(r) /\ u \in TusCandidates
    /\ \/ uploads[u].state = "completed" /\ Begin(r, "reconcile", u, "cleaning") /\ UNCHANGED Lasting
       \/ uploads[u].state \in Open /\ uploads[u].lapsed /\ Expiring(r, u, "reconcile")
       \/ /\ uploads[u].state \in Open /\ ~uploads[u].lapsed
          /\ Begin(r, "reconcile", u, "sizing") /\ UNCHANGED Lasting

TusStep(r) ==
    \/ StagedPutLands(r)
    \/ FileCreated(r) \/ CreationFails(r)
    \/ FileLost(r) \/ TooLong(r) \/ RightLength(r) \/ Truncate(r)
    \/ ChunkLands(r) \/ Appended(r) \/ AppendFails(r)
    \/ StagingRemoved(r)
    \/ Dropped(r) \/ Erased(r)
=============================================================================
