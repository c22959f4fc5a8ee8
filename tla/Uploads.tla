------------------------------ MODULE Uploads ------------------------------
(***************************************************************************)
(* The uploads of one project, simple and resumable ones together, through *)
(* deaths and starts of the API (index.ts).                                *)
(***************************************************************************)
EXTENDS SimpleUploads, TusUploads

CONSTANTS ReconcileLimit,    \* how many uploads each reconciliation looks at
          MaxCrashes         \* bound: number of deaths of the API

\* uploads.protocol is one of the two.
ASSUME ProtocolAssumption == Simple \intersect Tus = {}

VARIABLES api,       \* what the process is doing
          backlog,   \* the candidates the running reconciliation has yet to take
          crashes

vars == <<uploads, stored, task, staging, api, backlog, crashes>>
process == <<api, backlog, crashes>>

Init ==
    /\ uploads = [u \in Uploads |-> AbsentUpload]
    /\ stored = [u \in Uploads |-> 0]
    /\ task = [r \in Requests |-> NoTask]
    /\ staging = [u \in Uploads |-> NoFile]
    /\ api = "up" /\ backlog = {} /\ crashes = 0

\* The uploads whose put the process is in the middle of.
Putting == {Of(r) : r \in {q \in Requests : task[q].at = "putting"}}

\* A put dies with the process, or its last request is on its way.
Crash ==
    /\ api # "down"
    /\ crashes < MaxCrashes
    /\ crashes' = crashes + 1
    /\ api' = "down" /\ backlog' = {}
    /\ task' = [r \in Requests |-> NoTask]
    /\ \E late \in SUBSET {u \in Putting : stored[u] = 0} :
         uploads' = [u \in Uploads |-> IF u \in late THEN [uploads[u] EXCEPT !.late = TRUE]
                                       ELSE uploads[u]]
    /\ UNCHANGED <<stored, staging>>

\* The selections have a limit and no order.
Selections(S) ==
    {B \in SUBSET S : Cardinality(B) <= ReconcileLimit
                      /\ (B = S \/ Cardinality(B) = ReconcileLimit)}

Start ==
    /\ api = "down"
    /\ api' = "reconciling tus"
    /\ backlog' \in Selections(TusCandidates)
    /\ UNCHANGED <<crashes, task>> /\ UNCHANGED Lasting

Quiet == \A r \in Requests : Idle(r)

\* Only uploads that nobody has written for UPLOAD_STALE_AFTER_MS are selected.
SweepSimple ==
    /\ api = "reconciling tus" /\ backlog = {} /\ Quiet
    /\ api' = "reconciling simple"
    /\ \E stale \in SUBSET Candidates : backlog' \in Selections(stale)
    /\ UNCHANGED <<crashes, task>> /\ UNCHANGED Lasting

Listen ==
    /\ api = "reconciling simple" /\ backlog = {} /\ Quiet
    /\ api' = "up"
    /\ UNCHANGED <<backlog, crashes, task>> /\ UNCHANGED Lasting

\* One candidate after the other.
TakeNext(r) ==
    /\ Quiet
    /\ \E u \in backlog :
         /\ backlog' = backlog \ {u}
         /\ \/ api = "reconciling tus" /\ ReconcileTus(r, u)
            \/ api = "reconciling simple" /\ Reconcile(r, u) /\ UNCHANGED staging
    /\ UNCHANGED <<api, crashes>>

Request(r) ==
    /\ api = "up"
    /\ \E u \in Uploads :
         \/ Reserve(r, u) /\ UNCHANGED staging
         \/ CreateTus(r, u)
         \/ \E call \in {"head", "patch", "delete"} : RequestTus(r, u, call)
         \/ TerminateCompleted(r, u)
    /\ UNCHANGED process

Next ==
    \/ \E r \in Requests :
         \/ Request(r)
         \/ TakeNext(r)
         \/ (FinalizerStep(r) \/ SimpleStep(r)) /\ UNCHANGED staging /\ UNCHANGED process
         \/ TusStep(r) /\ UNCHANGED process
    \/ \E u \in Uploads :
         \/ Inspect(u) /\ UNCHANGED staging /\ UNCHANGED process
         \/ Lapse(u) /\ UNCHANGED process
         \/ LateLands(u) /\ UNCHANGED staging /\ UNCHANGED process
    \/ Crash \/ Start \/ SweepSimple \/ Listen

Spec == Init /\ [][Next]_vars

-----------------------------------------------------------------------------
(* Properties.                                                             *)

\* The rows, the files and the requests hold values of their types.
UploadTypeOK ==
    /\ uploads \in [Uploads -> UploadRow]
    /\ stored \in [Uploads -> 0..MaxBytes]
    /\ task \in [Requests -> Task]
    /\ staging \in [Uploads -> (0..MaxBytes) \union {NoFile}]
    /\ backlog \subseteq Uploads

\* Where an upload stands with the quota.
Standing(row) == CASE row.object = "available" -> "held"
                   [] row.object # "available" /\ row.state \in Open -> "reserved"
                   [] row.object # "available" /\ row.state = "absent" -> "none"
                   [] OTHER -> "released"

Account == [u \in Uploads |-> Standing(uploads[u])]

Ledger == INSTANCE QuotaLedger WITH account <- Account

\* Every reservation is made within the quota and ends once: as an available
\* original, which then stays, or given back for good.
ImplementsQuotaLedger == Ledger!Spec

\* Stored originals and the reservations of open uploads never exceed the quota
\* of the project, whatever reservations are made while others are completed,
\* refused, expired, terminated or cleaned up after a crash.
QuotaHeld == Total(Holding) + Total(Reserving) <= Quota

\* An asset that is offered to the workers, and to readers once they accept it,
\* has an available original: all its bytes, of the declared type, with a
\* single inspection job.  No request or retry takes the bytes away again.
PublishedIsWhole ==
    \A u \in Uploads :
        /\ uploads[u].object = "available" =>
              /\ stored[u] = Size[u] /\ uploads[u].content = "declared"
              /\ uploads[u].inspections = 1
              /\ uploads[u].state \in {"completed", "terminated"}
        /\ uploads[u].asset \in {"processing", "ready"} => uploads[u].object = "available"

\* Bytes whose row calls them deleted are gone, with two exceptions.  A
\* termination or an expiry removes the staging file and then fails or dies: the
\* next request finds the file missing and settles the rows without looking for
\* the object.  And a put to S3 is given up, the cleanup finds nothing to delete,
\* and then the completion is served.
DeletedIsGone ==
    \A u \in Uploads :
        uploads[u].object = "deleted" /\ stored[u] # 0
            => uploads[u].unhinged \/ uploads[u].late

\* The offset that a resumable upload reports is on disk, whatever was lost: a
\* staging file is never shorter than received_bytes.
OffsetIsDurable ==
    \A u \in Tus : staging[u] # NoFile => uploads[u].received <= staging[u]

\* An upload ends once: a client that was told of an outcome never finds another
\* one, except that it may terminate what is completed; and an upload that has
\* ended otherwise never comes by an asset that goes on.
EndsOnce ==
    [][\A u \in Uploads :
         uploads[u].state \notin Open \union {"absent"} =>
            /\ \/ uploads'[u].state = uploads[u].state
               \/ uploads[u].state = "completed" /\ uploads'[u].state = "terminated"
            /\ uploads'[u].inspections = uploads[u].inspections]_vars
=============================================================================
