----------------------------- MODULE Inspection -----------------------------
(***************************************************************************)
(* Workers decide whether an uploaded asset is what it claims to be        *)
(* (media/image-inspection-handler.ts for images,                          *)
(* media/non-image-inspection-handler.ts for videos and documents).  The   *)
(* completion of an upload queues one job for the asset; a worker reads    *)
(* the stored bytes and makes the asset ready or rejects it.  On the job   *)
(* ledger, a second worker may be given the job at any moment.             *)
(***************************************************************************)
EXTENDS JobLedger

CONSTANTS Images,   \* the jobs of images, the others being of videos and documents
          Sound     \* the jobs whose bytes their processor accepts within its limits

ASSUME InspectionAssumption == Images \subseteq Jobs /\ Sound \subseteq Jobs

VARIABLES asset,      \* assets.state, with asset_versions.state, which always agrees
          inspector

vars == <<ledger, asset, inspector>>

AssetStates == {"absent", "processing", "ready", "rejected"}
Inspector == [at : {"idle", "looking", "reading", "publishing", "rejecting", "done"},
              job : Jobs \union {NoWorker}, result : {"none", "ok", "retry", "reject"}]
IdleInspector == [at |-> "idle", job |-> NoWorker, result |-> "none"]

Init ==
    /\ LedgerInit
    /\ asset = [j \in Jobs |-> "absent"]
    /\ inspector = [w \in Workers |-> IdleInspector]

JobOf(w) == inspector[w].job
GoTo(w, at) == inspector' = [inspector EXCEPT ![w].at = at]
Ends(w, result) == inspector' = [inspector EXCEPT ![w].at = "done", ![w].result = result]

-----------------------------------------------------------------------------
\* UploadFinalizer.complete.
CompleteUpload(j) ==
    /\ Add(j)
    /\ asset' = [asset EXCEPT ![j] = "processing"]
    /\ UNCHANGED inspector

ClaimNext(w) ==
    /\ inspector[w].at = "idle"
    /\ \E swept \in SUBSET Exhaustible :
         \/ /\ swept # {}
            /\ Sweep(swept)
            /\ UNCHANGED inspector
         \/ \E j \in Startable :
              /\ Start(w, swept, j)
              /\ inspector' = [inspector EXCEPT ![w] =
                                 [at |-> "looking", job |-> j, result |-> "none"]]
    /\ UNCHANGED asset

\* An asset that is ready is left alone, any other that is not in processing is
\* refused.  reportProgress(10) throws without the job's lease.
Look(w) ==
    /\ inspector[w].at = "looking"
    /\ \/ asset[JobOf(w)] = "ready" /\ Ends(w, "ok")
       \/ asset[JobOf(w)] \notin {"ready", "processing"} /\ Ends(w, "reject")
       \/ asset[JobOf(w)] = "processing" /\ Owns(w, JobOf(w)) /\ GoTo(w, "reading")
       \/ asset[JobOf(w)] = "processing" /\ ~Owns(w, JobOf(w)) /\ Ends(w, "retry")
    /\ UNCHANGED <<ledger, asset>>

\* An error of the storage backend, which says whether a retry is worth it.
ReadingFails(w) ==
    /\ inspector[w].at = "reading"
    /\ \E result \in {"retry", "reject"} : Ends(w, result)
    /\ UNCHANGED <<ledger, asset>>

\* A mutant: the image decoder, too, takes its interruption for a defect.
InterruptedAsDefect(w) ==
    /\ inspector[w].at = "reading"
    /\ inspector' = [inspector EXCEPT ![w].at = "rejecting", ![w].result = "retry"]
    /\ UNCHANGED <<ledger, asset>>

\* The job's signal is aborted: by a shutdown, the job's deadline or the loss of
\* its lease.  The image decoder throws the signal's reason, and so does the
\* staging of other files; the commands that inspect those are killed and
\* report a MediaCommandError, which the handler takes for a defect.  Whatever
\* the handler throws, the runner does not take it for final.
Interrupted(w) ==
    /\ inspector[w].at = "reading"
    /\ \/ Ends(w, "retry")
       \/ /\ JobOf(w) \notin Images
          /\ inspector' = [inspector EXCEPT ![w].at = "rejecting", ![w].result = "retry"]
    /\ UNCHANGED <<ledger, asset>>

\* The processor accepts the bytes, and reportProgress(80) throws without the
\* lease; or it refuses them.
Judge(w) ==
    /\ inspector[w].at = "reading"
    /\ \/ JobOf(w) \in Sound /\ Owns(w, JobOf(w)) /\ GoTo(w, "publishing")
       \/ JobOf(w) \in Sound /\ ~Owns(w, JobOf(w)) /\ Ends(w, "retry")
       \/ /\ JobOf(w) \notin Sound
          /\ inspector' = [inspector EXCEPT ![w].at = "rejecting", ![w].result = "reject"]
    /\ UNCHANGED <<ledger, asset>>

\* A mutant: publication does not look at the state.
PublishAny(w) ==
    /\ inspector[w].at = "publishing"
    /\ asset' = [asset EXCEPT ![JobOf(w)] = "ready"]
    /\ Ends(w, "ok")
    /\ UNCHANGED ledger

Publish(w) ==
    /\ inspector[w].at = "publishing"
    /\ asset' = [asset EXCEPT ![JobOf(w)] = IF @ = "processing" THEN "ready" ELSE @]
    /\ Ends(w, "ok")
    /\ UNCHANGED ledger

\* reject looks neither at the asset nor at the lease.
RejectAsset(w) ==
    /\ inspector[w].at = "rejecting"
    /\ asset' = [asset EXCEPT ![JobOf(w)] = "rejected"]
    /\ Ends(w, inspector[w].result)
    /\ UNCHANGED ledger

\* A mutant: the handler resolves all the same.
WriteFailsSilently(w) ==
    /\ inspector[w].at \in {"publishing", "rejecting"}
    /\ Ends(w, "ok")
    /\ UNCHANGED <<ledger, asset>>

\* The transaction of either fails.
WriteFails(w) ==
    /\ inspector[w].at \in {"publishing", "rejecting"}
    /\ Ends(w, "retry")
    /\ UNCHANGED <<ledger, asset>>

Settle(w) ==
    /\ inspector[w].at = "done"
    /\ Settles(w, JobOf(w), inspector[w].result)
    /\ inspector' = [inspector EXCEPT ![w] = IdleInspector]
    /\ UNCHANGED asset

WorkerDies(w) ==
    /\ inspector[w].at # "idle"
    /\ inspector' = [inspector EXCEPT ![w] = IdleInspector]
    /\ UNCHANGED <<ledger, asset>>

Next ==
    \/ \E j \in Jobs : CompleteUpload(j)
    \/ \E w \in Workers : \/ ClaimNext(w)
                          \/ Look(w)
                          \/ ReadingFails(w)
                          \/ Interrupted(w)
                          \/ Judge(w)
                          \/ Publish(w)
                          \/ RejectAsset(w)
                          \/ WriteFails(w)
                          \/ Settle(w)
                          \/ WorkerDies(w)

Spec == Init /\ [][Next]_vars

\* A worker that runs goes on, and polls; one that has died is started again.  Whether
\* reading or writing fails, and who dies when, is left to chance.
Goes(w) ==
    ClaimNext(w) \/ Look(w) \/ Judge(w) \/ Publish(w) \/ RejectAsset(w) \/ Settle(w)

FairSpec == Spec /\ \A w \in Workers : WF_vars(Goes(w))

-----------------------------------------------------------------------------
(* Properties.                                                             *)

\* Rows and handlers hold values of their types.
TypeOK ==
    /\ ledger \in [Jobs -> Entry]
    /\ asset \in [Jobs -> AssetStates]
    /\ inspector \in [Workers -> Inspector]

\* A rejection is final: a worker that was slow to publish does not bring the
\* asset back.
RejectedIsFinal ==
    [][\A j \in Jobs : asset[j] = "rejected" => asset'[j] = "rejected"]_vars

\* Images are rejected for their bytes only, whatever deadlines, shutdowns and lost
\* leases interrupt their inspections.
ImagesAreJudged == \A j \in Images : asset[j] = "rejected" => j \notin Sound

\* A job that succeeded has left its asset judged, and the image of one ready,
\* even if another worker was at it at the same time.
SucceededIsJudged ==
    \A j \in Jobs : ledger[j].state = "succeeded" =>
        asset[j] = "ready" \/ (j \notin Images /\ asset[j] = "rejected")

\* No upload is left in processing: its asset is judged, or its job is seen to have
\* failed, though workers may die, be interrupted or fail to write in every attempt.
UploadsAreSettled ==
    \A j \in Jobs : asset[j] = "processing" ~> asset[j] # "processing" \/ ledger[j].state = "failed"

\* jobs-runner.test.ts: interrupted work is left for recovery.  An asset whose
\* bytes its processor accepts is not rejected.
SoundIsNotRejected == \A j \in Sound : asset[j] # "rejected"
=============================================================================
