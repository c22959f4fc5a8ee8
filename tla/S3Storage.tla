----------------------------- MODULE S3Storage -----------------------------
(***************************************************************************)
(* The S3 backend (storage/s3-storage.ts): a put opens a multipart upload, *)
(* sends the parts of its source by several workers at a time, compares    *)
(* size and digest and completes the upload on the condition that the key  *)
(* is free.  A source without bytes is put in a single request instead.    *)
(*                                                                         *)
(* The client resends a request whose response is lost; a request that the *)
(* client has given up may still be served.                                *)
(***************************************************************************)
EXTENDS StoragePort, FiniteSets

CONSTANTS Concurrency,   \* multipartConcurrency
          MaxAttempts    \* of the client, for one request

ASSUME ClientAssumption == Concurrency \in Nat \ {0} /\ MaxAttempts \in Nat \ {0}

VARIABLES upload,        \* the calls of put
          multipart,     \* the multipart uploads of the service
          pending,       \* by put, the final requests that are not served yet
          bucket,        \* the objects
          filled         \* history: the puts whose object the bucket has had

s3Vars == <<upload, multipart, pending, bucket, filled>>

\* sending: part numbers with the part of the source that each carries.
Call == [at : {"idle", "uploading", "emptying", "final", "aborting", "stored", "failed"},
         taken : Nat, sending : SUBSET (Nat \X Nat), sent : Nat, reply : {"none", "done", "refused"}]
IdleCall == [at |-> "idle", taken |-> 0, sending |-> {}, sent |-> 0, reply |-> "none"]
Multipart == [state : {"none", "open", "aborted", "completed"}, parts : SUBSET (Nat \X Nat)]

S3Init ==
    /\ upload = [p \in Puts |-> IdleCall]
    /\ multipart = [p \in Puts |-> [state |-> "none", parts |-> {}]]
    /\ pending = [p \in Puts |-> 0]
    /\ bucket = [k \in Keys |-> Nothing]
    /\ filled = {}

At(p) == upload[p].at
CallGoes(p, place) == upload' = [upload EXCEPT ![p].at = place]

\* If the response is lost, an upload stays open that nobody names.
CreateMultipart(p) ==
    /\ At(p) = "idle"
    /\ \E state \in {"none", "open"}, place \in {"uploading", "failed"} :
         /\ place = "uploading" => state = "open"
         /\ multipart' = [multipart EXCEPT ![p].state = state]
         /\ CallGoes(p, place)
    /\ UNCHANGED <<pending, bucket, filled>>

\* A mutant: the number is read when the part is there, not when it is taken.
NumberBySending(p) ==
    /\ At(p) = "uploading"
    /\ upload[p].taken < Length[p]
    /\ Cardinality(upload[p].sending) < Concurrency
    /\ upload' = [upload EXCEPT ![p].taken = @ + 1,
                                ![p].sending = @ \union {<<Cardinality(multipart[p].parts) + 1, upload[p].taken + 1>>}]
    /\ UNCHANGED <<multipart, pending, bucket, filled>>

\* The workers share one iterator, which answers them in the order of their calls;
\* the number is taken in the turn in which the part arrives.
TakePart(p) ==
    LET next == upload[p].taken + 1
    IN  /\ At(p) = "uploading"
        /\ next <= Length[p]
        /\ Cardinality(upload[p].sending) < Concurrency
        /\ upload' = [upload EXCEPT ![p].taken = next, ![p].sending = @ \union {<<next, next>>}]
        /\ UNCHANGED <<multipart, pending, bucket, filled>>

PartArrives(p) ==
    /\ At(p) = "uploading"
    /\ \E part \in upload[p].sending :
         /\ multipart' = [multipart EXCEPT ![p].parts = {q \in @ : q[1] # part[1]} \union {part}]
         /\ upload' = [upload EXCEPT ![p].sending = @ \ {part}]
    /\ UNCHANGED <<pending, bucket, filled>>

\* integrity.complete, after all workers have ended.
CompareDigest(p) ==
    /\ At(p) = "uploading"
    /\ upload[p].taken = Length[p] /\ upload[p].sending = {}
    /\ CallGoes(p, IF p \notin Sound THEN "aborting" ELSE IF Length[p] = 0 THEN "emptying" ELSE "final")
    /\ UNCHANGED <<multipart, pending, bucket, filled>>

\* A part, the source or the signal fails: the other workers are aborted.
UploadFails(p) ==
    /\ At(p) = "uploading"
    /\ upload' = [upload EXCEPT ![p].at = "aborting", ![p].sending = {}]
    /\ UNCHANGED <<multipart, pending, bucket, filled>>

\* #abortMultipart swallows its errors.
AbortMultipart(p) ==
    /\ At(p) \in {"emptying", "aborting"}
    /\ CallGoes(p, IF At(p) = "emptying" THEN "final" ELSE "failed")
    /\ \E state \in {multipart[p].state, "aborted"} :
         /\ multipart[p].state # "open" => state = multipart[p].state
         /\ multipart' = [multipart EXCEPT ![p].state = state]
    /\ UNCHANGED <<pending, bucket, filled>>

\* CompleteMultipartUpload or PutObject, sent and sent again.
SendFinal(p) ==
    /\ At(p) = "final" /\ upload[p].reply = "none"
    /\ upload[p].sent < MaxAttempts
    /\ upload' = [upload EXCEPT ![p].sent = @ + 1]
    /\ pending' = [pending EXCEPT ![p] = @ + 1]
    /\ UNCHANGED <<multipart, bucket, filled>>

\* What the listed parts make up is the source if each stands at its place.
InOrder(p) == multipart[p].parts = {<<n, n>> : n \in 1 .. Length[p]}
Assembled(p) == IF InOrder(p) THEN p ELSE "broken"

\* IfNoneMatch, and an upload is completed once.
Accepts(p) ==
    /\ bucket[Key[p]] = Nothing
    /\ Length[p] = 0 \/ multipart[p].state = "open"

Store(p) ==
    /\ bucket' = [bucket EXCEPT ![Key[p]] = Assembled(p)]
    /\ filled' = filled \union {p}
    /\ multipart' = IF Length[p] = 0 THEN multipart ELSE [multipart EXCEPT ![p].state = "completed"]

\* The service serves a request; a call that still waits may or may not hear of it.
Serve(p) ==
    /\ pending[p] > 0
    /\ pending' = [pending EXCEPT ![p] = @ - 1]
    /\ IF Accepts(p) THEN Store(p) ELSE UNCHANGED <<multipart, bucket, filled>>
    /\ \/ UNCHANGED upload
       \/ /\ At(p) = "final" /\ upload[p].reply = "none"
          /\ upload' = [upload EXCEPT ![p].reply = IF Accepts(p) THEN "done" ELSE "refused"]

\* A refusal is final, and so is the last attempt; the upload is aborted, but not
\* the request that may still be under way.
FinalEnds(p) ==
    /\ At(p) = "final"
    /\ \/ upload[p].reply = "done" /\ CallGoes(p, "stored")
       \/ upload[p].reply # "done" /\ CallGoes(p, IF Length[p] = 0 THEN "failed" ELSE "aborting")
    /\ UNCHANGED <<multipart, pending, bucket, filled>>

DeleteObject(k) ==
    /\ bucket[k] # Nothing
    /\ bucket' = [bucket EXCEPT ![k] = Nothing]
    /\ UNCHANGED <<upload, multipart, pending, filled>>

\* The process dies; what it has sent may still be served.
ClientDies ==
    /\ \E p \in Puts : At(p) \notin {"idle", "stored", "failed"}
    /\ upload' = [p \in Puts |-> IF At(p) \in {"idle", "stored"} THEN upload[p]
                                 ELSE [upload[p] EXCEPT !.at = "failed", !.sending = {}]]
    /\ UNCHANGED <<multipart, pending, bucket, filled>>

S3Next ==
    \/ \E p \in Puts : \/ CreateMultipart(p)
                       \/ TakePart(p)
                       \/ PartArrives(p)
                       \/ CompareDigest(p)
                       \/ UploadFails(p)
                       \/ AbortMultipart(p)
                       \/ SendFinal(p)
                       \/ Serve(p)
                       \/ FinalEnds(p)
    \/ \E k \in Keys : DeleteObject(k)
    \/ ClientDies

S3Spec == S3Init /\ [][S3Next]_s3Vars

-----------------------------------------------------------------------------
(* What the port shows of it.                                              *)

S3Answers ==
    [p \in Puts |-> IF At(p) \in {"stored", "failed"} THEN At(p) ELSE "nothing"]
=============================================================================
