-------------------------- MODULE StorageBackends --------------------------
(* The backend that the configuration names (storage/factory.ts), behind the *)
(* port that the services call.                                              *)
EXTENDS LocalStorage, S3Storage

VARIABLE backend

backendVars == <<localVars, s3Vars, backend>>

BackendInit ==
    /\ LocalInit
    /\ S3Init
    /\ backend \in {"local", "s3"}

BackendNext ==
    /\ \/ backend = "local" /\ LocalNext /\ UNCHANGED s3Vars
       \/ backend = "s3" /\ S3Next /\ UNCHANGED localVars
    /\ UNCHANGED backend

BackendSpec == BackendInit /\ [][BackendNext]_backendVars

Objects == IF backend = "local" THEN LocalObjects ELSE bucket
Answers == IF backend = "local" THEN LocalAnswers ELSE S3Answers

Landed == IF backend = "local" THEN linked ELSE filled

Port == INSTANCE ObjectStore WITH objects <- Objects, answered <- Answers, landed <- Landed

\* Either backend stores an object whole or not at all, never over another, and
\* says that it is stored only when it is: whatever parts, workers, resent or
\* late requests, failures of any call, deaths and losses of power do to a put.
ImplementsObjectStore == Port!Spec
=============================================================================
