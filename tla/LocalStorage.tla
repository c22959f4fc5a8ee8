---------------------------- MODULE LocalStorage ----------------------------
(***************************************************************************)
(* The local backend (storage/local-storage.ts): a put writes a staging    *)
(* file, syncs it, links it under the object's name, which fails if the    *)
(* name is taken, unlinks the staging name and syncs the directory.        *)
(*                                                                         *)
(* The keys are those of one directory.  A host that loses power keeps     *)
(* what was synced; of each other name it keeps the synced state or the    *)
(* last one, of an unsynced file all or nothing, and a directory that put  *)
(* has made, and never syncs, may be gone.                                 *)
(***************************************************************************)
EXTENDS StoragePort

CONSTANTS Deletes,     \* calls of delete
          Doomed       \* the key that each of them deletes

ASSUME DeleteAssumption == Doomed \in [Deletes -> Keys]

VARIABLES putAt,       \* where each put stands
          deleteAt,    \* where each delete stands
          written,     \* the chunks in the file of each put
          synced,      \* the puts whose file is on the disk
          dir,         \* the names in the directory
          disk,        \* the names in it when it was last synced
          fresh,       \* whether the directory was made since the host last started
          linked       \* history: the puts that have linked their file

localVars == <<putAt, deleteAt, written, synced, dir, disk, fresh, linked>>

Running == {"staging", "verified", "synced", "linked", "unlinked", "cleaning"}
PutPlaces == Running \union {"idle", "stored", "failed"}
DeletePlaces == {"idle", "removed", "deleted", "failed"}

\* stage: the puts whose staging file has its name.
Directory == [stage : SUBSET Puts, object : [Keys -> Puts \union {Nothing}]]
Empty == [stage |-> {}, object |-> [k \in Keys |-> Nothing]]

LocalInit ==
    /\ putAt = [p \in Puts |-> "idle"] /\ deleteAt = [d \in Deletes |-> "idle"]
    /\ written = [p \in Puts |-> 0] /\ synced = {}
    /\ dir = Empty /\ disk = Empty
    /\ fresh \in BOOLEAN
    /\ linked = {}

PutGoes(p, place) == putAt' = [putAt EXCEPT ![p] = place]

\* The staging file is created with O_EXCL under a name of its own.
OpenStaging(p) ==
    /\ putAt[p] = "idle"
    /\ PutGoes(p, "staging")
    /\ dir' = [dir EXCEPT !.stage = @ \union {p}]
    /\ UNCHANGED <<deleteAt, written, synced, disk, fresh, linked>>

WriteChunk(p) ==
    /\ putAt[p] = "staging"
    /\ written[p] < Length[p]
    /\ written' = [written EXCEPT ![p] = @ + 1]
    /\ UNCHANGED <<putAt, deleteAt, synced, dir, disk, fresh, linked>>

\* The size and the digest are compared when the source has ended.
Verify(p) ==
    /\ putAt[p] = "staging"
    /\ written[p] = Length[p]
    /\ PutGoes(p, IF p \in Sound THEN "verified" ELSE "cleaning")
    /\ UNCHANGED <<deleteAt, written, synced, dir, disk, fresh, linked>>

SyncFile(p) ==
    /\ putAt[p] = "verified"
    /\ PutGoes(p, "synced")
    /\ synced' = synced \union {p}
    /\ UNCHANGED <<deleteAt, written, dir, disk, fresh, linked>>

Link(p) ==
    /\ putAt[p] = "synced"
    /\ IF dir.object[Key[p]] = Nothing
       THEN /\ PutGoes(p, "linked")
            /\ dir' = [dir EXCEPT !.object[Key[p]] = p]
            /\ linked' = linked \union {p}
       ELSE PutGoes(p, "cleaning") /\ UNCHANGED <<dir, linked>>
    /\ UNCHANGED <<deleteAt, written, synced, disk, fresh>>

UnlinkStaging(p) ==
    /\ putAt[p] = "linked"
    /\ PutGoes(p, "unlinked")
    /\ dir' = [dir EXCEPT !.stage = @ \ {p}]
    /\ UNCHANGED <<deleteAt, written, synced, disk, fresh, linked>>

\* A mutant: the directory is not synced.
ReturnUnsynced(p) ==
    /\ putAt[p] = "unlinked"
    /\ PutGoes(p, "stored")
    /\ UNCHANGED <<deleteAt, written, synced, dir, disk, fresh, linked>>

SyncDirectory(p) ==
    /\ putAt[p] = "unlinked"
    /\ PutGoes(p, "stored")
    /\ disk' = dir
    /\ UNCHANGED <<deleteAt, written, synced, dir, fresh, linked>>

\* The source, the signal or a system call fails.
PutFails(p) ==
    /\ putAt[p] \in Running \ {"cleaning"}
    /\ PutGoes(p, "cleaning")
    /\ UNCHANGED <<deleteAt, written, synced, dir, disk, fresh, linked>>

\* The catch block unlinks the staging file, if it can, and not the object.
CleanStaging(p) ==
    /\ putAt[p] = "cleaning"
    /\ PutGoes(p, "failed")
    /\ \E removed \in {{}, {p}} : dir' = [dir EXCEPT !.stage = @ \ removed]
    /\ UNCHANGED <<deleteAt, written, synced, disk, fresh, linked>>

\* An object that is not there counts as deleted, and nothing is synced.
UnlinkObject(d) ==
    /\ deleteAt[d] = "idle"
    /\ IF dir.object[Doomed[d]] = Nothing
       THEN deleteAt' = [deleteAt EXCEPT ![d] = "deleted"] /\ UNCHANGED dir
       ELSE /\ deleteAt' = [deleteAt EXCEPT ![d] = "removed"]
            /\ dir' = [dir EXCEPT !.object[Doomed[d]] = Nothing]
    /\ UNCHANGED <<putAt, written, synced, disk, fresh, linked>>

FinishDelete(d) ==
    /\ deleteAt[d] = "removed"
    /\ \/ deleteAt' = [deleteAt EXCEPT ![d] = "deleted"] /\ disk' = dir
       \/ deleteAt' = [deleteAt EXCEPT ![d] = "failed"] /\ UNCHANGED disk
    /\ UNCHANGED <<putAt, written, synced, dir, fresh, linked>>

\* What runs ends without an answer.
Stopped ==
    /\ putAt' = [p \in Puts |-> IF putAt[p] \in Running THEN "failed" ELSE putAt[p]]
    /\ deleteAt' = [d \in Deletes |-> IF deleteAt[d] = "removed" THEN "failed" ELSE deleteAt[d]]

ProcessDies ==
    /\ \E p \in Puts : putAt[p] \in Running
    /\ Stopped
    /\ UNCHANGED <<written, synced, dir, disk, fresh, linked>>

PowerLoss ==
    /\ \E p \in Puts : putAt[p] # "idle"
    /\ Stopped
    /\ \/ /\ \E stage \in SUBSET (dir.stage \union disk.stage), object \in [Keys -> Puts \union {Nothing}] :
               /\ dir.stage \intersect disk.stage \subseteq stage
               /\ \A k \in Keys : object[k] \in {dir.object[k], disk.object[k]}
               /\ dir' = [stage |-> stage, object |-> object]
          /\ fresh' = FALSE
       \/ fresh /\ dir' = Empty /\ UNCHANGED fresh
    /\ disk' = dir'
    /\ \E cut \in SUBSET (Puts \ synced) :
         written' = [p \in Puts |-> IF p \in cut THEN 0 ELSE written[p]]
    /\ UNCHANGED <<synced, linked>>

LocalNext ==
    \/ \E p \in Puts : \/ OpenStaging(p)
                       \/ WriteChunk(p)
                       \/ Verify(p)
                       \/ SyncFile(p)
                       \/ Link(p)
                       \/ UnlinkStaging(p)
                       \/ SyncDirectory(p)
                       \/ PutFails(p)
                       \/ CleanStaging(p)
    \/ \E d \in Deletes : UnlinkObject(d) \/ FinishDelete(d)
    \/ ProcessDies
    \/ PowerLoss

LocalSpec == LocalInit /\ [][LocalNext]_localVars

-----------------------------------------------------------------------------
(* What the port shows of it.                                              *)

Whole(p) == p \in Sound /\ written[p] = Length[p]

\* A name whose file is not whole is an object of nobody.
LocalObjects ==
    [k \in Keys |-> IF dir.object[k] = Nothing \/ Whole(dir.object[k]) THEN dir.object[k] ELSE "broken"]

LocalAnswers ==
    [p \in Puts |-> IF putAt[p] \in {"stored", "failed"} THEN putAt[p] ELSE "nothing"]

\* An object that put has returned goes only by a delete, or with a directory
\* that was made since the host started: a crash or a loss of power between any
\* two of the calls of put and delete does not take it (put syncs the file before
\* the name, and the name before it returns).
StoredIsDurable ==
    [][\A p \in Puts :
         /\ putAt[p] = "stored" /\ dir.object[Key[p]] = p
         /\ dir'.object[Key[p]] # p \/ written'[p] # Length[p]
         => \/ \E d \in Deletes : Doomed[d] = Key[p] /\ deleteAt[d] = "idle" /\ deleteAt'[d] = "removed"
            \/ fresh]_localVars
=============================================================================
