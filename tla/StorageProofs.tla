---------------------------- MODULE StorageProofs ----------------------------
(***************************************************************************)
(* Theorems about the storage backends, for any puts, keys, lengths and    *)
(* deletes: both implement the port, and the local one keeps what it has   *)
(* said to be stored.                                                      *)
(***************************************************************************)
EXTENDS StorageBackends, TLAPS

-----------------------------------------------------------------------------
(* The local backend.                                                      *)

LocalTypeOK ==
    /\ putAt \in [Puts -> PutPlaces]
    /\ deleteAt \in [Deletes -> DeletePlaces]
    /\ written \in [Puts -> Nat]
    /\ synced \subseteq Puts /\ linked \subseteq Puts
    /\ dir \in Directory /\ disk \in Directory
    /\ fresh \in BOOLEAN

BeforeSync == {"idle", "staging", "verified"}
BeforeLink == BeforeSync \union {"synced"}
AfterLink == {"linked", "unlinked", "stored"}

\* A file is on the disk before its name is in the directory, and whole before it
\* is on the disk.
FileOK(p) ==
    /\ putAt[p] \in BeforeSync => p \notin synced
    /\ putAt[p] \in BeforeLink => p \notin linked
    /\ putAt[p] \in AfterLink => p \in linked
    /\ putAt[p] = "verified" => p \in Sound /\ written[p] = Length[p]
    /\ putAt[p] = "synced" => p \in synced
    /\ p \in linked => p \in synced
    /\ p \in synced => p \in Sound /\ written[p] = Length[p]

NamesOK(object, files) ==
    \A k \in Keys : object[k] # Nothing => object[k] \in files /\ Key[object[k]] = k

LocalInv ==
    /\ LocalTypeOK
    /\ \A p \in Puts : FileOK(p)
    /\ NamesOK(dir.object, linked) /\ NamesOK(disk.object, linked)

LEMMA PutGoesType ==
    ASSUME LocalInv, NEW p \in Puts, NEW place \in PutPlaces, PutGoes(p, place)
    PROVE  /\ putAt' \in [Puts -> PutPlaces] /\ putAt'[p] = place
           /\ \A q \in Puts \ {p} : putAt'[q] = putAt[q]
BY DEF LocalInv, LocalTypeOK, PutGoes

\* A step of one put is about its own file.
LEMMA OneFile ==
    ASSUME LocalInv, NEW p \in Puts, NEW place \in PutPlaces, PutGoes(p, place),
           UNCHANGED <<deleteAt, fresh>>,
           written' \in [Puts -> Nat], \A q \in Puts \ {p} : written'[q] = written[q],
           synced' \in {synced, synced \union {p}},
           linked' \in {linked, linked \union {p}},
           dir' \in Directory, disk' \in Directory,
           NamesOK(dir'.object, linked'), NamesOK(disk'.object, linked'),
           (FileOK(p))'
    PROVE  LocalInv'
<1>1. /\ putAt' \in [Puts -> PutPlaces]
      /\ \A q \in Puts \ {p} : putAt'[q] = putAt[q]
  BY PutGoesType
<1>2. \A q \in Puts \ {p} : /\ q \in synced' <=> q \in synced
                            /\ q \in linked' <=> q \in linked
  OBVIOUS
<1>3. \A q \in Puts \ {p} : (FileOK(q))'
  BY <1>1, <1>2 DEF LocalInv, FileOK
<1>4. LocalTypeOK'
  BY <1>1 DEF LocalInv, LocalTypeOK
<1> QED
  BY <1>3, <1>4 DEF LocalInv

LEMMA OpenStagingInv ==
    ASSUME LocalInv, NEW p \in Puts, OpenStaging(p)
    PROVE  LocalInv'
<1>1. PutGoes(p, "staging") /\ "staging" \in PutPlaces
  BY DEF OpenStaging, PutPlaces, Running
<1>2. dir' \in Directory /\ dir'.object = dir.object
  BY DEF OpenStaging, LocalInv, LocalTypeOK, Directory
<1>3. putAt'[p] = "staging" /\ FileOK(p) /\ putAt[p] = "idle"
  BY <1>1, PutGoesType DEF LocalInv, OpenStaging
<1>4. (FileOK(p))'
  BY <1>3 DEF FileOK, OpenStaging, BeforeSync, BeforeLink, AfterLink
<1> QED
  BY <1>1, <1>2, <1>4, OneFile DEF OpenStaging, LocalInv, LocalTypeOK

LEMMA WriteChunkInv ==
    ASSUME LocalInv, NEW p \in Puts, WriteChunk(p)
    PROVE  LocalInv'
<1>1. FileOK(p) /\ putAt[p] = "staging" /\ p \notin synced /\ p \notin linked
  BY DEF LocalInv, WriteChunk, FileOK, BeforeSync, BeforeLink
<1>2. /\ written' \in [Puts -> Nat] /\ \A q \in Puts \ {p} : written'[q] = written[q]
      /\ UNCHANGED <<putAt, deleteAt, synced, dir, disk, fresh, linked>>
  BY DEF LocalInv, LocalTypeOK, WriteChunk
<1>3. \A q \in Puts : (FileOK(q))'
  BY <1>1, <1>2 DEF LocalInv, FileOK, BeforeSync, BeforeLink, AfterLink
<1> QED
  BY <1>2, <1>3 DEF LocalInv, LocalTypeOK

LEMMA VerifyInv ==
    ASSUME LocalInv, NEW p \in Puts, Verify(p)
    PROVE  LocalInv'
<1> DEFINE place == IF p \in Sound THEN "verified" ELSE "cleaning"
<1>1. PutGoes(p, place) /\ place \in PutPlaces
  BY DEF Verify, PutPlaces, Running
<1>2. putAt'[p] = place /\ FileOK(p) /\ putAt[p] = "staging" /\ written[p] = Length[p]
  BY <1>1, PutGoesType DEF LocalInv, Verify
<1>3. (FileOK(p))'
  BY <1>2 DEF FileOK, Verify, BeforeSync, BeforeLink, AfterLink
<1> QED
  BY <1>1, <1>3, OneFile DEF Verify, LocalInv, LocalTypeOK

LEMMA SyncFileInv ==
    ASSUME LocalInv, NEW p \in Puts, SyncFile(p)
    PROVE  LocalInv'
<1>1. PutGoes(p, "synced") /\ "synced" \in PutPlaces
  BY DEF SyncFile, PutPlaces, Running
<1>2. putAt'[p] = "synced" /\ FileOK(p) /\ putAt[p] = "verified" /\ p \in synced'
  BY <1>1, PutGoesType DEF LocalInv, SyncFile
<1>3. (FileOK(p))'
  BY <1>2 DEF FileOK, SyncFile, BeforeSync, BeforeLink, AfterLink
<1> QED
  BY <1>1, <1>3, OneFile DEF SyncFile, LocalInv, LocalTypeOK

LEMMA LinkInv ==
    ASSUME LocalInv, NEW p \in Puts, Link(p)
    PROVE  LocalInv'
<1>1. FileOK(p) /\ putAt[p] = "synced" /\ p \in synced /\ Key[p] \in Keys /\ dir \in Directory
  BY PutAssumption DEF LocalInv, Link, FileOK, LocalTypeOK
<1>2. CASE dir.object[Key[p]] = Nothing
  <2>1. /\ PutGoes(p, "linked") /\ "linked" \in PutPlaces
        /\ dir' = [dir EXCEPT !.object[Key[p]] = p] /\ linked' = linked \union {p}
    BY <1>2 DEF Link, PutPlaces, Running
  <2>2. /\ dir'.object = [dir.object EXCEPT ![Key[p]] = p] /\ dir'.stage = dir.stage
        /\ dir' \in Directory
    BY <1>1, <2>1 DEF Directory
  <2>3. NamesOK(dir'.object, linked') /\ NamesOK(disk'.object, linked')
    BY <1>1, <2>1, <2>2 DEF LocalInv, NamesOK, Link, Directory
  <2>4. putAt'[p] = "linked"
    BY <2>1, PutGoesType
  <2>5. (FileOK(p))'
    BY <1>1, <2>1, <2>4 DEF FileOK, Link, BeforeSync, BeforeLink, AfterLink
  <2> QED
    BY <2>1, <2>2, <2>3, <2>5, OneFile DEF Link, LocalInv, LocalTypeOK
<1>3. CASE dir.object[Key[p]] # Nothing
  <2>1. PutGoes(p, "cleaning") /\ "cleaning" \in PutPlaces /\ UNCHANGED <<dir, linked>>
    BY <1>3 DEF Link, PutPlaces, Running
  <2>2. putAt'[p] = "cleaning"
    BY <2>1, PutGoesType
  <2>3. (FileOK(p))'
    BY <1>1, <2>1, <2>2 DEF FileOK, Link, BeforeSync, BeforeLink, AfterLink
  <2> QED
    BY <2>1, <2>3, OneFile DEF Link, LocalInv, LocalTypeOK
<1> QED
  BY <1>2, <1>3

LEMMA UnlinkStagingInv ==
    ASSUME LocalInv, NEW p \in Puts, UnlinkStaging(p)
    PROVE  LocalInv'
<1>1. PutGoes(p, "unlinked") /\ "unlinked" \in PutPlaces
  BY DEF UnlinkStaging, PutPlaces, Running
<1>2. dir' \in Directory /\ dir'.object = dir.object
  BY DEF UnlinkStaging, LocalInv, LocalTypeOK, Directory
<1>3. putAt'[p] = "unlinked" /\ FileOK(p) /\ putAt[p] = "linked"
  BY <1>1, PutGoesType DEF LocalInv, UnlinkStaging
<1>4. (FileOK(p))'
  BY <1>3 DEF FileOK, UnlinkStaging, BeforeSync, BeforeLink, AfterLink
<1> QED
  BY <1>1, <1>2, <1>4, OneFile DEF UnlinkStaging, LocalInv, LocalTypeOK

LEMMA SyncDirectoryInv ==
    ASSUME LocalInv, NEW p \in Puts, SyncDirectory(p)
    PROVE  LocalInv'
<1>1. PutGoes(p, "stored") /\ "stored" \in PutPlaces
  BY DEF SyncDirectory, PutPlaces, Running
<1>2. putAt'[p] = "stored" /\ FileOK(p) /\ putAt[p] = "unlinked"
  BY <1>1, PutGoesType DEF LocalInv, SyncDirectory
<1>3. (FileOK(p))'
  BY <1>2 DEF FileOK, SyncDirectory, BeforeSync, BeforeLink, AfterLink
<1> QED
  BY <1>1, <1>3, OneFile DEF SyncDirectory, LocalInv, LocalTypeOK

LEMMA PutFailsInv ==
    ASSUME LocalInv, NEW p \in Puts, PutFails(p)
    PROVE  LocalInv'
<1>1. PutGoes(p, "cleaning") /\ "cleaning" \in PutPlaces
  BY DEF PutFails, PutPlaces, Running
<1>2. putAt'[p] = "cleaning" /\ FileOK(p)
  BY <1>1, PutGoesType DEF LocalInv, PutFails
<1>3. (FileOK(p))'
  BY <1>2 DEF FileOK, PutFails, BeforeSync, BeforeLink, AfterLink
<1> QED
  BY <1>1, <1>3, OneFile DEF PutFails, LocalInv, LocalTypeOK

LEMMA CleanStagingInv ==
    ASSUME LocalInv, NEW p \in Puts, CleanStaging(p)
    PROVE  LocalInv'
<1>1. PutGoes(p, "failed") /\ "failed" \in PutPlaces
  BY DEF CleanStaging, PutPlaces
<1>2. dir' \in Directory /\ dir'.object = dir.object
  BY DEF CleanStaging, LocalInv, LocalTypeOK, Directory
<1>3. putAt'[p] = "failed" /\ FileOK(p)
  BY <1>1, PutGoesType DEF LocalInv, CleanStaging
<1>4. (FileOK(p))'
  BY <1>3 DEF FileOK, CleanStaging, BeforeSync, BeforeLink, AfterLink
<1> QED
  BY <1>1, <1>2, <1>4, OneFile DEF CleanStaging, LocalInv, LocalTypeOK

LEMMA DeleteInv ==
    ASSUME LocalInv, NEW d \in Deletes, UnlinkObject(d) \/ FinishDelete(d)
    PROVE  LocalInv'
<1>1. UNCHANGED <<putAt, written, synced, fresh, linked>>
  BY DEF UnlinkObject, FinishDelete
<1>2. deleteAt' \in [Deletes -> DeletePlaces]
  BY DEF UnlinkObject, FinishDelete, LocalInv, LocalTypeOK, DeletePlaces
<1>3. /\ dir' \in Directory
      /\ dir'.object = dir.object \/ dir'.object = [dir.object EXCEPT ![Doomed[d]] = Nothing]
  BY DeleteAssumption DEF UnlinkObject, FinishDelete, LocalInv, LocalTypeOK, Directory
<1>4. disk' = disk \/ disk' = dir
  BY DEF UnlinkObject, FinishDelete
<1>5. NamesOK(dir'.object, linked') /\ NamesOK(disk'.object, linked')
  BY <1>1, <1>3, <1>4 DEF LocalInv, LocalTypeOK, NamesOK, Directory
<1>6. \A p \in Puts : (FileOK(p))'
  BY <1>1 DEF LocalInv, FileOK
<1>7. LocalTypeOK'
  BY <1>1, <1>2, <1>3, <1>4 DEF LocalInv, LocalTypeOK
<1> QED
  BY <1>5, <1>6, <1>7 DEF LocalInv

LEMMA StoppedPlaces ==
    ASSUME LocalInv, Stopped
    PROVE  /\ putAt' \in [Puts -> PutPlaces]
           /\ \A p \in Puts : \/ putAt'[p] = putAt[p] /\ putAt[p] \in {"idle", "stored", "failed"}
                              \/ putAt'[p] = "failed"
           /\ deleteAt' \in [Deletes -> DeletePlaces]
BY DEF LocalInv, LocalTypeOK, Stopped, PutPlaces, DeletePlaces

\* Whoever stops: the files that are synced stay, the names are names that were.
LEMMA StoppedInv ==
    ASSUME LocalInv, Stopped, UNCHANGED <<synced, linked>>,
           written' \in [Puts -> Nat], \A p \in synced : written'[p] = written[p],
           dir' \in Directory, disk' \in Directory, fresh' \in BOOLEAN,
           NamesOK(dir'.object, linked), NamesOK(disk'.object, linked)
    PROVE  LocalInv'
<1>1. ASSUME NEW p \in Puts PROVE (FileOK(p))'
  <2>1. FileOK(p)
    BY DEF LocalInv
  <2>2. \/ putAt'[p] = putAt[p] /\ putAt[p] \in {"idle", "stored", "failed"}
        \/ putAt'[p] = "failed"
    BY StoppedPlaces
  <2> QED
    BY <2>1, <2>2 DEF FileOK, BeforeSync, BeforeLink, AfterLink
<1>2. LocalTypeOK'
  BY StoppedPlaces DEF LocalInv, LocalTypeOK
<1> QED
  BY <1>1, <1>2 DEF LocalInv

LEMMA ProcessDiesInv ==
    ASSUME LocalInv, ProcessDies
    PROVE  LocalInv'
BY StoppedInv DEF ProcessDies, LocalInv, LocalTypeOK

\* What a loss of power leaves of the names.
LEMMA PowerLossNames ==
    ASSUME LocalInv, PowerLoss
    PROVE  /\ dir' \in Directory /\ disk' = dir' /\ fresh' \in BOOLEAN
           /\ \A k \in Keys : \/ dir'.object[k] \in {dir.object[k], disk.object[k]}
                              \/ fresh /\ dir'.object[k] = Nothing
           /\ NamesOK(dir'.object, linked)
           /\ \A p \in synced : written'[p] = written[p]
           /\ written' \in [Puts -> Nat]
           /\ Stopped /\ UNCHANGED <<synced, linked>>
<1>1. Stopped /\ UNCHANGED <<synced, linked>> /\ disk' = dir'
  BY DEF PowerLoss
<1>2. PICK cut \in SUBSET (Puts \ synced) :
         written' = [p \in Puts |-> IF p \in cut THEN 0 ELSE written[p]]
  BY DEF PowerLoss
<1>3. written' \in [Puts -> Nat] /\ \A p \in synced : written'[p] = written[p]
  BY <1>2 DEF LocalInv, LocalTypeOK
<1>4. ASSUME NEW stage \in SUBSET (dir.stage \union disk.stage),
             NEW object \in [Keys -> Puts \union {Nothing}],
             \A k \in Keys : object[k] \in {dir.object[k], disk.object[k]},
             dir' = [stage |-> stage, object |-> object]
      PROVE  dir' \in Directory /\ dir'.object = object
  BY <1>4 DEF LocalInv, LocalTypeOK, Directory
<1>5. dir' = Empty => dir' \in Directory /\ \A k \in Keys : dir'.object[k] = Nothing
  BY DEF Empty, Directory
<1>6. /\ dir' \in Directory /\ fresh' \in BOOLEAN
      /\ \A k \in Keys : \/ dir'.object[k] \in {dir.object[k], disk.object[k]}
                         \/ fresh /\ dir'.object[k] = Nothing
  BY <1>4, <1>5 DEF PowerLoss, LocalInv, LocalTypeOK
<1>7. NamesOK(dir'.object, linked)
  BY <1>6 DEF LocalInv, NamesOK
<1> QED
  BY <1>1, <1>3, <1>6, <1>7

LEMMA PowerLossInv ==
    ASSUME LocalInv, PowerLoss
    PROVE  LocalInv'
BY PowerLossNames, StoppedInv

LEMMA LocalInitInv == LocalInit => LocalInv
BY PutAssumption DEF LocalInit, LocalInv, LocalTypeOK, FileOK, NamesOK, Empty, Directory, PutPlaces,
   DeletePlaces, Running, BeforeSync, BeforeLink, AfterLink

LEMMA LocalNextInv ==
    ASSUME LocalInv, [LocalNext]_localVars
    PROVE  LocalInv'
<1>1. CASE UNCHANGED localVars
  BY <1>1 DEF localVars, LocalInv, LocalTypeOK, FileOK
<1> QED
  BY <1>1, OpenStagingInv, WriteChunkInv, VerifyInv, SyncFileInv, LinkInv, UnlinkStagingInv,
     SyncDirectoryInv, PutFailsInv, CleanStagingInv, DeleteInv, ProcessDiesInv, PowerLossInv
     DEF LocalNext

-----------------------------------------------------------------------------
(* What the local backend has returned stays.                              *)

\* The name of a stored object is on the disk, but for a directory that is not.
DurableOK ==
    \A p \in Puts : putAt[p] = "stored" /\ dir.object[Key[p]] = p
                      => fresh \/ disk.object[Key[p]] = p

LEMMA DurableStep ==
    ASSUME LocalInv, DurableOK, [LocalNext]_localVars
    PROVE  DurableOK'
<1> SUFFICES ASSUME NEW p \in Puts, putAt'[p] = "stored", dir'.object[Key[p]] = p
             PROVE  fresh' \/ disk'.object[Key[p]] = p
  BY DEF DurableOK
<1>1. Key[p] \in Keys /\ dir \in Directory /\ disk \in Directory /\ p # Nothing
      /\ putAt \in [Puts -> PutPlaces]
  BY PutAssumption DEF LocalInv, LocalTypeOK
<1>2. ASSUME putAt[p] = "stored", dir'.object = dir.object, UNCHANGED <<fresh, disk>>
      PROVE  fresh' \/ disk'.object[Key[p]] = p
  BY <1>2 DEF DurableOK
<1>3. ASSUME NEW q \in Puts,
             OpenStaging(q) \/ Verify(q) \/ SyncFile(q) \/ UnlinkStaging(q) \/ PutFails(q)
             \/ CleanStaging(q) \/ WriteChunk(q)
      PROVE  fresh' \/ disk'.object[Key[p]] = p
  <2>1. putAt[p] = "stored"
    BY <1>1, <1>3 DEF OpenStaging, Verify, SyncFile, UnlinkStaging, PutFails, CleanStaging,
                      WriteChunk, PutGoes
  <2>2. dir'.object = dir.object /\ UNCHANGED <<fresh, disk>>
    BY <1>1, <1>3 DEF OpenStaging, Verify, SyncFile, UnlinkStaging, PutFails, CleanStaging,
                      WriteChunk, Directory
  <2> QED
    BY <1>2, <2>1, <2>2
<1>4. ASSUME NEW q \in Puts, SyncDirectory(q) PROVE fresh' \/ disk'.object[Key[p]] = p
  BY <1>4 DEF SyncDirectory
<1>5. ASSUME NEW q \in Puts, Link(q) PROVE fresh' \/ disk'.object[Key[p]] = p
  <2>1. putAt[p] = "stored" /\ p # q /\ UNCHANGED <<fresh, disk>>
    BY <1>1, <1>5 DEF Link, PutGoes
  <2>2. dir'.object[Key[p]] = dir.object[Key[p]]
    BY <1>1, <1>5, <2>1, PutAssumption DEF Link, Directory
  <2> QED
    BY <2>1, <2>2 DEF DurableOK
<1>6. ASSUME NEW d \in Deletes, UnlinkObject(d) \/ FinishDelete(d)
      PROVE  fresh' \/ disk'.object[Key[p]] = p
  <2>1. putAt[p] = "stored" /\ UNCHANGED fresh
    BY <1>6 DEF UnlinkObject, FinishDelete
  <2>2. dir.object[Key[p]] = p
    BY <1>1, <1>6, DeleteAssumption DEF UnlinkObject, FinishDelete, Directory
  <2>3. disk' = disk \/ disk' = dir
    BY <1>6 DEF UnlinkObject, FinishDelete
  <2> QED
    BY <2>1, <2>2, <2>3 DEF DurableOK
<1>7. CASE ProcessDies
  <2>1. putAt[p] = "stored"
    BY <1>7, StoppedPlaces DEF ProcessDies
  <2> QED
    BY <1>2, <1>7, <2>1 DEF ProcessDies
<1>8. CASE PowerLoss
  BY <1>8, PowerLossNames
<1>9. CASE UNCHANGED localVars
  BY <1>2, <1>9 DEF localVars
<1> QED
  BY <1>3, <1>4, <1>5, <1>6, <1>7, <1>8, <1>9 DEF LocalNext

Kept ==
    \A p \in Puts :
         /\ putAt[p] = "stored" /\ dir.object[Key[p]] = p
         /\ dir'.object[Key[p]] # p \/ written'[p] # Length[p]
         => \/ \E d \in Deletes : Doomed[d] = Key[p] /\ deleteAt[d] = "idle" /\ deleteAt'[d] = "removed"
            \/ fresh

LEMMA KeptStep ==
    ASSUME LocalInv, DurableOK, [LocalNext]_localVars
    PROVE  Kept
<1> SUFFICES ASSUME NEW p \in Puts, putAt[p] = "stored", dir.object[Key[p]] = p, ~fresh,
                    dir'.object[Key[p]] # p \/ written'[p] # Length[p]
             PROVE  \E d \in Deletes : /\ Doomed[d] = Key[p]
                                       /\ deleteAt[d] = "idle" /\ deleteAt'[d] = "removed"
  BY DEF Kept
<1>1. /\ Key[p] \in Keys /\ dir \in Directory /\ disk \in Directory /\ p # Nothing
      /\ written[p] = Length[p] /\ p \in synced /\ disk.object[Key[p]] = p
  BY PutAssumption DEF LocalInv, LocalTypeOK, FileOK, AfterLink, DurableOK
<1>2. ASSUME dir'.object = dir.object, UNCHANGED written PROVE FALSE
  BY <1>1, <1>2
<1>3. ASSUME NEW q \in Puts,
             OpenStaging(q) \/ Verify(q) \/ SyncFile(q) \/ UnlinkStaging(q) \/ PutFails(q)
             \/ CleanStaging(q) \/ SyncDirectory(q)
      PROVE  FALSE
  BY <1>1, <1>2, <1>3 DEF OpenStaging, Verify, SyncFile, UnlinkStaging, PutFails, CleanStaging,
                          SyncDirectory, Directory
<1>4. ASSUME NEW q \in Puts, WriteChunk(q) PROVE FALSE
  BY <1>1, <1>4 DEF WriteChunk, LocalInv, LocalTypeOK
<1>5. ASSUME NEW q \in Puts, Link(q) PROVE FALSE
  <2>1. dir'.object[Key[p]] = p
    BY <1>1, <1>5, PutAssumption DEF Link, Directory
  <2> QED
    BY <1>1, <1>5, <2>1 DEF Link
<1>6. ASSUME NEW d \in Deletes, UnlinkObject(d)
      PROVE  Doomed[d] = Key[p] /\ deleteAt[d] = "idle" /\ deleteAt'[d] = "removed"
  <2>1. dir.object[Doomed[d]] # Nothing
    BY <1>2, <1>6 DEF UnlinkObject
  <2>2. dir'.object = [dir.object EXCEPT ![Doomed[d]] = Nothing] /\ UNCHANGED written
    BY <1>1, <1>6, <2>1 DEF UnlinkObject, Directory
  <2>3. Doomed[d] = Key[p]
    BY <1>1, <2>2 DEF Directory
  <2> QED
    BY <1>6, <2>1, <2>3 DEF UnlinkObject, LocalInv, LocalTypeOK
<1>7. ASSUME NEW d \in Deletes, FinishDelete(d) PROVE FALSE
  BY <1>2, <1>7 DEF FinishDelete
<1>8. CASE ProcessDies
  BY <1>2, <1>8 DEF ProcessDies
<1>9. CASE PowerLoss
  BY <1>1, <1>9, PowerLossNames
<1>10. CASE UNCHANGED localVars
  BY <1>2, <1>10 DEF localVars
<1> QED
  BY <1>3, <1>4, <1>5, <1>6, <1>7, <1>8, <1>9, <1>10 DEF LocalNext

\* An object that put has returned goes only by a delete, or with a directory that
\* was made since the host started.
THEOREM StoredStays == LocalSpec => StoredIsDurable
<1>1. LocalInit => LocalInv /\ DurableOK
  BY LocalInitInv DEF LocalInit, DurableOK
<1>2. LocalInv /\ DurableOK /\ [LocalNext]_localVars => LocalInv' /\ DurableOK' /\ [Kept]_localVars
  BY LocalNextInv, DurableStep, KeptStep
<1> QED
  BY <1>1, <1>2, PTL DEF LocalSpec, StoredIsDurable, Kept

-----------------------------------------------------------------------------
(* The local backend implements the port.                                  *)

LEMMA LocalShown ==
    ASSUME LocalInv
    PROVE  LocalObjects = dir.object /\ LocalObjects \in [Keys -> Puts \union {Nothing}]
<1>1. \A k \in Keys : dir.object[k] = Nothing \/ Whole(dir.object[k])
  BY DEF LocalInv, LocalTypeOK, NamesOK, FileOK, Whole
<1> QED
  BY <1>1 DEF LocalObjects, LocalInv, LocalTypeOK, Directory

LEMMA LocalShownNext ==
    ASSUME LocalInv'
    PROVE  LocalObjects' = dir'.object /\ LocalObjects' \in [Keys -> Puts \union {Nothing}]
<1>1. \A k \in Keys : dir'.object[k] # Nothing => /\ dir'.object[k] \in Sound
                                                  /\ written'[dir'.object[k]] = Length[dir'.object[k]]
  BY DEF LocalInv, LocalTypeOK, NamesOK, FileOK
<1> QED
  BY <1>1 DEF LocalObjects, Whole, LocalInv, LocalTypeOK, Directory

OnLocal == backend = "local" /\ UNCHANGED backend

LEMMA LocalPort ==
    ASSUME OnLocal
    PROVE  /\ Objects = LocalObjects /\ Objects' = LocalObjects'
           /\ Answers = LocalAnswers /\ Answers' = LocalAnswers'
           /\ Landed = linked /\ Landed' = linked'
BY DEF OnLocal, Objects, Answers, Landed

\* A step that answers nothing and names nothing is a stutter of the port.
LEMMA LocalStutter ==
    ASSUME LocalInv, LocalInv', OnLocal, dir'.object = dir.object, UNCHANGED linked,
           \A p \in Puts : LocalAnswers'[p] = LocalAnswers[p]
    PROVE  UNCHANGED Port!storeVars
<1>1. LocalObjects' = LocalObjects
  BY LocalShown, LocalShownNext
<1>2. LocalAnswers' = LocalAnswers
  BY DEF LocalAnswers
<1> QED
  BY <1>1, <1>2, LocalPort DEF Port!storeVars

\* A put that moves answers only by its place.
LEMMA LocalAnswered ==
    ASSUME LocalInv, NEW p \in Puts, NEW place \in PutPlaces, PutGoes(p, place)
    PROVE  LocalAnswers' = [LocalAnswers EXCEPT ![p] =
                              IF place \in {"stored", "failed"} THEN place ELSE "nothing"]
<1>1. putAt'[p] = place /\ \A q \in Puts \ {p} : putAt'[q] = putAt[q]
  BY PutGoesType
<1>2. \A q \in Puts : LocalAnswers'[q] = IF putAt'[q] \in {"stored", "failed"} THEN putAt'[q]
                                         ELSE "nothing"
  BY DEF LocalAnswers
<1>3. \A q \in Puts : LocalAnswers[q] = IF putAt[q] \in {"stored", "failed"} THEN putAt[q]
                                        ELSE "nothing"
  BY DEF LocalAnswers
<1> QED
  BY <1>1, <1>2, <1>3 DEF LocalAnswers

LEMMA LocalQuiet ==
    ASSUME LocalInv, LocalInv', OnLocal, NEW p \in Puts,
           OpenStaging(p) \/ WriteChunk(p) \/ Verify(p) \/ SyncFile(p) \/ UnlinkStaging(p)
           \/ PutFails(p)
    PROVE  UNCHANGED Port!storeVars
<1>1. dir'.object = dir.object /\ UNCHANGED linked
  BY DEF OpenStaging, WriteChunk, Verify, SyncFile, UnlinkStaging, PutFails, LocalInv,
         LocalTypeOK, Directory
<1>2. putAt[p] \notin {"stored", "failed"} /\ putAt'[p] \notin {"stored", "failed"}
      /\ \A q \in Puts \ {p} : putAt'[q] = putAt[q]
  BY DEF OpenStaging, WriteChunk, Verify, SyncFile, UnlinkStaging, PutFails, PutGoes, LocalInv,
         LocalTypeOK, Running
<1>3. \A q \in Puts : LocalAnswers'[q] = LocalAnswers[q]
  BY <1>2 DEF LocalAnswers
<1> QED
  BY <1>1, <1>3, LocalStutter

LEMMA LinkRefines ==
    ASSUME LocalInv, LocalInv', OnLocal, NEW p \in Puts, Link(p)
    PROVE  Port!Next \/ UNCHANGED Port!storeVars
<1>1. Key[p] \in Keys /\ p \in synced /\ p \in Sound /\ putAt[p] = "synced"
  BY PutAssumption DEF LocalInv, Link, FileOK
<1>2. LocalAnswers[p] = "nothing"
  BY <1>1 DEF LocalAnswers
<1>3. UNCHANGED LocalAnswers
  <2>1. PICK place \in {"linked", "cleaning"} : PutGoes(p, place)
    BY DEF Link
  <2>2. LocalAnswers' = [LocalAnswers EXCEPT ![p] = "nothing"]
    BY <2>1, LocalAnswered DEF PutPlaces, Running
  <2> QED
    BY <1>2, <2>2 DEF LocalAnswers
<1>4. CASE dir.object[Key[p]] = Nothing
  <2>1. /\ dir'.object = [dir.object EXCEPT ![Key[p]] = p] /\ linked' = linked \union {p}
    BY <1>4 DEF Link, LocalInv, LocalTypeOK, Directory
  <2>2. LocalObjects = dir.object /\ LocalObjects' = dir'.object
    BY LocalShown, LocalShownNext
  <2>3. Port!Land(p)
    BY <1>1, <1>3, <1>4, <2>1, <2>2, LocalPort DEF Port!Land
  <2> QED
    BY <2>3 DEF Port!Next
<1>5. CASE dir.object[Key[p]] # Nothing
  <2>1. dir'.object = dir.object /\ UNCHANGED linked
    BY <1>5 DEF Link
  <2> QED
    BY <1>3, <2>1, LocalStutter
<1> QED
  BY <1>4, <1>5

LEMMA LocalAnswerRefines ==
    ASSUME LocalInv, LocalInv', OnLocal, NEW p \in Puts, SyncDirectory(p) \/ CleanStaging(p)
    PROVE  Port!Next
<1>1. PICK answer \in {"stored", "failed"} :
        /\ PutGoes(p, answer)
        /\ answer = "stored" => putAt[p] = "unlinked"
        /\ answer = "failed" => putAt[p] = "cleaning"
  BY DEF SyncDirectory, CleanStaging
<1>2. LocalAnswers[p] = "nothing" /\ LocalAnswers' = [LocalAnswers EXCEPT ![p] = answer]
  BY <1>1, LocalAnswered DEF LocalAnswers, PutPlaces
<1>3. answer = "stored" => p \in linked
  BY <1>1 DEF LocalInv, FileOK, AfterLink
<1>4. dir'.object = dir.object /\ UNCHANGED linked
  BY DEF SyncDirectory, CleanStaging, LocalInv, LocalTypeOK, Directory
<1>5. LocalObjects' = LocalObjects
  BY <1>4, LocalShown, LocalShownNext
<1>6. Port!Answer(p, answer)
  BY <1>2, <1>3, <1>4, <1>5, LocalPort DEF Port!Answer
<1> QED
  BY <1>6 DEF Port!Next

LEMMA DeleteRefines ==
    ASSUME LocalInv, LocalInv', OnLocal, NEW d \in Deletes, UnlinkObject(d) \/ FinishDelete(d)
    PROVE  Port!Next \/ UNCHANGED Port!storeVars
<1>1. UNCHANGED <<putAt, linked>> /\ UNCHANGED LocalAnswers
  BY DEF UnlinkObject, FinishDelete, LocalAnswers
<1>2. CASE dir'.object = dir.object
  BY <1>1, <1>2, LocalStutter
<1>3. CASE dir'.object # dir.object
  <2>1. dir'.object = [dir.object EXCEPT ![Doomed[d]] = Nothing]
    BY <1>3 DEF UnlinkObject, FinishDelete, LocalInv, LocalTypeOK, Directory
  <2>2. LocalObjects = dir.object /\ LocalObjects' = dir'.object
    BY LocalShown, LocalShownNext
  <2>3. Port!Remove(Doomed[d])
    BY <1>1, <2>1, <2>2, LocalPort DEF Port!Remove
  <2> QED
    BY <2>3, DeleteAssumption DEF Port!Next
<1> QED
  BY <1>2, <1>3

\* Whoever stops: the running calls fail, the names are names that were.
LEMMA StoppedRefines ==
    ASSUME LocalInv, LocalInv', OnLocal, Stopped, UNCHANGED linked,
           \A k \in Keys : dir'.object[k] \in {dir.object[k], disk.object[k], Nothing}
    PROVE  Port!Next
<1>1. /\ LocalObjects = dir.object /\ LocalObjects' = dir'.object
      /\ LocalObjects' \in [Keys -> Puts \union {Nothing}]
  BY LocalShown, LocalShownNext
<1>2. \A k \in Keys : dir'.object[k] \in {dir.object[k], Nothing} \union {p \in linked : Key[p] = k}
  BY DEF LocalInv, NamesOK
<1> DEFINE failed == {p \in Puts : putAt[p] \in Running}
<1>3. failed \in SUBSET {p \in Puts : LocalAnswers[p] = "nothing"}
  BY DEF LocalAnswers, Running
<1>4. LocalAnswers' = [p \in Puts |-> IF p \in failed THEN "failed" ELSE LocalAnswers[p]]
  <2>1. \A p \in Puts : putAt'[p] = IF p \in failed THEN "failed" ELSE putAt[p]
    BY DEF Stopped
  <2>2. \A p \in Puts : LocalAnswers'[p] = IF putAt'[p] \in {"stored", "failed"} THEN putAt'[p]
                                           ELSE "nothing"
    BY DEF LocalAnswers
  <2>3. \A p \in Puts : LocalAnswers'[p] = IF p \in failed THEN "failed" ELSE LocalAnswers[p]
    BY <2>1, <2>2 DEF LocalAnswers
  <2>4. LocalAnswers' = [p \in Puts |-> LocalAnswers'[p]]
    BY DEF LocalAnswers
  <2> QED
    BY <2>3, <2>4
<1>5. Port!Outage
  <2> HIDE DEF failed
  <2> QED
    BY <1>1, <1>2, <1>3, <1>4, LocalPort DEF Port!Outage
<1> QED
  BY <1>5 DEF Port!Next

LEMMA LocalRefines ==
    ASSUME LocalInv, LocalInv', OnLocal, LocalNext
    PROVE  Port!Next \/ UNCHANGED Port!storeVars
<1>1. CASE ProcessDies
  BY <1>1, StoppedRefines DEF ProcessDies
<1>2. CASE PowerLoss
  <2>1. \A k \in Keys : dir'.object[k] \in {dir.object[k], disk.object[k], Nothing}
    BY <1>2, PowerLossNames
  <2> QED
    BY <1>2, <2>1, PowerLossNames, StoppedRefines
<1> QED
  BY <1>1, <1>2, LocalQuiet, LinkRefines, LocalAnswerRefines, DeleteRefines DEF LocalNext

-----------------------------------------------------------------------------
(* The S3 backend.                                                         *)

S3TypeOK ==
    /\ upload \in [Puts -> Call]
    /\ multipart \in [Puts -> Multipart]
    /\ pending \in [Puts -> Nat]
    /\ bucket \in [Keys -> Puts \union {Nothing}]
    /\ filled \subseteq Puts

Diagonal(n) == {<<i, i>> : i \in 1 .. n}

\* Each part is sent under the place it has in the source, and the request that
\* completes the upload is sent when the service has all of them, and not before.
CallOK(p, call, parts, waiting, stored) ==
    /\ call.at = "idle" => call.taken = 0 /\ call.sending = {} /\ parts = {}
    /\ call.at = "uploading" => /\ call.taken <= Length[p]
                                /\ parts \union call.sending = Diagonal(call.taken)
    /\ call.at \in {"idle", "uploading"} => waiting = 0 /\ call.reply = "none"
    /\ call.at \in {"emptying", "final"} \/ waiting > 0 => p \in Sound /\ parts = Diagonal(Length[p])
    /\ call.at = "stored" \/ call.reply = "done" => p \in stored

S3Inv ==
    /\ S3TypeOK
    /\ \A p \in Puts : CallOK(p, upload[p], multipart[p].parts, pending[p], filled)

\* A step of one put is about its own upload.
LEMMA OneCall ==
    ASSUME S3Inv, NEW p \in Puts,
           upload' \in [Puts -> Call], \A q \in Puts \ {p} : upload'[q] = upload[q],
           multipart' \in [Puts -> Multipart], \A q \in Puts \ {p} : multipart'[q] = multipart[q],
           pending' \in [Puts -> Nat], \A q \in Puts \ {p} : pending'[q] = pending[q],
           bucket' \in [Keys -> Puts \union {Nothing}],
           filled' \in {filled, filled \union {p}},
           CallOK(p, upload'[p], multipart'[p].parts, pending'[p], filled')
    PROVE  S3Inv'
<1>1. \A q \in Puts \ {p} : CallOK(q, upload'[q], multipart'[q].parts, pending'[q], filled')
  BY DEF S3Inv, CallOK
<1> QED
  BY <1>1 DEF S3Inv, S3TypeOK

CallPlaces == {"idle", "uploading", "emptying", "final", "aborting", "stored", "failed"}

LEMMA CallGoesTo ==
    ASSUME S3Inv, NEW p \in Puts, NEW place \in CallPlaces, CallGoes(p, place)
    PROVE  /\ upload' \in [Puts -> Call]
           /\ \A q \in Puts \ {p} : upload'[q] = upload[q]
           /\ upload'[p].at = place /\ upload'[p].taken = upload[p].taken
           /\ upload'[p].sending = upload[p].sending /\ upload'[p].reply = upload[p].reply
BY DEF S3Inv, S3TypeOK, CallGoes, Call, CallPlaces

LEMMA StateGoesTo ==
    ASSUME S3Inv, NEW p \in Puts, NEW state \in {"none", "open", "aborted", "completed"},
           multipart' = [multipart EXCEPT ![p].state = state]
    PROVE  /\ multipart' \in [Puts -> Multipart]
           /\ \A q \in Puts \ {p} : multipart'[q] = multipart[q]
           /\ multipart'[p].parts = multipart[p].parts
BY DEF S3Inv, S3TypeOK, Multipart

\* Within a step that leaves the requests and the objects alone.
LEMMA CallMoves ==
    ASSUME S3Inv, NEW p \in Puts, UNCHANGED <<pending, bucket, filled>>,
           upload' \in [Puts -> Call], \A q \in Puts \ {p} : upload'[q] = upload[q],
           multipart' \in [Puts -> Multipart], \A q \in Puts \ {p} : multipart'[q] = multipart[q],
           CallOK(p, upload'[p], multipart'[p].parts, pending[p], filled)
    PROVE  S3Inv'
BY OneCall DEF S3Inv, S3TypeOK

LEMMA CreateMultipartInv ==
    ASSUME S3Inv, NEW p \in Puts, CreateMultipart(p)
    PROVE  S3Inv'
<1>1. PICK state \in {"none", "open"}, place \in {"uploading", "failed"} :
        multipart' = [multipart EXCEPT ![p].state = state] /\ CallGoes(p, place)
  BY DEF CreateMultipart
<1>2. CallOK(p, upload[p], multipart[p].parts, pending[p], filled) /\ upload[p].at = "idle"
  BY DEF S3Inv, CreateMultipart, At
<1>3. Diagonal(0) = {} /\ Length[p] \in Nat
  BY PutAssumption DEF Diagonal
<1>4. CallOK(p, upload'[p], multipart'[p].parts, pending[p], filled)
  BY <1>1, <1>2, <1>3, CallGoesTo, StateGoesTo DEF CallOK, CallPlaces
<1>5. /\ upload' \in [Puts -> Call] /\ \A q \in Puts \ {p} : upload'[q] = upload[q]
      /\ multipart' \in [Puts -> Multipart] /\ \A q \in Puts \ {p} : multipart'[q] = multipart[q]
  BY <1>1, CallGoesTo, StateGoesTo DEF CallPlaces
<1> QED
  BY <1>4, <1>5, CallMoves DEF CreateMultipart

LEMMA TakePartInv ==
    ASSUME S3Inv, NEW p \in Puts, TakePart(p)
    PROVE  S3Inv'
<1> DEFINE next == upload[p].taken + 1
<1>1. CallOK(p, upload[p], multipart[p].parts, pending[p], filled) /\ upload[p].at = "uploading"
      /\ upload[p].taken \in Nat /\ Length[p] \in Nat /\ next <= Length[p]
  BY PutAssumption DEF S3Inv, TakePart, At, S3TypeOK, Call
<1>2. /\ upload' \in [Puts -> Call] /\ \A q \in Puts \ {p} : upload'[q] = upload[q]
      /\ upload'[p].at = upload[p].at /\ upload'[p].reply = upload[p].reply
      /\ upload'[p].taken = next
      /\ upload'[p].sending = upload[p].sending \union {<<next, next>>}
  <2>1. upload[p] \in Call /\ next \in Nat /\ upload \in [Puts -> Call]
    BY <1>1 DEF S3Inv, S3TypeOK
  <2>2. upload' = [upload EXCEPT ![p].taken = next, ![p].sending = @ \union {<<next, next>>}]
    BY DEF TakePart
  <2> HIDE DEF next
  <2>3. [upload[p] EXCEPT !.taken = next, !.sending = @ \union {<<next, next>>}] \in Call
    <3>1. upload[p].sending \union {<<next, next>>} \in SUBSET (Nat \X Nat)
      BY <2>1 DEF Call
    <3> DEFINE sending == upload[p].sending \union {<<next, next>>}
    <3>2. [upload[p] EXCEPT !.taken = next, !.sending = sending] \in Call
      <4> HIDE DEF sending
      <4>1. sending \in SUBSET (Nat \X Nat)
        BY <3>1 DEF sending
      <4> QED
        BY <2>1, <4>1 DEF Call
    <3> QED
      BY <3>2
  <2> QED
    BY <2>1, <2>2, <2>3 DEF Call
<1>3. Diagonal(next) = Diagonal(upload[p].taken) \union {<<next, next>>}
  BY <1>1 DEF Diagonal
<1>4. CallOK(p, upload'[p], multipart[p].parts, pending[p], filled)
  BY <1>1, <1>2, <1>3 DEF CallOK
<1> QED
  BY <1>2, <1>4, CallMoves DEF TakePart, S3Inv, S3TypeOK

LEMMA PartArrivesInv ==
    ASSUME S3Inv, NEW p \in Puts, PartArrives(p)
    PROVE  S3Inv'
<1> DEFINE parts == multipart[p].parts  sending == upload[p].sending
<1>1. CallOK(p, upload[p], parts, pending[p], filled) /\ upload[p].at = "uploading"
      /\ parts \in SUBSET (Nat \X Nat) /\ sending \in SUBSET (Nat \X Nat)
  BY DEF S3Inv, PartArrives, At, S3TypeOK, Call, Multipart
<1>2. PICK part \in sending :
        /\ multipart' = [multipart EXCEPT ![p].parts = {q \in @ : q[1] # part[1]} \union {part}]
        /\ upload' = [upload EXCEPT ![p].sending = @ \ {part}]
  BY DEF PartArrives
<1>3. /\ upload' \in [Puts -> Call] /\ \A q \in Puts \ {p} : upload'[q] = upload[q]
      /\ upload'[p].at = upload[p].at /\ upload'[p].reply = upload[p].reply
      /\ upload'[p].taken = upload[p].taken
      /\ upload'[p].sending = sending \ {part}
  BY <1>1, <1>2 DEF S3Inv, S3TypeOK, Call
<1>4. /\ multipart' \in [Puts -> Multipart] /\ \A q \in Puts \ {p} : multipart'[q] = multipart[q]
      /\ multipart'[p].parts = {q \in parts : q[1] # part[1]} \union {part}
  BY <1>1, <1>2 DEF S3Inv, S3TypeOK, Multipart
<1>5. parts \union sending = Diagonal(upload[p].taken)
  BY <1>1 DEF CallOK
<1>6. \A q \in parts : q[1] = part[1] => q = part
  <2>1. \A q \in Diagonal(upload[p].taken) : q = <<q[1], q[1]>>
    BY DEF Diagonal
  <2> QED
    BY <1>2, <1>5, <2>1
<1>7. multipart'[p].parts \union upload'[p].sending = Diagonal(upload[p].taken)
  BY <1>2, <1>3, <1>4, <1>5, <1>6
<1>8. CallOK(p, upload'[p], multipart'[p].parts, pending[p], filled)
  BY <1>1, <1>3, <1>7 DEF CallOK
<1> QED
  BY <1>3, <1>4, <1>8, CallMoves DEF PartArrives

LEMMA CompareDigestInv ==
    ASSUME S3Inv, NEW p \in Puts, CompareDigest(p)
    PROVE  S3Inv'
<1>1. CallOK(p, upload[p], multipart[p].parts, pending[p], filled) /\ upload[p].at = "uploading"
      /\ upload[p].taken = Length[p] /\ upload[p].sending = {} /\ UNCHANGED multipart
  BY DEF S3Inv, CompareDigest, At
<1>2. PICK place \in {"aborting", "emptying", "final"} :
        CallGoes(p, place) /\ (place # "aborting" => p \in Sound)
  BY DEF CompareDigest
<1>3. multipart[p].parts = Diagonal(Length[p])
  BY <1>1 DEF CallOK
<1>4. CallOK(p, upload'[p], multipart[p].parts, pending[p], filled)
  BY <1>1, <1>2, <1>3, CallGoesTo DEF CallOK, CallPlaces
<1> QED
  BY <1>1, <1>2, <1>4, CallGoesTo, CallMoves DEF CompareDigest, CallPlaces, S3Inv, S3TypeOK

LEMMA UploadFailsInv ==
    ASSUME S3Inv, NEW p \in Puts, UploadFails(p)
    PROVE  S3Inv'
<1>1. CallOK(p, upload[p], multipart[p].parts, pending[p], filled) /\ upload[p].at = "uploading"
  BY DEF S3Inv, UploadFails, At
<1>2. /\ upload' \in [Puts -> Call] /\ \A q \in Puts \ {p} : upload'[q] = upload[q]
      /\ upload'[p].at = "aborting" /\ upload'[p].reply = upload[p].reply
  <2>1. upload[p] \in Call /\ upload \in [Puts -> Call]
    BY DEF S3Inv, S3TypeOK
  <2>2. [upload[p] EXCEPT !.at = "aborting", !.sending = {}] \in Call
    BY <2>1 DEF Call
  <2> QED
    BY <2>1, <2>2 DEF UploadFails, Call
<1>3. CallOK(p, upload'[p], multipart[p].parts, pending[p], filled)
  BY <1>1, <1>2 DEF CallOK
<1> QED
  BY <1>2, <1>3, CallMoves DEF UploadFails, S3Inv, S3TypeOK

LEMMA AbortMultipartInv ==
    ASSUME S3Inv, NEW p \in Puts, AbortMultipart(p)
    PROVE  S3Inv'
<1>1. CallOK(p, upload[p], multipart[p].parts, pending[p], filled)
      /\ upload[p].at \in {"emptying", "aborting"}
      /\ multipart[p].state \in {"none", "open", "aborted", "completed"}
  BY DEF S3Inv, AbortMultipart, At, S3TypeOK, Multipart
<1>2. PICK place \in {"final", "failed"} :
        CallGoes(p, place) /\ (place = "final" => upload[p].at = "emptying")
  BY DEF AbortMultipart, At
<1>3. PICK state \in {multipart[p].state, "aborted"} :
        multipart' = [multipart EXCEPT ![p].state = state]
  BY DEF AbortMultipart
<1>4. CallOK(p, upload'[p], multipart'[p].parts, pending[p], filled)
  BY <1>1, <1>2, <1>3, CallGoesTo, StateGoesTo DEF CallOK, CallPlaces
<1> QED
  BY <1>1, <1>2, <1>3, <1>4, CallGoesTo, StateGoesTo, CallMoves DEF AbortMultipart, CallPlaces

LEMMA SendFinalInv ==
    ASSUME S3Inv, NEW p \in Puts, SendFinal(p)
    PROVE  S3Inv'
<1>1. CallOK(p, upload[p], multipart[p].parts, pending[p], filled) /\ upload[p].at = "final"
      /\ upload[p].sent \in Nat /\ upload[p].sent + 1 \in Nat
      /\ pending[p] \in Nat /\ pending[p] + 1 \in Nat
  BY DEF S3Inv, SendFinal, At, S3TypeOK, Call
<1>2. /\ upload' \in [Puts -> Call] /\ \A q \in Puts \ {p} : upload'[q] = upload[q]
      /\ upload'[p].at = upload[p].at /\ upload'[p].reply = upload[p].reply
  BY <1>1 DEF S3Inv, SendFinal, S3TypeOK, Call
<1>3. /\ pending' \in [Puts -> Nat] /\ \A q \in Puts \ {p} : pending'[q] = pending[q]
      /\ UNCHANGED <<multipart, bucket, filled>>
  BY <1>1 DEF S3Inv, SendFinal, S3TypeOK
<1>4. CallOK(p, upload'[p], multipart'[p].parts, pending'[p], filled')
  BY <1>1, <1>2, <1>3 DEF CallOK
<1> QED
  BY <1>2, <1>3, <1>4, OneCall DEF S3Inv, S3TypeOK

\* What a request that the service accepts stores is the put's own object.
LEMMA ServedWhole ==
    ASSUME S3Inv, NEW p \in Puts, pending[p] > 0
    PROVE  p \in Sound /\ Assembled(p) = p /\ Key[p] \in Keys
BY PutAssumption DEF S3Inv, CallOK, Assembled, InOrder, Diagonal

LEMMA ServeInv ==
    ASSUME S3Inv, NEW p \in Puts, Serve(p)
    PROVE  S3Inv'
<1>1. CallOK(p, upload[p], multipart[p].parts, pending[p], filled)
      /\ pending[p] \in Nat /\ pending[p] > 0
  BY DEF S3Inv, Serve, S3TypeOK
<1>2. pending[p] - 1 \in Nat
  BY <1>1
<1>3. pending' \in [Puts -> Nat] /\ \A q \in Puts \ {p} : pending'[q] = pending[q]
  BY <1>2 DEF S3Inv, Serve, S3TypeOK
<1>4. /\ upload' \in [Puts -> Call] /\ \A q \in Puts \ {p} : upload'[q] = upload[q]
      /\ \/ upload'[p] = upload[p]
         \/ /\ upload[p].at = "final" /\ upload'[p].at = "final"
            /\ upload'[p].reply = IF Accepts(p) THEN "done" ELSE "refused"
  <2>1. upload[p] \in Call /\ upload \in [Puts -> Call]
    BY DEF S3Inv, S3TypeOK
  <2>2. CASE UNCHANGED upload
    BY <2>1, <2>2
  <2>3. ASSUME NEW reply \in {"done", "refused"},
               upload' = [upload EXCEPT ![p].reply = reply],
               upload[p].at = "final", reply = IF Accepts(p) THEN "done" ELSE "refused"
        PROVE  /\ upload' \in [Puts -> Call] /\ \A q \in Puts \ {p} : upload'[q] = upload[q]
               /\ upload'[p].at = "final" /\ upload'[p].reply = reply
    BY <2>1, <2>3 DEF Call
  <2> QED
    BY <2>2, <2>3 DEF Serve, At
<1>5. /\ multipart' \in [Puts -> Multipart] /\ \A q \in Puts \ {p} : multipart'[q] = multipart[q]
      /\ multipart'[p].parts = multipart[p].parts
  <2>1. CASE UNCHANGED multipart
    BY <2>1 DEF S3Inv, S3TypeOK
  <2>2. CASE multipart' = [multipart EXCEPT ![p].state = "completed"]
    BY <2>2, StateGoesTo
  <2> QED
    BY <2>1, <2>2 DEF Serve, Store
<1>6. /\ bucket' \in [Keys -> Puts \union {Nothing}]
      /\ filled' = IF Accepts(p) THEN filled \union {p} ELSE filled
  BY <1>1, ServedWhole DEF Serve, Store, S3Inv, S3TypeOK
<1>7. CallOK(p, upload'[p], multipart'[p].parts, pending'[p], filled')
  BY <1>1, <1>4, <1>5, <1>6 DEF CallOK
<1> QED
  BY <1>3, <1>4, <1>5, <1>6, <1>7, OneCall

LEMMA FinalEndsInv ==
    ASSUME S3Inv, NEW p \in Puts, FinalEnds(p)
    PROVE  S3Inv'
<1>1. CallOK(p, upload[p], multipart[p].parts, pending[p], filled) /\ upload[p].at = "final"
  BY DEF S3Inv, FinalEnds, At
<1>2. PICK place \in {"stored", "failed", "aborting"} :
        CallGoes(p, place) /\ (place = "stored" => upload[p].reply = "done")
  BY DEF FinalEnds
<1>3. CallOK(p, upload'[p], multipart[p].parts, pending[p], filled)
  BY <1>1, <1>2, CallGoesTo DEF CallOK, CallPlaces
<1> QED
  BY <1>2, <1>3, CallGoesTo, CallMoves DEF FinalEnds, CallPlaces, S3Inv, S3TypeOK

LEMMA DeleteObjectInv ==
    ASSUME S3Inv, NEW k \in Keys, DeleteObject(k)
    PROVE  S3Inv'
BY DEF S3Inv, S3TypeOK, DeleteObject

LEMMA ClientDiesInv ==
    ASSUME S3Inv, ClientDies
    PROVE  S3Inv'
<1>1. upload' \in [Puts -> Call]
  <2>1. ASSUME NEW p \in Puts PROVE [upload[p] EXCEPT !.at = "failed", !.sending = {}] \in Call
    BY DEF S3Inv, S3TypeOK, Call
  <2> QED
    BY <2>1 DEF S3Inv, S3TypeOK, ClientDies
<1>2. ASSUME NEW p \in Puts PROVE CallOK(p, upload'[p], multipart[p].parts, pending[p], filled)
  <2>1. CallOK(p, upload[p], multipart[p].parts, pending[p], filled) /\ upload[p] \in Call
    BY DEF S3Inv, S3TypeOK
  <2>2. \/ upload'[p] = upload[p]
        \/ upload'[p].at = "failed" /\ upload'[p].reply = upload[p].reply
    BY <2>1 DEF ClientDies, Call
  <2> QED
    BY <2>1, <2>2 DEF CallOK
<1> QED
  BY <1>1, <1>2 DEF ClientDies, S3Inv, S3TypeOK

LEMMA S3InitInv == S3Init => S3Inv
BY PutAssumption DEF S3Init, S3Inv, S3TypeOK, IdleCall, Call, Multipart, CallOK

LEMMA S3NextInv ==
    ASSUME S3Inv, [S3Next]_s3Vars
    PROVE  S3Inv'
<1>1. CASE UNCHANGED s3Vars
  BY <1>1 DEF s3Vars, S3Inv, S3TypeOK
<1> QED
  BY <1>1, CreateMultipartInv, TakePartInv, PartArrivesInv, CompareDigestInv, UploadFailsInv,
     AbortMultipartInv, SendFinalInv, ServeInv, FinalEndsInv, DeleteObjectInv, ClientDiesInv
     DEF S3Next

-----------------------------------------------------------------------------
(* The S3 backend implements the port.                                     *)

OnS3 == backend = "s3" /\ UNCHANGED backend

LEMMA S3Port ==
    ASSUME OnS3
    PROVE  /\ Objects = bucket /\ Objects' = bucket'
           /\ Answers = S3Answers /\ Answers' = S3Answers'
           /\ Landed = filled /\ Landed' = filled'
BY DEF OnS3, Objects, Answers, Landed

LEMMA S3Answered ==
    ASSUME S3Inv, NEW p \in Puts, NEW place \in CallPlaces, CallGoes(p, place)
    PROVE  S3Answers' = [S3Answers EXCEPT ![p] =
                           IF place \in {"stored", "failed"} THEN place ELSE "nothing"]
<1>1. upload'[p].at = place /\ \A q \in Puts \ {p} : upload'[q].at = upload[q].at
  BY CallGoesTo
<1>2. \A q \in Puts : S3Answers'[q] = IF upload'[q].at \in {"stored", "failed"} THEN upload'[q].at
                                      ELSE "nothing"
  BY DEF S3Answers, At
<1>3. \A q \in Puts : S3Answers[q] = IF upload[q].at \in {"stored", "failed"} THEN upload[q].at
                                     ELSE "nothing"
  BY DEF S3Answers, At
<1> QED
  BY <1>1, <1>2, <1>3 DEF S3Answers

\* A step that answers nothing.
LEMMA S3Silent ==
    ASSUME S3Inv, \A q \in Puts : upload'[q].at = upload[q].at
    PROVE  UNCHANGED S3Answers
BY DEF S3Answers, At

LEMMA S3Quiet ==
    ASSUME S3Inv, OnS3, NEW p \in Puts, TakePart(p) \/ PartArrives(p) \/ SendFinal(p)
    PROVE  UNCHANGED Port!storeVars
<1>1. \A q \in Puts : upload'[q].at = upload[q].at
  <2>1. CASE TakePart(p)
    BY <2>1 DEF TakePart, S3Inv, S3TypeOK, Call
  <2>2. CASE PartArrives(p)
    BY <2>2 DEF PartArrives, S3Inv, S3TypeOK, Call
  <2>3. CASE SendFinal(p)
    BY <2>3 DEF SendFinal, S3Inv, S3TypeOK, Call
  <2> QED
    BY <2>1, <2>2, <2>3
<1>2. UNCHANGED <<bucket, filled>>
  BY DEF TakePart, PartArrives, SendFinal
<1> QED
  BY <1>1, <1>2, S3Silent, S3Port DEF Port!storeVars

LEMMA UploadFailsRefines ==
    ASSUME S3Inv, OnS3, NEW p \in Puts, UploadFails(p)
    PROVE  UNCHANGED Port!storeVars
<1>1. /\ upload[p].at = "uploading" /\ upload'[p].at = "aborting"
      /\ \A q \in Puts \ {p} : upload'[q].at = upload[q].at
  BY DEF UploadFails, At, S3Inv, S3TypeOK, Call
<1>2. \A q \in Puts : S3Answers'[q] = S3Answers[q]
  BY <1>1 DEF S3Answers, At
<1>3. UNCHANGED S3Answers
  BY <1>2 DEF S3Answers
<1> QED
  BY <1>3, S3Port DEF UploadFails, Port!storeVars

\* A call that goes on, or ends with an answer.
LEMMA CallGoesRefines ==
    ASSUME S3Inv, OnS3, NEW p \in Puts, NEW place \in CallPlaces, CallGoes(p, place),
           upload[p].at \notin {"stored", "failed"}, UNCHANGED <<bucket, filled>>,
           place = "stored" => p \in filled
    PROVE  Port!Next \/ UNCHANGED Port!storeVars
<1>1. S3Answers[p] = "nothing"
  BY DEF S3Answers, At
<1>2. CASE place \in {"stored", "failed"}
  <2>1. S3Answers' = [S3Answers EXCEPT ![p] = place]
    BY <1>2, S3Answered
  <2>2. Port!Answer(p, place)
    BY <1>1, <2>1, S3Port DEF Port!Answer
  <2> QED
    BY <1>2, <2>2 DEF Port!Next
<1>3. CASE place \notin {"stored", "failed"}
  <2>1. S3Answers' = [S3Answers EXCEPT ![p] = "nothing"]
    BY <1>3, S3Answered
  <2>2. UNCHANGED S3Answers
    BY <1>1, <2>1 DEF S3Answers
  <2> QED
    BY <2>2, S3Port DEF Port!storeVars
<1> QED
  BY <1>2, <1>3

LEMMA CallStepRefines ==
    ASSUME S3Inv, OnS3, NEW p \in Puts,
           CreateMultipart(p) \/ CompareDigest(p) \/ AbortMultipart(p) \/ FinalEnds(p)
    PROVE  Port!Next \/ UNCHANGED Port!storeVars
<1>1. upload[p].at \notin {"stored", "failed"} /\ UNCHANGED <<bucket, filled>>
  BY DEF CreateMultipart, CompareDigest, AbortMultipart, FinalEnds, At
<1>2. PICK place \in CallPlaces : CallGoes(p, place) /\ (place = "stored" => upload[p].reply = "done")
  BY DEF CreateMultipart, CompareDigest, AbortMultipart, FinalEnds, CallPlaces
<1>3. place = "stored" => p \in filled
  BY <1>2 DEF S3Inv, CallOK
<1> QED
  BY <1>1, <1>2, <1>3, CallGoesRefines

LEMMA ServeRefines ==
    ASSUME S3Inv, OnS3, NEW p \in Puts, Serve(p)
    PROVE  Port!Next \/ UNCHANGED Port!storeVars
<1>1. \A q \in Puts : upload'[q].at = upload[q].at
  BY DEF Serve, S3Inv, S3TypeOK, Call, At
<1>2. p \in Sound /\ Assembled(p) = p
  BY ServedWhole DEF Serve
<1>3. CASE Accepts(p)
  <2>1. Port!Land(p)
    BY <1>1, <1>2, <1>3, S3Silent, S3Port DEF Serve, Store, Accepts, Port!Land
  <2> QED
    BY <2>1 DEF Port!Next
<1>4. CASE ~Accepts(p)
  BY <1>1, <1>4, S3Silent, S3Port DEF Serve, Port!storeVars
<1> QED
  BY <1>3, <1>4

LEMMA DeleteObjectRefines ==
    ASSUME S3Inv, OnS3, NEW k \in Keys, DeleteObject(k)
    PROVE  Port!Next
<1>1. UNCHANGED S3Answers
  BY S3Silent DEF DeleteObject
<1>2. Port!Remove(k)
  BY <1>1, S3Port DEF DeleteObject, Port!Remove
<1> QED
  BY <1>2 DEF Port!Next

LEMMA ClientDiesRefines ==
    ASSUME S3Inv, OnS3, ClientDies
    PROVE  Port!Next
<1> DEFINE failed == {p \in Puts : upload[p].at \notin {"idle", "stored", "failed"}}
<1>1. \A p \in Puts : upload'[p].at = IF p \in failed THEN "failed" ELSE upload[p].at
  BY DEF ClientDies, At, S3Inv, S3TypeOK, Call
<1>2. \E after \in [Keys -> Puts \union {Nothing}] :
        /\ \A k \in Keys : after[k] \in {Objects[k], Nothing} \union {p \in Landed : Key[p] = k}
        /\ Objects' = after
  BY S3Port DEF ClientDies, S3Inv, S3TypeOK
<1>3. \A p \in Puts : /\ Answers[p] = IF upload[p].at \in {"stored", "failed"} THEN upload[p].at
                                      ELSE "nothing"
                      /\ Answers'[p] = IF upload'[p].at \in {"stored", "failed"} THEN upload'[p].at
                                       ELSE "nothing"
  BY S3Port DEF S3Answers, At
<1>4. failed \in SUBSET {p \in Puts : Answers[p] = "nothing"}
  BY <1>3
<1>5. \A p \in Puts : Answers'[p] = IF p \in failed THEN "failed" ELSE Answers[p]
  BY <1>1, <1>3, <1>4
<1>6. Answers' = [p \in Puts |-> Answers'[p]]
  BY S3Port DEF S3Answers
<1>7. Answers' = [p \in Puts |-> IF p \in failed THEN "failed" ELSE Answers[p]]
  BY <1>5, <1>6
<1>8. UNCHANGED Landed
  BY S3Port DEF ClientDies
<1>9. Port!Outage
  <2> HIDE DEF failed
  <2> QED
    BY <1>2, <1>4, <1>7, <1>8 DEF Port!Outage
<1> QED
  BY <1>9 DEF Port!Next

LEMMA S3Refines ==
    ASSUME S3Inv, OnS3, S3Next
    PROVE  Port!Next \/ UNCHANGED Port!storeVars
BY S3Quiet, UploadFailsRefines, CallStepRefines, ServeRefines, DeleteObjectRefines,
   ClientDiesRefines DEF S3Next

-----------------------------------------------------------------------------
(* The backend that the configuration names.                               *)

BackendsOK == LocalInv /\ S3Inv /\ backend \in {"local", "s3"}

LEMMA BackendStart ==
    ASSUME BackendInit
    PROVE  BackendsOK /\ Port!StoreInit
<1>1. BackendsOK
  BY LocalInitInv, S3InitInv DEF BackendInit, BackendsOK
<1>2. Objects = [k \in Keys |-> Nothing]
  BY LocalShown, <1>1 DEF BackendsOK, BackendInit, Objects, LocalInit, S3Init, Empty
<1>3. Answers = [p \in Puts |-> "nothing"]
  BY DEF BackendInit, Answers, LocalInit, S3Init, LocalAnswers, S3Answers, At, IdleCall
<1>4. Landed = {}
  BY DEF BackendInit, Landed, LocalInit, S3Init
<1> QED
  BY <1>1, <1>2, <1>3, <1>4 DEF Port!StoreInit

LEMMA BackendStep ==
    ASSUME BackendsOK, [BackendNext]_backendVars
    PROVE  BackendsOK' /\ [Port!Next]_(Port!storeVars)
<1>1. BackendsOK'
  <2>1. /\ [LocalNext]_localVars /\ [S3Next]_s3Vars /\ UNCHANGED backend
    BY DEF BackendNext, backendVars
  <2> QED
    BY <2>1, LocalNextInv, S3NextInv DEF BackendsOK
<1>2. CASE backend = "local" /\ LocalNext /\ UNCHANGED backend
  BY <1>1, <1>2, LocalRefines DEF BackendsOK, OnLocal
<1>3. CASE backend = "s3" /\ S3Next /\ UNCHANGED backend
  BY <1>1, <1>3, S3Refines DEF BackendsOK, OnS3
<1>4. CASE UNCHANGED backendVars
  BY <1>1, <1>4 DEF backendVars, localVars, s3Vars, Port!storeVars, Objects, Answers, Landed,
              LocalObjects, Whole, LocalAnswers, S3Answers, At
<1> QED
  BY <1>1, <1>2, <1>3, <1>4 DEF BackendNext

\* Either backend stores an object whole or not at all, never over another, and says
\* that it is stored only when it is: whatever parts, workers, resent or late requests,
\* failures of any call, deaths and losses of power do to a put.
THEOREM BackendsKeepThePort == BackendSpec => ImplementsObjectStore
<1>1. BackendInit => BackendsOK /\ Port!StoreInit
  BY BackendStart
<1>2. BackendsOK /\ [BackendNext]_backendVars => BackendsOK' /\ [Port!Next]_(Port!storeVars)
  BY BackendStep
<1> QED
  BY <1>1, <1>2, PTL DEF BackendSpec, ImplementsObjectStore, Port!Spec
=============================================================================
