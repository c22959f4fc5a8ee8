--------------------------- MODULE SemanticIndex ---------------------------
(***************************************************************************)
(* The semantic index of a project (ai): an operator has a candidate       *)
(* built, excludes assets and deletes indexes through the API              *)
(* (ai/service.ts); AI workers build a candidate, evaluate it and let it   *)
(* replace the active one (ai/indexing-handler.ts).  Rows are in the       *)
(* database, vectors in a collection of Qdrant for each index.  The job of *)
(* an index is an entry of the job ledger; the jobs that clean up vectors  *)
(* are idempotent and may be lost, and are the set cleanup.                *)
(***************************************************************************)
EXTENDS JobLedger

CONSTANTS Assets,
          Excludable,     \* bound: the assets that are ever excluded
          Concurrency,    \* concurrency of the project's settings
          NoCollection

Indexes == Jobs

ASSUME IndexAssumption ==
    /\ Excludable \subseteq Assets
    /\ Concurrency \in Nat \ {0}
    /\ \A S \in SUBSET Assets : NoCollection # S

VARIABLES index,      \* [Indexes -> IndexRow]: ai_indexes, with whether semantic_evaluations has its row
          records,    \* ai_index_records: the assets of each index
          vectors,    \* the assets in each collection
          excluded,   \* ai_asset_exclusions
          cleanup,    \* by index, the assets that have an ai.delete_asset job for it
          builder,    \* [Workers -> Builder]: the ai.reindex handler of each worker
          writing,    \* in SUBSET Call: its calls of indexTarget, which it may leave behind
          listed      \* history: by index, assets excluded while a build had them on its list

api == <<excluded, cleanup, listed>>
vars == <<ledger, index, records, vectors, api, builder, writing>>

Over == {"retired", "failed", "deleted"}
IndexRow == [state : {"absent", "building", "evaluating", "active"} \union Over, evaluated : BOOLEAN]

Builder == [at : {"idle", "starting", "preparing", "building", "evaluating", "catching", "done"},
            job : Indexes \union {NoWorker}, attempt : Nat, todo : SUBSET Assets,
            result : {"none", "ok", "retry", "reject"}]
IdleBuilder == [at |-> "idle", job |-> NoWorker, attempt |-> 0, todo |-> {}, result |-> "none"]

\* A call stands before its upsert or before its records.
Call == [worker : Workers, index : Indexes, attempt : Nat, asset : Assets, at : {"upsert", "record"}]

Init ==
    /\ LedgerInit
    /\ index = [i \in Indexes |-> [state |-> "absent", evaluated |-> FALSE]]
    /\ records = [i \in Indexes |-> {}]
    /\ vectors = [i \in Indexes |-> NoCollection]
    /\ excluded = {}
    /\ cleanup = [i \in Indexes |-> {}] /\ listed = [i \in Indexes |-> {}]
    /\ builder = [w \in Workers |-> IdleBuilder]
    /\ writing = {}

Exists(i) == index[i].state \notin {"absent", "deleted"}
IsLive(i) == index[i].state \in {"building", "evaluating", "active"}
InState(s) == {i \in Indexes : index[i].state = s}

-----------------------------------------------------------------------------
(* The API.                                                                *)

StartReindex(i) ==
    /\ index[i].state = "absent"
    /\ InState("building") \union InState("evaluating") = {}
    /\ index' = [index EXCEPT ![i].state = "building"]
    /\ Add(i)
    /\ UNCHANGED <<records, vectors, api, builder, writing>>

OnList(i, a) ==
    \/ \E w \in Workers : builder[w].job = i /\ a \in builder[w].todo
    \/ \E c \in writing : c.index = i /\ c.asset = a

Bar(a) ==
    /\ excluded' = excluded \union {a}
    /\ cleanup' = [i \in Indexes |-> IF IsLive(i) THEN cleanup[i] \union {a} ELSE cleanup[i]]
    /\ listed' = [i \in Indexes |-> IF OnList(i, a) THEN listed[i] \union {a} ELSE listed[i]]
    /\ UNCHANGED <<ledger, index, vectors, builder, writing>>

\* A mutant: the records of a candidate stay.
ExcludeFromActive(a) ==
    /\ Bar(a)
    /\ records' = [i \in Indexes |-> IF index[i].state = "active" THEN records[i] \ {a} ELSE records[i]]

\* setAssetExclusion.
Exclude(a) ==
    /\ Bar(a)
    /\ records' = [i \in Indexes |-> records[i] \ {a}]

Admit(a) ==
    /\ a \in excluded
    /\ excluded' = excluded \ {a}
    /\ UNCHANGED <<ledger, index, records, vectors, cleanup, listed, builder, writing>>

\* deleteIndex leaves the job of a candidate as it is.
DeleteIndex(i) ==
    /\ Exists(i)
    /\ index' = [index EXCEPT ![i] = [state |-> "deleted", evaluated |-> FALSE]]
    /\ records' = [records EXCEPT ![i] = {}]
    /\ UNCHANGED <<ledger, vectors, api, builder, writing>>

\* The ai.delete_asset and ai.delete_index jobs, now, later or never.
CleanUp(i) ==
    /\ vectors[i] # NoCollection
    /\ \/ \E a \in cleanup[i] : vectors' = [vectors EXCEPT ![i] = @ \ {a}]
       \/ index[i].state = "deleted" /\ vectors' = [vectors EXCEPT ![i] = NoCollection]
    /\ UNCHANGED <<ledger, index, records, api, builder, writing>>

-----------------------------------------------------------------------------
(* The ai.reindex handler.                                                 *)

ClaimNext(w) ==
    /\ builder[w].at = "idle"
    /\ \E swept \in SUBSET Exhaustible :
         \/ /\ swept # {}
            /\ Sweep(swept)
            /\ UNCHANGED builder
         \/ \E i \in Startable :
              /\ Start(w, swept, i)
              /\ builder' = [builder EXCEPT ![w] = [IdleBuilder EXCEPT
                   !.at = "starting", !.job = i, !.attempt = ledger[i].attempts + 1]]
    /\ UNCHANGED <<index, records, vectors, api, writing>>

JobOf(w) == builder[w].job
GoTo(w, at) == builder' = [builder EXCEPT ![w].at = at]
Ends(w, result) == builder' = [builder EXCEPT ![w].at = "done", ![w].result = result, ![w].todo = {}]
Throws(w, result) == builder' = [builder EXCEPT ![w].at = "catching", ![w].result = result, ![w].todo = {}]

\* reportProgress throws without the job's lease.
Reports(w, next) == IF Owns(w, JobOf(w)) THEN next ELSE Throws(w, "retry")

\* failIndex looks at no state.
Failed(i) == IF Exists(i) THEN [index EXCEPT ![i].state = "failed"] ELSE index

\* An index that is not building is taken for one that is done with; the semantic
\* features may have been turned off.
Begin(w) ==
    LET i == JobOf(w)
    IN  /\ builder[w].at = "starting"
        /\ \/ index[i].state # "building" /\ Ends(w, "ok") /\ UNCHANGED index
           \/ index[i].state = "building" /\ index' = Failed(i) /\ Throws(w, "reject")
           \/ index[i].state = "building" /\ GoTo(w, "preparing") /\ UNCHANGED index
        /\ UNCHANGED <<ledger, records, vectors, api, writing>>

\* ensureCollection, and the list of assets, once and for all batches.  Which
\* assets are ready, may leave the installation and fit the limit is left open.
Prepare(w) ==
    LET i == JobOf(w)
    IN  /\ builder[w].at = "preparing"
        /\ vectors' = [vectors EXCEPT ![i] = IF @ = NoCollection THEN {} ELSE @]
        /\ \E targets \in SUBSET (Assets \ excluded) :
             builder' = [builder EXCEPT ![w].at = "building", ![w].todo = targets]
        /\ UNCHANGED <<ledger, index, records, api, writing>>

\* A call of the vector store or of a provider fails; the errors that are final
\* are those of an exhausted budget and of media over the limits.
CallFails(w) ==
    /\ builder[w].at \in {"preparing", "evaluating"}
    /\ Throws(w, "retry")
    /\ UNCHANGED <<ledger, index, records, vectors, api, writing>>

Awaited(w) == {c \in writing : c.worker = w /\ c.index = JobOf(w) /\ c.attempt = builder[w].attempt}

NextBatch(w) ==
    LET todo == builder[w].todo
    IN  /\ builder[w].at = "building" /\ Awaited(w) = {} /\ todo # {}
        /\ \E batch \in SUBSET todo :
             /\ \/ Cardinality(batch) = Concurrency
                \/ Cardinality(todo) < Concurrency /\ batch = todo
             /\ writing' = writing \union [worker : {w}, index : {JobOf(w)}, attempt : {builder[w].attempt},
                                           asset : batch, at : {"upsert"}]
             /\ builder' = [builder EXCEPT ![w].todo = todo \ batch]
        /\ UNCHANGED <<ledger, index, records, vectors, api>>

\* A call that the handler waits for, and not one that a failed batch left behind.
IsAwaited(c) == builder[c.worker].at = "building" /\ c \in Awaited(c.worker)

\* A mutant: the records do not wait for the vector store.
UpsertUnawaited(c) ==
    /\ c.at = "upsert"
    /\ writing' = (writing \ {c}) \union {[c EXCEPT !.at = "record"]}
    /\ UNCHANGED <<ledger, index, records, vectors, api, builder>>

Upsert(c) ==
    /\ c.at = "upsert"
    /\ vectors[c.index] # NoCollection
    /\ vectors' = [vectors EXCEPT ![c.index] = @ \union {c.asset}]
    /\ writing' = (writing \ {c}) \union {[c EXCEPT !.at = "record"]}
    /\ UNCHANGED <<ledger, index, records, api, builder>>

\* The foreign key holds records of a deleted index off.
Record(c) ==
    /\ c.at = "record"
    /\ Exists(c.index)
    /\ records' = [records EXCEPT ![c.index] = @ \union {c.asset}]
    /\ writing' = writing \ {c}
    /\ IF IsAwaited(c) THEN Reports(c.worker, UNCHANGED builder) ELSE UNCHANGED builder
    /\ UNCHANGED <<ledger, index, vectors, api>>

WriteFails(c) ==
    /\ writing' = writing \ {c}
    /\ IF IsAwaited(c) THEN \E result \in {"retry", "reject"} : Throws(c.worker, result)
       ELSE UNCHANGED builder
    /\ UNCHANGED <<ledger, index, records, vectors, api>>

\* evaluateAndActivate returns if there is nothing to evaluate.  Then
\* reportProgress(100) throws, as its argument is out of range.
FinishBuild(w) ==
    LET i == JobOf(w)
    IN  /\ builder[w].at = "building" /\ Awaited(w) = {} /\ builder[w].todo = {}
        /\ index' = IF index[i].state = "building" THEN [index EXCEPT ![i].state = "evaluating"] ELSE index
        /\ IF index'[i].state = "evaluating" THEN Reports(w, GoTo(w, "evaluating")) ELSE Throws(w, "retry")
        /\ UNCHANGED <<ledger, records, vectors, api, writing>>

Evaluated(i) == [index EXCEPT ![i].evaluated = TRUE]

\* A mutant: the candidate becomes active whatever has become of it.
ActivatedRegardless(i) ==
    [j \in Indexes |-> IF j = i THEN [state |-> "active", evaluated |-> TRUE]
                       ELSE IF index[j].state = "active" THEN [index[j] EXCEPT !.state = "retired"]
                       ELSE index[j]]

\* A mutant: the active index stays.
ActivatedBeside(i) ==
    [j \in Indexes |-> IF j = i /\ index[j].state = "evaluating" THEN [Evaluated(i)[j] EXCEPT !.state = "active"]
                       ELSE Evaluated(i)[j]]

\* The active index is retired and the candidate becomes active, if it is still
\* being evaluated.
Activated(i) ==
    [j \in Indexes |-> IF index[j].state = "active" THEN [Evaluated(i)[j] EXCEPT !.state = "retired"]
                       ELSE IF j = i /\ index[j].state = "evaluating" THEN [Evaluated(i)[j] EXCEPT !.state = "active"]
                       ELSE Evaluated(i)[j]]

\* One transaction, which fails if the index was deleted or evaluated meanwhile.
\* After an approval, reportProgress(100) throws.
Decide(w) ==
    LET i == JobOf(w)
    IN  /\ builder[w].at = "evaluating"
        /\ Exists(i) /\ ~index[i].evaluated
        /\ \/ index' = Activated(i) /\ Throws(w, "retry")
           \/ index' = [Evaluated(i) EXCEPT ![i].state = "failed"] /\ Throws(w, "reject")
        /\ UNCHANGED <<ledger, records, vectors, api, writing>>

\* The index fails with an error that is final or with the last attempt, unless
\* the database fails.
Catch(w) ==
    LET final == builder[w].result = "reject" \/ builder[w].attempt >= MaxAttempts[JobOf(w)]
    IN  /\ builder[w].at = "catching"
        /\ \/ final /\ index' = Failed(JobOf(w))
           \/ UNCHANGED index
        /\ Ends(w, builder[w].result)
        /\ UNCHANGED <<ledger, records, vectors, api, writing>>

Settle(w) ==
    /\ builder[w].at = "done"
    /\ Settles(w, JobOf(w), builder[w].result)
    /\ builder' = [builder EXCEPT ![w] = IdleBuilder]
    /\ UNCHANGED <<index, records, vectors, api, writing>>

WorkerDies(w) ==
    /\ builder[w].at # "idle"
    /\ builder' = [builder EXCEPT ![w] = IdleBuilder]
    /\ writing' = {c \in writing : c.worker # w}
    /\ UNCHANGED <<ledger, index, records, vectors, api>>

Next ==
    \/ \E i \in Indexes : StartReindex(i) \/ DeleteIndex(i) \/ CleanUp(i)
    \/ \E a \in Excludable : Exclude(a) \/ Admit(a)
    \/ \E w \in Workers : \/ ClaimNext(w)
                          \/ Begin(w)
                          \/ Prepare(w)
                          \/ CallFails(w)
                          \/ NextBatch(w)
                          \/ FinishBuild(w)
                          \/ Decide(w)
                          \/ Catch(w)
                          \/ Settle(w)
                          \/ WorkerDies(w)
    \/ \E c \in writing : Upsert(c) \/ Record(c) \/ WriteFails(c)

Spec == Init /\ [][Next]_vars

-----------------------------------------------------------------------------
(* Properties.                                                             *)

\* At most one index serves a project, and it has passed an evaluation.
OneActive ==
    /\ \A i, j \in InState("active") : i = j
    /\ \A i \in InState("active") : index[i].evaluated

\* docs/semantic-search.md: a candidate that does not activate is marked failed.  No
\* attempt that comes late, and no retry, brings an index back that was deleted,
\* replaced or has failed.
OverIsOver ==
    [][\A i \in Indexes : index[i].state \in Over => index'[i].state \in Over]_vars

\* What the records promise is in the collection, unless the asset was excluded
\* while the index was live: a late ai.delete_asset job deletes what was indexed anew.
RecordsAreBacked ==
    \A i \in Indexes : \A a \in records[i] \ cleanup[i] : vectors[i] # NoCollection /\ a \in vectors[i]

\* An excluded asset has records only in indexes whose build had it on its list
\* when it was excluded.
OnlyEarlierBuildsKeep ==
    \A i \in Indexes : records[i] \intersect excluded \subseteq listed[i]

\* docs/semantic-search.md: the active index goes on serving while a candidate is
\* built, and the candidate activates atomically.  The active index goes only
\* when another takes its place or an operator deletes it.
ActiveUntilReplaced ==
    [][\A i \in InState("active") :
         \/ index'[i].state \in {"active", "deleted"}
         \/ index'[i].state = "retired" /\ \E j \in Indexes : index'[j].state = "active"]_vars
=============================================================================
