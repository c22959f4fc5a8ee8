# Aeonic: TLA+ specifications

Aeonic is a media store: an HTTP API accepts uploads and serves images, videos,
documents and transformations of them; worker processes inspect what was uploaded
and generate derivatives; a second kind of worker builds a semantic index and a
third kind of job executes what an operator approved for an agent. All processes
of a deployment share one SQLite file and one object store (a directory or S3).
This directory holds TLA+ models of its concurrent core, TLC runs on small
instances and TLAPS proofs. `PROJECT.json` maps every definition to the lines it
models.

## 1. Inventory

Paths are relative to `src/apps/api/src`.

| Component | State | Operations | What is hard | Correct when |
|---|---|---|---|---|
| Job queue `jobs/repository.ts` | rows of `jobs`: state, attempts, run_after, lease owner and end | claimNext (with the sweep of exhausted jobs), heartbeat, updateProgress, succeed, fail; inserts and cancellations by other code | several workers, stalls past a lease, crashes, old timestamps across `busy_timeout` | only the current attempt settles a job; settled is final; attempts are bounded; every job is settled |
| Job runner `jobs/runner.ts`, `worker.ts`, `ai-worker.ts` | the handler in flight, three timers, an abort signal, two flags | run, runOnce, persistFailure, SIGTERM | deadline, heartbeat, lost lease and shutdown race with the handler's end | at most one result per attempt; a healthy worker keeps its lease |
| Derivative cache `derivatives/repository.ts` | one row per cache key: state, lease, object | acquire, complete, fail | two makers of one key, lost leases | one generation publishes, with its own bytes |
| Image transformations `derivatives/service.ts` | the request in flight | resolve, ready, discard | concurrent requests, death of the API, partial failure | what is served has its bytes; one generation at a time |
| Asynchronous derivatives `derivatives/async-service.ts`, `media/derivative-handler.ts` | row, job, storage object | create, open, invalidate, restore; the `media.derive` handler | two leases (job and derivative) that can be lost separately; invalidation in three steps | no false readiness, no permanent lease |
| Simple uploads `uploads/service.ts` | asset, version, upload and storage rows | reserve, put, markStorageFailure | quota under concurrency, idempotent retries, crashes between steps | quota never exceeded; a replay never creates a second asset |
| Finalizer and reconciler `uploads/finalizer.ts`, `uploads/reconciler.ts` | the same rows | markValidating, complete, rejectContent; reconcile at start | crash between content check and completion | an available object has validated bytes and one inspection job |
| Resumable uploads `uploads/tus-service.ts`, `uploads/tus-staging.ts` | upload row, staging file, stored object, a lock per upload | create, append, status, terminate, expire, reconcile | the file and the row advance separately; retries of the last step | the offset never exceeds what is on disk; completion happens once |
| Media inspection `media/*inspection-handler.ts` | asset and version state | publish, reject | stale and current worker on one asset | an asset becomes ready or rejected once |
| Agent workflows `agents/*` | runs, plans, approvals, executions, jobs | createRun, freeze, decide, consume, execute, recordFailure, cancel, expire | decisions race expiry, cancellation and execution | each approved call is executed at most once, under a live approval, on unchanged targets |
| Semantic index `ai/indexing-handler.ts`, `ai/service.ts` | indexes, records, exclusions, usage, vectors | reindex, evaluate, activate, exclude, delete, search | retries of a half-done build, exclusions during a build | one active index; excluded assets leave it |
| AI providers `ai/circuit-breaker.ts`, `ai/openai-provider.ts`, `ai/qdrant.ts` | failures in a row, end of the cooldown; the month's ledger of usage | run; the budget compared before a call and the usage recorded after it | calls that began before the circuit opened end after it; several callers compare before one is charged | the circuit closes again when the dependency is back; the month is overspent by a bounded amount |
| Storage backends `storage/local-storage.ts`, `storage/s3-storage.ts` | files and names of a directory, what of them is on the disk; objects and multipart uploads of a bucket | put, delete (open and head are reads) | process deaths and losses of power between system calls; parts from several workers; requests that are resent, lost or served late | put is all or nothing, never overwrites, and says stored only what stays stored |
| Delivery and signing `delivery/*`, `routes/delivery.ts` | visibility, signing keys, stored representations with their dates | createSignedUrl, resolve, conditional requests, ranges | links outlive visibility, key rotations and days; downloads outlive processors | a link opens what its maker asked for until it expires; a download is of one representation |
| Transform grammar, presets `packages/contracts/src/transforms.ts`, `transforms/presets.ts`, `derivatives/output-format.ts` | versions of presets | parse, canonicalize, resolveOutputFormat; create and version a preset | several spellings of one plan, one cache key | a canonical spelling reads as the plan it was made of |
| Setup, projects, members, API keys `setup/*`, `projects/*`, `api-keys/*`, `authorization/*` | the setting `setup.completed`, roles, assignments, projects with versions, two rows per key | setup, assign, create, edit and delete projects, mint, link and revoke keys, enter an upload | requests await a hash, a mint or a verification, and what they have checked changes meanwhile | one setup; no lost edition; a key that was handed out can be revoked; nobody enters without leave |
| Authentication, audit, routes, OpenAPI, dashboard, contracts | a library's, or rows behind single transactions, or none | CRUD and formatting | little concurrency | outside these models, but for the awaits that `Access` takes from the middleware |

Interactions: the API inserts jobs in the same transaction as the rows they are
for (finalizer, derivative creation, approvals, reindex); workers read those rows
again when they run; results come back through the rows only. There are no
messages. The API's start runs the two upload reconciliations before it listens.

## 2. Modules

| Module | Models | State ↔ code |
|---|---|---|
| `JobLedger` | what the jobs table promises, without time | `ledger[j]`: state, attempts, lease_owner |
| `JobQueue` | `jobs/repository.ts` and `jobs/runner.ts` with a clock | `jobs` = table; `runner[w]` = the JobRunner of a process (phase, job, `leaseLost`, `shutdown`, abort reason, due times); one action per immediate transaction or timer callback |
| `JobDeadline` | the same actions under urgent timers, `EXTENDS JobQueue` | adds only when the clock may not advance |
| `MCJobQueue` | two studies: races of `JobQueue`, deadlines of `JobDeadline` | `study` |
| `JobQueueProofs` | the theorems about `JobQueue` and `JobDeadline` | |
| `DerivativeStore` | a row of `derivatives`, its `storage_objects`, the bytes, the makers and the invalidations | `row`, `object`, `blobs`, `maker[m].pc` (the await a call stands at), `invalidation[a]` |
| `ImageDerivatives` | makers are API requests (`derivatives/service.ts`) | `EXTENDS DerivativeStore` |
| `AsyncDerivatives` | makers are workers (`media/derivative-handler.ts`, `derivatives/async-service.ts`) | `EXTENDS JobLedger, DerivativeStore`; `payload[j]`, `current[w]` |
| `DerivativesProofs` | the theorems about both services | |
| `ProjectQuota` | the sum both upload services take in the transaction that inserts | a set of rows counts as the set of its bytes, so that sums are cardinalities and can be proved about without recursion |
| `QuotaLedger` | what the uploads of a project promise about its quota | `account[u]`: none, reserved, held, released |
| `UploadStore` | what both protocols share: rows, storage backend, `uploads/finalizer.ts` | `uploads[u]` = upload, asset, version and storage object joined, because every transaction here writes them together; `stored[u]` = bytes under the object's key; `task[r]` = a request and the await it stands at |
| `SimpleUploads` | `uploads/service.ts` and `uploads/reconciler.ts` | `Key[u]` = idempotency key |
| `TusUploads` | `uploads/tus-service.ts` and `uploads/tus-staging.ts` | `staging[u]` = length of the staging file; the lock of `#exclusive` is `Unlocked` |
| `Uploads` | both protocols in one process, with its deaths and its start-up order (`index.ts`) | `api`, `backlog` = the rows the running reconciliation has yet to take |
| `UploadsProofs` | the theorems about them | |
| `Inspection` | `media/image-inspection-handler.ts` and `media/non-image-inspection-handler.ts`, `EXTENDS JobLedger` | `asset[j]` = the state of the asset a job was queued for; `inspector[w]` = the handler in flight, the await it stands at and what it will give the runner; `Images` tells the two handlers apart, `Sound` the bytes their processors accept |
| `InspectionProofs` | the theorems about it | |
| `ApprovalToken` | what an approval promises: offered, granted, spent, used once, or void | `token[k]`, `effects[k]` |
| `AgentWorkflow` | `agents/repository.ts`, `agents/planner.ts`, `agents/execution-handler.ts`, `EXTENDS JobLedger` | `run[k]` = the rows of `agent_runs`, `agent_plans`, `approval_requests` and `tool_executions` of one idempotency key; `planner[c]` = a call in the MCP process, `worker[w]` = the handler in flight; `asset[a]` = the `updated_at` of all its writes |
| `AgentWorkflowProofs` | the theorems about it and the token | |
| `SemanticIndex` | `ai/indexing-handler.ts` and the writes of `ai/service.ts`, `EXTENDS JobLedger` | `index[i]`, `records[i]` = rows; `vectors[i]` = the Qdrant collection; `builder[w]` = the `ai.reindex` handler; `writing` = its calls of `indexTarget`, each with the worker and attempt that made it, as they may outlive both |
| `SemanticIndexProofs` | the theorems about it | |
| `StoragePort`, `ObjectStore` | what `StoragePort` in `storage/contracts.ts` promises: a call stores the whole of its source under a free key, or nothing | `objects[k]`, `landed`, `answered[p]` |
| `LocalStorage` | `storage/local-storage.ts`, one action per system call | `dir` = the names in the directory, `disk` = those that are synced, `synced`, `written` = the files; `putAt[p]`, `deleteAt[d]` = the call a put or delete stands at |
| `S3Storage` | `storage/s3-storage.ts`, one action per request | `upload[p]` = the call with the parts its workers send; `multipart[p]`, `bucket[k]` = the service; `pending[p]` = final requests under way |
| `StorageBackends` | the backend that `storage/factory.ts` picks, behind the port | `backend` |
| `StorageProofs` | the theorems about both | |
| `Access` | `setup/service.ts`, `projects/*`, `api-keys/service.ts`, `authorization/policy.ts`, `http/authentication.ts`, and what better-auth's mounted endpoints do to members and keys | `key[k]` = the rows of `apikey` and `project_api_keys`; `project[p]`, `seen[u][p]` = what If-Match names; `request[r]` = the await a request stands at |
| `Providers` | `ai/circuit-breaker.ts` and the budget of `ai/indexing-handler.ts` and `ai/service.ts` | `failures`, `openFor` = the breaker; `calling[c]` with the queries its evaluation has left, `spend`, `budget` |
| `TransformGrammar` | `contracts/src/transforms.ts`, `derivatives/output-format.ts`: operators, no state | a specification is a function from operation names to values |
| `Delivery` | `delivery/*`, `routes/delivery.ts`, `transforms/presets.ts`, `derivatives/cache-key.ts`, `EXTENDS TransformGrammar` | `visibility`, `presets`, `keys`, `processor`, `finalized`; `links` and `download[c]` are the clients' |
| `ServicesProofs` | the theorems about `Access`, `Providers` and `Delivery` | |
| `MCSemanticIndex`, `MCServices`, `MCDelivery` | studies, see section 3 | `study` |

Composition: `JobQueue` is shown to implement `JobLedger` (`ImplementsLedger`, the
refinement drops the times and the runners). `AsyncDerivatives` is built on
`JobLedger`, where a running job may be taken over at any moment, so its results
hold for every pattern of stalls; the timing that `JobQueue` adds only removes
behaviours. `DerivativeStore` is shared by the two kinds of makers.
`SimpleUploads` and `TusUploads` are two clients of `UploadStore`; `Uploads`
composes them, since they share one quota, and is shown to implement
`QuotaLedger` (`ImplementsQuotaLedger`; the mapping reads where a row stands with
the quota off its states). `Inspection`, `AgentWorkflow` and `SemanticIndex` are
built on `JobLedger` as `AsyncDerivatives` is: each claims with `ClaimNext` and
settles with `Settle`, and between the two the job may be given to another worker.
How a handler ends does not settle what is written: the runner records a deadline or a
failed renewal in its place, both retryable, or nothing at all, and `Settles` has all of
these.
`AgentWorkflow` is shown to implement `ApprovalToken` (`ImplementsApproval`; `Token`
reads off a run and its approval where the token stands). `StorageBackends` is shown to
implement `ObjectStore` (`ImplementsObjectStore`): a file that is linked, or a request
that the bucket serves, is the step `Land`; what a call returns is `Answer`; the death
of a process and the loss of power are `Outage`.

History: `runner[w].attempt`, `runner[w].misses`, `uploads[u].unhinged` and `late` of
`AsyncDerivatives` are not in the code; no guard of a program's step reads them. `late` says that the
row's lease was acquired by an attempt that had lost its job. `late` of an upload says
that a put of its bytes was given up while S3 may still serve its last request; the step
`LateLands` reads it. `uploads[u].inspections` counts the inspection
jobs that were inserted for an upload. `uploads[u].content` is what the stored
bytes are; the model decides it when the code first reads them. `snapshot.writes`,
`effects` and `applied` of a run count writes of its target, so that a property can
say what the timestamps leave open; `listed[i]` remembers which assets were
excluded while a build had them on its list. `linked` and `filled` (storage) remember
which puts have stored their object, `links[..].shows` what the maker of a link asked
for; `edition` of a project tells contents apart that have one version number, and its
`by` is the actor of its last entry in the audit. `ours` says that `ApiKeyService` asked
for a key, `secret` that somebody was sent it. `judged` counts the queries of evaluations
that the month was charged for.

Abstractions of the upload models: one API process, as the in-memory lock
presumes; a transaction is one step, and so is everything a request does between
two awaits; `put` and `delete` of the storage backend take effect at a moment of
their own, before the call returns or fails, so that an error may hide a success, and
an object may also land after its put was given up or its process died, at any time
later (`Outstanding`, `LateLands`: the completion that S3 serves late, module
`S3Storage`); a deletion takes effect within its call or never; which uploads are
stale and which have expired is a nondeterministic choice; checksums appear
only as failures; a repeated request that is answered from its row changes
nothing and has no action; derivatives are outside this quota, as they are
outside the sums of the code.

Abstractions of the models on the ledger: a handler's checks that a job names
existing rows are left out, as jobs are inserted with their rows. In
`AgentWorkflow` a plan has one call, which is what the only planner makes
(`agents/planner.ts`), so the run, its execution and its job have one key; whoever
decides has the role to; an error of the database stands for every error that is
worth a retry. In `SemanticIndex` which assets may be indexed is chosen anew by each
build, and so is whether the semantic features are turned on, which the operator
may change at any time; the outcome of an evaluation and of every provider call is
an input; the jobs that clean up vectors run at any time, any number of times or
never. `Excludable` bounds what an operator excludes.

Abstractions of the services: the names of one directory are modelled, and of a
directory that `put` makes only whether it is new (`fresh`); a host that loses power
keeps of each name the synced or the last state and of an unsynced file all or
nothing. The S3 client resends a request whose response is lost, up to
`MaxAttempts`, and a request that it has given up may still be served. Roles are
those of the policy, of whose actions those on projects, keys and uploads are
kept; sessions and the scopes of keys are not modelled. Of better-auth, which is mounted
whole beside the services (`app.ts:145`), `Access` has what it does to the same rows:
members change, users with its key permissions create, change, disable, enable and delete
keys, with any project in their metadata (`AuthCreates`, `AuthUpdates`, `AuthDeletes`),
and keys expire and are cleared away (`Expires`). These are external: no source of theirs
is in the repository. Times in `Providers` are what is left
of them, so that no clock grows. An HMAC that verifies was made with its key. Of a
text that the grammar parses the model keeps what its operations say, whether a name
is repeated and whether it is tidy (in order and without needless digits).

## 3. Runs

| Run | Question | Bounds and why they are enough |
|---|---|---|
| `queue` | Do leases fence results, does the queue implement the ledger, and is every job settled in bounded time? | Races: one job with two attempts, a prompt worker and one that may stall and carry a timestamp one unit old; lease 3, heartbeat 1, deadline 2 units; clock to 6, one crash. Two lease periods fit, so a takeover, a late result and the sweep all happen. Deadline: two jobs (2 and 1 attempts), two workers of which one may be killed and restarted twice; clock to 22 with a bound of 18. |
| `image_derivatives` | Is what is served backed by bytes, with one generation at a time? | two requests (a death of the API in between), two invalidations, two objects, the row inserted at most twice; every statement may fail, also the one that reads back what was published. |
| `async_derivatives` | Does a stale run ever publish over another? Is a derivative abandoned early? | two workers, two jobs with 2 and 1 attempts, one invalidation, two objects, failing statements. |
| `uploads` | Is the quota held, and is what is published, deleted or acknowledged really so? | two simple uploads of 1 and 2 bytes under one idempotency key and a resumable one of 3 bytes in a quota of 4: they cannot all fit, the chunks have every split and the offset every value; two requests at a time, two deaths of the API at any await, so a cleanup can itself be interrupted; puts that land after they were given up; reconciliations that look at one upload each, so candidates are left behind. |
| `false_readiness` | expected violation of `ServedIsBacked` | no invalidation, no failing statement: the lost job lease alone suffices. |
| `agents` | Is an approved change made once, as reviewed, and only while allowed? | two calls of the planner with one key, two workers, two attempts, an asset with two writes (one may be the change), one unit of time for which an approval lives: each pair of decision, expiry, spending, cancellation, late failure and write happens in both orders. |
| `inspection` | Is an asset judged by its bytes, once, and some day? | a sound image, a damaged one and a video, two attempts each, two workers, so that a stale and a current attempt stand at every pair of awaits. |
| `interrupted` | expected violation of `SoundIsNotRejected` | one video and one interruption suffice. |
| `semantic` | Does at most one index serve, does what is over stay over, do records have vectors, and who may keep an excluded asset? | Activation: two indexes with two attempts each, two workers, one asset at most that is never excluded: the state of an index does not depend on exclusions. Batches: one index, two attempts, two workers, two assets in batches of two, so that a batch can fail and leave a call behind that writes during the next attempt or after the index is gone. |
| `failed_index` | expected violation of `ActiveUntilReplaced` | the studies of `semantic`, with one asset that is never excluded. |
| `services` | Does either backend keep the port, and what is on the disk durable? Is there one setup, no lost edition, no handed-out key that cannot be revoked, no entry without leave? Is the overspending bounded, and does the circuit close again? | Storage: two puts of one key, of two pieces and of none, or a third whose bytes are wrong, and one delete; two workers and two attempts of the client, so parts arrive in either order and a request is served after its call has failed. Keys: two users of whom one sets up and stays an owner, a project that may be deleted and one that a key may be turned to, one key, two requests, so one stands at an await while the other, a member or better-auth's endpoints change what it has checked. Projects: two users who both may set up and edit, two projects of which the second comes after the first was deleted, three versions each, so an edition is written over one that somebody else has been sent. Providers: two callers, threshold, cooldown and cost at which late failures and successes come in every order (2, 2, 1), budgets 1 and 2, evaluations of at most two queries of which two a month are charged (`MaxJudged`), so that one begins below the budget and another above it. |
| `delivery` | Do links open what was asked for as long as they should, and is a download of one representation? | One source, one client and one link at a time. Links: seven specifications, among them two spellings of one plan, two that are not canonical and three that are refused or repeat a name, one preset of two versions, three headers Accept, three key rings of which the middle one has both keys, a life of one day in three. Downloads: two processors whose output has three and two octets, every range of them. |

A run with several studies has one in each part of its states: the variable `study`
never changes, and the next-state relation of a study bounds what may move in it.
The studies of `queue`, `semantic` and `delivery` are of the same variables, those of
`services` of disjoint ones, of which the others then stand still.

Symmetry is used for objects, invalidations, workers and requests that no property
or constant tells apart, and only in runs whose temporal properties are safety:
action properties, and refinements whose mapping is invariant under the
permutation (`Account` does not mention requests).

`CHECK_DEADLOCK FALSE` is set everywhere but in `delivery`: the bounds (clock,
crashes, objects) end behaviours that the system would continue.

### What the runs show

Results of the queue are fenced although a lease names a worker and not an
attempt (`LeaseNamesTheAttempt`): a process runs one handler at a time and a new
process knows no old handler. A transaction that carries an old `now` can end a
lease late, never early (`NoEarlyTakeover`). The constructor's condition
`heartbeatMs * 2 < leaseMs` is what makes one failed renewal harmless.

Images are served with their bytes unless the request that published them took them back
(`ServedUnlessTakenBack`). `resolve` reads back what it has published by `ready()`, inside
the `try` block (`derivatives/service.ts:182`); when that SELECT fails, the `catch` block
discards the stored object, and `fail` then changes nothing, as the row is ready and its
lease is gone. Such a row stays ready without its object and is answered `503` until it is
invalidated. It is the error of `false_readiness` in the other service, with a failing
statement for a cause. Nothing else leaves a ready row without bytes: no other request, no
death, no invalidation. And while a generation's lease stands, nobody else writes its row
(`LeaseIsExclusive`), though requests come that have seen an older state of it.

No order of requests, failures and deaths exceeds the quota (`QuotaHeld`), although
the sum and the insertion of a reservation are separated from its end by many
awaits: each reservation counts until the transaction that ends it, and no path
ends one twice or revives it (`EndsOnce`, `ImplementsQuotaLedger`). The offset of
a resumable upload is always on disk (`OffsetIsDurable`), because the file grows
before the row and is cut back to the row. `DeletedIsGone` needs its exceptions, which are two hazards that the code does not
meet. In S3 a put may be completed after it was given up and after the cleanup has
deleted what there was and recorded the object as deleted (`late`); no row publishes
such bytes, and nothing removes them. And a
termination or an expiry removes the staging file, then the object, then
settles the rows, and when it breaks off after the first step, a later request
takes the missing file for a lost one (`uploads/tus-service.ts`, the repair of
the offset) and records the object as deleted without having deleted it (`unhinged`).
What the property does say is that there is no third way.

No document's promise is checked where the code plainly does something else that
does no harm to what is published: `README.md:124-125` has resumable bytes moved
into the backend "only after integrity and media-type validation", while the
finalizer stores them first and validates the media type by reading the stored
object. Nothing is published unvalidated (`PublishedIsWhole`).

Two workers on one asset cannot revive a rejected one, because publication looks at
the state and rejection writes it whatever it was (`RejectedIsFinal`). For images
that is safe: `reject` is reached for bytes that the decoder refuses and for
nothing else (`ImagesAreJudged`), so no other attempt can have accepted them. For
videos and documents it is not (`interrupted`).

An approval is spent once and used once in every order of decisions, expiries,
cancellations, stale workers and late failures (`ImplementsApproval`): the worker
decides in the transaction that applies the change, and the statements by which a
failure is recorded outside it look at the state of the run before they write it.
They do not look at the execution's again, so a cancellation between them leaves a
cancelled run with an execution that reads `queued` or `failed`; its job is gone
all the same (`CancellationRevokes` speaks of the rows that say cancelled).
`ReviewedOrSimultaneous` says what comparing `updated_at` is worth: only a write in
the millisecond of the snapshot escapes it.

Activation is one transaction and conditional on the candidate still being
evaluated, so no late attempt brings back an index that is over (`OverIsOver`).
Exclusion does not reach the list a build has already made: what
`docs/semantic-search.md:25` says, "Asset exclusion immediately removes relational
index records", holds at that moment, and the build may insert them again.
`OnlyEarlierBuildsKeep` says that nothing else does. A retry that finds its index
`evaluating` returns as if done, and the index stays so until it is deleted.

A put whose call failed may have stored its object, in both backends, and in S3 it may
come to store it later, when a completion that was given up is served: services must
not take an error for an absence. They do not: cleanup deletes, and retries compare. An
object that lands after the cleanup is one that no row calls stored; the upload models
have it too (`LateLands`), and all their properties but the excepted one hold with it.
Parts are right whatever order they arrive in because a worker takes the number of a
part in the turn in which the part arrives. `StoredIsDurable` needs its
exception: `put` makes the directories of a key and syncs only the one that holds the
name, so a loss of power may take a whole directory that was made since the host
started.

An edition is written over only by somebody who has been sent it
(`EditsSeeWhatTheyReplace`): the property names the writer, `by`, and asks what he has
seen, so that the ordinary lost update of two administrators would violate it.

A key is minted by better-auth, linked in a second transaction and sent in the response,
three steps with a failure or a death possible after each. When the second fails and the
deletion of the key fails too, a key exists that no project lists; when the process dies
after it, a listed one that nobody has. `KeysSentAreListed` says that a key which
`ApiKeyService` has handed out is listed as long as it has a row. It says nothing of keys
that members create at better-auth's own endpoint, which no project lists and which the
middleware takes for keys of the project that their metadata names; nor does it say that
a revocation is for good, as better-auth's endpoint may enable a revoked key again.

Uploads look at the link again (`creatorFor`, just before their transaction and in the same
turn of the process as it), and `UploadsEnterWithLeave` rests on that: whatever was done to
a key meanwhile, and whoever made it, an upload enters only by a key whose link to this very
project stands. It does not say that the key is still valid: nothing looks at its expiry or
at whether it has been disabled after the middleware has, nor at whether the member who
made it has stayed. Reads by a key, edits of an asset and AI searches trust the middleware
altogether, so they may be answered just after a revocation, and by a key without a link.

Searches and the batches of a build compare the month's spend with the budget before each
call. The evaluation that ends a build (`ai/indexing-handler.ts:501-511`) does not: it asks
up to 25 queries (`Queries`) and records what each costs, whatever has been spent.
`SpendIsBounded` says what is left: the month is overspent by less than one call of each
caller and the queries of evaluations (`judged`); the largest budget counts, as a job reads
the settings once. After late failures and
successes in every order the circuit closes again if the dependency stays up
(`CircuitRecovers`): openings are counted from the start of the failed call, and
an admitted attempt that succeeds clears both numbers.

`LinksWorkUntilTheyExpire` covers spellings: the signed path is the canonical one, so
a link made for any spelling opens under it, and a canonical spelling reads as the
same plan. A version of a preset is never written again, so an address means for
good what it meant. `DownloadsAreWhole` is about clients that hold an ETag. With
a date in If-Range the server compares seconds of publication, and after an upgrade
and a rollback of the processor the older representation passes for the newer: such
a download may be of two.

Three runs find disagreements with documents or tests:

* `false_readiness`: `media/derivative-handler.ts` reports progress 95 after it has
  published, inside the try block whose catch deletes the object; see
  `docs/release-checklist.md:30-31`, "API and worker termination during active work
  recover without false readiness, duplicate publication, or a permanent lease
  within 60 seconds".
* `interrupted`: killing `ffprobe`, `pdfinfo` or LibreOffice because of a shutdown, a
  deadline or a lost lease rejects the asset for good; a test of the runner says
  that interrupted work is left for recovery (`jobs-runner.test.ts:167`).
* `failed_index`: `reportProgress(100)` throws after the activation, and on the last
  attempt the active index is marked failed; `docs/semantic-search.md:17` has the
  active index serve until the candidate activates.

The same sentence of the checklist excludes a permanent lease, but the sweep of
`claimNext` fails the job of a worker that died in its last attempt and leaves
what waited for it `generating`, `processing`, `executing` or `building`.
`StuckOnlyWhenExhausted` says that for agent runs this is the only way to be left
behind. `AbandonedOnlyWhenExhausted` says it of derivatives with one exception, which
the attempt at a proof brought to light: the lease of the row is taken in the name
`job:<id>`, which all attempts of the job share. An attempt that has lost its job may
therefore take the row after the current attempt gave it up and before that one
settles the job as failed; if it then dies, the row is left `generating` with
attempts unused (`late`). This takes three attempts, the default of the jobs table
(`db/schema.ts:579`): the run, with two, cannot show it; the theorem
`RowsAreAttendedTo` holds for every number.

`AbandonedOnlyWhenExhausted` speaks
of rows that the job was queued for, because the handler looks a row up by its
identifier and acquires it by its cache key in a second transaction: invalidated
in between, the key is inserted anew as a row that no job names.

## 4. Time and fairness

Two runs assume fairness. `UploadsAreSettled` (run `inspection`) needs `FairSpec`: a
worker that is up polls and goes on from each await (`Goes`, weakly fair for each
worker: the run loop of `jobs/runner.ts`, and awaits that return). Nothing is
assumed of failing reads and writes, interruptions and deaths; the bounded attempts
make up for them. `CircuitRecovers` (run `services`) needs `ProviderFairness`: time
passes and months begin; callers go on calling while they may, within the budget or in an
evaluation (the poll of the run loop, the loop over the queries, and searches), a call to a dependency that is down fails and one that is too
slow is timed out (the timer of `ai/openai-provider.ts`); and, strongly, a
dependency that is up answers again and again, as otherwise every call could time
out for ever. Without the last, the circuit opens again for a good reason.

`JobDeadline` has urgency in place of fairness: the clock does not
advance past a timer that is due (`BeatDue`, `TimeoutDue`), a poll that would find
work (`PollDue`) or a handler that has been told to stop (`HandlerOverdue`). The
code justifies the first two by `setInterval`, `setTimeout` and the run loop, the
last by the handlers that pass their signal on and by `media/subprocess.ts`, which
kills the command. At least one worker stays up. Under these, bounded response is
a safety property of the clock. A handler that ignores its signal keeps its lease
for ever, because the heartbeat goes on after the deadline (`jobs/runner.ts:123`);
that behaviour is excluded by assumption, not by the code.

## 5. Proofs

`JobQueueProofs` proves, for every value of the constants that satisfies
`QueueAssumption`, `HeartbeatAssumption` and `RetryAssumption`, that types are kept
(`TypeCorrect`) and all the properties of the run `queue`: `ChecksHold`, `LeaseIsTheAttempt`, `SettlementIsFenced`, `TakeoverIsNotEarly`,
`OneBeatMayMiss`, `KeepsTheLedger`, the refinement of `JobLedger`, and, the only one
that also uses `DeadlineAssumption`, `SettlesInTime`.

The inductive invariant `Inv` is the conjunction of `clock \in Nat`,
`crashes \in Nat`, `RowsOK` (each row has its type and satisfies the constraints
of `TableChecks`) and `RunnersOK` (each runner has its type, and a busy one has a
job). `TableChecks` alone is not inductive: that attempts stay within the maximum
depends on a queued row having an attempt left, and every transition on types.
The argument goes row by row: lemmas say what `Leased`, `Released`, `Requeued` and
the sweep make of a correct row, `OneRow` and `OneRunner` lift that to a table in
which one entry changes, and one lemma per action puts them together.
`RetryAssumption` says that the backoff is a natural number, because the provers
know nothing of exponentiation; TLC evaluates it in every run.

On top of it, `LeaseNamesTheAttempt` is inductive by itself together with `Inv`: a row
that names a worker was last claimed by the handler that the worker runs. Fencing and
the ledger follow from it, as what a runner writes is then written for the attempt
that the row counts. `OneBeatMayMiss` adds `BeatsInTime`, which ties the lease of a
prompt worker to when its last heartbeat was due; `HeartbeatAssumption` is the condition
of the runner's constructor.

`SettlesInTime` is bounded response as an invariant of the clock. `Reached` adds up
`AttemptMs` for every attempt that has been started, and `InTime` says that as long as
a job is unsettled the clock has not passed it, nor does any backoff, lease or running
handler reach beyond it. A claim moves the clock's limit by one `AttemptMs`, as the
claimed attempt was not started before (`ReachedGrows`, on the cardinality of
`Started`); everything else that sets a time does so while a handler runs, which has
kept room for a lease and for a backoff (`RoomOfARun`); and a tick finds the job's
reliable worker either running a handler or waiting for the job's own backoff or
lease (`TickInTime`). Attempts are counted, so the limit stops at `SettlementBound`.

`UploadsProofs` proves types and all six properties of the run `uploads`, for every set of
uploads, sizes, quota, keys, number of requests, limit and number of deaths that
satisfy `QuotaAssumption`, `UploadAssumption`, `SimpleAssumption`, `TusAssumption`
and `ProtocolAssumption`: `UploadTypes`, `QuotaIsHeld`, `PublishedWhole`,
`DeletedGone`, `OffsetDurable`, `OneEnd`, and `KeepsTheLedger`, the refinement of
`QuotaLedger`, which itself keeps within the quota (`LedgerWithinLimit`). Lemmas about
the sums say that they are finite, that adding a row adds its size, and that moving a
row from one sum to the other keeps their total. None of the properties is inductive: whether a completion
publishes whole bytes depends on what the request read several awaits before and
on nobody else having written the row since. The inductive invariant `Inv` says

* of each upload, which combinations of states, bytes, staging file and content
  its rows may have (`UploadsOK`);
* of each request, what the row must still be for the await it stands at (`Fits`);
* that no two requests work on one upload (`Alone`), which for a simple upload
  follows from its row being inserted by the one request and for a resumable one
  from the lock;
* that the backlog names uploads and that the quota is held.

The proof reduces an action to the row, the file and the request it changes: one
lemma per action shows that these stay correct, general lemmas lift that to the
tables (`RowIsGood` and its kin), and `AccountStep` shows that a row may only
move along the ledger, from which the quota follows for all actions but the two
that reserve.

`InspectionProofs` proves types and the safety properties of the run `inspection` (all
but `UploadsAreSettled`) for any jobs,
workers, attempts and any division of the jobs into images and sound files. The
inductive invariant `Inv` says of each asset that it exists exactly when its job
does, that a ready one is sound and a rejected image unsound; and of each handler
in flight that one about to publish has found its bytes sound, that one about to
reject an image has found them unsound, and that one returning without an error
leaves an asset that is judged. An image that is ready is therefore never rejected
afterwards, which is why a success stays true.

`DerivativesProofs` proves the properties of both derivative services. What they share
is `StoreOK`: a generation has recorded its object before the bytes are stored, and
stored them before it is finalized (`MakerOK`); no other generation, and before the
publication neither the row nor an invalidation, has met that object (`Distinct`,
`Unseen`); an invalidation has an object that will never be available again
(`InvalidationOK`); and no bytes are unlisted. Two summaries of what one actor may
change carry it (`OwnStepOK` for a generation, `AdminStepOK` for an invalidation), and
every step of either service is shown to be one of them. `ImageIInv` adds that a
generation that cleans up either has not published or is on record as thrown
(`TakenBack`), from which `ImagesAreBacked` follows, and that every generation in flight
writes in the name of its own request, from which `LeasesAreExclusive` follows. In the
asynchronous service, where more steps stand between the publication and the end, the
exception of the former is `false_readiness`. `AsyncIInv` adds what a worker that
will settle its job for good leaves behind, for `RowsAreAttendedTo`.

`AgentWorkflowProofs` proves the four properties of the run `agents` (`ApprovalRefined`,
`ReviewedBeforeChange`, `NoRunIsForgotten`, `CancelledMeansRevoked`) and `ChangedOnce`,
the token's own promise, for any requests, runs, assets and workers. The invariant says
which states of a run, its approval and its execution go together (`RunOK`), what the
job of such a run may be (`JobOK`), that a worker at a job has a spent approval and,
where it will settle the job for good, a run that no longer executes (`WorkerOK`), and
that timestamps of an asset never go back and a snapshot is the target as it was after
some write (`LogOK`, `ReviewOK`). `NowsOK` says that nobody works with a time still to
come.

`SemanticIndexProofs` proves the four properties of the run `semantic`: `OneServes`,
`RecordsHaveVectors`, `ExclusionHolds` and `OverStaysOver`. That one index is active is
inductive with the types. The others need the calls under way: one about to write a
record has its vector, and a deleted index takes no record (`BackedOK`); what is
excluded is in calls, and on the lists of builds, only where it was listed before
(`ListedOK`).

`ServicesProofs` proves the four properties of `Access`, for any users, projects, keys and
requests. Its invariant `AccessInv` says of a key what its two rows may say together, that one which
`ApiKeyService` made and handed out has its link until its row is gone, and that a request
which is making a key is the only one to have it (`KeysOK`); that whoever
was sent the current version was sent the current edition (`SeenOK`); and that before
setup there are no members, assignments or projects (`BeforeSetup`).

Of `Providers` it proves `SpendingIsBounded`: `Committed` counts what the calls under
way that were compared may cost with what is spent; each query of an evaluation raises
what is spent and the limit alike. Of `Delivery` it proves `LinksWork` and
`DownloadsStayWhole`, on lemmas about the grammar that hold for every specification,
not only the seven of the run: a canonical specification can be read, it reads as the
plan it was made of, and it is its own canonical spelling (`CanonicalIsReadable`,
`CanonicalReadsTheSame`, `CanonicalIsFixed`). `DeliveryInv` says of a link that its
path means one thing and of a client that what it holds is of one representation, and
consists of octets of it.

`StorageProofs` proves `StoredStays` and `BackendsKeepThePort` for any puts, keys,
pieces, deletes, concurrency and attempts. Of the local backend the invariant
`LocalInv` says that a file is on the disk, and whole, before its name is in the
directory, and that every name, synced or not, is one that was linked; durability
adds that the name of a stored object is synced (`DurableOK`). Of S3, `S3Inv` says
that the parts at the service and under way are those that were taken, each under
its own number, and that no final request is sent before all are there: a completion
that is served late therefore makes up the source, or is refused because the key is
taken. The refinement maps each action to a step of `ObjectStore` or to none.

Every invariant, action property and refinement of a passing run is thus proved. Only
model-checked are the two liveness properties, `UploadsAreSettled` and
`CircuitRecovers`, which are out of the reach of the prover. The three violations are
behaviours that TLC finds. Not proved either is that the models' bounds are harmless:
the theorems hold for every value of the constants, but `MaxClock`, `MaxCrashes` and
their kin are constants.

## 6. Plan

Done: the queue and its ledger, derivatives, uploads, inspection, agent workflows, the
semantic index, storage backends, access, providers and delivery, with the proofs of
their safety. Next:

1. Refinements that state what a component promises as a module of its own, as
   `JobLedger`, `QuotaLedger`, `ApprovalToken` and `ObjectStore` do: a derivative cache
   that publishes and withdraws, and an index that is replaced atomically.
2. The lifecycle tables of `storage/lifecycle.ts` as operators against which the
   writes of all modules are compared; they are called by tests only.
3. The quota of asynchronous derivatives together with that of uploads: the check
   of `media/derivative-handler.ts` does not count what uploads have reserved.
4. The repair of resumable uploads under repeated starts: its selection has a
   limit and no order, so that completed uploads can crowd out interrupted ones.
5. Lexical search and its fallback, with the exclusions of a running build.

## 7. Not modelled

Four hazards of `PROJECT.json` have no property, because the code plainly does not
have it and no document says it does: the termination that breaks off after it has removed
the staging file (`uploads/tus-service.ts:757`), an exception of `DeletedIsGone`; the selection of the reconciliation, which
completed uploads never leave (`uploads/tus-service.ts:881`); the check of a
derivative's size against stored bytes alone (`media/derivative-handler.ts:408`); and
the retry that finds its index evaluating (`ai/indexing-handler.ts:176`).

Formatting and validation of requests, `openapi/document.ts`, the schemas of
`packages/contracts/src/index.ts`, disposition, filenames and Cache-Control of
deliveries, sessions and passwords (better-auth), the contents of media, network
protocols below a request, lists and lexical search, the audit log, which is only
appended to, migrations, and the dashboard, a client of the API without state of
the system's own. Processor calls are an input with every outcome their callers
distinguish.
