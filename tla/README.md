# Verification of forge-artifactory

TLA+ models of forge-artifactory, a Go server that stores release artifacts,
publishes signed releases to channels, and serves them to an update client.
TLC checks the models on small instances; TLAPS proves the safety core for
every value of the constants. All paths below are relative to the repository.

Contents: 1 the system, 2 the plan, 3 the modules, 4 the runs, 5 time, faults
and fairness, 6 the proofs, 7 where code and documents disagree, 8 what is not
modelled.

## 1. The system

One PostgreSQL database and one directory of files are shared by any number of
API processes and worker processes (`internal/app/runtime.go`). No process
keeps state that another one relies on: they coordinate through rows, partial
unique indexes, leases with a generation number, and file names. Clients link
`pkg/forgeupdate` or pipe the installation script into a shell; on their hosts
both work on one directory.

| Part | State it keeps | Operations | Must be true |
|---|---|---|---|
| publish service, `internal/release/publish.go`, `jobs/publish_recovery.go` | `releases.state`, `publish_attempts`, `release_manifests`, `idempotency_records`, the two output blobs and their staging files | start, execute (sign, store, record, finalize), heartbeat, recover after the lease, retry, abort, fail | a release and its attempt never disagree; published releases are complete and final; only the lease holder decides; publishing ends |
| draft releases, `release/draft_service.go` | `releases`, `release_artifacts` | create, add and remove artifacts, cancel | a release that is not a draft does not change |
| blob store, `blob/service.go`, `storage/filesystem.go`, `jobs/cleanup.go` | `blobs` rows, files under `blobs/sha256/` | claim, promote, mark ready, reference; claim orphan, delete, complete, quarantine, purge, reconcile files without a row | a referenced content has its file; an unreferenced one is collected |
| artifact service, `artifact/service.go` | `artifacts`, `upload_sessions`, staging files | upload, checksum deploy, download | one artifact per path; a failed upload leaves nothing behind for ever |
| upload cleanup, `jobs/upload_cleanup.go` | the same | clean expired sessions, reconcile staging files | no staging file that is still needed is removed |
| job runner, `jobs/runner.go` | `jobs` | enqueue, reap, claim, complete, retry | every kind keeps running, on one worker at a time |
| idempotency, `idempotency/service.go` | `idempotency_records` | begin, complete, replay, expire | a key has one answer |
| channels, `channel/service.go` | `channels`, `channel_revisions` | promote, resolve, list the history | history and pointer agree, a channel names published releases only |
| products, repositories, packages, `product/service.go`, `repository/service.go`, `release/package_service.go` | one table each, `install_key` and its predecessor | create, with whatever of the three is there already; rotate the install key | a release says in its manifest whether it can be installed; a rotation turns nobody away at once |
| installation requests, `api/install_handlers.go` | none | render a script, resolve the stable release, download | what is downloaded is what was offered, whatever has been promoted since |
| tokens and accounts, `auth/service.go`, `bootstrap/admin.go` | `service_accounts`, `api_tokens` | authenticate, touch, issue, revoke, bootstrap | a revoked token has no effect; one first administrator |
| rate limiter, `ratelimit` | buckets and upload counts in memory | acquire, release, forget idle keys | a key gets no more than its rate and its slots |
| request gate and audit, `api/server.go`, `rate_limit.go`, `denial_audit.go`, `audit` | `audit_events` | authenticate, limit, authorize, serve, record | the audit trail says what has happened |
| update client, `pkg/forgeupdate` | bundle directory and link, own binary, receipts | check, download, verify, install, finalize, roll back | the link names a complete version, the program survives, a rollback takes back its own |
| installation script, rendered by `api/install_handlers.go` | the same directory, the command in the user's path | install, and undo from a trap | a script that fails leaves what it found |

How they interact. A draft lists artifacts; publishing freezes the list in
`publish_attempts.request`, signs a manifest over it, stores manifest and
signature as blobs, and inserts `release_manifests`. Both the artifact service
and the publish service go through the same claim protocol of the blob store,
and the blob cleaner works against both. Staging files are shared between an
execution, the one that takes over from it, and the staging cleaner. The four
periodic jobs (blob cleanup and upload cleanup every 5 min, idempotency cleanup
every hour, publish recovery every 10 s) run under the job runner. Every request
passes the request gate; one for installation carries an install key instead of a
token, and ends at a host that asks again, with the answer it was given, to download.

What is hard here. Ownership is a lease in a row: a process that stalls past
its lease wakes up and goes on, with whatever it read before. Files are outside
the transactions that describe them. Nearly every operation is a sequence of
transactions and file operations in which a crash may fall anywhere, to be
repaired by a worker. On the hosts there is no worker and no transaction: a step
that has not been synced may be lost or kept, and the next call has to cope. The
gate decides by what it read a moment ago. `PROJECT.json` lists each such hazard with the line where
it bites and the properties that cover it.

## 2. The plan

In order of importance; all of these are done.

1. **`PublishAttempt`**, refining **`PublishLifecycle`**: the publish protocol.
   It contains its own slice of the blob store (its two outputs), of the
   cleaners and of the drafts, because its hazards come from their interplay.
2. **`BlobStore`**: one content, its writers and its cleaners, in finer steps
   than `PublishAttempt` has them.
3. **`JobRunner`**: the jobs table, on which the fairness assumed in 1 and 2 of
   the recovery and the cleaners rests.
4. **`UploadSession`**, refining **`ImmutablePath`**: sessions, their staging
   files, the upload cleaner, and the path uniqueness of artifacts; uses the claim
   protocol of 2 as an interface.
5. **`Idempotency`**, refining **`OncePerKey`**: requests with one key, replay,
   conflict, expiry; one execution per key and lifetime of its record.
6. **`PackageReleases`**: the releases of a package and its channels: create, cancel,
   publish, abort and promote, with the rows that refer to a release.
7. **`UpdateHost`**, composed of `BundleRoot`, `BundleInstall`, `InstallScript` and
   `SelfBinary`: the file steps on a host, with failing calls, signals and power losses.
8. **`RequestGate`**, composed of `RateLimiter` and `AccessTokens`: what a request
   passes, and the administration of tokens that changes it.
9. **`InstallFlow`**, which extends 6 with `ProductRegistry` and `SemVer`: from a draft
   to an installed program, and refines 6.

What is left, in this order: the connection pool, which publishing takes a second
connection of while it holds one, and which waiting duplicates of requests use up; the
hosts of 9 in the file steps of 7; the promotions of 9 under the arbitration of 5.

Abstract specifications: publishing as one decision (`PublishLifecycle`); a path that
is written once (`ImmutablePath`); idempotent execution as a map from key to answer
(`OncePerKey`); releases and channels without their products and hosts
(`PackageReleases`, for `InstallFlow`).

Theorems: for each of them the inductive invariant and the safety properties it
carries; for 1, 4, 5 and 9 that they implement their abstract specification (all done).

## 3. The modules

Conventions of all modules. A database transaction is one action, since the code
takes the row locks first; whatever happens outside a transaction is an action
of its own, so all interleavings between transactions and file operations occur.
`UPDATE ... WHERE` statements are guards with the same conjuncts, and "no row
affected" is modelled as the code handles it. Rows are records; timestamps are
flags (section 5). Definitions whose comment starts with *Mutant* are variants
with a plausible bug: they take no part in a specification and show that the
properties notice.

### `PublishAttempt.tla`

| Variable | In the code |
|---|---|
| `release` | `releases.state`, `current_attempt_id` |
| `content` | `release_artifacts` of the release |
| `attempt` | `publish_attempts` rows: state, frozen request, key, lease owner and generation, retry count, `storage_completed` |
| `idem` | `idempotency_records` of publish requests; answers are their status codes |
| `manifest` | the `release_manifests` row |
| `blob`, `object`, `staging` | per output: its `blobs` row, its file, its staging file |
| `pc`, `job` | where an execution is in `executeAttempt` and what it remembers; recovery works on a copy of the row |
| `faults` | crashes and stalls so far, bounded by `MaxFaults` |

`StartPublish` is the transaction of `Publish`, `RejectPublish` its refusal,
`ForgetAnswer` the idempotency cleaner. `TakeLease` is `ClaimExpiredPublish` of the recovery
job, `LoadAttempt` to `FinalizePublish` the steps of `executeAttempt` in code
order: renew, sign, per output claim / put to staging / link / unstage / mark
or, for a ready one, stat; renew, record, re-read, finalize. `Heartbeat` runs
beside the steps it covers in the code, `HeartbeatLost` cancels them.
`RecordTransientFailure`, `MarkPublishFailed`, `ReachRetryLimit`,
`ProveOutputAbsent` and `AbortPublishAttempt` are the failure paths: at the
retry limit only a proof that some output is missing returns the draft.
`ClaimOrphan`, `DeleteObject`, `PurgeRow`, `ReconcileObject`, `CleanOldStaging` and
`CleanStaging` are the cleaners, as coarse as the publish protocol can tell.
Here a deletion ends within its quarantine; `BlobStore` shows what happens
when it does not.

Ed25519 is deterministic and the manifest carries the attempt's own
`published_at`: outputs of one attempt are the same in every execution of it and
differ between attempts, so an output is a pair of attempt and kind.

### `PublishLifecycle.tla`

What publishing promises to the clients of a release: draft, publishing, then
published, failed, or draft again, with the whole content visible at once and
every accepted request answered when it ends. `PublishAttempt` implements it
under the mapping of `Lifecycle`: state and content as they are, the visible
manifest as the content of the attempt in `release_manifests`, the answers as
they are.

### `BlobStore.tla`

`row` is the `blobs` row of one content, `refs` the writers whose artifact
references it, `object` its file; `wpc`/`wgen` and `cpc`/`cgen` are the program
counters and remembered lease generations of writers and cleaners. Contents
share neither rows nor files, so one is enough. Writers are uploads
(`StartUpload`, `ClaimNew`, `ClaimExpired`, `ClaimReady`, `LinkObject`,
`MarkReady`, `StatObject`, `FinalizeUpload`) and checksum deploys; any of them
may be abandoned at any point, with or without a crash. A cleaner pass selects
an orphan and locks it in two steps (`StartPass`, `ClaimOrphan`): the `NOT
EXISTS` subqueries of `ClaimOrphanBlob` are evaluated in the snapshot of the
statement, the row is locked later, and PostgreSQL re-evaluates only the row's
own columns. The model lets a claim go through in slightly more situations
than PostgreSQL would, never in fewer. It then deletes under a heartbeat and
completes; `ListObject` and `InsertTombstone` are the reconciler that walks the
files. `BeginDelete` is used by tests only and is left out.

### `JobRunner.tla`

`row` is the active row of each kind (completed and failed rows are never read
again), `pc` and `at` where a worker is in `runOnce`, `claim` what `ClaimJob`
returned to it. `SeedKind` and `ScheduleKind` are `ensureScheduled` (reap, then
enqueue), `ClaimJob`, `HandlerReturns`, `CompleteJob` and `RetryJob` the rest of
the loop. Nothing renews the lease of a job, so `LeaseExpires` may fall into a
running handler. A worker works on one job at a time, so that its name stands
for the UUID it made for the claim and for the id of the row.

### `UploadSession.tla`

| Variable | In the code |
|---|---|
| `session` | the `upload_sessions` row of each upload: state, lease owner and generation, whether lease and hard deadline are past, whether `cleanup_completed_at` is set |
| `artifact` | whose `artifacts` row the path has; `UNIQUE (repository_id, logical_path)` |
| `staging`, `old` | the files `staging/uploads/<session>`, and those older than the orphan retention |
| `pc` | where each upload is in `Upload`, `finalizeUpload` or `failUploadSession` |
| `pass` | where a pass of `CleanupUploadsOnce` is, and with which session or file |

All uploads go to one path: paths share no rows and sessions no files. `CheckPath`
to `FinalizeUpload` are the steps of `Upload` in code order, `ChecksumDeploy` the
competitor that needs no session. Whatever blob the upload claims, another
request may have made it ready or own it, so `ClaimBlob` is a choice here and
`BlobStore` says what is behind it. Every step after the session is created may
fail (`PutFails`, `StoreFails`, `FinalizeFails`), which also stands for the end of the
upload's context at its hard deadline, and `failUploadSession` then goes on
without looking at errors: `FailUploadSession` or `FailureUnrecorded`, deletion,
`CompleteOwnCleanup`; after a failed finalization it is given no key and does the
update only. `CommitUnknown` is a commit that succeeds while its answer is lost.
A pass claims an expired session, deletes, and completes (`ClaimExpiredUploadSession`
to `CompleteUploadCleanup`); when there is none it walks the files
(`ListStaging`, `CheckProtected`, `SweepStaging`). The code makes a new owner for
every claim; the model uses the name of the pass and tells its claims apart by the
generation, which grows with each. The cursor of the listing is left to fairness.
A claimable row that a transaction holds locked for a moment would be skipped by
the claim, and the pass would list although the row is there; it lists a little
later in the model.

### `ImmutablePath.tla`

What the artifact service promises for a path: written once, by one upload or
deploy, and an upload that is refused, because it failed or because its session
was taken over, never stores anything. `UploadSession` implements it under the
mapping of `Path`.

### `Idempotency.tla`

| Variable | In the code |
|---|---|
| `row`, `expired` | the committed `idempotency_records` row of each key: fingerprint and answer, and whether `expires_at` has passed |
| `holder` | whose uncommitted row the unique index has for the key |
| `tx` | where each request is in `RunInTx` and what its transaction has done |
| `effects`, `heard` | ghosts: how often the work of the present record took effect, and what clients were told of it |

A key stands for its whole scope (token, method, resource, key), a body for a
fingerprint, and a status for the stored answer: `ok`, or `refused` for a terminal
4xx. `InsertRecord` is the `INSERT ... ON CONFLICT DO NOTHING`, which waits while
another transaction has inserted the key and finds its row once it has committed;
`ReplayRecord` and `SelectFails` are the `SELECT ... FOR UPDATE` and the comparison
after it, with the row that the cleanup deletes between the two statements.
`WorkSucceeds` and `WorkRefused` are the callback in its savepoint, `CommitRequest`
is `completeResponse` and the commit, whose answer may be lost, and `Abort` is the
deferred rollback, for whatever reason, a crash included. Requests without a key take
the same way without a record. The requests that use `RunInTx` never commit a pending
record, so `ErrInProgress` is unreachable in it; publishing, which does commit one, is
in `PublishAttempt`.

### `OncePerKey.tla`

What an Idempotency-Key promises while it is remembered: one execution, whose work
takes effect once if it is accepted and never if it is refused, one answer for
everybody, and one body. `Idempotency` implements it with `outcome <- row`.

### `PackageReleases.tla`

| Variable | In the code |
|---|---|
| `release` | `releases.state` of each version of one package, or no row |
| `attempted` | the versions that `publish_attempts` rows refer to |
| `current`, `lock` | `channels.current_release_id`, and who has the row `FOR UPDATE` |
| `revisions` | the `channel_revisions` of each channel in the order of their commits |
| `promotion`, `begun` | where each promotion is in `Promote`; how many have begun |

`Create` and `Cancel` are transactions that decide by the row they lock. `Cancel` is
also disabled by the foreign key of an attempt: rows in `publish_attempts` are never
deleted and refer to the release without `ON DELETE`. `StartPublish` and `EndPublish`
are what `PublishAttempt` models in full. A promotion takes several statements:
`LockChannel`, `CheckPublished`, which reads the release without a lock, and
`PromoteChannel`, which reads the previous release a second time and commits;
`EndPromote` is every way to leave earlier.

### `ProductRegistry.tla`, `SemVer.tla` and `InstallFlow.tla`

| Variable | In the code |
|---|---|
| `registered` | whether the repository `cli-releases` and the package have rows |
| `installKey`, `previousKey`, `expired` | `products.install_key` and `previous_install_key`, numbered in the order they were drawn, and those whose 30 days are over |
| `artifacts` | the release artifact of each version for the platform of the hosts |
| `snapshot` | what the frozen request of a version's attempt, and then its manifest, says |
| `host` | where each host is, with its key, the offer it was given and what it has installed |

Everything of `PackageReleases` goes on around them: `CreateDraft` to `SignOrGiveUp`
add the artifacts to its release steps, `PromotionStep` the package. A product takes
over a repository and a package that exist (`Ensured`), and a package may have
releases before its product has a row. A release of that time has a manifest of schema
1: it resolves, and cannot be installed. `LookUp` is the check of the install key that
comes first, `Resolve` the one statement that reads channel, release and artifact, with
the client's own verification (`Verified`, `Bound`) or the script's (`HasPlan`); `Admit`
and `Open` are a later request, with the version and the digest of the offer in its URL;
`Install` is the digest over what has arrived. Ends of requests, refusals and the host's
next request are `Leave`. A download without a version or a digest, which some clients
of the interface may ask for, is left out.

`SemVer` has `CompareVersions` of the client as the code computes it, digit strings by
their length first, and `Precedes`, the precedence that SemVer defines by values.
`Samples` are further versions, in no package, over which TLC compares the two.

### `BundleRoot.tla`, `BundleInstall.tla`, `InstallScript.tla`, `SelfBinary.tla` and `UpdateHost.tla`

| Variable | In the code |
|---|---|
| `dir`, `current` | the directories `versions/<version>`, and the link `current` |
| `leftDir`, `leftCurrent`, `leftTarget` | what a power loss may leave of each: the states it has had since its directory was synced |
| `unsynced` | versions whose files the script has moved in without syncing them |
| `install` | where each `InstallBundle`, `Rollback` or `Finalize` is, and its receipt: version, `previous`, `pointerRestored` |
| `script`, `launcher`, `backup` | where the script is and its flags, the command in the user's path, and where it was moved aside |
| `target`, `update` | the program's own file, and where each `InstallSelfBinary` and its receipt is |
| `plan` | what `Check` has found and `Apply` will use |
| `owner`, `touched`, `spoilt` | history: who has committed a version; what the script has moved or removed; what it has removed, or begun to, while the link may name it |
| `strategy`, `alone` | how the product is installed; whether calls on this host overlap |

Each system call after the download is a step that may fail or be the last one, in the
order of the code: extract, rename, sync, read the link, replace it, sync, run the hooks,
and for a rollback verify, restore, sync, remove, sync. The script sets each of its flags
after the change it stands for, and a signal may come between the two (`window`). The
commands of its trap fail too: a restoration that fails keeps the version
(`launcher_restored`, `current_restored`), and `rm -rf` of the version, whose result the
trap ignores, may take all, a part or nothing of it (`littered`). `FailedScriptUndoes` says what
is left when the trap is through: the link and the command as they were and no version,
but for what `rm` could not take; or a whole version, where a restoration failed. A signal
in a window spoils the one change whose flag it came before and no other: the version
stays, or the link stays switched, or the command stays aside or in place. Power
is lost with `alone` only: every entry then falls back, on its own, to one of the states it may
have had on the disk. Three readings of the file system are assumptions: syncing an
extracted file makes the nested directories it is in durable, as `bundle.go` syncs only
the top of the staging directory; a successful sync after a failed one covers both; and
a rename replaces a link or a file at once.

Some outcomes the models show and no property excludes, because the code promises
nothing: a crash between the rename of a version and the switch of the link, or a script
whose `rm -rf` fails, leaves a version, whole or in part, that blocks its own installation
(`ErrAlreadyInstalled`) until somebody removes it; a signal between the switch of the link
and its flag makes the trap remove the version that the link names; `Finalize` succeeds although the update before it has put the old file back; a plan
that was overtaken installs an older version; and calls that overlap may take each
other's versions away.

### `RateLimiter.tla`, `AccessTokens.tla` and `RequestGate.tla`

| Variable | In the code |
|---|---|
| `clock` | the time, in ticks |
| `entries`, `lastSweep` | the limiter's map, with a bucket per class and `active` per key, and when it was swept |
| `admitted`, `rewound` | history: how many requests have passed, and by how many ticks the readings of the clock were too old when they were used |
| `accounts`, `tokens`, `rowLock` | `service_accounts`, `api_tokens`, and who holds an uncommitted revocation of a row |
| `boot`, `printed` | where each `bootstrap-admin` is, and the tokens such commands have made |
| `req`, `sent`, `load` | where each request is, what it has done and its client has heard; how many came; what they may ask for |

A request looks its token up, writes its use unless it is recent, reads the clock, passes
the limiter, is authorized by its scopes, works, and commits with its event; denials are
audited in a transaction of their own, and one that fails turns the answer into 503.
Requests for installation pass two limits, the shared one and that of their key, and are
not audited. The limiter reads the clock before it takes its mutex (`limiter.go:98`), so
the reading may be older than the last one that was used: the time of the bucket then
goes back, and the time in between counts twice. `RateIsKept` bounds what this gives by
`rewound`. An entry that was idle is forgotten and made again with full buckets, whether
or not they were full: the configuration asks for positive rates, bursts and idle times and
nothing more (`config.go:110-133`). Hence the bound: beside its first burst a bucket gets
in each idle time what its rate gives in it, or one more burst if that is more (`Yield`).
With the defaults (a burst of 100, 50 a second, 15 minutes) the rate gives more, and the
bound is burst and rate alone (`ForgettingIsFree`). A tick is long enough for rates to be
whole tokens per tick, and fractions of a token are left out.

The row of a token and the clock are read in one step, issued tokens live one tick, the
scopes of a row never change, and requests carry no idempotency keys here. A request
that was admitted before its token was revoked may still commit. A bootstrap command
prints its token after it has committed (`admin.go:112`): if that output is lost nobody
can administrate, and running the command again does not help.

### MC modules

`MCPublishAttempt`, `MCBlobStore` and `MCUpdateHost` add only the symmetry sets
of processes and names, `MCRequestGate` also the loads of requests, and `MCInstallFlow`
two versions, and as `Samples` short versions of every kind; the other
modules are instantiated by their configurations alone. Symmetry is used by runs that
check no liveness; the elements are compared for equality only, so that it is sound.

## 4. The runs

| Run | Instance | Checks |
|---|---|---|
| `publish_recovery` | 1 attempt, 1 key, 3 executions, 1 retry, 1 crash or stall, transient failures, unusable keys, under fairness | the inductive invariant holds: release and attempt agree, answers are pending exactly while an attempt is active; only the holder of a lease decides; publishing ends |
| `publish_retention` | 1 attempt, 1 key, 3 executions, 1 retry, 1 stall, and rows may age beyond the retention | recorded and published outputs keep their files, the lease holder finds its staging file, published is final, `PublishLifecycle` is implemented |
| `publish_retry_claim` | no crash, only transient failures | expected violation, section 7 |
| `blob_store` | 2 writers, 2 cleaners, 2 faults, under fairness | a referenced content is ready and has its file, files go only under a tombstone, the inductive invariant holds; files nobody references go, tombstones end |
| `blob_late_delete` | 2 writers, 2 cleaners, a stall, and a delete may outlive its quarantine | expected violation, section 7 |
| `job_runner` | 2 kinds, 2 workers of which one may hang in any handler, budget 2, 1 crash, under fairness | no row sticks, leases are respected, every kind is claimed again and again |
| `upload_session` | 1 upload, a checksum deploy, 2 passes, 2 faults, under fairness | the path is written once, by a session that was not taken over; the deadline protects the staging file; the inductive invariant holds, by which an upload that owns its session has its file; sessions are cleaned up, no staging file stays for ever |
| `idempotency` | 3 requests, 1 key, 2 bodies, under fairness | each record tells the truth about its work and its answers; `OncePerKey` is implemented; requests end if the work under their own key does |
| `install_flow` | 2 versions, 1.9.0 and 1.10.0, 1 channel, 2 promoters, 3 promotions, 3 install keys, 1 build, 1 host | manifests, keys, histories and offers agree; a host gets what was stable, signed, newer, and is turned away only for its key; the comparison is that of SemVer over all pairs of the short versions |
| `update_host` | 2 versions, 2 clients, 2 updates, 1 script, 1 power loss, both strategies | the link names a complete version, now and after a power loss; a script that fails undoes; the program survives; receipts fit; a rollback takes back its own |
| `bundle_rollback` | 1 version, 2 updates, a rollback repeated late | expected violation, section 7 |
| `request_gate` | 2 tokens, 1 install key, 2 requests at a time, 2 bootstrap commands, 2 accounts, 1 upload at a time, rate 1, burst 2 and for installations 4, idle after 2 ticks, one of 6 loads of up to 8 requests and 3 ticks | uploads and rates are bounded, dead tokens are shut out, the audit trail tells the truth, one administrator is made, tokens only age |

Why the bounds are enough for the cases that matter. Three executions allow a
stalled one, the one that took over from it, and one that took over again, with
the first still running; a fourth would repeat the role of the first. One attempt
leaves out an aborted publish followed by a new one while an execution of the first
still runs: two attempts are too many states for these runs, and that case is left to
the theorems about `PublishAttempt`. A retry limit of 1 reaches both the
retry and the limit. Two writers and two
cleaners allow a creator, and a successor or a late reference, against a stalled
cleaner and one that repeats the deletion. A budget of two attempts for a job
has a first, a last and an exceeded one. An upload and a deploy compete for a path as
two uploads do, which meet in the same transaction; two passes are one that
stalls and one that takes over from it. Three requests for a key are one that works,
one that waits and one that comes when the record is there; they may repeat for
ever, as the counts of effects start anew with each record, and keys share nothing.
Three promotions allow an older release after a newer one, and one
that has to wait; three install keys a rotation that leaves its predecessor usable
and one that does not. One host is enough, as hosts share nothing. Two versions allow a
previous one and one that is rolled back or installed again, and two
updates the race for one version. The loads of requests are what each property
needs: four uploads exceed a burst of two and idle for longer than the limiter remembers,
eight installations are two bursts of four, more than burst and rate give in three ticks, so
that a bucket that is forgotten before it is full gains from it, three
requests make, use and revoke a token. Faults are bounded so that each run ends; what more faults, writers, uploads or
keys could do to the safety of these components is left to the theorems of section 6,
which hold without any of these bounds. One crash or stall in a run with transient
failures is where the liveness of publishing stops; a second crash can only be survived
in the same way, by another takeover.

`CHECK_DEADLOCK FALSE` is set for the publish, blob and upload runs because the system
really stops there: a published or failed release with nothing left to clean is
final, and so are a content whose requests are all done and a path whose uploads
have ended and left no file. The runs of the
flow, the hosts and the gate stop at their bounds on promotions, calls and requests. The
job runner and requests with keys never stop, and their runs check it.

## 5. Time, faults and fairness

Timestamps are only ever compared with the present, so each is a flag saying
whether it has passed. A lease may expire at any moment when its holder is gone,
and under a live holder when the environment stalls it, which counts as a fault;
leases that nothing renews (a job's, and an upload's while it does not read) expire
at any moment. Deadlines thus need no clock. The present is the clock of the process that
runs the statement (`now` is a parameter of the queries). A clock that is
ahead makes a live lease look expired, which is the same as a stall; one that is
behind makes an expired one look live, which is a delay. Only that an upload
stops renewing when the workers see its hard deadline passed supposes that clocks
agree. Row age (the retention) passes at any time where the run enables it; a
staging file gets old only after its session's hard deadline, because the
configuration insists on a longer retention (`internal/config/config.go:144-149`).

Faults the models contain: process crashes at any step, stalls beyond a lease,
failing storage operations, signing keys that cannot be used, deletions that
fail or are late, answers that are lost, handlers that panic, damaged downloads; on the
hosts failing system calls, processes that end, signals, and power losses. The database is trusted to do what its locks
and READ COMMITTED promise, no more.

Fairness. In `PublishAttempt` a running execution goes on (goroutines are
scheduled; a crash ends it), the lease of an attempt whose holder is gone runs
out, backoffs pass, and the recovery job takes over what it may; that this job
is run at all is what `JobRunner` shows. Nothing is assumed of clients or of
faults. In `BlobStore` nothing is assumed of the writers: any of them may hang
or disappear. Passes start, a live pass goes on, leases, quarantines and
retentions run out. The claim of an orphan has strong fairness: a row
that another transaction holds is skipped (`SKIP LOCKED`), but no transaction
keeps its lock, so that a cleaner coming back every few minutes claims it in
the end. In `UploadSession`,
likewise, nothing is assumed of uploads, and of the passes only that they start and
go on; the listing has strong fairness for each file, because the cursor comes round to
it whenever a page is taken. In `Idempotency` statements return, and the insert
has strong fairness, because PostgreSQL serves the
transactions that wait for a key in turn. Nothing is assumed of the work: `RequestsEnd`
says that a request waits for nobody but the work under its own key, by taking the
return of that work as its premise. In `JobRunner` only the workers in `Reliable` are fair and return from their
handlers; the others may hang in a handler for ever. All other fairness is weak. The flow, the
hosts and the gate have safety properties only: nobody has to come back.

## 6. The proofs

All theorems are checked by TLAPS for arbitrary finite or infinite constants
within the named assumptions of the modules. `TypeOK` and the safety properties
come from one inductive invariant `IInv` per module; every proof has one step
per action.

`PublishAttemptProofs` proves `InductiveInvariant`, `TypeCorrect`,
`ReleaseAndAttemptAgree`, `PendingAnswersHaveAttempts`, `PublishedStays`,
`HolderDecides` and `PublishingImplementsLifecycle`. That release and attempt
agree is not inductive alone: that a decision may be taken must follow from the
WHERE clause of the deciding update, so `JobHasAttempt` is needed to know that a
running execution refers to an attempt at all; and that what becomes visible is
what the release lists needs `ContentIsSnapshot`, that a frozen request and the
release's content coincide while an attempt is active. The
refinement then goes action by action: the actions that decide are steps of
`PublishLifecycle`, the others stutter.

`OutputsAreDurable` and `HoldersFindStaging` need `OutputsAreKept` in the invariant:
an execution whose generation of the blob row still holds has linked its file by the
time it marks the row (`OwnerHasLinked`), and while its attempt is active no two
executions are between putting one output to staging and removing it there
(`StagingIsOwn`), because the create is exclusive. A row that an attempt or a manifest
refers to is never claimed for deletion, and a superseded execution cannot mark it with
an old generation. The theorems cover earlier attempts whose executions still run, where
the run has one attempt only.

`BlobStoreProofs` proves `InductiveInvariant`, `ArtifactsAreServable` and
`FilesGoUnderTombstones`, assuming `"late" \notin FaultKinds`, which is the
assumption whose failure `blob_late_delete` exhibits. The file of a ready row exists
(`ReadyHasObject`) because a deletion in progress implies a tombstone of this
generation (`RemoverHasTombstone`), a creator that passed the link left the file
(`CreatorHasObject`), and a cleaner that finally locks the row finds it changed
if somebody referenced it in between (`RecheckSeesReference`): references touch
`last_referenced_at`, and it is this column, not `NOT EXISTS`, that the
re-evaluation sees. `ReferencesKeepTheRow` needs no such assumption: whatever a late
deletion does to the file, a row that an artifact references stays ready, because
`ReferencedIsReady` and `RecheckSeesReference` are inductive by themselves.

`JobRunnerProofs` proves `InductiveInvariant`, `RowsNeverStick`,
`KindsStayScheduled` and `LeasesAreRespected`. Whether a failed job gets its
successor is decided by the copy of `attempts` the worker got when it claimed,
whether it fails by the row; `CopyIsCurrent` says that these agree for the holder of
the lease, and without it a kind could lose its row or fail to insert it.

`UploadSessionProofs` proves `InductiveInvariant`, `ArtifactsMatchSessions`,
`OwnersHaveStaging`, `DeadlinesAreKept` and `UploadsImplementImmutablePath`. That an
upload which still owns its session has its file needs the reason for which each
pass deletes (`PassHasReason`): it has taken the session over, so that the fence of
the upload fails for good, or it found the session cleaned up, and no update of
that row ever makes it active again. The reason stays true however long the pass
waits, and this is why asking first and deleting later is harmless here.

`IdempotencyProofs` proves `InductiveInvariant` and `RequestsImplementOncePerKey`.
That a record is written once rests on `KeyHasOneWorker`: who works under a key holds
its uncommitted row, and nobody does while a committed one exists. That its effects
are what it says rests on `RefusedHasNoChanges`, the savepoint.

`InstallFlowProofs` begins with the releases and channels alone (`InductiveInvariant`,
`HistoriesAreChains` and `AnswersMatchHistory`, of `PackageReleases`). That a check
without a lock suffices needs no more than that
published is final, which is part of what the invariant shows; the rest is that
whoever has read a channel has its lock (`LocksAreHeld`).

It goes on to prove that `InstallFlow` refines `PackageReleases`
(`FlowImplementsReleases`), so that the theorems above hold in it, and on top of them
`FlowInvariant`, `HostsGetStable`, `HostsInstallSigned`, `HostsWithKeysAreServed` and
`ClientsOnlyGoUp`. The
invariant is proved in two halves. A step of drafts, promotions, products or keys leaves
what each host was told true (`FitStays`), because published releases, their artifacts and
their manifests stay (`PublishedReleasesStay`), histories only grow (`HistoriesGrow`) and
so do keys. A step of a host is checked against what is true of that host alone
(`MovesPreserve`). That a download is never refused for what was promoted in between
comes out of `OpenPreserves`: the branch that turns the host away cannot be taken.

That a client only goes up rests on `ComparisonIsPrecedence`: for every two valid
versions, of any length, the comparison that looks at strings of digits, their lengths
first, is the precedence that SemVer defines by the values of numbers. The induction over
digits is done with sets: a set that contains 0 and with each number its successor
contains all (`Upwards`), which follows from the order of the natural numbers being well
founded. With it the recursion of `Prefixes` has a solution (`PrefixesAre`), a number with
more digits is the greater if it has no leading zero (`LongerIsGreater`), and of two with as
many the first different digit decides (`FirstDigitDecides`). `ListsAreCompared` serves both
the characters of a word and the identifiers of a prerelease: an outcome tells which of
the two is below the other, that the other is not, and whether they are the same.
`SamplesCompareAsSemVer` is this for the samples of the run.

`RequestGateProofs` proves `InductiveInvariant`, `UploadsStayBounded`, `RatesAreKept`,
`ForgettingIsFree`, `DeadTokensStayOut`, `AuditIsTrue`, `OneAdministrator` and `TokensAge`, for any finite set
of concurrent requests. The slots are counted (`SlotsAreCounted`), which is why an entry
with uploads running is never forgotten. That a key gets no more than its rate is not
inductive as it stands: `BucketsAreFair` says of each bucket that what has been admitted,
and what is left in it, is paid for by a burst and the time up to its last reading
(`Covers`), and of a key that has been forgotten that the time pays for all it has
used: the idle time before has paid for one burst (`CoversBurst`), which the key gets again
when it comes back. A refill is paid for by the rate (`CoversGain`). None of this
supposes anything of rates, bursts and idle times but that they are positive;
`ForgettingIsFree` has as its hypothesis, for one class, that an idle time fills the bucket,
and concludes the bound by burst and rate alone. That a dead token has no effect needs
`DeadStaysDead`: neither a use that is written late nor another revocation makes the
row a live one again. The administrator is one because the commands
take turns at the lock (`CommandsTakeTurns`) and count after they have it.

`UpdateHostProofs` has two invariants. `CallInv` holds however late callers repeat their
rollbacks (`CallsTakeTurns`): what is where it should be while a call or the script is
between two of its steps, what the disk may know, and what the flags of the script stand
for (`ScriptUndoable`): in each of its steps, those of the trap after any of them has failed
included, the version, the link and the command are what the rest of the trap needs, or
what its flags and the signal's window allow. From it follow `RollbacksTakeOwnBack`, `AProgramIsLeft`,
`BackupsArePredecessors` and `ScriptsUndo`. `IInv` adds, for calls that do not overlap, why
the link never names a version that is incomplete or goes: every version that is not
whole, or that some call is about to remove, is one that neither the link nor a receipt
nor the script will ever point to again (`NobodyPointsAtParts`), and whatever link
the disk may come back with names a version that it has completely (`LinksAreSolid`).
`InductiveInvariant` and `TheLinkIsWhole` assume `LateRetry = FALSE`, whose opposite
`bundle_rollback` shows to break them (section 7). The steps of the installer and of the
script are summed up first, in what they do to the link and the directories (`InstallMoves`
and `ScriptMoves`), so that the argument about the link is made once for each kind of
effect and not once for each of some forty steps.

The assumptions of these proofs are those of the modules: that markers are no values
(`NoneAssumption`, `NeverAssumption` and others like them), that numbers are numbers, that
a default is one of its set. Three hypotheses say something of the system, each of the
theorems that need it alone: `"late" \notin FaultKinds` and `LateRetry = FALSE`, which have
runs that show what happens without them, and that an idle time fills a bucket, without
which `ForgettingIsFree` becomes `RatesAreKept`.

Every safety property that a passing run checks is thus a theorem for all values of the
constants, within these assumptions. Only model-checked is liveness, as fairness and
ENABLED are out of the prover's reach: `PublishingEnds`, `NothingIsLeft`, `EveryKindKeepsRunning`,
`UploadsAreCleanedUp` and `RequestsEnd`.

## 7. Where code and documents disagree

1. *Retry of a publish finds its predecessor's staging file*
   (`publish_retry_claim`). An output is put to staging with an exclusive create
   (`internal/storage/filesystem.go:66`). An execution that fails after it wrote the
   file leaves it behind, its successor's create fails, and the failure counts as a
   permanent one: the release ends in `publish_failed`, although only transient
   failures have happened and the retry budget is not used up.
2. *A delete may outlive its quarantine* (`blob_late_delete`). The quarantine of
   a deletion is as long as a lease of 2 minutes while a delete may take 10
   (`internal/app/runtime.go:238-243`), so a removal issued under a lost lease can hit a file
   that was uploaded anew after the quarantine.
3. *A rollback repeated late removes the current version* (`bundle_rollback`). A
   rollback that restores the link and removes the version but fails to sync
   (`pkg/forgeupdate/bundle.go:265`) stays active with `pointerRestored` set. If the
   version is installed again and the rollback repeated, the check of the link is
   skipped and the version that `current` names is removed; the comment at line 240
   says that this never happens.

Without a run, because the code does one plain thing and a document says another:

- A draft cannot be cancelled after an aborted publish: the attempt keeps its row, whose
  foreign key (`00001_initial.sql:213`) refuses the deletion of the release, and
  `draft_service.go:420-423` passes the error on as a 500. The design
  (`2026-07-11-artifact-repository-mvp-design.md:203`) lets a draft be cancelled.
- The newest revision need not be the current release: the history sorts by
  `created_at` (`channel.sql:52`), the start of the transaction, which may differ from
  the order in which the promotions had the channel's lock. `service_test.go:207-221` of
  the channel service asserts that they agree after concurrent promotions.
- The design answers a duplicate with 409 `idempotency-in-progress` after a bounded lock
  wait (line 447); no lock timeout is set anywhere, so it waits, with a connection
  of the pool, as long as the first request works.
- A second rotation of an install key ends the key before the last at once
  (`product.sql.go:496`), though `openapi/openapi.yaml:306` and `docs/updater.md:95`
  promise it 30 days.

Not a divergence, but nothing keeps it from happening: `startPublish` holds the
connection of its transaction and takes a second one for the product
(`publish.go:656`), so as many concurrent publications as the pool has connections wait
for each other until their contexts end.

## 8. Not modelled

- Signing is a pure function here: the same input has the same signature.
- Archives, manifests and hooks: that extraction refuses what it must, what a manifest may
  contain and what a hook prints are validations without state; the models have
  "accepted" and "refused".
- The connection pool, the process runtime, configuration and metrics: every component
  takes connections, goroutines and time for granted (sections 5 and 7).
- The script for products that are one file: it moves a file into place and undoes
  nothing. A script that overlaps with other calls: it asks nobody whose version it
  moves, links or removes.
- Authorization by repository, listings, the dashboard and the command line: they read, or
  call the operations that are modelled. Downloads with ranges, and `GetManifest`, read
  what `PublishedIsFinal`, `RecordedOutputsDurable` and `ReferencedIsServable` keep.
- Requests for installation to releases that are no longer stable without an offer, and
  other platforms than the one of the hosts.

`PROJECT.json` gives the status and reason of each part.
