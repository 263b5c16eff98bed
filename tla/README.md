# AudioBlocks backend: specification and proofs

TLA+ models of the backend in `src/` (TypeScript: Express, TypeORM on
PostgreSQL, Redis, RabbitMQ, Soroban RPC), checked with TLC and, where marked,
proved with TLAPS. All paths below are relative to the repository; the code
lives in `src/src/`. `PROJECT.json` maps every definition to the lines it
models.

The interesting behaviour of this backend is not in its request handlers, most
of which read and write single rows, but in the parts that run beside them: a
poller that copies contract events into the database and must survive restarts,
a projector that turns these rows into a read model while other processes
insert, queues whose messages are retried, and multi-step writes that another
request may interleave with. The specification starts with those.

## 1. Inventory

For each component: its state, its operations, what is hard, what makes it
correct, and where it is modelled. `PROJECT.json` says per component what is
left out.

| Component | State | Operations | Hard | Correct when | Module |
|---|---|---|---|---|---|
| On-chain event poller (`workers/indexer/IndexerWorker.ts`, `IndexerService`, `IndexerReorgGuard`, `SorobanEventReader`) | `indexer_cursors` row, the guard's cursor, `indexed_events`, locals of each `pollOnce` | poll, drain pages, flush, record progress or error, start, shutdown | overlapping polls, restarts between writes, lagging RPC nodes, bigint columns read as strings | the cursor never passes an unread event and never goes back; polls end; old events are reached | `Indexer` |
| Event projector (`EventProjector.ts`, `projections/`, `cli/project.ts`) | checkpoint row, `onchain_event_counts`, rows and sequence of `indexed_events` | catch up, rebuild, loop, CLI | sequence order against commit order, concurrent runs, failures in a rebuild | each event counted once, readers never see a partial model, no row stays behind | `EventProjector` |
| Historical backfill, reindex (`services/Soroban/`, `cli/reindex.ts`) | the same cursor row, `backfill_status` | run, resume, reindex | the live poller moves the row; errors swallowed; early end of a scan | what is claimed to be imported is stored | `Backfill` |
| Song pipeline (`workers/SongProcessorWorker.ts`, `config/rabbitmq.ts`, `utils/gracefulShutdown.ts`) | queue `song_processing`, unacked deliveries, pending map of each process | publish, deliver, ack, retry, discard, drain, reconnect | drain deadline with a handler at work, crash between publish and ack, TTL | a message is lost only for a known cause; stopping duplicates nothing; every song is settled | `SongQueue` |
| Uploads and idempotency keys (`SongService.ts`, `UploadController.ts`, `middlewares/idempotency.ts`) | chunk folders and merged files of a `fileId`, the S3 object, cached replies | upload a chunk, finalise, merge, scan, store, save; look up, cache | repeated and overlapping finalises over shared paths; reply cached after it was sent | one whole song per upload | `Uploads` |
| Song row: mint, edits, moderation, reports, takedowns (`SongService.ts`, `SongModerationService.ts`, `ReportService.ts`, `TakedownService.ts`, ...) | `songs` row, takedown and report rows, the chain | mint, edit, flag, remove, report, resolve, review | whole-row saves of stale copies; polling deadline against a transaction that lands | landed is minted; taken down stays hidden | `SongRow` |
| Song versions (`Song/SongVersionService.ts`) | `song_versions`, the song row | upload, re-upload, rollback, edit | demote, insert and promote in separate statements | one active version, the one that is served | `SongVersions` |
| Background jobs (`JobQueueService.ts`, `JobQueueWorker.ts`, `AiJobHandlers.ts`) | Redis lists, job records, in-process timers | enqueue, reserve, complete, fail, dead-letter | crash after `BRPOP`, retries held in memory, failing `complete` | no job disappears or is in two places; one outcome is announced; jobs end | `JobQueue` |
| Scheduler (`workers/scheduler.ts`, `jobs/`) | one Redis lock per job | run under lock | the TTL expires during a run; unconditional `DEL` | one run at a time, but for overruns | `SchedulerLock` |
| Webhooks (`WebhookService.ts`) | subscriptions, failure counters, deliveries | register, publish, deliver, retry, redeliver, disable | counters read before the retries and written after | disabled only by exhaustion; removed stays removed | `Webhooks` |
| Soroban RPC client (`SorobanService.ts`) | semaphore, retries, deadlines | simulate, submit, poll | permit held during backoff | every operation ends | `RpcPermits` |
| Sessions (`AuthService.ts`, `RefreshTokenService.ts`) | nonces in Redis, refresh tokens in families | logins, refresh, logout | read, then delete or revoke | a session is one line of tokens; revocation holds | `Sessions` |
| User row: two-factor codes, badge, profile (`AuthService.ts`, `UserService.ts`, `ArtistProfileService.ts`, ...) | `users` row, `artist_verifications` | some twenty writers of the row; apply, revise, decide | whole-row saves of stale copies | a recovery code works once; badge and approvals agree | `UserRow` |
| Account deletion (`AccountDeletionService.ts`, `AccountMergeService.ts`) | user row, request rows | request, cancel, purge, process due | cancel between check and purge, failed purges | a cancelled account is kept; erasure is final and recorded | `AccountDeletion` |
| Privy keys (`PrivyJwksCache.ts`, `PrivyResilience.ts`) | key cache, notes of unknown kids, breaker | look up, refresh | cooldown and notes outliving a rotation | a rotated key is found | `PrivyKeys` |
| Releases, pre-saves (`ReleaseService.ts`, `PreSaveService.ts`) | release, tracks, pre-saves, libraries | create, update, publish, scheduled publish, pre-save | three ways to be published, copies one by one | fulfilled is delivered; a publish reaches every fan | `Releases` |
| Playlists (`PlaylistService.ts`) | `playlist_songs`, the playlist, collaborators, followers | add, remove, reorder, move; update, delete, invite, follow | several editors, checks an await before the write | positions are distinct; access is as granted | `Playlists`, `PlaylistAccess` |
| Subscriptions, gifts (`SubscriptionService.ts`, `GiftSubscriptionController.ts`) | subscription and gift rows | create, upgrade, trial, cancel, expire, gift | every read may write | one active subscription | `Subscriptions` |
| Comments and reports (`CommentService.ts`, `CommentReportService.ts`) | comment and report rows | post, edit, delete, report, resolve | flag and report saved apart; stale edits | hidden as resolved | `Comments` |
| Collaborators (`CollaborationService.ts`) | `song_collaborators` | add, update, dispute | sum, then save | shares within 100 % | `Collaborators` |
| Rate limiters (`middlewares/rateLimiter.ts`, `authRateLimiter.ts`) | a sorted set per key in Redis, a list per instance | admit or refuse a request | commands of instances interleave, Redis fails, requests arrive late | no window holds more than the limit | `RateLimits` |
| IPFS uploads (`PinataService.ts`, `utils/circuitBreaker.ts`) | circuit breaker, its timers | attempt, retry, open, half-open, close | calls that outlive an opening, timers that nothing disarms | an open breaker rests, and always half-opens | `CircuitBreaker` |
| Royalties; catalogue and social services; rest of the HTTP layer; configuration, metrics, migrations | - | - | - | - | none, section 6 |

How they interact: the API publishes songs to RabbitMQ and jobs to Redis lists,
which song workers and job workers consume; the poller, the backfill and the
reindex CLI write `indexed_events`, which the projector reads; the scheduler calls
services directly; mints and reads of the chain go through the RPC client.
Nothing coordinates processes but the database, the scheduler's Redis lock, the
projector's advisory lock and the queues. Most requests read a row, wait, and save
the whole copy: TypeORM's `save()` compares the copy with the row of that moment,
writes each column that differs (except `undefined` ones), and inserts the row
when it is gone. The modules of rows (`SongRow`, `UserRow`, `SongVersions`,
`Webhooks`, `Comments`, `AccountDeletion`, ...) are about what follows from that.

## 2. Modules

| Module | Contents | Used by |
|---|---|---|
| `CursorLog` | abstract: a log with a resume cursor | refined by `Indexer` |
| `Indexer`, `MCIndexer`, `IndexerProofs` | the live poller of one contract | - |
| `EventProjector`, `EventProjectorProofs` | writers of `indexed_events` and projector runs | - |
| `SongQueue`, `JobQueue`, `SchedulerLock`, `Webhooks`, `Backfill`, `RpcPermits` | what runs beside the requests | `MCInfrastructure` |
| `Sessions`, `AccountDeletion`, `SongRow`, `SongVersions`, `Releases`, `Playlists`, `PrivyKeys` | requests over their own rows | `MCRecords` |
| `UserRow`, `Subscriptions`, `Comments`, `Collaborators`, `Uploads`, `PlaylistAccess` | what users do that rows remember | `MCUsers` |
| `RateLimits`, `CircuitBreaker` | the limiter in front of the requests, the breaker behind them | `MCUsers` |
| `UserRowProofs`, `RateLimitsProofs` | theorems about one component | - |
| `InfrastructureProofs`, `RecordsProofs`, `UsersProofs` | theorems about components that `MCInfrastructure`, `MCRecords` and `MCUsers` compose | - |
| `Sums` | lemmas: what a sum over a finite set is, and how it changes | `InfrastructureProofs`, `UsersProofs` |

The three composing modules check components that share no variable: `part`
selects the one whose steps a behaviour takes, and the others keep their initial
state, so that one run checks all without the product of their states. `SchedulerLock`,
`UserRow`, `RateLimits`, `CircuitBreaker` and `SongVersions` are extended, the others are instances, and
theorems about those are about the composition: a run and a theorem are about the same formula.

History variables (`overlaps`, `stale`, `doubtful`, `crossed`, ...) record which
of the ways the code has to miss a promise were taken. They are named in the
property, so that it says: nothing *else* breaks the promise. Definitions headed
`Mutant` are plausible bugs of the definition below them; each is paired in
`PROJECT.json` with a property that detects it. They are in no specification.

### Indexer

Contracts have a cursor row, a guard and a timer each, so one contract is
modelled. A member of `Poll` is one invocation of `pollOnce`; `start()` calls
`setInterval` without looking whether the previous invocation has returned, so
several may be in flight. Each action runs from one `await` to the next:

`ReadCursor`, `CreateCursor` (`getCursor`) -> `SetGuard` (`guard.setCursor`,
`getLatestLedger`) -> `PollInitialPage` (`getOverlapStart`, first page) ->
`PersistEvent` for each event (`flushQueue`, `upsertEvent`) -> `EndPage`,
`SaveProgress` (`recordProgress`, `updateCursor`) -> `DrainPage` or `EndDrain`
(`drainPages`); any rejection goes to `ReadForError`, `SaveError`
(`recordError`). `CloseLedger` and `Restart` are the environment.

Modelling decisions:

- `lastProcessedLedger` and `eventsProcessed` are `bigint` columns, and
  `config/db.ts` sets no `parseInt8`, so a row read back holds strings. `cursor + 1`
  concatenates (`guard.text`), while comparisons, `-` and `Math.max` convert. The
  entity that `getCursor` itself inserts holds numbers (`fresh`). The RPC refuses a
  textual `startLedger`. The counter is represented by its number of digits,
  `CounterDigits` being what the column holds (19; the runs use 4 or 7 so that it
  fills up within the bound).
- `save()` of TypeORM writes the columns that differ from the database at that
  moment, so an entity read earlier writes back its old values (`snap`).
- The bounded queue of the poller never outlives a page; it is the interval
  `next..last`. An event whose payload does not deserialise is skipped like one
  the decoder does not know (`Undecodable`). `errorCount` concatenates like
  `eventsProcessed`, but only in the error path, and is left out; so are lag metrics.
- RPC cursors are positions in the contract's event sequence. `RpcLag` is how far
  the answering node may be behind the one that answered before. Ledgers are not
  reorganised: Stellar ledgers are final, and what the code calls a reorg is a node
  whose tip is behind the cursor.

### EventProjector

`upsertEvent` is `BeginInsert` (the existence check and BEGIN, which fixes
`indexed_at`), `DrawSeq` (the INSERT takes its `ingestSeq`) and `CommitInsert`
or `AbortInsert`. A run is `StartRun`, `TakeLock` (advisory lock, checkpoint, a
rebuild's reset), `ApplyBatch` (one `applyNextBatch`) and `CommitRun`;
`RunFails` rolls its transaction back. What a transaction changes is kept in the
run and published at its commit, which is READ COMMITTED as seen by readers. The
reads of `applyNextBatch` see rows committed by then. Counts are held per event:
the multiplicity of each event determines the count of each key.

`BeginInsert` stops early enough for every row to settle before `MaxTime`, so
the projector's behaviour at the end of the bounded clock is its behaviour after
the last insert. The clock ends; runs check with `CHECK_DEADLOCK FALSE`.

### SongQueue

A slot is a delivery with the handler that works on it. `HandlerResolves` and
`HandlerRejects` are the consume callback's two outcomes; a retry is `published`
until the ack behind it arrives (`AckRetry`). A handler whose delivery has gone,
by the drain deadline (`Requeue`) or with its channel (`LoseConnection`,
`BrokerRestart`), is an `orphan` until it ends: after a drain `isActive()` is false,
after a lost connection the old channel throws on the ack and again on the
retry's publication; either way nothing reaches the broker. A process without a
consumer is `deaf`: after a reconnection (`config/rabbitmq.ts`), or when the broker
is unreachable at start-up. API servers drain on SIGTERM; the standalone
`songWorkerMain.ts` registers no handler, so its SIGTERM is a `Crash`. The
supervisor that restarts exited processes is the one `docs/worker-scaling.md`
asks for.

Whether `processSongMessage` resolves is left open. At this commit it calls
`TransactionLogService.log` and `SongVersionService.createVersion`, which do
not exist (the scaling guide says so), and so always rejects; the model also
covers the code in which it does not. With `MAX_ATTEMPTS = 3` a message is processed twice, since
`handleFailure` increments before it compares; `MaxAttempts` in the model is
the code's constant, and `Message` has the attempts 1..2. The queue has no
dead-letter exchange, so what is nacked without requeue is gone (`exhausted`).

### JobQueue, SchedulerLock

A worker of `JobQueue` is an API process: `Reserve` is `BRPOP` (critical lists first),
`Mark` the record's update, then the handler, then `Complete` or `Fail`; the delayed
re-queue of a failed job is a timer of the process (`timers`) and dies with it. Any of
Redis's operations may fail (`MarkFails`, `CompleteFails`, `FailFails`). `announced`
holds what the AI handlers tell the artist.

`SchedulerLock` is `withLock`: the key holds the constant `'1'`, so a run that outlives
the TTL deletes the key of its successor. `Orphan` marks a key whose run is gone.

### Webhooks

`Load` reads the subscription before the attempts, `Save` writes that copy after them.
An event may match any set of active subscriptions. The counter is reset by a
success only; a disablement leaves it. `Notified` is the mail to the owner.

### Backfill

One contract's history, `history[l]` events in ledger `l`. A run reads windows of
`ScanLimit` ledgers and pages of `Limit` events, stores them and moves the cursor row
(`Checkpoint`), which the live poller moves too (`PollerRecords`). The checkpoint read
back is a string (a `bigint` column, as in `Indexer`), so `lastProcessedLedger + 1`
appends a digit and a run resumes at `Resumed`, ten times the checkpoint and one; the
first run, from 0, begins where it should. Events of the range between checkpoint
and that start are in `jumped`. `ClaimsAreHonest` excepts them; `ResumesAtCheckpoint`
says there are none, and is violated. Ranges begin and end at ledgers of `Boundary`. A reindex
pages by the RPC's own cursor. No code creates the `backfill_status` row, so completion is
never recorded. `excused` holds the events lost in the other ways the backfill has.

### RpcPermits

`Begin` to `Ended` is one operation of `SorobanService`. `withBackoff` releases its permit
after the pause and takes another for the next attempt; `Poll` repeats until the
deadline. The mock `workers/IndexerWorker.ts` and the two functions without callers are not clients.

### Sessions

A family is named by its first token. A login by nonce reads the key and deletes it
later; what it deletes is whatever the key holds by then. The other logins store a
token at once. A refresh is `Present`, `Consume`, `StoreSuccessor`; `privyRefreshToken`
has the same steps. `Logout`, `PrivyLogout`, `RequestDeletion` and a refresh with
another's token revoke all tokens of the account.

### AccountDeletion

Identity is one of `Field`; `Anonymised` says what the erasure does to each column,
with the bound parameters of the statement (`Params`) as the code builds them. The
database is taken to accept what is bound. In fact PostgreSQL refuses the statement
(`$2` and `$3` are used with two types each, `$33` and `$34` are not referenced), and
the transaction rolls back: `EraseFails`, then `MarkFailed`. A `DELETE` that fails
and is caught inside the transaction aborts it as well. After a failed attempt the
request row stays `failed`, even when a later erasure succeeds.
Profile edits and merges save whole rows beside it. Most edits change other columns
(`EditBegin`); `updateUser` and `updateArtistProfile` assign whatever columns the request's
body names, the deletion's own included (`BodyBegin`). A user whose body named those is
no longer `kept` and is in `exposed` and `unrecorded`, which the properties leave out. `unrecorded` names the erasures that
the trail need not show; a new request takes an account out of it only while no edit
holds a copy of the row, since such a copy may be of the erased row.

### SongRow and SongVersions

Of the song row `SongRow` keeps `mintStatus` and the flag, and every service that
saves a copy of the row is a writer: a copy older than the row is `stale`. `DeleteSong`
hides a minted song and removes another (`RemoveSong`, with the cascade to takedowns
and reports); a stale save inserts the row again. A mint's outcome is `doubtful`
when it was not seen, not kept, or overwritten by such a save. `mintStatus` `pending` is
never written; nor is `status` `failed`, so `retryFailedSong` never passes its check.

`SongVersions` keeps of a revision its audio: count, number, demote, insert and save the
song are separate statements. `disturbed` says that a revision failed half-way or
two overlapped. `createVersion`, which the worker calls, does not exist.

### Releases, Playlists

A release is out by its date. `Publish` (the later of two methods of that name, which
overrides the first and leaves `status`), `Update` and the job's `PublishScheduled` save it;
the job does not fulfil pre-saves. Fulfilment copies each track into each fan's library
and marks the rows at the end. In `Playlists`, `SortedWith` is the
order a move writes (find by position, filter, splice); `SaveList` is one transaction
over several rows.

### PrivyKeys

The clock ticks to `MaxTime`. A fetch in flight is shared. It may end in three ways:
with keys (`Store`); with every retry failed (`Fail`), which the breaker counts; or with
an answer that holds no usable key (`AnswerUnusable`), which the breaker has already recorded as a
success when `fetchAndStore` throws. A success resets the failures and closes
the breaker. `RotationCatchesOn`: once a published key could be found and the window of the set at
hand is over, only a note that the kid is unknown still refuses it, and that note was made within the
window. The class comment (`PrivyJwksCache.ts:24-25`, and 249-252) speaks of one
window, and the test (`PrivyJwksCache.test.ts:166-189`) makes its lookup after the cooldown; a
lookup late in the cooldown leaves a note that lasts one window more, which makes two.

### UserRow

Of the user row the badge, `twoFactorEnabled` and the recovery codes are kept; the
seventeen services that change other columns are actions of one shape (`Edit`), since
what they do to these columns is to save their copy. `UpdateUser` and
`UpdateArtistProfile` are of another (`Assign`): both assign what the request's body
holds to the row (`UserService.ts:233`, `ArtistProfileService.ts:126-149`), so the copy they
save may have any badge and any codes ever drawn. Such a body is counted in `holders` for the codes it
brings, and one that changes the badge sets `parted`. Bodies
that name the primary key, or codes never drawn, are left out. `LinkPrivy` saves its copy twice.
`resetPassword`, `verifyEmail`, `disableTwoFactor`, `finalizeTrialTransition` and
the Twitter disconnection set columns to `undefined`, which `save()` skips: those
columns keep their values. `mergeAccounts` saves the primary with a unique
column of the secondary before the secondary is freed, so such merges roll back.
The deletion of a row is left out.

### Subscriptions

Every call begins with `getUserSubscription`, which may expire the row or end a trial. A
gift may be put on any row of the recipient. A cancelled subscription loses its access at
once, although a comment in `SubscriptionController` says it stays active until its
end; a gift without `durationDays` on an expired row gives no access.

### Comments, Collaborators, Uploads

`Comments`: a resolution saves the report, then the flag; an edit saves the comment it
read. Cascades from songs and users are left out. `CommentReportController`
(`routes/commentReportRoutes.ts`) repeats the resolution without the flag and is mounted nowhere.

`Collaborators`: `Sum` and `Save` are two steps. Shares are counted in a unit they are all
multiples of, and `Whole` is 100 % and `SHARE_TOTAL_TOLERANCE` in it (10001 hundredths of a percent in the run); the
rounding of floating-point sums is left out.
Shares are frozen once minting starts, which only the status `minted` shows.

`Uploads`: the statements between two awaits run at once, so reading and deleting all
chunks is one step; the merged file is whole when the last stream that opened it
finishes. The idempotency middleware is part of it: `LookUp`, `CacheReply` after the
reply, `ReplyExpires`, and `Lapse` for what it does not cover. All keyed
requests of a session carry one key.

### RateLimits

One key of `createSlidingWindowLimiter`. The four commands of a request are a pipeline,
not a transaction, so those of another instance run between them; `Count` is `ZCARD`
with `EXPIRE`, the last of them. A refused request stays in the set and counts. Clocks
agree, but a request may reach Redis after others that were stamped later: the set was
then trimmed, or had expired, at a later time than its own, and it is counted without
what was dropped. Such a request is `late`, and the only exception of `WindowHolds`.
`Fallback` is a failure at any point, also when only the reply is lost: "open" lets the
request through and "closed" refuses it, neither counting it, and `inMemory` counts it
in the instance. Redis and the instances keep separate counts, so an
outage gives each instance a limit of its own. `ioredis` is configured to retry without
end (`maxRetriesPerRequest: null`), so a disconnection delays requests more often
than it fails them. The sweep of lists that left the window is left out.

### PlaylistAccess, CircuitBreaker

`PlaylistAccess` is one playlist with its owner, who never changes, and `Guest`s. `Update`
has read the row; an editor's right is looked up after it (`FindEditor`); `SaveUpdate`
writes the copy back, `isPublic` included, or inserts the playlist again. The histories
`muddled`, `exposed`, `barred` and `removal` name the four races that remain: an older
copy saved since, a role change that had read a removed row, a follower who lost the
right to read, a deletion that an update had read before.

`CircuitBreaker` is the breaker of `PinataService` with the uploads that use it. `execute`
records a success only while half-open, so while closed the failures add up over any
time, although the log speaks of "consecutive failures" (`circuitBreaker.ts:76`).
`entangled` says that the breaker was last opened while the timer of an earlier opening was armed.
Half-open lets every call through, not one. Pauses between attempts end at any time.

## 3. Runs

| Run | Bounds | Shows |
|---|---|---|
| `IndexerPoll` | 1 poll, 6 events in ledgers 2,2,2,3,5,6, page of 2, window 2, threshold 1, lag 1, 2 faults | `CursorSkipsNothing`, refinement of `CursorLog`, `PollTerminates`, `OldEventsAreReached` |
| `IndexerOverlap` | 2 overlapping polls, 3 events, no fault, no lag | `IdleCursorSkipsNothing` |
| `IndexerDurable` (violation) | as `IndexerPoll`, 1 fault | the cursor covers an event whose upsert threw |
| `IndexerCounter` (violation) | as `IndexerPoll`, no fault | a concatenated counter stops the cursor for good |
| `IndexerNormal` (violation) | threshold 3 | a poll one ledger behind the tip is refused |
| `ProjectorShared` | 2 events, 2 writers, 2 runners, batch 1, 1 failing run, 2 sequence numbers, fairness | `AtMostOnce`, `SkipsOnlyOvertaken`, `NeverLess`, `RowsAreReached`, `RebuildHeals` |
| `ProjectorTwoWriters` (violation) | inserts shorter than the settle window | a row is skipped by every later catch-up |
| `Infrastructure` | two songs, two processes, two jobs (one critical, one AI), two workers, two faults each; two scheduler processes, two overruns; one subscription, limit 2, four deliveries; chains of three and eleven ledgers, two runs; two RPC clients on one permit | song queue: `MessagesAccountedFor`, `SongsAreSettled`; jobs: `JobsAccountedFor`, `OutcomesAnnouncedOnce`, `JobsEnd`; `OneRunPerOverrun`; `DisabledOnlyByExhaustion`, `RemovedStaysRemoved`; `ClaimsAreHonest`; `OperationsEnd` |
| `BackfillResume` (violation) | as `Infrastructure` | a resumed run starts at ten times its checkpoint and one |
| `Records` | two requests at a time over one account, song, version list, release or playlist; four tokens, two users, two takedowns, two keys and five ticks | `OneLineOfTokens`, `RevocationHolds`; `ErasedAsAsked`, `ErasureIsFinal`; `LandedIsMinted`, `TakenDownStaysHidden`; `AtMostOneActive`, `ServedIsActive`; `PreSavesAreFulfilled`; `PositionsDistinct`; `RotationCatchesOn` |
| `Users` | two symmetric writers of a user row, five requests, two applications, two code sets; two callers, three subscriptions, two days; two comments, two reporters; three members with shares of 40 % and 60.01 %, together just within the tolerance; an upload of two chunks with two finalisers and three merges; two instances, three requests, window and limit of two; two guests of a playlist, two requests at a time, four in all; three uploads, threshold and timeout of two, five failures in five ticks | `CodeUsedOnce`, `BadgeAgrees`; `OneActiveSubscription`; `HiddenAsResolved`; `SharesWithin100`; `OneWholeSongPerUpload`; `WindowHolds`; `AccessAsGranted`; `BreakerRests` |
| `ErasureTombstone` (violation) | two accounts, one purger, no other writer | the row kept after an erasure still holds identity |

Why these bounds. Indexer: three events in one ledger with pages of two make a page
end in the middle of a ledger; ledger 4 is empty, 5 and 6 exceed the gap threshold from
3, and two faults allow a failure followed by a failure of its handling, or a crash
after it. Projector: two writers are needed for the order of sequence numbers and of
starts to differ, two runners for the lock to matter, and a batch of one makes every
page full. Rows: what goes wrong is one request between another's read and
its write, which two requests show; the bound on requests begun leaves room for a
third that starts from the result, and up to three more in `Users`. Song queue:
attempts 1 and 2 are all the code has. Backfill: eleven ledgers, with six
empty ones after the first to end a scan early, and an event at ledger 11, where a run resumes whose
checkpoint is at 1. Uploads: a chunk may be received three times, and
three merges allow a repetition of a repetition. Limiter: one request more than the limit,
and a clock that leaves the window. Playlist: a request that read the row, one that changes it, one that
reads after it and one more. Breaker: a third upload fails after two have opened the
breaker, and five ticks hold two timeouts. Keys: five ticks hold two windows and the fetch between.

Every model's `TypeOK` was checked at these bounds; it is not listed in the
configurations, where each property answers a question of its own, and can be added to
them. Four are proved. `Records` and `Users` check up to a swap of their users, requests and keys (`MCSymmetry`),
which no step tells apart; neither checks liveness. `CHECK_DEADLOCK FALSE` is set where a bounded clock or
number of requests ends the behaviour (`Projector*`, `Records`, `Users`,
`ErasureTombstone`) and in `Infrastructure`, where moreover a system whose processes are all deaf really stops.

### Fairness

- Indexer: weak fairness of each step of an invocation, since the timers keep firing
  (`start`) and awaited calls settle. Nothing obliges the chain to grow, a call
  to reject or the process to restart.
- Projector: time passes, an insert commits or aborts, the loop of
  `startProjectorLoop` starts runs and a run proceeds. Taking the lock is strongly
  fair: `pg_advisory_xact_lock` queues its waiters in order (`EventProjector.ts:190-194`),
  while under weak fairness one runner could starve the other. Neither failures nor new
  inserts are obliged to happen.
- SongQueue: the broker delivers to a consumer with room, a handler settles, a drain
  ends (its timer guarantees it) and exited processes are restarted. That a
  handler settles is an assumption about ffmpeg, S3 and IPFS, which the code calls
  without a timeout of its own; a handler that hangs holds its message until the
  process stops. Faults, expiry and shutdowns are not obliged.
- JobQueue: a worker's loop goes on and its timers fire. That no job is starved
  behind critical ones holds because jobs are finitely many here; the code gives no more.
- RpcPermits: each call is answered or its connection fails (`getSorobanServer` sets no
  timeout, so this is an assumption about the node), pauses end and a deadline passes.

### What the violations say

1. `IndexerDurable`: `flushQueue` swallows an upsert's error, and the page's
   cursor is saved all the same, against the comment at `IndexerWorker.ts:338`.
2. `IndexerCounter`: `eventsProcessed += n` on a string appends digits; after some
   twenty batches the column overflows and every save of that contract's cursor fails.
3. `IndexerNormal`: within the gap threshold `cursor + 1` is a text, which the RPC
   refuses as a ledger; only the rollback branch, which subtracts, makes progress.
4. `ProjectorTwoWriters`: `indexed_at` orders rows by BEGIN and `ingestSeq` by
   INSERT; when the two orders differ, the checkpoint passes a row that has not
   settled. `SkipsOnlyOvertaken` shows this is the only way to be skipped, and
   `RebuildHeals` that a rebuild repairs it.
5. `ErasureTombstone`: the erasure binds its parameters by position, and some identifying
   columns do not receive null, against the class comment of `AccountDeletionService`.
6. `BackfillResume`: `lastProcessedLedger + 1` on a string (`BackfillService.ts:73`): the command
   run again does not continue from its checkpoint, against `BackfillService.ts:10` and the run book.
   With real ledger numbers the start lies beyond the range, so nothing more is imported.

Not a run, but seen in the model: with overlapping polls *and* a restart, the
cursor saved by the faster poll covers events the slower one had not yet
written, so they are lost; `IndexerOverlap` therefore has no faults. A login nonce
is good for each login that read it before one deleted it (the comment in
`AuthService` on TOTP codes, "never accepted twice", holds likewise without overlapping copies only).

## 4. Proofs

For every value of the constants that satisfies the modules' assumptions:

| Theorem | States |
|---|---|
| `IndexerTypeOK` | `Spec => []TypeOK`, any number of overlapping polls |
| `IndexerCursorSkipsNothing` | `OneInvocation => (Spec => []CursorSkipsNothing)` |
| `IndexerCursorNeverRewinds` | `OneInvocation => (Spec => CursorNeverRewinds)` |
| `IndexerImplementsCursorLog` | `OneInvocation => (Spec => Log!Spec)` |
| `IndexerIdleCursorSkipsNothing` | `RpcLag = 0 => (Spec /\ CallsSucceed => []IdleCursorSkipsNothing)`, any number of overlapping polls |
| `ProjectorTypeOK` | `Spec => []TypeOK` |
| `ProjectorAtMostOnce` | `Spec => []AtMostOnce`, any number of writers and runners |
| `ProjectorExactlyOnce` | with one writer, `Spec => []ExactlyOnce` |
| `ProjectorSkipsOnlyOvertaken`, `ProjectorNeverLess` | `Spec => []SkipsOnlyOvertaken`, and the action property `NeverLess`, any number of writers, runners and rebuilds |
| `OneRun` | `Spec => []OneRunPerOverrun`, any number of scheduler processes and runs |
| `DisablingIsEarned`, `RemovalsHold` | `InfraSpec => []DisabledOnlyByExhaustion`, and the action property `RemovedStaysRemoved`, any number of subscriptions and deliveries |
| `JobsAreSomewhere`, `OneOutcomeEach` | `InfraSpec => []JobsAccountedFor`, `[]OutcomesAnnouncedOnce`, any number of jobs, workers and faults |
| `UploadsAreRemembered` | `InfraSpec => []NoneForgotten`, the first half of `MessagesAccountedFor`, any number of songs, processes and attempts |
| `MessagesAreAccountedFor` | `MaxAttempts <= 3`: `InfraSpec => []MessagesAccountedFor`, any number of songs, processes, slots and faults |
| `BackfillIsHonest` | `InfraSpec => []ClaimsAreHonest`, any chain, page size and number of runs, resumed ones included |
| `VersionsTypeOK` | `Spec => []TypeOK` of `SongVersions` |
| `OnlyOnePerSong` | `Spec => []AtMostOneActive`, any number of re-uploads and rollbacks |
| `SongServesActiveVersion` | `Spec => []ServedIsActive`, the same |
| `SessionsAreOneLine`, `RevokedSessionsStayRevoked` | `RecordsSpec => []OneLineOfTokens`, `[]RevocationHolds`, any number of accounts, logins and requests |
| `ErasuresAreAsAsked`, `ErasuresAreFinal` | `RecordsSpec => []ErasedAsAsked`, and the action property `ErasureIsFinal`, any number of users, requests, job runs, merges and edits, with any body |
| `MintsAreKept`, `TakedownsHold` | `RecordsSpec => []LandedIsMinted`, `[]TakenDownStaysHidden`, any number of writers of the song row, reports and takedowns |
| `FansGetTheRelease` | `RecordsSpec => []PreSavesAreFulfilled`, any number of fans, tracks and publishers |
| `SongsHaveTheirPlaces` | `RecordsSpec => []PositionsDistinct`, any number of songs and requests |
| `RotatedKeysAreFound` | `RecordsSpec => []RotationCatchesOn`: only a note made within one window refuses a key that could be found; any number of kids, any windows |
| `UserRowTypeOK` | `Spec => []TypeOK` of `UserRow` |
| `CodesAreUsedOnce` | `Spec => []CodeUsedOnce`, any number of requests, codes and bodies |
| `BadgesAgree` | `Spec => []BadgeAgrees`, any number of requests, applications and bodies |
| `PlaylistAccessIsAsGranted` | `UsersSpec => []AccessAsGranted`, any number of guests and requests |
| `UploadsSaveOneWholeSong` | `UsersSpec => []OneWholeSongPerUpload`, any number of chunks and finalise requests |
| `CommentsAreHiddenAsResolved` | `UsersSpec => []HiddenAsResolved`, any number of comments, reporters and requests |
| `SharesStayWithin100` | `UsersSpec => []SharesWithin100`, any number of collaborators, shares and requests |
| `SubscriptionsAreOne` | `UsersSpec => []OneActiveSubscription`, any number of rows, gifts and requests |
| `LimitIsKept` | `LimiterSpec => []WindowHolds`, any window, limit and number of instances |
| `BreakerAlwaysRests` | `BreakerSpec => []BreakerRests`, any threshold, timeout and number of uploads |

**Indexer.** `CursorSkipsNothing` is not inductive: what a save writes depends on how
far the invocation has read. `IInv` adds, for an invocation, that the events up
to its position are accounted for, that the row is not beyond the ledger it has
reached, that the guard agrees with the row it read between `SetGuard` and the
first page, and that the entity `recordError` will save back still equals the
row. The key step is `PollInitialPage`: whichever branch of `getOverlapStart` is
taken, the accepted start ledger is at most the cursor, except for a fresh row, whose
cursor is 0 (ledger 1 is the first). This uses that the
other branch is refused, because the text is no ledger. Together with
`OneInvocation` (a poll does not outlive its interval) the invariant gives the
non-rewinding cursor and the step simulation of `CursorLog`.
With overlapping polls the cursor may stand before events not yet recorded; `OverInv` says
that each is then still ahead of an invocation in flight (`Due`), as is every event before
the guard, before an entity to be saved, and behind an invocation. An invocation gives up what is ahead of it
only on an empty page, and then, the node being in step, that is younger than the tip, where nothing read or
saved can be. `CallsSucceed` excludes rejected calls, a save the counter's column refuses and restarts. The
hypotheses are needed: with one fault, or a lag of one ledger, TLC finds a run of
`IndexerOverlap`'s instance that leaves an unread event below the cursor.

**EventProjector.** `LockInv` is `AtMostOnce` with `OneHolder` (one run holds the
lock) and `RunInv` (a run in its transaction has only rows beyond the published
checkpoint, and none beyond its own). `OnceInv` is for one writer: `SeqOrder`
(a row commits after every row with a lower number), `TimeOrder` (and did not
begin earlier), so a settled row has no unsettled one before it; `CountedAll`
and `AppliedAll` then say that batches leave no gap. The settle window is not used.
`GapInv` is for any number of writers: a batch is the first settled rows after its start
(`BatchIsFirst`), so a row it passed over was unsettled or not yet visible, and with inserts
shorter than the window no older than the last of the batch (`SkipInv`). What is counted was
settled, so a rebuild takes it up again, all of it before it commits (`ReadsSettled`, `Rebuilds`).

**SchedulerLock.** At most `overruns` runs are live, and one more if the key is held by a
run: the key's holder pays for the one run without an overrun of its own.

**Webhooks.** A failure counted in a row, or about to be counted by a copy that was read from it, is
a delivery given up (`RowsPaid`, `CopiesPaid`); who is disabled, or told so, has been given up on
as often as the limit says. `RemovedUncopied`: only a delivery that outlived a removal holds
a copy of the removed row.

**JobQueue.** `PlacesInv`: the hands of workers, the timers, the lists and the dead letters hold
different jobs, each once, and together all that were enqueued and have not completed.
`ToldInv` counts announcements against faults: a job that waits has been announced no more often than
there were faults, and so has an open attempt; an attempt closed without a fault adds
the one announcement. It needs that a job is in one place.

**SongQueue.** `Remembered`: what takes a message out of the queue or ends a live delivery puts another
in its place or a cause on record. The step that could fail is the exit of a process, which
frees its slots: `Drained` says that a process that has put its deliveries back has none left that
is live. `CopiesBounded` counts. A song's first message waits, is being handled, or has
become a retry whose ack is to come (`FirstCopies`, at most one of all these); a fault in the last
state puts back the one message, next to its retry, and in the other two moves a copy from a slot
to the queue. So copies and causes are at most one and the faults (`AllCopies`). `RetriesAreFirst`: with
`MAX_ATTEMPTS` at 3 (`SongProcessorWorker.ts:21`) `handleFailure` sends one retry, with attempt 2, and gives up
when that fails; so only a first message is followed by a retry. The hypothesis
`MaxAttempts <= 3` is needed: with a fourth attempt a message and its retry may both
have sent a retry whose ack is to come, and one lost connection puts both back beside the third:
TLC then finds three copies at one fault.

**Backfill.** `ImportHonest`: all before a run's page, and what it has dealt with of the page, is stored,
excused or jumped (`Known`); where a run begins puts what it does not ask for in the last two. `NextCovers` is the step of the checkpoint: whether the page is full, cut or empty,
the ledgers up to the next start are all seen, since a full page holds the first events of its window
(`PageIsClosed`, `PageIsFull`) and the step over an empty one is no longer than the
window. `ReindexHonest` says the same of a reindex and its position in the chain: a
page that is full goes up to its last event, any other up to the end of the window, and at the
tip nothing is left (`PageIsDone`).

**SongVersions.** No lock keeps two versions from being active. The invariant: while a
request is past its demotion, the number it will insert is greater than that of any
version active then, or taken already; numbers are at most one beyond the list.
Whoever inserts second meets the unique index or has demoted the first.

The audio a song serves is its active version in one of four ways (`ServedInv`): something
was already disturbed; no request is past its demotion (`Settled`); one is, alone and with a
current copy of the song (`Alone`); or two are, or one with an old copy, and `disturbed` will be
set when the first of them ends (`Crossed`).

**Sessions.** The property counts live tokens, which a request about to consume one changes
twice. `OneClaim` counts, for a family, the tokens nobody is exchanging and the exchanges
under way; an exchange moves a unit from the first to the second and back, and
`doubled` pays for the second exchange of the same token. `FamiliesOwned`: an account's
revocation reaches whole families. `RevokedAtRest`: no exchange is under way in a
family revoked as a whole, except those recorded in `escaping`.

**AccountDeletion.** A row may be saved again from the copies that edits and merges
hold, so every claim is about the row *and* its copies: `SomeErased`, `SomeLiving`, `SomeAsked`.
`AgreedOn`: they agree on the erasure, unless it met a copy (`exposed`). `KeptAlive`: an account
kept is in no purge, and neither row nor copy is erased or asks for it. `ErasureRecorded`
and `AskRecorded`: an erasure is in the trail, and what will be erased has a
request that will be completed. A body that names the deletion columns may make a copy that is neither
erased nor living, so its user joins `exposed` and `unrecorded` when the copy is made. Most steps concern no user (`QuietFor`) and keep all
of it at once (`QuietKeeps`).

**SongRow.** `HonestMint`: a copy that is not stale has the row's mint status, but for the one
that is about to write a new one. `HonestFlag`: it has the row's flag while it waits, and
once it will be saved it keeps a flag set by hand unless it is a decision to show
the song. `MintKept`: a mint that landed is in the row or in the copy of its own request.
`TakedownKept` is the property extended to the takedowns about to be recorded as approved:
the flag is saved before the takedown is.

**Releases.** `SavesFulfil`: whoever saves a release that was upcoming when it was read, and is out by
its row, fulfils its pre-saves. `PendingInHand`: once the release is out, a pending pre-save is
among the `missed`, or some publisher is about to list it or has listed it (`InHand`).
`CopyOutstanding`: what the fans of a publisher's rows lack is still on its list.

**Playlists.** A request that nobody overtook knows the list: a song it adds goes after all others
(`AddsLast`), and what it writes as the whole list is all of it (`SavesAll`). The rows of any list it
writes have positions of their own (`Spread`), since a position is an index.
That the last position exists needs a bound: no position exceeds the songs and the rows ever stored.

**PrivyKeys.** `SetHolds` and `AnswerHolds`: a set of keys, stored or in flight, holds every key published
before it was asked for. `NotesInTime`: a note that a kid is unknown is at most one window
later than the moment the kid could first be found (`FoundBy`), and whoever is refused has been noted
(`RefusedByNote`). No step of the breaker matters to this: that a refresh failed (`failedAt`) does,
whichever way it failed. The proof corrected the history variable `refusal`: refusals are judged by the set they were made
with, and a new set in the same tick starts it anew.

**PlaylistAccess.** `CopiesAgree`, `RegradedInvited` and `FollowersRead` state the property's
clauses of the copies that updates, role changes and follows hold between their read
and their write; `CleanIsQuiet`: after a deletion that met no update none is under way.

**Collaborators.** `Fits`: what a request whose sum is still true will save is within `Whole`
with the shares of all others. A save that changes a share makes the sums of all other requests
old (`old`), so no two requests rely on the same room; a save on an old sum puts its member in `late`, which
the property leaves out, and taking members out of a sum of whole numbers makes it no greater.

**Sums.** The total of the shares and the copies of a song are sums by the folds of the community
modules, which take the elements of a set in the order of `CHOOSE` by a recursive function.
`SumCounts` says that over a finite set such a sum is the number of points below the function's graph,
which depends on no order; the rest is cardinality. That the recursive function exists, and
counts, is shown by a smallest counterexample (`SmallestSet`), since the library's
induction takes an operator as parameter.

**Uploads.** `ChunksUsedOnce`: every copy of a chunk that was received is used once, by a song, by a
finalise request past its merge, or it lies in the folder; so songs are at most the
copies of any chunk. `AloneWithFile`: without overlaps the request past its merge is alone.
`KeySavesOnce`: the songs saved under the key, with the requests that may still save
one, are at most one more than the lapses, and at most the lapses while the key is free.

**Comments.** `HiddenCopies`: a copy that says hidden is of a comment that is, or was overwritten.
`HidingResolved`: whoever is about to hide a comment has resolved a report of it.
`UnwrittenUnknown`: no report or request is about a comment never written.

**Subscriptions.** `Knows`: what a request read of the active rows still holds while its copy is not
stale: the row it will save is active, or the active ones are no more than `crossed + revived`
when it is about to add one. A write that finds its copy stale is counted in `crossed`.

**UserRow.** `CodeInv`: a code accepted is gone from the row, unless copies of it that were
read before are counted in `holders`; `LoginTakesOut`: a login's copy lacks its code;
`BadgeInv` follows a decision from its save to its badge. The copy that
`LinkPrivy` saves twice is a holder until its second save. A body that brings a
code which is not in the row is counted when its copy is made (`BringingCodes`), and a save whose badge differs from
the row's sets `parted`, so both claims survive `Assign`.

**RateLimits.** `RedisInv`: a request that passed, or was added, is in the set unless a trim
or an expiry has moved past it (`reached`), and the key outlives the window of what
passed; so when a request that is not late is counted, the set contains its whole
window. `MemoryInv` says the same of an instance's list.

**CircuitBreaker.** Unless openings are entangled, the breaker has a timer exactly while it
is open, that of its opening, due a whole timeout after `openedAt` (`OneTimer`); and only
a closed one is below the threshold. The calls under way appear nowhere: any may fail at any time.

Only model-checked: the liveness properties (`PollTerminates`, `OldEventsAreReached`,
`RowsAreReached`, `RebuildHeals`, `SongsAreSettled`, `JobsEnd`, `OperationsEnd`), which TLAPS
cannot prove under fairness. Every invariant and action property of the passing runs is a theorem.

`InfraAssumption` says that limits and attempts are numbers, that the song worker has more than one
attempt (`MAX_ATTEMPTS` is 3), that its processes are finitely many, that chains are finite, and that the RPC looks at no
fewer ledgers for a page than the 200 a backfill steps over when one is empty.
`UsersAssumption` and `RecordsAssumption` say that the requests in progress and a playlist's songs are
finitely many, that so are a song's collaborators and their shares multiples of the unit,
that bounds on rows and time are numbers, and that the window in which a kid stays unknown is not zero, for which `intVar` (`config/privyAuth.ts`) takes its default.

## 5. Plan

Done, in this order: the poller and the projector with their proofs; the song queue;
jobs, scheduler lock, webhooks, backfill, RPC client; sessions, account deletion, the song
row and its versions, releases, playlists, keys; the user row, subscriptions,
comments, collaborators, uploads; the rate limiters; access to playlists; the circuit breaker.

Next:

1. Process-wide helpers that keep state: database reconnection, the cache of songs.
2. API keys and their limit, password and e-mail tokens, the linking of Privy identities.
3. Proofs: what each of the new modules promises, with its invariant.

## 6. Not modelled

- The contents of songs, metadata, files, S3 and IPFS objects; HTTP routing and
  validation; decoding of XDR values. They are data to the protocols above.
- Reads: search, listings, statistics, embeds, recommendations. They write nothing
  but caches. The cache of statistics is invalidated by `SongController.saveSong` and
  `unsaveSong`, which no route leads to (`routes/songEngagementRoutes.ts` saves through
  `SaveService`), and by `invalidateArtist`, which has no caller: its entries only expire, and the saves
  they count are in a table that nothing writes.
- Royalties: `recordExpectedPayout` and `buildSplitsFromCollaborators` have no callers, so the
  reconciliation finds no rows; templates are rows written by their owner alone.
- Code without callers: `processSongFingerprint`, `translateSong`, `startBackfill`,
  `BackfillEnhancementService`, `SorobanIndexingService`, the tail of `SongService` that
  repeats other services, the mock `workers/IndexerWorker.ts`, the breaker of the database
  (`createDbCircuitBreaker`, `attemptReconnect`); `NotificationService.ts` does
  not parse. `PrivyWebhookController.handleUserCreated` calls `createUser` without a
  signature and is always refused. `processSongMessage` calls `soroban.mintSong`, which
  does not exist; `SongQueue` keeps both outcomes of it.
- Song messages of re-uploads: another producer of the same messages.
- The catalogue and social services: single-row CRUD whose guarantees are the
  database's constraints. Metrics, configuration, migrations: counters, start-up, DDL.

## Running

    tlc -config IndexerPoll.cfg MCIndexer.tla
    tlc -config ProjectorShared.cfg EventProjector.tla
    tlc -config Infrastructure.cfg MCInfrastructure.tla
    tlc -config Records.cfg MCRecords.tla
    tlc -config Users.cfg MCUsers.tla
    tlc -config ErasureTombstone.cfg AccountDeletion.tla
    for m in Indexer EventProjector Infrastructure Records Users UserRow RateLimits
    do tlapm ${m}Proofs.tla; done
    tlapm Sums.tla

Each run of section 3 has the configuration of its name.
