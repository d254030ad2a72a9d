# Formal models of antolex-music

TLA+ models of the stateful core of the music service: the Go API and media
worker (`src/services/api`), and the upload queue, the player queue and the
playback driver of the browser application (`src/apps/web`). TLC checks them on
small instances, and TLAPS proves every invariant and action property of the passing runs,
and two refinements, for every value of the constants (§5).

    tlc -workers 2 -config UploadPipeline_races.cfg MCUploadPipeline
    tlapm UploadPipelineProofs.tla

## 1. Inventory

The program is one PostgreSQL database, one S3 bucket, one Redis, an API process
(`cmd/api`), a worker process (`cmd/worker`) and a browser application. The API
answers requests concurrently; the worker runs one loop; they meet only in rows
and objects. Compose restarts a stopped worker, and a deployment replaces the
worker container, so two workers may be alive for a while.

| Component | State | Operations | Meets | What is hard |
|---|---|---|---|---|
| Upload API (`uploads.go`) | `upload_sessions`, `library_tracks`, `media_jobs`, the multipart upload, `incoming/…` | create, complete, cancel, retry | worker by job rows; storage | every handler loads, talks to S3, then commits: all its decisions are stale by then |
| Track resolution (`server.go`) | `library_tracks.status` | resolve, stream | storage | a missing object fails a ready track |
| Media worker (`worker.go`) | `media_jobs`, its claim, derived objects | claim, process_upload, fail, expiry, terminal cleanups, stale-job recovery | API rows, storage | crashes between storage and commit, lost commit answers, two workers, unguarded closing UPDATE |
| HLS assets (`worker.go`, `library_tracks.go`) | `track_playback_assets`, `media_jobs`, objects, seeds | backfill enqueue, prepare_hls, delete_track, retired-asset cleanup | playback sessions' references | objects deleted inside a transaction that may roll back; reference taken between query and delete |
| CMAF packaging (`hls_asset.go`) | none | package, parse a playlist | ffmpeg | a pure parser |
| Playback sessions (`playback_sessions.go`) | session source position, items, fetch horizon | create, continue, fetch a segment, close, expire | shuffle, search, likes, HLS assets | requests of one session race to append the same page |
| Manifests (`playback_sessions.go`) | none of their own | render full or delta playlist | session, player | a delta skips by numbers read at another moment than the items it renders |
| Shuffle ring (`shuffle.go`) | signed cursor | anchor, two phases, next cycle | library | tracks appear and vanish under the cursor |
| Search, cache, pagination | versioned Redis cache | search, bump version | publication | none left: the version is read before the query, so a stale page is stored under the old version |
| Likes | `likes` rows | like, unlike | list pages | idempotent single statements |
| Sign-in codes (`auth.go`) | code, attempts, cooldown keys in Redis | request, verify | mail | separate commands per key; failing mail |
| Owner-managed access (`access.go`) | account status | request, approve, block | tokens | check and update in separate statements |
| Migrations | schema | apply under a lock | all | one advisory lock |
| Web player store, continuation | queue, generation, shuffle, pending advance, local storage | play, next, append page | playback API | a late page for a replaced queue |
| Web upload manager | queue of local files, phases | add, upload, pause, cancel, retry, poll, restore | upload API, IndexedDB | cancel while creating, account change, reload |
| Web playback driver (`use-playback-session-driver.ts`, effects of `Player.tsx`) | attached session, readiness, recovery timer and attempts, waiters, promises, the audio element | choose a queue, create or resume a session, attach, recover, refresh, seek, fall back | player store, playback API, hls.js | answers, media events, timers and promises of a session, a queue or an intent that is no longer the current one |
| Views, configuration, tags and covers, scripts | – | – | – | no state of their own |

What makes each component correct: an upload ends published, failed or released,
whatever crashes; a published track is playable and stays so; its sha256 can be
released when it is not published; a processing upload always has a job; nothing
that a playback session references loses its object; a track has one current
asset; backfills are retried a bounded number of times and end; the queue of a
session follows its source without a hole or a repetition; the playlist a
player assembles from deltas is the one it would have got whole; and the
browser's queue leaves no track of its list or its shuffle cycle out, and moves
only when the user or the end of a track asks for it; and a queue that plays
through a session is the one on display, is never resumed by a late event, ends
every recovery, and deletes the sessions it lets go of.
`PROJECT.json` lists every component with its status and the hazards, each at its
line, with the properties that would catch it.

## 2. Modules

| Module | Models | Extends / instances |
|---|---|---|
| `UploadLifecycle` | abstract: none → uploading → processing → published / failed / released, at most one live upload per sha256, publications final but for misled uploads | – |
| `UploadPipeline` | `uploads.go`, the process_upload part of `worker.go`, the missing-object branch of `server.go` | INSTANCEs `UploadLifecycle` |
| `UploadPipelineProofs` | theorems about `UploadPipeline` | EXTENDS it, `TLAPS` |
| `HlsAssets` | the rest of `worker.go`, deletion and retry of `library_tracks.go`, sessions' references | – |
| `EventPlaylist` | abstract: what `EXT-X-PLAYLIST-TYPE:EVENT` promises a player: segments are added at the end, a reload gives all of them, nothing follows `ENDLIST` | – |
| `PlaybackSession` | continuation, timeline and manifests of `playback_sessions.go`, the ring of `shuffle.go`, pages of search and likes | INSTANCEs `EventPlaylist` |
| `UploadQueueClient` | the browser's upload queue: `UploadManager.tsx`, `upload-queue.ts`, `upload-db.ts` | – |
| `PlayerQueue` | what the browser plays next: `player-store.ts`, `QueueContinuation.tsx`, `queue-continuation-store.ts`, pages of `shuffle.go` | – |
| `PlaybackDriver` | how the browser plays a queue through a session: `use-playback-session-driver.ts`, `playback-session.ts`, what `Player.tsx` and `player-store.ts` add | – |
| `HlsAssetsProofs` | theorems about `HlsAssets` | EXTENDS it, `FiniteSetTheorems`, `TLAPS` |
| `UploadQueueClientProofs` | theorems about the invariants of `UploadQueueClient` | EXTENDS it, `TLAPS` |
| `NothingForgottenProofs` | the theorem about its action property | EXTENDS `UploadQueueClientProofs` |
| `QueueOps` | what both models of a queue say about sequences: `Keep`, `Cut` | EXTENDed by `PlaybackSession` and `PlayerQueue` |
| `InductionLemmas` | induction over numbers, stated about sets, and what it makes of `Keep` | EXTENDS `QueueOps`, `WellFoundedInduction`, `TLAPS` |
| `PlaybackSessionProofs` | theorems about the queue, the playlists and the refinement of `PlaybackSession`, and what its recursive helpers compute | EXTENDS it, `InductionLemmas`, library theorems |
| `PlayerQueueProofs` | theorems about `PlayerQueue` | EXTENDS it, `InductionLemmas`, library theorems |
| `PlaybackDriverProofs` | theorems about `PlaybackDriver` | EXTENDS it, `TLAPS` |
| `MC…` | model values, symmetry sets and the operations of each request slot | the module |

### Conventions

One action is one atomic step of the code: a database transaction, one object
storage call, or what a handler does between two of them. What a handler loaded
and uses later is kept in its process record (`req[r]`, `wrk[w]`, with `pc` its
place), so that another process can act in between. Every statement of a
transaction re-checks its `WHERE` under the locks it takes, which is why a
transaction is one step; transactions that lock in opposite orders deadlock and
PostgreSQL aborts one of them, which is `RequestDies` / `JobStepFails`.
A definition whose comment says "Faulty" or names a dropped step (such as
`RecordFailureUnbounded`) is a plausible bug of the code, not part of `Next`: the
`mutants` of `PROJECT.json` put it in place of the real definition and TLC must
then refute the property it is listed with.

### UploadPipeline

An upload and its track share an index: `createUpload` draws both ids. `sess`,
`track`, `keyed` (playback_object_key is set), `asset` (the current HLS asset,
named by the job that made it), `job` and `jobOf` are rows; `multipart`,
`incoming`, `playback`, `cmaf` are storage. The content of a file is `good`,
`wrongSize` or `wrongContent`: hash, size, ffprobe and ffmpeg tell only these
apart. Requests: `Create*` (137-225 of `uploads.go`: insert after the multipart
upload was opened, conflict, discard), `Complete*` (load, assemble, recover an
already assembled object, queue), `Cancel*` (load, abort, drop what a late
complete assembled, purge of a failed upload's objects, transaction), `Retry*`,
`Resolve*`. Worker: `WorkerStart` (failStaleJobs), `Claim`, `LoadUpload` to
`Publish`, `Acknowledge`, `RecordFailure`, the `Expiry*` steps and the purges.
`RequestDies` drops a request anywhere; `WorkerCrash` a worker anywhere.

Faults are named and switched on by `Faults`: `publish_ack` (the publication
commits but its answer is lost, so the deferred clean-up and `fail()` run on a
published track) and `fail_write` (`fail()` cannot write).

The code serializes neither requests nor workers, and four of its steps go on by
what no longer holds and may undo a publication. `misled` is a history variable,
read by no guard, of the uploads for which one of them has run:

| Step | What no longer held |
|---|---|
| `RetryCommit` (`uploads.go` 539-558) | the upload was loaded as failed and another retry has revived it since: the update by id takes the new run, or its publication, back to processing |
| `CancelPurgePlayback` (`uploads.go` 513-528) | the same for a cancel, which deletes the object that the new run stores |
| `Publish` with `publish_ack` (`worker.go` 695-733) | the worker takes a publication that has committed for a failed one |
| `WorkerStart` (`worker.go` 951-1032) | the new worker fails a job that another worker still runs |

`UnmisledPlayable`, `TerminalStable` and part of `FailedTrackReleasable` speak of
the other uploads, with the same requests, workers, crashes and faults around them
(and a publication that was taken back stays in the state, so that what it makes of
the rows, the storage and other uploads is explored). They say that these four are
the only ways in which the pipeline loses the objects of a published track or its
status. `PublishedPlayable` and `PublishedImmutable` make no exception, and the
code breaks them (section 4).

### HlsAssets

Rows of `media_jobs` (kind, status, attempts, track), assets (`free`, `current`,
`retired`, `deleted`), objects, the progressive `m4a` files, and per session what
it has read but not yet referenced (`seed`) and what its items reference
(`items`). `PrepareLoad … PrepareInstall` is prepareHLS with its deferred delete;
`DeleteLock, DeleteObjects, DeleteCommit` is deleteTrack with its row locks held
across the storage calls; `SweepSelect, SweepObject, SweepRow` is
cleanupRetiredHLSAssets. `RequestDeletion` is what an operator's SQL does before
a delete_track job exists (external to `src/`); `Reprocess` and `Republish` are
the transitions of `UploadPipeline`, seen from here. `lost` is a history
variable: the assets that one of the two error paths below lost. `DeleteCommit` names
the victims again where the code keeps the list it made before its first deletion
(`worker.go` 838-845, 865-872). `Aged` stands
for the 24 hours the cleanup waits, which outlast a request that has read an
asset and not inserted its item yet. The purge of succeeded jobs is not included:
`Exhausted` reads only failed rows. Job rows are bounded by `Jobs`.

### PlaybackSession

One session and several manifest requests. `source` is the position stored in
the session row, `items` its items with their ordinals (the index), start times
and first media sequence, `fetched` the last segment asked for. A request is
`LoadSession → HorizonReached | FetchPage → AppendPage | AppendRace |
AppendRaceRefused` in a loop (ensurePlaybackHorizon, `LimitExceeded` after
`PageLimit` turns), then `ReadRecord → PlanLoad → Render`: three moments at which
the code reads the session, plans the suffix it needs, and loads it. The client
(`AskManifest`, `GiveUp`, `FetchSegment`, `Merged`) is what a player does with a
playlist that has `EXT-X-SKIP`. `TrackChanges` is a track that stops being ready
or comes back. Time is in abstract units; `Segments` gives the duration of each
segment of a track. Left out: expiry, closing, the limit of three sessions per
listener (each one transaction, and it only releases references), an item whose
track was deleted, and the restart in a search whose mode changes is kept as a
nondeterministic choice (`ListPages`). `Keep`, `LastOf` and `Extend` are recursive
functions and lists are cut with `SubSeq`, so that the proofs can speak about them.

### UploadQueueClient

`run[r]` is one invocation of `processOne`, with the row it was given, its place
between two awaits and whether its controller was aborted; `activeRef` is
`active`, `itemsRef` is `items`, `cancelledLocalIDsRef` is `cancelled`, the
metadata of IndexedDB is `stored`, by owner. The buttons that `AddView` shows for
a status are actions (`Pause`, `CancelLocal`, `CancelSend`, `RetryLocal`,
`RetrySend`, `Dismiss`, `Reselect`); a request of a button arrives and is answered
in two steps (`call`), so that a reload, another button, the poll or the upload
itself can come in between, and either half may be lost. `App.tsx` mounts the
provider under the user's key: `SignOut` makes the invocations and calls of the
mount *stale*, with refs of their own, `Reload` ends them. `RestoreLocal` and
`RestoreRemote` are the two parallel reads of the restoration and `Restored` is
`restoreUploadQueue`. The server is what `UploadPipeline` establishes of a session:
`ServerMoves` are the worker, expiry and the purge.

`DropSucceeds` is the deletion of a session together with its answer
(`UploadManager.tsx` 308-310): in between, the row is gone and nothing else reads it.
Left out: parts (one step, since every part looks at the same controller), the
order of queued rows (any is taken first), the rules of validation (`NoFile` is a file
that they refuse) and the limit of 50 rows, a
second call of one button while its first is unanswered, requests of a reloaded
page that arrive after the next restoration, other tabs and devices. A listed
session without a stored row is shown under an id named after the session.

### PlayerQueue

`queue`, `idx`, `history`, `playing`, `context`, `pending` and the shuffle fields
are those of the player store (`idx` counts from 1; `pending` is
`pendingAdvanceQueueContextId`), `cont` is the continuation store. A context is a
number, since the code only ever compares them. `dirty` says that the effect of
`QueueContinuation` has to run: React runs it after the event that changed what it
reads and before the next one, and its clean-up aborts the request in flight, so
`page` is one request or an armed retry. Shuffle requests are not aborted:
`request` is that of `shuffleRequestPromise`, as the set of ended tracks whose
`next()` awaits it, and `stale` the newest one that another `shuffleRequestId` has
replaced, whose answer is ignored but still resumes who awaited it
(`ResumeNext`). `retry` is the timer or listener of `scheduleShuffleRetry`.
`Reload` is `partialize` followed by `merge`. A track is its place in the order of
ids, the ring that `ShufflePage` walks from an anchor; a list is a sequence of
tracks and its cursor a position. `TracksRemoved` lets some leave the library at
any moment. `heard` (the tracks of this cycle) and `behind` (what was dropped
behind the current track) are history variables.

Left out: HLS sessions (the model is the build without
`VITE_HLS_PLAYBACK_ENABLED`), the media element and its times, so the end of a
track and an error may come at any moment; stream URLs, likes, older storage
versions, tracks added to the library during a cycle.

### PlaybackDriver

`tab` is one record: the fields of the store (`playing`, `context`, `current`,
`queue`, `time` for `playbackTimelineTime`, `storeSession` and `storeContext`),
the refs and state of the hook (`session`, `attachedTo` for `contextRef`, `ready`,
`recovery`, `timer`, `attempts`, `waiting`, `seen` for the two `last…Ref`s,
`nativePlay`, `waiters`, `request`, `refreshes`) and the audio element (`source`,
`phase`, `position`, `paused`, `assigned` for its data attributes). `sessions` is
the server: the list each session was made of, the items it has, where it starts;
`released` are the sessions that the tab has deleted.

A handler of the code is an operator from tab to tab, so that the module composes
them as the code calls them: `scheduleRecovery` syncs the timeline and may fall
back, a fallback destroys hls.js and clears the store. An action is an event (a
button, an answer, an event of the element or of hls.js, a timer, a promise)
followed by `Becomes`: the effects that React runs before the next event, in their
order and only when a dependency has changed (`StartEffect` requests a session for
a new queue, `SourceEffect` assigns the progressive stream, `PlayEffect` plays and
pauses). What a callback closed over is kept with it: a timer its session, a
refresh and a waiting `nextTrack` the queue context they began with. The state that
a reload restores (`PersistedStore`) is an initial state.

Abstracted: time counts tracks, each one unit long, so a position is a number of
items; delays are steps that may come at any time; that a pause is explained by the
driver itself (`suppressPauseRef`) is that `PauseReconciled` does not come. hls.js
and the element are external: a load ends in data or an error, `startLoad` loads
what a fatal network error stopped, `recoverMediaError` empties the buffer and loads
again. Effects run once after an event, where React runs them again when one of
them has changed a dependency of another (`use-playback-session-driver.ts` 813-819,
`Player.tsx` 454 and 528-541); the throttle of two seconds on refreshes past the known
items (271-277) is dropped, which allows more refreshes; the promise of the `play()`
of `Player.tsx` is no step of its own, since its guard (483-493) leaves a pause that came
before it alone. Left out: switching shuffle while a session plays (`player-store.ts`
1026-1150), the previous track of a progressive queue, seeks inside a track, hidden
pages and unmounting, the activation of audio by a tap, the Android probe
(`shouldProbeNativeHLS` is constantly false), payload and source of a create, a create
that is aborted after the server has made the session, and the recovery of progressive
streams in `Player.tsx`.

## 3. Runs

| Run | Question | Instance |
|---|---|---|
| `upload_races` | Do session, track and job rows stay compatible under any interleaving, and are published uploads playable and final and failed ones releasable, unless a marked step misled them? | 1 upload, 3 job rows, 2 requests carrying any operation, 2 workers, both faults (845 519 states) |
| `upload_twins` | Does the pipeline implement `UploadLifecycle`, with two uploads of one file whose creates overlap? | 2 uploads of one file, 3 job rows, 2 requests carrying any operation, 1 worker, both faults (883 025 states) |
| `upload_live` | Do processing and uploading end? | 1 upload, 2 job rows, 1 request, 1 worker, `FairSpec` |
| `upload_stale_cancel` | Violation, see Findings | 1 upload, two racing requests |
| `hls_assets` | One current asset, nothing offered or referenced without its object, attempts bounded (`TypeOK`) | 1 track, 2 assets, 3 job rows, 1 session, 2 workers, fault `commit_ack` |
| `hls_live` | Do backfills and deletions end, and are retired assets reclaimed? | same with 1 worker, 2 job rows, `FairSpec` |
| `playback_session` | Queue in source order without a repetition, no hole, contiguous timeline, exact playlist; does a session implement `EventPlaylist`, with answers that come after the client gave up on them? | 4 tracks of two lengths (one volatile, one without asset), 2 requests, all kinds of source |
| `upload_queue` | One upload at a time, no stuck row, `processing` only when true, nothing forgotten, rows stay with their account (`TypeOK`) | 2 accounts, 1 added file of 2 contents, 1 session and its restored row, 2 invocations, one log-out or reload |
| `player_queue` | No track of a list or a cycle left out, none twice in a cycle, every wait for the next track has something to wait for, answers move the player only when asked and by one track, shuffle and reloads keep the current track | 4 tracks, a search of all and likes of two, pages of 1, library shrunk by one track or down to one, 3 contexts |
| `driver` | Does a late event resume what was paused, is a session leaked or deleted while in use, is what is ready to play also what the store shows and would resume? | native HLS, 2 queues, 2 sessions growing to 2 items, 1 recovery attempt, a fresh or a restored store, failures and lost connections at any step |
| `driver_live` | Do preparation and recovery end? | native HLS and hls.js, 2 queues, 2 sessions of 1 item, 2 attempts, `FairSpec` |
| `driver_place` | Violation, see Findings | as `driver` |

**Why the bounds suffice.** A property of an upload speaks of one upload, its job
and at most the owner of the same hash: one upload with two racing requests and
two workers reaches each pair of interleaved handlers, three job rows allow a
failure, a retry and a further one, and two uploads of one file reach each
conflict on the hash. For assets, two rows of one track are the old and the new
one, three jobs are a backfill, its repetition and a deletion. For sessions,
page size 1 over four tracks gives pages before, at and after the end, an item that
vanishes and comes back, both phases of the ring and a second cycle; `MaxPage` cuts
the exploration of an endless shuffle; `PageLimit` = 3 stands for 1024; `Msn`
bounds the sequence number a client names; two requests are the smallest race and
a third could only lose it again. For the player, four tracks with pages, history
and stored future of 1 make compaction, the cut of a reload and the truncated
saved queue happen within one list; three contexts are a queue, its replacement
or shuffle, and the way back; a library cut down to one track is the cycle that
has nothing to play. With five tracks and pages of 2 the same properties hold.
For the driver, two queues and two sessions are what is replaced and what replaces
it, one of them possibly restored; two items are a boundary to cross, to grow over
and to go back to; one attempt reaches the fallback and two tell a repeated failure
from the last one. The hls.js platform multiplies the states of `driver` and is
checked in `driver_live`, with sessions of one item, so `TypeOK` to `Released` are
checked for native playback only.

**What the bounds cut.** Runs out of `Jobs` disable retries (not failures);
`CHECK_DEADLOCK FALSE` is set for `HlsAssets`, `PlaybackSession`,
`UploadQueueClient` and `PlaybackDriver`, where the system may rest
once job rows, the queue, or files and sessions, are used up.

**Restrictions.** No run restricts which requests may overlap. `upload_twins` has one
worker, since two workers matter to a job and not to the hash that two uploads
share; the theorems of section 5 have any number of both. `upload_live` has no
faults: `fail_write` leaves a job running until the next start of its worker, which
nothing but a restart brings about.

`heard` in `PlayerQueue` counts the tracks that were in the queue of a cycle, so
`WholeCycle` would not notice a reload that cuts tracks still to come from a shuffle
queue. The `ASSUME` keeps the queue that has just grown from being cut; that it is not
cut after `Previous` steps either follows from the real limits (2 + 20 + 40 tracks
ahead at most, of which 80 are stored), not from the `ASSUME`.

**Fairness** (`driver_live`). Weak fairness: a request is answered or fails, the
import of hls.js ends, an armed timer fires, a load ends in data or in an error,
the promise of `play()` settles once it can. Nothing is assumed of the user or of
the connection: `PlaybackSettles` asks that a recovery ends unless playback is
paused or the connection lost meanwhile.

**Fairness** (`upload_live`, `hls_live`). Weak fairness for a worker's start
(compose `restart: unless-stopped`) and for the next step of a job it holds: the
loop is sequential code. Strong fairness for claiming a pending job, for choosing
an expired upload or a sweepable asset, and for the storage steps of a cleanup: a
round may be taken by a crash or by another row, and a storage call may fail and
is tried again in a later round, but not for ever. Nothing is assumed of API
requests: a browser may close at any time.

## 4. Findings

1. `upload_stale_cancel`: `cancelUpload` deletes the objects of a failed upload
   before it changes a row. A concurrent retry publishes a track whose
   progressive object the cancel has deleted.
2. `driver_place`: a failure while a playlist is being loaded takes the 0 that the
   element shows before `loadedmetadata` for the place to go on at and stores it,
   so that the recovery starts the session over.

More divergences are kept beside the runs, each with a configuration that shows it
(`tlc -workers 2 -config <cfg> <module>` ends in a counterexample):

| Configuration (module) | Property | What the code does |
|---|---|---|
| `UploadPipeline_staleretry.cfg` (`MCUploadPipeline`) | `PublishedImmutable` | `retryUpload` decides on a status it loaded before its transaction and updates by id alone: two overlapping retries take a published track back to processing |
| `HlsAssets_lost.cfg` (`MCHlsAssets`) | `PinnedNeverLost` | `deleteTrack` deletes objects inside a transaction that may roll back; a request that had read the asset references it afterwards |
| `UploadQueueClient_retried.cfg` (`MCUploadQueueClient`) | `RetriedNotCancelled` | a cancellation asked for while a session is being created survives the failure of the creation: when the row is retried, the new session is cancelled and the row vanishes |
| `PlaybackDriver_takeover.cfg` (`MCPlaybackDriver`) | `NewQueueKept` | while a new queue waits for its session, a refresh, timer or sync of the old session puts the old items back, under the new context |
| `PlaybackDriver_stuck.cfg` (`MCPlaybackDriver`) | `PlayNotStuck` | a fatal network error of hls.js while paused is dropped; Play, pressed later, has nothing that would load again |
| `PlaybackDriver_fallback.cfg` (`MCPlaybackDriver`) | `FallbackAudible` | a fallback empties the element but leaves the data attributes by which the progressive stream counts as assigned |

Two more facts are modelled and not reported as findings, because no document
promises otherwise: the `publish_ack` outcome above, and a library too short to
fill the playback horizon, which ends in `LimitExceeded`.

A Next or a seek that comes before `loadedmetadata` is taken back by the listener
(`MetadataLoaded`), and a session that a reload restored but never attached is not
deleted when another queue is chosen.

Read from the code and not yet stated by a run: an ended track that waits for a
shuffle page while the user pauses and resumes is paused again when the page
arrives (`player-store.ts` 926-930 and 1514-1526; `ResumeNext` models it), and
switching shuffle during such a wait drops the wait and leaves `isPlaying` true.
`PLANS.md` line 20 asks for play intent to be preserved.

## 5. Proofs

Every theorem holds for any values of the constants that satisfy the module's own
ASSUME (any number of uploads, jobs, workers, users, files, sessions ...); no proof
module adds an assumption. Each proof is the classical one: an inductive invariant
`Inv`, `Init => Inv`, `Inv /\ [Next]_vars => Inv'`, one lemma per conjunct, one case
per action.

### UploadPipelineProofs

| Theorem | Property |
|---|---|
| `TypeCorrect` | `TypeOK`: every variable keeps its type, and a held job row exists |
| `StatusesCoupled` | `StatusCoupling`: session and track rows are compatible |
| `ProcessingCovered` | `ProcessingHasJob`: a processing upload has an active job |
| `JobsHeld` | `WorkerHoldsItsJob`: a held row belongs to its upload, is not offered again, and is settled after publication |

`WorkerHoldsItsJob` is inductive once `TypeOK` is known, whose clause
`HeldRowsExist` says that no purge took a held row. `StatusCoupling` and
`ProcessingHasJob` are not inductive, alone or together: a worker's publication
and failure update session and track by the id they carry, so both need to know
that the job they settle is of that upload and that a row which is acknowledged is
no longer active (`WorkerHoldsItsJob`); and a failure leaves no upload processing
without a job only because session and track leave `processing` together
(`StatusCoupling`). The inductive invariant is therefore the conjunction of the
four. `RecordsStep` has one step per group of actions and one case per action that
writes a session, a track or a job; the actions that touch only storage or process
records are discharged together by `SilentKeeps`. TLC checks every conjunct as an
invariant of `upload_races`.

The other four have no hypothesis either: any number of workers and of requests, any
operations in flight together, crashes and both faults.

| Theorem | Property |
|---|---|
| `Playable` | `UnmisledPlayable`: the objects of a published track are stored |
| `Releasable` | `FailedTrackReleasable`: a failed track has a failed session |
| `Terminal` | `TerminalStable`, an action property: publications and cancellations are final |
| `Implements` | `ImplementsLifecycle`, the refinement of `UploadLifecycle` |

Their invariant `Sound` adds to `TypeOK`, `WorkerHoldsItsJob` and `StatusCoupling`
what holds of every upload (`Facts`):

- `Alone`: an upload has one active job (the partial unique index), a job one worker,
  and one create has yet to insert a given row. Jobs of other uploads may run beside it.
- `Begun`: jobs, and requests that found an upload failed, are of uploads that have
  left the uploading state, so a create cannot insert over them.
- `Assets`: a track got its asset from a job of its own that is over, so no deferred
  delete of a running job hits it; without one it is not ready.
- `WorkersFacts`: the HLS object is stored before the publication, and the publication
  comes before its acknowledgement.
- `MissingFacts`: only of a misled upload is the published object found missing, so
  `resolveTrack` marks no other.

and what holds of each upload that is not misled (`Truth`):

- `Together`: but for the purge of the session's row, session and track move as one.
- `Kept`: what was published is ready, with both objects stored.
- `JobsTrue`: an active job means that the upload is in processing.
- `WorkTrue`: the job of a worker runs until it is settled, and the progressive object is
  stored before the HLS object.

A misled upload stays in the state and its steps are unconstrained; the proof shows
that they disturb neither `Facts` nor another upload's `Truth` (`TrueMoves`,
`KeptStep`, `JobsTrueStep`, `WorkTrueStep`). `Changes` says which steps write the
database; the refinement has one case for each (`OneMove`, `LifecycleStep`), and the
start of a worker, which fails every stale job in one transaction, is one `Fail` of a
set of uploads. TLC checked `Facts` and `Truth` as invariants of the instances of
`upload_races` and `upload_twins` first.

### UploadQueueClientProofs

| Theorem | Property |
|---|---|
| `TypeCorrect` | `TypeOK`: rows, invocations, requests and polls keep their types, and every row stays with its account |
| `OneAtATimeHolds` | `OneAtATime`: at most one invocation works, the one `activeRef` names |
| `NoStuckRowHolds` | `NoStuckRow`: a row that shows work or a cancellation has an invocation or a request that settles it |
| `ProcessingTrueHolds` | `ProcessingTrue`: a row says processing only for a session past the upload phase |

The invariant says what each asynchronous party may still rely on when its answer
comes, which is what the closures of `UploadManager.tsx` carry over an `await`:

- `ServerGood`, `RowsGood`, `RunsGood`, `CallsGood`, `RestoreGood`, `PollGood`: every
  copy of a row, on display, in IndexedDB, in an invocation, in a request, in what the
  restoration has read, is of the account that holds it and says `processing` only of
  a session that has left the upload phase, for good (`Past`).
- `Mounting`, `Working`: without a restored queue nothing of this mount is under way,
  and `activeRef` names the one invocation of this mount; those of earlier mounts were
  aborted. This is `OneAtATime`, and every other conjunct needs it.
- `Unused`: an id that `addFiles` may still draw occurs nowhere, so that a late answer
  can not hit a new row.
- `SameSession`: the session of a row on display does not change under the work for it.
  Without it a late cancellation could settle the row of another session.
- `Settled`: an aborted invocation has left its row in another status, a row that says
  `cancelling` is known to the invocation that creates its session, and a row with a
  session that the user has cancelled has its request under way. `NoStuckRow` is not
  inductive without the third: when the invocation has created the session, the
  cancellation it must still send is known only by the set `cancelledRef`.

### NothingForgottenProofs

| Theorem | Property |
|---|---|
| `NothingForgottenHolds` | `NothingForgotten`, an action property: no step makes a session leave the restored queue that the server still lists |
| `AnswersTrue` | the invariants it rests on |

A row goes when an answer says so, so the invariant `Answers` says that an answer under
way that makes a row go (a cancelled session, a completed one, a poll) is about a
session that the server has closed, which it stays (`ClosedStep`); `Duplicates` says
that a row that is empty or a duplicate has no session and that nothing works for a
duplicate, which is why removing one forgets nothing. The step proof then has one case
per action that takes a session out of `items`.

### HlsAssetsProofs

| Theorem | Property |
|---|---|
| `TypeCorrect` | `TypeOK`, with the bound of the attempts |
| `OneCurrentAssetHolds` | `OneCurrentAsset`: at most one current asset per track |
| `ReadyStoredHolds` | `ReadyStored`: a ready track has its progressive file, and the object of its current asset is stored, `lost` apart |
| `PinnedStoredHolds` | `PinnedStored`: the objects of what a session references stay stored, the error paths in `lost` apart |

The invariant, from the bottom up:

- `Holding`: a job that is offered has an attempt left, and a worker that works has a
  job row and, between packaging and the end, an asset.
- `RowGood`, `OneEach`: an id that no transaction inserted is of no track, a referenced
  row is current or retired, and two current rows of one track are the same.
- `Deleting`: the track of an open deletion is `deleting` and no other deletion is open
  for it, which is what the row lock gives.
- `Drafting`: the object that a backfill may still discard is of no row, but for a
  commit whose answer was lost, and no other worker holds it. This is why discarding
  never takes the objects of a published asset.
- `Sweeping`: an asset the cleanup has selected can not be referenced any more
  (`Doomed`); it holds from the selection to the last object, through every
  interleaving with the creation of a session, which is the hazard of a cleanup that
  reads first and deletes later.
- `Keeping`: the object of a row with a track is stored unless an error path lost it,
  the cleanup took it or an open deletion will take the row with it, and a ready track
  has its file. `PinnedStored` follows only with `Sweeping` and `Deleting`: the cleanup
  removes objects by what it selected earlier.

TLC checked each of these invariants on the instances of `upload_queue` and
`hls_assets` before it was proved.

One form of update is avoided in the models: where a step sets two fields of one record
of a function it is written `[f EXCEPT ![w] = [@ EXCEPT !.a = x, !.b = y]]` and not
`[f EXCEPT ![w].a = x, ![w].b = y]`. The two mean the same, but the SMT translation of
the version of tlapm in use mistranslates the second one (it lets one derive both
`f'[w]` values), so a proof about it would show nothing.

### InductionLemmas and PlaybackSessionProofs

| Theorem | Property |
|---|---|
| `TypeCorrect` | `TypeOK`: sequence numbers, times, cursors and requests keep their ranges |
| `TimelineContiguousHolds` | `TimelineContiguous`: no gap or overlap in the media sequence or in time |
| `QueueInOrderHolds` | `QueueInOrder`: the order of the source, nothing twice in a list or in a cycle |
| `NothingSkippedHolds` | `NothingSkipped`: a stable track is queued once the source is past it, in every cycle |

The queue, the pages and the playlists are sequences that recursive functions build, so
these proofs need induction. The library's induction theorems take an operator as a
parameter, which no installed prover can instantiate; `InductionLemmas` states the same
principle about a set (`NatSetInduction`: a set that holds 0 and every successor of its
numbers holds them all), derived from the well-foundedness of `<`, and a proof cites it
with the set of the numbers for which something holds. With it `ExtendGrows`,
`KeepSifts`, `LastOfAdds` and `FlattenJoins` show that each recursive function exists
and what its values are, and `Extended`, `Kept`, `SortedTracks` and `Flattened` what
that makes of a queue, a page, a list and a playlist.

The invariant `Inv`:

- `Contiguous`, `QueueInOrder`, `Behind`, `Complete` are about the queue and its source.
  `QueueInOrder` is not inductive: a page that is appended later must lie beyond
  everything queued, which `Behind` says of the source's cursor and cycle. `Complete` is
  the inductive form of `NothingSkipped`: it also says what is still due in the cycle
  that is being walked, before the anchor or after the cursor (`Due`).
- `Position` is what a stored position can be: a list that goes on has a cursor, a
  shuffle leaves its first track out of its first cycle and of that cycle only, and a
  ring cursor is in its first phase at or above the anchor or in its second below it.
- `PageGood`, part of `RequestGood`, is what a request may rely on between fetching a
  page and appending it: its tracks follow the position it was fetched for, and every
  stable track that the next position is past is among them. It is the position that
  the row lock compares, so nothing need be known about what other requests do
  meanwhile; that is what the optimistic continuation of the code rests on.
- A list ends up in order although a track may leave the ready ones and come back
  (`Volatile`) while it is read, because cursors only move up.

`PagesGood` shows that every page of every source is good: `ListPageGood` for searches
and likes, `RingGood` and `ShufflePageGood` for the two phases of a shuffle.
`AppendInOrder`, `AppendBehind` and `AppendComplete` are the step that appends.

Its second half is about the playlists:

| Theorem | Property |
|---|---|
| `PlaylistExactHolds` | `PlaylistExact`: what the client puts together is a prefix of the whole playlist |
| `EndedFinalHolds` | `EndedFinal`: a playlist that has ended is the whole one, and stays it (the run checks it as a part of `ImplementsEvent`) |
| `Implements` | `ImplementsEvent`, the refinement of `EventPlaylist` |
| `PlaylistInvariance` | `PlaylistInv`, the invariant they rest on |

`Exactly` says that each segment the client lists is at its place in the media sequence.
It is kept by three facts about a request (`Sound`), none of which is local to one query
of the code: what may be skipped, read from `last_fetched_media_sequence` in the second
read of the session, is a part of what the client has, since a segment is fetched only
once it is listed (`fetched < Len(playlist)`); the items that are loaded begin at or
before what is skipped; and the durations that are loaded suffice for the end that a
delta must keep, so that the rendering, which computes it again from fewer items, does
not skip less than the plan did (`SkippedSound`). The last is why the plan may be
overtaken by an append: a longer queue keeps a longer end (`LastOfGrown`, `LastOfSame`,
about sums of the last durations). A playlist ends only when its source had ended when the
record was read, after which no page that was fetched for it is appended: `PageGood`
says that the position it compares still continues.

`Implements` is the refinement of `EventPlaylist`, with the timeline as the whole
playlist of the queue, `shown` as the client's copy and `over` as `ended`. Only two
actions are visible in it. `AppendPage` is `Grow` (`AppendPageGrows`): the longer queue
lists the same segments first, and the page it appends is of a source that goes on, so
that no client was told of an end. A `Render` whose answer is taken is `Reload`
(`RenderReloads`): whatever it skipped, the copy becomes the whole playlist of that
moment. That nothing is taken after the end needs one more invariant, `Quiet`: the
client of a playlist that has ended waits for no answer, and one it gave up on is
dropped when it comes.

TLC checked `Inv` and `PlaylistInv` before they were proved, on the 1 533 024 states of
`playback_session` with a second volatile track.

### PlaybackDriverProofs

| Theorem | Property |
|---|---|
| `TypeCorrect` | `TypeOK`: what is recorded of a session names one that exists, places are items, attempts are bounded |
| `StoreFollowsHolds` | `StoreFollows`: what plays is what the store shows and names |
| `PauseHoldsHolds` | `PauseHolds`, an action property: only the user starts playback again |
| `ReleasedHolds` | `Released`: a session that is let go of is deleted, one that is held is not |
| `Invariant` | `DriverInv`, the invariant they rest on |

A handler is a composition of operators on the tab, and the proof has that shape. For
each operator a lemma says what it changes (`Same`: all other fields are the same),
that it preserves `Good`, what any tab satisfies at any point inside a handler, and how
the tab after it relates to the one before (`Follows`: no session is let go of without
being deleted, nothing is brought back, nothing starts to play; `Keeps`: what was
settled stays so). `Frame`, `FrameTyped` and `KeepsFrame` derive most of that from
`Same`. The relations compose, so that a step lemma only names the calls of its
handler; `Effects` does the same for the React effects that end every handler, and
`EveryStep` is one case per action.

`DriverInv` is `Good` with `Settled`, which holds between handlers only:

- `Live`: neither the attached session nor the stored one was deleted. This is half of
  `Released`; the other half is `LetsGo`, which every operator satisfies.
- `Matches`: when the session is the one of the current queue context (`Own`), the queue
  is the one of the session and the store names it or none. `StoreFollows` is not
  inductive without it: a recovery or a late refresh makes an attached session ready
  again, and only `Matches` says that the queue is still its own.
- `Settled`: without a request for another session the attached one is `Own`, and the
  store names it once playback has got beyond the loading of the playlist (`Begun`). It
  is broken inside a handler that changes the queue and restored by `StartEffect`, which
  is why the order of the effects matters; a store that `SessionGone`
  clears while the attached session still waits for hls.js is the case that makes
  `Held` speak of `Begun`.
- `Kinds`: what the platforms and sources exclude. Without it an event of the audio
  element could end the loading of hls.js, whose place is not restored yet.

The module assumes that `None` is none of the numbers, tuples and records that fields
hold beside it (`DriverConstants`), which null is not. TLC checked `DriverInv` on both
platforms with two contexts, two sessions and one attempt (1 068 342 and 500 812
states) before it was proved.

### PlayerQueueProofs

| Theorem | Property |
|---|---|
| `TypeCorrect` | `TypeOK`: queues without repetitions, indexes, cursors and requests keep their ranges |
| `NothingSkippedHolds` | `NothingSkipped`: a list that is continued has no track before its cursor that is missing from the queue |
| `WholeCycleHolds` | `WholeCycle`: a cycle that is complete has had every track of the library |
| `WaitHasAnswerHolds` | `WaitHasAnswer`: a player that waits at the end of its queue waits for something |
| `NoRepeatHolds` | `NoRepeat`, an action property: nothing is drawn twice in a cycle |
| `AnswersAdvanceOnceHolds` | `AnswersAdvanceOnce`, an action property: an answer moves on by one track, to one it brought |
| `TrackKeptHolds` | `TrackKept`, an action property: what only reorders or restores the queue keeps the current track |
| `Invariance` | `Inv`, the invariant they rest on |

They hold for any library and lists, page size, limits of the history and of what is
persisted, and any number of queue contexts. None of the invariants is inductive; `Inv`
adds:

- `QueueOK`: the history is the run of indexes just before the current one, and empty
  without shuffle. Only so does the compaction, which drops a prefix of the queue and
  shifts every index, keep the history pointing at the tracks it named
  (`KeptRun`, `CompactedQueue`).
- `WaitAtEnd`, `Asking`: a wait, and the timer of a shuffle, are of this queue context and
  at the end of the queue, and a shuffle request is of a cycle that is not complete. What
  answers late finds another context, or is found superseded.
- `Asked`: between two effects of `QueueContinuation` a prefetch that is due has its
  request or retry, and a request is one of this context that can be waited for. It is
  what `WaitHasAnswer` needs in a list, and it is broken inside every event that sets
  `dirty`, which is why it speaks of `~dirty` only: no answer may come before the effect.
- `Cycling` is the inductive form of `WholeCycle` and the whole of `NoRepeat`. The ring is
  ordered by `Distance` from the anchor, and `HadUpTo` says that a cycle that goes on has
  had all of the library up to its cursor and nothing beyond but the track it began with.
  A page continues after the cursor, so that it draws nothing twice (`PageFresh`), and
  the page that ends the cycle has drawn all that is left. Tracks may leave the library at
  any time; none may join it, which is the model's restriction (§2).
- `Unskipped` is `NothingSkipped` for the list that is being continued and for the one
  that a shuffle has put aside: switching it off must find the cursor no further than the
  queue that is restored.

The ring that a page walks is `RingFrom` the anchor, kept to what is left of it, so that
`Sieved` and `RingPage` say what is on a page without sorting. `PlayerConstants` assumes
that `None` is none of the numbers, lists, sets and records that stand beside it, which
null is not. TLC checked `Inv` on the 346 994 states of `player_queue` before it was
proved.

### Only model-checked

All liveness, that of `PlaybackDriver` included: fairness and `ENABLED` are out of the
prover's reach. Every invariant and every action property of a passing run is the subject
of a theorem.

## 6. Not modelled, and why

CMAF packaging, tags and covers are functions of a file that the unit tests
cover. Likes are single idempotent statements. JWT signing, presigning and
PostgreSQL's text ranking are libraries. Migrations run under one lock before
anything else does. Configuration and deployment scripts hold no state, and the
views other than the player only render the stores.

Sign-in codes (`auth.go`) are three Redis keys; the one step that must be atomic,
compare-count-delete, is one script. Access management (`access.go`) is an update by
id after a check of an email that never changes. The search cache stores a page
under the version it read before the query, so a page that is overtaken by a
publication is stored under the old version. The recovery of a progressive stream
in `Player.tsx` and the infinite feeds of the views are further client code without
a module.

## 7. Plan

Done: all modules of §2, and the proofs of §5.

To model next, if it is worth the room: the recovery of progressive streams
(`Player.tsx`, `playback-recovery.ts`) beside `PlaybackDriver`, the composition of
`PlaybackDriver` with `PlayerQueue` (what the cursor of the continuation is worth
after a fallback), and that a wait of `PlayerQueue` ends when the network is not
down for ever.
