-------------------------- MODULE UploadPipeline --------------------------
(***************************************************************************)
(* The upload pipeline of the API and of the media worker: from a created  *)
(* upload session to a published track, a failed one or a cancelled one.   *)
(*                                                                         *)
(*   - API requests (services/api/internal/server/uploads.go) load a row,  *)
(*     talk to object storage and then commit one database transaction;    *)
(*     each of these is a step of its own, with the loaded values kept in  *)
(*     req[r], so that two requests, or a request and a worker, interleave *)
(*     between them.                                                       *)
(*   - Workers (services/api/internal/server/worker.go) claim durable jobs,*)
(*     transcode, store the derived objects and publish.  Workers may      *)
(*     crash between any two steps, and more than one may run while a      *)
(*     deployment replaces the previous container.                         *)
(*   - A transaction is one step: every statement of it re-checks its      *)
(*     WHERE under the row locks it takes, and two transactions that take  *)
(*     the same locks in opposite orders deadlock, so that PostgreSQL      *)
(*     aborts one of them (RequestDies, JobStepFails).                     *)
(*                                                                         *)
(* An upload and the track it creates have the same index: createUpload    *)
(* draws both identifiers, and no other code links a session to a track.   *)
(***************************************************************************)
EXTENDS Naturals, FiniteSets

CONSTANTS
    Uploads,    \* upload sessions (and their tracks) that may ever be created
    Jobs,       \* process_upload rows that may ever be inserted: bounds retries
    Requests,   \* API requests that may be in flight together
    Workers,    \* worker processes that may be alive together
    HashOf,     \* the sha256 of the file of each upload
    Allowed,    \* the operations each request slot may carry
    Faults,     \* infrastructure faults that may happen, see FaultKinds
    NoJob, NoUpload

FaultKinds == {"publish_ack", "fail_write"}
Operations == {"create", "complete", "cancel", "retry", "resolve"}

ASSUME ConstantsAssumption ==
    /\ NoJob \notin Jobs
    /\ NoUpload \notin Uploads
    /\ Faults \subseteq FaultKinds
    /\ Allowed \in [Requests -> SUBSET Operations]

VARIABLES
    sess,       \* upload_sessions.status; "none" before, "gone" after the row
    track,      \* library_tracks.status; "none" when there is no row
    keyed,      \* library_tracks.playback_object_key is set
    asset,      \* current track_playback_assets row: the job that made it
    job,        \* media_jobs.status; "free" before, "deleted" after the row
    jobOf,      \* media_jobs.track_id and upload_id
    multipart,  \* the multipart upload in object storage
    incoming,   \* the object incoming/<upload>/original
    playback,   \* uploads whose object playback/<track>.m4a exists
    cmaf,       \* jobs whose object playback/<track>/cmaf/<asset>.mp4 exists
    req,        \* in-flight API requests with what they loaded
    wrk,        \* worker processes
    misled      \* history: uploads for which a request or a worker went on by
                \* what no longer held, see Mislead

dbVars      == <<sess, track, keyed, asset, job, jobOf>>
storageVars == <<multipart, incoming, playback, cmaf>>
vars        == <<dbVars, storageVars, req, wrk, misled>>

SessionStatus == {"none", "uploading", "processing", "ready", "error",
                  "cancelled", "gone"}
TrackStatus   == {"none", "uploading", "processing", "ready", "error"}
JobStatus     == {"free", "pending", "running", "succeeded", "failed",
                  "deleted"}
Contents      == {"good", "wrongSize", "wrongContent"}
RequestPC     == {"idle", "insert", "discard", "assemble", "queue", "abort",
                  "dropIncoming", "purgeIncoming", "purgePlayback", "record",
                  "requeue", "missing"}
WorkerPC      == {"down", "idle", "load", "inspect", "derive", "playback",
                  "cmaf", "publish", "obsolete", "ack", "unstore", "fail",
                  "expAbort", "expHead", "expCancel", "expQueue", "expError"}

\* The worker holds a claimed job.
JobPC         == {"load", "inspect", "derive", "playback", "cmaf", "publish",
                  "obsolete", "ack", "unstore", "fail"}

IdleRequest == [pc |-> "idle", upload |-> NoUpload, keyed |-> FALSE]
DownWorker  == [pc |-> "down", job |-> NoJob, upload |-> NoUpload]
IdleWorker  == [DownWorker EXCEPT !.pc = "idle"]

RowsOK ==
    /\ sess \in [Uploads -> SessionStatus]
    /\ track \in [Uploads -> TrackStatus]
    /\ keyed \in [Uploads -> BOOLEAN]
    /\ asset \in [Uploads -> Jobs \cup {NoJob}]
    /\ job \in [Jobs -> JobStatus]
    /\ jobOf \in [Jobs -> Uploads \cup {NoUpload}]
    /\ \A j \in Jobs : job[j] # "free" => jobOf[j] \in Uploads

StorageOK ==
    /\ multipart \in [Uploads -> {"none", "open", "closed"}]
    /\ incoming \in [Uploads -> Contents \cup {"absent"}]
    /\ playback \subseteq Uploads
    /\ cmaf \subseteq Jobs

RequestsOK ==
    /\ req \in [Requests -> [pc: RequestPC, upload: Uploads \cup {NoUpload},
                             keyed: BOOLEAN]]
    /\ \A r \in Requests : req[r].pc # "idle" => req[r].upload \in Uploads

WorkersOK ==
    /\ wrk \in [Workers -> [pc: WorkerPC, job: Jobs \cup {NoJob},
                            upload: Uploads \cup {NoUpload}]]
    /\ \A w \in Workers :
           /\ wrk[w].pc \notin {"down", "idle"} => wrk[w].upload \in Uploads
           /\ wrk[w].pc \in JobPC => wrk[w].job \in Jobs

\* Job rows are never reused: a worker's job was inserted.
HeldRowsExist ==
    \A w \in Workers : wrk[w].pc \in JobPC => job[wrk[w].job] # "free"

TypeOK ==
    /\ RowsOK /\ StorageOK /\ RequestsOK /\ WorkersOK /\ HeldRowsExist
    /\ misled \subseteq Uploads

Init ==
    /\ sess = [u \in Uploads |-> "none"]
    /\ track = [u \in Uploads |-> "none"]
    /\ keyed = [u \in Uploads |-> FALSE]
    /\ asset = [u \in Uploads |-> NoJob]
    /\ job = [j \in Jobs |-> "free"]
    /\ jobOf = [j \in Jobs |-> NoUpload]
    /\ multipart = [u \in Uploads |-> "none"]
    /\ incoming = [u \in Uploads |-> "absent"]
    /\ playback = {}
    /\ cmaf = {}
    /\ req = [r \in Requests |-> IdleRequest]
    /\ wrk = [w \in Workers |-> DownWorker]
    /\ misled = {}

---------------------------------------------------------------------------
(* Database helpers *)

SessionRow(u) == sess[u] \notin {"none", "gone"}
Active(j)     == job[j] \in {"pending", "running"}
HasActiveJob(u) == \E j \in Jobs : jobOf[j] = u /\ Active(j)

\* UPDATE upload_sessions SET status WHERE id: nothing when the row is gone.
SetSession(u, s) ==
    sess' = [sess EXCEPT ![u] = IF SessionRow(u) THEN s ELSE @]

\* UPDATE library_tracks SET status WHERE id: nothing when there is no row.
SetTrack(u, s) ==
    track' = [track EXCEPT ![u] = IF @ = "none" THEN @ ELSE s]

\* Faulty: the row does not say which upload it is for.
InsertJobUnlinked(u) ==
    \E j \in Jobs :
        /\ job[j] = "free"
        /\ job' = [job EXCEPT ![j] = "pending"]
        /\ UNCHANGED jobOf

\* INSERT INTO media_jobs ... of a fresh row for u.
InsertJob(u) ==
    \E j \in Jobs :
        /\ job[j] = "free"
        /\ job' = [job EXCEPT ![j] = "pending"]
        /\ jobOf' = [jobOf EXCEPT ![j] = u]

Goto(r, pc) == req' = [req EXCEPT ![r].pc = pc]
Done(r)     == req' = [req EXCEPT ![r] = IdleRequest]
Step(w, pc) == wrk' = [wrk EXCEPT ![w].pc = pc]
Rest(w)     == wrk' = [wrk EXCEPT ![w] = IdleWorker]

Enter(r, op, u, pc) ==
    /\ req[r].pc = "idle"
    /\ op \in Allowed[r]
    /\ req' = [req EXCEPT ![r] = [pc |-> pc, upload |-> u, keyed |-> keyed[u]]]

(***************************************************************************)
(* The code serializes neither requests nor workers.  Four steps let one   *)
(* go on by what no longer holds, and each of them can undo a publication: *)
(*   - a retry that commits after another retry revived the upload;        *)
(*   - a cancel that deletes the playback object after such a retry;       *)
(*   - a worker that takes a publication for refused, because the answer   *)
(*     of its commit was lost;                                             *)
(*   - a starting worker that fails the job another worker is running.     *)
(* They record the upload in misled.  No guard reads it.                   *)
(***************************************************************************)
Mislead(U) == misled' = misled \cup U

\* Uploads that a request which loaded them as failed finds retried meanwhile.
Revived == {u \in Uploads : track[u] \in {"processing", "ready"}}

\* A process holds the job and goes on with it.
Held(j) == \E w \in Workers : wrk[w].pc \in JobPC /\ wrk[w].job = j

At(r, u, pc) == req[r].pc = pc /\ req[r].upload = u

\* Faulty: a ready track may be queued again.
ProcessableOrReady(u) ==
    /\ track[u] \in {"uploading", "processing", "ready"}
    /\ sess[u] \in {"uploading", "processing", "ready"}

\* queueUploadProcessing can commit: both rows still accept processing.
Processable(u) ==
    /\ track[u] \in {"uploading", "processing"}
    /\ sess[u] \in {"uploading", "processing"}

\* queueUploadProcessing, the committed transaction.  The partial unique index
\* on active jobs turns the insert into a no-op when one is there already.
QueueProcessing(u) ==
    /\ Processable(u)
    /\ sess' = [sess EXCEPT ![u] = "processing"]
    /\ track' = [track EXCEPT ![u] = "processing"]
    /\ IF HasActiveJob(u) THEN UNCHANGED <<job, jobOf>> ELSE InsertJob(u)
    /\ UNCHANGED <<keyed, asset>>

\* Faulty: the track is deleted whatever its status.
CancelRecordUnguarded(u) ==
    LET drop == track[u] # "none" IN
    /\ sess' = [sess EXCEPT ![u] =
                    IF @ \in {"uploading", "error"} THEN "cancelled" ELSE @]
    /\ track' = [track EXCEPT ![u] = IF drop THEN "none" ELSE @]
    /\ keyed' = [keyed EXCEPT ![u] = IF drop THEN FALSE ELSE @]
    /\ asset' = [asset EXCEPT ![u] = IF drop THEN NoJob ELSE @]
    /\ job' = [j \in Jobs |-> IF drop /\ jobOf[j] = u THEN "deleted"
                                                      ELSE job[j]]
    /\ UNCHANGED jobOf

\* cancelUploadRecord: the two guarded statements; deleting the track cascades
\* to its jobs and unlinks its playback asset.
CancelRecord(u) ==
    LET drop == track[u] \in {"uploading", "error"} IN
    /\ sess' = [sess EXCEPT ![u] =
                    IF @ \in {"uploading", "error"} THEN "cancelled" ELSE @]
    /\ track' = [track EXCEPT ![u] = IF drop THEN "none" ELSE @]
    /\ keyed' = [keyed EXCEPT ![u] = IF drop THEN FALSE ELSE @]
    /\ asset' = [asset EXCEPT ![u] = IF drop THEN NoJob ELSE @]
    /\ job' = [j \in Jobs |-> IF drop /\ jobOf[j] = u THEN "deleted"
                                                      ELSE job[j]]
    /\ UNCHANGED jobOf

---------------------------------------------------------------------------
(* API: POST /me/uploads *)

\* Faulty: failed tracks do not count as duplicates.
HashTakenByHealthy(u) ==
    \E v \in Uploads : track[v] \notin {"none", "error"} /\ HashOf[v] = HashOf[u]

HashTaken(u) == \E v \in Uploads : track[v] # "none" /\ HashOf[v] = HashOf[u]

\* createUpload up to CreateMultipartUpload; a known duplicate answers 409.
CreateStart(r, u) ==
    /\ sess[u] = "none" /\ multipart[u] = "none"
    /\ ~HashTaken(u)
    /\ Enter(r, "create", u, "insert")
    /\ multipart' = [multipart EXCEPT ![u] = "open"]
    /\ UNCHANGED <<dbVars, incoming, playback, cmaf, wrk, misled>>

\* The insert of the track and of its session.
CreateInsert(r, u) ==
    /\ At(r, u, "insert")
    /\ ~HashTaken(u)
    /\ sess' = [sess EXCEPT ![u] = "uploading"]
    /\ track' = [track EXCEPT ![u] = "uploading"]
    /\ Done(r)
    /\ UNCHANGED <<keyed, asset, job, jobOf, storageVars, wrk, misled>>

\* The insert fails, on the unique sha256 (code 23505) or otherwise.
CreateConflict(r, u) ==
    /\ At(r, u, "insert")
    /\ Goto(r, "discard")
    /\ UNCHANGED <<dbVars, storageVars, wrk, misled>>

\* The deferred AbortMultipartUpload of a create that did not commit.
CreateDiscard(r, u) ==
    /\ At(r, u, "discard")
    /\ multipart' = [multipart EXCEPT ![u] = "closed"]
    /\ Done(r)
    /\ UNCHANGED <<dbVars, incoming, playback, cmaf, wrk, misled>>

---------------------------------------------------------------------------
(* API: POST /me/uploads/:id/complete *)

\* loadUpload: ready answers 200 at once, error and cancelled answer 409.
CompleteLoad(r, u) ==
    /\ \/ sess[u] = "uploading"  /\ Enter(r, "complete", u, "assemble")
       \/ sess[u] = "processing" /\ Enter(r, "complete", u, "queue")
    /\ UNCHANGED <<dbVars, storageVars, wrk, misled>>

\* CompleteMultipartUpload succeeds, or it has and its answer is lost.
CompleteAssemble(r, u) ==
    /\ At(r, u, "assemble")
    /\ multipart[u] = "open"
    /\ multipart' = [multipart EXCEPT ![u] = "closed"]
    /\ \E c \in Contents : incoming' = [incoming EXCEPT ![u] = c]
    /\ Goto(r, "queue")
    /\ UNCHANGED <<dbVars, playback, cmaf, wrk, misled>>

\* The parts or the multipart upload are gone: completedUploadExists accepts
\* an assembled object of the declared size.
CompleteRecover(r, u) ==
    /\ At(r, u, "assemble")
    /\ multipart[u] = "closed"
    /\ incoming[u] \in {"good", "wrongContent"}
    /\ Goto(r, "queue")
    /\ UNCHANGED <<dbVars, storageVars, wrk, misled>>

\* queueUploadProcessing from completeUpload.
CompleteQueue(r, u) ==
    /\ At(r, u, "queue")
    /\ QueueProcessing(u)
    /\ Done(r)
    /\ UNCHANGED <<storageVars, wrk, misled>>

---------------------------------------------------------------------------
(* API: DELETE /me/uploads/:id *)

\* loadUpload: processing and ready answer 409, cancelled answers 204.
CancelLoad(r, u) ==
    /\ \/ sess[u] = "uploading" /\ Enter(r, "cancel", u, "abort")
       \/ sess[u] = "error"     /\ Enter(r, "cancel", u, "purgeIncoming")
    /\ UNCHANGED <<dbVars, storageVars, wrk, misled>>

\* AbortMultipartUpload; NoSuchUpload means an earlier complete or abort won.
CancelAbort(r, u) ==
    /\ At(r, u, "abort")
    /\ multipart' = [multipart EXCEPT ![u] = "closed"]
    /\ Goto(r, IF multipart[u] = "open" THEN "record" ELSE "dropIncoming")
    /\ UNCHANGED <<dbVars, incoming, playback, cmaf, wrk, misled>>

\* DeleteObject(upload.ObjectKey) after NoSuchUpload.
CancelDropIncoming(r, u) ==
    /\ At(r, u, "dropIncoming")
    /\ incoming' = [incoming EXCEPT ![u] = "absent"]
    /\ Goto(r, "record")
    /\ UNCHANGED <<dbVars, multipart, playback, cmaf, wrk, misled>>

\* deleteFailedUploadObjects: the incoming object, then the playback object
\* when loadUpload saw its key.
CancelPurgeIncoming(r, u) ==
    /\ At(r, u, "purgeIncoming")
    /\ incoming' = [incoming EXCEPT ![u] = "absent"]
    /\ Goto(r, IF req[r].keyed THEN "purgePlayback" ELSE "record")
    /\ UNCHANGED <<dbVars, multipart, playback, cmaf, wrk, misled>>

CancelPurgePlayback(r, u) ==
    /\ At(r, u, "purgePlayback")
    /\ playback' = playback \ {u}
    /\ Mislead({u} \cap Revived)
    /\ Goto(r, "record")
    /\ UNCHANGED <<dbVars, multipart, incoming, cmaf, wrk>>

\* cancelUploadRecord; the handler answers 204 whatever rows it changed.
CancelCommit(r, u) ==
    /\ At(r, u, "record")
    /\ CancelRecord(u)
    /\ Done(r)
    /\ UNCHANGED <<storageVars, wrk, misled>>

---------------------------------------------------------------------------
(* API: POST /me/uploads/:id/retry, GET /tracks/:id/resolve *)

RetryLoad(r, u) ==
    /\ sess[u] = "error" /\ track[u] # "none"
    /\ Enter(r, "retry", u, "requeue")
    /\ UNCHANGED <<dbVars, storageVars, wrk, misled>>

\* The transaction of retryUpload updates both rows by id alone.  Its insert
\* aborts it when an active job exists (unique index) or when the track or the
\* session row is gone (foreign keys).
RetryCommit(r, u) ==
    /\ At(r, u, "requeue")
    /\ SessionRow(u) /\ track[u] # "none" /\ ~HasActiveJob(u)
    /\ SetSession(u, "processing")
    /\ SetTrack(u, "processing")
    /\ InsertJob(u)
    /\ Mislead({u} \cap Revived)
    /\ Done(r)
    /\ UNCHANGED <<keyed, asset, storageVars, wrk>>

\* resolveTrack: HeadObject finds that the object of a ready track is missing.
ResolveMissing(r, u) ==
    /\ track[u] = "ready" /\ u \notin playback
    /\ Enter(r, "resolve", u, "missing")
    /\ UNCHANGED <<dbVars, storageVars, wrk, misled>>

ResolveMark(r, u) ==
    /\ At(r, u, "missing")
    /\ track' = [track EXCEPT ![u] = IF @ = "ready" THEN "error" ELSE @]
    /\ Done(r)
    /\ UNCHANGED <<sess, keyed, asset, job, jobOf, storageVars, wrk, misled>>

\* The request ends early: an error answer, an aborted transaction, or a crash
\* of the API process.
RequestDies(r) ==
    /\ req[r].pc # "idle"
    /\ Done(r)
    /\ UNCHANGED <<dbVars, storageVars, wrk, misled>>

---------------------------------------------------------------------------
(* Worker: start, claim, process_upload *)

\* Faulty: interrupted jobs are offered again.
WorkerStartRequeues(w) ==
    LET published == {j \in Jobs : /\ job[j] = "running"
                                   /\ track[jobOf[j]] = "ready"}
        stale     == {j \in Jobs : job[j] = "running"} \ published
        done      == published \cup {j \in Jobs : job[j] = "succeeded"}
        hit(u)    == \E j \in stale : jobOf[j] = u
        closed(u) == sess[u] = "processing" /\ \E j \in done : jobOf[j] = u
    IN
    /\ wrk[w].pc = "down"
    /\ job' = [j \in Jobs |-> IF j \in published THEN "succeeded"
                              ELSE IF j \in stale THEN "pending" ELSE job[j]]
    /\ track' = [u \in Uploads |-> IF hit(u) /\ track[u] # "none"
                                   THEN "error" ELSE track[u]]
    /\ sess' = [u \in Uploads |-> IF hit(u) /\ SessionRow(u) THEN "error"
                                  ELSE IF closed(u) THEN "ready" ELSE sess[u]]
    /\ Rest(w)
    /\ UNCHANGED <<keyed, asset, jobOf, storageVars, req, misled>>

\* Faulty: only published jobs are settled at start.
WorkerStartForgetsStale(w) ==
    /\ wrk[w].pc = "down"
    /\ job' = [j \in Jobs |-> IF job[j] = "running" /\ track[jobOf[j]] = "ready"
                             THEN "succeeded" ELSE job[j]]
    /\ Rest(w)
    /\ UNCHANGED <<sess, track, keyed, asset, jobOf, storageVars, req, misled>>

\* failStaleJobs, in the order of its statements.
WorkerStart(w) ==
    LET published == {j \in Jobs : /\ job[j] = "running"
                                   /\ track[jobOf[j]] = "ready"}
        stale     == {j \in Jobs : job[j] = "running"} \ published
        done      == published \cup {j \in Jobs : job[j] = "succeeded"}
        hit(u)    == \E j \in stale : jobOf[j] = u
        closed(u) == sess[u] = "processing" /\ \E j \in done : jobOf[j] = u
    IN
    /\ wrk[w].pc = "down"
    /\ job' = [j \in Jobs |-> IF j \in published THEN "succeeded"
                              ELSE IF j \in stale THEN "failed" ELSE job[j]]
    /\ track' = [u \in Uploads |-> IF hit(u) /\ track[u] # "none"
                                   THEN "error" ELSE track[u]]
    /\ sess' = [u \in Uploads |-> IF hit(u) /\ SessionRow(u) THEN "error"
                                  ELSE IF closed(u) THEN "ready" ELSE sess[u]]
    /\ Mislead({u \in Uploads : \E j \in stale : jobOf[j] = u /\ Held(j)})
    /\ Rest(w)
    /\ UNCHANGED <<keyed, asset, jobOf, storageVars, req>>

\* claim: FOR UPDATE SKIP LOCKED hands a pending row to one worker.
Claim(w, j) ==
    /\ wrk[w].pc = "idle"
    /\ job[j] = "pending"
    /\ job' = [job EXCEPT ![j] = "running"]
    /\ wrk' = [wrk EXCEPT ![w] = [pc |-> "load", job |-> j,
                                  upload |-> jobOf[j]]]
    /\ UNCHANGED <<sess, track, keyed, asset, jobOf, storageVars, req, misled>>

Working(w, u, pc) == wrk[w].pc = pc /\ wrk[w].upload = u

LoadUpload(w, u) ==
    /\ Working(w, u, "load")
    /\ Step(w, IF sess[u] = "processing" /\ track[u] # "none"
               THEN "inspect" ELSE "fail")
    /\ UNCHANGED <<dbVars, storageVars, req, misled>>

\* HeadObject, download, sha256, ffprobe, ffmpeg and packaging.
InspectIncoming(w, u) ==
    /\ Working(w, u, "inspect")
    /\ Step(w, IF incoming[u] = "good" THEN "derive" ELSE "fail")
    /\ UNCHANGED <<dbVars, storageVars, req, misled>>

\* UPDATE library_tracks SET playback_object_key WHERE status='processing'.
PersistDerivedKeys(w, u) ==
    /\ Working(w, u, "derive")
    /\ IF track[u] = "processing"
       THEN keyed' = [keyed EXCEPT ![u] = TRUE] /\ Step(w, "playback")
       ELSE keyed' = keyed /\ Step(w, "fail")
    /\ UNCHANGED <<sess, track, asset, job, jobOf, storageVars, req, misled>>

StorePlayback(w, u) ==
    /\ Working(w, u, "playback")
    /\ playback' = playback \cup {u}
    /\ Step(w, "cmaf")
    /\ UNCHANGED <<dbVars, multipart, incoming, cmaf, req, misled>>

\* uploadCMAFAsset under a fresh key, then the cover.
StoreCmaf(w, u) ==
    /\ Working(w, u, "cmaf")
    /\ cmaf' = cmaf \cup {wrk[w].job}
    /\ Step(w, "publish")
    /\ UNCHANGED <<dbVars, multipart, incoming, playback, req, misled>>

\* Faulty: the deferred delete also runs after a commit.
PublishForgetsFlag(w, u) ==
    /\ Working(w, u, "publish")
    /\ track[u] = "processing"
    /\ asset' = [asset EXCEPT ![u] = wrk[w].job]
    /\ track' = [track EXCEPT ![u] = "ready"]
    /\ SetSession(u, "ready")
    /\ job' = [job EXCEPT ![wrk[w].job] =
                  IF @ = "running" THEN "succeeded" ELSE @]
    /\ Step(w, "unstore")
    /\ UNCHANGED <<keyed, jobOf, storageVars, req, misled>>

\* The publishing transaction: asset, track, session and job together.  When
\* the acknowledgement of its commit is lost the worker takes the error path.
Publish(w, u) ==
    /\ Working(w, u, "publish")
    /\ track[u] = "processing"
    /\ asset' = [asset EXCEPT ![u] = wrk[w].job]
    /\ track' = [track EXCEPT ![u] = "ready"]
    /\ SetSession(u, "ready")
    /\ job' = [job EXCEPT ![wrk[w].job] =
                  IF @ = "running" THEN "succeeded" ELSE @]
    /\ \/ Step(w, "obsolete") /\ Mislead({})
       \/ "publish_ack" \in Faults /\ Step(w, "unstore") /\ Mislead({u})
    /\ UNCHANGED <<keyed, jobOf, storageVars, req>>

\* The track is no longer processing: the deferred delete, then fail().
PublishRefused(w, u) ==
    /\ Working(w, u, "publish")
    /\ track[u] # "processing"
    /\ Step(w, "unstore")
    /\ UNCHANGED <<dbVars, storageVars, req, misled>>

\* DeleteObject(incoming) after publication; a failure is only logged.
RemoveObsolete(w, u) ==
    /\ Working(w, u, "obsolete")
    /\ incoming' = [incoming EXCEPT ![u] = "absent"]
    /\ Step(w, "ack")
    /\ UNCHANGED <<dbVars, multipart, playback, cmaf, req, misled>>

\* RunWorker's own UPDATE media_jobs SET status='succeeded' WHERE id.
Acknowledge(w, u) ==
    /\ Working(w, u, "ack")
    /\ job' = [job EXCEPT ![wrk[w].job] =
                  IF @ = "deleted" THEN @ ELSE "succeeded"]
    /\ Rest(w)
    /\ UNCHANGED <<sess, track, keyed, asset, jobOf, storageVars, req, misled>>

\* The deferred DeleteObject of a CMAF object that was not published.
Unstore(w, u) ==
    /\ Working(w, u, "unstore")
    /\ cmaf' = cmaf \ {wrk[w].job}
    /\ Step(w, "fail")
    /\ UNCHANGED <<dbVars, multipart, incoming, playback, req, misled>>

\* Any other error of processUpload; the CMAF object is deleted if stored.
JobStepFails(w, u) ==
    /\ wrk[w].upload = u
    /\ \/ wrk[w].pc \in {"load", "inspect", "derive", "playback", "cmaf"}
          /\ Step(w, "fail")
       \/ wrk[w].pc = "publish" /\ Step(w, "unstore")
    /\ UNCHANGED <<dbVars, storageVars, req, misled>>

\* Faulty: the session is not told.
RecordFailureKeepsSession(w, u) ==
    /\ Working(w, u, "fail")
    /\ job' = [job EXCEPT ![wrk[w].job] =
                  IF @ = "deleted" THEN @ ELSE "failed"]
    /\ SetTrack(u, "error")
    /\ Rest(w)
    /\ UNCHANGED <<sess, keyed, asset, jobOf, storageVars, req, misled>>

\* fail() of a process_upload job: three updates by id.
RecordFailure(w, u) ==
    /\ Working(w, u, "fail")
    /\ job' = [job EXCEPT ![wrk[w].job] =
                  IF @ = "deleted" THEN @ ELSE "failed"]
    /\ SetTrack(u, "error")
    /\ SetSession(u, "error")
    /\ Rest(w)
    /\ UNCHANGED <<keyed, asset, jobOf, storageVars, req, misled>>

\* fail() itself fails: RunWorker logs it and takes the next job.
FailureNotRecorded(w, u) ==
    /\ "fail_write" \in Faults
    /\ Working(w, u, "fail")
    /\ Rest(w)
    /\ UNCHANGED <<dbVars, storageVars, req, misled>>

WorkerCrash(w) ==
    /\ wrk[w].pc # "down"
    /\ wrk' = [wrk EXCEPT ![w] = DownWorker]
    /\ UNCHANGED <<dbVars, storageVars, req, misled>>

---------------------------------------------------------------------------
(* Worker: the per-minute cleanups *)

\* cleanupExpiredUploads selects a session whose expires_at has passed.
ExpirySelect(w, u) ==
    /\ wrk[w].pc = "idle"
    /\ sess[u] = "uploading"
    /\ wrk' = [wrk EXCEPT ![w] = [pc |-> "expAbort", job |-> NoJob,
                                  upload |-> u]]
    /\ UNCHANGED <<dbVars, storageVars, req, misled>>

ExpiryAbort(w, u) ==
    /\ Working(w, u, "expAbort")
    /\ multipart' = [multipart EXCEPT ![u] = "closed"]
    /\ Step(w, IF multipart[u] = "open" THEN "expCancel" ELSE "expHead")
    /\ UNCHANGED <<dbVars, incoming, playback, cmaf, req, misled>>

\* Faulty: a missing object is taken for a storage error.
ExpiryHeadSkipsMissing(w, u) ==
    /\ Working(w, u, "expHead")
    /\ IF incoming[u] = "absent" THEN Rest(w)
       ELSE Step(w, IF incoming[u] = "wrongSize" THEN "expError" ELSE "expQueue")
    /\ UNCHANGED <<dbVars, storageVars, req, misled>>

ExpiryHead(w, u) ==
    /\ Working(w, u, "expHead")
    /\ Step(w, CASE incoming[u] = "absent"    -> "expCancel"
                 [] incoming[u] = "wrongSize" -> "expError"
                 [] OTHER                     -> "expQueue")
    /\ UNCHANGED <<dbVars, storageVars, req, misled>>

ExpiryCancel(w, u) ==
    /\ Working(w, u, "expCancel")
    /\ CancelRecord(u)
    /\ Rest(w)
    /\ UNCHANGED <<storageVars, req, misled>>

ExpiryQueue(w, u) ==
    /\ Working(w, u, "expQueue")
    /\ QueueProcessing(u)
    /\ Rest(w)
    /\ UNCHANGED <<storageVars, req, misled>>

\* markUploadError: both statements are guarded.
ExpiryError(w, u) ==
    /\ Working(w, u, "expError")
    /\ sess' = [sess EXCEPT ![u] = IF @ = "uploading" THEN "error" ELSE @]
    /\ track' = [track EXCEPT ![u] = IF @ = "uploading" THEN "error" ELSE @]
    /\ Rest(w)
    /\ UNCHANGED <<keyed, asset, job, jobOf, storageVars, req, misled>>

\* An error of one cleanup step: the worker goes on with the next item.
ExpiryGivesUp(w, u) ==
    /\ wrk[w].pc \in {"expAbort", "expHead", "expCancel", "expQueue", "expError"}
    /\ wrk[w].upload = u
    /\ Rest(w)
    /\ UNCHANGED <<dbVars, storageVars, req, misled>>

\* cleanupTerminalUploadHistory: an hour after the row became terminal.
PurgeSession(w, u) ==
    /\ wrk[w].pc = "idle"
    /\ sess[u] \in {"ready", "cancelled"}
    /\ sess' = [sess EXCEPT ![u] = "gone"]
    /\ UNCHANGED <<track, keyed, asset, job, jobOf, storageVars, req, wrk, misled>>

PurgeJob(w, j) ==
    /\ wrk[w].pc = "idle"
    /\ job[j] = "succeeded"
    /\ job' = [job EXCEPT ![j] = "deleted"]
    /\ UNCHANGED <<sess, track, keyed, asset, jobOf, storageVars, req, wrk, misled>>

---------------------------------------------------------------------------
ApiStep(r, u) ==
    \/ CreateStart(r, u) \/ CreateInsert(r, u)
    \/ CreateConflict(r, u) \/ CreateDiscard(r, u)
    \/ CompleteLoad(r, u) \/ CompleteAssemble(r, u)
    \/ CompleteRecover(r, u) \/ CompleteQueue(r, u)
    \/ CancelLoad(r, u) \/ CancelAbort(r, u) \/ CancelDropIncoming(r, u)
    \/ CancelPurgeIncoming(r, u) \/ CancelPurgePlayback(r, u)
    \/ CancelCommit(r, u)
    \/ RetryLoad(r, u) \/ RetryCommit(r, u)
    \/ ResolveMissing(r, u) \/ ResolveMark(r, u)

\* The steps of a claimed job that need no fault.
JobStep(w, u) ==
    \/ LoadUpload(w, u) \/ InspectIncoming(w, u) \/ PersistDerivedKeys(w, u)
    \/ StorePlayback(w, u) \/ StoreCmaf(w, u)
    \/ Publish(w, u) \/ PublishRefused(w, u)
    \/ RemoveObsolete(w, u) \/ Acknowledge(w, u)
    \/ Unstore(w, u) \/ RecordFailure(w, u)

ExpiryStep(w, u) ==
    \/ ExpiryAbort(w, u) \/ ExpiryHead(w, u) \/ ExpiryCancel(w, u)
    \/ ExpiryQueue(w, u) \/ ExpiryError(w, u) \/ ExpiryGivesUp(w, u)

WorkerStep(w, u) ==
    \/ JobStep(w, u) \/ JobStepFails(w, u) \/ FailureNotRecorded(w, u)
    \/ ExpirySelect(w, u) \/ ExpiryStep(w, u) \/ PurgeSession(w, u)

Next ==
    \/ \E r \in Requests : RequestDies(r) \/ \E u \in Uploads : ApiStep(r, u)
    \/ \E w \in Workers :
           \/ WorkerStart(w) \/ WorkerCrash(w)
           \/ \E u \in Uploads : WorkerStep(w, u)
           \/ \E j \in Jobs : Claim(w, j) \/ PurgeJob(w, j)

Spec == Init /\ [][Next]_vars

(***************************************************************************)
(* Fairness.  Compose restarts a stopped worker (restart: unless-stopped)  *)
(* and a running worker executes its loop, so a claimed job goes on.  A    *)
(* pending job is offered in every round of the loop and an expired upload *)
(* in one round a minute; other rounds and restarts come between, hence    *)
(* strong fairness for picking them.  The steps of an expiry may fail and  *)
(* are tried again a minute later: strong fairness says that storage does  *)
(* not refuse for ever.  Nothing is assumed of the API requests.           *)
(***************************************************************************)
Fairness ==
    \A w \in Workers :
        /\ WF_vars(WorkerStart(w))
        /\ \A j \in Jobs : SF_vars(Claim(w, j))
        /\ \A u \in Uploads :
               /\ WF_vars(JobStep(w, u))
               /\ SF_vars(ExpirySelect(w, u))
               /\ SF_vars(ExpiryAbort(w, u))
               /\ SF_vars(ExpiryHead(w, u))
               /\ SF_vars(ExpiryCancel(w, u))
               /\ SF_vars(ExpiryQueue(w, u))
               /\ SF_vars(ExpiryError(w, u))

FairSpec == Spec /\ Fairness

---------------------------------------------------------------------------
(* Properties that hold for any number of workers and of racing requests. *)

\* The session row and the track row always tell compatible stories, although
\* every writer of uploads.go and worker.go updates them by separate guarded or
\* unguarded statements: a published track never belongs to a session that can
\* still be cancelled or retried, and a cancelled session keeps no track, so
\* that its sha256 is free again.
StatusCoupling ==
    \A u \in Uploads :
        /\ sess[u] = "none"       => track[u] = "none"
        /\ sess[u] = "uploading"  => track[u] = "uploading"
        /\ sess[u] = "processing" => track[u] = "processing"
        /\ sess[u] = "error"      => track[u] \in {"error", "none"}
        /\ sess[u] = "cancelled"  => track[u] = "none"
        /\ track[u] = "uploading" => sess[u] = "uploading"
        /\ track[u] = "ready"     => sess[u] \in {"ready", "gone"}

\* No upload is left "processing" with nothing to process it: the session
\* transitions of queueUploadProcessing, retryUpload, fail, failStaleJobs and
\* cancelUploadRecord keep a pending or running job for it, or leave the state
\* together with the job.
ProcessingHasJob ==
    \A u \in Uploads : sess[u] = "processing" => HasActiveJob(u)

\* A worker that holds a job works on the upload of that job, the row is not
\* offered to a second worker meanwhile, and once the worker has published, the
\* row is no longer active: RunWorker's closing UPDATE ... WHERE id=$1, which has
\* no status guard, can then never finish a row that still has to run.
WorkerHoldsItsJob ==
    \A w \in Workers : wrk[w].pc \in JobPC =>
        /\ jobOf[wrk[w].job] = wrk[w].upload
        /\ job[wrk[w].job] \notin {"free", "pending"}
        /\ wrk[w].pc \in {"obsolete", "ack"} => job[wrk[w].job] # "running"

---------------------------------------------------------------------------
(* Properties of the uploads for which nobody went on by what no longer held, *)
(* with the same workers, requests, crashes and faults around them.           *)

\* A published track is playable: its progressive object exists, and so does
\* the object behind its current HLS asset, whatever crashed on the way and
\* whatever the deferred deletes of other runs and the purges of cancelled
\* requests removed.
UnmisledPlayable ==
    \A u \in Uploads \ misled :
        track[u] = "ready" => u \in playback /\ asset[u] \in cmaf

\* Every track that holds a sha256 without being published can be finished or
\* released by its owner: a failed track has a failed session, which retry and
\* cancel accept.  Only a publication that was undone can leave another one,
\* and only for a misled upload.
FailedTrackReleasable ==
    \A u \in Uploads :
        track[u] = "error" /\ (u \notin misled \/ asset[u] = NoJob)
            => sess[u] = "error"

\* Published tracks are immutable in the user application, and a cancelled
\* upload stays cancelled until its row is purged.
TerminalStable ==
    [][\A u \in Uploads \ misled' :
          /\ track[u] = "ready" => track'[u] = "ready" /\ asset'[u] = asset[u]
          /\ sess[u] = "cancelled" => sess'[u] \in {"cancelled", "gone"}]_vars

---------------------------------------------------------------------------
(* What the repository says of every upload, and misled ones break *)

\* A published track is playable, whatever races: the stored objects of a
\* failed upload are deleted only when it is cancelled.
PublishedPlayable ==
    \A u \in Uploads :
        track[u] = "ready" => u \in playback /\ asset[u] \in cmaf

\* Published tracks are immutable in the user application: a track whose HLS
\* asset was published is ready.
PublishedImmutable ==
    \A u \in Uploads : asset[u] # NoJob => track[u] = "ready"

---------------------------------------------------------------------------
(* Liveness, of FairSpec *)

\* Processing ends: in a published track or in an error its owner sees,
\* however often the worker crashes.
ProcessingEnds ==
    \A u \in Uploads : sess[u] = "processing" ~> sess[u] # "processing"

\* An upload that is abandoned in the browser does not hold its sha256 for
\* ever: expiry cancels it, or recovers the object that was assembled.
UploadingEnds ==
    \A u \in Uploads : sess[u] = "uploading" ~> sess[u] # "uploading"

---------------------------------------------------------------------------
(* Refinement: what the pipeline promises to the user, see UploadLifecycle. *)
Phase ==
    [u \in Uploads |->
        CASE track[u] = "ready" -> "published"
          [] track[u] = "error" -> "failed"
          [] track[u] = "none"  -> IF sess[u] = "none" THEN "none"
                                                       ELSE "released"
          [] OTHER              -> track[u]]

Lifecycle == INSTANCE UploadLifecycle WITH phase <- Phase

\* Whatever requests, workers and faults come together, every step of the API
\* and of the worker is a step of the life cycle, or invisible to the user;
\* what is published is taken back only for a misled upload.
ImplementsLifecycle == Lifecycle!Spec

===========================================================================
