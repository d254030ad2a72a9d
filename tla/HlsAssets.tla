----------------------------- MODULE HlsAssets -----------------------------
(***************************************************************************)
(* The life of HLS assets (rows of track_playback_assets and their CMAF    *)
(* objects): prepared for ready tracks by prepare_hls jobs, referenced by  *)
(* the items of playback sessions, orphaned when their track is deleted,   *)
(* retired when an upload publishes a newer one, and removed by the        *)
(* worker's cleanup.                                                       *)
(*                                                                         *)
(* Sources: worker.go (prepareHLSAsset, persistReadyCMAFAsset, deleteTrack,*)
(* fail, failStaleJobs, enqueueMissingHLSAssets, cleanupRetiredHLSAssets), *)
(* admin_hls.go (retryAdminHLSBackfill) and the reads and inserts of       *)
(* playback_sessions.go that reference an asset.  Uploads are modelled in  *)
(* UploadPipeline; here one is the external step Republish.                *)
(***************************************************************************)
EXTENDS Naturals, FiniteSets

CONSTANTS
    Tracks,
    Assets,       \* packaging attempts: each draws a fresh row id and key
    Jobs,         \* media_jobs rows that may ever be inserted
    Sessions,     \* playback sessions, each with one request in flight
    Workers,
    MaxAttempts,  \* hlsPreparationMaxAttempts
    Faults,       \* may hold "commit_ack": the answer of a commit is lost
    NoTrack, NoAsset, NoJob

ASSUME HlsConstants ==
    /\ MaxAttempts \in Nat \ {0}
    /\ Faults \subseteq {"commit_ack"}
    /\ NoTrack \notin Tracks /\ NoAsset \notin Assets /\ NoJob \notin Jobs

VARIABLES
    track,        \* library_tracks.status, "gone" after the row
    m4a,          \* tracks whose progressive object exists
    row,          \* asset row: "free", "current", "retired" or "deleted"
    owner,        \* track_playback_assets.track_id, NoTrack for NULL
    object,       \* assets whose CMAF object exists
    lost,         \* assets whose row stayed while an error path deleted their
                  \* object: the answer of a commit that was lost, or a
                  \* deletion that rolled back (a history variable)
    kind,         \* media_jobs.kind
    jobOf,        \* media_jobs.track_id
    status,       \* media_jobs.status, "free" before and "deleted" after
    attempts,     \* media_jobs.attempts
    items,        \* assets that the items of a session reference
    seed,         \* assets an insert in flight has read
    wrk           \* worker processes

rowVars  == <<track, row, owner>>
jobVars  == <<kind, jobOf, status, attempts>>
sesVars  == <<items, seed>>
vars     == <<rowVars, m4a, object, lost, jobVars, sesVars, wrk>>

WorkerPC == {"down", "enqueue", "idle", "load", "package", "install",
             "drop", "discard", "ack", "fail", "lock", "remove", "commit", "sweep", "reap"}

Idle == [pc |-> "idle", job |-> NoJob, asset |-> NoAsset]
Down == [Idle EXCEPT !.pc = "down"]

\* The types: preparation is tried a bounded number of times, across failures that
\* the worker reports, crashes, and starts of a second worker.
TypeOK ==
    /\ track \in [Tracks -> {"ready", "processing", "error", "deleting", "gone"}]
    /\ m4a \subseteq Tracks /\ object \subseteq Assets /\ lost \subseteq Assets
    /\ row \in [Assets -> {"free", "current", "retired", "deleted"}]
    /\ owner \in [Assets -> Tracks \cup {NoTrack}]
    /\ kind \in [Jobs -> {"prepare_hls", "delete_track"}]
    /\ jobOf \in [Jobs -> Tracks \cup {NoTrack}]
    /\ status \in [Jobs -> {"free", "pending", "running", "succeeded", "failed",
                            "deleted"}]
    /\ attempts \in [Jobs -> 0..MaxAttempts]
    /\ items \in [Sessions -> SUBSET Assets] /\ seed \in [Sessions -> SUBSET Assets]
    /\ wrk \in [Workers -> [pc: WorkerPC, job: Jobs \cup {NoJob},
                            asset: Assets \cup {NoAsset}]]

\* The library when the HLS release starts: published tracks without assets.
Init ==
    /\ track = [t \in Tracks |-> "ready"]
    /\ m4a = Tracks
    /\ row = [a \in Assets |-> "free"]
    /\ owner = [a \in Assets |-> NoTrack]
    /\ object = {} /\ lost = {}
    /\ kind = [j \in Jobs |-> "prepare_hls"]
    /\ jobOf = [j \in Jobs |-> NoTrack]
    /\ status = [j \in Jobs |-> "free"]
    /\ attempts = [j \in Jobs |-> 0]
    /\ items = [s \in Sessions |-> {}] /\ seed = [s \in Sessions |-> {}]
    /\ wrk = [w \in Workers |-> Down]

---------------------------------------------------------------------------
(* Reads *)

Current(t)    == {a \in Assets : row[a] = "current" /\ owner[a] = t}
Active(j)     == status[j] \in {"pending", "running"}
RowsOf(t, k)  == {j \in Jobs : jobOf[j] = t /\ kind[j] = k /\ status[j] # "deleted"}
HasActive(t, k) == \E j \in RowsOf(t, k) : Active(j)
Referenced(a) == \E s \in Sessions : a \in items[s]

\* A terminal failure: it blocks enqueueMissingHLSAssets, not an admin's retry.
Exhausted(t) == \E j \in RowsOf(t, "prepare_hls") :
                    status[j] = "failed" /\ attempts[j] >= MaxAttempts

Missing == {t \in Tracks : track[t] = "ready" /\ Current(t) = {}}

\* libraryPlaybackReadiness: missing tracks that may still be prepared.
Retryable == {t \in Missing : HasActive(t, "prepare_hls") \/ ~Exhausted(t)}

\* deleteTrack holds the row locks of its track and of the track's assets.
Locked(t) == \E w \in Workers : /\ wrk[w].pc \in {"remove", "commit"}
                                /\ jobOf[wrk[w].job] = t

Free == {j \in Jobs : status[j] = "free"}

\* INSERT INTO media_jobs: a fresh pending row of kind k for each track of T.
InsertRows(T, k) ==
    \E f \in [T -> Free] :
        LET new == {f[t] : t \in T} IN
        /\ Cardinality(new) = Cardinality(T)
        /\ kind' = [j \in Jobs |-> IF j \in new THEN k ELSE kind[j]]
        /\ jobOf' = [j \in Jobs |-> IF j \in new
                                    THEN CHOOSE t \in T : f[t] = j ELSE jobOf[j]]
        /\ status' = [j \in Jobs |-> IF j \in new THEN "pending" ELSE status[j]]
        /\ UNCHANGED attempts

At(w, pc)   == wrk[w].pc = pc
Goto(w, pc) == wrk' = [wrk EXCEPT ![w].pc = pc]
Rest(w)     == wrk' = [wrk EXCEPT ![w] = Idle]

---------------------------------------------------------------------------
(* Worker: start, claim, the end of a job *)

\* failStaleJobs: prepare_hls is offered again while it has attempts left; a
\* deletion fails its track.
WorkerStart(w) ==
    LET stale == {j \in Jobs : status[j] = "running"} IN
    /\ At(w, "down")
    /\ ~\E t \in Tracks : Locked(t)
    /\ status' = [j \in Jobs |->
                    IF j \notin stale THEN status[j]
                    ELSE IF kind[j] = "prepare_hls" /\ attempts[j] < MaxAttempts
                         THEN "pending" ELSE "failed"]
    /\ track' = [t \in Tracks |->
                    IF track[t] # "gone"
                       /\ \E j \in stale : kind[j] = "delete_track" /\ jobOf[j] = t
                    THEN "error" ELSE track[t]]
    /\ Goto(w, "enqueue")
    /\ UNCHANGED <<row, owner, m4a, object, lost, kind, jobOf, attempts, sesVars>>

\* enqueueMissingHLSAssets, after failStaleJobs has committed.  The bound: when
\* fewer rows than tracks are left, only some of the tracks get one.
EnqueueMissing(w) ==
    LET wanted == {t \in Missing : ~HasActive(t, "prepare_hls") /\ ~Exhausted(t)}
    IN
    /\ At(w, "enqueue")
    /\ \E T \in SUBSET wanted :
           /\ T = wanted \/ Cardinality(T) = Cardinality(Free)
           /\ InsertRows(T, "prepare_hls")
    /\ Rest(w)
    /\ UNCHANGED <<rowVars, m4a, object, lost, sesVars>>

\* claim: any other kind goes before prepare_hls.
Claim(w, j) ==
    /\ At(w, "idle")
    /\ status[j] = "pending"
    /\ kind[j] = "prepare_hls" =>
           ~\E i \in Jobs : status[i] = "pending" /\ kind[i] # "prepare_hls"
    /\ status' = [status EXCEPT ![j] = "running"]
    /\ attempts' = [attempts EXCEPT ![j] = @ + 1]
    /\ wrk' = [wrk EXCEPT ![w] =
                 [pc |-> IF kind[j] = "prepare_hls" THEN "load" ELSE "lock",
                  job |-> j, asset |-> NoAsset]]
    /\ UNCHANGED <<rowVars, m4a, object, lost, kind, jobOf, sesVars>>

\* RunWorker's closing UPDATE media_jobs SET status='succeeded' WHERE id.
Acknowledge(w) ==
    /\ At(w, "ack")
    /\ status' = [status EXCEPT ![wrk[w].job] =
                     IF @ = "deleted" THEN @ ELSE "succeeded"]
    /\ Rest(w)
    /\ UNCHANGED <<rowVars, m4a, object, lost, kind, jobOf, attempts, sesVars>>

\* Faulty: one attempt too many is allowed.
RecordFailureUnbounded(w) ==
    LET j == wrk[w].job
        t == jobOf[j]
        prepare == kind[j] = "prepare_hls"
    IN
    /\ At(w, "fail") /\ (prepare \/ ~Locked(t))
    /\ status' = [status EXCEPT ![j] =
                     IF @ = "deleted" THEN @
                     ELSE IF prepare /\ attempts[j] <= MaxAttempts
                          THEN "pending" ELSE "failed"]
    /\ track' = [track EXCEPT ![t] = IF prepare \/ @ = "gone" THEN @ ELSE "error"]
    /\ Rest(w)
    /\ UNCHANGED <<row, owner, m4a, object, lost, kind, jobOf, attempts, sesVars>>

\* Faulty: a rescheduled job starts counting again.
RecordFailureResets(w) ==
    LET j == wrk[w].job
        t == jobOf[j]
        prepare == kind[j] = "prepare_hls"
    IN
    /\ At(w, "fail") /\ (prepare \/ ~Locked(t))
    /\ status' = [status EXCEPT ![j] =
                     IF @ = "deleted" THEN @
                     ELSE IF prepare /\ attempts[j] < MaxAttempts
                          THEN "pending" ELSE "failed"]
    /\ track' = [track EXCEPT ![t] = IF prepare \/ @ = "gone" THEN @ ELSE "error"]
    /\ attempts' = [attempts EXCEPT ![j] = IF prepare THEN 0 ELSE @]
    /\ Rest(w)
    /\ UNCHANGED <<row, owner, m4a, object, lost, kind, jobOf, sesVars>>

\* Faulty: a failed deletion leaves its track deleting.
RecordFailureKeepsDeleting(w) ==
    LET j == wrk[w].job
        t == jobOf[j]
        prepare == kind[j] = "prepare_hls"
    IN
    /\ At(w, "fail") /\ (prepare \/ ~Locked(t))
    /\ status' = [status EXCEPT ![j] =
                     IF @ = "deleted" THEN @
                     ELSE IF prepare /\ attempts[j] < MaxAttempts
                          THEN "pending" ELSE "failed"]
    /\ track' = [track EXCEPT ![t] = @]
    /\ Rest(w)
    /\ UNCHANGED <<row, owner, m4a, object, lost, kind, jobOf, attempts, sesVars>>

\* fail(): a preparation is rescheduled with a delay while it has attempts
\* left, and never touches its track; a deletion fails its track.
RecordFailure(w) ==
    LET j == wrk[w].job
        t == jobOf[j]
        prepare == kind[j] = "prepare_hls"
    IN
    /\ At(w, "fail") /\ (prepare \/ ~Locked(t))
    /\ status' = [status EXCEPT ![j] =
                     IF @ = "deleted" THEN @
                     ELSE IF prepare /\ attempts[j] < MaxAttempts
                          THEN "pending" ELSE "failed"]
    /\ track' = [track EXCEPT ![t] = IF prepare \/ @ = "gone" THEN @ ELSE "error"]
    /\ Rest(w)
    /\ UNCHANGED <<row, owner, m4a, object, lost, kind, jobOf, attempts, sesVars>>

\* fail() itself fails: it is logged and the row stays running.
FailureNotRecorded(w) ==
    /\ At(w, "fail")
    /\ Rest(w)
    /\ UNCHANGED <<rowVars, m4a, object, lost, jobVars, sesVars>>

---------------------------------------------------------------------------
(* Worker: prepare_hls *)

Fresh == {a \in Assets : /\ row[a] = "free" /\ a \notin object
                         /\ \A w \in Workers : wrk[w].asset # a}

\* The first query of prepareHLSAsset: nothing to do ends the job well.
PrepareLoad(w) ==
    /\ At(w, "load")
    /\ Goto(w, IF jobOf[wrk[w].job] \in Missing THEN "package" ELSE "ack")
    /\ UNCHANGED <<rowVars, m4a, object, lost, jobVars, sesVars>>

\* Download, package, and store under a fresh key.
PreparePackage(w) ==
    /\ At(w, "package")
    /\ jobOf[wrk[w].job] \in m4a
    /\ \E a \in Fresh :
           /\ object' = object \cup {a}
           /\ wrk' = [wrk EXCEPT ![w] = [@ EXCEPT !.pc = "install", !.asset = a]]
    /\ UNCHANGED <<rowVars, m4a, lost, jobVars, sesVars>>

\* Faulty: the transaction does not look again for a current asset.
PrepareInstallBlindly(w) ==
    LET a == wrk[w].asset
        t == jobOf[wrk[w].job]
    IN
    /\ At(w, "install") /\ ~Locked(t)
    /\ track[t] = "ready"
    /\ row' = [row EXCEPT ![a] = "current"]
    /\ owner' = [owner EXCEPT ![a] = t]
    /\ \/ Goto(w, "ack") /\ UNCHANGED lost
       \/ "commit_ack" \in Faults /\ Goto(w, "drop") /\ lost' = lost \cup {a}
    /\ UNCHANGED <<track, m4a, object, jobVars, sesVars>>

\* Faulty: "published" is not set, so the deferred delete runs.
PrepareInstallForgetsFlag(w) ==
    LET a == wrk[w].asset
        t == jobOf[wrk[w].job]
    IN
    /\ At(w, "install") /\ ~Locked(t)
    /\ track[t] = "ready" /\ Current(t) = {}
    /\ row' = [row EXCEPT ![a] = "current"]
    /\ owner' = [owner EXCEPT ![a] = t]
    /\ Goto(w, "discard")
    /\ UNCHANGED <<track, m4a, object, lost, jobVars, sesVars>>

\* The transaction of prepareHLSAsset: under the track's row lock it checks again
\* that the track is ready and has no current asset.  When the answer of the
\* commit is lost, the deferred delete and fail() run all the same.
PrepareInstall(w) ==
    LET a == wrk[w].asset
        t == jobOf[wrk[w].job]
    IN
    /\ At(w, "install") /\ ~Locked(t)
    /\ track[t] = "ready" /\ Current(t) = {}
    /\ row' = [row EXCEPT ![a] = "current"]
    /\ owner' = [owner EXCEPT ![a] = t]
    /\ \/ Goto(w, "ack") /\ UNCHANGED lost
       \/ "commit_ack" \in Faults /\ Goto(w, "drop") /\ lost' = lost \cup {a}
    /\ UNCHANGED <<track, m4a, object, jobVars, sesVars>>

\* The track went away, left ready, or got an asset meanwhile: no error.
PrepareRefused(w) ==
    LET t == jobOf[wrk[w].job] IN
    /\ At(w, "install") /\ ~Locked(t)
    /\ track[t] # "ready" \/ Current(t) # {}
    /\ Goto(w, "discard")
    /\ UNCHANGED <<rowVars, m4a, object, lost, jobVars, sesVars>>

\* The deferred DeleteObject, then the end of the job.
PrepareDrop(w) ==
    /\ wrk[w].pc \in {"drop", "discard"}
    /\ object' = object \ {wrk[w].asset}
    /\ wrk' = [wrk EXCEPT ![w] = [@ EXCEPT !.pc = IF @ = "drop" THEN "fail" ELSE "ack",
                                           !.asset = NoAsset]]
    /\ UNCHANGED <<rowVars, m4a, lost, jobVars, sesVars>>

\* Any other error of prepareHLSAsset.
PrepareFails(w) ==
    /\ \/ wrk[w].pc \in {"load", "package"} /\ Goto(w, "fail")
       \/ At(w, "install") /\ Goto(w, "drop")
    /\ UNCHANGED <<rowVars, m4a, object, lost, jobVars, sesVars>>

---------------------------------------------------------------------------
(* Worker: delete_track, one transaction around the removal of objects *)

\* SELECT ... FOR UPDATE of the track and of its assets.
DeleteLock(w) ==
    LET t == jobOf[wrk[w].job] IN
    /\ At(w, "lock") /\ ~Locked(t)
    /\ Goto(w, IF track[t] = "deleting" THEN "remove" ELSE "fail")
    /\ UNCHANGED <<rowVars, m4a, object, lost, jobVars, sesVars>>

\* Faulty: the references of playback sessions are not looked up.
VictimsAll(t) == {a \in Assets : owner[a] = t}

\* The second statement sees every reference committed before the lock.
Victims(t) == {a \in Assets : owner[a] = t /\ ~Referenced(a)}

\* The objects go one by one; an error leaves some of them and rolls back.
DeleteObjects(w) ==
    LET t == jobOf[wrk[w].job] IN
    /\ At(w, "remove")
    /\ \/ /\ m4a' = m4a \ {t} /\ object' = object \ Victims(t)
          /\ Goto(w, "commit") /\ UNCHANGED lost
       \/ \E D \in SUBSET Victims(t) :
              /\ m4a' = m4a \ {t} /\ object' = object \ D
              /\ lost' = lost \cup D
              /\ Goto(w, "fail")
    /\ UNCHANGED <<rowVars, jobVars, sesVars>>

\* The asset rows that nobody references go with the track; the others lose
\* their track_id, and the track's jobs cascade.
DeleteCommit(w) ==
    LET t == jobOf[wrk[w].job] IN
    /\ At(w, "commit")
    /\ row' = [a \in Assets |-> IF a \in Victims(t) THEN "deleted" ELSE row[a]]
    /\ owner' = [a \in Assets |-> IF owner[a] = t THEN NoTrack ELSE owner[a]]
    /\ track' = [track EXCEPT ![t] = "gone"]
    /\ status' = [j \in Jobs |-> IF jobOf[j] = t THEN "deleted" ELSE status[j]]
    /\ Rest(w)
    /\ UNCHANGED <<m4a, object, lost, kind, jobOf, attempts, sesVars>>

\* A deletion that does not commit: the objects it removed stay removed.
Unfinished(w) ==
    IF At(w, "commit") THEN Victims(jobOf[wrk[w].job]) ELSE {}

DeleteAborts(w) ==
    /\ wrk[w].pc \in {"lock", "remove", "commit"}
    /\ lost' = lost \cup Unfinished(w)
    /\ Goto(w, "fail")
    /\ UNCHANGED <<rowVars, m4a, object, jobVars, sesVars>>

\* A crash between any two steps; an open transaction rolls back.
WorkerCrash(w) ==
    /\ ~At(w, "down")
    /\ lost' = lost \cup Unfinished(w)
    /\ wrk' = [wrk EXCEPT ![w] = Down]
    /\ UNCHANGED <<rowVars, m4a, object, jobVars, sesVars>>

---------------------------------------------------------------------------
(* Worker: cleanupRetiredHLSAssets *)

\* retired_at is older than 24 hours: no request that read the asset as current
\* is still in flight.
Aged(a) == row[a] = "retired" /\ \A s \in Sessions : a \notin seed[s]

\* Faulty: only orphans are collected.
SweepableOrphan(a) ==
    /\ row[a] \in {"current", "retired"}
    /\ owner[a] = NoTrack
    /\ ~Referenced(a)

Sweepable(a) ==
    /\ row[a] \in {"current", "retired"}
    /\ owner[a] = NoTrack \/ Aged(a)
    /\ ~Referenced(a)

SweepSelect(w, a) ==
    /\ At(w, "idle")
    /\ Sweepable(a)
    /\ wrk' = [wrk EXCEPT ![w] = [@ EXCEPT !.pc = "sweep", !.asset = a]]
    /\ UNCHANGED <<rowVars, m4a, object, lost, jobVars, sesVars>>

\* DeleteObject; another error ends this cleanup until the next minute.
SweepObject(w) ==
    /\ At(w, "sweep")
    /\ object' = object \ {wrk[w].asset}
    /\ Goto(w, "reap")
    /\ UNCHANGED <<rowVars, m4a, lost, jobVars, sesVars>>

\* DELETE FROM track_playback_assets with the same conditions again.
SweepRow(w) ==
    /\ At(w, "reap")
    /\ row' = [row EXCEPT ![wrk[w].asset] =
                  IF Sweepable(wrk[w].asset) THEN "deleted" ELSE @]
    /\ Rest(w)
    /\ UNCHANGED <<track, owner, m4a, object, lost, jobVars, sesVars>>

SweepGivesUp(w) ==
    /\ wrk[w].pc \in {"sweep", "reap"}
    /\ Rest(w)
    /\ UNCHANGED <<rowVars, m4a, object, lost, jobVars, sesVars>>

---------------------------------------------------------------------------
(* API *)

\* retryAdminHLSBackfill: a missing track without an active job gets a new row.
AdminRetry(t) ==
    /\ t \in Missing /\ ~Locked(t)
    /\ ~HasActive(t, "prepare_hls")
    /\ InsertRows({t}, "prepare_hls")
    /\ UNCHANGED <<rowVars, m4a, object, lost, sesVars, wrk>>

\* A playback request reads the current assets of ready tracks; a new session
\* needs a library in which nothing is left to prepare.
SeedRead(s, T) ==
    /\ seed[s] = {} /\ T # {}
    /\ \A t \in T : track[t] = "ready" /\ Current(t) # {}
    /\ items[s] = {} => Retryable = {}
    /\ seed' = [seed EXCEPT ![s] = UNION {Current(t) : t \in T}]
    /\ UNCHANGED <<rowVars, m4a, object, lost, jobVars, items, wrk>>

\* The insert of the items: both foreign keys, of the asset and of the track,
\* must still have their row, and wait for the locks of a deletion.
Pin(s) ==
    /\ seed[s] # {}
    /\ \A a \in seed[s] :
           /\ row[a] \in {"current", "retired"}
           /\ owner[a] # NoTrack /\ ~Locked(owner[a])
    /\ items' = [items EXCEPT ![s] = @ \cup seed[s]]
    /\ seed' = [seed EXCEPT ![s] = {}]
    /\ UNCHANGED <<rowVars, m4a, object, lost, jobVars, wrk>>

SeedDropped(s) ==
    /\ seed[s] # {}
    /\ seed' = [seed EXCEPT ![s] = {}]
    /\ UNCHANGED <<rowVars, m4a, object, lost, jobVars, items, wrk>>

\* The session is closed, replaced or expired; its items cascade, and an append
\* in flight finds no session.
SessionEnds(s) ==
    /\ items[s] # {}
    /\ items' = [items EXCEPT ![s] = {}]
    /\ seed' = [seed EXCEPT ![s] = {}]
    /\ UNCHANGED <<rowVars, m4a, object, lost, jobVars, wrk>>

---------------------------------------------------------------------------
(* Upload pipeline and operator *)

\* A published upload is processed again, see UploadPipeline.
Reprocess(t) ==
    /\ track[t] = "ready" /\ ~Locked(t)
    /\ track' = [track EXCEPT ![t] = "processing"]
    /\ UNCHANGED <<row, owner, m4a, object, lost, jobVars, sesVars, wrk>>

\* persistReadyCMAFAsset with replaceCurrent, in the publishing transaction.
Republish(t) ==
    /\ track[t] = "processing" /\ ~Locked(t)
    /\ \E a \in Fresh :
           /\ row' = [b \in Assets |-> IF b = a THEN "current"
                                       ELSE IF b \in Current(t) THEN "retired"
                                       ELSE row[b]]
           /\ owner' = [owner EXCEPT ![a] = t]
           /\ object' = object \cup {a}
    /\ m4a' = m4a \cup {t}
    /\ track' = [track EXCEPT ![t] = "ready"]
    /\ UNCHANGED <<lost, jobVars, sesVars, wrk>>

\* An operator marks a track for deletion and inserts its job: no code of the
\* repository does, the worker only serves such jobs.
RequestDeletion(t) ==
    /\ track[t] \in {"ready", "error"} /\ ~Locked(t)
    /\ ~HasActive(t, "delete_track")
    /\ track' = [track EXCEPT ![t] = "deleting"]
    /\ InsertRows({t}, "delete_track")
    /\ UNCHANGED <<row, owner, m4a, object, lost, sesVars, wrk>>

---------------------------------------------------------------------------
PrepareStep(w) ==
    \/ PrepareLoad(w) \/ PreparePackage(w) \/ PrepareInstall(w)
    \/ PrepareRefused(w) \/ PrepareDrop(w)

DeleteStep(w) == DeleteLock(w) \/ DeleteObjects(w) \/ DeleteCommit(w)

\* What a live worker does next with the job or the asset it holds.
HeldStep(w) ==
    \/ PrepareStep(w) \/ PrepareFails(w) \/ DeleteStep(w) \/ DeleteAborts(w)
    \/ Acknowledge(w) \/ RecordFailure(w) \/ FailureNotRecorded(w)
    \/ SweepObject(w) \/ SweepRow(w) \/ SweepGivesUp(w)

Next ==
    \/ \E w \in Workers :
           \/ WorkerStart(w) \/ EnqueueMissing(w) \/ WorkerCrash(w) \/ HeldStep(w)
           \/ \E j \in Jobs : Claim(w, j)
           \/ \E a \in Assets : SweepSelect(w, a)
    \/ \E t \in Tracks :
           AdminRetry(t) \/ Reprocess(t) \/ Republish(t) \/ RequestDeletion(t)
    \/ \E s \in Sessions :
           \/ \E T \in SUBSET Tracks : SeedRead(s, T)
           \/ Pin(s) \/ SeedDropped(s) \/ SessionEnds(s)

Spec == Init /\ [][Next]_vars

(***************************************************************************)
(* Compose restarts a stopped worker; a live one takes its steps; some     *)
(* pending job and some sweepable asset are taken in a round, between      *)
(* crashes and other rounds, and crashes do not always hit before the      *)
(* first round; storage does not refuse a removal for ever.                 *)
(***************************************************************************)
Fairness ==
    \A w \in Workers :
        /\ WF_vars(WorkerStart(w)) /\ SF_vars(EnqueueMissing(w))
        /\ WF_vars(HeldStep(w))
        /\ SF_vars(\E j \in Jobs : Claim(w, j))
        /\ SF_vars(\E a \in Assets : SweepSelect(w, a))
        /\ SF_vars(SweepObject(w)) /\ SF_vars(SweepRow(w))

FairSpec == Spec /\ Fairness

---------------------------------------------------------------------------
(* Safety *)

\* A track never has two current assets, whichever of two workers, of a backfill
\* and a publication, or of a backfill and its own repetition after a restart
\* finishes first: the readers of playback_sessions.go join on it.
OneCurrentAsset == \A t \in Tracks : Cardinality(Current(t)) <= 1

\* Whatever a ready track offers to the player is stored: its progressive file,
\* which backfills and their failures leave alone, and the object of its current
\* asset, unless the answer of the commit that published it was lost.
ReadyStored ==
    \A t \in Tracks : track[t] = "ready" =>
        t \in m4a /\ Current(t) \subseteq object \cup lost

\* Deletions, retirements and their cleanup keep the object of every asset that
\* an item of a session references, also when the item is inserted between the
\* cleanup's query and its DeleteObject.  The exceptions are the error paths that
\* "lost" records.
PinnedStored ==
    \A s \in Sessions : items[s] \subseteq object \cup lost

\* "active playback session lost its HLS object" (lifecycle_integration_test.go,
\* line 900) never happens: PinnedStored without exceptions.
PinnedNeverLost == \A s \in Sessions : items[s] \subseteq object

---------------------------------------------------------------------------
(* Liveness, of FairSpec.  A running row that no worker holds, after a failure *)
(* that could not be recorded, waits for the next start of a worker.           *)

Held(j)   == \E w \in Workers : wrk[w].job = j
Orphan(j) == status[j] = "running" /\ ~Held(j)

\* A preparation ends: in an asset, a terminal failure, or nothing left to do.
BackfillEnds ==
    \A j \in Jobs :
        status[j] = "pending" /\ kind[j] = "prepare_hls" ~> ~Active(j) \/ Orphan(j)

\* A deletion ends: the track is gone, or its error shows.
DeletionEnds ==
    \A t \in Tracks :
        track[t] = "deleting" ~>
            track[t] # "deleting" \/ \E j \in Jobs : jobOf[j] = t /\ Orphan(j)

\* Nothing is kept for ever: an asset that no track offers is removed, or a
\* session still plays it.
RetiredReclaimed ==
    \A a \in Assets :
        row[a] = "retired" \/ (row[a] = "current" /\ owner[a] = NoTrack) ~>
            row[a] = "deleted" \/ Referenced(a) \/ \E s \in Sessions : a \in seed[s]

===========================================================================
