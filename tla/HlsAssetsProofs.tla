-------------------------- MODULE HlsAssetsProofs --------------------------
(***************************************************************************)
(* Proofs about HlsAssets, for any number of tracks, assets, jobs,         *)
(* playback sessions and workers, any bound of the attempts, and commits   *)
(* whose answer is lost or not.                                            *)
(***************************************************************************)
EXTENDS HlsAssets, FiniteSetTheorems, TLAPS

---------------------------------------------------------------------------
(* The inductive invariant *)

\* The steps between which a worker holds a job, or an asset.
JobPC == {"load", "package", "install", "drop", "discard", "ack", "fail", "lock",
          "remove", "commit"}
DraftPC == {"install", "drop", "discard"}
SweepPC == {"sweep", "reap"}
LockPC == {"remove", "commit"}

\* A job that is offered has an attempt left, and every job row names a track.
JobGood(j) ==
    /\ status[j] \in {"free", "pending"} => attempts[j] < MaxAttempts
    /\ status[j] # "free" => jobOf[j] \in Tracks

\* A worker knows its job while it works on one, and its asset while it packages or
\* removes one.
HolderGood(w) ==
    /\ wrk[w].pc \in JobPC => wrk[w].job \in Jobs /\ status[wrk[w].job] # "free"
    /\ wrk[w].pc \in DraftPC \cup SweepPC => wrk[w].asset \in Assets

\* An id that no transaction has inserted is of no track; what a session references
\* keeps its row.
RowGood(a) ==
    /\ row[a] = "free" => owner[a] = NoTrack
    /\ Referenced(a) => row[a] \in {"current", "retired"}

\* Two current assets of one track are the same.
OneEach ==
    \A a, b \in Assets : row[a] = "current" /\ row[b] = "current" /\ owner[a] = owner[b]
                         /\ owner[a] \in Tracks => a = b

\* The track of an open deletion is deleting, and no other deletion is open for it.
DeletionGood(w) ==
    wrk[w].pc \in LockPC =>
        /\ track[jobOf[wrk[w].job]] = "deleting"
        /\ \A v \in Workers : wrk[v].pc \in LockPC /\ jobOf[wrk[v].job] = jobOf[wrk[w].job]
                              => v = w

\* The object that a backfill may still discard is of no row, but for a commit whose
\* answer was lost, and no other worker holds it.
DraftGood(w) ==
    LET a == wrk[w].asset IN
    /\ wrk[w].pc = "install" => a \in object
    /\ wrk[w].pc \in {"install", "discard"} => row[a] = "free"
    /\ wrk[w].pc = "drop" => row[a] = "free" \/ a \in lost
    /\ wrk[w].pc \in DraftPC /\ row[a] = "free" =>
           \A v \in Workers : wrk[v].asset = a => v = w

\* An asset that the cleanup has selected can not be referenced any more: an insert
\* that would do so has not read it, or finds no track.
Doomed(a) ==
    /\ ~Referenced(a)
    /\ \/ row[a] = "deleted"
       \/ row[a] # "free" /\ owner[a] = NoTrack
       \/ Aged(a)
SweepGood(w) == wrk[w].pc \in SweepPC => Doomed(wrk[w].asset)

\* The object of a row with a track is stored, unless an error path lost it, the
\* cleanup has taken it, or an open deletion will take the row with it.
Committing(t) == \E w \in Workers : At(w, "commit") /\ jobOf[wrk[w].job] = t
Stored(a) ==
    row[a] \in {"current", "retired"} /\ owner[a] \in Tracks =>
        \/ a \in object \cup lost
        \/ ~Referenced(a) /\ (Aged(a) \/ Committing(owner[a]))

\* A track that is ready, or will be, has its progressive file.
FileGood(t) == track[t] \in {"ready", "processing"} => t \in m4a

Holding ==
    /\ \A j \in Jobs : JobGood(j)
    /\ \A w \in Workers : HolderGood(w)
Deleting == \A w \in Workers : DeletionGood(w)
Drafting == \A w \in Workers : DraftGood(w)
Sweeping == \A w \in Workers : SweepGood(w)
Keeping ==
    /\ \A a \in Assets : Stored(a)
    /\ \A t \in Tracks : FileGood(t)

Inv == /\ TypeOK /\ Holding /\ (\A a \in Assets : RowGood(a)) /\ OneEach /\ Deleting
       /\ Drafting /\ Sweeping /\ Keeping /\ PinnedStored

---------------------------------------------------------------------------
(* What the helpers do *)

\* A fresh row for each track of T; the other rows stay as they are.
LEMMA Inserted ==
    ASSUME TypeOK, NEW T \in SUBSET Tracks, NEW k \in {"prepare_hls", "delete_track"},
           InsertRows(T, k)
    PROVE  /\ UNCHANGED attempts
           /\ kind' \in [Jobs -> {"prepare_hls", "delete_track"}]
           /\ jobOf' \in [Jobs -> Tracks \cup {NoTrack}]
           /\ status' \in [Jobs -> {"free", "pending", "running", "succeeded", "failed",
                                    "deleted"}]
           /\ \A j \in Jobs :
                 \/ status[j] = "free" /\ status'[j] = "pending" /\ jobOf'[j] \in T
                 \/ status'[j] = status[j] /\ jobOf'[j] = jobOf[j]
<1>1. PICK f \in [T -> Free] :
          LET new == {f[t] : t \in T} IN
          /\ kind' = [j \in Jobs |-> IF j \in new THEN k ELSE kind[j]]
          /\ jobOf' = [j \in Jobs |-> IF j \in new
                                      THEN CHOOSE t \in T : f[t] = j ELSE jobOf[j]]
          /\ status' = [j \in Jobs |-> IF j \in new THEN "pending" ELSE status[j]]
          /\ UNCHANGED attempts
  BY DEF InsertRows
<1> DEFINE new == {f[t] : t \in T}
<1>2. \A j \in new : j \in Free /\ (CHOOSE t \in T : f[t] = j) \in T
  OBVIOUS
<1> QED
  BY <1>1, <1>2 DEF TypeOK, Free

\* The states of a worker that goes on, or rests.
LEMMA Moved ==
    ASSUME TypeOK, NEW w \in Workers
    PROVE  /\ \A pc : Goto(w, pc) =>
                  \A v \in Workers : /\ wrk'[v].pc = IF v = w THEN pc ELSE wrk[v].pc
                                     /\ wrk'[v].job = wrk[v].job
                                     /\ wrk'[v].asset = wrk[v].asset
           /\ Rest(w) => \A v \in Workers : wrk'[v] = IF v = w THEN Idle ELSE wrk[v]
BY DEF TypeOK, Goto, Rest

\* What PreparePackage does.
LEMMA Packaged ==
    ASSUME TypeOK, NEW w \in Workers, PreparePackage(w)
    PROVE  /\ wrk[w].pc = "package"
           /\ \E a \in Fresh :
                 /\ object' = object \cup {a} /\ wrk'[w].asset = a
                 /\ a \in Assets /\ row[a] = "free" /\ a \notin object
                 /\ \A v \in Workers : wrk[v].asset # a
           /\ wrk'[w].pc = "install" /\ wrk'[w].job = wrk[w].job
           /\ \A v \in Workers : v # w => wrk'[v] = wrk[v]
           /\ wrk' \in [Workers -> [pc: WorkerPC, job: Jobs \cup {NoJob},
                                    asset: Assets \cup {NoAsset}]]
           /\ UNCHANGED <<track, row, owner, m4a, lost, kind, jobOf, status, attempts,
                          items, seed>>
<1> DEFINE Record == [pc: WorkerPC, job: Jobs \cup {NoJob}, asset: Assets \cup {NoAsset}]
<1>1. PICK a \in Fresh :
          /\ object' = object \cup {a}
          /\ wrk' = [wrk EXCEPT ![w] = [@ EXCEPT !.pc = "install", !.asset = a]]
  BY DEF PreparePackage
<1>2. PICK q : q = [wrk[w] EXCEPT !.pc = "install", !.asset = a]
  OBVIOUS
<1>3. wrk' = [wrk EXCEPT ![w] = q]
  BY <1>1, <1>2
<1>4. "install" \in WorkerPC /\ a \in Assets
  BY DEF WorkerPC, Fresh
<1>5. wrk[w] \in Record /\ wrk \in [Workers -> Record]
  BY DEF TypeOK
<1>6. q.pc = "install" /\ q.job = wrk[w].job /\ q.asset = a
  BY <1>2, <1>5
<1>7. q \in Record
  BY <1>2, <1>4, <1>5
<1>8. wrk'[w] = q /\ \A v \in Workers : v # w => wrk'[v] = wrk[v]
  BY <1>3, <1>5
<1>9. wrk' \in [Workers -> Record]
  BY <1>3, <1>5, <1>7
<1>10. row[a] = "free" /\ a \notin object /\ \A v \in Workers : wrk[v].asset # a
  BY DEF Fresh
<1>11. /\ wrk[w].pc = "package"
      /\ UNCHANGED <<track, row, owner, m4a, lost, kind, jobOf, status, attempts,
                     items, seed>>
  BY DEF PreparePackage, At, rowVars, jobVars, sesVars
<1> QED
  BY <1>1, <1>4, <1>6, <1>8, <1>9, <1>10, <1>11

\* What PrepareDrop does.
LEMMA Dropped ==
    ASSUME TypeOK, NEW w \in Workers, PrepareDrop(w)
    PROVE  /\ wrk[w].pc \in {"drop", "discard"}
           /\ object' = object \ {wrk[w].asset}
           /\ wrk'[w].pc \in {"fail", "ack"}
           /\ wrk'[w].job = wrk[w].job /\ wrk'[w].asset = NoAsset
           /\ \A v \in Workers : v # w => wrk'[v] = wrk[v]
           /\ wrk' \in [Workers -> [pc: WorkerPC, job: Jobs \cup {NoJob},
                                    asset: Assets \cup {NoAsset}]]
           /\ UNCHANGED <<track, row, owner, m4a, lost, kind, jobOf, status, attempts,
                          items, seed>>
<1> DEFINE Record == [pc: WorkerPC, job: Jobs \cup {NoJob}, asset: Assets \cup {NoAsset}]
<1>1. PICK pc \in {"fail", "ack"} :
          wrk' = [wrk EXCEPT ![w] = [@ EXCEPT !.pc = pc, !.asset = NoAsset]]
  BY DEF PrepareDrop
<1>2. PICK q : q = [wrk[w] EXCEPT !.pc = pc, !.asset = NoAsset]
  OBVIOUS
<1>3. wrk' = [wrk EXCEPT ![w] = q]
  BY <1>1, <1>2
<1>4. pc \in {"fail", "ack"} /\ pc \in WorkerPC
  BY DEF WorkerPC
<1>5. wrk[w] \in Record /\ wrk \in [Workers -> Record]
  BY DEF TypeOK
<1>6. q.pc = pc /\ q.job = wrk[w].job /\ q.asset = NoAsset
  BY <1>2, <1>5
<1>7. q \in Record
  BY <1>2, <1>4, <1>5
<1>8. wrk'[w] = q /\ \A v \in Workers : v # w => wrk'[v] = wrk[v]
  BY <1>3, <1>5
<1>9. wrk' \in [Workers -> Record]
  BY <1>3, <1>5, <1>7
<1>10. /\ wrk[w].pc \in {"drop", "discard"} /\ object' = object \ {wrk[w].asset}
      /\ UNCHANGED <<track, row, owner, m4a, lost, kind, jobOf, status, attempts,
                     items, seed>>
  BY DEF PrepareDrop, rowVars, jobVars, sesVars
<1> QED
  BY <1>4, <1>6, <1>8, <1>9, <1>10

\* What SweepSelect does.
LEMMA Selected ==
    ASSUME TypeOK, NEW w \in Workers, NEW a \in Assets, SweepSelect(w, a)
    PROVE  /\ wrk[w].pc = "idle" /\ Sweepable(a)
           /\ wrk'[w].pc = "sweep" /\ wrk'[w].job = wrk[w].job /\ wrk'[w].asset = a
           /\ \A v \in Workers : v # w => wrk'[v] = wrk[v]
           /\ wrk' \in [Workers -> [pc: WorkerPC, job: Jobs \cup {NoJob},
                                    asset: Assets \cup {NoAsset}]]
           /\ UNCHANGED <<track, row, owner, m4a, object, lost, kind, jobOf, status,
                          attempts, items, seed>>
<1> DEFINE Record == [pc: WorkerPC, job: Jobs \cup {NoJob}, asset: Assets \cup {NoAsset}]
<1>1. wrk' = [wrk EXCEPT ![w] = [@ EXCEPT !.pc = "sweep", !.asset = a]]
  BY DEF SweepSelect
<1>2. PICK q : q = [wrk[w] EXCEPT !.pc = "sweep", !.asset = a]
  OBVIOUS
<1>3. wrk' = [wrk EXCEPT ![w] = q]
  BY <1>1, <1>2
<1>4. "sweep" \in WorkerPC
  BY DEF WorkerPC
<1>5. wrk[w] \in Record /\ wrk \in [Workers -> Record]
  BY DEF TypeOK
<1>6. q.pc = "sweep" /\ q.job = wrk[w].job /\ q.asset = a
  BY <1>2, <1>5
<1>7. q \in Record
  BY <1>2, <1>4, <1>5
<1>8. wrk'[w] = q /\ \A v \in Workers : v # w => wrk'[v] = wrk[v]
  BY <1>3, <1>5
<1>9. wrk' \in [Workers -> Record]
  BY <1>3, <1>5, <1>7
<1>10. /\ wrk[w].pc = "idle" /\ Sweepable(a)
      /\ UNCHANGED <<track, row, owner, m4a, object, lost, kind, jobOf, status,
                     attempts, items, seed>>
  BY DEF SweepSelect, At, rowVars, jobVars, sesVars
<1> QED
  BY <1>6, <1>8, <1>9, <1>10

\* A worker stays typed.
LEMMA WorkerTypes ==
    ASSUME TypeOK, NEW w \in Workers, NEW pc \in WorkerPC,
           \/ \E j \in Jobs : wrk' = [wrk EXCEPT ![w] = [pc |-> pc, job |-> j, asset |-> NoAsset]]
           \/ wrk' = [wrk EXCEPT ![w] = Down]
           \/ Goto(w, pc) \/ Rest(w)
    PROVE  wrk' \in [Workers -> [pc: WorkerPC, job: Jobs \cup {NoJob},
                                asset: Assets \cup {NoAsset}]]
<1>1. /\ wrk \in [Workers -> [pc: WorkerPC, job: Jobs \cup {NoJob},
                              asset: Assets \cup {NoAsset}]]
      /\ Idle \in [pc: WorkerPC, job: Jobs \cup {NoJob}, asset: Assets \cup {NoAsset}]
      /\ Down \in [pc: WorkerPC, job: Jobs \cup {NoJob}, asset: Assets \cup {NoAsset}]
  BY DEF TypeOK, Idle, Down, WorkerPC
<1> QED
  BY <1>1 DEF Goto, Rest

\* Every step keeps the types.
LEMMA TypeStep ==
    ASSUME HlsConstants, TypeOK, Holding, Next
    PROVE  TypeOK'
<1>1. ASSUME NEW w \in Workers, WorkerStart(w) PROVE TypeOK'
  <2>1. track' \in [Tracks -> {"ready", "processing", "error", "deleting", "gone"}]
    BY <1>1 DEF WorkerStart, TypeOK
  <2>2. status' \in [Jobs -> {"free", "pending", "running", "succeeded", "failed",
                              "deleted"}]
    BY <1>1 DEF WorkerStart, TypeOK
  <2>3. wrk' \in [Workers -> [pc: WorkerPC, job: Jobs \cup {NoJob},
                              asset: Assets \cup {NoAsset}]]
    BY SMTT(20), <1>1 DEF WorkerStart, Goto, TypeOK, WorkerPC
  <2> QED
    BY <1>1, <2>1, <2>2, <2>3 DEF WorkerStart, sesVars, TypeOK
<1>2. ASSUME NEW w \in Workers, EnqueueMissing(w) PROVE TypeOK'
  <2>1. PICK T \in SUBSET Tracks : InsertRows(T, "prepare_hls")
    BY <1>2 DEF EnqueueMissing, Missing
  <2> QED
    BY <1>2, <2>1, Inserted DEF TypeOK, EnqueueMissing, Rest, Idle, WorkerPC, rowVars, sesVars
<1>3. ASSUME NEW w \in Workers, WorkerCrash(w) PROVE TypeOK'
  <2>1. lost' \subseteq Assets
    BY <1>3 DEF WorkerCrash, TypeOK, Unfinished, Victims
  <2>2. wrk' \in [Workers -> [pc: WorkerPC, job: Jobs \cup {NoJob},
                                asset: Assets \cup {NoAsset}]]
    BY <1>3, <2>1, WorkerTypes DEF WorkerCrash, WorkerPC
  <2> QED
    BY <1>3, <2>1, <2>2 DEF WorkerCrash, TypeOK, rowVars, jobVars, sesVars
<1>4. ASSUME NEW w \in Workers, PrepareLoad(w) PROVE TypeOK'
  BY <1>4 DEF PrepareLoad, At, Goto, rowVars, jobVars, sesVars, TypeOK, WorkerPC
<1>5. ASSUME NEW w \in Workers, PreparePackage(w) PROVE TypeOK'
  <2>1. object' \subseteq Assets
    BY <1>5, Packaged DEF TypeOK
  <2> QED
    BY <1>5, <2>1, Packaged DEF TypeOK
<1>6. ASSUME NEW w \in Workers, PrepareInstall(w) PROVE TypeOK'
  <2>1. wrk[w].asset \in Assets /\ jobOf[wrk[w].job] \in Tracks
    BY <1>6 DEF PrepareInstall, At, Holding, HolderGood, DraftPC, JobPC, JobGood
  <2>2. row' \in [Assets -> {"free", "current", "retired", "deleted"}]
    BY <1>6 DEF PrepareInstall, TypeOK
  <2>3. owner' \in [Assets -> Tracks \cup {NoTrack}] /\ lost' \subseteq Assets
    BY <1>6, <2>1 DEF PrepareInstall, TypeOK
  <2>4. wrk' \in [Workers -> [pc: WorkerPC, job: Jobs \cup {NoJob},
                                asset: Assets \cup {NoAsset}]]
    BY <1>6, <2>1, <2>2, <2>3, WorkerTypes DEF PrepareInstall, WorkerPC
  <2> QED
    BY <1>6, <2>1, <2>2, <2>3, <2>4 DEF PrepareInstall, TypeOK, jobVars, sesVars
<1>7. ASSUME NEW w \in Workers, PrepareRefused(w) PROVE TypeOK'
  BY <1>7 DEF PrepareRefused, At, Goto, rowVars, jobVars, sesVars, TypeOK, WorkerPC
<1>8. ASSUME NEW w \in Workers, PrepareDrop(w) PROVE TypeOK'
  <2>1. object' \subseteq Assets
    BY <1>8, Dropped DEF TypeOK
  <2> QED
    BY <1>8, <2>1, Dropped DEF TypeOK
<1>9. ASSUME NEW w \in Workers, PrepareFails(w) PROVE TypeOK'
  BY <1>9 DEF PrepareFails, At, Goto, rowVars, jobVars, sesVars, TypeOK, WorkerPC
<1>10. ASSUME NEW w \in Workers, DeleteLock(w) PROVE TypeOK'
  BY <1>10 DEF DeleteLock, At, Goto, rowVars, jobVars, sesVars, TypeOK, WorkerPC
<1>11. ASSUME NEW w \in Workers, DeleteObjects(w) PROVE TypeOK'
  <2>1. object' \subseteq Assets /\ lost' \subseteq Assets /\ m4a' \subseteq Tracks
    BY <1>11 DEF DeleteObjects, TypeOK, Victims
  <2>2. wrk' \in [Workers -> [pc: WorkerPC, job: Jobs \cup {NoJob},
                                asset: Assets \cup {NoAsset}]]
    BY <1>11, <2>1, WorkerTypes DEF DeleteObjects, WorkerPC
  <2> QED
    BY <1>11, <2>1, <2>2 DEF DeleteObjects, TypeOK, rowVars, jobVars, sesVars
<1>12. ASSUME NEW w \in Workers, DeleteCommit(w) PROVE TypeOK'
  BY <1>12 DEF DeleteCommit, At, Rest, sesVars, Idle, TypeOK, WorkerPC
<1>13. ASSUME NEW w \in Workers, DeleteAborts(w) PROVE TypeOK'
  <2>1. lost' \subseteq Assets
    BY <1>13 DEF DeleteAborts, TypeOK, Unfinished, Victims
  <2>2. wrk' \in [Workers -> [pc: WorkerPC, job: Jobs \cup {NoJob},
                                asset: Assets \cup {NoAsset}]]
    BY <1>13, <2>1, WorkerTypes DEF DeleteAborts, WorkerPC
  <2> QED
    BY <1>13, <2>1, <2>2 DEF DeleteAborts, TypeOK, rowVars, jobVars, sesVars
<1>14. ASSUME NEW w \in Workers, Acknowledge(w) PROVE TypeOK'
  BY <1>14 DEF Acknowledge, At, Rest, rowVars, sesVars, Idle, TypeOK, WorkerPC
<1>15. ASSUME NEW w \in Workers, RecordFailure(w) PROVE TypeOK'
  BY <1>15 DEF RecordFailure, At, Rest, sesVars, Idle, TypeOK, WorkerPC
<1>16. ASSUME NEW w \in Workers, FailureNotRecorded(w) PROVE TypeOK'
  BY <1>16
     DEF FailureNotRecorded, At, Rest, rowVars, jobVars, sesVars, Idle, TypeOK, WorkerPC
<1>17. ASSUME NEW w \in Workers, SweepObject(w) PROVE TypeOK'
  BY <1>17 DEF SweepObject, At, Goto, rowVars, jobVars, sesVars, TypeOK, WorkerPC
<1>18. ASSUME NEW w \in Workers, SweepRow(w) PROVE TypeOK'
  BY <1>18 DEF SweepRow, At, Rest, jobVars, sesVars, Idle, TypeOK, WorkerPC
<1>19. ASSUME NEW w \in Workers, SweepGivesUp(w) PROVE TypeOK'
  BY <1>19 DEF SweepGivesUp, Rest, rowVars, jobVars, sesVars, Idle, TypeOK, WorkerPC
<1>20. ASSUME NEW w \in Workers, NEW j \in Jobs, Claim(w, j) PROVE TypeOK'
  <2>1. PICK pc \in WorkerPC :
            wrk' = [wrk EXCEPT ![w] = [pc |-> pc, job |-> j, asset |-> NoAsset]]
    BY <1>20 DEF Claim, WorkerPC
  <2>2. wrk' \in [Workers -> [pc: WorkerPC, job: Jobs \cup {NoJob},
                                asset: Assets \cup {NoAsset}]]
    BY <2>1, WorkerTypes
  <2>3. status' \in [Jobs -> {"free", "pending", "running", "succeeded", "failed", "deleted"}]
    BY <1>20 DEF Claim, TypeOK
  <2>4. attempts[j] \in Nat /\ attempts[j] < MaxAttempts
    BY <1>20 DEF Claim, Holding, JobGood, TypeOK
  <2>5. attempts' \in [Jobs -> 0..MaxAttempts]
    BY <1>20, <2>4, HlsConstants DEF Claim, TypeOK
  <2> QED
    BY <1>20, <2>2, <2>3, <2>5 DEF Claim, TypeOK, rowVars, sesVars
<1>21. ASSUME NEW w \in Workers, NEW a \in Assets, SweepSelect(w, a) PROVE TypeOK'
  <2>1. object' \subseteq Assets
    BY <1>21, Selected DEF TypeOK
  <2> QED
    BY <1>21, <2>1, Selected DEF TypeOK
<1>22. ASSUME NEW t \in Tracks, AdminRetry(t) PROVE TypeOK'
  <2>1. InsertRows({t}, "prepare_hls")
    BY <1>22 DEF AdminRetry
  <2> QED
    BY <1>22, <2>1, Inserted DEF TypeOK, AdminRetry, rowVars, sesVars
<1>23. ASSUME NEW t \in Tracks, Reprocess(t) PROVE TypeOK'
  BY <1>23 DEF Reprocess, jobVars, sesVars, TypeOK, WorkerPC
<1>24. ASSUME NEW t \in Tracks, Republish(t) PROVE TypeOK'
  <2>1. PICK a \in Fresh :
            /\ row' = [b \in Assets |-> IF b = a THEN "current"
                                        ELSE IF b \in Current(t) THEN "retired" ELSE row[b]]
            /\ owner' = [owner EXCEPT ![a] = t] /\ object' = object \cup {a}
    BY <1>24 DEF Republish
  <2>2. a \in Assets
    BY DEF Fresh
  <2>3. row' \in [Assets -> {"free", "current", "retired", "deleted"}]
    BY <2>1 DEF TypeOK
  <2>4. /\ owner' \in [Assets -> Tracks \cup {NoTrack}] /\ object' \subseteq Assets
        /\ m4a' \subseteq Tracks
    BY <1>24, <2>1, <2>2 DEF Republish, TypeOK
  <2> QED
    BY <1>24, <2>3, <2>4 DEF Republish, TypeOK, jobVars, sesVars
<1>25. ASSUME NEW t \in Tracks, RequestDeletion(t) PROVE TypeOK'
  <2>1. InsertRows({t}, "delete_track")
    BY <1>25 DEF RequestDeletion
  <2> QED
    BY <1>25, <2>1, Inserted DEF TypeOK, RequestDeletion, sesVars
<1>26. ASSUME NEW s \in Sessions, NEW T \in SUBSET Tracks, SeedRead(s, T) PROVE TypeOK'
  <2>1. seed' \in [Sessions -> SUBSET Assets]
    BY <1>26 DEF SeedRead, Current, TypeOK
  <2> QED
    BY <1>26, <2>1 DEF SeedRead, TypeOK, rowVars, jobVars
<1>27. ASSUME NEW s \in Sessions, Pin(s) PROVE TypeOK'
  BY <1>27 DEF Pin, rowVars, jobVars, TypeOK, WorkerPC
<1>28. ASSUME NEW s \in Sessions, SeedDropped(s) PROVE TypeOK'
  BY <1>28 DEF SeedDropped, rowVars, jobVars, TypeOK, WorkerPC
<1>29. ASSUME NEW s \in Sessions, SessionEnds(s) PROVE TypeOK'
  BY <1>29 DEF SessionEnds, rowVars, jobVars, TypeOK, WorkerPC
<1> QED
  BY <1>1, <1>2, <1>3, <1>4, <1>5, <1>6, <1>7, <1>8, <1>9, <1>10, <1>11, <1>12, <1>13,
     <1>14, <1>15, <1>16, <1>17, <1>18, <1>19, <1>20, <1>21, <1>22, <1>23, <1>24, <1>25,
     <1>26, <1>27, <1>28, <1>29
     DEF Next, HeldStep, PrepareStep, DeleteStep

---------------------------------------------------------------------------
(* Jobs, rows and current assets *)

\* A job that is offered has an attempt left.
LEMMA JobStep ==
    ASSUME HlsConstants, TypeOK, Holding, NEW i \in Jobs, Next
    PROVE  JobGood(i)'
<1>1. ASSUME NEW w \in Workers, WorkerStart(w) PROVE JobGood(i)'
  BY <1>1
     DEF WorkerStart, At, Goto, sesVars, TypeOK, Holding, JobGood, HolderGood, JobPC
<1>2. ASSUME NEW w \in Workers, EnqueueMissing(w) PROVE JobGood(i)'
  <2>1. \E T \in SUBSET Tracks : InsertRows(T, "prepare_hls")
    BY <1>2 DEF EnqueueMissing, Missing
  <2> QED
    BY <1>2, <2>1, Inserted DEF Holding, JobGood, TypeOK
<1>3. ASSUME NEW w \in Workers, WorkerCrash(w) PROVE JobGood(i)'
  BY <1>3
     DEF WorkerCrash, At, rowVars, jobVars, sesVars, Idle, Down, TypeOK, Holding,
        JobGood, HolderGood, JobPC
<1>4. ASSUME NEW w \in Workers, PrepareLoad(w) PROVE JobGood(i)'
  BY <1>4
     DEF PrepareLoad, At, Goto, rowVars, jobVars, sesVars, TypeOK, Holding, JobGood,
        HolderGood, JobPC
<1>5. ASSUME NEW w \in Workers, PreparePackage(w) PROVE JobGood(i)'
  BY <1>5, Packaged DEF TypeOK, Holding, JobGood, HolderGood, JobPC
<1>6. ASSUME NEW w \in Workers, PrepareInstall(w) PROVE JobGood(i)'
  BY <1>6
     DEF PrepareInstall, At, Goto, jobVars, sesVars, TypeOK, Holding, JobGood,
        HolderGood, JobPC
<1>7. ASSUME NEW w \in Workers, PrepareRefused(w) PROVE JobGood(i)'
  BY <1>7
     DEF PrepareRefused, At, Goto, rowVars, jobVars, sesVars, TypeOK, Holding, JobGood,
        HolderGood, JobPC
<1>8. ASSUME NEW w \in Workers, PrepareDrop(w) PROVE JobGood(i)'
  BY <1>8, Dropped DEF TypeOK, Holding, JobGood, HolderGood, JobPC
<1>9. ASSUME NEW w \in Workers, PrepareFails(w) PROVE JobGood(i)'
  BY <1>9
     DEF PrepareFails, At, Goto, rowVars, jobVars, sesVars, TypeOK, Holding, JobGood,
        HolderGood, JobPC
<1>10. ASSUME NEW w \in Workers, DeleteLock(w) PROVE JobGood(i)'
  BY <1>10
     DEF DeleteLock, At, Goto, rowVars, jobVars, sesVars, TypeOK, Holding, JobGood,
        HolderGood, JobPC
<1>11. ASSUME NEW w \in Workers, DeleteObjects(w) PROVE JobGood(i)'
  BY <1>11
     DEF DeleteObjects, At, Goto, rowVars, jobVars, sesVars, TypeOK, Holding, JobGood,
        HolderGood, JobPC
<1>12. ASSUME NEW w \in Workers, DeleteCommit(w) PROVE JobGood(i)'
  BY <1>12
     DEF DeleteCommit, At, Rest, sesVars, Idle, TypeOK, Holding, JobGood, HolderGood,
        JobPC
<1>13. ASSUME NEW w \in Workers, DeleteAborts(w) PROVE JobGood(i)'
  BY <1>13
     DEF DeleteAborts, Goto, rowVars, jobVars, sesVars, TypeOK, Holding, JobGood,
        HolderGood, JobPC
<1>14. ASSUME NEW w \in Workers, Acknowledge(w) PROVE JobGood(i)'
  BY <1>14
     DEF Acknowledge, At, Rest, rowVars, sesVars, Idle, TypeOK, Holding, JobGood,
        HolderGood, JobPC
<1>15. ASSUME NEW w \in Workers, RecordFailure(w) PROVE JobGood(i)'
  BY <1>15
     DEF RecordFailure, At, Rest, sesVars, Idle, TypeOK, Holding, JobGood, HolderGood,
        JobPC
<1>16. ASSUME NEW w \in Workers, FailureNotRecorded(w) PROVE JobGood(i)'
  BY <1>16
     DEF FailureNotRecorded, At, Rest, rowVars, jobVars, sesVars, Idle, TypeOK, Holding,
        JobGood, HolderGood, JobPC
<1>17. ASSUME NEW w \in Workers, SweepObject(w) PROVE JobGood(i)'
  BY <1>17
     DEF SweepObject, At, Goto, rowVars, jobVars, sesVars, TypeOK, Holding, JobGood,
        HolderGood, JobPC
<1>18. ASSUME NEW w \in Workers, SweepRow(w) PROVE JobGood(i)'
  BY <1>18
     DEF SweepRow, At, Rest, jobVars, sesVars, Idle, TypeOK, Holding, JobGood,
        HolderGood, JobPC
<1>19. ASSUME NEW w \in Workers, SweepGivesUp(w) PROVE JobGood(i)'
  BY <1>19
     DEF SweepGivesUp, Rest, rowVars, jobVars, sesVars, Idle, TypeOK, Holding, JobGood,
        HolderGood, JobPC
<1>20. ASSUME NEW w \in Workers, NEW j \in Jobs, Claim(w, j) PROVE JobGood(i)'
  BY <1>20 DEF Claim, At, rowVars, sesVars, TypeOK, Holding, JobGood, HolderGood, JobPC
<1>21. ASSUME NEW w \in Workers, NEW a \in Assets, SweepSelect(w, a) PROVE JobGood(i)'
  BY <1>21, Selected DEF TypeOK, Holding, JobGood, HolderGood, JobPC
<1>22. ASSUME NEW t \in Tracks, AdminRetry(t) PROVE JobGood(i)'
  <2>1. InsertRows({t}, "prepare_hls")
    BY <1>22 DEF AdminRetry
  <2> QED
    BY <1>22, <2>1, Inserted DEF Holding, JobGood, TypeOK
<1>23. ASSUME NEW t \in Tracks, Reprocess(t) PROVE JobGood(i)'
  BY <1>23 DEF Reprocess, jobVars, sesVars, TypeOK, Holding, JobGood, HolderGood, JobPC
<1>24. ASSUME NEW t \in Tracks, Republish(t) PROVE JobGood(i)'
  BY <1>24 DEF Republish, jobVars, sesVars, TypeOK, Holding, JobGood, HolderGood, JobPC
<1>25. ASSUME NEW t \in Tracks, RequestDeletion(t) PROVE JobGood(i)'
  <2>1. InsertRows({t}, "delete_track")
    BY <1>25 DEF RequestDeletion
  <2> QED
    BY <1>25, <2>1, Inserted DEF Holding, JobGood, TypeOK
<1>26. ASSUME NEW s \in Sessions, NEW T \in SUBSET Tracks, SeedRead(s, T) PROVE JobGood(i)'
  BY <1>26 DEF SeedRead, rowVars, jobVars, TypeOK, Holding, JobGood, HolderGood, JobPC
<1>27. ASSUME NEW s \in Sessions, Pin(s) PROVE JobGood(i)'
  BY <1>27 DEF Pin, rowVars, jobVars, TypeOK, Holding, JobGood, HolderGood, JobPC
<1>28. ASSUME NEW s \in Sessions, SeedDropped(s) PROVE JobGood(i)'
  BY <1>28
     DEF SeedDropped, rowVars, jobVars, TypeOK, Holding, JobGood, HolderGood, JobPC
<1>29. ASSUME NEW s \in Sessions, SessionEnds(s) PROVE JobGood(i)'
  BY <1>29
     DEF SessionEnds, rowVars, jobVars, TypeOK, Holding, JobGood, HolderGood, JobPC
<1> QED
  BY <1>1, <1>2, <1>3, <1>4, <1>5, <1>6, <1>7, <1>8, <1>9, <1>10, <1>11, <1>12, <1>13,
     <1>14, <1>15, <1>16, <1>17, <1>18, <1>19, <1>20, <1>21, <1>22, <1>23, <1>24, <1>25,
     <1>26, <1>27, <1>28, <1>29
     DEF Next, HeldStep, PrepareStep, DeleteStep

\* A worker knows its job and its asset.
LEMMA HolderStep ==
    ASSUME HlsConstants, TypeOK, Holding, NEW v \in Workers, Next
    PROVE  HolderGood(v)'
<1>1. ASSUME NEW w \in Workers, WorkerStart(w) PROVE HolderGood(v)'
  BY <1>1, Moved
     DEF WorkerStart, At, sesVars, TypeOK, Holding, HolderGood, JobPC, DraftPC, SweepPC
<1>2. ASSUME NEW w \in Workers, EnqueueMissing(w) PROVE HolderGood(v)'
  <2>1. \E T \in SUBSET Tracks : InsertRows(T, "prepare_hls")
    BY <1>2 DEF EnqueueMissing, Missing
  <2> QED
    BY <1>2, <2>1, Inserted DEF Holding, HolderGood, JobPC, DraftPC, SweepPC, TypeOK, Rest, Idle, EnqueueMissing
<1>3. ASSUME NEW w \in Workers, WorkerCrash(w) PROVE HolderGood(v)'
  <2>1. wrk'[v] = IF v = w THEN Down ELSE wrk[v]
    BY <1>3 DEF WorkerCrash, TypeOK
  <2>2. Down.pc = "down"
    BY DEF Down, Idle
  <2> QED
    BY <1>3, <2>1, <2>2 DEF WorkerCrash, jobVars, Holding, HolderGood, JobPC, DraftPC, SweepPC
<1>4. ASSUME NEW w \in Workers, PrepareLoad(w) PROVE HolderGood(v)'
  BY <1>4, Moved
     DEF PrepareLoad, At, rowVars, jobVars, sesVars, TypeOK, Holding, HolderGood, JobPC,
        DraftPC, SweepPC
<1>5. ASSUME NEW w \in Workers, PreparePackage(w) PROVE HolderGood(v)'
  BY <1>5, Packaged DEF TypeOK, Holding, HolderGood, JobPC, DraftPC, SweepPC
<1>6. ASSUME NEW w \in Workers, PrepareInstall(w) PROVE HolderGood(v)'
  BY <1>6, Moved
     DEF PrepareInstall, At, jobVars, sesVars, TypeOK, Holding, HolderGood, JobPC,
        DraftPC, SweepPC
<1>7. ASSUME NEW w \in Workers, PrepareRefused(w) PROVE HolderGood(v)'
  BY <1>7, Moved
     DEF PrepareRefused, At, rowVars, jobVars, sesVars, TypeOK, Holding, HolderGood,
        JobPC, DraftPC, SweepPC
<1>8. ASSUME NEW w \in Workers, PrepareDrop(w) PROVE HolderGood(v)'
  BY <1>8, Dropped DEF TypeOK, Holding, HolderGood, JobPC, DraftPC, SweepPC
<1>9. ASSUME NEW w \in Workers, PrepareFails(w) PROVE HolderGood(v)'
  BY <1>9, Moved
     DEF PrepareFails, At, rowVars, jobVars, sesVars, TypeOK, Holding, HolderGood,
        JobPC, DraftPC, SweepPC
<1>10. ASSUME NEW w \in Workers, DeleteLock(w) PROVE HolderGood(v)'
  BY <1>10, Moved
     DEF DeleteLock, At, rowVars, jobVars, sesVars, TypeOK, Holding, HolderGood, JobPC,
        DraftPC, SweepPC
<1>11. ASSUME NEW w \in Workers, DeleteObjects(w) PROVE HolderGood(v)'
  BY <1>11, Moved
     DEF DeleteObjects, At, rowVars, jobVars, sesVars, TypeOK, Holding, HolderGood,
        JobPC, DraftPC, SweepPC
<1>12. ASSUME NEW w \in Workers, DeleteCommit(w) PROVE HolderGood(v)'
  BY <1>12, Moved
     DEF DeleteCommit, At, sesVars, Idle, TypeOK, Holding, HolderGood, JobPC, DraftPC,
        SweepPC
<1>13. ASSUME NEW w \in Workers, DeleteAborts(w) PROVE HolderGood(v)'
  BY <1>13, Moved
     DEF DeleteAborts, rowVars, jobVars, sesVars, TypeOK, Holding, HolderGood, JobPC,
        DraftPC, SweepPC
<1>14. ASSUME NEW w \in Workers, Acknowledge(w) PROVE HolderGood(v)'
  BY <1>14, Moved
     DEF Acknowledge, At, rowVars, sesVars, Idle, TypeOK, Holding, HolderGood, JobPC,
        DraftPC, SweepPC
<1>15. ASSUME NEW w \in Workers, RecordFailure(w) PROVE HolderGood(v)'
  BY <1>15, Moved
     DEF RecordFailure, At, sesVars, Idle, TypeOK, Holding, HolderGood, JobPC, DraftPC,
        SweepPC
<1>16. ASSUME NEW w \in Workers, FailureNotRecorded(w) PROVE HolderGood(v)'
  BY <1>16, Moved
     DEF FailureNotRecorded, At, rowVars, jobVars, sesVars, Idle, TypeOK, Holding,
        HolderGood, JobPC, DraftPC, SweepPC
<1>17. ASSUME NEW w \in Workers, SweepObject(w) PROVE HolderGood(v)'
  BY <1>17, Moved
     DEF SweepObject, At, rowVars, jobVars, sesVars, TypeOK, Holding, HolderGood, JobPC,
        DraftPC, SweepPC
<1>18. ASSUME NEW w \in Workers, SweepRow(w) PROVE HolderGood(v)'
  BY <1>18, Moved
     DEF SweepRow, At, jobVars, sesVars, Idle, TypeOK, Holding, HolderGood, JobPC,
        DraftPC, SweepPC
<1>19. ASSUME NEW w \in Workers, SweepGivesUp(w) PROVE HolderGood(v)'
  BY <1>19, Moved
     DEF SweepGivesUp, rowVars, jobVars, sesVars, Idle, TypeOK, Holding, HolderGood,
        JobPC, DraftPC, SweepPC
<1>20. ASSUME NEW w \in Workers, NEW j \in Jobs, Claim(w, j) PROVE HolderGood(v)'
  <2>1. PICK pc \in {"load", "lock"} :
            wrk' = [wrk EXCEPT ![w] = [pc |-> pc, job |-> j, asset |-> NoAsset]]
    BY <1>20 DEF Claim
  <2>2. wrk'[v] = IF v = w THEN [pc |-> pc, job |-> j, asset |-> NoAsset] ELSE wrk[v]
    BY <2>1 DEF TypeOK
  <2>3. status' = [status EXCEPT ![j] = "running"] /\ jobOf' = jobOf
    BY <1>20 DEF Claim
  <2> QED
    BY <2>2, <2>3 DEF TypeOK, Holding, HolderGood, JobPC, DraftPC, SweepPC
<1>21. ASSUME NEW w \in Workers, NEW a \in Assets, SweepSelect(w, a) PROVE HolderGood(v)'
  BY <1>21, Selected DEF TypeOK, Holding, HolderGood, JobPC, DraftPC, SweepPC
<1>22. ASSUME NEW t \in Tracks, AdminRetry(t) PROVE HolderGood(v)'
  <2>1. InsertRows({t}, "prepare_hls")
    BY <1>22 DEF AdminRetry
  <2> QED
    BY <1>22, <2>1, Inserted DEF Holding, HolderGood, JobPC, DraftPC, SweepPC, TypeOK, Rest, Idle, AdminRetry
<1>23. ASSUME NEW t \in Tracks, Reprocess(t) PROVE HolderGood(v)'
  BY <1>23, Moved
     DEF Reprocess, jobVars, sesVars, TypeOK, Holding, HolderGood, JobPC, DraftPC,
        SweepPC
<1>24. ASSUME NEW t \in Tracks, Republish(t) PROVE HolderGood(v)'
  BY <1>24, Moved
     DEF Republish, jobVars, sesVars, TypeOK, Holding, HolderGood, JobPC, DraftPC,
        SweepPC
<1>25. ASSUME NEW t \in Tracks, RequestDeletion(t) PROVE HolderGood(v)'
  <2>1. InsertRows({t}, "delete_track")
    BY <1>25 DEF RequestDeletion
  <2> QED
    BY <1>25, <2>1, Inserted DEF Holding, HolderGood, JobPC, DraftPC, SweepPC, TypeOK, Rest, Idle, RequestDeletion
<1>26. ASSUME NEW s \in Sessions, NEW T \in SUBSET Tracks, SeedRead(s, T)
       PROVE  HolderGood(v)'
  BY <1>26, Moved
     DEF SeedRead, rowVars, jobVars, TypeOK, Holding, HolderGood, JobPC, DraftPC,
        SweepPC
<1>27. ASSUME NEW s \in Sessions, Pin(s) PROVE HolderGood(v)'
  BY <1>27, Moved
     DEF Pin, rowVars, jobVars, TypeOK, Holding, HolderGood, JobPC, DraftPC, SweepPC
<1>28. ASSUME NEW s \in Sessions, SeedDropped(s) PROVE HolderGood(v)'
  BY <1>28, Moved
     DEF SeedDropped, rowVars, jobVars, TypeOK, Holding, HolderGood, JobPC, DraftPC,
        SweepPC
<1>29. ASSUME NEW s \in Sessions, SessionEnds(s) PROVE HolderGood(v)'
  BY <1>29, Moved
     DEF SessionEnds, rowVars, jobVars, TypeOK, Holding, HolderGood, JobPC, DraftPC,
        SweepPC
<1> QED
  BY <1>1, <1>2, <1>3, <1>4, <1>5, <1>6, <1>7, <1>8, <1>9, <1>10, <1>11, <1>12, <1>13,
     <1>14, <1>15, <1>16, <1>17, <1>18, <1>19, <1>20, <1>21, <1>22, <1>23, <1>24, <1>25,
     <1>26, <1>27, <1>28, <1>29
     DEF Next, HeldStep, PrepareStep, DeleteStep

\* What a session references keeps its row.
LEMMA RowStep ==
    ASSUME TypeOK, Holding, Drafting, \A a \in Assets : RowGood(a), NEW b \in Assets,
           Next
    PROVE  RowGood(b)'
<1>1. ASSUME NEW w \in Workers, WorkerStart(w) PROVE RowGood(b)'
  BY <1>1
     DEF WorkerStart, At, Goto, sesVars, TypeOK, Holding, HolderGood, JobPC, DraftPC,
        SweepPC, DraftGood, Drafting, RowGood, Referenced
<1>2. ASSUME NEW w \in Workers, EnqueueMissing(w) PROVE RowGood(b)'
  BY <1>2
     DEF EnqueueMissing, At, Rest, rowVars, sesVars, Idle, TypeOK, Holding, HolderGood,
        JobPC, DraftPC, SweepPC, DraftGood, Drafting, RowGood, Referenced
<1>3. ASSUME NEW w \in Workers, WorkerCrash(w) PROVE RowGood(b)'
  BY <1>3
     DEF WorkerCrash, At, rowVars, jobVars, sesVars, Idle, Down, TypeOK, Holding,
        HolderGood, JobPC, DraftPC, SweepPC, DraftGood, Drafting, RowGood, Referenced
<1>4. ASSUME NEW w \in Workers, PrepareLoad(w) PROVE RowGood(b)'
  BY <1>4
     DEF PrepareLoad, At, Goto, rowVars, jobVars, sesVars, TypeOK, Holding, HolderGood,
        JobPC, DraftPC, SweepPC, DraftGood, Drafting, RowGood, Referenced
<1>5. ASSUME NEW w \in Workers, PreparePackage(w) PROVE RowGood(b)'
  BY <1>5, Packaged
     DEF TypeOK, Holding, HolderGood, JobPC, DraftPC, SweepPC, DraftGood, Drafting,
        RowGood, Referenced
<1>6. ASSUME NEW w \in Workers, PrepareInstall(w) PROVE RowGood(b)'
  BY <1>6
     DEF PrepareInstall, At, Goto, jobVars, sesVars, TypeOK, Holding, HolderGood, JobPC,
        DraftPC, SweepPC, DraftGood, Drafting, RowGood, Referenced
<1>7. ASSUME NEW w \in Workers, PrepareRefused(w) PROVE RowGood(b)'
  BY <1>7
     DEF PrepareRefused, At, Goto, rowVars, jobVars, sesVars, TypeOK, Holding,
        HolderGood, JobPC, DraftPC, SweepPC, DraftGood, Drafting, RowGood, Referenced
<1>8. ASSUME NEW w \in Workers, PrepareDrop(w) PROVE RowGood(b)'
  BY <1>8, Dropped
     DEF TypeOK, Holding, HolderGood, JobPC, DraftPC, SweepPC, DraftGood, Drafting,
        RowGood, Referenced
<1>9. ASSUME NEW w \in Workers, PrepareFails(w) PROVE RowGood(b)'
  BY <1>9
     DEF PrepareFails, At, Goto, rowVars, jobVars, sesVars, TypeOK, Holding, HolderGood,
        JobPC, DraftPC, SweepPC, DraftGood, Drafting, RowGood, Referenced
<1>10. ASSUME NEW w \in Workers, DeleteLock(w) PROVE RowGood(b)'
  BY <1>10
     DEF DeleteLock, At, Goto, rowVars, jobVars, sesVars, TypeOK, Holding, HolderGood,
        JobPC, DraftPC, SweepPC, DraftGood, Drafting, RowGood, Referenced
<1>11. ASSUME NEW w \in Workers, DeleteObjects(w) PROVE RowGood(b)'
  BY <1>11
     DEF DeleteObjects, At, Goto, rowVars, jobVars, sesVars, TypeOK, Holding,
        HolderGood, JobPC, DraftPC, SweepPC, DraftGood, Drafting, RowGood, Referenced
<1>12. ASSUME NEW w \in Workers, DeleteCommit(w) PROVE RowGood(b)'
  <2>1. /\ row' = [a \in Assets |-> IF a \in Victims(jobOf[wrk[w].job]) THEN "deleted" ELSE row[a]]
        /\ owner' \in [Assets -> Tracks \cup {NoTrack}] /\ items' = items
        /\ owner[b] = NoTrack => owner'[b] = NoTrack
    BY <1>12 DEF DeleteCommit, sesVars, TypeOK
  <2> QED
    BY <2>1 DEF Victims, RowGood, Referenced
<1>13. ASSUME NEW w \in Workers, DeleteAborts(w) PROVE RowGood(b)'
  BY <1>13
     DEF DeleteAborts, Goto, rowVars, jobVars, sesVars, TypeOK, Holding, HolderGood,
        JobPC, DraftPC, SweepPC, DraftGood, Drafting, RowGood, Referenced
<1>14. ASSUME NEW w \in Workers, Acknowledge(w) PROVE RowGood(b)'
  BY <1>14
     DEF Acknowledge, At, Rest, rowVars, sesVars, Idle, TypeOK, Holding, HolderGood,
        JobPC, DraftPC, SweepPC, DraftGood, Drafting, RowGood, Referenced
<1>15. ASSUME NEW w \in Workers, RecordFailure(w) PROVE RowGood(b)'
  BY <1>15
     DEF RecordFailure, At, Rest, sesVars, Idle, TypeOK, Holding, HolderGood, JobPC,
        DraftPC, SweepPC, DraftGood, Drafting, RowGood, Referenced
<1>16. ASSUME NEW w \in Workers, FailureNotRecorded(w) PROVE RowGood(b)'
  BY <1>16
     DEF FailureNotRecorded, At, Rest, rowVars, jobVars, sesVars, Idle, TypeOK, Holding,
        HolderGood, JobPC, DraftPC, SweepPC, DraftGood, Drafting, RowGood, Referenced
<1>17. ASSUME NEW w \in Workers, SweepObject(w) PROVE RowGood(b)'
  BY <1>17
     DEF SweepObject, At, Goto, rowVars, jobVars, sesVars, TypeOK, Holding, HolderGood,
        JobPC, DraftPC, SweepPC, DraftGood, Drafting, RowGood, Referenced
<1>18. ASSUME NEW w \in Workers, SweepRow(w) PROVE RowGood(b)'
  BY <1>18, HlsConstants
     DEF SweepRow, At, Rest, jobVars, sesVars, Idle, TypeOK, Sweepable, RowGood,
        Referenced
<1>19. ASSUME NEW w \in Workers, SweepGivesUp(w) PROVE RowGood(b)'
  BY <1>19
     DEF SweepGivesUp, Rest, rowVars, jobVars, sesVars, Idle, TypeOK, Holding,
        HolderGood, JobPC, DraftPC, SweepPC, DraftGood, Drafting, RowGood, Referenced
<1>20. ASSUME NEW w \in Workers, NEW j \in Jobs, Claim(w, j) PROVE RowGood(b)'
  BY <1>20
     DEF Claim, At, rowVars, sesVars, TypeOK, Holding, HolderGood, JobPC, DraftPC,
        SweepPC, DraftGood, Drafting, RowGood, Referenced
<1>21. ASSUME NEW w \in Workers, NEW a \in Assets, SweepSelect(w, a) PROVE RowGood(b)'
  BY <1>21, Selected
     DEF TypeOK, Holding, HolderGood, JobPC, DraftPC, SweepPC, DraftGood, Drafting,
        RowGood, Referenced
<1>22. ASSUME NEW t \in Tracks, AdminRetry(t) PROVE RowGood(b)'
  BY <1>22
     DEF AdminRetry, rowVars, sesVars, TypeOK, Holding, HolderGood, JobPC, DraftPC,
        SweepPC, DraftGood, Drafting, RowGood, Referenced
<1>23. ASSUME NEW t \in Tracks, Reprocess(t) PROVE RowGood(b)'
  BY <1>23
     DEF Reprocess, jobVars, sesVars, TypeOK, Holding, HolderGood, JobPC, DraftPC,
        SweepPC, DraftGood, Drafting, RowGood, Referenced
<1>24. ASSUME NEW t \in Tracks, Republish(t) PROVE RowGood(b)'
  BY <1>24
     DEF Republish, jobVars, sesVars, TypeOK, Holding, HolderGood, JobPC, DraftPC,
        SweepPC, DraftGood, Drafting, RowGood, Referenced
<1>25. ASSUME NEW t \in Tracks, RequestDeletion(t) PROVE RowGood(b)'
  BY <1>25
     DEF RequestDeletion, sesVars, TypeOK, Holding, HolderGood, JobPC, DraftPC, SweepPC,
        DraftGood, Drafting, RowGood, Referenced
<1>26. ASSUME NEW s \in Sessions, NEW T \in SUBSET Tracks, SeedRead(s, T) PROVE RowGood(b)'
  BY <1>26
     DEF SeedRead, rowVars, jobVars, TypeOK, Holding, HolderGood, JobPC, DraftPC,
        SweepPC, DraftGood, Drafting, RowGood, Referenced
<1>27. ASSUME NEW s \in Sessions, Pin(s) PROVE RowGood(b)'
  BY <1>27
     DEF Pin, rowVars, jobVars, TypeOK, Holding, HolderGood, JobPC, DraftPC, SweepPC,
        DraftGood, Drafting, RowGood, Referenced
<1>28. ASSUME NEW s \in Sessions, SeedDropped(s) PROVE RowGood(b)'
  BY <1>28
     DEF SeedDropped, rowVars, jobVars, TypeOK, Holding, HolderGood, JobPC, DraftPC,
        SweepPC, DraftGood, Drafting, RowGood, Referenced
<1>29. ASSUME NEW s \in Sessions, SessionEnds(s) PROVE RowGood(b)'
  BY <1>29
     DEF SessionEnds, rowVars, jobVars, TypeOK, Holding, HolderGood, JobPC, DraftPC,
        SweepPC, DraftGood, Drafting, RowGood, Referenced
<1> QED
  BY <1>1, <1>2, <1>3, <1>4, <1>5, <1>6, <1>7, <1>8, <1>9, <1>10, <1>11, <1>12, <1>13,
     <1>14, <1>15, <1>16, <1>17, <1>18, <1>19, <1>20, <1>21, <1>22, <1>23, <1>24, <1>25,
     <1>26, <1>27, <1>28, <1>29
     DEF Next, HeldStep, PrepareStep, DeleteStep

\* No step gives a track a second current asset.
LEMMA OneEachStep ==
    ASSUME HlsConstants, TypeOK, Holding, Drafting, OneEach, Next
    PROVE  OneEach'
<1>1. ASSUME NEW w \in Workers, WorkerStart(w) PROVE OneEach'
  BY <1>1
     DEF WorkerStart, At, Goto, sesVars, TypeOK, Holding, HolderGood, JobPC, DraftPC,
        OneEach
<1>2. ASSUME NEW w \in Workers, EnqueueMissing(w) PROVE OneEach'
  BY <1>2
     DEF EnqueueMissing, At, Rest, rowVars, sesVars, Idle, TypeOK, Holding, HolderGood,
        JobPC, DraftPC, OneEach
<1>3. ASSUME NEW w \in Workers, WorkerCrash(w) PROVE OneEach'
  BY <1>3
     DEF WorkerCrash, At, rowVars, jobVars, sesVars, Idle, Down, TypeOK, Holding,
        HolderGood, JobPC, DraftPC, OneEach
<1>4. ASSUME NEW w \in Workers, PrepareLoad(w) PROVE OneEach'
  BY <1>4
     DEF PrepareLoad, At, Goto, rowVars, jobVars, sesVars, TypeOK, Holding, HolderGood,
        JobPC, DraftPC, OneEach
<1>5. ASSUME NEW w \in Workers, PreparePackage(w) PROVE OneEach'
  BY <1>5, Packaged DEF TypeOK, Holding, HolderGood, JobPC, DraftPC, OneEach
<1>6. ASSUME NEW w \in Workers, PrepareInstall(w) PROVE OneEach'
  <2> DEFINE c == wrk[w].asset
             t == jobOf[wrk[w].job]
  <2>1. c \in Assets /\ t \in Tracks
    BY <1>6 DEF PrepareInstall, At, Holding, HolderGood, JobPC, DraftPC, JobGood
  <2>2. /\ row' = [row EXCEPT ![c] = "current"] /\ owner' = [owner EXCEPT ![c] = t]
        /\ \A a \in Assets : row[a] = "current" => owner[a] # t
    BY <1>6 DEF PrepareInstall, Current
  <2>3. \A a \in Assets : /\ row'[a] = IF a = c THEN "current" ELSE row[a]
                          /\ owner'[a] = IF a = c THEN t ELSE owner[a]
    BY <2>1, <2>2 DEF TypeOK
  <2> QED
    BY <2>1, <2>2, <2>3 DEF OneEach
<1>7. ASSUME NEW w \in Workers, PrepareRefused(w) PROVE OneEach'
  BY <1>7
     DEF PrepareRefused, At, Goto, rowVars, jobVars, sesVars, TypeOK, Holding,
        HolderGood, JobPC, DraftPC, OneEach
<1>8. ASSUME NEW w \in Workers, PrepareDrop(w) PROVE OneEach'
  BY <1>8, Dropped DEF TypeOK, Holding, HolderGood, JobPC, DraftPC, OneEach
<1>9. ASSUME NEW w \in Workers, PrepareFails(w) PROVE OneEach'
  BY <1>9
     DEF PrepareFails, At, Goto, rowVars, jobVars, sesVars, TypeOK, Holding, HolderGood,
        JobPC, DraftPC, OneEach
<1>10. ASSUME NEW w \in Workers, DeleteLock(w) PROVE OneEach'
  BY <1>10
     DEF DeleteLock, At, Goto, rowVars, jobVars, sesVars, TypeOK, Holding, HolderGood,
        JobPC, DraftPC, OneEach
<1>11. ASSUME NEW w \in Workers, DeleteObjects(w) PROVE OneEach'
  BY <1>11
     DEF DeleteObjects, At, Goto, rowVars, jobVars, sesVars, TypeOK, Holding,
        HolderGood, JobPC, DraftPC, OneEach
<1>12. ASSUME NEW w \in Workers, DeleteCommit(w) PROVE OneEach'
  <2>1. \A a \in Assets : /\ row'[a] \in {row[a], "deleted"}
                          /\ owner'[a] \in {owner[a], NoTrack}
    BY <1>12 DEF DeleteCommit
  <2> QED
    BY <2>1, HlsConstants DEF OneEach
<1>13. ASSUME NEW w \in Workers, DeleteAborts(w) PROVE OneEach'
  BY <1>13
     DEF DeleteAborts, Goto, rowVars, jobVars, sesVars, TypeOK, Holding, HolderGood,
        JobPC, DraftPC, OneEach
<1>14. ASSUME NEW w \in Workers, Acknowledge(w) PROVE OneEach'
  BY <1>14
     DEF Acknowledge, At, Rest, rowVars, sesVars, Idle, TypeOK, Holding, HolderGood,
        JobPC, DraftPC, OneEach
<1>15. ASSUME NEW w \in Workers, RecordFailure(w) PROVE OneEach'
  BY <1>15
     DEF RecordFailure, At, Rest, sesVars, Idle, TypeOK, Holding, HolderGood, JobPC,
        DraftPC, OneEach
<1>16. ASSUME NEW w \in Workers, FailureNotRecorded(w) PROVE OneEach'
  BY <1>16
     DEF FailureNotRecorded, At, Rest, rowVars, jobVars, sesVars, Idle, TypeOK, Holding,
        HolderGood, JobPC, DraftPC, OneEach
<1>17. ASSUME NEW w \in Workers, SweepObject(w) PROVE OneEach'
  BY <1>17
     DEF SweepObject, At, Goto, rowVars, jobVars, sesVars, TypeOK, Holding, HolderGood,
        JobPC, DraftPC, OneEach
<1>18. ASSUME NEW w \in Workers, SweepRow(w) PROVE OneEach'
  BY <1>18
     DEF SweepRow, At, Rest, jobVars, sesVars, Idle, TypeOK, Holding, HolderGood, JobPC,
        DraftPC, OneEach
<1>19. ASSUME NEW w \in Workers, SweepGivesUp(w) PROVE OneEach'
  BY <1>19
     DEF SweepGivesUp, Rest, rowVars, jobVars, sesVars, Idle, TypeOK, Holding,
        HolderGood, JobPC, DraftPC, OneEach
<1>20. ASSUME NEW w \in Workers, NEW j \in Jobs, Claim(w, j) PROVE OneEach'
  BY <1>20
     DEF Claim, At, rowVars, sesVars, TypeOK, Holding, HolderGood, JobPC, DraftPC,
        OneEach
<1>21. ASSUME NEW w \in Workers, NEW a \in Assets, SweepSelect(w, a) PROVE OneEach'
  BY <1>21, Selected DEF TypeOK, Holding, HolderGood, JobPC, DraftPC, OneEach
<1>22. ASSUME NEW t \in Tracks, AdminRetry(t) PROVE OneEach'
  BY <1>22
     DEF AdminRetry, rowVars, sesVars, TypeOK, Holding, HolderGood, JobPC, DraftPC,
        OneEach
<1>23. ASSUME NEW t \in Tracks, Reprocess(t) PROVE OneEach'
  BY <1>23
     DEF Reprocess, jobVars, sesVars, TypeOK, Holding, HolderGood, JobPC, DraftPC,
        OneEach
<1>24. ASSUME NEW t \in Tracks, Republish(t) PROVE OneEach'
  <2>1. PICK c \in Fresh :
            /\ row' = [b \in Assets |-> IF b = c THEN "current"
                                        ELSE IF b \in Current(t) THEN "retired" ELSE row[b]]
            /\ owner' = [owner EXCEPT ![c] = t]
    BY <1>24 DEF Republish
  <2>2. \A a \in Assets : owner'[a] = IF a = c THEN t ELSE owner[a]
    BY <2>1 DEF TypeOK
  <2> QED
    BY <2>1, <2>2 DEF OneEach, Current
<1>25. ASSUME NEW t \in Tracks, RequestDeletion(t) PROVE OneEach'
  BY <1>25
     DEF RequestDeletion, sesVars, TypeOK, Holding, HolderGood, JobPC, DraftPC, OneEach
<1>26. ASSUME NEW s \in Sessions, NEW T \in SUBSET Tracks, SeedRead(s, T) PROVE OneEach'
  BY <1>26
     DEF SeedRead, rowVars, jobVars, TypeOK, Holding, HolderGood, JobPC, DraftPC,
        OneEach
<1>27. ASSUME NEW s \in Sessions, Pin(s) PROVE OneEach'
  BY <1>27
     DEF Pin, rowVars, jobVars, TypeOK, Holding, HolderGood, JobPC, DraftPC, OneEach
<1>28. ASSUME NEW s \in Sessions, SeedDropped(s) PROVE OneEach'
  BY <1>28
     DEF SeedDropped, rowVars, jobVars, TypeOK, Holding, HolderGood, JobPC, DraftPC,
        OneEach
<1>29. ASSUME NEW s \in Sessions, SessionEnds(s) PROVE OneEach'
  BY <1>29
     DEF SessionEnds, rowVars, jobVars, TypeOK, Holding, HolderGood, JobPC, DraftPC,
        OneEach
<1> QED
  BY <1>1, <1>2, <1>3, <1>4, <1>5, <1>6, <1>7, <1>8, <1>9, <1>10, <1>11, <1>12, <1>13,
     <1>14, <1>15, <1>16, <1>17, <1>18, <1>19, <1>20, <1>21, <1>22, <1>23, <1>24, <1>25,
     <1>26, <1>27, <1>28, <1>29
     DEF Next, HeldStep, PrepareStep, DeleteStep

---------------------------------------------------------------------------
(* Deletions *)

\* The track of an open deletion stays deleting, and no other deletion opens.
LEMMA DeletionStep ==
    ASSUME HlsConstants, TypeOK, Holding, Deleting, NEW v \in Workers, Next
    PROVE  DeletionGood(v)'
<1>1. ASSUME NEW w \in Workers, WorkerStart(w) PROVE DeletionGood(v)'
  BY <1>1, Moved
     DEF WorkerStart, At, sesVars, TypeOK, Holding, HolderGood, JobGood, JobPC, LockPC,
        Deleting, DeletionGood, Locked, Idle
<1>2. ASSUME NEW w \in Workers, EnqueueMissing(w) PROVE DeletionGood(v)'
  <2>1. \E T \in SUBSET Tracks : InsertRows(T, "prepare_hls")
    BY <1>2 DEF EnqueueMissing, Missing
  <2> QED
    BY <1>2, <2>1, Inserted DEF TypeOK, Holding, HolderGood, JobPC, LockPC, Deleting, DeletionGood, Rest, Idle, Missing, EnqueueMissing, rowVars
<1>3. ASSUME NEW w \in Workers, WorkerCrash(w) PROVE DeletionGood(v)'
  <2>1. wrk'[v] = IF v = w THEN Down ELSE wrk[v]
    BY <1>3 DEF WorkerCrash, TypeOK
  <2>2. Down.pc = "down"
    BY DEF Down, Idle
  <2>3. \A x \in Workers : wrk'[x] = IF x = w THEN Down ELSE wrk[x]
    BY <1>3 DEF WorkerCrash, TypeOK
  <2> QED
    BY <1>3, <2>2, <2>3 DEF WorkerCrash, rowVars, jobVars, Deleting, DeletionGood, LockPC
<1>4. ASSUME NEW w \in Workers, PrepareLoad(w) PROVE DeletionGood(v)'
  BY <1>4, Moved
     DEF PrepareLoad, At, rowVars, jobVars, sesVars, TypeOK, Holding, HolderGood,
        JobGood, JobPC, LockPC, Deleting, DeletionGood, Locked, Idle
<1>5. ASSUME NEW w \in Workers, PreparePackage(w) PROVE DeletionGood(v)'
  BY <1>5, Packaged DEF Holding, HolderGood, JobPC, LockPC, Deleting, DeletionGood
<1>6. ASSUME NEW w \in Workers, PrepareInstall(w) PROVE DeletionGood(v)'
  BY <1>6, Moved
     DEF PrepareInstall, At, jobVars, sesVars, TypeOK, Holding, HolderGood, JobGood,
        JobPC, LockPC, Deleting, DeletionGood, Locked, Idle
<1>7. ASSUME NEW w \in Workers, PrepareRefused(w) PROVE DeletionGood(v)'
  BY <1>7, Moved
     DEF PrepareRefused, At, rowVars, jobVars, sesVars, TypeOK, Holding, HolderGood,
        JobGood, JobPC, LockPC, Deleting, DeletionGood, Locked, Idle
<1>8. ASSUME NEW w \in Workers, PrepareDrop(w) PROVE DeletionGood(v)'
  BY <1>8, Dropped DEF Holding, HolderGood, JobPC, LockPC, Deleting, DeletionGood
<1>9. ASSUME NEW w \in Workers, PrepareFails(w) PROVE DeletionGood(v)'
  BY <1>9, Moved
     DEF PrepareFails, At, rowVars, jobVars, sesVars, TypeOK, Holding, HolderGood,
        JobGood, JobPC, LockPC, Deleting, DeletionGood, Locked, Idle
<1>10. ASSUME NEW w \in Workers, DeleteLock(w) PROVE DeletionGood(v)'
  <2> DEFINE t == jobOf[wrk[w].job]
  <2>1. PICK pc : Goto(w, pc) /\ (pc = "remove" => track[t] = "deleting") /\ pc \in {"remove", "fail"}
    BY <1>10 DEF DeleteLock
  <2>2. \A x \in Workers : /\ wrk'[x].pc = IF x = w THEN pc ELSE wrk[x].pc
                           /\ wrk'[x].job = wrk[x].job
    BY <2>1, Moved
  <2>3. UNCHANGED <<track, jobOf>> /\ ~Locked(t)
    BY <1>10 DEF DeleteLock, rowVars, jobVars
  <2>4. \A x \in Workers : wrk[x].pc \in LockPC => jobOf[wrk[x].job] # t
    BY <2>3 DEF Locked, LockPC
  <2> QED
    BY <2>1, <2>2, <2>3, <2>4 DEF Deleting, DeletionGood, LockPC
<1>11. ASSUME NEW w \in Workers, DeleteObjects(w) PROVE DeletionGood(v)'
  <2>1. PICK pc \in {"commit", "fail"} : Goto(w, pc)
    BY <1>11 DEF DeleteObjects
  <2>2. \A x \in Workers : /\ wrk'[x].pc = IF x = w THEN pc ELSE wrk[x].pc
                           /\ wrk'[x].job = wrk[x].job
    BY <2>1, Moved
  <2>3. wrk[w].pc = "remove" /\ UNCHANGED <<track, jobOf>>
    BY <1>11 DEF DeleteObjects, At, rowVars, jobVars
  <2>4. \A x \in Workers : wrk'[x].pc \in LockPC => wrk[x].pc \in LockPC
    BY <2>2, <2>3 DEF LockPC
  <2> QED
    BY <2>2, <2>3, <2>4 DEF Deleting, DeletionGood
<1>12. ASSUME NEW w \in Workers, DeleteCommit(w) PROVE DeletionGood(v)'
  <2>1. \A x \in Workers : wrk'[x] = IF x = w THEN Idle ELSE wrk[x]
    BY <1>12, Moved DEF DeleteCommit
  <2>2. /\ wrk[w].pc \in LockPC /\ jobOf' = jobOf
        /\ track' = [track EXCEPT ![jobOf[wrk[w].job]] = "gone"]
    BY <1>12 DEF DeleteCommit, At, LockPC
  <2>3. SUFFICES ASSUME wrk'[v].pc \in LockPC PROVE DeletionGood(v)'
    BY DEF DeletionGood
  <2>4. v # w /\ wrk'[v] = wrk[v]
    BY <2>1, <2>3 DEF Idle, LockPC
  <2>5. \A x \in Workers : wrk'[x].pc \in LockPC => wrk'[x] = wrk[x]
    BY <2>1 DEF Idle, LockPC
  <2>6. track[jobOf[wrk[v].job]] = "deleting" /\ jobOf[wrk[v].job] # jobOf[wrk[w].job]
    BY <2>2, <2>3, <2>4 DEF Deleting, DeletionGood
  <2>7. track'[jobOf[wrk[v].job]] = "deleting"
    BY <2>2, <2>6 DEF TypeOK
  <2> QED
    BY <2>2, <2>3, <2>4, <2>5, <2>7 DEF Deleting, DeletionGood
<1>13. ASSUME NEW w \in Workers, DeleteAborts(w) PROVE DeletionGood(v)'
  BY <1>13, Moved
     DEF DeleteAborts, rowVars, jobVars, sesVars, TypeOK, Holding, HolderGood, JobGood,
        JobPC, LockPC, Deleting, DeletionGood, Locked, Idle
<1>14. ASSUME NEW w \in Workers, Acknowledge(w) PROVE DeletionGood(v)'
  BY <1>14, Moved
     DEF Acknowledge, At, rowVars, sesVars, Idle, TypeOK, Holding, HolderGood, JobGood,
        JobPC, LockPC, Deleting, DeletionGood, Locked
<1>15. ASSUME NEW w \in Workers, RecordFailure(w) PROVE DeletionGood(v)'
  <2>1. \A x \in Workers : wrk'[x] = IF x = w THEN Idle ELSE wrk[x]
    BY <1>15, Moved DEF RecordFailure
  <2>2. \A x \in Workers : wrk'[x].pc \in LockPC => x # w /\ wrk'[x] = wrk[x]
    BY <2>1 DEF Idle, LockPC
  <2>3. jobOf' = jobOf
    BY <1>15 DEF RecordFailure
  <2>4. ASSUME wrk'[v].pc \in LockPC PROVE track'[jobOf[wrk[v].job]] = "deleting"
    <3> DEFINE u == jobOf[wrk[v].job]
    <3>1. u \in Tracks /\ track[u] = "deleting" /\ Locked(u)
      BY <2>2, <2>4 DEF Deleting, DeletionGood, Locked, LockPC, Holding, HolderGood, JobPC, JobGood
    <3>2. track'[u] = track[u]
      BY <1>15, <3>1 DEF RecordFailure, TypeOK
    <3> QED
      BY <3>1, <3>2
  <2> QED
    BY <2>2, <2>3, <2>4 DEF Deleting, DeletionGood
<1>16. ASSUME NEW w \in Workers, FailureNotRecorded(w) PROVE DeletionGood(v)'
  <2>1. \A x \in Workers : wrk'[x] = IF x = w THEN Idle ELSE wrk[x]
    BY <1>16, Moved DEF FailureNotRecorded
  <2> QED
    BY <1>16, <2>1 DEF FailureNotRecorded, rowVars, jobVars, Deleting, DeletionGood, LockPC, Idle
<1>17. ASSUME NEW w \in Workers, SweepObject(w) PROVE DeletionGood(v)'
  BY <1>17, Moved
     DEF SweepObject, At, rowVars, jobVars, sesVars, TypeOK, Holding, HolderGood,
        JobGood, JobPC, LockPC, Deleting, DeletionGood, Locked, Idle
<1>18. ASSUME NEW w \in Workers, SweepRow(w) PROVE DeletionGood(v)'
  BY <1>18, Moved
     DEF SweepRow, At, jobVars, sesVars, Idle, TypeOK, Holding, HolderGood, JobGood,
        JobPC, LockPC, Deleting, DeletionGood, Locked
<1>19. ASSUME NEW w \in Workers, SweepGivesUp(w) PROVE DeletionGood(v)'
  BY <1>19, Moved
     DEF SweepGivesUp, rowVars, jobVars, sesVars, Idle, TypeOK, Holding, HolderGood,
        JobGood, JobPC, LockPC, Deleting, DeletionGood, Locked
<1>20. ASSUME NEW w \in Workers, NEW j \in Jobs, Claim(w, j) PROVE DeletionGood(v)'
  <2>1. \A x \in Workers : wrk'[x].pc \in LockPC => x # w /\ wrk'[x] = wrk[x]
    BY <1>20 DEF Claim, TypeOK, LockPC
  <2> QED
    BY <1>20, <2>1 DEF Claim, rowVars, Deleting, DeletionGood
<1>21. ASSUME NEW w \in Workers, NEW a \in Assets, SweepSelect(w, a) PROVE DeletionGood(v)'
  BY <1>21, Selected DEF Holding, HolderGood, JobPC, LockPC, Deleting, DeletionGood
<1>22. ASSUME NEW t \in Tracks, AdminRetry(t) PROVE DeletionGood(v)'
  <2>1. InsertRows({t}, "prepare_hls")
    BY <1>22 DEF AdminRetry
  <2> QED
    BY <1>22, <2>1, Inserted DEF TypeOK, Holding, HolderGood, JobPC, LockPC, Deleting, DeletionGood, Rest, Idle, Missing, AdminRetry, rowVars
<1>23. ASSUME NEW t \in Tracks, Reprocess(t) PROVE DeletionGood(v)'
  BY <1>23, Moved
     DEF Reprocess, jobVars, sesVars, TypeOK, Holding, HolderGood, JobGood, JobPC,
        LockPC, Deleting, DeletionGood, Locked, Idle
<1>24. ASSUME NEW t \in Tracks, Republish(t) PROVE DeletionGood(v)'
  BY <1>24, Moved
     DEF Republish, jobVars, sesVars, TypeOK, Holding, HolderGood, JobGood, JobPC,
        LockPC, Deleting, DeletionGood, Locked, Idle
<1>25. ASSUME NEW t \in Tracks, RequestDeletion(t) PROVE DeletionGood(v)'
  <2>1. InsertRows({t}, "delete_track")
    BY <1>25 DEF RequestDeletion
  <2> QED
    BY <1>25, <2>1, Inserted DEF TypeOK, Holding, HolderGood, JobPC, LockPC, Deleting, DeletionGood, Rest, Idle, Missing, RequestDeletion
<1>26. ASSUME NEW s \in Sessions, NEW T \in SUBSET Tracks, SeedRead(s, T)
       PROVE  DeletionGood(v)'
  BY <1>26, Moved
     DEF SeedRead, rowVars, jobVars, TypeOK, Holding, HolderGood, JobGood, JobPC,
        LockPC, Deleting, DeletionGood, Locked, Idle
<1>27. ASSUME NEW s \in Sessions, Pin(s) PROVE DeletionGood(v)'
  BY <1>27, Moved
     DEF Pin, rowVars, jobVars, TypeOK, Holding, HolderGood, JobGood, JobPC, LockPC,
        Deleting, DeletionGood, Locked, Idle
<1>28. ASSUME NEW s \in Sessions, SeedDropped(s) PROVE DeletionGood(v)'
  BY <1>28, Moved
     DEF SeedDropped, rowVars, jobVars, TypeOK, Holding, HolderGood, JobGood, JobPC,
        LockPC, Deleting, DeletionGood, Locked, Idle
<1>29. ASSUME NEW s \in Sessions, SessionEnds(s) PROVE DeletionGood(v)'
  BY <1>29, Moved
     DEF SessionEnds, rowVars, jobVars, TypeOK, Holding, HolderGood, JobGood, JobPC,
        LockPC, Deleting, DeletionGood, Locked, Idle
<1> QED
  BY <1>1, <1>2, <1>3, <1>4, <1>5, <1>6, <1>7, <1>8, <1>9, <1>10, <1>11, <1>12, <1>13,
     <1>14, <1>15, <1>16, <1>17, <1>18, <1>19, <1>20, <1>21, <1>22, <1>23, <1>24, <1>25,
     <1>26, <1>27, <1>28, <1>29
     DEF Next, HeldStep, PrepareStep, DeleteStep

---------------------------------------------------------------------------
(* Drafts and sweeps *)

\* What a backfill may still discard is its own.
LEMMA DraftStep ==
    ASSUME HlsConstants, TypeOK, Holding, Drafting, Sweeping,
           \A a \in Assets : RowGood(a), NEW v \in Workers, Next
    PROVE  DraftGood(v)'
<1>1. ASSUME NEW w \in Workers, WorkerStart(w) PROVE DraftGood(v)'
  BY <1>1, Moved
     DEF WorkerStart, At, sesVars, TypeOK, Holding, HolderGood, DraftPC, SweepPC,
        Drafting, DraftGood, Sweeping, SweepGood, Doomed, RowGood, Idle
<1>2. ASSUME NEW w \in Workers, EnqueueMissing(w) PROVE DraftGood(v)'
  <2>1. \A x \in Workers : wrk'[x] = IF x = w THEN Idle ELSE wrk[x]
    BY <1>2, Moved DEF EnqueueMissing
  <2>2. UNCHANGED <<row, object, lost>> /\ wrk[w].pc = "enqueue"
    BY <1>2 DEF EnqueueMissing, At, rowVars
  <2> QED
    BY <2>1, <2>2, HlsConstants DEF Drafting, DraftGood, DraftPC, Idle, Holding, HolderGood, SweepPC
<1>3. ASSUME NEW w \in Workers, WorkerCrash(w) PROVE DraftGood(v)'
  <2>1. wrk'[v] = IF v = w THEN Down ELSE wrk[v]
    BY <1>3 DEF WorkerCrash, TypeOK
  <2>2. Down.pc = "down"
    BY DEF Down, Idle
  <2>3. \A x \in Workers : wrk'[x].asset \in {wrk[x].asset, NoAsset}
    BY <1>3 DEF WorkerCrash, TypeOK, Down, Idle
  <2> QED
    BY <1>3, <2>1, <2>2, <2>3, HlsConstants DEF WorkerCrash, rowVars, jobVars, Drafting, DraftGood, DraftPC, SweepPC, Holding, HolderGood
<1>4. ASSUME NEW w \in Workers, PrepareLoad(w) PROVE DraftGood(v)'
  BY <1>4, Moved
     DEF PrepareLoad, At, rowVars, jobVars, sesVars, TypeOK, Holding, HolderGood,
        DraftPC, SweepPC, Drafting, DraftGood, Sweeping, SweepGood, Doomed, RowGood,
        Idle
<1>5. ASSUME NEW w \in Workers, PreparePackage(w) PROVE DraftGood(v)'
  <2>1. PICK a \in Assets :
            /\ object' = object \cup {a} /\ wrk'[w].asset = a /\ row[a] = "free"
            /\ \A x \in Workers : wrk[x].asset # a
    BY <1>5, Packaged
  <2>2. /\ wrk'[w].pc = "install" /\ UNCHANGED <<row, lost>>
        /\ \A x \in Workers : x # w => wrk'[x] = wrk[x]
    BY <1>5, Packaged
  <2>3. CASE v = w
    <3>1. wrk'[v].asset = a /\ a \in object' /\ row'[a] = "free"
      BY <2>1, <2>2, <2>3
    <3>2. \A x \in Workers : wrk'[x].asset = a => x = v
      BY <2>1, <2>2, <2>3
    <3> QED
      BY <2>2, <2>3, <3>1, <3>2 DEF DraftGood
  <2>4. CASE v # w
    <3>1. wrk'[v] = wrk[v] /\ DraftGood(v)
      BY <2>2, <2>4 DEF Drafting
    <3>2. \A x \in Workers : wrk'[x].asset = wrk[v].asset => wrk[x].asset = wrk[v].asset
      BY <2>1, <2>2
    <3> QED
      BY <2>1, <2>2, <3>1, <3>2 DEF DraftGood
  <2> QED
    BY <2>3, <2>4
<1>6. ASSUME NEW w \in Workers, PrepareInstall(w) PROVE DraftGood(v)'
  BY <1>6, Moved
     DEF PrepareInstall, At, jobVars, sesVars, TypeOK, Holding, HolderGood, DraftPC,
        SweepPC, Drafting, DraftGood, Sweeping, SweepGood, Doomed, RowGood, Idle
<1>7. ASSUME NEW w \in Workers, PrepareRefused(w) PROVE DraftGood(v)'
  BY <1>7, Moved
     DEF PrepareRefused, At, rowVars, jobVars, sesVars, TypeOK, Holding, HolderGood,
        DraftPC, SweepPC, Drafting, DraftGood, Sweeping, SweepGood, Doomed, RowGood,
        Idle
<1>8. ASSUME NEW w \in Workers, PrepareDrop(w) PROVE DraftGood(v)'
  BY <1>8, Dropped
     DEF TypeOK, Holding, HolderGood, DraftPC, SweepPC, Drafting, DraftGood, Sweeping,
        SweepGood, Doomed, RowGood, Idle
<1>9. ASSUME NEW w \in Workers, PrepareFails(w) PROVE DraftGood(v)'
  BY <1>9, Moved
     DEF PrepareFails, At, rowVars, jobVars, sesVars, TypeOK, Holding, HolderGood,
        DraftPC, SweepPC, Drafting, DraftGood, Sweeping, SweepGood, Doomed, RowGood,
        Idle
<1>10. ASSUME NEW w \in Workers, DeleteLock(w) PROVE DraftGood(v)'
  BY <1>10, Moved
     DEF DeleteLock, At, rowVars, jobVars, sesVars, TypeOK, Holding, HolderGood,
        DraftPC, SweepPC, Drafting, DraftGood, Sweeping, SweepGood, Doomed, RowGood,
        Idle
<1>11. ASSUME NEW w \in Workers, DeleteObjects(w) PROVE DraftGood(v)'
  <2> DEFINE t == jobOf[wrk[w].job]
  <2>1. PICK pc : Goto(w, pc) /\ pc \in {"commit", "fail"}
    BY <1>11 DEF DeleteObjects
  <2>2. \A x \in Workers : /\ wrk'[x].pc = IF x = w THEN pc ELSE wrk[x].pc
                           /\ wrk'[x].asset = wrk[x].asset
    BY <2>1, Moved
  <2>3. t \in Tracks
    BY <1>11 DEF DeleteObjects, At, Holding, HolderGood, JobGood, JobPC
  <2>4. row' = row /\ object \subseteq object' \cup Victims(t) /\ lost \subseteq lost'
    BY <1>11 DEF DeleteObjects, rowVars
  <2>5. \A a \in Assets : row[a] = "free" => a \notin Victims(t)
    BY <2>3, HlsConstants DEF Victims, RowGood
  <2> QED
    BY <2>1, <2>2, <2>4, <2>5 DEF Drafting, DraftGood, DraftPC, SweepPC, Holding, HolderGood
<1>12. ASSUME NEW w \in Workers, DeleteCommit(w) PROVE DraftGood(v)'
  <2>1. \A x \in Workers : wrk'[x] = IF x = w THEN Idle ELSE wrk[x]
    BY <1>12, Moved DEF DeleteCommit
  <2>2. jobOf[wrk[w].job] \in Tracks
    BY <1>12 DEF DeleteCommit, At, Holding, HolderGood, JobGood, JobPC
  <2>3. \A a \in Assets : row'[a] = "free" <=> row[a] = "free"
    BY <1>12, <2>2, HlsConstants DEF DeleteCommit, Victims, RowGood
  <2>4. UNCHANGED <<object, lost>>
    BY <1>12 DEF DeleteCommit
  <2>5. wrk'[v].pc \in DraftPC => v # w /\ wrk'[v] = wrk[v] /\ wrk[v].asset \in Assets
    BY <2>1 DEF Idle, DraftPC, SweepPC, Holding, HolderGood
  <2> QED
    BY <2>1, <2>3, <2>4, <2>5, HlsConstants DEF Drafting, DraftGood, DraftPC, Idle
<1>13. ASSUME NEW w \in Workers, DeleteAborts(w) PROVE DraftGood(v)'
  BY <1>13, Moved
     DEF DeleteAborts, rowVars, jobVars, sesVars, TypeOK, Holding, HolderGood, DraftPC,
        SweepPC, Drafting, DraftGood, Sweeping, SweepGood, Doomed, RowGood, Idle
<1>14. ASSUME NEW w \in Workers, Acknowledge(w) PROVE DraftGood(v)'
  BY <1>14, Moved
     DEF Acknowledge, At, rowVars, sesVars, Idle, TypeOK, Holding, HolderGood, DraftPC,
        SweepPC, Drafting, DraftGood, Sweeping, SweepGood, Doomed, RowGood
<1>15. ASSUME NEW w \in Workers, RecordFailure(w) PROVE DraftGood(v)'
  BY <1>15, Moved
     DEF RecordFailure, At, sesVars, Idle, TypeOK, Holding, HolderGood, DraftPC,
        SweepPC, Drafting, DraftGood, Sweeping, SweepGood, Doomed, RowGood
<1>16. ASSUME NEW w \in Workers, FailureNotRecorded(w) PROVE DraftGood(v)'
  BY <1>16, Moved
     DEF FailureNotRecorded, At, rowVars, jobVars, sesVars, Idle, TypeOK, Holding,
        HolderGood, DraftPC, SweepPC, Drafting, DraftGood, Sweeping, SweepGood, Doomed,
        RowGood
<1>17. ASSUME NEW w \in Workers, SweepObject(w) PROVE DraftGood(v)'
  BY <1>17, Moved
     DEF SweepObject, At, rowVars, jobVars, sesVars, TypeOK, Holding, HolderGood,
        DraftPC, SweepPC, Drafting, DraftGood, Sweeping, SweepGood, Doomed, RowGood,
        Idle
<1>18. ASSUME NEW w \in Workers, SweepRow(w) PROVE DraftGood(v)'
  BY <1>18, Moved
     DEF SweepRow, At, jobVars, sesVars, Idle, TypeOK, Holding, HolderGood, DraftPC,
        SweepPC, Drafting, DraftGood, Sweeping, SweepGood, Doomed, RowGood
<1>19. ASSUME NEW w \in Workers, SweepGivesUp(w) PROVE DraftGood(v)'
  BY <1>19, Moved
     DEF SweepGivesUp, rowVars, jobVars, sesVars, Idle, TypeOK, Holding, HolderGood,
        DraftPC, SweepPC, Drafting, DraftGood, Sweeping, SweepGood, Doomed, RowGood
<1>20. ASSUME NEW w \in Workers, NEW j \in Jobs, Claim(w, j) PROVE DraftGood(v)'
  BY <1>20, Moved
     DEF Claim, At, rowVars, sesVars, TypeOK, Holding, HolderGood, DraftPC, SweepPC,
        Drafting, DraftGood, Sweeping, SweepGood, Doomed, RowGood, Idle
<1>21. ASSUME NEW w \in Workers, NEW a \in Assets, SweepSelect(w, a) PROVE DraftGood(v)'
  <2>1. /\ row[a] # "free" /\ UNCHANGED <<row, object, lost>>
        /\ wrk'[w].pc = "sweep" /\ wrk'[w].asset = a
        /\ \A x \in Workers : x # w => wrk'[x] = wrk[x]
    BY <1>21, Selected DEF Sweepable
  <2>2. CASE v = w
    BY <2>1, <2>2 DEF DraftGood, DraftPC
  <2>3. CASE v # w
    <3>1. wrk'[v] = wrk[v] /\ DraftGood(v)
      BY <2>1, <2>3 DEF Drafting
    <3>2. row[wrk[v].asset] = "free" =>
              \A x \in Workers : wrk'[x].asset = wrk[v].asset => wrk[x].asset = wrk[v].asset
      BY <2>1
    <3> QED
      BY <2>1, <3>1, <3>2 DEF DraftGood
  <2> QED
    BY <2>2, <2>3
<1>22. ASSUME NEW t \in Tracks, AdminRetry(t) PROVE DraftGood(v)'
  BY <1>22, Moved
     DEF AdminRetry, rowVars, sesVars, TypeOK, Holding, HolderGood, DraftPC, SweepPC,
        Drafting, DraftGood, Sweeping, SweepGood, Doomed, RowGood, Idle
<1>23. ASSUME NEW t \in Tracks, Reprocess(t) PROVE DraftGood(v)'
  BY <1>23, Moved
     DEF Reprocess, jobVars, sesVars, TypeOK, Holding, HolderGood, DraftPC, SweepPC,
        Drafting, DraftGood, Sweeping, SweepGood, Doomed, RowGood, Idle
<1>24. ASSUME NEW t \in Tracks, Republish(t) PROVE DraftGood(v)'
  <2>1. PICK c \in Fresh :
            /\ row' = [d \in Assets |-> IF d = c THEN "current"
                                        ELSE IF d \in Current(t) THEN "retired" ELSE row[d]]
            /\ owner' = [owner EXCEPT ![c] = t] /\ object' = object \cup {c}
    BY <1>24 DEF Republish
  <2>2. /\ c \in Assets /\ row[c] = "free" /\ c \notin object
        /\ \A x \in Workers : wrk[x].asset # c
    BY DEF Fresh
  <2>3. \A a \in Assets : /\ owner'[a] = IF a = c THEN t ELSE owner[a]
                          /\ row'[a] = IF a = c THEN "current"
                                      ELSE IF row[a] = "current" /\ owner[a] = t
                                           THEN "retired" ELSE row[a]
    BY <2>1 DEF TypeOK, Current
  <2>4. UNCHANGED <<lost, jobOf, items, seed, wrk>>
    BY <1>24 DEF Republish, jobVars, sesVars
  <2> QED
    BY <2>1, <2>2, <2>3, <2>4 DEF Drafting, DraftGood, DraftPC, SweepPC, Holding, HolderGood
<1>25. ASSUME NEW t \in Tracks, RequestDeletion(t) PROVE DraftGood(v)'
  BY <1>25, Moved
     DEF RequestDeletion, sesVars, TypeOK, Holding, HolderGood, DraftPC, SweepPC,
        Drafting, DraftGood, Sweeping, SweepGood, Doomed, RowGood, Idle
<1>26. ASSUME NEW s \in Sessions, NEW T \in SUBSET Tracks, SeedRead(s, T)
       PROVE  DraftGood(v)'
  BY <1>26, Moved
     DEF SeedRead, rowVars, jobVars, TypeOK, Holding, HolderGood, DraftPC, SweepPC,
        Drafting, DraftGood, Sweeping, SweepGood, Doomed, RowGood, Idle
<1>27. ASSUME NEW s \in Sessions, Pin(s) PROVE DraftGood(v)'
  BY <1>27, Moved
     DEF Pin, rowVars, jobVars, TypeOK, Holding, HolderGood, DraftPC, SweepPC, Drafting,
        DraftGood, Sweeping, SweepGood, Doomed, RowGood, Idle
<1>28. ASSUME NEW s \in Sessions, SeedDropped(s) PROVE DraftGood(v)'
  BY <1>28, Moved
     DEF SeedDropped, rowVars, jobVars, TypeOK, Holding, HolderGood, DraftPC, SweepPC,
        Drafting, DraftGood, Sweeping, SweepGood, Doomed, RowGood, Idle
<1>29. ASSUME NEW s \in Sessions, SessionEnds(s) PROVE DraftGood(v)'
  BY <1>29, Moved
     DEF SessionEnds, rowVars, jobVars, TypeOK, Holding, HolderGood, DraftPC, SweepPC,
        Drafting, DraftGood, Sweeping, SweepGood, Doomed, RowGood, Idle
<1> QED
  BY <1>1, <1>2, <1>3, <1>4, <1>5, <1>6, <1>7, <1>8, <1>9, <1>10, <1>11, <1>12, <1>13,
     <1>14, <1>15, <1>16, <1>17, <1>18, <1>19, <1>20, <1>21, <1>22, <1>23, <1>24, <1>25,
     <1>26, <1>27, <1>28, <1>29
     DEF Next, HeldStep, PrepareStep, DeleteStep

\* What the cleanup has selected stays out of reach.
LEMMA SweepStep ==
    ASSUME HlsConstants, TypeOK, Holding, Drafting, Sweeping,
           \A a \in Assets : RowGood(a), NEW v \in Workers, Next
    PROVE  SweepGood(v)'
<1>1. ASSUME NEW w \in Workers, WorkerStart(w) PROVE SweepGood(v)'
  BY <1>1, Moved
     DEF WorkerStart, At, sesVars, TypeOK, Holding, HolderGood, DraftPC, SweepPC,
        Sweeping, SweepGood, Doomed, RowGood, Referenced, Aged, Idle
<1>2. ASSUME NEW w \in Workers, EnqueueMissing(w) PROVE SweepGood(v)'
  BY <1>2, Moved
     DEF EnqueueMissing, At, rowVars, sesVars, Idle, TypeOK, Holding, HolderGood,
        DraftPC, SweepPC, Sweeping, SweepGood, Doomed, RowGood, Referenced, Aged
<1>3. ASSUME NEW w \in Workers, WorkerCrash(w) PROVE SweepGood(v)'
  BY <1>3, Moved
     DEF WorkerCrash, At, rowVars, jobVars, sesVars, Idle, Down, TypeOK, Holding,
        HolderGood, DraftPC, SweepPC, Sweeping, SweepGood, Doomed, RowGood, Referenced,
        Aged
<1>4. ASSUME NEW w \in Workers, PrepareLoad(w) PROVE SweepGood(v)'
  BY <1>4, Moved
     DEF PrepareLoad, At, rowVars, jobVars, sesVars, TypeOK, Holding, HolderGood,
        DraftPC, SweepPC, Sweeping, SweepGood, Doomed, RowGood, Referenced, Aged, Idle
<1>5. ASSUME NEW w \in Workers, PreparePackage(w) PROVE SweepGood(v)'
  BY <1>5, Packaged
     DEF TypeOK, Holding, HolderGood, DraftPC, SweepPC, Sweeping, SweepGood, Doomed,
        RowGood, Referenced, Aged, Idle
<1>6. ASSUME NEW w \in Workers, PrepareInstall(w) PROVE SweepGood(v)'
  <2> DEFINE c == wrk[w].asset
             t == jobOf[wrk[w].job]
  <2>1. /\ c \in Assets /\ t \in Tracks /\ row[c] = "free" /\ c \in object
        /\ track[t] = "ready" /\ Current(t) = {} /\ ~Locked(t)
    BY <1>6 DEF PrepareInstall, At, Holding, HolderGood, JobPC, DraftPC, JobGood, Drafting, DraftGood
  <2>2. PICK pc \in {"ack", "drop"} : Goto(w, pc)
    BY <1>6 DEF PrepareInstall
  <2>3. \A x \in Workers : /\ wrk'[x].pc = IF x = w THEN pc ELSE wrk[x].pc
                           /\ wrk'[x].job = wrk[x].job /\ wrk'[x].asset = wrk[x].asset
    BY <2>2, Moved
  <2>4. \A a \in Assets : /\ row'[a] = IF a = c THEN "current" ELSE row[a]
                          /\ owner'[a] = IF a = c THEN t ELSE owner[a]
    BY <1>6, <2>1 DEF PrepareInstall, TypeOK
  <2>5. UNCHANGED <<object, track, m4a, jobOf, items, seed>> /\ lost \subseteq lost'
    BY <1>6 DEF PrepareInstall, jobVars, sesVars
  <2>6. wrk'[v].pc \in SweepPC => wrk[v].pc \in SweepPC /\ wrk[v].asset # c /\ wrk[v].asset \in Assets
    BY <2>1, <2>2, <2>3, HlsConstants DEF SweepPC, Sweeping, SweepGood, Doomed, Aged, Holding, HolderGood
  <2> QED
    BY <2>3, <2>4, <2>5, <2>6 DEF Sweeping, SweepGood, Doomed, Aged, Referenced
<1>7. ASSUME NEW w \in Workers, PrepareRefused(w) PROVE SweepGood(v)'
  BY <1>7, Moved
     DEF PrepareRefused, At, rowVars, jobVars, sesVars, TypeOK, Holding, HolderGood,
        DraftPC, SweepPC, Sweeping, SweepGood, Doomed, RowGood, Referenced, Aged, Idle
<1>8. ASSUME NEW w \in Workers, PrepareDrop(w) PROVE SweepGood(v)'
  BY <1>8, Dropped
     DEF TypeOK, Holding, HolderGood, DraftPC, SweepPC, Sweeping, SweepGood, Doomed,
        RowGood, Referenced, Aged, Idle
<1>9. ASSUME NEW w \in Workers, PrepareFails(w) PROVE SweepGood(v)'
  BY <1>9, Moved
     DEF PrepareFails, At, rowVars, jobVars, sesVars, TypeOK, Holding, HolderGood,
        DraftPC, SweepPC, Sweeping, SweepGood, Doomed, RowGood, Referenced, Aged, Idle
<1>10. ASSUME NEW w \in Workers, DeleteLock(w) PROVE SweepGood(v)'
  BY <1>10, Moved
     DEF DeleteLock, At, rowVars, jobVars, sesVars, TypeOK, Holding, HolderGood,
        DraftPC, SweepPC, Sweeping, SweepGood, Doomed, RowGood, Referenced, Aged, Idle
<1>11. ASSUME NEW w \in Workers, DeleteObjects(w) PROVE SweepGood(v)'
  BY <1>11, Moved
     DEF DeleteObjects, At, rowVars, jobVars, sesVars, TypeOK, Holding, HolderGood,
        DraftPC, SweepPC, Sweeping, SweepGood, Doomed, RowGood, Referenced, Aged, Idle
<1>12. ASSUME NEW w \in Workers, DeleteCommit(w) PROVE SweepGood(v)'
  BY <1>12, Moved
     DEF DeleteCommit, At, sesVars, Idle, TypeOK, Holding, HolderGood, DraftPC, SweepPC,
        Sweeping, SweepGood, Doomed, RowGood, Referenced, Aged
<1>13. ASSUME NEW w \in Workers, DeleteAborts(w) PROVE SweepGood(v)'
  BY <1>13, Moved
     DEF DeleteAborts, rowVars, jobVars, sesVars, TypeOK, Holding, HolderGood, DraftPC,
        SweepPC, Sweeping, SweepGood, Doomed, RowGood, Referenced, Aged, Idle
<1>14. ASSUME NEW w \in Workers, Acknowledge(w) PROVE SweepGood(v)'
  BY <1>14, Moved
     DEF Acknowledge, At, rowVars, sesVars, Idle, TypeOK, Holding, HolderGood, DraftPC,
        SweepPC, Sweeping, SweepGood, Doomed, RowGood, Referenced, Aged
<1>15. ASSUME NEW w \in Workers, RecordFailure(w) PROVE SweepGood(v)'
  BY <1>15, Moved
     DEF RecordFailure, At, sesVars, Idle, TypeOK, Holding, HolderGood, DraftPC,
        SweepPC, Sweeping, SweepGood, Doomed, RowGood, Referenced, Aged
<1>16. ASSUME NEW w \in Workers, FailureNotRecorded(w) PROVE SweepGood(v)'
  BY <1>16, Moved
     DEF FailureNotRecorded, At, rowVars, jobVars, sesVars, Idle, TypeOK, Holding,
        HolderGood, DraftPC, SweepPC, Sweeping, SweepGood, Doomed, RowGood, Referenced,
        Aged
<1>17. ASSUME NEW w \in Workers, SweepObject(w) PROVE SweepGood(v)'
  BY <1>17, Moved
     DEF SweepObject, At, rowVars, jobVars, sesVars, TypeOK, Holding, HolderGood,
        DraftPC, SweepPC, Sweeping, SweepGood, Doomed, RowGood, Referenced, Aged, Idle
<1>18. ASSUME NEW w \in Workers, SweepRow(w) PROVE SweepGood(v)'
  BY <1>18, Moved
     DEF SweepRow, At, jobVars, sesVars, Idle, TypeOK, Holding, HolderGood, DraftPC,
        SweepPC, Sweeping, SweepGood, Doomed, RowGood, Referenced, Aged
<1>19. ASSUME NEW w \in Workers, SweepGivesUp(w) PROVE SweepGood(v)'
  BY <1>19, Moved
     DEF SweepGivesUp, rowVars, jobVars, sesVars, Idle, TypeOK, Holding, HolderGood,
        DraftPC, SweepPC, Sweeping, SweepGood, Doomed, RowGood, Referenced, Aged
<1>20. ASSUME NEW w \in Workers, NEW j \in Jobs, Claim(w, j) PROVE SweepGood(v)'
  BY <1>20, Moved
     DEF Claim, At, rowVars, sesVars, TypeOK, Holding, HolderGood, DraftPC, SweepPC,
        Sweeping, SweepGood, Doomed, RowGood, Referenced, Aged, Idle
<1>21. ASSUME NEW w \in Workers, NEW a \in Assets, SweepSelect(w, a) PROVE SweepGood(v)'
  <2>1. Doomed(a)
    BY <1>21 DEF SweepSelect, Sweepable, Doomed
  <2> QED
    BY <1>21, <2>1, Selected DEF Sweeping, SweepGood, Doomed, Aged, Referenced
<1>22. ASSUME NEW t \in Tracks, AdminRetry(t) PROVE SweepGood(v)'
  BY <1>22, Moved
     DEF AdminRetry, rowVars, sesVars, TypeOK, Holding, HolderGood, DraftPC, SweepPC,
        Sweeping, SweepGood, Doomed, RowGood, Referenced, Aged, Idle
<1>23. ASSUME NEW t \in Tracks, Reprocess(t) PROVE SweepGood(v)'
  BY <1>23, Moved
     DEF Reprocess, jobVars, sesVars, TypeOK, Holding, HolderGood, DraftPC, SweepPC,
        Sweeping, SweepGood, Doomed, RowGood, Referenced, Aged, Idle
<1>24. ASSUME NEW t \in Tracks, Republish(t) PROVE SweepGood(v)'
  <2>1. PICK c \in Fresh :
            /\ row' = [d \in Assets |-> IF d = c THEN "current"
                                        ELSE IF d \in Current(t) THEN "retired" ELSE row[d]]
            /\ owner' = [owner EXCEPT ![c] = t] /\ object' = object \cup {c}
    BY <1>24 DEF Republish
  <2>2. /\ c \in Assets /\ row[c] = "free" /\ c \notin object
        /\ \A x \in Workers : wrk[x].asset # c
    BY DEF Fresh
  <2>3. \A a \in Assets : /\ owner'[a] = IF a = c THEN t ELSE owner[a]
                          /\ row'[a] = IF a = c THEN "current"
                                      ELSE IF row[a] = "current" /\ owner[a] = t
                                           THEN "retired" ELSE row[a]
    BY <2>1 DEF TypeOK, Current
  <2>4. UNCHANGED <<lost, jobOf, items, seed, wrk>>
    BY <1>24 DEF Republish, jobVars, sesVars
  <2>5. wrk[v].pc \in SweepPC => wrk[v].asset \in Assets
    BY DEF Holding, HolderGood
  <2> QED
    BY <2>2, <2>3, <2>4, <2>5, HlsConstants DEF Sweeping, SweepGood, Doomed, Aged, Referenced
<1>25. ASSUME NEW t \in Tracks, RequestDeletion(t) PROVE SweepGood(v)'
  BY <1>25, Moved
     DEF RequestDeletion, sesVars, TypeOK, Holding, HolderGood, DraftPC, SweepPC,
        Sweeping, SweepGood, Doomed, RowGood, Referenced, Aged, Idle
<1>26. ASSUME NEW s \in Sessions, NEW T \in SUBSET Tracks, SeedRead(s, T)
       PROVE  SweepGood(v)'
  <2>1. /\ UNCHANGED <<row, owner, items, wrk>>
        /\ \A q \in Sessions : seed'[q] = IF q = s THEN UNION {Current(t) : t \in T} ELSE seed[q]
    BY <1>26 DEF SeedRead, rowVars, TypeOK
  <2>2. \A a \in UNION {Current(t) : t \in T} : row[a] = "current" /\ owner[a] \in Tracks
    BY DEF Current
  <2> QED
    BY <2>1, <2>2, HlsConstants DEF Sweeping, SweepGood, Doomed, Aged, Referenced
<1>27. ASSUME NEW s \in Sessions, Pin(s) PROVE SweepGood(v)'
  BY <1>27, Moved
     DEF Pin, rowVars, jobVars, TypeOK, Holding, HolderGood, DraftPC, SweepPC, Sweeping,
        SweepGood, Doomed, RowGood, Referenced, Aged, Idle
<1>28. ASSUME NEW s \in Sessions, SeedDropped(s) PROVE SweepGood(v)'
  BY <1>28, Moved
     DEF SeedDropped, rowVars, jobVars, TypeOK, Holding, HolderGood, DraftPC, SweepPC,
        Sweeping, SweepGood, Doomed, RowGood, Referenced, Aged, Idle
<1>29. ASSUME NEW s \in Sessions, SessionEnds(s) PROVE SweepGood(v)'
  BY <1>29, Moved
     DEF SessionEnds, rowVars, jobVars, TypeOK, Holding, HolderGood, DraftPC, SweepPC,
        Sweeping, SweepGood, Doomed, RowGood, Referenced, Aged, Idle
<1> QED
  BY <1>1, <1>2, <1>3, <1>4, <1>5, <1>6, <1>7, <1>8, <1>9, <1>10, <1>11, <1>12, <1>13,
     <1>14, <1>15, <1>16, <1>17, <1>18, <1>19, <1>20, <1>21, <1>22, <1>23, <1>24, <1>25,
     <1>26, <1>27, <1>28, <1>29
     DEF Next, HeldStep, PrepareStep, DeleteStep

---------------------------------------------------------------------------
(* What is stored *)

\* The open deletions that wait for their commit go on waiting.
LEMMA CommittingKept ==
    ASSUME \A x \in Workers : At(x, "commit") =>
               wrk'[x] = wrk[x] /\ jobOf'[wrk[x].job] = jobOf[wrk[x].job]
    PROVE  \A t : Committing(t) => Committing(t)'
BY DEF Committing, At

\* A row that a step leaves alone, with its object, is as well off as before.
LEMMA StoredKept ==
    ASSUME NEW b \in Assets, Stored(b), row'[b] = row[b], owner'[b] = owner[b],
           b \in object \cup lost => b \in object' \cup lost',
           UNCHANGED <<items, seed>>,
           \A t : Committing(t) => Committing(t)'
    PROVE  Stored(b)'
<1>1. Referenced(b)' = Referenced(b) /\ Aged(b)' = Aged(b)
  BY DEF Referenced, Aged
<1>2. Committing(owner[b]) => Committing(owner[b])'
  <2>1. Committing(owner[b]) => \E w \in Workers : At(w, "commit")' /\ jobOf'[wrk'[w].job] = owner[b]
    BY DEF Committing
  <2> QED
    BY <2>1 DEF Committing
<1> QED
  BY <1>1, <1>2 DEF Stored

\* Every row with a track keeps its object, but for the errors that lost records.
LEMMA StoredStep ==
    ASSUME HlsConstants, TypeOK, Holding, Deleting, Drafting, Sweeping, Keeping,
           \A a \in Assets : RowGood(a), NEW b \in Assets, Next
    PROVE  Stored(b)'
<1>1. ASSUME NEW w \in Workers, WorkerStart(w) PROVE Stored(b)'
  BY <1>1, Moved
     DEF WorkerStart, At, sesVars, TypeOK, Stored, Committing, Keeping, Aged,
        Referenced, Idle, Holding, HolderGood, JobPC
<1>2. ASSUME NEW w \in Workers, EnqueueMissing(w) PROVE Stored(b)'
  <2>1. \E T \in SUBSET Tracks : InsertRows(T, "prepare_hls")
    BY <1>2 DEF EnqueueMissing, Missing
  <2>2. /\ \A x \in Workers : x # w => wrk'[x] = wrk[x]
        /\ ~At(w, "commit") /\ UNCHANGED <<row, owner, object, lost, items, seed>>
    BY <1>2, Moved DEF EnqueueMissing, At, rowVars, sesVars
  <2>3. \A x \in Workers : At(x, "commit") =>
            wrk'[x] = wrk[x] /\ jobOf'[wrk[x].job] = jobOf[wrk[x].job]
    BY <2>1, <2>2, Inserted DEF At, Holding, HolderGood, JobPC
  <2>4. \A t : Committing(t) => Committing(t)'
    BY <2>3, CommittingKept
  <2> QED
    BY <2>2, <2>4, StoredKept DEF Keeping
<1>3. ASSUME NEW w \in Workers, WorkerCrash(w) PROVE Stored(b)'
  <2> DEFINE t == jobOf[wrk[w].job]
  <2>1. /\ \A x \in Workers : x # w => wrk'[x] = wrk[x]
        /\ lost' = lost \cup (IF At(w, "commit") THEN Victims(t) ELSE {})
        /\ UNCHANGED <<row, owner, object, jobOf, items, seed>>
    BY <1>3 DEF WorkerCrash, Unfinished, rowVars, jobVars, sesVars, TypeOK
  <2>2. CASE At(w, "commit") /\ owner[b] = t
    <3>1. Referenced(b)' = Referenced(b) /\ (~Referenced(b) => b \in lost')
      BY <2>1, <2>2 DEF Referenced, Victims
    <3> QED
      BY <2>1, <3>1 DEF Keeping, Stored
  <2>3. CASE ~(At(w, "commit") /\ owner[b] = t)
    <3>1. /\ Referenced(b)' = Referenced(b) /\ Aged(b)' = Aged(b)
          /\ (\E x \in Workers : At(x, "commit") /\ jobOf[wrk[x].job] = owner[b]) =>
                 \E x \in Workers : At(x, "commit")' /\ jobOf'[wrk'[x].job] = owner'[b]
      BY <2>1, <2>3 DEF Referenced, Aged, At
    <3> QED
      BY <2>1, <3>1 DEF Keeping, Stored, Committing
  <2> QED
    BY <2>2, <2>3
<1>4. ASSUME NEW w \in Workers, PrepareLoad(w) PROVE Stored(b)'
  BY <1>4, Moved
     DEF PrepareLoad, At, rowVars, jobVars, sesVars, TypeOK, Stored, Committing,
        Keeping, Aged, Referenced, Idle, Holding, HolderGood, JobPC
<1>5. ASSUME NEW w \in Workers, PreparePackage(w) PROVE Stored(b)'
  <2>1. \A x \in Workers : At(x, "commit") =>
            wrk'[x] = wrk[x] /\ jobOf'[wrk[x].job] = jobOf[wrk[x].job]
    BY <1>5, Packaged DEF At
  <2>2. \A t : Committing(t) => Committing(t)'
    BY <2>1, CommittingKept
  <2>3. object \subseteq object' /\ UNCHANGED <<row, owner, lost, items, seed>>
    BY <1>5, Packaged
  <2> QED
    BY <2>2, <2>3, StoredKept DEF Keeping
<1>6. ASSUME NEW w \in Workers, PrepareInstall(w) PROVE Stored(b)'
  <2> DEFINE c == wrk[w].asset
             t == jobOf[wrk[w].job]
  <2>1. /\ c \in Assets /\ t \in Tracks /\ row[c] = "free" /\ c \in object
        /\ track[t] = "ready" /\ Current(t) = {} /\ ~Locked(t)
    BY <1>6 DEF PrepareInstall, At, Holding, HolderGood, JobPC, DraftPC, JobGood, Drafting, DraftGood
  <2>2. PICK pc \in {"ack", "drop"} : Goto(w, pc)
    BY <1>6 DEF PrepareInstall
  <2>3. \A x \in Workers : /\ wrk'[x].pc = IF x = w THEN pc ELSE wrk[x].pc
                           /\ wrk'[x].job = wrk[x].job /\ wrk'[x].asset = wrk[x].asset
    BY <2>2, Moved
  <2>4. \A a \in Assets : /\ row'[a] = IF a = c THEN "current" ELSE row[a]
                          /\ owner'[a] = IF a = c THEN t ELSE owner[a]
    BY <1>6, <2>1 DEF PrepareInstall, TypeOK
  <2>5. UNCHANGED <<object, track, m4a, jobOf, items, seed>> /\ lost \subseteq lost'
    BY <1>6 DEF PrepareInstall, jobVars, sesVars
  <2>6. \A x \in Workers : At(x, "commit") =>
            wrk'[x] = wrk[x] /\ jobOf'[wrk[x].job] = jobOf[wrk[x].job]
    BY <1>6, <2>5 DEF PrepareInstall, At, Goto, TypeOK
  <2>7. \A u : Committing(u) => Committing(u)'
    BY <2>6, CommittingKept
  <2>8. CASE b = c
    BY <2>1, <2>4, <2>5, <2>8 DEF Stored
  <2>9. CASE b # c
    BY <2>4, <2>5, <2>7, <2>9, StoredKept DEF Keeping
  <2> QED
    BY <2>8, <2>9
<1>7. ASSUME NEW w \in Workers, PrepareRefused(w) PROVE Stored(b)'
  BY <1>7, Moved
     DEF PrepareRefused, At, rowVars, jobVars, sesVars, TypeOK, Stored, Committing,
        Keeping, Aged, Referenced, Idle, Holding, HolderGood, JobPC
<1>8. ASSUME NEW w \in Workers, PrepareDrop(w) PROVE Stored(b)'
  <2>1. \A x \in Workers : At(x, "commit") =>
            wrk'[x] = wrk[x] /\ jobOf'[wrk[x].job] = jobOf[wrk[x].job]
    BY <1>8, Dropped DEF At
  <2>2. \A t : Committing(t) => Committing(t)'
    BY <2>1, CommittingKept
  <2>3. /\ object' = object \ {wrk[w].asset} /\ UNCHANGED <<row, owner, lost, items, seed>>
        /\ row[wrk[w].asset] = "free" \/ wrk[w].asset \in lost
    BY <1>8, Dropped DEF Drafting, DraftGood
  <2>4. CASE row[b] = "free"
    BY <2>3, <2>4 DEF Stored
  <2>5. CASE row[b] # "free"
    <3>1. b \in object \cup lost => b \in object' \cup lost'
      BY <2>3, <2>5
    <3> QED
      BY <2>2, <2>3, <3>1, StoredKept DEF Keeping
  <2> QED
    BY <2>4, <2>5
<1>9. ASSUME NEW w \in Workers, PrepareFails(w) PROVE Stored(b)'
  <2>1. PICK pc \in {"fail", "drop"} : Goto(w, pc)
    BY <1>9 DEF PrepareFails
  <2>2. wrk[w].pc # "commit" /\ UNCHANGED <<row, owner, object, lost, jobOf, items, seed>>
    BY <1>9 DEF PrepareFails, At, rowVars, jobVars, sesVars
  <2>3. \A x \in Workers : x # w => wrk'[x] = wrk[x]
    BY <2>1 DEF Goto, TypeOK
  <2>4. \A t : Committing(t) => Committing(t)'
    BY <2>2, <2>3, CommittingKept DEF At
  <2> QED
    BY <2>2, <2>4, StoredKept DEF Keeping
<1>10. ASSUME NEW w \in Workers, DeleteLock(w) PROVE Stored(b)'
  BY <1>10, Moved
     DEF DeleteLock, At, rowVars, jobVars, sesVars, TypeOK, Stored, Committing, Keeping,
        Aged, Referenced, Idle, Holding, HolderGood, JobPC
<1>11. ASSUME NEW w \in Workers, DeleteObjects(w) PROVE Stored(b)'
  <2> DEFINE t == jobOf[wrk[w].job]
  <2>1. UNCHANGED <<row, owner, jobOf, items, seed>> /\ At(w, "remove")
    BY <1>11 DEF DeleteObjects, rowVars, jobVars, sesVars
  <2>2. \A x \in Workers : At(x, "commit") =>
            wrk'[x] = wrk[x] /\ jobOf'[wrk[x].job] = jobOf[wrk[x].job]
    BY <1>11, <2>1 DEF DeleteObjects, At, Goto, TypeOK
  <2>3. \A u : Committing(u) => Committing(u)'
    BY <2>2, CommittingKept
  <2>4. CASE object' = object \ Victims(t) /\ Goto(w, "commit") /\ UNCHANGED lost
    <3>1. CASE b \in Victims(t)
      <4>1. owner[b] = t /\ ~Referenced(b) /\ ~Referenced(b)'
        BY <2>1, <3>1 DEF Victims, Referenced
      <4>2. wrk'[w].pc = "commit" /\ jobOf'[wrk'[w].job] = owner'[b]
        BY <2>1, <2>4, <4>1, Moved
      <4> QED
        BY <4>1, <4>2 DEF Stored, Committing, At
    <3>2. CASE b \notin Victims(t)
      BY <2>1, <2>3, <2>4, <3>2, StoredKept DEF Keeping
    <3> QED
      BY <3>1, <3>2
  <2>5. CASE \E D \in SUBSET Victims(t) : object' = object \ D /\ lost' = lost \cup D
    BY <2>1, <2>3, <2>5, StoredKept DEF Keeping
  <2> QED
    BY <1>11, <2>4, <2>5 DEF DeleteObjects
<1>12. ASSUME NEW w \in Workers, DeleteCommit(w) PROVE Stored(b)'
  <2> DEFINE t == jobOf[wrk[w].job]
  <2>1. /\ \A x \in Workers : x # w => wrk'[x] = wrk[x]
        /\ row'[b] = IF b \in Victims(t) THEN "deleted" ELSE row[b]
        /\ owner'[b] = IF owner[b] = t THEN NoTrack ELSE owner[b]
        /\ UNCHANGED <<object, lost, jobOf, items, seed>>
    BY <1>12, Moved DEF DeleteCommit, sesVars, TypeOK
  <2>2. CASE owner[b] = t
    BY <2>1, <2>2, HlsConstants DEF Stored
  <2>3. CASE owner[b] # t
    <3>1. row'[b] = row[b] /\ owner'[b] = owner[b]
      BY <2>1, <2>3 DEF Victims
    <3>2. Referenced(b)' = Referenced(b) /\ Aged(b)' = Aged(b)
      BY <2>1, <3>1 DEF Referenced, Aged
    <3>3. (\E x \in Workers : At(x, "commit") /\ jobOf[wrk[x].job] = owner[b]) =>
              \E x \in Workers : At(x, "commit")' /\ jobOf'[wrk'[x].job] = owner'[b]
      BY <2>1, <2>3, <3>1 DEF At
    <3> QED
      BY <2>1, <3>1, <3>2, <3>3 DEF Keeping, Stored, Committing
  <2> QED
    BY <2>2, <2>3
<1>13. ASSUME NEW w \in Workers, DeleteAborts(w) PROVE Stored(b)'
  <2> DEFINE t == jobOf[wrk[w].job]
  <2>1. /\ \A x \in Workers : x # w => wrk'[x] = wrk[x]
        /\ lost' = lost \cup (IF At(w, "commit") THEN Victims(t) ELSE {})
        /\ UNCHANGED <<row, owner, object, jobOf, items, seed>>
    BY <1>13 DEF DeleteAborts, Goto, Unfinished, rowVars, jobVars, sesVars, TypeOK
  <2>2. CASE At(w, "commit") /\ owner[b] = t
    <3>1. Referenced(b)' = Referenced(b) /\ (~Referenced(b) => b \in lost')
      BY <2>1, <2>2 DEF Referenced, Victims
    <3> QED
      BY <2>1, <3>1 DEF Keeping, Stored
  <2>3. CASE ~(At(w, "commit") /\ owner[b] = t)
    <3>1. /\ Referenced(b)' = Referenced(b) /\ Aged(b)' = Aged(b)
          /\ (\E x \in Workers : At(x, "commit") /\ jobOf[wrk[x].job] = owner[b]) =>
                 \E x \in Workers : At(x, "commit")' /\ jobOf'[wrk'[x].job] = owner'[b]
      BY <2>1, <2>3 DEF Referenced, Aged, At
    <3> QED
      BY <2>1, <3>1 DEF Keeping, Stored, Committing
  <2> QED
    BY <2>2, <2>3
<1>14. ASSUME NEW w \in Workers, Acknowledge(w) PROVE Stored(b)'
  BY <1>14, Moved
     DEF Acknowledge, At, rowVars, sesVars, Idle, TypeOK, Stored, Committing, Keeping,
        Aged, Referenced, Holding, HolderGood, JobPC
<1>15. ASSUME NEW w \in Workers, RecordFailure(w) PROVE Stored(b)'
  BY <1>15, Moved
     DEF RecordFailure, At, sesVars, Idle, TypeOK, Stored, Committing, Keeping, Aged,
        Referenced, Holding, HolderGood, JobPC
<1>16. ASSUME NEW w \in Workers, FailureNotRecorded(w) PROVE Stored(b)'
  BY <1>16, Moved
     DEF FailureNotRecorded, At, rowVars, jobVars, sesVars, Idle, TypeOK, Stored,
        Committing, Keeping, Aged, Referenced, Holding, HolderGood, JobPC
<1>17. ASSUME NEW w \in Workers, SweepObject(w) PROVE Stored(b)'
  <2>1. /\ object' = object \ {wrk[w].asset} /\ Doomed(wrk[w].asset)
        /\ UNCHANGED <<row, owner, lost, jobOf, items, seed>>
    BY <1>17 DEF SweepObject, At, Sweeping, SweepGood, SweepPC, rowVars, jobVars, sesVars
  <2>2. \A x \in Workers : At(x, "commit") =>
            wrk'[x] = wrk[x] /\ jobOf'[wrk[x].job] = jobOf[wrk[x].job]
    BY <1>17, <2>1 DEF SweepObject, At, Goto, TypeOK
  <2>3. \A u : Committing(u) => Committing(u)'
    BY <2>2, CommittingKept
  <2>4. CASE b = wrk[w].asset
    <3>1. /\ Doomed(b) /\ UNCHANGED <<row, owner>>
          /\ Referenced(b)' = Referenced(b) /\ Aged(b)' = Aged(b)
      BY <2>1, <2>4 DEF Referenced, Aged
    <3> QED
      BY <3>1, HlsConstants DEF Doomed, Stored
  <2>5. CASE b # wrk[w].asset
    BY <2>1, <2>3, <2>5, StoredKept DEF Keeping
  <2> QED
    BY <2>4, <2>5
<1>18. ASSUME NEW w \in Workers, SweepRow(w) PROVE Stored(b)'
  BY <1>18, Moved
     DEF SweepRow, At, jobVars, sesVars, Idle, TypeOK, Stored, Committing, Keeping,
        Aged, Referenced, Holding, HolderGood, JobPC
<1>19. ASSUME NEW w \in Workers, SweepGivesUp(w) PROVE Stored(b)'
  BY <1>19, Moved
     DEF SweepGivesUp, rowVars, jobVars, sesVars, Idle, TypeOK, Stored, Committing,
        Keeping, Aged, Referenced, At, Holding, HolderGood, JobPC
<1>20. ASSUME NEW w \in Workers, NEW j \in Jobs, Claim(w, j) PROVE Stored(b)'
  BY <1>20, Moved
     DEF Claim, At, rowVars, sesVars, TypeOK, Stored, Committing, Keeping, Aged,
        Referenced, Idle, Holding, HolderGood, JobPC
<1>21. ASSUME NEW w \in Workers, NEW a \in Assets, SweepSelect(w, a) PROVE Stored(b)'
  BY <1>21, Selected
     DEF TypeOK, Stored, Committing, Keeping, Aged, Referenced, Idle, At, Holding,
        HolderGood, JobPC
<1>22. ASSUME NEW t \in Tracks, AdminRetry(t) PROVE Stored(b)'
  <2>1. InsertRows({t}, "prepare_hls")
    BY <1>22 DEF AdminRetry
  <2> QED
    BY <1>22, <2>1, Inserted DEF TypeOK, Keeping, Stored, Committing, Aged, Referenced, At, Holding, HolderGood, JobPC, Rest, Idle, Missing, AdminRetry, rowVars, sesVars
<1>23. ASSUME NEW t \in Tracks, Reprocess(t) PROVE Stored(b)'
  BY <1>23, Moved
     DEF Reprocess, jobVars, sesVars, TypeOK, Stored, Committing, Keeping, Aged,
        Referenced, Idle, At, Holding, HolderGood, JobPC
<1>24. ASSUME NEW t \in Tracks, Republish(t) PROVE Stored(b)'
  <2>1. PICK c \in Fresh :
            /\ row' = [d \in Assets |-> IF d = c THEN "current"
                                        ELSE IF d \in Current(t) THEN "retired" ELSE row[d]]
            /\ owner' = [owner EXCEPT ![c] = t] /\ object' = object \cup {c}
    BY <1>24 DEF Republish
  <2>2. /\ c \in Assets /\ row[c] = "free" /\ c \notin object
        /\ \A x \in Workers : wrk[x].asset # c
    BY DEF Fresh
  <2>3. \A a \in Assets : /\ owner'[a] = IF a = c THEN t ELSE owner[a]
                          /\ row'[a] = IF a = c THEN "current"
                                      ELSE IF row[a] = "current" /\ owner[a] = t
                                           THEN "retired" ELSE row[a]
    BY <2>1 DEF TypeOK, Current
  <2>4. UNCHANGED <<lost, jobOf, items, seed, wrk>>
    BY <1>24 DEF Republish, jobVars, sesVars
  <2>5. CASE b = c
    BY <2>1, <2>5, <2>2 DEF Stored
  <2>6. CASE b # c
    <3>1. /\ owner'[b] = owner[b] /\ Referenced(b)' = Referenced(b)
          /\ row'[b] \in {row[b], "retired"} /\ (row'[b] # row[b] => row[b] = "current")
          /\ object \subseteq object'
      BY <2>1, <2>3, <2>4, <2>6 DEF Referenced
    <3>2. Aged(b) => Aged(b)'
      BY <2>4, <3>1 DEF Aged
    <3>3. (\E x \in Workers : At(x, "commit") /\ jobOf[wrk[x].job] = owner[b]) =>
              \E x \in Workers : At(x, "commit")' /\ jobOf'[wrk'[x].job] = owner'[b]
      BY <2>4, <3>1 DEF At
    <3> QED
      BY <2>4, <3>1, <3>2, <3>3 DEF Keeping, Stored, Committing
  <2> QED
    BY <2>5, <2>6
<1>25. ASSUME NEW t \in Tracks, RequestDeletion(t) PROVE Stored(b)'
  <2>1. InsertRows({t}, "delete_track")
    BY <1>25 DEF RequestDeletion
  <2> QED
    BY <1>25, <2>1, Inserted DEF TypeOK, Keeping, Stored, Committing, Aged, Referenced, At, Holding, HolderGood, JobPC, Rest, Idle, Missing, RequestDeletion, sesVars
<1>26. ASSUME NEW s \in Sessions, NEW T \in SUBSET Tracks, SeedRead(s, T) PROVE Stored(b)'
  <2>1. /\ UNCHANGED <<row, owner, object, lost, jobOf, items, wrk>>
        /\ \A q \in Sessions : seed'[q] = IF q = s THEN UNION {Current(t) : t \in T} ELSE seed[q]
    BY <1>26 DEF SeedRead, rowVars, jobVars, TypeOK
  <2>2. \A a \in UNION {Current(t) : t \in T} : row[a] = "current"
    BY DEF Current
  <2>3. /\ Referenced(b)' = Referenced(b) /\ (Aged(b) => Aged(b)')
        /\ Committing(owner[b]) => Committing(owner[b])'
    BY <2>1, <2>2 DEF Referenced, Aged, Committing, At
  <2> QED
    BY <2>1, <2>3 DEF Keeping, Stored
<1>27. ASSUME NEW s \in Sessions, Pin(s) PROVE Stored(b)'
  <2>1. /\ UNCHANGED <<row, owner, object, lost, jobOf, wrk>>
        /\ \A q \in Sessions : /\ items'[q] = IF q = s THEN items[s] \cup seed[s] ELSE items[q]
                               /\ seed'[q] = IF q = s THEN {} ELSE seed[q]
    BY <1>27 DEF Pin, rowVars, jobVars, TypeOK
  <2>2. ASSUME NEW c \in seed[s] PROVE c \in object \cup lost
    <3>1. /\ c \in Assets /\ row[c] \in {"current", "retired"}
          /\ owner[c] # NoTrack /\ ~Locked(owner[c])
      BY <1>27, <2>2 DEF Pin, TypeOK
    <3>2. owner[c] \in Tracks
      BY <3>1 DEF TypeOK
    <3>3. ~Aged(c) /\ ~Committing(owner[c])
      BY <2>2, <3>1 DEF Aged, Committing, Locked, At
    <3> QED
      BY <3>1, <3>2, <3>3 DEF Keeping, Stored
  <2>3. CASE b \in seed[s]
    BY <2>1, <2>2, <2>3 DEF Stored
  <2>4. CASE b \notin seed[s]
    <3>1. /\ Referenced(b)' = Referenced(b) /\ (Aged(b) => Aged(b)')
          /\ Committing(owner[b]) => Committing(owner[b])'
      BY <2>1, <2>4 DEF Referenced, Aged, Committing, At
    <3> QED
      BY <2>1, <3>1 DEF Keeping, Stored
  <2> QED
    BY <2>3, <2>4
<1>28. ASSUME NEW s \in Sessions, SeedDropped(s) PROVE Stored(b)'
  BY <1>28, Moved
     DEF SeedDropped, rowVars, jobVars, TypeOK, Stored, Committing, Keeping, Aged,
        Referenced, Idle, At, Holding, HolderGood, JobPC
<1>29. ASSUME NEW s \in Sessions, SessionEnds(s) PROVE Stored(b)'
  BY <1>29, Moved
     DEF SessionEnds, rowVars, jobVars, TypeOK, Stored, Committing, Keeping, Aged,
        Referenced, Idle, At, Holding, HolderGood, JobPC
<1> QED
  BY <1>1, <1>2, <1>3, <1>4, <1>5, <1>6, <1>7, <1>8, <1>9, <1>10, <1>11, <1>12, <1>13,
     <1>14, <1>15, <1>16, <1>17, <1>18, <1>19, <1>20, <1>21, <1>22, <1>23, <1>24, <1>25,
     <1>26, <1>27, <1>28, <1>29
     DEF Next, HeldStep, PrepareStep, DeleteStep

\* A track that is ready keeps its progressive file.
LEMMA FileStep ==
    ASSUME HlsConstants, TypeOK, Holding, Deleting, Keeping, NEW u \in Tracks, Next
    PROVE  FileGood(u)'
<1>1. ASSUME NEW w \in Workers, WorkerStart(w) PROVE FileGood(u)'
  BY <1>1
     DEF WorkerStart, At, sesVars, TypeOK, Keeping, FileGood, Holding, HolderGood,
        JobGood, JobPC, Deleting, DeletionGood, LockPC
<1>2. ASSUME NEW w \in Workers, EnqueueMissing(w) PROVE FileGood(u)'
  BY <1>2
     DEF EnqueueMissing, At, rowVars, sesVars, Idle, TypeOK, Keeping, FileGood, Holding,
        HolderGood, JobGood, JobPC, Deleting, DeletionGood, LockPC
<1>3. ASSUME NEW w \in Workers, WorkerCrash(w) PROVE FileGood(u)'
  BY <1>3
     DEF WorkerCrash, At, rowVars, jobVars, sesVars, Idle, Down, TypeOK, Keeping,
        FileGood, Holding, HolderGood, JobGood, JobPC, Deleting, DeletionGood, LockPC
<1>4. ASSUME NEW w \in Workers, PrepareLoad(w) PROVE FileGood(u)'
  BY <1>4
     DEF PrepareLoad, At, rowVars, jobVars, sesVars, TypeOK, Keeping, FileGood, Holding,
        HolderGood, JobGood, JobPC, Deleting, DeletionGood, LockPC
<1>5. ASSUME NEW w \in Workers, PreparePackage(w) PROVE FileGood(u)'
  BY <1>5, Packaged
     DEF TypeOK, Keeping, FileGood, Holding, HolderGood, JobGood, JobPC, Deleting,
        DeletionGood, LockPC
<1>6. ASSUME NEW w \in Workers, PrepareInstall(w) PROVE FileGood(u)'
  BY <1>6
     DEF PrepareInstall, At, jobVars, sesVars, TypeOK, Keeping, FileGood, Holding,
        HolderGood, JobGood, JobPC, Deleting, DeletionGood, LockPC
<1>7. ASSUME NEW w \in Workers, PrepareRefused(w) PROVE FileGood(u)'
  BY <1>7
     DEF PrepareRefused, At, rowVars, jobVars, sesVars, TypeOK, Keeping, FileGood,
        Holding, HolderGood, JobGood, JobPC, Deleting, DeletionGood, LockPC
<1>8. ASSUME NEW w \in Workers, PrepareDrop(w) PROVE FileGood(u)'
  BY <1>8, Dropped
     DEF TypeOK, Keeping, FileGood, Holding, HolderGood, JobGood, JobPC, Deleting,
        DeletionGood, LockPC
<1>9. ASSUME NEW w \in Workers, PrepareFails(w) PROVE FileGood(u)'
  BY <1>9
     DEF PrepareFails, At, rowVars, jobVars, sesVars, TypeOK, Keeping, FileGood,
        Holding, HolderGood, JobGood, JobPC, Deleting, DeletionGood, LockPC
<1>10. ASSUME NEW w \in Workers, DeleteLock(w) PROVE FileGood(u)'
  BY <1>10
     DEF DeleteLock, At, rowVars, jobVars, sesVars, TypeOK, Keeping, FileGood, Holding,
        HolderGood, JobGood, JobPC, Deleting, DeletionGood, LockPC
<1>11. ASSUME NEW w \in Workers, DeleteObjects(w) PROVE FileGood(u)'
  BY <1>11
     DEF DeleteObjects, At, rowVars, jobVars, sesVars, TypeOK, Keeping, FileGood,
        Holding, HolderGood, JobGood, JobPC, Deleting, DeletionGood, LockPC
<1>12. ASSUME NEW w \in Workers, DeleteCommit(w) PROVE FileGood(u)'
  BY <1>12
     DEF DeleteCommit, At, sesVars, Idle, TypeOK, Keeping, FileGood, Holding,
        HolderGood, JobGood, JobPC, Deleting, DeletionGood, LockPC
<1>13. ASSUME NEW w \in Workers, DeleteAborts(w) PROVE FileGood(u)'
  BY <1>13
     DEF DeleteAborts, rowVars, jobVars, sesVars, TypeOK, Keeping, FileGood, Holding,
        HolderGood, JobGood, JobPC, Deleting, DeletionGood, LockPC
<1>14. ASSUME NEW w \in Workers, Acknowledge(w) PROVE FileGood(u)'
  BY <1>14
     DEF Acknowledge, At, rowVars, sesVars, Idle, TypeOK, Keeping, FileGood, Holding,
        HolderGood, JobGood, JobPC, Deleting, DeletionGood, LockPC
<1>15. ASSUME NEW w \in Workers, RecordFailure(w) PROVE FileGood(u)'
  BY <1>15
     DEF RecordFailure, At, sesVars, Idle, TypeOK, Keeping, FileGood, Holding,
        HolderGood, JobGood, JobPC, Deleting, DeletionGood, LockPC
<1>16. ASSUME NEW w \in Workers, FailureNotRecorded(w) PROVE FileGood(u)'
  BY <1>16
     DEF FailureNotRecorded, At, rowVars, jobVars, sesVars, Idle, TypeOK, Keeping,
        FileGood, Holding, HolderGood, JobGood, JobPC, Deleting, DeletionGood, LockPC
<1>17. ASSUME NEW w \in Workers, SweepObject(w) PROVE FileGood(u)'
  BY <1>17
     DEF SweepObject, At, rowVars, jobVars, sesVars, TypeOK, Keeping, FileGood, Holding,
        HolderGood, JobGood, JobPC, Deleting, DeletionGood, LockPC
<1>18. ASSUME NEW w \in Workers, SweepRow(w) PROVE FileGood(u)'
  BY <1>18
     DEF SweepRow, At, jobVars, sesVars, Idle, TypeOK, Keeping, FileGood, Holding,
        HolderGood, JobGood, JobPC, Deleting, DeletionGood, LockPC
<1>19. ASSUME NEW w \in Workers, SweepGivesUp(w) PROVE FileGood(u)'
  BY <1>19
     DEF SweepGivesUp, rowVars, jobVars, sesVars, Idle, TypeOK, Keeping, FileGood,
        Holding, HolderGood, JobGood, JobPC, Deleting, DeletionGood, LockPC
<1>20. ASSUME NEW w \in Workers, NEW j \in Jobs, Claim(w, j) PROVE FileGood(u)'
  BY <1>20
     DEF Claim, At, rowVars, sesVars, TypeOK, Keeping, FileGood, Holding, HolderGood,
        JobGood, JobPC, Deleting, DeletionGood, LockPC
<1>21. ASSUME NEW w \in Workers, NEW a \in Assets, SweepSelect(w, a) PROVE FileGood(u)'
  BY <1>21, Selected
     DEF TypeOK, Keeping, FileGood, Holding, HolderGood, JobGood, JobPC, Deleting,
        DeletionGood, LockPC
<1>22. ASSUME NEW t \in Tracks, AdminRetry(t) PROVE FileGood(u)'
  BY <1>22
     DEF AdminRetry, rowVars, sesVars, TypeOK, Keeping, FileGood, Holding, HolderGood,
        JobGood, JobPC, Deleting, DeletionGood, LockPC
<1>23. ASSUME NEW t \in Tracks, Reprocess(t) PROVE FileGood(u)'
  BY <1>23
     DEF Reprocess, jobVars, sesVars, TypeOK, Keeping, FileGood, Holding, HolderGood,
        JobGood, JobPC, Deleting, DeletionGood, LockPC
<1>24. ASSUME NEW t \in Tracks, Republish(t) PROVE FileGood(u)'
  BY <1>24
     DEF Republish, jobVars, sesVars, TypeOK, Keeping, FileGood, Holding, HolderGood,
        JobGood, JobPC, Deleting, DeletionGood, LockPC
<1>25. ASSUME NEW t \in Tracks, RequestDeletion(t) PROVE FileGood(u)'
  BY <1>25
     DEF RequestDeletion, sesVars, TypeOK, Keeping, FileGood, Holding, HolderGood,
        JobGood, JobPC, Deleting, DeletionGood, LockPC
<1>26. ASSUME NEW s \in Sessions, NEW T \in SUBSET Tracks, SeedRead(s, T) PROVE FileGood(u)'
  BY <1>26
     DEF SeedRead, rowVars, jobVars, TypeOK, Keeping, FileGood, Holding, HolderGood,
        JobGood, JobPC, Deleting, DeletionGood, LockPC
<1>27. ASSUME NEW s \in Sessions, Pin(s) PROVE FileGood(u)'
  BY <1>27
     DEF Pin, rowVars, jobVars, TypeOK, Keeping, FileGood, Holding, HolderGood, JobGood,
        JobPC, Deleting, DeletionGood, LockPC
<1>28. ASSUME NEW s \in Sessions, SeedDropped(s) PROVE FileGood(u)'
  BY <1>28
     DEF SeedDropped, rowVars, jobVars, TypeOK, Keeping, FileGood, Holding, HolderGood,
        JobGood, JobPC, Deleting, DeletionGood, LockPC
<1>29. ASSUME NEW s \in Sessions, SessionEnds(s) PROVE FileGood(u)'
  BY <1>29
     DEF SessionEnds, rowVars, jobVars, TypeOK, Keeping, FileGood, Holding, HolderGood,
        JobGood, JobPC, Deleting, DeletionGood, LockPC
<1> QED
  BY <1>1, <1>2, <1>3, <1>4, <1>5, <1>6, <1>7, <1>8, <1>9, <1>10, <1>11, <1>12, <1>13,
     <1>14, <1>15, <1>16, <1>17, <1>18, <1>19, <1>20, <1>21, <1>22, <1>23, <1>24, <1>25,
     <1>26, <1>27, <1>28, <1>29
     DEF Next, HeldStep, PrepareStep, DeleteStep

\* What sessions reference stays stored.
LEMMA PinnedStep ==
    ASSUME HlsConstants, TypeOK, Holding, Drafting, Sweeping, Keeping, PinnedStored,
           \A a \in Assets : RowGood(a), Next
    PROVE  PinnedStored'
<1>1. ASSUME NEW w \in Workers, WorkerStart(w) PROVE PinnedStored'
  BY <1>1 DEF WorkerStart, At, sesVars, TypeOK, PinnedStored
<1>2. ASSUME NEW w \in Workers, EnqueueMissing(w) PROVE PinnedStored'
  BY <1>2 DEF EnqueueMissing, At, rowVars, sesVars, Idle, TypeOK, PinnedStored
<1>3. ASSUME NEW w \in Workers, WorkerCrash(w) PROVE PinnedStored'
  BY <1>3
     DEF WorkerCrash, At, rowVars, jobVars, sesVars, Idle, Down, TypeOK, PinnedStored
<1>4. ASSUME NEW w \in Workers, PrepareLoad(w) PROVE PinnedStored'
  BY <1>4 DEF PrepareLoad, At, rowVars, jobVars, sesVars, TypeOK, PinnedStored
<1>5. ASSUME NEW w \in Workers, PreparePackage(w) PROVE PinnedStored'
  BY <1>5, Packaged DEF TypeOK, PinnedStored
<1>6. ASSUME NEW w \in Workers, PrepareInstall(w) PROVE PinnedStored'
  BY <1>6 DEF PrepareInstall, At, jobVars, sesVars, TypeOK, PinnedStored
<1>7. ASSUME NEW w \in Workers, PrepareRefused(w) PROVE PinnedStored'
  BY <1>7 DEF PrepareRefused, At, rowVars, jobVars, sesVars, TypeOK, PinnedStored
<1>8. ASSUME NEW w \in Workers, PrepareDrop(w) PROVE PinnedStored'
  <2>1. /\ object' = object \ {wrk[w].asset} /\ UNCHANGED <<items, lost>>
        /\ wrk[w].pc \in {"drop", "discard"}
    BY <1>8, Dropped
  <2>2. row[wrk[w].asset] = "free" \/ wrk[w].asset \in lost
    BY <2>1 DEF Drafting, DraftGood
  <2>3. wrk[w].asset \in Assets
    BY <2>1 DEF Holding, HolderGood, DraftPC
  <2>4. ASSUME NEW s \in Sessions, NEW c \in items[s] PROVE c \in object' \cup lost'
    <3>1. c \in object \cup lost /\ c \in Assets /\ row[c] # "free"
      BY <2>4 DEF PinnedStored, TypeOK, RowGood, Referenced
    <3> QED
      BY <2>1, <2>2, <3>1
  <2> QED
    BY <2>1, <2>4 DEF PinnedStored
<1>9. ASSUME NEW w \in Workers, PrepareFails(w) PROVE PinnedStored'
  BY <1>9 DEF PrepareFails, At, rowVars, jobVars, sesVars, TypeOK, PinnedStored
<1>10. ASSUME NEW w \in Workers, DeleteLock(w) PROVE PinnedStored'
  BY <1>10 DEF DeleteLock, At, rowVars, jobVars, sesVars, TypeOK, PinnedStored
<1>11. ASSUME NEW w \in Workers, DeleteObjects(w) PROVE PinnedStored'
  <2>1. /\ items' = items /\ object \subseteq object' \cup Victims(jobOf[wrk[w].job])
        /\ lost \subseteq lost'
    BY <1>11 DEF DeleteObjects, sesVars
  <2> QED
    BY <2>1 DEF PinnedStored, Victims, Referenced
<1>12. ASSUME NEW w \in Workers, DeleteCommit(w) PROVE PinnedStored'
  BY <1>12 DEF DeleteCommit, At, sesVars, Idle, TypeOK, PinnedStored
<1>13. ASSUME NEW w \in Workers, DeleteAborts(w) PROVE PinnedStored'
  BY <1>13 DEF DeleteAborts, rowVars, jobVars, sesVars, TypeOK, PinnedStored
<1>14. ASSUME NEW w \in Workers, Acknowledge(w) PROVE PinnedStored'
  BY <1>14 DEF Acknowledge, At, rowVars, sesVars, Idle, TypeOK, PinnedStored
<1>15. ASSUME NEW w \in Workers, RecordFailure(w) PROVE PinnedStored'
  BY <1>15 DEF RecordFailure, At, sesVars, Idle, TypeOK, PinnedStored
<1>16. ASSUME NEW w \in Workers, FailureNotRecorded(w) PROVE PinnedStored'
  BY <1>16
     DEF FailureNotRecorded, At, rowVars, jobVars, sesVars, Idle, TypeOK, PinnedStored
<1>17. ASSUME NEW w \in Workers, SweepObject(w) PROVE PinnedStored'
  <2>1. /\ object' = object \ {wrk[w].asset} /\ Doomed(wrk[w].asset)
        /\ UNCHANGED <<row, owner, lost, jobOf, items, seed>>
    BY <1>17 DEF SweepObject, At, Sweeping, SweepGood, SweepPC, rowVars, jobVars, sesVars
  <2> QED
    BY <2>1 DEF PinnedStored, Doomed, Referenced
<1>18. ASSUME NEW w \in Workers, SweepRow(w) PROVE PinnedStored'
  BY <1>18 DEF SweepRow, At, jobVars, sesVars, Idle, TypeOK, PinnedStored
<1>19. ASSUME NEW w \in Workers, SweepGivesUp(w) PROVE PinnedStored'
  BY <1>19 DEF SweepGivesUp, rowVars, jobVars, sesVars, Idle, TypeOK, PinnedStored
<1>20. ASSUME NEW w \in Workers, NEW j \in Jobs, Claim(w, j) PROVE PinnedStored'
  BY <1>20 DEF Claim, At, rowVars, sesVars, TypeOK, PinnedStored
<1>21. ASSUME NEW w \in Workers, NEW a \in Assets, SweepSelect(w, a) PROVE PinnedStored'
  BY <1>21, Selected DEF TypeOK, PinnedStored
<1>22. ASSUME NEW t \in Tracks, AdminRetry(t) PROVE PinnedStored'
  BY <1>22 DEF AdminRetry, rowVars, sesVars, TypeOK, PinnedStored
<1>23. ASSUME NEW t \in Tracks, Reprocess(t) PROVE PinnedStored'
  BY <1>23 DEF Reprocess, jobVars, sesVars, TypeOK, PinnedStored
<1>24. ASSUME NEW t \in Tracks, Republish(t) PROVE PinnedStored'
  BY <1>24 DEF Republish, jobVars, sesVars, TypeOK, PinnedStored
<1>25. ASSUME NEW t \in Tracks, RequestDeletion(t) PROVE PinnedStored'
  BY <1>25 DEF RequestDeletion, sesVars, TypeOK, PinnedStored
<1>26. ASSUME NEW s \in Sessions, NEW T \in SUBSET Tracks, SeedRead(s, T)
       PROVE  PinnedStored'
  BY <1>26 DEF SeedRead, rowVars, jobVars, TypeOK, PinnedStored
<1>27. ASSUME NEW s \in Sessions, Pin(s) PROVE PinnedStored'
  <2>1. /\ UNCHANGED <<row, owner, object, lost, jobOf, wrk>>
        /\ \A q \in Sessions : /\ items'[q] = IF q = s THEN items[s] \cup seed[s] ELSE items[q]
                               /\ seed'[q] = IF q = s THEN {} ELSE seed[q]
    BY <1>27 DEF Pin, rowVars, jobVars, TypeOK
  <2>2. ASSUME NEW c \in seed[s] PROVE c \in object \cup lost
    <3>1. /\ c \in Assets /\ row[c] \in {"current", "retired"}
          /\ owner[c] # NoTrack /\ ~Locked(owner[c])
      BY <1>27, <2>2 DEF Pin, TypeOK
    <3>2. owner[c] \in Tracks
      BY <3>1 DEF TypeOK
    <3>3. ~Aged(c) /\ ~Committing(owner[c])
      BY <2>2, <3>1 DEF Aged, Committing, Locked, At
    <3> QED
      BY <3>1, <3>2, <3>3 DEF Keeping, Stored
  <2> QED
    BY <2>1, <2>2 DEF PinnedStored
<1>28. ASSUME NEW s \in Sessions, SeedDropped(s) PROVE PinnedStored'
  BY <1>28 DEF SeedDropped, rowVars, jobVars, TypeOK, PinnedStored
<1>29. ASSUME NEW s \in Sessions, SessionEnds(s) PROVE PinnedStored'
  BY <1>29 DEF SessionEnds, rowVars, jobVars, TypeOK, PinnedStored
<1> QED
  BY <1>1, <1>2, <1>3, <1>4, <1>5, <1>6, <1>7, <1>8, <1>9, <1>10, <1>11, <1>12, <1>13,
     <1>14, <1>15, <1>16, <1>17, <1>18, <1>19, <1>20, <1>21, <1>22, <1>23, <1>24, <1>25,
     <1>26, <1>27, <1>28, <1>29
     DEF Next, HeldStep, PrepareStep, DeleteStep

---------------------------------------------------------------------------
(* The theorems *)

\* In the first state nothing is held, referenced or removed.
LEMMA InitInv == HlsConstants /\ Init => Inv
<1> SUFFICES ASSUME HlsConstants, Init PROVE Inv
  OBVIOUS
<1>1. \A w \in Workers : wrk[w].pc = "down" /\ wrk[w] = Down
  BY DEF Init, Down, Idle
<1>2. Down \in [pc: WorkerPC, job: Jobs \cup {NoJob}, asset: Assets \cup {NoAsset}]
  BY DEF Down, Idle, WorkerPC
<1>3. TypeOK
  <2>1. wrk \in [Workers -> [pc: WorkerPC, job: Jobs \cup {NoJob},
                             asset: Assets \cup {NoAsset}]]
    BY <1>2 DEF Init
  <2> QED
    BY <2>1, HlsConstants DEF Init, TypeOK
<1>4. Holding
  BY <1>1, HlsConstants DEF Init, Holding, JobGood, HolderGood, JobPC, DraftPC, SweepPC
<1>5. (\A a \in Assets : RowGood(a)) /\ OneEach
  BY DEF Init, RowGood, Referenced, OneEach
<1>6. Deleting /\ Drafting /\ Sweeping
  BY <1>1 DEF Deleting, DeletionGood, LockPC, Drafting, DraftGood, DraftPC, Sweeping,
     SweepGood, SweepPC
<1>7. Keeping /\ PinnedStored
  BY DEF Init, Keeping, Stored, FileGood, PinnedStored
<1> QED
  BY <1>3, <1>4, <1>5, <1>6, <1>7 DEF Inv

\* A step that changes nothing keeps it.
LEMMA StutterInv == Inv /\ UNCHANGED vars => Inv'
<1> SUFFICES ASSUME Inv, UNCHANGED vars PROVE Inv'
  OBVIOUS
<1> USE DEF Inv, vars, rowVars, jobVars, sesVars
<1>1. TypeOK'
  BY DEF TypeOK
<1>2. Holding'
  BY DEF Holding, JobGood, HolderGood
<1>3. (\A a \in Assets : RowGood(a))' /\ OneEach'
  BY DEF RowGood, Referenced, OneEach
<1>4. Deleting' /\ Drafting'
  BY DEF Deleting, DeletionGood, Drafting, DraftGood
<1>5. Sweeping'
  BY DEF Sweeping, SweepGood, Doomed, Aged, Referenced
<1>6. Keeping'
  BY DEF Keeping, Stored, Committing, At, Aged, Referenced, FileGood
<1>7. PinnedStored'
  BY DEF PinnedStored
<1> QED
  BY <1>1, <1>2, <1>3, <1>4, <1>5, <1>6, <1>7

\* Every step keeps it.
LEMMA NextInv == HlsConstants /\ Inv /\ Next => Inv'
<1> SUFFICES ASSUME HlsConstants, Inv, Next PROVE Inv'
  OBVIOUS
<1>0. /\ TypeOK /\ Holding /\ (\A a \in Assets : RowGood(a)) /\ OneEach /\ Deleting
      /\ Drafting /\ Sweeping /\ Keeping /\ PinnedStored
  BY DEF Inv
<1>1. TypeOK'
  BY <1>0, TypeStep
<1>2. Holding'
  <2>1. \A j \in Jobs : JobGood(j)'
    BY <1>0, JobStep
  <2>2. \A w \in Workers : HolderGood(w)'
    BY <1>0, HolderStep
  <2> QED
    BY <2>1, <2>2 DEF Holding
<1>3. \A a \in Assets : RowGood(a)'
  BY <1>0, RowStep
<1>4. OneEach'
  BY <1>0, OneEachStep
<1>5. \A w \in Workers : DeletionGood(w)'
  BY <1>0, DeletionStep
<1>6. \A w \in Workers : DraftGood(w)'
  BY <1>0, DraftStep
<1>7. \A w \in Workers : SweepGood(w)'
  BY <1>0, SweepStep
<1>8. \A a \in Assets : Stored(a)'
  BY <1>0, StoredStep
<1>9. \A t \in Tracks : FileGood(t)'
  BY <1>0, FileStep
<1>10. PinnedStored'
  BY <1>0, PinnedStep
<1> QED
  BY <1>1, <1>2, <1>3, <1>4, <1>5, <1>6, <1>7, <1>8, <1>9, <1>10
  DEF Inv, Deleting, Drafting, Sweeping, Keeping

\* What the invariant says of a track and of what it offers.
LEMMA OneCurrent == Inv => OneCurrentAsset
<1> SUFFICES ASSUME Inv, NEW t \in Tracks PROVE Cardinality(Current(t)) <= 1
  BY DEF OneCurrentAsset
<1>1. CASE Current(t) = {}
  BY <1>1, FS_EmptySet
<1>2. CASE Current(t) # {}
  <2>1. PICK a \in Current(t) : TRUE
    BY <1>2
  <2>2. \A b \in Current(t) : b = a
    BY <2>1 DEF Inv, OneEach, Current
  <2>3. Current(t) = {a}
    BY <2>1, <2>2
  <2>4. Cardinality({a}) = 1
    BY FS_Singleton
  <2> QED
    BY <2>3, <2>4
<1> QED
  BY <1>1, <1>2

LEMMA Offered == Inv => ReadyStored
<1> SUFFICES ASSUME Inv, NEW t \in Tracks, track[t] = "ready"
             PROVE  t \in m4a /\ Current(t) \subseteq object \cup lost
  BY DEF ReadyStored
<1>1. t \in m4a
  BY DEF Inv, Keeping, FileGood
<1>2. ~Committing(t)
  BY DEF Inv, Deleting, DeletionGood, LockPC, Committing, At
<1>3. ASSUME NEW a \in Current(t) PROVE a \in object \cup lost
  <2>1. a \in Assets /\ row[a] = "current" /\ owner[a] = t
    BY <1>3 DEF Current
  <2>2. ~Aged(a) /\ ~Committing(owner[a])
    <3>1. ~Aged(a)
      BY <2>1 DEF Aged
    <3> QED
      BY <1>2, <2>1, <3>1
  <2> QED
    BY <2>1, <2>2 DEF Inv, Keeping, Stored
<1> QED
  BY <1>1, <1>3

\* Whatever the numbers of tracks, assets, jobs, sessions and workers, the invariant
\* holds in every reachable state.
THEOREM Invariance == Spec => []Inv
<1>1. Init => Inv
  BY HlsConstants, InitInv
<1>2. Inv /\ [Next]_vars => Inv'
  BY HlsConstants, NextInv, StutterInv
<1> QED
  BY <1>1, <1>2, PTL DEF Spec

\* The types hold; with them, a preparation is tried at most MaxAttempts times,
\* across reported failures, crashes and starts of other workers (claim, fail and
\* failStaleJobs of worker.go).
THEOREM TypeCorrect == Spec => []TypeOK
<1>1. Inv => TypeOK
  BY DEF Inv
<1> QED
  BY <1>1, Invariance, PTL

\* A track never has two current assets, whichever backfills and publications race
\* (prepareHLSAsset and persistReadyCMAFAsset of worker.go).
THEOREM OneCurrentAssetHolds == Spec => []OneCurrentAsset
BY OneCurrent, Invariance, PTL

\* A ready track has its progressive file and the object of its current asset, but
\* for the error paths that lost records (deleteTrack and prepareHLSAsset).
THEOREM ReadyStoredHolds == Spec => []ReadyStored
BY Offered, Invariance, PTL

\* The object of an asset that a session references stays stored while deletions and
\* the cleanup of retired assets run (deleteTrack, cleanupRetiredHLSAssets).
THEOREM PinnedStoredHolds == Spec => []PinnedStored
<1>1. Inv => PinnedStored
  BY DEF Inv
<1> QED
  BY <1>1, Invariance, PTL

===========================================================================
