----------------------- MODULE UploadPipelineProofs -----------------------
(***************************************************************************)
(* Proofs about UploadPipeline, for any sets of uploads, jobs, requests    *)
(* and workers, any operations in flight together and any of the faults:   *)
(* that the records stay coupled, that what is published stays playable    *)
(* and final for every upload that is not misled, and that the pipeline    *)
(* implements UploadLifecycle.                                             *)
(***************************************************************************)
EXTENDS UploadPipeline, TLAPS

\* The program counters of requests and workers stay typed, and keep their
\* upload, under the moves that the actions make.
LEMMA DoneType ==
    ASSUME RequestsOK, NEW r \in Requests, Done(r)
    PROVE  RequestsOK'
BY DEF RequestsOK, Done, IdleRequest, RequestPC

LEMMA GotoType ==
    ASSUME RequestsOK, NEW r \in Requests, NEW pc \in RequestPC,
           req[r].pc # "idle", Goto(r, pc)
    PROVE  RequestsOK'
BY DEF RequestsOK, Goto

LEMMA EnterType ==
    ASSUME RequestsOK, RowsOK, NEW r \in Requests, NEW u \in Uploads, NEW op,
           NEW pc \in RequestPC, Enter(r, op, u, pc)
    PROVE  RequestsOK'
BY DEF RequestsOK, RowsOK, Enter

\* Only uploads are misled, and once one is, it stays so.
LEMMA MisledGrows ==
    ASSUME TypeOK, [Next]_vars
    PROVE  misled \subseteq misled' /\ misled' \subseteq Uploads
<1> USE DEF Mislead
<1>0. misled \subseteq Uploads
  BY DEF TypeOK
<1> DEFINE Goal == misled \subseteq misled' /\ misled' \subseteq Uploads
<1>1. ASSUME NEW r \in Requests, RequestDies(r) PROVE Goal
  BY <1>0, <1>1 DEF RequestDies
<1>2. ASSUME NEW r \in Requests, NEW u \in Uploads, ApiStep(r, u) PROVE Goal
  BY <1>0, <1>2 DEF ApiStep, CreateStart, CreateInsert, CreateConflict,
     CreateDiscard, CompleteLoad, CompleteAssemble, CompleteRecover,
     CompleteQueue, CancelLoad, CancelAbort, CancelDropIncoming,
     CancelPurgeIncoming, CancelPurgePlayback, CancelCommit, RetryLoad,
     RetryCommit, ResolveMissing, ResolveMark
<1>3. ASSUME NEW w \in Workers, WorkerStart(w) \/ WorkerCrash(w) PROVE Goal
  BY <1>0, <1>3 DEF WorkerStart, WorkerCrash
<1>4. ASSUME NEW w \in Workers, NEW u \in Uploads, WorkerStep(w, u) PROVE Goal
  BY <1>0, <1>4 DEF WorkerStep, JobStep, ExpiryStep, LoadUpload,
     InspectIncoming, PersistDerivedKeys, StorePlayback, StoreCmaf, Publish,
     PublishRefused, RemoveObsolete, Acknowledge, Unstore, RecordFailure,
     JobStepFails, FailureNotRecorded, ExpirySelect, ExpiryAbort, ExpiryHead,
     ExpiryCancel, ExpiryQueue, ExpiryError, ExpiryGivesUp, PurgeSession
<1>5. ASSUME NEW w \in Workers, NEW j \in Jobs, Claim(w, j) \/ PurgeJob(w, j)
      PROVE  Goal
  BY <1>0, <1>5 DEF Claim, PurgeJob
<1>6. CASE UNCHANGED vars
  BY <1>0, <1>6 DEF vars
<1> QED
  BY <1>1, <1>2, <1>3, <1>4, <1>5, <1>6 DEF Next

LEMMA RestType ==
    ASSUME WorkersOK, NEW w \in Workers, Rest(w)
    PROVE  WorkersOK'
BY DEF WorkersOK, Rest, IdleWorker, DownWorker, WorkerPC, JobPC

LEMMA StepType ==
    ASSUME WorkersOK, NEW w \in Workers, NEW pc \in WorkerPC,
           wrk[w].pc \notin {"down", "idle"},
           pc \in JobPC => wrk[w].pc \in JobPC,
           Step(w, pc)
    PROVE  WorkersOK'
BY DEF WorkersOK, Step

\* Type correctness: statuses stay within the CHECK constraints of the schema,
\* and a request or worker that is busy always knows its upload.
THEOREM TypeCorrect == Spec => []TypeOK
<1>1. Init => TypeOK
  BY DEF Init, TypeOK, RowsOK, StorageOK, RequestsOK, WorkersOK, IdleRequest,
         DownWorker, SessionStatus, TrackStatus, JobStatus, Contents,
         RequestPC, WorkerPC, JobPC, HeldRowsExist
<1>2. TypeOK /\ [Next]_vars => TypeOK'
  <2> SUFFICES ASSUME TypeOK, [Next]_vars PROVE TypeOK'
    OBVIOUS
  <2>0. RowsOK /\ StorageOK /\ RequestsOK /\ WorkersOK /\ HeldRowsExist
    BY DEF TypeOK
  <2>m. misled' \subseteq Uploads
    BY MisledGrows
  <2> USE <2>m DEF dbVars, storageVars
  <2>1. ASSUME NEW r \in Requests, RequestDies(r) PROVE TypeOK'
    BY <2>0, <2>1, DoneType DEF RequestDies, TypeOK, RowsOK, StorageOK,
       WorkersOK, HeldRowsExist
  <2>2. ASSUME NEW r \in Requests, NEW u \in Uploads, ApiStep(r, u)
        PROVE  TypeOK'
    <3>1. RequestsOK'
      <4> USE <2>0 DEF At, RequestPC
      <4>1. CASE CreateStart(r, u)
        BY <4>1, EnterType DEF CreateStart
      <4>2. CASE CreateInsert(r, u)
        BY <4>2, DoneType DEF CreateInsert
      <4>3. CASE CreateConflict(r, u)
        BY <4>3, GotoType DEF CreateConflict
      <4>4. CASE CreateDiscard(r, u)
        BY <4>4, DoneType DEF CreateDiscard
      <4>5. CASE CompleteLoad(r, u)
        BY <4>5, EnterType DEF CompleteLoad
      <4>6. CASE CompleteAssemble(r, u)
        BY <4>6, GotoType DEF CompleteAssemble
      <4>7. CASE CompleteRecover(r, u)
        BY <4>7, GotoType DEF CompleteRecover
      <4>8. CASE CompleteQueue(r, u)
        BY <4>8, DoneType DEF CompleteQueue
      <4>9. CASE CancelLoad(r, u)
        BY <4>9, EnterType DEF CancelLoad
      <4>10. CASE CancelAbort(r, u)
        BY <4>10, GotoType DEF CancelAbort
      <4>11. CASE CancelDropIncoming(r, u)
        BY <4>11, GotoType DEF CancelDropIncoming
      <4>12. CASE CancelPurgeIncoming(r, u)
        BY <4>12, GotoType DEF CancelPurgeIncoming
      <4>13. CASE CancelPurgePlayback(r, u)
        BY <4>13, GotoType DEF CancelPurgePlayback
      <4>14. CASE CancelCommit(r, u)
        BY <4>14, DoneType DEF CancelCommit
      <4>15. CASE RetryLoad(r, u)
        BY <4>15, EnterType DEF RetryLoad
      <4>16. CASE RetryCommit(r, u)
        BY <4>16, DoneType DEF RetryCommit
      <4>17. CASE ResolveMissing(r, u)
        BY <4>17, EnterType DEF ResolveMissing
      <4>18. CASE ResolveMark(r, u)
        BY <4>18, DoneType DEF ResolveMark
      <4> QED
        BY <2>2, <4>1, <4>2, <4>3, <4>4, <4>5, <4>6, <4>7, <4>8, <4>9, <4>10,
           <4>11, <4>12, <4>13, <4>14, <4>15, <4>16, <4>17, <4>18 DEF ApiStep
    <3>2. RowsOK'
      <4> USE <2>0 DEF RowsOK, SessionStatus, TrackStatus, JobStatus, SessionRow
      <4>1. CASE CreateStart(r, u)
        BY <4>1 DEF CreateStart
      <4>2. CASE CreateInsert(r, u)
        BY <4>2 DEF CreateInsert
      <4>3. CASE CreateConflict(r, u)
        BY <4>3 DEF CreateConflict
      <4>4. CASE CreateDiscard(r, u)
        BY <4>4 DEF CreateDiscard
      <4>5. CASE CompleteLoad(r, u)
        BY <4>5 DEF CompleteLoad
      <4>6. CASE CompleteAssemble(r, u)
        BY <4>6 DEF CompleteAssemble
      <4>7. CASE CompleteRecover(r, u)
        BY <4>7 DEF CompleteRecover
      <4>8. CASE CompleteQueue(r, u)
        BY <4>8 DEF CompleteQueue, QueueProcessing, InsertJob
      <4>9. CASE CancelLoad(r, u)
        BY <4>9 DEF CancelLoad
      <4>10. CASE CancelAbort(r, u)
        BY <4>10 DEF CancelAbort
      <4>11. CASE CancelDropIncoming(r, u)
        BY <4>11 DEF CancelDropIncoming
      <4>12. CASE CancelPurgeIncoming(r, u)
        BY <4>12 DEF CancelPurgeIncoming
      <4>13. CASE CancelPurgePlayback(r, u)
        BY <4>13 DEF CancelPurgePlayback
      <4>14. CASE CancelCommit(r, u)
        BY <4>14 DEF CancelCommit, CancelRecord
      <4>15. CASE RetryLoad(r, u)
        BY <4>15 DEF RetryLoad
      <4>16. CASE RetryCommit(r, u)
        BY <4>16 DEF RetryCommit, InsertJob, SetSession, SetTrack
      <4>17. CASE ResolveMissing(r, u)
        BY <4>17 DEF ResolveMissing
      <4>18. CASE ResolveMark(r, u)
        BY <4>18 DEF ResolveMark
      <4> QED
        BY <2>2, <4>1, <4>2, <4>3, <4>4, <4>5, <4>6, <4>7, <4>8, <4>9, <4>10,
           <4>11, <4>12, <4>13, <4>14, <4>15, <4>16, <4>17, <4>18 DEF ApiStep
    <3>3. StorageOK'
      BY <2>0, <2>2 DEF ApiStep, StorageOK, Contents, CreateStart,
         CreateInsert, CreateConflict, CreateDiscard, CompleteLoad,
         CompleteAssemble, CompleteRecover, CompleteQueue, CancelLoad,
         CancelAbort, CancelDropIncoming, CancelPurgeIncoming,
         CancelPurgePlayback, CancelCommit, RetryLoad, RetryCommit,
         ResolveMissing, ResolveMark
    <3>4. WorkersOK'
      BY <2>0, <2>2 DEF ApiStep, WorkersOK, CreateStart, CreateInsert,
         CreateConflict, CreateDiscard, CompleteLoad, CompleteAssemble,
         CompleteRecover, CompleteQueue, CancelLoad, CancelAbort,
         CancelDropIncoming, CancelPurgeIncoming, CancelPurgePlayback,
         CancelCommit, RetryLoad, RetryCommit, ResolveMissing, ResolveMark
    <3>5. HeldRowsExist'
      <4> USE <2>0 DEF RowsOK
      <4>1. wrk' = wrk
        BY <2>2 DEF ApiStep, CreateStart, CreateInsert, CreateConflict,
           CreateDiscard, CompleteLoad, CompleteAssemble, CompleteRecover,
           CompleteQueue, CancelLoad, CancelAbort, CancelDropIncoming,
           CancelPurgeIncoming, CancelPurgePlayback, CancelCommit, RetryLoad,
           RetryCommit, ResolveMissing, ResolveMark
      <4>2. \A j \in Jobs : job[j] # "free" => job'[j] # "free"
        <5>1. CASE CompleteQueue(r, u)
          BY <5>1 DEF CompleteQueue, QueueProcessing, InsertJob
        <5>2. CASE CancelCommit(r, u)
          BY <5>2 DEF CancelCommit, CancelRecord
        <5>3. CASE RetryCommit(r, u)
          BY <5>3 DEF RetryCommit, InsertJob
        <5>4. CASE ~(CompleteQueue(r, u) \/ CancelCommit(r, u) \/ RetryCommit(r, u))
          BY <2>2, <5>4 DEF ApiStep, CreateStart, CreateInsert,
             CreateConflict, CreateDiscard, CompleteLoad, CompleteAssemble,
             CompleteRecover, CancelLoad, CancelAbort, CancelDropIncoming,
             CancelPurgeIncoming, CancelPurgePlayback, RetryLoad,
             ResolveMissing, ResolveMark
        <5> QED
          BY <5>1, <5>2, <5>3, <5>4
      <4> QED
        BY <4>1, <4>2 DEF HeldRowsExist, WorkersOK
    <3> QED
      BY <3>1, <3>2, <3>3, <3>4, <3>5 DEF TypeOK
  <2>3. ASSUME NEW w \in Workers, WorkerStart(w) PROVE TypeOK'
    <3>1. RowsOK'
      BY <2>0, <2>3 DEF WorkerStart, RowsOK, SessionStatus, TrackStatus,
         JobStatus, SessionRow
    <3>2. WorkersOK' /\ wrk'[w].pc = "idle" /\ \A x \in Workers \ {w} : wrk'[x] = wrk[x]
      BY <2>0, <2>3, RestType DEF WorkerStart, Rest, IdleWorker, DownWorker, WorkersOK
    <3>3. HeldRowsExist'
      BY <2>0, <2>3, <3>2 DEF WorkerStart, HeldRowsExist, WorkersOK, RowsOK, JobPC
    <3>4. StorageOK' /\ RequestsOK'
      BY <2>0, <2>3 DEF WorkerStart, StorageOK, RequestsOK
    <3> QED
      BY <3>1, <3>2, <3>3, <3>4 DEF TypeOK
  <2>4. ASSUME NEW w \in Workers, WorkerCrash(w) PROVE TypeOK'
    BY <2>0, <2>4 DEF WorkerCrash, TypeOK, RowsOK, StorageOK, RequestsOK,
       WorkersOK, DownWorker, WorkerPC, JobPC, HeldRowsExist
  <2>5. ASSUME NEW w \in Workers, NEW u \in Uploads, WorkerStep(w, u)
        PROVE  TypeOK'
    <3>1. WorkersOK'
      <4> USE <2>0 DEF Working, WorkerPC, JobPC
      <4>1. CASE LoadUpload(w, u)
        BY <4>1, StepType DEF LoadUpload
      <4>2. CASE InspectIncoming(w, u)
        BY <4>2, StepType DEF InspectIncoming
      <4>3. CASE PersistDerivedKeys(w, u)
        BY <4>3, StepType DEF PersistDerivedKeys
      <4>4. CASE StorePlayback(w, u)
        BY <4>4, StepType DEF StorePlayback
      <4>5. CASE StoreCmaf(w, u)
        BY <4>5, StepType DEF StoreCmaf
      <4>6. CASE Publish(w, u)
        BY <4>6, StepType DEF Publish
      <4>7. CASE PublishRefused(w, u)
        BY <4>7, StepType DEF PublishRefused
      <4>8. CASE RemoveObsolete(w, u)
        BY <4>8, StepType DEF RemoveObsolete
      <4>9. CASE Acknowledge(w, u)
        BY <4>9, RestType DEF Acknowledge
      <4>10. CASE Unstore(w, u)
        BY <4>10, StepType DEF Unstore
      <4>11. CASE RecordFailure(w, u)
        BY <4>11, RestType DEF RecordFailure
      <4>12. CASE JobStepFails(w, u)
        BY <4>12, StepType DEF JobStepFails
      <4>13. CASE FailureNotRecorded(w, u)
        BY <4>13, RestType DEF FailureNotRecorded
      <4>14. CASE ExpirySelect(w, u)
        BY <4>14 DEF ExpirySelect, WorkersOK
      <4>15. CASE ExpiryAbort(w, u)
        BY <4>15, StepType DEF ExpiryAbort
      <4>16. CASE ExpiryHead(w, u)
        BY <4>16, StepType DEF ExpiryHead
      <4>17. CASE ExpiryCancel(w, u)
        BY <4>17, RestType DEF ExpiryCancel
      <4>18. CASE ExpiryQueue(w, u)
        BY <4>18, RestType DEF ExpiryQueue
      <4>19. CASE ExpiryError(w, u)
        BY <4>19, RestType DEF ExpiryError
      <4>20. CASE ExpiryGivesUp(w, u)
        BY <4>20, RestType DEF ExpiryGivesUp
      <4>21. CASE PurgeSession(w, u)
        BY <4>21 DEF PurgeSession, WorkersOK
      <4> QED
        BY <2>5, <4>1, <4>2, <4>3, <4>4, <4>5, <4>6, <4>7, <4>8, <4>9, <4>10,
           <4>11, <4>12, <4>13, <4>14, <4>15, <4>16, <4>17, <4>18, <4>19,
           <4>20, <4>21 DEF WorkerStep, JobStep, ExpiryStep
    <3>2. RowsOK'
      <4> USE <2>0 DEF RowsOK, SessionStatus, TrackStatus, JobStatus, SessionRow,
                       WorkersOK, HeldRowsExist, Working, JobPC
      <4>1. CASE LoadUpload(w, u)
        BY <4>1 DEF LoadUpload
      <4>2. CASE InspectIncoming(w, u)
        BY <4>2 DEF InspectIncoming
      <4>3. CASE PersistDerivedKeys(w, u)
        BY <4>3 DEF PersistDerivedKeys
      <4>4. CASE StorePlayback(w, u)
        BY <4>4 DEF StorePlayback
      <4>5. CASE StoreCmaf(w, u)
        BY <4>5 DEF StoreCmaf
      <4>6. CASE Publish(w, u)
        BY <4>6 DEF Publish, SetSession
      <4>7. CASE PublishRefused(w, u)
        BY <4>7 DEF PublishRefused
      <4>8. CASE RemoveObsolete(w, u)
        BY <4>8 DEF RemoveObsolete
      <4>9. CASE Acknowledge(w, u)
        BY <4>9 DEF Acknowledge
      <4>10. CASE Unstore(w, u)
        BY <4>10 DEF Unstore
      <4>11. CASE RecordFailure(w, u)
        BY <4>11 DEF RecordFailure, SetSession, SetTrack
      <4>12. CASE JobStepFails(w, u)
        BY <4>12 DEF JobStepFails
      <4>13. CASE FailureNotRecorded(w, u)
        BY <4>13 DEF FailureNotRecorded
      <4>14. CASE ExpirySelect(w, u)
        BY <4>14 DEF ExpirySelect
      <4>15. CASE ExpiryAbort(w, u)
        BY <4>15 DEF ExpiryAbort
      <4>16. CASE ExpiryHead(w, u)
        BY <4>16 DEF ExpiryHead
      <4>17. CASE ExpiryCancel(w, u)
        BY <4>17 DEF ExpiryCancel, CancelRecord
      <4>18. CASE ExpiryQueue(w, u)
        BY <4>18 DEF ExpiryQueue, QueueProcessing, InsertJob
      <4>19. CASE ExpiryError(w, u)
        BY <4>19 DEF ExpiryError
      <4>20. CASE ExpiryGivesUp(w, u)
        BY <4>20 DEF ExpiryGivesUp
      <4>21. CASE PurgeSession(w, u)
        BY <4>21 DEF PurgeSession
      <4> QED
        BY <2>5, <4>1, <4>2, <4>3, <4>4, <4>5, <4>6, <4>7, <4>8, <4>9, <4>10,
           <4>11, <4>12, <4>13, <4>14, <4>15, <4>16, <4>17, <4>18, <4>19,
           <4>20, <4>21 DEF WorkerStep, JobStep, ExpiryStep
    <3>3. StorageOK'
      BY <2>0, <2>5 DEF WorkerStep, JobStep, ExpiryStep, StorageOK, WorkersOK,
         Working, JobPC, LoadUpload, InspectIncoming, PersistDerivedKeys,
         StorePlayback, StoreCmaf, Publish, PublishRefused, RemoveObsolete,
         Acknowledge, Unstore, RecordFailure, JobStepFails,
         FailureNotRecorded, ExpirySelect, ExpiryAbort, ExpiryHead,
         ExpiryCancel, ExpiryQueue, ExpiryError, ExpiryGivesUp, PurgeSession
    <3>4. RequestsOK'
      BY <2>0, <2>5 DEF WorkerStep, JobStep, ExpiryStep, RequestsOK,
         LoadUpload, InspectIncoming, PersistDerivedKeys, StorePlayback,
         StoreCmaf, Publish, PublishRefused, RemoveObsolete, Acknowledge,
         Unstore, RecordFailure, JobStepFails, FailureNotRecorded,
         ExpirySelect, ExpiryAbort, ExpiryHead, ExpiryCancel, ExpiryQueue,
         ExpiryError, ExpiryGivesUp, PurgeSession
    <3>5. HeldRowsExist'
      <4> USE <2>0 DEF HeldRowsExist, RowsOK, WorkersOK, Working, JobPC, Step,
                       Rest, IdleWorker, DownWorker
      <4>1. CASE LoadUpload(w, u)
        BY <4>1 DEF LoadUpload
      <4>2. CASE InspectIncoming(w, u)
        BY <4>2 DEF InspectIncoming
      <4>3. CASE PersistDerivedKeys(w, u)
        BY <4>3 DEF PersistDerivedKeys
      <4>4. CASE StorePlayback(w, u)
        BY <4>4 DEF StorePlayback
      <4>5. CASE StoreCmaf(w, u)
        BY <4>5 DEF StoreCmaf
      <4>6. CASE Publish(w, u)
        BY SMTT(20), <4>6 DEF Publish
      <4>7. CASE PublishRefused(w, u)
        BY <4>7 DEF PublishRefused
      <4>8. CASE RemoveObsolete(w, u)
        BY <4>8 DEF RemoveObsolete
      <4>9. CASE Acknowledge(w, u)
        BY <4>9 DEF Acknowledge
      <4>10. CASE Unstore(w, u)
        BY <4>10 DEF Unstore
      <4>11. CASE RecordFailure(w, u)
        BY <4>11 DEF RecordFailure
      <4>12. CASE JobStepFails(w, u)
        BY <4>12 DEF JobStepFails
      <4>13. CASE FailureNotRecorded(w, u)
        BY <4>13 DEF FailureNotRecorded
      <4>14. CASE ExpirySelect(w, u)
        BY <4>14 DEF ExpirySelect
      <4>15. CASE ExpiryAbort(w, u)
        BY <4>15 DEF ExpiryAbort
      <4>16. CASE ExpiryHead(w, u)
        BY <4>16 DEF ExpiryHead
      <4>17. CASE ExpiryCancel(w, u)
        BY <4>17 DEF ExpiryCancel, CancelRecord
      <4>18. CASE ExpiryQueue(w, u)
        BY <4>18 DEF ExpiryQueue, QueueProcessing, InsertJob
      <4>19. CASE ExpiryError(w, u)
        BY <4>19 DEF ExpiryError
      <4>20. CASE ExpiryGivesUp(w, u)
        BY <4>20 DEF ExpiryGivesUp
      <4>21. CASE PurgeSession(w, u)
        BY <4>21 DEF PurgeSession
      <4> QED
        BY <2>5, <4>1, <4>2, <4>3, <4>4, <4>5, <4>6, <4>7, <4>8, <4>9, <4>10,
           <4>11, <4>12, <4>13, <4>14, <4>15, <4>16, <4>17, <4>18, <4>19,
           <4>20, <4>21 DEF WorkerStep, JobStep, ExpiryStep
    <3> QED
      BY <3>1, <3>2, <3>3, <3>4, <3>5 DEF TypeOK
  <2>6. ASSUME NEW w \in Workers, NEW j \in Jobs, Claim(w, j) \/ PurgeJob(w, j)
        PROVE  TypeOK'
    <3>1. CASE Claim(w, j)
      BY <2>0, <3>1 DEF Claim, TypeOK, RowsOK, StorageOK, RequestsOK, WorkersOK,
         HeldRowsExist, WorkerPC, JobPC, JobStatus
    <3>2. CASE PurgeJob(w, j)
      BY <2>0, <3>2 DEF PurgeJob, TypeOK, RowsOK, StorageOK, RequestsOK,
         WorkersOK, HeldRowsExist, JobStatus
    <3> QED
      BY <2>6, <3>1, <3>2
  <2>7. CASE UNCHANGED vars
    BY <2>0, <2>7 DEF vars, TypeOK, RowsOK, StorageOK, RequestsOK, WorkersOK,
       HeldRowsExist
  <2> QED
    BY <2>1, <2>2, <2>3, <2>4, <2>5, <2>6, <2>7 DEF Next
<1> QED
  BY <1>1, <1>2, PTL DEF Spec

\* The statuses and jobs after queueUploadProcessing and cancelUploadRecord,
\* which API requests and expiry share.
LEMMA QueueKeeps ==
    ASSUME RowsOK, StatusCoupling, ProcessingHasJob, NEW u \in Uploads,
           QueueProcessing(u)
    PROVE  StatusCoupling' /\ ProcessingHasJob'
<1> USE DEF RowsOK, QueueProcessing, Processable
<1>1. StatusCoupling'
  BY DEF StatusCoupling
<1>2. ProcessingHasJob'
  <2> SUFFICES ASSUME NEW v \in Uploads, sess'[v] = "processing"
               PROVE  HasActiveJob(v)'
    BY DEF ProcessingHasJob
  <2>1. CASE HasActiveJob(u)
    BY <2>1 DEF ProcessingHasJob, HasActiveJob, Active
  <2>2. CASE ~HasActiveJob(u)
    <3>1. PICK j \in Jobs : /\ job[j] = "free"
                            /\ job' = [job EXCEPT ![j] = "pending"]
                            /\ jobOf' = [jobOf EXCEPT ![j] = u]
      BY <2>2 DEF InsertJob
    <3> QED
      BY <3>1 DEF ProcessingHasJob, HasActiveJob, Active
  <2> QED
    BY <2>1, <2>2
<1> QED
  BY <1>1, <1>2

LEMMA CancelKeeps ==
    ASSUME RowsOK, StatusCoupling, ProcessingHasJob, NEW u \in Uploads,
           CancelRecord(u)
    PROVE  StatusCoupling' /\ ProcessingHasJob'
<1> USE DEF RowsOK, CancelRecord, SessionStatus, TrackStatus
<1>1. StatusCoupling'
  BY DEF StatusCoupling
<1>2. ASSUME NEW v \in Uploads, sess'[v] = "processing"
      PROVE  HasActiveJob(v)'
  <2>1. sess[v] = "processing"
    BY <1>2
  <2>2. track[v] = "processing"
    BY <2>1 DEF StatusCoupling
  <2>3. PICK j \in Jobs : jobOf[j] = v /\ Active(j)
    BY <2>1 DEF ProcessingHasJob, HasActiveJob
  <2>4. job'[j] = job[j] /\ jobOf'[j] = v
    BY <2>2, <2>3
  <2> QED
    BY <2>3, <2>4 DEF HasActiveJob, Active
<1> QED
  BY <1>1, <1>2 DEF ProcessingHasJob

\* failStaleJobs closes, fails or keeps each processing session together with
\* its job.
LEMMA StartKeeps ==
    ASSUME RowsOK, StatusCoupling, ProcessingHasJob, NEW w \in Workers,
           WorkerStart(w)
    PROVE  StatusCoupling' /\ ProcessingHasJob'
<1> DEFINE published == {j \in Jobs : job[j] = "running" /\ track[jobOf[j]] = "ready"}
           stale == {j \in Jobs : job[j] = "running"} \ published
           done == published \cup {j \in Jobs : job[j] = "succeeded"}
           hit(u) == \E j \in stale : jobOf[j] = u
<1>1. /\ job' = [j \in Jobs |-> IF j \in published THEN "succeeded"
                               ELSE IF j \in stale THEN "failed" ELSE job[j]]
      /\ track' = [u \in Uploads |-> IF hit(u) /\ track[u] # "none"
                                    THEN "error" ELSE track[u]]
      /\ sess' = [u \in Uploads |->
                    IF hit(u) /\ SessionRow(u) THEN "error"
                    ELSE IF sess[u] = "processing"
                            /\ \E j \in done : jobOf[j] = u
                    THEN "ready" ELSE sess[u]]
      /\ jobOf' = jobOf
  BY DEF WorkerStart
<1>2. StatusCoupling'
  <2> HIDE DEF hit, done
  <2> QED
    BY <1>1 DEF StatusCoupling, SessionRow, RowsOK, SessionStatus, TrackStatus
<1>3. ASSUME NEW u \in Uploads, sess'[u] = "processing"
      PROVE  HasActiveJob(u)'
  <2>1. sess[u] = "processing" /\ ~hit(u) /\ ~\E j \in done : jobOf[j] = u
    <3> HIDE DEF hit, done
    <3> QED
      BY <1>1, <1>3 DEF SessionRow, RowsOK
  <2>2. PICK j \in Jobs : jobOf[j] = u /\ Active(j)
    BY <2>1 DEF ProcessingHasJob, HasActiveJob
  <2>3. job[j] = "pending"
    BY <2>1, <2>2 DEF Active
  <2>4. job'[j] = "pending" /\ jobOf'[j] = u
    BY <1>1, <2>2, <2>3
  <2> QED
    BY <2>4 DEF HasActiveJob, Active
<1> QED
  BY <1>2, <1>3 DEF ProcessingHasJob

\* A step that only moves requests, workers and objects keeps both.
LEMMA SilentKeeps ==
    ASSUME StatusCoupling, ProcessingHasJob,
           UNCHANGED <<sess, track, job, jobOf>>
    PROVE  StatusCoupling' /\ ProcessingHasJob'
BY DEF StatusCoupling, ProcessingHasJob, HasActiveJob, Active

LEMMA RecordsStep ==
    ASSUME TypeOK, StatusCoupling, ProcessingHasJob, WorkerHoldsItsJob,
           [Next]_vars
    PROVE  StatusCoupling' /\ ProcessingHasJob'
<1>0. RowsOK /\ WorkersOK
  BY DEF TypeOK
<1> DEFINE Goal == StatusCoupling' /\ ProcessingHasJob'
<1> USE DEF dbVars, storageVars
<1>1. ASSUME NEW r \in Requests, RequestDies(r) PROVE Goal
  BY <1>1, SilentKeeps DEF RequestDies
<1>2. ASSUME NEW r \in Requests, NEW u \in Uploads, ApiStep(r, u) PROVE Goal
  <2>1. CASE CreateInsert(r, u)
    BY <1>0, <2>1 DEF CreateInsert, StatusCoupling, ProcessingHasJob,
       HasActiveJob, Active, RowsOK
  <2>2. CASE CompleteQueue(r, u)
    BY <1>0, <2>2, QueueKeeps DEF CompleteQueue
  <2>3. CASE CancelCommit(r, u)
    BY <1>0, <2>3, CancelKeeps DEF CancelCommit
  <2>4. CASE RetryCommit(r, u)
    <3> USE <1>0 DEF RowsOK, SessionRow
    <3>1. StatusCoupling'
      BY <2>4 DEF RetryCommit, StatusCoupling, SetSession, SetTrack
    <3>2. PICK j \in Jobs : /\ job[j] = "free"
                            /\ job' = [job EXCEPT ![j] = "pending"]
                            /\ jobOf' = [jobOf EXCEPT ![j] = u]
      BY <2>4 DEF RetryCommit, InsertJob
    <3>3. ProcessingHasJob'
      BY <2>4, <3>2 DEF RetryCommit, SetSession, ProcessingHasJob,
         HasActiveJob, Active
    <3> QED
      BY <3>1, <3>3
  <2>5. CASE ResolveMark(r, u)
    BY <1>0, <2>5 DEF ResolveMark, StatusCoupling, ProcessingHasJob,
       HasActiveJob, Active, RowsOK
  <2>6. CASE ~(\/ CreateInsert(r, u) \/ CompleteQueue(r, u)
              \/ CancelCommit(r, u) \/ RetryCommit(r, u) \/ ResolveMark(r, u))
    BY <1>2, <2>6, SilentKeeps DEF ApiStep, CreateStart, CreateConflict,
       CreateDiscard, CompleteLoad, CompleteAssemble, CompleteRecover,
       CancelLoad, CancelAbort, CancelDropIncoming, CancelPurgeIncoming,
       CancelPurgePlayback, RetryLoad, ResolveMissing
  <2> QED
    BY <2>1, <2>2, <2>3, <2>4, <2>5, <2>6
<1>3. ASSUME NEW w \in Workers, WorkerStart(w) PROVE Goal
  BY <1>0, <1>3, StartKeeps
<1>4. ASSUME NEW w \in Workers, WorkerCrash(w) PROVE Goal
  BY <1>4, SilentKeeps DEF WorkerCrash
<1>5. ASSUME NEW w \in Workers, NEW u \in Uploads, WorkerStep(w, u) PROVE Goal
  <2>1. CASE Publish(w, u)
    <3> USE <1>0, <2>1 DEF Publish, SetSession, SessionRow, RowsOK, Working,
                          SessionStatus
    <3>1. StatusCoupling'
      BY DEF StatusCoupling
    <3>2. sess'[u] # "processing" /\ jobOf[wrk[w].job] = u
      BY DEF WorkerHoldsItsJob, JobPC
    <3>3. ProcessingHasJob'
      BY <3>2 DEF ProcessingHasJob, HasActiveJob, Active
    <3> QED
      BY <3>1, <3>3
  <2>2. CASE Acknowledge(w, u)
    <3>1. ~Active(wrk[w].job)
      BY <2>2 DEF Acknowledge, Working, WorkerHoldsItsJob, JobPC, Active
    <3> QED
      BY <1>0, <2>2, <3>1 DEF Acknowledge, StatusCoupling, ProcessingHasJob,
         HasActiveJob, Active, RowsOK
  <2>3. CASE RecordFailure(w, u)
    <3> USE <1>0, <2>3 DEF RecordFailure, SetSession, SetTrack, SessionRow,
                          RowsOK, Working, SessionStatus, TrackStatus
    <3>1. StatusCoupling'
      BY DEF StatusCoupling
    <3>2. sess'[u] # "processing" /\ jobOf[wrk[w].job] = u
      BY DEF WorkerHoldsItsJob, JobPC
    <3>3. ProcessingHasJob'
      BY <3>2 DEF ProcessingHasJob, HasActiveJob, Active
    <3> QED
      BY <3>1, <3>3
  <2>4. CASE ExpiryCancel(w, u)
    BY <1>0, <2>4, CancelKeeps DEF ExpiryCancel
  <2>5. CASE ExpiryQueue(w, u)
    BY <1>0, <2>5, QueueKeeps DEF ExpiryQueue
  <2>6. CASE ExpiryError(w, u)
    BY <1>0, <2>6 DEF ExpiryError, StatusCoupling, ProcessingHasJob,
       HasActiveJob, Active, RowsOK
  <2>7. CASE PurgeSession(w, u)
    BY <1>0, <2>7 DEF PurgeSession, StatusCoupling, ProcessingHasJob,
       HasActiveJob, Active, RowsOK
  <2>8. CASE ~(\/ Publish(w, u) \/ Acknowledge(w, u) \/ RecordFailure(w, u)
              \/ ExpiryCancel(w, u) \/ ExpiryQueue(w, u)
              \/ ExpiryError(w, u) \/ PurgeSession(w, u))
    BY <1>5, <2>8, SilentKeeps DEF WorkerStep, JobStep, ExpiryStep,
       LoadUpload, InspectIncoming, PersistDerivedKeys, StorePlayback,
       StoreCmaf, PublishRefused, RemoveObsolete, Unstore, JobStepFails,
       FailureNotRecorded, ExpirySelect, ExpiryAbort, ExpiryHead,
       ExpiryGivesUp
  <2> QED
    BY <2>1, <2>2, <2>3, <2>4, <2>5, <2>6, <2>7, <2>8
<1>6. ASSUME NEW w \in Workers, NEW j \in Jobs, Claim(w, j) \/ PurgeJob(w, j)
      PROVE  Goal
  BY <1>0, <1>6 DEF Claim, PurgeJob, StatusCoupling, ProcessingHasJob,
     HasActiveJob, Active, RowsOK
<1>7. CASE UNCHANGED vars
  BY <1>7, SilentKeeps DEF vars
<1> QED
  BY <1>1, <1>2, <1>3, <1>4, <1>5, <1>6, <1>7 DEF Next


\* The row of a held job stays with its upload and is not offered again,
\* whatever the other actors do to the table.
LEMMA HoldStep ==
    ASSUME TypeOK, WorkerHoldsItsJob, [Next]_vars
    PROVE  WorkerHoldsItsJob'
<1>0. RowsOK /\ WorkersOK /\ HeldRowsExist
  BY DEF TypeOK
<1> USE DEF dbVars, storageVars
<1>1. ASSUME NEW r \in Requests, RequestDies(r) PROVE WorkerHoldsItsJob'
  BY <1>1 DEF RequestDies, WorkerHoldsItsJob
<1>2. ASSUME NEW r \in Requests, NEW u \in Uploads, ApiStep(r, u)
      PROVE  WorkerHoldsItsJob'
  <2> USE <1>0 DEF RowsOK, WorkersOK, WorkerHoldsItsJob
  <2>1. CASE CompleteQueue(r, u)
    BY <2>1 DEF CompleteQueue, QueueProcessing, InsertJob
  <2>2. CASE CancelCommit(r, u)
    BY <2>2 DEF CancelCommit, CancelRecord
  <2>3. CASE RetryCommit(r, u)
    BY <2>3 DEF RetryCommit, InsertJob
  <2>4. CASE ~(CompleteQueue(r, u) \/ CancelCommit(r, u) \/ RetryCommit(r, u))
    <3>1. UNCHANGED <<job, jobOf, wrk>>
      BY <1>2, <2>4 DEF ApiStep, CreateStart, CreateInsert, CreateConflict,
         CreateDiscard, CompleteLoad, CompleteAssemble, CompleteRecover,
         CancelLoad, CancelAbort, CancelDropIncoming, CancelPurgeIncoming,
         CancelPurgePlayback, RetryLoad, ResolveMissing, ResolveMark
    <3> QED
      BY <3>1
  <2> QED
    BY <2>1, <2>2, <2>3, <2>4
<1>3. ASSUME NEW w \in Workers, WorkerStart(w) PROVE WorkerHoldsItsJob'
  BY <1>0, <1>3 DEF WorkerStart, Rest, IdleWorker, DownWorker, RowsOK,
     WorkersOK, WorkerHoldsItsJob, JobPC
<1>4. ASSUME NEW w \in Workers, WorkerCrash(w) PROVE WorkerHoldsItsJob'
  BY <1>0, <1>4 DEF WorkerCrash, DownWorker, WorkersOK, WorkerHoldsItsJob, JobPC
<1>5. ASSUME NEW w \in Workers, NEW u \in Uploads, WorkerStep(w, u)
      PROVE  WorkerHoldsItsJob'
  <2> USE <1>0 DEF RowsOK, WorkersOK, WorkerHoldsItsJob, Working, Step, Rest,
                   IdleWorker, DownWorker, JobPC
  <2>1. CASE LoadUpload(w, u)
    BY <2>1 DEF LoadUpload
  <2>2. CASE InspectIncoming(w, u)
    BY <2>2 DEF InspectIncoming
  <2>3. CASE PersistDerivedKeys(w, u)
    BY <2>3 DEF PersistDerivedKeys
  <2>4. CASE StorePlayback(w, u)
    BY <2>4 DEF StorePlayback
  <2>5. CASE StoreCmaf(w, u)
    BY <2>5 DEF StoreCmaf
  <2>6. CASE Publish(w, u)
    BY SMTT(20), <2>6 DEF Publish
  <2>7. CASE PublishRefused(w, u)
    BY <2>7 DEF PublishRefused
  <2>8. CASE RemoveObsolete(w, u)
    BY <2>8 DEF RemoveObsolete
  <2>9. CASE Acknowledge(w, u)
    BY <2>9 DEF Acknowledge
  <2>10. CASE Unstore(w, u)
    BY <2>10 DEF Unstore
  <2>11. CASE RecordFailure(w, u)
    BY <2>11 DEF RecordFailure
  <2>12. CASE JobStepFails(w, u)
    BY <2>12 DEF JobStepFails
  <2>13. CASE FailureNotRecorded(w, u)
    BY <2>13 DEF FailureNotRecorded
  <2>14. CASE ExpirySelect(w, u)
    BY <2>14 DEF ExpirySelect
  <2>15. CASE ExpiryAbort(w, u)
    BY <2>15 DEF ExpiryAbort
  <2>16. CASE ExpiryHead(w, u)
    BY <2>16 DEF ExpiryHead
  <2>17. CASE ExpiryCancel(w, u)
    BY <2>17 DEF ExpiryCancel, CancelRecord
  <2>18. CASE ExpiryQueue(w, u)
    BY <2>18 DEF ExpiryQueue, QueueProcessing, InsertJob
  <2>19. CASE ExpiryError(w, u)
    BY <2>19 DEF ExpiryError
  <2>20. CASE ExpiryGivesUp(w, u)
    BY <2>20 DEF ExpiryGivesUp
  <2>21. CASE PurgeSession(w, u)
    BY <2>21 DEF PurgeSession
  <2> QED
    BY <1>5, <2>1, <2>2, <2>3, <2>4, <2>5, <2>6, <2>7, <2>8, <2>9, <2>10,
       <2>11, <2>12, <2>13, <2>14, <2>15, <2>16, <2>17, <2>18, <2>19, <2>20,
       <2>21 DEF WorkerStep, JobStep, ExpiryStep
<1>6. ASSUME NEW w \in Workers, NEW j \in Jobs, Claim(w, j) \/ PurgeJob(w, j)
      PROVE  WorkerHoldsItsJob'
  BY <1>0, <1>6 DEF Claim, PurgeJob, RowsOK, WorkersOK, WorkerHoldsItsJob, JobPC
<1>7. CASE UNCHANGED vars
  BY <1>7 DEF vars, WorkerHoldsItsJob
<1> QED
  BY <1>1, <1>2, <1>3, <1>4, <1>5, <1>6, <1>7 DEF Next

\* The three record properties together, which no step breaks.
LEMMA RecordsInvariant ==
    Spec => [](StatusCoupling /\ ProcessingHasJob /\ WorkerHoldsItsJob)
<1>1. Init => StatusCoupling /\ ProcessingHasJob /\ WorkerHoldsItsJob
  BY DEF Init, StatusCoupling, ProcessingHasJob, WorkerHoldsItsJob, JobPC,
         DownWorker
<1>2. /\ TypeOK
      /\ StatusCoupling /\ ProcessingHasJob /\ WorkerHoldsItsJob
      /\ [Next]_vars
      => (StatusCoupling /\ ProcessingHasJob /\ WorkerHoldsItsJob)'
  BY RecordsStep, HoldStep
<1> QED
  BY <1>1, <1>2, TypeCorrect, PTL DEF Spec

\* The session row and the track row never tell incompatible stories, with any
\* number of racing requests and overlapping workers.
THEOREM StatusesCoupled == Spec => []StatusCoupling
BY RecordsInvariant, PTL

\* An upload in processing always has a job that will end it.
THEOREM ProcessingCovered == Spec => []ProcessingHasJob
BY RecordsInvariant, PTL

\* A job that a worker runs is never offered to another worker.
THEOREM JobsHeld == Spec => []WorkerHoldsItsJob
BY RecordsInvariant, PTL

-----------------------------------------------------------------------------
(* What holds of every upload, misled or not.                                 *)

\* The states of a claimed job before it is settled, and of a settled one.
Claimed == JobPC \ {"obsolete", "ack"}
Over    == {"succeeded", "failed", "deleted"}

\* An upload has one active job, a job one worker, and a new upload one request.
Alone ==
    /\ \A j, k \in Jobs : Active(j) /\ Active(k) /\ jobOf[j] = jobOf[k] => j = k
    /\ \A v, w \in Workers :
           wrk[v].pc \in JobPC /\ wrk[w].pc \in JobPC /\ wrk[v].job = wrk[w].job
               => v = w
    /\ \A r, s \in Requests :
           req[r].pc = "insert" /\ req[s].pc = "insert"
               /\ req[r].upload = req[s].upload => r = s

\* The session of an upload that a request has yet to insert does not exist,
\* and that of one with a job, or of one that had failed, is past "uploading".
Begun ==
    /\ \A r \in Requests : req[r].pc = "insert" =>
           sess[req[r].upload] = "none" /\ multipart[req[r].upload] # "none"
    /\ \A r \in Requests :
           req[r].pc \in {"purgeIncoming", "purgePlayback", "requeue"}
               => sess[req[r].upload] \notin {"none", "uploading"}
    /\ \A j \in Jobs :
           IF job[j] = "free" THEN jobOf[j] = NoUpload
                              ELSE sess[jobOf[j]] \notin {"none", "uploading"}

\* Before its first publication the track of an upload has the status of its
\* session; a published asset belongs to a job of the upload that is over, and a
\* job succeeds with a publication.
Assets ==
    /\ \A u \in Uploads :
           /\ asset[u] = NoJob => track[u] \in {"none", sess[u]} /\ track[u] # "ready"
           /\ asset[u] # NoJob => job[asset[u]] \in Over /\ jobOf[asset[u]] = u
    /\ \A j \in Jobs : job[j] = "succeeded" => asset[jobOf[j]] # NoJob

\* A worker stores the HLS object before it publishes, and has published before
\* it acknowledges.
WorkersFacts ==
    \A w \in Workers :
        /\ wrk[w].pc = "publish" => wrk[w].job \in cmaf
        /\ wrk[w].pc \in {"obsolete", "ack"}
               => job[wrk[w].job] = "deleted" \/ asset[wrk[w].upload] # NoJob

\* Only the object of a misled upload is ever found missing.
MissingFacts ==
    \A r \in Requests : req[r].pc = "missing" => req[r].upload \in misled

Facts == Alone /\ Begun /\ Assets /\ WorkersFacts /\ MissingFacts

(* What holds of an upload that is not misled.                                *)

\* Session and track change together, but for the purge of a session's row.
Together(u) ==
    \/ track[u] = "none" /\ sess[u] \in {"none", "cancelled", "gone"}
    \/ track[u] = "ready" /\ sess[u] \in {"ready", "gone"}
    \/ track[u] = sess[u] /\ sess[u] \in {"uploading", "processing", "error"}

\* What was published is ready, and its objects are stored.
Kept(u) ==
    asset[u] # NoJob => track[u] = "ready" /\ u \in playback /\ asset[u] \in cmaf

\* An active job of the upload means that it is in processing.
JobsTrue(u) ==
    \A j \in Jobs : Active(j) /\ jobOf[j] = u => sess[u] = "processing"

\* The job of a worker runs until it is settled, and the progressive object is
\* stored before the worker goes on to the HLS asset.
WorkTrue(u) ==
    \A w \in Workers : wrk[w].upload = u =>
        /\ wrk[w].pc \in Claimed => job[wrk[w].job] = "running"
        /\ wrk[w].pc \in {"cmaf", "publish"} => u \in playback

Truth ==
    \A u \in Uploads \ misled : Together(u) /\ Kept(u) /\ JobsTrue(u) /\ WorkTrue(u)

\* All that is assumed of a state when the next step is looked at.
Sound == TypeOK /\ WorkerHoldsItsJob /\ StatusCoupling /\ Facts /\ Truth

-----------------------------------------------------------------------------
(* What the steps change.                                                     *)

\* failStaleJobs fails the track and the session of an upload with a running
\* job, and settles those that were published.
Interrupted(u) == \E j \in Jobs : job[j] = "running" /\ jobOf[j] = u /\ track[u] # "ready"
Settled(u) ==
    \E j \in Jobs : /\ jobOf[j] = u
                    /\ job[j] = "succeeded" \/ (job[j] = "running" /\ track[u] = "ready")

LEMMA StartEffect ==
    ASSUME RowsOK, NEW w \in Workers, WorkerStart(w)
    PROVE  /\ jobOf' = jobOf /\ asset' = asset /\ keyed' = keyed
           /\ req' = req /\ UNCHANGED storageVars /\ wrk[w].pc = "down" /\ Rest(w)
           /\ \A j \in Jobs : job'[j] =
                  IF job[j] = "running"
                  THEN IF track[jobOf[j]] = "ready" THEN "succeeded" ELSE "failed"
                  ELSE job[j]
           /\ \A u \in Uploads :
                  /\ track'[u] = IF Interrupted(u) /\ track[u] # "none"
                                 THEN "error" ELSE track[u]
                  /\ sess'[u] = IF Interrupted(u) /\ SessionRow(u) THEN "error"
                                ELSE IF sess[u] = "processing" /\ Settled(u)
                                     THEN "ready" ELSE sess[u]
                  /\ \A j \in Jobs :
                         job[j] = "running" /\ jobOf[j] = u /\ track[u] # "ready" /\ Held(j)
                             => u \in misled'
<1>1. PICK stale, done :
          /\ stale = {j \in Jobs : job[j] = "running"} \
                         {j \in Jobs : job[j] = "running" /\ track[jobOf[j]] = "ready"}
          /\ done = {j \in Jobs : job[j] = "running" /\ track[jobOf[j]] = "ready"}
                         \cup {j \in Jobs : job[j] = "succeeded"}
  OBVIOUS
<1>2. /\ track' = [u \in Uploads |-> IF (\E j \in stale : jobOf[j] = u) /\ track[u] # "none"
                                     THEN "error" ELSE track[u]]
      /\ sess' = [u \in Uploads |->
                    IF (\E j \in stale : jobOf[j] = u) /\ SessionRow(u) THEN "error"
                    ELSE IF sess[u] = "processing" /\ \E j \in done : jobOf[j] = u
                         THEN "ready" ELSE sess[u]]
      /\ misled' = misled \cup {u \in Uploads : \E j \in stale : jobOf[j] = u /\ Held(j)}
  BY <1>1 DEF WorkerStart, Mislead
<1>3. \A u \in Uploads : /\ (\E j \in stale : jobOf[j] = u) <=> Interrupted(u)
                         /\ (\E j \in done : jobOf[j] = u) <=> Settled(u)
  BY <1>1 DEF Interrupted, Settled
<1>4. \A u \in Uploads : \A j \in Jobs :
          job[j] = "running" /\ jobOf[j] = u /\ track[u] # "ready" => j \in stale
  BY <1>1
<1>5. \A u \in Uploads :
          /\ track'[u] = IF Interrupted(u) /\ track[u] # "none" THEN "error" ELSE track[u]
          /\ sess'[u] = IF Interrupted(u) /\ SessionRow(u) THEN "error"
                        ELSE IF sess[u] = "processing" /\ Settled(u)
                             THEN "ready" ELSE sess[u]
  BY <1>2, <1>3
<1>6. \A u \in Uploads : \A j \in Jobs :
          job[j] = "running" /\ jobOf[j] = u /\ track[u] # "ready" /\ Held(j) => u \in misled'
  BY <1>2, <1>4
<1>7. /\ jobOf' = jobOf /\ asset' = asset /\ keyed' = keyed
      /\ req' = req /\ UNCHANGED storageVars /\ wrk[w].pc = "down" /\ Rest(w)
      /\ \A j \in Jobs : job'[j] =
             IF job[j] = "running"
             THEN IF track[jobOf[j]] = "ready" THEN "succeeded" ELSE "failed"
             ELSE job[j]
  BY DEF WorkerStart
<1>8. \A u \in Uploads :
          /\ track'[u] = IF Interrupted(u) /\ track[u] # "none" THEN "error" ELSE track[u]
          /\ sess'[u] = IF Interrupted(u) /\ SessionRow(u) THEN "error"
                        ELSE IF sess[u] = "processing" /\ Settled(u)
                             THEN "ready" ELSE sess[u]
          /\ \A j \in Jobs : job[j] = "running" /\ jobOf[j] = u /\ track[u] # "ready" /\ Held(j)
                             => u \in misled'
  BY <1>5, <1>6
<1>. QED BY <1>7, <1>8

\* The steps that change a session, a track, an asset or a job.
LEMMA Changes ==
    ASSUME [Next]_vars
    PROVE  \/ UNCHANGED <<sess, track, asset, job, jobOf>>
           \/ \E r \in Requests, u \in Uploads :
                 CreateInsert(r, u) \/ RetryCommit(r, u) \/ ResolveMark(r, u)
           \/ \E u \in Uploads : QueueProcessing(u) \/ CancelRecord(u)
           \/ \E w \in Workers : WorkerStart(w)
           \/ \E w \in Workers, u \in Uploads :
                 \/ Publish(w, u) \/ Acknowledge(w, u) \/ RecordFailure(w, u)
                 \/ ExpiryError(w, u) \/ PurgeSession(w, u)
           \/ \E w \in Workers, j \in Jobs : Claim(w, j) \/ PurgeJob(w, j)
<1> DEFINE Goal ==
           \/ UNCHANGED <<sess, track, asset, job, jobOf>>
           \/ \E r \in Requests, u \in Uploads :
                 CreateInsert(r, u) \/ RetryCommit(r, u) \/ ResolveMark(r, u)
           \/ \E u \in Uploads : QueueProcessing(u) \/ CancelRecord(u)
           \/ \E w \in Workers : WorkerStart(w)
           \/ \E w \in Workers, u \in Uploads :
                 \/ Publish(w, u) \/ Acknowledge(w, u) \/ RecordFailure(w, u)
                 \/ ExpiryError(w, u) \/ PurgeSession(w, u)
           \/ \E w \in Workers, j \in Jobs : Claim(w, j) \/ PurgeJob(w, j)
<1>1. CASE \E r \in Requests : RequestDies(r)
  BY <1>1 DEF RequestDies, dbVars
<1>2. ASSUME NEW r \in Requests, NEW u \in Uploads, ApiStep(r, u) PROVE Goal
  <2>1. CASE CreateInsert(r, u) \/ RetryCommit(r, u) \/ ResolveMark(r, u)
    BY <2>1
  <2>2. CASE CompleteQueue(r, u) \/ CancelCommit(r, u)
    BY <2>2 DEF CompleteQueue, CancelCommit
  <2>3. CASE ~(\/ CreateInsert(r, u) \/ RetryCommit(r, u) \/ CompleteQueue(r, u)
               \/ CancelCommit(r, u) \/ ResolveMark(r, u))
    BY <1>2, <2>3 DEF ApiStep, CreateStart, CreateConflict, CreateDiscard, CompleteLoad,
       CompleteAssemble, CompleteRecover, CancelLoad, CancelAbort, CancelDropIncoming,
       CancelPurgeIncoming, CancelPurgePlayback, RetryLoad, ResolveMissing, dbVars
  <2>. QED BY <2>1, <2>2, <2>3
<1>3. ASSUME NEW w \in Workers, NEW u \in Uploads, WorkerStep(w, u) PROVE Goal
  <2>1. CASE \/ Publish(w, u) \/ Acknowledge(w, u) \/ RecordFailure(w, u)
             \/ ExpiryError(w, u) \/ PurgeSession(w, u)
    BY <2>1
  <2>2. CASE ExpiryCancel(w, u) \/ ExpiryQueue(w, u)
    BY <2>2 DEF ExpiryCancel, ExpiryQueue
  <2>3. CASE ~(\/ Publish(w, u) \/ Acknowledge(w, u) \/ RecordFailure(w, u)
               \/ ExpiryError(w, u) \/ PurgeSession(w, u) \/ ExpiryCancel(w, u)
               \/ ExpiryQueue(w, u))
    BY <1>3, <2>3 DEF WorkerStep, JobStep, ExpiryStep, LoadUpload, InspectIncoming,
       PersistDerivedKeys, StorePlayback, StoreCmaf, PublishRefused, RemoveObsolete, Unstore,
       JobStepFails, FailureNotRecorded, ExpirySelect, ExpiryAbort, ExpiryHead,
       ExpiryGivesUp, dbVars
  <2>. QED BY <2>1, <2>2, <2>3
<1>4. CASE \E w \in Workers : WorkerCrash(w)
  BY <1>4 DEF WorkerCrash, dbVars
<1>5. CASE UNCHANGED vars
  BY <1>5 DEF vars, dbVars
<1>. QED BY <1>1, <1>2, <1>3, <1>4, <1>5 DEF Next

\* The moves of a request.
LEMMA RequestMoves ==
    ASSUME TypeOK, [Next]_vars, NEW r \in Requests
    PROVE  \/ req'[r] = req[r]
           \/ req'[r].pc \in {"idle", "discard", "assemble", "queue", "abort",
                              "dropIncoming", "record"}
           \/ \E u \in Uploads :
                 /\ req'[r].upload = u
                 /\ \/ CreateStart(r, u)
                    \/ /\ req'[r].pc \in {"purgeIncoming", "requeue"}
                       /\ sess[u] = "error" /\ sess' = sess
                    \/ /\ req'[r].pc = "purgePlayback" /\ At(r, u, "purgeIncoming")
                       /\ sess' = sess
                    \/ ResolveMissing(r, u)
<1> DEFINE Goal ==
           \/ req'[r] = req[r]
           \/ req'[r].pc \in {"idle", "discard", "assemble", "queue", "abort",
                              "dropIncoming", "record"}
           \/ \E u \in Uploads :
                 /\ req'[r].upload = u
                 /\ \/ CreateStart(r, u)
                    \/ /\ req'[r].pc \in {"purgeIncoming", "requeue"}
                       /\ sess[u] = "error" /\ sess' = sess
                    \/ /\ req'[r].pc = "purgePlayback" /\ At(r, u, "purgeIncoming")
                       /\ sess' = sess
                    \/ ResolveMissing(r, u)
<1>1. RequestsOK
  BY DEF TypeOK
<1>2. ASSUME NEW s \in Requests, RequestDies(s) PROVE Goal
  BY <1>1, <1>2 DEF RequestDies, Done, IdleRequest, RequestsOK
<1>3. ASSUME NEW s \in Requests, NEW u \in Uploads, ApiStep(s, u) PROVE Goal
  <2>1. CASE \/ CreateInsert(s, u) \/ CreateDiscard(s, u) \/ CompleteQueue(s, u)
             \/ CancelCommit(s, u) \/ RetryCommit(s, u) \/ ResolveMark(s, u)
    BY <1>1, <2>1 DEF CreateInsert, CreateDiscard, CompleteQueue, CancelCommit, RetryCommit,
       ResolveMark, Done, IdleRequest, RequestsOK
  <2>2. CASE \/ CreateStart(s, u) \/ CompleteLoad(s, u) \/ CancelLoad(s, u) \/ RetryLoad(s, u)
             \/ ResolveMissing(s, u)
    <3>1. CASE s # r
      BY <1>1, <2>2, <3>1 DEF CreateStart, CompleteLoad, CancelLoad, RetryLoad, ResolveMissing,
         Enter, RequestsOK
    <3>2. CASE CreateStart(r, u) \/ ResolveMissing(r, u)
      BY <1>1, <3>2 DEF CreateStart, ResolveMissing, Enter, RequestsOK
    <3>3. CASE s = r /\ (CompleteLoad(r, u) \/ CancelLoad(r, u) \/ RetryLoad(r, u))
      BY <1>1, <3>3 DEF CompleteLoad, CancelLoad, RetryLoad, Enter, RequestsOK, dbVars
    <3>. QED BY <2>2, <3>1, <3>2, <3>3
  <2>3. CASE \/ CreateConflict(s, u) \/ CompleteAssemble(s, u) \/ CompleteRecover(s, u)
             \/ CancelAbort(s, u) \/ CancelDropIncoming(s, u) \/ CancelPurgeIncoming(s, u)
             \/ CancelPurgePlayback(s, u)
    <3>1. sess' = sess
      BY <2>3 DEF CreateConflict, CompleteAssemble, CompleteRecover, CancelAbort,
         CancelDropIncoming, CancelPurgeIncoming, CancelPurgePlayback, dbVars
    <3>2. PICK pc : req' = [req EXCEPT ![s].pc = pc]
                    /\ \/ pc \in {"discard", "queue", "record", "dropIncoming"}
                       \/ pc = "purgePlayback" /\ At(s, u, "purgeIncoming")
      BY <2>3 DEF CreateConflict, CompleteAssemble, CompleteRecover, CancelAbort,
         CancelDropIncoming, CancelPurgeIncoming, CancelPurgePlayback, Goto, At
    <3>3. CASE s # r
      BY <1>1, <3>2, <3>3 DEF RequestsOK
    <3>4. CASE s = r
      <4>1. req'[r].pc = pc /\ req'[r].upload = req[r].upload
        BY <1>1, <3>2, <3>4 DEF RequestsOK
      <4>. QED BY <3>1, <3>2, <3>4, <4>1 DEF At
    <3>. QED BY <3>3, <3>4
  <2>. QED BY <1>3, <2>1, <2>2, <2>3 DEF ApiStep
<1>4. ASSUME NEW w \in Workers,
             \/ WorkerStart(w) \/ WorkerCrash(w)
             \/ \E u \in Uploads : WorkerStep(w, u)
             \/ \E j \in Jobs : Claim(w, j) \/ PurgeJob(w, j)
      PROVE  Goal
  <2>1. req' = req
    <3>1. CASE WorkerStart(w) \/ WorkerCrash(w)
      BY <3>1 DEF WorkerStart, WorkerCrash
    <3>2. CASE \E u \in Uploads : WorkerStep(w, u)
      BY <3>2 DEF WorkerStep, JobStep, ExpiryStep,
         LoadUpload, InspectIncoming, PersistDerivedKeys, StorePlayback, StoreCmaf, Publish,
         PublishRefused, RemoveObsolete, Acknowledge, Unstore, RecordFailure, JobStepFails,
         FailureNotRecorded, ExpirySelect, ExpiryAbort, ExpiryHead, ExpiryCancel, ExpiryQueue,
         ExpiryError, ExpiryGivesUp, PurgeSession
    <3>3. CASE \E j \in Jobs : Claim(w, j) \/ PurgeJob(w, j)
      BY <3>3 DEF Claim, PurgeJob
    <3>. QED BY <1>4, <3>1, <3>2, <3>3
  <2>. QED BY <2>1
<1>5. CASE UNCHANGED vars
  BY <1>5 DEF vars
<1>. QED BY <1>2, <1>3, <1>4, <1>5 DEF Next

\* The moves of a worker within a job.
LEMMA WorkerMoves ==
    ASSUME TypeOK, [Next]_vars, NEW w \in Workers
    PROVE  \/ wrk'[w] = wrk[w]
           \/ wrk'[w].pc \notin JobPC
           \/ \E j \in Jobs : /\ Claim(w, j) /\ wrk'[w].pc = "load"
                              /\ wrk'[w].job = j /\ wrk'[w].upload = jobOf[j]
           \/ \E u \in Uploads :
                 /\ wrk[w].pc \in JobPC /\ wrk[w].upload = u
                 /\ wrk'[w].job = wrk[w].job /\ wrk'[w].upload = u
                 /\ \/ wrk'[w].pc = "ack" /\ wrk[w].pc = "obsolete" /\ UNCHANGED <<job, asset>>
                    \/ wrk'[w].pc = "cmaf" /\ StorePlayback(w, u)
                    \/ wrk'[w].pc = "publish" /\ StoreCmaf(w, u)
                    \/ wrk'[w].pc = "obsolete" /\ Publish(w, u)
                    \/ wrk'[w].pc = "unstore" /\ Publish(w, u) /\ u \in misled'
                    \/ /\ wrk[w].pc \in Claimed /\ job' = job
                       /\ wrk'[w].pc \in Claimed \ {"cmaf", "publish"}
<1> DEFINE Goal ==
           \/ wrk'[w] = wrk[w]
           \/ wrk'[w].pc \notin JobPC
           \/ \E j \in Jobs : /\ Claim(w, j) /\ wrk'[w].pc = "load"
                              /\ wrk'[w].job = j /\ wrk'[w].upload = jobOf[j]
           \/ \E u \in Uploads :
                 /\ wrk[w].pc \in JobPC /\ wrk[w].upload = u
                 /\ wrk'[w].job = wrk[w].job /\ wrk'[w].upload = u
                 /\ \/ wrk'[w].pc = "ack" /\ wrk[w].pc = "obsolete" /\ UNCHANGED <<job, asset>>
                    \/ wrk'[w].pc = "cmaf" /\ StorePlayback(w, u)
                    \/ wrk'[w].pc = "publish" /\ StoreCmaf(w, u)
                    \/ wrk'[w].pc = "obsolete" /\ Publish(w, u)
                    \/ wrk'[w].pc = "unstore" /\ Publish(w, u) /\ u \in misled'
                    \/ /\ wrk[w].pc \in Claimed /\ job' = job
                       /\ wrk'[w].pc \in Claimed \ {"cmaf", "publish"}
<1>1. WorkersOK
  BY DEF TypeOK
<1>2. ASSUME NEW r \in Requests, RequestDies(r) \/ \E u \in Uploads : ApiStep(r, u)
      PROVE  Goal
  <2>1. wrk' = wrk
    BY <1>2 DEF RequestDies, ApiStep, CreateStart, CreateInsert, CreateConflict,
       CreateDiscard, CompleteLoad, CompleteAssemble, CompleteRecover, CompleteQueue,
       CancelLoad, CancelAbort, CancelDropIncoming, CancelPurgeIncoming, CancelPurgePlayback, CancelCommit, RetryLoad,
       RetryCommit, ResolveMissing, ResolveMark
  <2>. QED BY <2>1
<1>3. ASSUME NEW v \in Workers, NEW u \in Uploads, WorkerStep(v, u) PROVE Goal
  <2>1. CASE v # w
    <3>1. wrk'[w] = wrk[w]
      BY <1>1, <1>3, <2>1 DEF WorkerStep, JobStep, ExpiryStep,
         LoadUpload, InspectIncoming, PersistDerivedKeys, StorePlayback, StoreCmaf, Publish,
         PublishRefused, RemoveObsolete, Acknowledge, Unstore, RecordFailure, JobStepFails,
         FailureNotRecorded, ExpirySelect, ExpiryAbort, ExpiryHead, ExpiryCancel, ExpiryQueue,
         ExpiryError, ExpiryGivesUp, PurgeSession, Step, Rest, WorkersOK
    <3>. QED BY <3>1
  <2>2. CASE v = w
    <3>1. CASE \/ LoadUpload(w, u) \/ InspectIncoming(w, u) \/ PersistDerivedKeys(w, u)
               \/ PublishRefused(w, u) \/ Unstore(w, u) \/ JobStepFails(w, u)
      <4>1. /\ wrk[w].pc \in Claimed /\ job' = job
            /\ PersistDerivedKeys(w, u) \/ UNCHANGED <<asset, job>>
        BY <3>1 DEF LoadUpload, InspectIncoming, PersistDerivedKeys, PublishRefused, Unstore,
           JobStepFails, Working, Claimed, JobPC, dbVars
      <4>2. PICK pc \in Claimed \ {"cmaf", "publish"} : Step(w, pc)
        BY <3>1 DEF LoadUpload, InspectIncoming, PersistDerivedKeys, PublishRefused, Unstore,
           JobStepFails, Claimed, JobPC
      <4>3. wrk[w].upload = u
        BY <3>1 DEF LoadUpload, InspectIncoming, PersistDerivedKeys, PublishRefused, Unstore,
           JobStepFails, Working
      <4>4. wrk'[w].pc = pc /\ wrk'[w].job = wrk[w].job /\ wrk'[w].upload = wrk[w].upload
        BY <1>1, <4>2 DEF Step, WorkersOK
      <4>. QED BY <4>1, <4>2, <4>3, <4>4 DEF Claimed
    <3>2. CASE StorePlayback(w, u) \/ StoreCmaf(w, u) \/ RemoveObsolete(w, u)
      <4>1. /\ wrk[w].pc \in JobPC /\ wrk[w].upload = u
            /\ wrk'[w].job = wrk[w].job /\ wrk'[w].upload = wrk[w].upload
        BY <1>1, <3>2 DEF StorePlayback, StoreCmaf, RemoveObsolete, Working, Step, WorkersOK, JobPC
      <4>2. CASE StorePlayback(w, u)
        BY <1>1, <4>1, <4>2 DEF StorePlayback, Step, WorkersOK
      <4>3. CASE StoreCmaf(w, u)
        BY <1>1, <4>1, <4>3 DEF StoreCmaf, Step, WorkersOK
      <4>4. CASE RemoveObsolete(w, u)
        BY <1>1, <4>1, <4>4 DEF RemoveObsolete, Step, Working, WorkersOK, dbVars
      <4>. QED BY <3>2, <4>2, <4>3, <4>4
    <3>3. CASE Publish(w, u)
      <4>1. /\ wrk[w].pc \in JobPC /\ wrk[w].upload = u
            /\ wrk'[w].job = wrk[w].job /\ wrk'[w].upload = wrk[w].upload
        BY <1>1, <3>3 DEF Publish, Working, Step, WorkersOK, JobPC
      <4>2. wrk'[w].pc = "obsolete" \/ (wrk'[w].pc = "unstore" /\ u \in misled')
        BY <1>1, <3>3 DEF Publish, Step, Mislead, WorkersOK
      <4>. QED BY <3>3, <4>1, <4>2
    <3>4. CASE \/ Acknowledge(w, u) \/ RecordFailure(w, u) \/ FailureNotRecorded(w, u)
               \/ ExpirySelect(w, u) \/ ExpiryStep(w, u)
      <4>1. wrk'[w].pc \notin JobPC
        BY <1>1, <3>4 DEF ExpiryStep, Acknowledge, RecordFailure, FailureNotRecorded,
           ExpirySelect, ExpiryAbort, ExpiryHead, ExpiryCancel, ExpiryQueue, ExpiryError,
           ExpiryGivesUp, Step, Rest, IdleWorker, DownWorker, WorkersOK, JobPC
      <4>. QED BY <4>1
    <3>5. CASE PurgeSession(w, u)
      BY <3>5 DEF PurgeSession
    <3>. QED BY <1>3, <2>2, <3>1, <3>2, <3>3, <3>4, <3>5 DEF WorkerStep, JobStep
  <2>. QED BY <2>1, <2>2
<1>4. ASSUME NEW v \in Workers, WorkerStart(v) \/ WorkerCrash(v) PROVE Goal
  <2>1. wrk'[w] = wrk[w] \/ wrk'[w].pc \in {"idle", "down"}
    BY <1>1, <1>4 DEF WorkerStart, WorkerCrash, Rest, IdleWorker, DownWorker, WorkersOK
  <2>. QED BY <2>1 DEF JobPC
<1>5. ASSUME NEW v \in Workers, NEW j \in Jobs, Claim(v, j) \/ PurgeJob(v, j) PROVE Goal
  BY <1>1, <1>5 DEF Claim, PurgeJob, WorkersOK
<1>6. CASE UNCHANGED vars
  BY <1>6 DEF vars
<1>. QED BY <1>2, <1>3, <1>4, <1>5, <1>6 DEF Next

\* A session that does not exist is inserted or stays away, and one that is past
\* "uploading" stays past it.
LEMMA SessionMoves ==
    ASSUME TypeOK, Begun, [Next]_vars, NEW v \in Uploads
    PROVE  /\ sess[v] = "none" => sess'[v] = "none" \/ \E r \in Requests : CreateInsert(r, v)
           /\ sess[v] \notin {"none", "uploading"} => sess'[v] \notin {"none", "uploading"}
<1> DEFINE Goal ==
           /\ sess[v] = "none" => sess'[v] = "none" \/ \E r \in Requests : CreateInsert(r, v)
           /\ sess[v] \notin {"none", "uploading"} => sess'[v] \notin {"none", "uploading"}
<1>1. RowsOK
  BY DEF TypeOK
<1>2. CASE UNCHANGED <<sess, track, asset, job, jobOf>>
  BY <1>2
<1>3. ASSUME NEW r \in Requests, NEW u \in Uploads, CreateInsert(r, u) PROVE Goal
  <2>1. sess[u] = "none"
    BY <1>3 DEF CreateInsert, At, Begun
  <2>. QED BY <1>1, <1>3, <2>1 DEF CreateInsert, RowsOK
<1>4. ASSUME NEW r \in Requests, NEW u \in Uploads, RetryCommit(r, u) \/ ResolveMark(r, u)
      PROVE  Goal
  BY <1>1, <1>4 DEF RetryCommit, ResolveMark, SetSession, SessionRow, RowsOK
<1>5. ASSUME NEW u \in Uploads, QueueProcessing(u) \/ CancelRecord(u) PROVE Goal
  <2>1. CASE QueueProcessing(u)
    <3>1. sess[u] \notin {"none"} /\ sess' = [sess EXCEPT ![u] = "processing"]
      BY <2>1 DEF QueueProcessing, Processable
    <3>. QED BY <1>1, <3>1 DEF RowsOK
  <2>2. CASE CancelRecord(u)
    <3>1. sess' = [sess EXCEPT ![u] = IF @ \in {"uploading", "error"} THEN "cancelled" ELSE @]
      BY <2>2 DEF CancelRecord
    <3>. QED BY <1>1, <3>1 DEF RowsOK
  <2>. QED BY <1>5, <2>1, <2>2
<1>6. ASSUME NEW w \in Workers, WorkerStart(w) PROVE Goal
  BY <1>1, <1>6, StartEffect DEF SessionRow
<1>7. ASSUME NEW w \in Workers, NEW u \in Uploads,
             \/ Publish(w, u) \/ Acknowledge(w, u) \/ RecordFailure(w, u)
             \/ ExpiryError(w, u) \/ PurgeSession(w, u)
      PROVE  Goal
  BY <1>1, <1>7 DEF Publish, Acknowledge, RecordFailure, ExpiryError, PurgeSession, SetSession,
     SessionRow, RowsOK
<1>8. ASSUME NEW w \in Workers, NEW j \in Jobs, Claim(w, j) \/ PurgeJob(w, j) PROVE Goal
  BY <1>8 DEF Claim, PurgeJob
<1>. QED BY <1>2, <1>3, <1>4, <1>5, <1>6, <1>7, <1>8, Changes

\* A job row is inserted for an upload that enters processing, is activated by a
\* claim only, and stays over once it is.
LEMMA JobMoves ==
    ASSUME TypeOK, Begun, [Next]_vars, NEW j \in Jobs
    PROVE  \/ /\ job[j] = "free" /\ job'[j] = "pending"
              /\ \E u \in Uploads : /\ ~HasActiveJob(u) /\ sess'[u] = "processing"
                                    /\ jobOf' = [jobOf EXCEPT ![j] = u]
                                    /\ \A k \in Jobs \ {j} : job'[k] = job[k]
           \/ /\ jobOf'[j] = jobOf[j]
              /\ job'[j] = "free" <=> job[j] = "free"
              /\ Active(j)' => Active(j)
              /\ job[j] \in Over => job'[j] \in Over
              /\ job[j] = "deleted" => job'[j] = "deleted"
<1> DEFINE New ==
           /\ job[j] = "free" /\ job'[j] = "pending"
           /\ \E u \in Uploads : /\ ~HasActiveJob(u) /\ sess'[u] = "processing"
                                 /\ jobOf' = [jobOf EXCEPT ![j] = u]
                                 /\ \A k \in Jobs \ {j} : job'[k] = job[k]
           Old ==
           /\ jobOf'[j] = jobOf[j]
           /\ job'[j] = "free" <=> job[j] = "free"
           /\ Active(j)' => Active(j)
           /\ job[j] \in Over => job'[j] \in Over
           /\ job[j] = "deleted" => job'[j] = "deleted"
<1>1. RowsOK /\ WorkersOK /\ HeldRowsExist
  BY DEF TypeOK
<1>2. CASE UNCHANGED <<sess, track, asset, job, jobOf>>
  BY <1>2 DEF Active
<1>3. ASSUME NEW u \in Uploads, InsertJob(u), ~HasActiveJob(u), sess'[u] = "processing"
      PROVE  New \/ Old
  <2>1. PICK k \in Jobs : /\ job[k] = "free"
                          /\ job' = [job EXCEPT ![k] = "pending"]
                          /\ jobOf' = [jobOf EXCEPT ![k] = u]
    BY <1>3 DEF InsertJob
  <2>2. CASE j = k
    <3>1. job'[j] = "pending" /\ job[j] = "free" /\ \A l \in Jobs \ {j} : job'[l] = job[l]
      BY <1>1, <2>1, <2>2 DEF RowsOK
    <3>. QED BY <1>3, <2>1, <2>2, <3>1
  <2>3. CASE j # k
    BY <1>1, <2>1, <2>3 DEF RowsOK, Active
  <2>. QED BY <2>2, <2>3
<1>4. ASSUME NEW r \in Requests, NEW u \in Uploads,
             CreateInsert(r, u) \/ RetryCommit(r, u) \/ ResolveMark(r, u)
      PROVE  New \/ Old
  <2>1. CASE RetryCommit(r, u)
    BY <1>1, <1>3, <2>1 DEF RetryCommit, SetSession, RowsOK
  <2>2. CASE CreateInsert(r, u) \/ ResolveMark(r, u)
    BY <2>2 DEF CreateInsert, ResolveMark, Active
  <2>. QED BY <1>4, <2>1, <2>2
<1>5. ASSUME NEW u \in Uploads, QueueProcessing(u) \/ CancelRecord(u) PROVE New \/ Old
  <2>1. CASE QueueProcessing(u)
    <3>1. CASE HasActiveJob(u)
      BY <2>1, <3>1 DEF QueueProcessing, Active
    <3>2. CASE ~HasActiveJob(u)
      BY <1>1, <1>3, <2>1, <3>2 DEF QueueProcessing, RowsOK
    <3>. QED BY <3>1, <3>2
  <2>2. CASE CancelRecord(u)
    <3>1. job'[j] = job[j] \/ (job'[j] = "deleted" /\ jobOf[j] = u)
      BY <2>2 DEF CancelRecord
    <3>2. job[j] = "free" => job'[j] = "free"
      BY <3>1, ConstantsAssumption DEF Begun
    <3>. QED BY <2>2, <3>1, <3>2 DEF CancelRecord, Active, Over
  <2>. QED BY <1>5, <2>1, <2>2
<1>6. ASSUME NEW w \in Workers, WorkerStart(w) PROVE New \/ Old
  BY <1>1, <1>6, StartEffect DEF Active, Over
<1>7. ASSUME NEW w \in Workers, NEW u \in Uploads,
             \/ Publish(w, u) \/ Acknowledge(w, u) \/ RecordFailure(w, u)
             \/ ExpiryError(w, u) \/ PurgeSession(w, u)
      PROVE  New \/ Old
  <2>1. CASE Publish(w, u) \/ Acknowledge(w, u) \/ RecordFailure(w, u)
    <3>1. wrk[w].job \in Jobs /\ job[wrk[w].job] # "free"
      BY <1>1, <2>1 DEF Publish, Acknowledge, RecordFailure, Working, WorkersOK, HeldRowsExist,
         JobPC
    <3>. QED BY <1>1, <2>1, <3>1 DEF Publish, Acknowledge, RecordFailure, Active, Over, RowsOK
  <2>2. CASE ExpiryError(w, u) \/ PurgeSession(w, u)
    BY <2>2 DEF ExpiryError, PurgeSession, Active
  <2>. QED BY <1>7, <2>1, <2>2
<1>8. ASSUME NEW w \in Workers, NEW k \in Jobs, Claim(w, k) \/ PurgeJob(w, k) PROVE New \/ Old
  BY <1>1, <1>8 DEF Claim, PurgeJob, Active, Over, RowsOK
<1>. QED BY <1>2, <1>4, <1>5, <1>6, <1>7, <1>8, Changes

LEMMA AloneStep ==
    ASSUME Sound, [Next]_vars
    PROVE  Alone'
<1>1. TypeOK /\ RowsOK /\ WorkersOK /\ RequestsOK /\ Alone /\ Begun /\ WorkerHoldsItsJob
  BY DEF Sound, Facts, TypeOK
<1>2. ASSUME NEW j \in Jobs, NEW k \in Jobs, Active(j)', Active(k)', jobOf'[j] = jobOf'[k]
      PROVE  j = k
  <2>1. ASSUME NEW l \in Jobs, NEW m \in Jobs, job[l] = "free", job'[l] = "pending",
               Active(m)', jobOf'[l] = jobOf'[m]
        PROVE  l = m
    <3>1. PICK u \in Uploads : /\ ~HasActiveJob(u) /\ jobOf' = [jobOf EXCEPT ![l] = u]
                               /\ \A n \in Jobs \ {l} : job'[n] = job[n]
      BY <1>1, <2>1, JobMoves DEF Active
    <3>2. m # l => Active(m) /\ jobOf[m] = u
      BY <1>1, <2>1, <3>1 DEF Active, RowsOK
    <3>. QED BY <3>1, <3>2 DEF HasActiveJob
  <2>2. \/ job[j] = "free" /\ job'[j] = "pending"
        \/ Active(j) /\ jobOf'[j] = jobOf[j]
    BY <1>1, <1>2, JobMoves
  <2>3. \/ job[k] = "free" /\ job'[k] = "pending"
        \/ Active(k) /\ jobOf'[k] = jobOf[k]
    BY <1>1, <1>2, JobMoves
  <2>. QED BY <1>1, <1>2, <2>1, <2>2, <2>3 DEF Alone
<1>3. ASSUME NEW v \in Workers, NEW w \in Workers, wrk'[v].pc \in JobPC, wrk'[w].pc \in JobPC,
             wrk'[v].job = wrk'[w].job
      PROVE  v = w
  <2>1. ASSUME NEW x \in Workers, wrk'[x].pc \in JobPC
        PROVE  \/ wrk[x].pc \in JobPC /\ wrk'[x].job = wrk[x].job
               \/ \E j \in Jobs : Claim(x, j) /\ wrk'[x].job = j
    BY <1>1, <2>1, WorkerMoves
  <2>2. ASSUME NEW x \in Workers, NEW y \in Workers, x # y, NEW j \in Jobs, Claim(x, j),
               wrk'[y].pc \in JobPC
        PROVE  wrk'[y].job # j
    <3>1. wrk'[y] = wrk[y] /\ job[j] = "pending"
      BY <1>1, <2>2 DEF Claim, WorkersOK
    <3>. QED BY <2>2, <3>1, <1>1 DEF WorkerHoldsItsJob
  <2>. QED BY <1>1, <1>3, <2>1, <2>2 DEF Alone
<1>4. ASSUME NEW r \in Requests, NEW s \in Requests, req'[r].pc = "insert",
             req'[s].pc = "insert", req'[r].upload = req'[s].upload
      PROVE  r = s
  <2>1. ASSUME NEW t \in Requests, req'[t].pc = "insert"
        PROVE  \/ req'[t] = req[t]
               \/ \E u \in Uploads : CreateStart(t, u) /\ req'[t].upload = u
    <3>1. ~\E u \in Uploads : ResolveMissing(t, u)
      BY <1>1, <2>1 DEF ResolveMissing, Enter, RequestsOK
    <3>. QED BY <1>1, <2>1, <3>1, RequestMoves
  <2>2. ASSUME NEW t \in Requests, NEW x \in Requests, t # x, NEW u \in Uploads,
               CreateStart(t, u), req'[x].pc = "insert"
        PROVE  req'[x].upload # u
    <3>1. req'[x] = req[x] /\ multipart[u] = "none"
      BY <1>1, <2>2 DEF CreateStart, Enter, RequestsOK
    <3>. QED BY <1>1, <2>2, <3>1 DEF Begun
  <2>. QED BY <1>1, <1>4, <2>1, <2>2 DEF Alone
<1>. QED BY <1>2, <1>3, <1>4 DEF Alone

\* The multipart upload of an upload that was opened is never forgotten.
LEMMA MultipartKept ==
    ASSUME TypeOK, [Next]_vars, NEW u \in Uploads, multipart[u] # "none"
    PROVE  multipart'[u] # "none"
<1>1. StorageOK
  BY DEF TypeOK
<1>2. ASSUME NEW r \in Requests, RequestDies(r) PROVE multipart'[u] # "none"
  BY <1>2 DEF RequestDies, storageVars
<1>3. ASSUME NEW r \in Requests, NEW v \in Uploads, ApiStep(r, v) PROVE multipart'[u] # "none"
  BY <1>1, <1>3 DEF ApiStep, CreateStart, CreateInsert, CreateConflict, CreateDiscard,
     CompleteLoad, CompleteAssemble, CompleteRecover, CompleteQueue, CancelLoad, CancelAbort,
     CancelDropIncoming, CancelPurgeIncoming, CancelPurgePlayback, CancelCommit, RetryLoad,
     RetryCommit, ResolveMissing, ResolveMark, StorageOK, storageVars
<1>4. ASSUME NEW w \in Workers,
             WorkerStart(w) \/ WorkerCrash(w) \/ \E j \in Jobs : Claim(w, j) \/ PurgeJob(w, j)
      PROVE  multipart'[u] # "none"
  BY <1>4 DEF WorkerStart, WorkerCrash, Claim, PurgeJob, storageVars
<1>5. ASSUME NEW w \in Workers, NEW v \in Uploads, WorkerStep(w, v)
      PROVE  multipart'[u] # "none"
  BY <1>1, <1>5 DEF WorkerStep, JobStep, ExpiryStep,
     LoadUpload, InspectIncoming, PersistDerivedKeys, StorePlayback, StoreCmaf, Publish,
     PublishRefused, RemoveObsolete, Acknowledge, Unstore, RecordFailure, JobStepFails,
     FailureNotRecorded, ExpirySelect, ExpiryAbort, ExpiryHead, ExpiryCancel, ExpiryQueue,
     ExpiryError, ExpiryGivesUp, PurgeSession, StorageOK, storageVars
<1>6. CASE UNCHANGED vars
  BY <1>6 DEF vars, storageVars
<1>. QED BY <1>2, <1>3, <1>4, <1>5, <1>6 DEF Next

LEMMA BegunStep ==
    ASSUME Sound, [Next]_vars
    PROVE  Begun'
<1>1. TypeOK /\ RowsOK /\ RequestsOK /\ StorageOK /\ Alone /\ Begun
  BY DEF Sound, Facts, TypeOK
<1>2. ASSUME NEW r \in Requests, req'[r].pc = "insert"
      PROVE  sess'[req'[r].upload] = "none" /\ multipart'[req'[r].upload] # "none"
  <2>1. CASE \E u \in Uploads : CreateStart(r, u)
    BY <1>1, <2>1 DEF CreateStart, Enter, RequestsOK, StorageOK, dbVars
  <2>2. CASE req'[r] = req[r]
    <3>1. req[r].upload \in Uploads
      BY <1>1, <1>2, <2>2 DEF RequestsOK
    <3>2. sess[req[r].upload] = "none" /\ multipart[req[r].upload] # "none"
      BY <1>1, <1>2, <2>2 DEF Begun
    <3>3. ASSUME NEW s \in Requests, CreateInsert(s, req[r].upload) PROVE FALSE
      <4>1. s = r
        BY <1>1, <1>2, <2>2, <3>3 DEF CreateInsert, At, Alone
      <4>2. req'[s].pc = "idle"
        BY <1>1, <3>3 DEF CreateInsert, Done, IdleRequest, RequestsOK
      <4>. QED BY <1>2, <4>1, <4>2
    <3>. QED BY <1>1, <2>2, <3>1, <3>2, <3>3, SessionMoves, MultipartKept
  <2>3. ~\E u \in Uploads : ResolveMissing(r, u)
    BY <1>1, <1>2 DEF ResolveMissing, Enter, RequestsOK
  <2>. QED BY <1>1, <1>2, <2>1, <2>2, <2>3, RequestMoves
<1>3. ASSUME NEW r \in Requests,
             req'[r].pc \in {"purgeIncoming", "purgePlayback", "requeue"}
      PROVE  sess'[req'[r].upload] \notin {"none", "uploading"}
  <2>1. CASE req'[r] = req[r]
    <3>1. req[r].upload \in Uploads /\ sess[req[r].upload] \notin {"none", "uploading"}
      BY <1>1, <1>3, <2>1 DEF RequestsOK, Begun
    <3>. QED BY <1>1, <2>1, <3>1, SessionMoves
  <2>2. ~\E u \in Uploads : ResolveMissing(r, u) \/ CreateStart(r, u)
    BY <1>1, <1>3 DEF ResolveMissing, CreateStart, Enter, RequestsOK
  <2>3. CASE req'[r] # req[r]
    <3>1. PICK u \in Uploads : /\ req'[r].upload = u /\ sess' = sess
                               /\ sess[u] = "error" \/ At(r, u, "purgeIncoming")
      BY <1>1, <1>3, <2>2, <2>3, RequestMoves
    <3>. QED BY <1>1, <3>1 DEF At, Begun
  <2>. QED BY <2>1, <2>3
<1>4. ASSUME NEW j \in Jobs
      PROVE  IF job'[j] = "free" THEN jobOf'[j] = NoUpload
                                 ELSE sess'[jobOf'[j]] \notin {"none", "uploading"}
  <2>1. CASE job[j] = "free" /\ job'[j] = "pending"
    BY <1>1, <2>1, JobMoves DEF RowsOK
  <2>2. CASE ~(job[j] = "free" /\ job'[j] = "pending")
    <3>1. jobOf'[j] = jobOf[j] /\ (job'[j] = "free" <=> job[j] = "free")
      BY <1>1, <2>2, JobMoves
    <3>2. job[j] # "free" => jobOf[j] \in Uploads
      BY <1>1 DEF RowsOK
    <3>. QED BY <1>1, <3>1, <3>2, SessionMoves DEF Begun
  <2>. QED BY <2>1, <2>2
<1>. QED BY <1>2, <1>3, <1>4 DEF Begun

\* No step takes the status of a track that was never published away from its
\* session's, or settles a job as succeeded without a publication.
LEMMA AssetsStep ==
    ASSUME Sound, [Next]_vars
    PROVE  Assets'
<1>1. TypeOK /\ RowsOK /\ WorkersOK /\ Begun /\ Assets /\ WorkersFacts /\ WorkerHoldsItsJob
  BY DEF Sound, Facts, TypeOK
<1> DEFINE Fresh(u)  == asset[u] = NoJob => track[u] \in {"none", sess[u]} /\ track[u] # "ready"
           Made(u)   == asset[u] # NoJob => job[asset[u]] \in Over /\ jobOf[asset[u]] = u
           Done1(j)  == job[j] = "succeeded" => asset[jobOf[j]] # NoJob
           Goal == /\ \A u \in Uploads : Fresh(u)' /\ Made(u)'
                   /\ \A j \in Jobs : Done1(j)'
<1>2. /\ \A u \in Uploads : Fresh(u) /\ Made(u)
      /\ \A j \in Jobs : Done1(j)
  BY <1>1 DEF Assets
<1>3. ASSUME NEW u \in Uploads, asset'[u] = asset[u] PROVE Made(u)'
  <2>1. asset[u] # NoJob => asset[u] \in Jobs /\ job[asset[u]] \in Over /\ jobOf[asset[u]] = u
    BY <1>1, <1>2 DEF RowsOK
  <2>. QED BY <1>1, <1>3, <2>1, JobMoves DEF Over
<1>4. ASSUME UNCHANGED <<sess, track, asset, job, jobOf>> PROVE Goal
  <2>1. sess' = sess /\ track' = track /\ asset' = asset /\ job' = job /\ jobOf' = jobOf
    BY <1>4
  <2>2. \A u \in Uploads : Fresh(u)' /\ Made(u)'
    BY <1>2, <2>1
  <2>. QED BY <1>2, <2>1, <2>2
<1>5. ASSUME NEW r \in Requests, NEW u \in Uploads,
             CreateInsert(r, u) \/ RetryCommit(r, u) \/ ResolveMark(r, u)
      PROVE  Goal
  <2>1. asset' = asset
    BY <1>5 DEF CreateInsert, RetryCommit, ResolveMark
  <2>2. \A v \in Uploads : Fresh(v)'
    BY <1>1, <1>2, <1>5 DEF CreateInsert, RetryCommit, ResolveMark, SetSession, SetTrack, RowsOK
  <2>3. \A j \in Jobs : job'[j] = "succeeded" => job[j] = "succeeded" /\ jobOf'[j] = jobOf[j]
    BY <1>1, <1>5 DEF CreateInsert, RetryCommit, ResolveMark, InsertJob, RowsOK
  <2>. QED BY <1>2, <1>3, <2>1, <2>2, <2>3
<1>6. ASSUME NEW u \in Uploads, QueueProcessing(u) PROVE Goal
  <2>1. asset' = asset
    BY <1>6 DEF QueueProcessing
  <2>2. \A v \in Uploads : Fresh(v)'
    BY <1>1, <1>2, <1>6 DEF QueueProcessing, RowsOK
  <2>3. \A j \in Jobs : job'[j] = "succeeded" => job[j] = "succeeded" /\ jobOf'[j] = jobOf[j]
    BY <1>1, <1>6 DEF QueueProcessing, InsertJob, RowsOK
  <2>. QED BY <1>2, <1>3, <2>1, <2>2, <2>3
<1>7. ASSUME NEW u \in Uploads, CancelRecord(u) PROVE Goal
  <2>1. \A v \in Uploads : Fresh(v)'
    BY <1>1, <1>2, <1>7 DEF CancelRecord, RowsOK
  <2>2. \A v \in Uploads : asset'[v] = asset[v] \/ asset'[v] = NoJob
    BY <1>1, <1>7 DEF CancelRecord, RowsOK
  <2>3. \A v \in Uploads : Made(v)'
    BY <1>3, <2>2
  <2>4. \A j \in Jobs : job'[j] = "succeeded" =>
            job[j] = "succeeded" /\ jobOf'[j] = jobOf[j] /\ asset'[jobOf[j]] = asset[jobOf[j]]
    BY <1>1, <1>7 DEF CancelRecord, RowsOK
  <2>. QED BY <1>2, <2>1, <2>3, <2>4
<1>8. ASSUME NEW w \in Workers, WorkerStart(w) PROVE Goal
  <2>1. /\ asset' = asset /\ jobOf' = jobOf
        /\ \A j \in Jobs : job'[j] =
               IF job[j] = "running"
               THEN IF track[jobOf[j]] = "ready" THEN "succeeded" ELSE "failed"
               ELSE job[j]
        /\ \A u \in Uploads :
               /\ track'[u] = IF Interrupted(u) /\ track[u] # "none"
                              THEN "error" ELSE track[u]
               /\ sess'[u] = IF Interrupted(u) /\ SessionRow(u) THEN "error"
                             ELSE IF sess[u] = "processing" /\ Settled(u)
                                  THEN "ready" ELSE sess[u]
    BY <1>1, <1>8, StartEffect
  <2>2. ASSUME NEW u \in Uploads PROVE Fresh(u)'
    <3>1. ASSUME asset[u] = NoJob, track[u] # "none"
          PROVE  track'[u] = sess'[u] /\ track'[u] # "ready"
      <4>1. track[u] = sess[u] /\ track[u] # "ready"
        BY <1>2, <3>1
      <4>2. SessionRow(u)
        BY <1>1, <3>1, <4>1 DEF SessionRow, RowsOK, TrackStatus
      <4>3. ~Settled(u)
        BY <1>2, <3>1, <4>1 DEF Settled
      <4>. QED BY <2>1, <3>1, <4>1, <4>2, <4>3
    <3>. QED BY <2>1, <3>1
  <2>3. ASSUME NEW j \in Jobs, job'[j] = "succeeded" PROVE asset'[jobOf'[j]] # NoJob
    <3>1. job[j] = "succeeded" \/ (job[j] = "running" /\ track[jobOf[j]] = "ready")
      BY <2>1, <2>3
    <3>2. jobOf[j] \in Uploads
      BY <1>1, <3>1 DEF RowsOK
    <3>. QED BY <1>2, <2>1, <3>1, <3>2
  <2>. QED BY <1>3, <2>1, <2>2, <2>3
<1>9. ASSUME NEW w \in Workers, NEW u \in Uploads, Publish(w, u) PROVE Goal
  <2>1. /\ wrk[w].job \in Jobs /\ jobOf[wrk[w].job] = u
        /\ job[wrk[w].job] \in Over \cup {"running"}
    BY <1>1, <1>9 DEF Publish, Working, WorkersOK, WorkerHoldsItsJob, RowsOK, JobStatus, Over,
       JobPC
  <2>2. /\ asset' = [asset EXCEPT ![u] = wrk[w].job] /\ jobOf' = jobOf
        /\ track' = [track EXCEPT ![u] = "ready"]
        /\ job' = [job EXCEPT ![wrk[w].job] = IF @ = "running" THEN "succeeded" ELSE @]
    BY <1>9 DEF Publish
  <2>3. \A v \in Uploads \ {u} : sess'[v] = sess[v] /\ track'[v] = track[v] /\ asset'[v] = asset[v]
    BY <1>1, <1>9 DEF Publish, SetSession, RowsOK
  <2>4. asset'[u] = wrk[w].job /\ asset'[u] # NoJob /\ job'[wrk[w].job] \in Over
    BY <1>1, <2>1, <2>2, ConstantsAssumption DEF RowsOK, Over
  <2>5. ASSUME NEW v \in Uploads PROVE Fresh(v)' /\ Made(v)'
    BY <1>2, <1>3, <2>1, <2>2, <2>3, <2>4
  <2>6. ASSUME NEW j \in Jobs, job'[j] = "succeeded" PROVE asset'[jobOf'[j]] # NoJob
    <3>1. CASE jobOf[j] = u
      BY <2>2, <2>4, <3>1
    <3>2. CASE jobOf[j] # u
      <4>1. job[j] = "succeeded" /\ jobOf[j] \in Uploads
        BY <1>1, <2>1, <2>2, <2>6, <3>2 DEF RowsOK
      <4>. QED BY <1>2, <2>2, <2>3, <3>2, <4>1
    <3>. QED BY <3>1, <3>2
  <2>. QED BY <2>5, <2>6
<1>10. ASSUME NEW w \in Workers, NEW u \in Uploads, Acknowledge(w, u) PROVE Goal
  <2>1. /\ wrk[w].job \in Jobs /\ jobOf[wrk[w].job] = u
        /\ job[wrk[w].job] = "deleted" \/ asset[u] # NoJob
    BY <1>1, <1>10 DEF Acknowledge, Working, WorkersOK, WorkerHoldsItsJob, WorkersFacts, JobPC
  <2>2. /\ UNCHANGED <<sess, track, asset, jobOf>>
        /\ \A j \in Jobs : job'[j] = "succeeded" =>
               job[j] = "succeeded" \/ (j = wrk[w].job /\ job[j] # "deleted")
    BY <1>1, <1>10 DEF Acknowledge, RowsOK
  <2>. QED BY <1>2, <1>3, <2>1, <2>2
<1>11. ASSUME NEW w \in Workers, NEW u \in Uploads,
              RecordFailure(w, u) \/ ExpiryError(w, u) \/ PurgeSession(w, u)
       PROVE  Goal
  <2>1. asset' = asset /\ jobOf' = jobOf
    BY <1>11 DEF RecordFailure, ExpiryError, PurgeSession
  <2>2. ASSUME NEW v \in Uploads PROVE Fresh(v)'
    <3>1. CASE RecordFailure(w, u)
      BY <1>1, <1>2, <2>1, <3>1 DEF RecordFailure, SetSession, SetTrack, SessionRow, RowsOK,
         TrackStatus
    <3>2. CASE ExpiryError(w, u)
      BY <1>1, <1>2, <2>1, <3>2 DEF ExpiryError, RowsOK
    <3>3. CASE PurgeSession(w, u)
      <4>1. asset[u] = NoJob => track[u] = "none"
        BY <1>1, <1>2, <3>3 DEF PurgeSession, RowsOK, TrackStatus
      <4>. QED BY <1>1, <1>2, <2>1, <3>3, <4>1 DEF PurgeSession, RowsOK
    <3>. QED BY <1>11, <3>1, <3>2, <3>3
  <2>3. \A j \in Jobs : job'[j] = "succeeded" => job[j] = "succeeded"
    BY <1>1, <1>11 DEF RecordFailure, ExpiryError, PurgeSession, RowsOK
  <2>. QED BY <1>2, <1>3, <2>1, <2>2, <2>3
<1>12. ASSUME NEW w \in Workers, NEW j \in Jobs, Claim(w, j) \/ PurgeJob(w, j) PROVE Goal
  <2>1. /\ UNCHANGED <<sess, track, asset, jobOf>>
        /\ \A k \in Jobs : job'[k] = "succeeded" => job[k] = "succeeded"
    BY <1>1, <1>12 DEF Claim, PurgeJob, RowsOK
  <2>. QED BY <1>2, <1>3, <2>1
<1>13. Goal
  <2> HIDE DEF Goal
  <2>. QED BY <1>4, <1>5, <1>6, <1>7, <1>8, <1>9, <1>10, <1>11, <1>12, Changes
<1>. QED BY <1>13 DEF Assets


-----------------------------------------------------------------------------
(* What the steps leave.                                                      *)

\* The HLS object of a job is deleted only by the worker that holds the job.
LEMMA CmafKept ==
    ASSUME [Next]_vars, NEW j \in cmaf
    PROVE  j \in cmaf' \/ \E w \in Workers, u \in Uploads : Unstore(w, u) /\ wrk[w].job = j
<1> DEFINE Goal ==
        j \in cmaf' \/ \E w \in Workers, u \in Uploads : Unstore(w, u) /\ wrk[w].job = j
<1>1. ASSUME NEW r \in Requests, RequestDies(r) \/ \E u \in Uploads : ApiStep(r, u)
      PROVE  j \in cmaf'
  BY <1>1 DEF RequestDies, ApiStep, CreateStart, CreateInsert, CreateConflict, CreateDiscard,
     CompleteLoad, CompleteAssemble, CompleteRecover, CompleteQueue, CancelLoad, CancelAbort,
     CancelDropIncoming, CancelPurgeIncoming, CancelPurgePlayback, CancelCommit, RetryLoad,
     RetryCommit, ResolveMissing, ResolveMark, storageVars
<1>2. ASSUME NEW w \in Workers,
             WorkerStart(w) \/ WorkerCrash(w) \/ \E k \in Jobs : Claim(w, k) \/ PurgeJob(w, k)
      PROVE  j \in cmaf'
  BY <1>2 DEF WorkerStart, WorkerCrash, Claim, PurgeJob, storageVars
<1>3. ASSUME NEW w \in Workers, NEW u \in Uploads, WorkerStep(w, u) PROVE Goal
  <2>1. CASE Unstore(w, u)
    BY <2>1 DEF Unstore
  <2>2. CASE ~Unstore(w, u)
    BY <1>3, <2>2 DEF WorkerStep, JobStep, ExpiryStep,
       LoadUpload, InspectIncoming, PersistDerivedKeys, StorePlayback, StoreCmaf, Publish,
       PublishRefused, RemoveObsolete, Acknowledge, RecordFailure, JobStepFails,
       FailureNotRecorded, ExpirySelect, ExpiryAbort, ExpiryHead, ExpiryCancel, ExpiryQueue,
       ExpiryError, ExpiryGivesUp, PurgeSession, storageVars
  <2>. QED BY <2>1, <2>2
<1>4. CASE UNCHANGED vars
  BY <1>4 DEF vars, storageVars
<1>. QED BY <1>1, <1>2, <1>3, <1>4 DEF Next

\* The progressive object is deleted only by a cancel, which misleads an upload
\* that was retried meanwhile.
LEMMA PlaybackKept ==
    ASSUME [Next]_vars, NEW u \in playback, u \in Uploads, u \notin misled',
           track[u] \in {"processing", "ready"}
    PROVE  u \in playback'
<1>1. ASSUME NEW r \in Requests, RequestDies(r) PROVE u \in playback'
  BY <1>1 DEF RequestDies, storageVars
<1>2. ASSUME NEW r \in Requests, NEW v \in Uploads, ApiStep(r, v) PROVE u \in playback'
  <2>1. CASE CancelPurgePlayback(r, v)
    BY <2>1 DEF CancelPurgePlayback, Mislead, Revived
  <2>2. CASE ~CancelPurgePlayback(r, v)
    BY <1>2, <2>2 DEF ApiStep, CreateStart, CreateInsert, CreateConflict, CreateDiscard,
       CompleteLoad, CompleteAssemble, CompleteRecover, CompleteQueue, CancelLoad, CancelAbort,
       CancelDropIncoming, CancelPurgeIncoming, CancelCommit, RetryLoad, RetryCommit,
       ResolveMissing, ResolveMark, storageVars
  <2>. QED BY <2>1, <2>2
<1>3. ASSUME NEW w \in Workers,
             WorkerStart(w) \/ WorkerCrash(w) \/ \E k \in Jobs : Claim(w, k) \/ PurgeJob(w, k)
      PROVE  u \in playback'
  BY <1>3 DEF WorkerStart, WorkerCrash, Claim, PurgeJob, storageVars
<1>4. ASSUME NEW w \in Workers, NEW v \in Uploads, WorkerStep(w, v) PROVE u \in playback'
  BY <1>4 DEF WorkerStep, JobStep, ExpiryStep,
     LoadUpload, InspectIncoming, PersistDerivedKeys, StorePlayback, StoreCmaf, Publish,
     PublishRefused, RemoveObsolete, Acknowledge, Unstore, RecordFailure, JobStepFails,
     FailureNotRecorded, ExpirySelect, ExpiryAbort, ExpiryHead, ExpiryCancel, ExpiryQueue,
     ExpiryError, ExpiryGivesUp, PurgeSession, storageVars
<1>5. CASE UNCHANGED vars
  BY <1>5 DEF vars, storageVars
<1>. QED BY <1>1, <1>2, <1>3, <1>4, <1>5 DEF Next

\* The asset of a track changes only with a publication, or goes with the track
\* and its jobs.
LEMMA AssetMoves ==
    ASSUME TypeOK, [Next]_vars, NEW u \in Uploads
    PROVE  \/ asset'[u] = asset[u]
           \/ \E w \in Workers : Publish(w, u)
           \/ /\ asset'[u] = NoJob /\ track[u] \in {"uploading", "error"}
              /\ \A j \in Jobs : jobOf[j] = u => job'[j] = "deleted"
<1> DEFINE Goal ==
           \/ asset'[u] = asset[u]
           \/ \E w \in Workers : Publish(w, u)
           \/ /\ asset'[u] = NoJob /\ track[u] \in {"uploading", "error"}
              /\ \A j \in Jobs : jobOf[j] = u => job'[j] = "deleted"
<1>1. RowsOK
  BY DEF TypeOK
<1>2. ASSUME UNCHANGED <<sess, track, asset, job, jobOf>> PROVE Goal
  BY <1>2
<1>3. ASSUME NEW r \in Requests, NEW v \in Uploads,
             CreateInsert(r, v) \/ RetryCommit(r, v) \/ ResolveMark(r, v)
      PROVE  Goal
  BY <1>3 DEF CreateInsert, RetryCommit, ResolveMark
<1>4. ASSUME NEW v \in Uploads, QueueProcessing(v) \/ CancelRecord(v) PROVE Goal
  <2>1. CASE QueueProcessing(v)
    BY <2>1 DEF QueueProcessing
  <2>2. CASE CancelRecord(v) /\ v # u
    BY <1>1, <2>2 DEF CancelRecord, RowsOK
  <2>3. CASE CancelRecord(u)
    BY <1>1, <2>3 DEF CancelRecord, RowsOK
  <2>. QED BY <1>4, <2>1, <2>2, <2>3
<1>5. ASSUME NEW w \in Workers, WorkerStart(w) PROVE Goal
  BY <1>5 DEF WorkerStart
<1>6. ASSUME NEW w \in Workers, NEW v \in Uploads,
             \/ Publish(w, v) \/ Acknowledge(w, v) \/ RecordFailure(w, v)
             \/ ExpiryError(w, v) \/ PurgeSession(w, v)
      PROVE  Goal
  <2>1. CASE Publish(w, v)
    BY <1>1, <2>1 DEF Publish, RowsOK
  <2>2. CASE ~Publish(w, v)
    BY <1>6, <2>2 DEF Acknowledge, RecordFailure, ExpiryError, PurgeSession
  <2>. QED BY <2>1, <2>2
<1>7. ASSUME NEW w \in Workers, NEW j \in Jobs, Claim(w, j) \/ PurgeJob(w, j) PROVE Goal
  BY <1>7 DEF Claim, PurgeJob
<1>. QED
  <2> HIDE DEF Goal
  <2>1. Goal
    BY <1>2, <1>3, <1>4, <1>5, <1>6, <1>7, Changes
  <2>. QED BY <2>1 DEF Goal

\* A running job runs on, unless a worker starts, its track is cancelled or the
\* worker that holds it settles it.
LEMMA RunningKept ==
    ASSUME TypeOK, [Next]_vars, NEW j \in Jobs, job[j] = "running"
    PROVE  \/ job'[j] = "running"
           \/ \E w \in Workers : WorkerStart(w)
           \/ track[jobOf[j]] \in {"uploading", "error"}
           \/ \E w \in Workers :
                 /\ wrk[w].pc \in JobPC /\ wrk[w].job = j
                 /\ wrk'[w].pc \notin Claimed \/ misled' = misled \cup {wrk[w].upload}
<1> DEFINE Goal ==
           \/ job'[j] = "running"
           \/ \E w \in Workers : WorkerStart(w)
           \/ track[jobOf[j]] \in {"uploading", "error"}
           \/ \E w \in Workers :
                 /\ wrk[w].pc \in JobPC /\ wrk[w].job = j
                 /\ wrk'[w].pc \notin Claimed \/ misled' = misled \cup {wrk[w].upload}
<1>1. RowsOK /\ WorkersOK
  BY DEF TypeOK
<1>2. ASSUME UNCHANGED <<sess, track, asset, job, jobOf>> PROVE Goal
  BY <1>2
<1>3. ASSUME NEW r \in Requests, NEW u \in Uploads,
             CreateInsert(r, u) \/ RetryCommit(r, u) \/ ResolveMark(r, u)
      PROVE  Goal
  BY <1>1, <1>3 DEF CreateInsert, RetryCommit, ResolveMark, InsertJob, RowsOK
<1>4. ASSUME NEW u \in Uploads, QueueProcessing(u) \/ CancelRecord(u) PROVE Goal
  BY <1>1, <1>4 DEF QueueProcessing, CancelRecord, InsertJob, RowsOK
<1>5. ASSUME NEW w \in Workers, WorkerStart(w) PROVE Goal
  BY <1>5
<1>6. ASSUME NEW w \in Workers, NEW u \in Uploads,
             \/ Publish(w, u) \/ Acknowledge(w, u) \/ RecordFailure(w, u)
             \/ ExpiryError(w, u) \/ PurgeSession(w, u)
      PROVE  Goal
  <2>1. CASE Publish(w, u)
    <3>1. wrk[w].pc \in JobPC /\ wrk[w].upload = u
          /\ (wrk'[w].pc = "obsolete" \/ misled' = misled \cup {u})
      BY <1>1, <2>1 DEF Publish, Working, Step, Mislead, WorkersOK, JobPC
    <3>. QED BY <1>1, <2>1, <3>1 DEF Publish, RowsOK, Claimed
  <2>2. CASE Acknowledge(w, u) \/ RecordFailure(w, u)
    <3>1. wrk[w].pc \in JobPC /\ wrk'[w].pc = "idle"
      BY <1>1, <2>2 DEF Acknowledge, RecordFailure, Working, Rest, IdleWorker, DownWorker,
         WorkersOK, JobPC
    <3>. QED BY <1>1, <2>2, <3>1 DEF Acknowledge, RecordFailure, RowsOK, Claimed, JobPC
  <2>3. CASE ExpiryError(w, u) \/ PurgeSession(w, u)
    BY <2>3 DEF ExpiryError, PurgeSession
  <2>. QED BY <1>6, <2>1, <2>2, <2>3
<1>7. ASSUME NEW w \in Workers, NEW k \in Jobs, Claim(w, k) \/ PurgeJob(w, k) PROVE Goal
  BY <1>1, <1>7 DEF Claim, PurgeJob, RowsOK
<1>. QED
  <2> HIDE DEF Goal
  <2>1. Goal
    BY <1>2, <1>3, <1>4, <1>5, <1>6, <1>7, Changes
  <2>. QED BY <2>1 DEF Goal

LEMMA WorkersFactsStep ==
    ASSUME Sound, [Next]_vars
    PROVE  WorkersFacts'
<1>1. TypeOK /\ RowsOK /\ WorkersOK /\ Alone /\ Begun /\ WorkersFacts /\ WorkerHoldsItsJob
  BY DEF Sound, Facts, TypeOK
<1>2. ASSUME NEW w \in Workers, wrk'[w].pc = "publish" PROVE wrk'[w].job \in cmaf'
  <2>1. CASE wrk'[w] = wrk[w]
    <3>1. wrk[w].job \in cmaf /\ wrk[w].pc \in JobPC
      BY <1>1, <1>2, <2>1 DEF WorkersFacts, JobPC
    <3>2. ASSUME NEW v \in Workers, NEW u \in Uploads, Unstore(v, u), wrk[v].job = wrk[w].job
          PROVE  FALSE
      <4>1. v = w
        BY <1>1, <3>1, <3>2 DEF Unstore, Working, Alone, JobPC
      <4>. QED BY <1>2, <2>1, <3>2, <4>1 DEF Unstore, Working
    <3>. QED BY <2>1, <3>1, <3>2, CmafKept
  <2>2. CASE \E u \in Uploads : StoreCmaf(w, u)
    BY <1>1, <2>2 DEF StoreCmaf, Step, WorkersOK
  <2>. QED BY <1>1, <1>2, <2>1, <2>2, WorkerMoves DEF JobPC
<1>3. ASSUME NEW w \in Workers, wrk'[w].pc \in {"obsolete", "ack"}
      PROVE  job'[wrk'[w].job] = "deleted" \/ asset'[wrk'[w].upload] # NoJob
  <2>1. CASE \E u \in Uploads : Publish(w, u)
    <3>1. PICK u \in Uploads : Publish(w, u)
      BY <2>1
    <3>2. wrk'[w].upload = u /\ wrk[w].job \in Jobs /\ asset'[u] = wrk[w].job
      BY <1>1, <3>1 DEF Publish, Working, Step, WorkersOK, RowsOK, JobPC
    <3>. QED BY <3>2, ConstantsAssumption
  <2>2. CASE ~\E u \in Uploads : Publish(w, u)
    <3>1. /\ wrk[w].pc \in {"obsolete", "ack"}
          /\ wrk'[w].job = wrk[w].job /\ wrk'[w].upload = wrk[w].upload
      BY <1>1, <1>3, <2>2, WorkerMoves DEF JobPC, Claimed
    <3>2. /\ wrk[w].job \in Jobs /\ wrk[w].upload \in Uploads
          /\ jobOf[wrk[w].job] = wrk[w].upload
          /\ job[wrk[w].job] = "deleted" \/ asset[wrk[w].upload] # NoJob
      BY <1>1, <3>1 DEF WorkersOK, WorkerHoldsItsJob, WorkersFacts, JobPC
    <3>3. job[wrk[w].job] = "deleted" => job'[wrk[w].job] = "deleted"
      BY <1>1, <3>2, JobMoves
    <3>4. ASSUME NEW v \in Workers, Publish(v, wrk[w].upload)
          PROVE  asset'[wrk[w].upload] # NoJob
      <4>1. wrk[v].job \in Jobs /\ asset'[wrk[w].upload] = wrk[v].job
        BY <1>1, <3>2, <3>4 DEF Publish, Working, WorkersOK, RowsOK, JobPC
      <4>. QED BY <4>1, ConstantsAssumption
    <3>. QED BY <1>1, <3>1, <3>2, <3>3, <3>4, AssetMoves
  <2>. QED BY <2>1, <2>2
<1>. QED BY <1>2, <1>3 DEF WorkersFacts

LEMMA MissingStep ==
    ASSUME Sound, [Next]_vars
    PROVE  MissingFacts'
<1>1. TypeOK /\ RequestsOK /\ Assets /\ MissingFacts /\ Truth
  BY DEF Sound, Facts, TypeOK
<1>2. misled \subseteq misled'
  BY <1>1, MisledGrows
<1>3. ASSUME NEW r \in Requests, req'[r].pc = "missing" PROVE req'[r].upload \in misled'
  <2>1. CASE req'[r] = req[r]
    BY <1>1, <1>2, <1>3, <2>1 DEF MissingFacts
  <2>2. ASSUME NEW u \in Uploads, ResolveMissing(r, u), req'[r].upload = u
        PROVE  u \in misled
    BY <1>1, <2>2 DEF ResolveMissing, Assets, Truth, Kept
  <2>3. ~\E u \in Uploads : CreateStart(r, u)
    BY <1>1, <1>3 DEF CreateStart, Enter, RequestsOK
  <2>. QED BY <1>1, <1>2, <1>3, <2>1, <2>2, <2>3, RequestMoves
<1>. QED BY <1>3 DEF MissingFacts

-----------------------------------------------------------------------------
(* The steps of an upload that is not misled.                                 *)

\* The job of a worker that is not done runs, and its upload is in processing.
LEMMA HeldProcessing ==
    ASSUME Sound, NEW u \in Uploads \ misled, NEW w \in Workers,
           wrk[w].pc \in Claimed, wrk[w].upload = u
    PROVE  /\ wrk[w].job \in Jobs /\ job[wrk[w].job] = "running" /\ jobOf[wrk[w].job] = u
           /\ sess[u] = "processing" /\ track[u] = "processing"
<1>1. WorkersOK /\ WorkerHoldsItsJob /\ Together(u) /\ JobsTrue(u) /\ WorkTrue(u)
  BY DEF Sound, TypeOK, Truth
<1>2. wrk[w].job \in Jobs /\ job[wrk[w].job] = "running" /\ jobOf[wrk[w].job] = u
  BY <1>1 DEF WorkersOK, WorkerHoldsItsJob, WorkTrue, Claimed
<1>. QED BY <1>1, <1>2 DEF JobsTrue, Together, Active

\* What a step makes of the two statuses.
Both(u, s)  == sess[u] = s /\ track[u] = s
Moves(u) ==
    \/ sess'[u] = sess[u] /\ track'[u] = track[u]
    \/ sess[u] = "none" /\ Both(u, "uploading")'
    \/ track[u] \in {"uploading", "processing", "error"} /\ Both(u, "processing")'
    \/ /\ Both(u, "uploading") \/ Both(u, "error")
       /\ sess'[u] = "cancelled" /\ track'[u] = "none"
    \/ /\ Both(u, "processing") /\ (Both(u, "error")' \/ Both(u, "ready")')
       /\ \A j \in Jobs : jobOf[j] = u => ~Active(j)'
    \/ Both(u, "uploading") /\ Both(u, "error")'
    \/ sess[u] \in {"ready", "cancelled"} /\ sess'[u] = "gone" /\ track'[u] = track[u]

LEMMA TrueMoves ==
    ASSUME Sound, [Next]_vars, NEW u \in Uploads \ misled'
    PROVE  Moves(u)
<1>0. misled \subseteq misled'
  BY MisledGrows DEF Sound
<1>1. /\ TypeOK /\ RowsOK /\ WorkersOK /\ Alone /\ Begun /\ Assets /\ MissingFacts
      /\ Together(u) /\ Kept(u) /\ JobsTrue(u) /\ u \in Uploads \ misled
  BY <1>0 DEF Sound, Facts, TypeOK, Truth
<1>2. ASSUME UNCHANGED <<sess, track, asset, job, jobOf>> PROVE Moves(u)
  BY <1>2 DEF Moves
<1>3. ASSUME NEW r \in Requests, NEW v \in Uploads,
             CreateInsert(r, v) \/ RetryCommit(r, v) \/ ResolveMark(r, v)
      PROVE  Moves(u)
  <2>1. CASE v # u
    BY <1>1, <1>3, <2>1 DEF CreateInsert, RetryCommit, ResolveMark, SetSession, SetTrack,
       RowsOK, Moves
  <2>2. CASE CreateInsert(r, u)
    BY <1>1, <2>2 DEF CreateInsert, At, Begun, RowsOK, Moves, Both
  <2>3. CASE RetryCommit(r, u)
    <3>1. Both(u, "processing")'
      BY <1>1, <2>3 DEF RetryCommit, SetSession, SetTrack, RowsOK, Both
    <3>2. track[u] \notin {"none", "ready"}
      BY <1>1, <2>3 DEF RetryCommit, Mislead, Revived
    <3>. QED BY <1>1, <3>1, <3>2 DEF Moves, RowsOK, TrackStatus
  <2>4. CASE ResolveMark(r, u)
    BY <1>1, <2>4 DEF ResolveMark, At, MissingFacts
  <2>. QED BY <1>3, <2>1, <2>2, <2>3, <2>4
<1>4. ASSUME NEW v \in Uploads, QueueProcessing(v) \/ CancelRecord(v) PROVE Moves(u)
  <2>1. CASE v # u
    BY <1>1, <1>4, <2>1 DEF QueueProcessing, CancelRecord, RowsOK, Moves
  <2>2. CASE QueueProcessing(u)
    BY <1>1, <2>2 DEF QueueProcessing, Processable, RowsOK, Moves, Both
  <2>3. CASE CancelRecord(u)
    <3>1. sess'[u] = (IF sess[u] \in {"uploading", "error"} THEN "cancelled" ELSE sess[u])
          /\ track'[u] = (IF track[u] \in {"uploading", "error"} THEN "none" ELSE track[u])
      BY <1>1, <2>3 DEF CancelRecord, RowsOK
    <3>. QED BY <1>1, <3>1 DEF Together, Moves, Both
  <2>. QED BY <1>4, <2>1, <2>2, <2>3
<1>5. ASSUME NEW w \in Workers, WorkerStart(w) PROVE Moves(u)
  <2>1. /\ jobOf' = jobOf
        /\ \A j \in Jobs : job[j] = "running" => ~Active(j)'
        /\ \A j \in Jobs : job[j] # "running" => job'[j] = job[j]
        /\ track'[u] = IF Interrupted(u) /\ track[u] # "none" THEN "error" ELSE track[u]
        /\ sess'[u] = IF Interrupted(u) /\ SessionRow(u) THEN "error"
                      ELSE IF sess[u] = "processing" /\ Settled(u) THEN "ready" ELSE sess[u]
    BY <1>1, <1>5, StartEffect DEF Active
  <2>2. CASE Interrupted(u)
    <3>1. PICK j \in Jobs : job[j] = "running" /\ jobOf[j] = u
      BY <2>2 DEF Interrupted
    <3>2. Both(u, "processing")
      BY <1>1, <3>1 DEF JobsTrue, Together, Active, Both
    <3>3. Both(u, "error")'
      BY <2>1, <2>2, <3>2 DEF Both, SessionRow
    <3>4. \A k \in Jobs : jobOf[k] = u => ~Active(k)'
      <4>1. ASSUME NEW k \in Jobs, jobOf[k] = u, Active(k)' PROVE FALSE
        <5>1. Active(k) /\ Active(j)
          BY <2>1, <3>1, <4>1 DEF Active
        <5>2. k = j
          BY <1>1, <3>1, <4>1, <5>1 DEF Alone
        <5>. QED BY <2>1, <3>1, <4>1, <5>2
      <4>. QED BY <4>1
    <3>. QED BY <3>2, <3>3, <3>4 DEF Moves
  <2>3. CASE ~Interrupted(u)
    <3>1. sess[u] = "processing" => ~Settled(u)
      BY <1>1 DEF Settled, Assets, Kept, Together
    <3>. QED BY <2>1, <2>3, <3>1 DEF Moves
  <2>. QED BY <2>2, <2>3
<1>6. ASSUME NEW w \in Workers, NEW v \in Uploads,
             \/ Publish(w, v) \/ Acknowledge(w, v) \/ RecordFailure(w, v)
             \/ ExpiryError(w, v) \/ PurgeSession(w, v)
      PROVE  Moves(u)
  <2>1. CASE v # u
    BY <1>1, <1>6, <2>1 DEF Publish, Acknowledge, RecordFailure, ExpiryError, PurgeSession,
       SetSession, SetTrack, RowsOK, Moves
  <2>2. CASE Publish(w, u) \/ RecordFailure(w, u)
    <3>1. wrk[w].pc \in Claimed /\ wrk[w].upload = u
      BY <2>2 DEF Publish, RecordFailure, Working, Claimed, JobPC
    <3>2. /\ wrk[w].job \in Jobs /\ job[wrk[w].job] = "running" /\ jobOf[wrk[w].job] = u
          /\ Both(u, "processing")
      BY <1>1, <3>1, HeldProcessing DEF Both
    <3>3. \/ Both(u, "ready")' /\ job' = [job EXCEPT ![wrk[w].job] = "succeeded"]
          \/ Both(u, "error")' /\ job' = [job EXCEPT ![wrk[w].job] = "failed"]
      BY <1>1, <2>2, <3>2 DEF Publish, RecordFailure, SetSession, SetTrack, SessionRow, RowsOK,
         Both
    <3>4. ASSUME NEW k \in Jobs, jobOf[k] = u, Active(k)' PROVE FALSE
      <4>1. k # wrk[w].job /\ Active(k)
        BY <1>1, <3>2, <3>3, <3>4 DEF Active, RowsOK
      <4>. QED BY <1>1, <3>2, <3>4, <4>1 DEF Alone, Active
    <3>. QED BY <3>2, <3>3, <3>4 DEF Moves
  <2>3. CASE Acknowledge(w, u)
    BY <2>3 DEF Acknowledge, Moves
  <2>4. CASE ExpiryError(w, u)
    BY <1>1, <2>4 DEF ExpiryError, Together, RowsOK, Moves, Both
  <2>5. CASE PurgeSession(w, u)
    BY <1>1, <2>5 DEF PurgeSession, RowsOK, Moves
  <2>. QED BY <1>6, <2>1, <2>2, <2>3, <2>4, <2>5
<1>7. ASSUME NEW w \in Workers, NEW j \in Jobs, Claim(w, j) \/ PurgeJob(w, j) PROVE Moves(u)
  BY <1>7 DEF Claim, PurgeJob, Moves
<1>. QED BY <1>2, <1>3, <1>4, <1>5, <1>6, <1>7, Changes DEF Sound

LEMMA KeptStep ==
    ASSUME Sound, [Next]_vars, NEW u \in Uploads \ misled'
    PROVE  Kept(u)'
<1>0. misled \subseteq misled'
  BY MisledGrows DEF Sound
<1>1. /\ TypeOK /\ RowsOK /\ WorkersOK /\ Assets /\ WorkersFacts /\ WorkerHoldsItsJob
      /\ Together(u) /\ Kept(u) /\ WorkTrue(u) /\ u \in Uploads \ misled
  BY <1>0 DEF Sound, Facts, TypeOK, Truth
<1>2. ASSUME NEW w \in Workers, Publish(w, u) PROVE Kept(u)'
  <2>1. wrk[w].job \in cmaf /\ u \in playback
    BY <1>1, <1>2 DEF Publish, Working, WorkersFacts, WorkTrue
  <2>2. asset'[u] = wrk[w].job /\ track'[u] = "ready" /\ UNCHANGED <<playback, cmaf>>
    BY <1>1, <1>2 DEF Publish, RowsOK, storageVars
  <2>. QED BY <2>1, <2>2 DEF Kept
<1>3. ASSUME asset'[u] = asset[u], asset[u] # NoJob PROVE Kept(u)'
  <2>1. track[u] = "ready" /\ u \in playback /\ asset[u] \in cmaf /\ asset[u] \in Jobs
    BY <1>1, <1>3 DEF Kept, RowsOK
  <2>2. track'[u] = "ready"
    BY <1>1, <2>1, TrueMoves DEF Moves, Both, Together
  <2>3. u \in playback'
    BY <2>1, PlaybackKept
  <2>4. ASSUME NEW w \in Workers, NEW v \in Uploads, Unstore(w, v), wrk[w].job = asset[u]
        PROVE  FALSE
    <3>1. wrk[w].pc \in Claimed /\ wrk[w].upload = u
      BY <1>1, <1>3, <2>4 DEF Unstore, Working, WorkerHoldsItsJob, Assets, Claimed, JobPC
    <3>2. job[asset[u]] = "running"
      BY <1>1, <2>4, <3>1, HeldProcessing
    <3>. QED BY <1>1, <1>3, <3>2 DEF Assets, Over
  <2>5. asset[u] \in cmaf'
    BY <2>1, <2>4, CmafKept
  <2>. QED BY <1>3, <2>2, <2>3, <2>5 DEF Kept
<1>4. CASE asset'[u] = NoJob
  BY <1>4 DEF Kept
<1>. QED BY <1>1, <1>2, <1>3, <1>4, AssetMoves

LEMMA JobsTrueStep ==
    ASSUME Sound, [Next]_vars, NEW u \in Uploads \ misled'
    PROVE  JobsTrue(u)'
<1>0. misled \subseteq misled'
  BY MisledGrows DEF Sound
<1>1. TypeOK /\ RowsOK /\ Begun /\ Together(u) /\ JobsTrue(u) /\ u \in Uploads \ misled
  BY <1>0 DEF Sound, Facts, TypeOK, Truth
<1>2. ASSUME NEW j \in Jobs, Active(j)', jobOf'[j] = u PROVE sess'[u] = "processing"
  <2>1. CASE job[j] = "free" /\ job'[j] = "pending"
    <3>1. PICK v \in Uploads : sess'[v] = "processing" /\ jobOf' = [jobOf EXCEPT ![j] = v]
      BY <1>1, <2>1, JobMoves DEF Active
    <3>. QED BY <1>1, <1>2, <3>1 DEF RowsOK
  <2>2. CASE ~(job[j] = "free" /\ job'[j] = "pending")
    <3>1. Active(j) /\ jobOf[j] = u
      BY <1>1, <1>2, <2>2, JobMoves
    <3>2. sess[u] = "processing" /\ track[u] = "processing"
      BY <1>1, <3>1 DEF JobsTrue, Together
    <3>. QED BY <1>2, <3>1, <3>2, TrueMoves DEF Moves, Both
  <2>. QED BY <2>1, <2>2
<1>. QED BY <1>2 DEF JobsTrue

LEMMA WorkTrueStep ==
    ASSUME Sound, [Next]_vars, NEW u \in Uploads \ misled'
    PROVE  WorkTrue(u)'
<1>0. misled \subseteq misled'
  BY MisledGrows DEF Sound
<1>1. TypeOK /\ RowsOK /\ WorkersOK /\ Alone /\ WorkTrue(u) /\ u \in Uploads \ misled
  BY <1>0 DEF Sound, Facts, TypeOK, Truth
<1>2. ASSUME NEW w \in Workers, wrk'[w].upload = u, wrk'[w].pc \in Claimed
      PROVE  /\ job'[wrk'[w].job] = "running"
             /\ wrk'[w].pc \in {"cmaf", "publish"} => u \in playback'
  <2>1. CASE wrk'[w] = wrk[w]
    <3>1. /\ wrk[w].job \in Jobs /\ job[wrk[w].job] = "running" /\ jobOf[wrk[w].job] = u
          /\ sess[u] = "processing" /\ track[u] = "processing"
      BY <1>1, <1>2, <2>1, HeldProcessing
    <3>2. ASSUME NEW v \in Workers, WorkerStart(v) PROVE FALSE
      <4>1. Held(wrk[w].job)
        BY <1>2, <2>1 DEF Held, Claimed
      <4>. QED BY <1>1, <3>1, <3>2, <4>1, StartEffect
    <3>3. ASSUME NEW v \in Workers, wrk[v].pc \in JobPC, wrk[v].job = wrk[w].job,
                 wrk'[v].pc \notin Claimed \/ misled' = misled \cup {wrk[v].upload}
          PROVE  FALSE
      <4>1. v = w
        BY <1>1, <1>2, <2>1, <3>3 DEF Alone, Claimed
      <4>. QED BY <1>2, <2>1, <3>3, <4>1
    <3>4. job'[wrk[w].job] = "running"
      BY <1>1, <3>1, <3>2, <3>3, RunningKept
    <3>5. wrk[w].pc \in {"cmaf", "publish"} => u \in playback'
      BY <1>1, <1>2, <2>1, <3>1, PlaybackKept DEF WorkTrue
    <3>. QED BY <2>1, <3>4, <3>5
  <2>2. ASSUME NEW j \in Jobs, Claim(w, j), wrk'[w].pc = "load", wrk'[w].job = j
        PROVE  job'[wrk'[w].job] = "running"
    BY <1>1, <2>2 DEF Claim, RowsOK
  <2>3. ASSUME NEW v \in Uploads, wrk[w].pc \in JobPC, wrk[w].upload = v,
               wrk'[w].job = wrk[w].job, wrk'[w].upload = v, v = u
        PROVE  /\ StorePlayback(w, v) =>
                      job'[wrk'[w].job] = "running" /\ u \in playback'
               /\ StoreCmaf(w, v) =>
                      job'[wrk'[w].job] = "running" /\ u \in playback'
               /\ wrk[w].pc \in Claimed /\ job' = job => job'[wrk'[w].job] = "running"
    BY <1>1, <2>3 DEF StorePlayback, StoreCmaf, Working, WorkTrue, Claimed, JobPC, dbVars
  <2>. QED BY <1>1, <1>2, <2>1, <2>2, <2>3, WorkerMoves DEF Claimed, JobPC
<1>. QED BY <1>2 DEF WorkTrue, Claimed, JobPC

LEMMA SoundInvariant == Spec => []Sound
<1>1. Init => Facts /\ Truth
  BY ConstantsAssumption
     DEF Init, Facts, Alone, Begun, Assets, WorkersFacts, MissingFacts, Truth, Together, Kept,
         JobsTrue, WorkTrue, Active, IdleRequest, DownWorker, JobPC, Claimed
<1>2. Sound /\ [Next]_vars => (Facts /\ Truth)'
  <2> SUFFICES ASSUME Sound, [Next]_vars PROVE Facts' /\ Truth'
    OBVIOUS
  <2>1. Facts'
    BY AloneStep, BegunStep, AssetsStep, WorkersFactsStep, MissingStep DEF Facts
  <2>2. ASSUME NEW u \in Uploads \ misled' PROVE Together(u)'
    <3>1. Together(u)
      BY MisledGrows DEF Sound, Truth
    <3>. QED BY <3>1, TrueMoves DEF Moves, Both, Together
  <2>3. Truth'
    BY <2>2, KeptStep, JobsTrueStep, WorkTrueStep DEF Truth
  <2>. QED BY <2>1, <2>3
<1>. QED BY <1>1, <1>2, TypeCorrect, RecordsInvariant, PTL DEF Spec, Sound

\* A published track is playable, whatever crashed on the way and whatever the
\* deferred deletes and the purges of other runs and requests removed.
THEOREM Playable == Spec => []UnmisledPlayable
<1>1. Sound => UnmisledPlayable
  BY DEF Sound, Facts, Assets, Truth, Kept, UnmisledPlayable
<1>. QED BY <1>1, SoundInvariant, PTL

\* Every failed track that was not published has a session that its owner can
\* retry or cancel, whichever steps failed on the way.
THEOREM Releasable == Spec => []FailedTrackReleasable
<1>1. Sound => FailedTrackReleasable
  BY DEF Sound, Facts, Assets, Truth, Together, FailedTrackReleasable
<1>. QED BY <1>1, SoundInvariant, PTL

\* Published tracks are immutable in the user application, and a cancelled
\* upload stays cancelled until its row is purged.
THEOREM Terminal == Spec => TerminalStable
<1>1. ASSUME Sound, Sound', [Next]_vars, NEW u \in Uploads \ misled'
      PROVE  /\ track[u] = "ready" => track'[u] = "ready" /\ asset'[u] = asset[u]
             /\ sess[u] = "cancelled" => sess'[u] \in {"cancelled", "gone"}
  <2>1. Together(u)
    BY <1>1, MisledGrows DEF Sound, Truth
  <2>2. ASSUME track[u] = "ready" PROVE track'[u] = "ready" /\ asset'[u] = asset[u]
    <3>1. ~\E w \in Workers : Publish(w, u)
      BY <2>2 DEF Publish
    <3>. QED BY <1>1, <2>1, <2>2, <3>1, TrueMoves, AssetMoves DEF Moves, Both, Together, Sound
  <2>3. ASSUME sess[u] = "cancelled" PROVE sess'[u] \in {"cancelled", "gone"}
    BY <1>1, <2>1, <2>3, TrueMoves DEF Moves, Both, Together
  <2>. QED BY <2>2, <2>3
<1>2. Sound /\ Sound' /\ [Next]_vars
      => [\A u \in Uploads \ misled' :
            /\ track[u] = "ready" => track'[u] = "ready" /\ asset'[u] = asset[u]
            /\ sess[u] = "cancelled" => sess'[u] \in {"cancelled", "gone"}]_vars
  BY <1>1
<1>. QED BY <1>2, SoundInvariant, PTL DEF Spec, TerminalStable

-----------------------------------------------------------------------------
(* The refinement of the life cycle of an upload.                             *)

\* The phase that a track's and a session's status tell.
PhaseAt(t, s) ==
    CASE t = "ready" -> "published"
      [] t = "error" -> "failed"
      [] t = "none"  -> IF s = "none" THEN "none" ELSE "released"
      [] OTHER       -> t

LEMMA PhaseTold ==
    /\ Phase = [u \in Uploads |-> PhaseAt(track[u], sess[u])]
    /\ Phase' = [u \in Uploads |-> PhaseAt(track'[u], sess'[u])]
BY DEF Phase, PhaseAt

\* A step that does not change a phase is not seen.
LEMMA Unseen ==
    ASSUME TypeOK, [Next]_vars,
           \A v \in Uploads : PhaseAt(track'[v], sess'[v]) = PhaseAt(track[v], sess[v])
    PROVE  Lifecycle!Next
<1>1. Phase' = Phase
  BY PhaseTold
<1>. QED BY <1>1, MisledGrows DEF Lifecycle!Next

\* A step that changes the phase of one upload moves it.
LEMMA OneMove ==
    ASSUME NEW u \in Uploads, NEW from, NEW to,
           \A v \in Uploads \ {u} : PhaseAt(track'[v], sess'[v]) = PhaseAt(track[v], sess[v]),
           PhaseAt(track[u], sess[u]) \in from, PhaseAt(track'[u], sess'[u]) = to
    PROVE  Lifecycle!Move(u, from, to)
<1>1. Phase' = [Phase EXCEPT ![u] = to]
  BY PhaseTold
<1>. QED BY <1>1, PhaseTold DEF Lifecycle!Move

\* Every step is a step of the life cycle, or is not seen.
LEMMA LifecycleStep ==
    ASSUME Sound, [Next]_vars
    PROVE  Lifecycle!Next
<1>0. misled \subseteq misled' /\ misled' \subseteq Uploads
  BY MisledGrows DEF Sound
<1>1. TypeOK /\ RowsOK /\ Begun /\ MissingFacts /\ StatusCoupling
  BY DEF Sound, Facts, TypeOK
<1>2. ASSUME UNCHANGED <<sess, track, asset, job, jobOf>> PROVE Lifecycle!Next
  BY <1>1, <1>2, Unseen
<1>3. ASSUME NEW r \in Requests, NEW u \in Uploads, CreateInsert(r, u) PROVE Lifecycle!Next
  <2>1. sess[u] = "none" /\ track[u] = "none"
    BY <1>1, <1>3 DEF CreateInsert, At, Begun, StatusCoupling
  <2>2. Lifecycle!Move(u, {"none"}, "uploading")
    BY <1>1, <1>3, <2>1, OneMove DEF CreateInsert, PhaseAt, RowsOK
  <2>3. \A v \in Uploads : Phase[v] \in Lifecycle!Live => HashOf[v] # HashOf[u]
    BY <1>1, <1>3, PhaseTold DEF CreateInsert, HashTaken, Lifecycle!Live, PhaseAt
  <2>. QED BY <1>0, <2>2, <2>3 DEF Lifecycle!Next, Lifecycle!Open
<1>4. ASSUME NEW r \in Requests, NEW u \in Uploads, RetryCommit(r, u) PROVE Lifecycle!Next
  <2>1. /\ sess' = [sess EXCEPT ![u] = "processing"]
        /\ track' = [track EXCEPT ![u] = "processing"]
        /\ track[u] = "ready" => u \in misled'
    BY <1>1, <1>4 DEF RetryCommit, SetSession, SetTrack, Mislead, Revived, RowsOK
  <2>2. track[u] \in {"error", "processing", "ready"}
    <3>1. sess[u] \notin {"none", "uploading"}
      BY <1>1, <1>4 DEF RetryCommit, At, Begun
    <3>2. track[u] # "none"
      BY <1>4 DEF RetryCommit
    <3>. QED BY <1>1, <3>1, <3>2 DEF StatusCoupling, RowsOK, TrackStatus
  <2>3. CASE track[u] = "error"
    <3>1. Lifecycle!Move(u, {"failed"}, "processing")
      BY <1>1, <2>1, <2>3, OneMove DEF PhaseAt, RowsOK
    <3>. QED BY <1>0, <3>1 DEF Lifecycle!Next, Lifecycle!Retry
  <2>4. CASE track[u] = "processing"
    BY <1>1, <2>1, <2>4, Unseen DEF PhaseAt, RowsOK
  <2>5. CASE track[u] = "ready"
    <3>1. Lifecycle!Move(u, {"published"}, "processing")
      BY <1>1, <2>1, <2>5, OneMove DEF PhaseAt, RowsOK
    <3>. QED BY <1>0, <2>1, <2>5, <3>1 DEF Lifecycle!Next, Lifecycle!TakeBack
  <2>. QED BY <2>2, <2>3, <2>4, <2>5
<1>5. ASSUME NEW r \in Requests, NEW u \in Uploads, ResolveMark(r, u) PROVE Lifecycle!Next
  <2>1. CASE track[u] = "ready"
    <3>1. u \in misled'
      BY <1>0, <1>1, <1>5 DEF ResolveMark, At, MissingFacts
    <3>2. Lifecycle!Move(u, {"published"}, "failed")
      BY <1>1, <1>5, <2>1, OneMove DEF ResolveMark, PhaseAt, RowsOK
    <3>. QED BY <1>0, <3>1, <3>2 DEF Lifecycle!Next, Lifecycle!TakeBack
  <2>2. CASE track[u] # "ready"
    BY <1>1, <1>5, <2>2, Unseen DEF ResolveMark, RowsOK
  <2>. QED BY <2>1, <2>2
<1>6. ASSUME NEW u \in Uploads, QueueProcessing(u) PROVE Lifecycle!Next
  <2>1. CASE track[u] = "uploading"
    <3>1. Lifecycle!Move(u, {"uploading"}, "processing")
      BY <1>1, <1>6, <2>1, OneMove DEF QueueProcessing, PhaseAt, RowsOK
    <3>. QED BY <1>0, <3>1 DEF Lifecycle!Next, Lifecycle!Submit
  <2>2. CASE track[u] = "processing"
    BY <1>1, <1>6, <2>2, Unseen DEF QueueProcessing, PhaseAt, RowsOK
  <2>. QED BY <1>6, <2>1, <2>2 DEF QueueProcessing, Processable
<1>7. ASSUME NEW u \in Uploads, CancelRecord(u) PROVE Lifecycle!Next
  <2>1. CASE track[u] \in {"uploading", "error"}
    <3>1. sess[u] # "none"
      BY <1>1, <2>1 DEF StatusCoupling
    <3>2. Lifecycle!Move(u, {"uploading", "failed"}, "released")
      BY <1>1, <1>7, <2>1, <3>1, OneMove DEF CancelRecord, PhaseAt, RowsOK
    <3>. QED BY <1>0, <3>2 DEF Lifecycle!Next, Lifecycle!Release
  <2>2. CASE track[u] \notin {"uploading", "error"}
    BY <1>1, <1>7, <2>2, Unseen DEF CancelRecord, PhaseAt, RowsOK
  <2>. QED BY <2>1, <2>2
<1>8. ASSUME NEW w \in Workers, WorkerStart(w) PROVE Lifecycle!Next
  <2>1. \A u \in Uploads :
            /\ track'[u] = IF Interrupted(u) /\ track[u] # "none" THEN "error" ELSE track[u]
            /\ sess'[u] = "none" <=> sess[u] = "none"
    BY <1>1, <1>8, StartEffect DEF SessionRow
  <2> DEFINE U == {u \in Uploads : Interrupted(u) /\ track[u] \in {"uploading", "processing"}}
  <2>2. \A u \in U : PhaseAt(track[u], sess[u]) \in {"uploading", "processing"}
    BY DEF PhaseAt
  <2>3. \A u \in Uploads : PhaseAt(track'[u], sess'[u]) =
                               IF u \in U THEN "failed" ELSE PhaseAt(track[u], sess[u])
    BY <1>1, <2>1 DEF PhaseAt, Interrupted, RowsOK, TrackStatus
  <2>4. Phase' = [u \in Uploads |-> IF u \in U THEN "failed" ELSE Phase[u]]
    BY <2>3, PhaseTold
  <2>5. \A u \in U : Phase[u] \in {"uploading", "processing"}
    BY <2>2, PhaseTold
  <2>6. Lifecycle!Fail(U)
    BY <2>4, <2>5 DEF Lifecycle!Fail
  <2>. QED BY <1>0, <2>6 DEF Lifecycle!Next
<1>9. ASSUME NEW w \in Workers, NEW u \in Uploads, Publish(w, u) PROVE Lifecycle!Next
  <2>1. Lifecycle!Move(u, {"processing"}, "published")
    BY <1>1, <1>9, OneMove DEF Publish, SetSession, PhaseAt, RowsOK
  <2>. QED BY <1>0, <2>1 DEF Lifecycle!Next, Lifecycle!Publish
<1>10. ASSUME NEW u \in Uploads, track[u] \in {"uploading", "processing"}, track'[u] = "error",
              \A v \in Uploads \ {u} : track'[v] = track[v] /\ sess'[v] = sess[v]
       PROVE  Lifecycle!Next
  <2>1. Lifecycle!Fail({u})
    BY <1>10, PhaseTold DEF Lifecycle!Fail, PhaseAt
  <2>. QED BY <1>0, <2>1 DEF Lifecycle!Next
<1>11. ASSUME NEW w \in Workers, NEW u \in Uploads, RecordFailure(w, u) PROVE Lifecycle!Next
  <2>1. /\ track'[u] = (IF track[u] = "none" THEN "none" ELSE "error")
        /\ sess'[u] = "none" <=> sess[u] = "none"
        /\ \A v \in Uploads \ {u} : track'[v] = track[v] /\ sess'[v] = sess[v]
    BY <1>1, <1>11 DEF RecordFailure, SetTrack, SetSession, SessionRow, RowsOK
  <2>2. CASE track[u] \in {"uploading", "processing"}
    BY <1>10, <2>1, <2>2
  <2>3. CASE track[u] \in {"none", "error"}
    BY <1>1, <2>1, <2>3, Unseen DEF PhaseAt
  <2>4. CASE track[u] = "ready"
    <3>1. u \in misled
      BY <1>11, <2>4, HeldProcessing DEF RecordFailure, Working, Claimed, JobPC
    <3>2. Lifecycle!Move(u, {"published"}, "failed")
      BY <2>1, <2>4, OneMove DEF PhaseAt
    <3>. QED BY <1>0, <3>1, <3>2 DEF Lifecycle!Next, Lifecycle!TakeBack
  <2>. QED BY <1>1, <2>2, <2>3, <2>4 DEF RowsOK, TrackStatus
<1>12. ASSUME NEW w \in Workers, NEW u \in Uploads, ExpiryError(w, u) PROVE Lifecycle!Next
  <2>1. CASE track[u] = "uploading"
    BY <1>1, <1>10, <1>12, <2>1 DEF ExpiryError, RowsOK
  <2>2. CASE track[u] # "uploading"
    BY <1>1, <1>12, <2>2, Unseen DEF ExpiryError, StatusCoupling, PhaseAt, RowsOK
  <2>. QED BY <2>1, <2>2
<1>13. ASSUME NEW w \in Workers, NEW u \in Uploads, Acknowledge(w, u) \/ PurgeSession(w, u)
       PROVE  Lifecycle!Next
  BY <1>1, <1>13, Unseen DEF Acknowledge, PurgeSession, PhaseAt, RowsOK
<1>14. ASSUME NEW w \in Workers, NEW j \in Jobs, Claim(w, j) \/ PurgeJob(w, j)
       PROVE  Lifecycle!Next
  BY <1>1, <1>14, Unseen DEF Claim, PurgeJob
<1>. QED BY <1>2, <1>3, <1>4, <1>5, <1>6, <1>7, <1>8, <1>9, <1>11, <1>12, <1>13, <1>14, Changes

\* The pipeline implements the life cycle its owner sees, whatever comes
\* together: one live upload of a file, a released upload over, and nothing
\* published taken back for an upload that is not misled.
THEOREM Implements == Spec => ImplementsLifecycle
<1>1. Init => Lifecycle!Init
  BY DEF Init, Lifecycle!Init, Phase
<1>2. Sound /\ [Next]_vars => [Lifecycle!Next]_<<Phase, misled>>
  BY LifecycleStep
<1>. QED BY <1>1, <1>2, SoundInvariant, PTL DEF Spec, ImplementsLifecycle, Lifecycle!Spec
=============================================================================
