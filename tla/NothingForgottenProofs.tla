----------------------- MODULE NothingForgottenProofs -----------------------
(***************************************************************************)
(* UploadQueueClient never drops a session that the server still lists:    *)
(* the action property NothingForgotten, from the inductive invariant of   *)
(* UploadQueueClientProofs and what the answers under way say.             *)
(***************************************************************************)
EXTENDS UploadQueueClientProofs

---------------------------------------------------------------------------
(* The invariant *)

\* The server has finished with the session, for good.
Closed(s) == s \in Sessions /\ srv[s].status \in {"ready", "cancelled", "gone", "purged"}

\* An answer that makes a row go is about a session the server has finished with.
CallClosed(i) ==
    call["cancel"][i].pc = "answered" /\ call["cancel"][i].ans = "gone"
        => Closed(call["cancel"][i].row.sess)
RunClosed(r) == run[r].pc = "completed" /\ run[r].ans = "ready" => Closed(run[r].sess)
PollClosed == poll.ans \in {"ready", "cancelled", "gone"} => Closed(poll.sess)

\* An empty row and a duplicate have no session, and on display nothing works for a
\* duplicate.
Lone(row) == row.status \in {"absent", "duplicate"} => row.sess = NoSession
LoneRows ==
    /\ \A i \in Ids : Lone(items[i]) /\ Lone(restore.local[i])
    /\ \A u \in Users, i \in Ids : Lone(stored[u][i])
Resting(i) == items[i].status = "duplicate" => ~Works(i)

Answers ==
    /\ \A i \in Ids : CallClosed(i)
    /\ \A r \in Slots : RunClosed(r)
    /\ PollClosed
Duplicates == LoneRows /\ \A i \in Ids : Resting(i)

---------------------------------------------------------------------------
(* Sessions that are closed stay closed *)

ClosedKept == \A s \in Sessions : Closed(s) => Closed(s)'

\* A session that is not closed may move.
LEMMA OpenMoves ==
    ASSUME ServerGood, NEW s \in Sessions, NEW status, SetServer(s, status),
           Closed(s) => status \in {"ready", "cancelled", "gone", "purged"}
    PROVE  ClosedKept
BY DEF ServerGood, ServerRows, SetServer, Closed, ClosedKept

\* A step that leaves the sessions alone.
LEMMA ClosedSame ==
    ASSUME UNCHANGED srv
    PROVE  ClosedKept
BY DEF Closed, ClosedKept

\* DELETE of an upload, refused or not.
LEMMA ClosedCancel ==
    ASSUME ServerGood, NEW s \in Sessions, NEW u, CancelEffect(s, u)
    PROVE  ClosedKept
BY OpenMoves, ClosedSame DEF CancelEffect

\* No step opens a session again that the server has finished with.
LEMMA ClosedStep ==
    ASSUME ServerGood, RunsGood, CallsGood, Next
    PROVE  ClosedKept
<1>1. ASSUME NEW s \in Sessions, ServerMoves(s) PROVE ClosedKept
  BY <1>1, OpenMoves DEF ServerMoves, Closed
<1>2. ASSUME NEW i \in Ids, Button(i) PROVE ClosedKept
  BY <1>2, ClosedSame
     DEF Button, Pause, CancelLocal, CancelSend, RetryLocal, RetrySend, Dismiss,
        Reselect
<1>3. ASSUME NEW i \in Ids, CallStep(i) PROVE ClosedKept
  <2>1. CASE CancelArrives(i)
    BY <2>1, ClosedCancel DEF CancelArrives, CallsGood, GoodCall
  <2>2. CASE RetryArrives(i)
    BY <2>2, OpenMoves, ClosedSame DEF RetryArrives, CallsGood, GoodCall, Closed
  <2>3. CASE \/ CancelSucceeds(i) \/ CancelFails(i) \/ RetryAnswered(i)
             \/ RetryFails(i)
    BY <2>3, ClosedSame DEF CancelSucceeds, CancelFails, RetryAnswered, RetryFails
  <2> QED
    BY <1>3, <2>1, <2>2, <2>3 DEF CallStep
<1>4. ASSUME NEW r \in Slots, RunStep(r) PROVE ClosedKept
  <2>1. CASE \E s \in Sessions : CreateArrives(r, s)
    <3> PICK s \in Sessions : CreateArrives(r, s)
      BY <2>1
    <3> QED
      BY DEF CreateArrives, ServerGood, Closed, ClosedKept
  <2>2. CASE DropSucceeds(r)
    BY <2>2, OpenMoves DEF DropSucceeds, At, RunsGood, GoodRun
  <2>3. CASE DropFails(r)
    BY <2>3, ClosedCancel, ClosedSame DEF DropFails, At, RunsGood, GoodRun
  <2>4. CASE CompleteArrives(r)
    BY <2>4, OpenMoves DEF CompleteArrives, At, RunsGood, GoodRun, Closed
  <2>5. CASE \/ HashDiffers(r) \/ Hashed(r) \/ GetResumes(r) \/ GetSettles(r)
             \/ CreateRefused(r) \/ Duplicate(r) \/ CreatedCancelled(r) \/ Created(r)
             \/ PartsDone(r) \/ CompleteIgnored(r) \/ Completed(r) \/ Unwinds(r)
             \/ Fails(r)
    BY <2>5, ClosedSame
       DEF HashDiffers, Hashed, GetResumes, GetSettles, CreateRefused, Duplicate,
          CreatedCancelled, Created, PartsDone, CompleteIgnored, Completed, Unwinds,
          Fails
  <2> QED
    BY <1>4, <2>1, <2>2, <2>3, <2>4, <2>5 DEF RunStep
<1>5. CASE \/ (\E u \in Users : SignIn(u)) \/ RestoreLocal \/ RestoreRemote \/ Restored
           \/ RestoreFails \/ SignOut \/ Reload \/ PollAnswered \/ PollFails
           \/ (\E i \in NewIds, file \in Contents \cup {NoFile} : AddFile(i, file))
           \/ (\E i \in Ids : PollArrives(i))
           \/ (\E r \in Slots, i \in Ids : Start(r, i))
  BY <1>5, ClosedSame
     DEF SignIn, RestoreLocal, RestoreRemote, Restored, RestoreFails, SignOut, Reload,
        PollAnswered, PollFails, AddFile, PollArrives, Start, Unmounted
<1> QED
  BY <1>1, <1>2, <1>3, <1>4, <1>5 DEF Next

---------------------------------------------------------------------------
(* Answers *)

\* The request for a row stays, changes owner, or is gone.
LEMMA CallClosedKept ==
    ASSUME ClosedKept, NEW j \in Ids, CallClosed(j),
           \/ call'["cancel"][j].pc # "answered"
           \/ /\ call'["cancel"][j].ans = call["cancel"][j].ans
              /\ call'["cancel"][j].pc = call["cancel"][j].pc
              /\ call'["cancel"][j].row = call["cancel"][j].row
    PROVE  CallClosed(j)'
BY DEF CallClosed, ClosedKept, Closed

\* A cancellation is answered once the server has closed the session.
LEMMA CallClosedStep ==
    ASSUME ServerGood, CallsGood, ClosedKept, NEW j \in Ids, CallClosed(j), Next
    PROVE  CallClosed(j)'
<1>1. CASE SignOut
  <2>1. call'["cancel"][j] = IF call["cancel"][j].pc = "none" THEN NoCall
                             ELSE [call["cancel"][j] EXCEPT !.stale = TRUE]
    BY <1>1 DEF SignOut
  <2>2. call["cancel"][j] \in Calls
    BY DEF CallsGood
  <2> QED
    BY <2>1, <2>2, CallClosedKept DEF Calls, NoCall
<1>2. CASE Reload
  BY <1>2, CallClosedKept DEF Reload, NoCall
<1>3. ASSUME NEW i \in Ids, Button(i) PROVE CallClosed(j)'
  <2>1. CASE CancelSend(i)
    <3>1. i # j => call'["cancel"][j] = call["cancel"][j]
      BY <2>1 DEF CancelSend, CallsGood
    <3>2. i = j => call'["cancel"][j].pc = "sent"
      BY <2>1 DEF CancelSend, CallsGood, NoCall
    <3> QED
      BY <3>1, <3>2, CallClosedKept
  <2>2. CASE RetrySend(i)
    <3>1. call'["cancel"][j] = call["cancel"][j]
      BY <2>2 DEF RetrySend, CallsGood
    <3> QED
      BY <3>1, CallClosedKept
  <2>3. CASE \/ Pause(i) \/ CancelLocal(i) \/ RetryLocal(i) \/ Dismiss(i)
             \/ (\E file \in Contents \cup {NoFile} : Reselect(i, file))
    BY <2>3, CallClosedKept DEF Pause, CancelLocal, RetryLocal, Dismiss, Reselect
  <2> QED
    BY <1>3, <2>1, <2>2, <2>3 DEF Button
<1>4. ASSUME NEW i \in Ids, CallStep(i) PROVE CallClosed(j)'
  <2>1. CASE CancelArrives(i)
    <3>1. i # j => call'["cancel"][j] = call["cancel"][j]
      BY <2>1 DEF CancelArrives, CallsGood
    <3>2. ASSUME i = j PROVE CallClosed(j)'
      <4> DEFINE c == call["cancel"][j]
                 answer == CancelAnswer(c.row.sess, c.user)
      <4>1. c \in Calls /\ c.pc = "sent" /\ GoodCall(c)
        BY <2>1, <3>2 DEF CancelArrives, CallsGood
      <4>2. c.row.sess \in Sessions /\ srv[c.row.sess].owner = c.user /\ c.user \in Users
        BY <4>1, ConstantsAssumption DEF GoodCall, GoodRow, Owned
      <4>3. /\ call'["cancel"][j].row = c.row
            /\ call'["cancel"][j].ans = IF answer = "refused" THEN "refused" ELSE "gone"
        BY <2>1, <3>2, <4>1 DEF CancelArrives, CallsGood, Calls
      <4>4. CASE answer = "ok"
        <5>1. SetServer(c.row.sess, "cancelled")
          BY <2>1, <3>2, <4>4 DEF CancelArrives, CancelEffect
        <5>2. srv'[c.row.sess].status = "cancelled"
          BY <4>2, <5>1 DEF SetServer, ServerGood, ServerRows
        <5> QED
          BY <4>2, <4>3, <5>2 DEF CallClosed, Closed
      <4>5. CASE answer = "upload_not_found"
        <5>1. srv' = srv /\ srv[c.row.sess].status \in {"gone", "purged"}
          BY <2>1, <3>2, <4>2, <4>5, ConstantsAssumption
             DEF CancelArrives, CancelEffect, CancelAnswer, Alive, ServerGood
        <5> QED
          BY <4>2, <4>3, <5>1 DEF CallClosed, Closed
      <4>6. CASE answer = "refused"
        BY <4>3, <4>6 DEF CallClosed
      <4> QED
        BY <4>4, <4>5, <4>6 DEF CancelAnswer
    <3> QED
      BY <3>1, <3>2, CallClosedKept
  <2>2. CASE CancelSucceeds(i)
    <3>1. call'["cancel"][j] \in {call["cancel"][j], NoCall}
      BY <2>2 DEF CancelSucceeds, CallsGood
    <3> QED
      BY <3>1, CallClosedKept DEF NoCall
  <2>3. CASE CancelFails(i)
    <3>1. call'["cancel"][j] \in {call["cancel"][j], NoCall}
      BY <2>3 DEF CancelFails, CallsGood
    <3> QED
      BY <3>1, CallClosedKept DEF NoCall
  <2>4. CASE RetryArrives(i)
    <3>1. call'["cancel"][j] = call["cancel"][j]
      BY <2>4 DEF RetryArrives, CallsGood
    <3> QED
      BY <3>1, CallClosedKept
  <2>5. CASE RetryAnswered(i)
    <3>1. call'["cancel"][j] = call["cancel"][j]
      BY <2>5 DEF RetryAnswered, CallsGood
    <3> QED
      BY <3>1, CallClosedKept
  <2>6. CASE RetryFails(i)
    <3>1. call'["cancel"][j] = call["cancel"][j]
      BY <2>6 DEF RetryFails, CallsGood
    <3> QED
      BY <3>1, CallClosedKept
  <2> QED
    BY <1>4, <2>1, <2>2, <2>3, <2>4, <2>5, <2>6 DEF CallStep
<1>5. ASSUME NEW r \in Slots, RunStep(r) PROVE CallClosed(j)'
  BY <1>5, CallClosedKept
     DEF RunStep, HashDiffers, Hashed, GetResumes, GetSettles, CreateArrives,
        CreateRefused, Duplicate, CreatedCancelled, Created, DropSucceeds, DropFails,
        PartsDone, CompleteArrives, CompleteIgnored, Completed, Unwinds, Fails
<1>6. CASE \/ (\E u \in Users : SignIn(u)) \/ RestoreLocal \/ RestoreRemote \/ Restored
           \/ RestoreFails \/ PollAnswered \/ PollFails
           \/ (\E i \in NewIds, file \in Contents \cup {NoFile} : AddFile(i, file))
           \/ (\E i \in Ids : PollArrives(i))
           \/ (\E r \in Slots, i \in Ids : Start(r, i))
           \/ (\E s \in Sessions : ServerMoves(s))
  BY <1>6, CallClosedKept
     DEF SignIn, RestoreLocal, RestoreRemote, Restored, RestoreFails, PollAnswered,
        PollFails, AddFile, PollArrives, Start, ServerMoves
<1> QED
  BY <1>1, <1>2, <1>3, <1>4, <1>5, <1>6 DEF Next

\* An invocation completes with "ready" in one step only.
LEMMA RunClosedKept ==
    ASSUME RunsGood, ClosedKept, NEW q \in Slots, RunClosed(q), NEW r \in Slots,
           \/ UNCHANGED run \/ Finish(r) \/ Abort(r)
           \/ \E pc : Goto(r, pc) /\ pc # "completed"
    PROVE  RunClosed(q)'
<1>1. run[q] \in Invocations
  BY DEF RunsGood
<1>2. CASE UNCHANGED run \/ Finish(r) \/ Abort(r)
  <2>1. \/ run'[q].pc = "idle"
        \/ /\ run'[q].pc = run[q].pc /\ run'[q].ans = run[q].ans
           /\ run'[q].sess = run[q].sess
    BY <1>1, <1>2 DEF Finish, Abort, Idle, RunsGood, Invocations
  <2> QED
    BY <2>1 DEF RunClosed, ClosedKept, Closed
<1>3. ASSUME NEW pc, Goto(r, pc), pc # "completed" PROVE RunClosed(q)'
  <2>1. run'[q] = IF q = r THEN [run[q] EXCEPT !.pc = pc] ELSE run[q]
    BY <1>3 DEF Goto, RunsGood
  <2>2. [run[q] EXCEPT !.pc = pc].pc = pc
    BY <1>1 DEF Invocations
  <2> QED
    BY <1>3, <2>1, <2>2 DEF RunClosed, ClosedKept, Closed
<1> QED
  BY <1>2, <1>3

\* A completion is answered "ready" once the session is closed.
LEMMA RunClosedStep ==
    ASSUME RunsGood, Mounting, ClosedKept, NEW q \in Slots, RunClosed(q), Next
    PROVE  RunClosed(q)'
<1>1. CASE SignOut
  <2>1. run'[q] = IF run[q].pc = "idle" THEN run[q]
                  ELSE [run[q] EXCEPT !.aborted = TRUE, !.stale = TRUE, !.flag = Flagged(q)]
    BY <1>1 DEF SignOut
  <2>2. run[q] \in Invocations
    BY DEF RunsGood
  <2>3. run'[q].pc = run[q].pc /\ run'[q].ans = run[q].ans /\ run'[q].sess = run[q].sess
    BY <2>1, <2>2 DEF Invocations
  <2> QED
    BY <2>3 DEF RunClosed, ClosedKept, Closed
<1>2. CASE Reload
  <2>1. run'[q].pc = "idle"
    BY <1>2 DEF Reload, Idle
  <2> QED
    BY <2>1 DEF RunClosed
<1>3. ASSUME NEW r \in Slots, NEW i \in Ids, Start(r, i) PROVE RunClosed(q)'
  <2>1. run'[q] = run[q] \/ run'[q].pc = "hash"
    BY <1>3 DEF Start, RunsGood, Idle
  <2> QED
    BY <2>1 DEF RunClosed, ClosedKept, Closed
<1>4. ASSUME NEW i \in Ids, Button(i) PROVE RunClosed(q)'
  <2>1. CASE Pause(i)
    BY <2>1, RunClosedKept DEF Pause, Works, Mounting
  <2>2. CASE CancelLocal(i)
    BY <2>2, RunClosedKept DEF CancelLocal, Works, Mounting
  <2>3. CASE CancelSend(i)
    BY <2>3, RunClosedKept DEF CancelSend, Works, Mounting
  <2>4. CASE \/ RetryLocal(i) \/ RetrySend(i) \/ Dismiss(i)
             \/ (\E file \in Contents \cup {NoFile} : Reselect(i, file))
    BY <2>4, RunClosedKept DEF RetryLocal, RetrySend, Dismiss, Reselect
  <2> QED
    BY <1>4, <2>1, <2>2, <2>3, <2>4 DEF Button
<1>5. ASSUME NEW i \in Ids, CallStep(i) PROVE RunClosed(q)'
  BY <1>5, RunClosedKept
     DEF CallStep, CancelArrives, CancelSucceeds, CancelFails, RetryArrives,
        RetryAnswered, RetryFails
<1>6. ASSUME NEW r \in Slots, RunStep(r) PROVE RunClosed(q)'
  <2>1. CASE HashDiffers(r)
    BY <2>1, RunClosedKept DEF HashDiffers
  <2>2. CASE Hashed(r)
    BY <2>2, RunClosedKept DEF Hashed
  <2>3. CASE GetResumes(r)
    BY <2>3, RunClosedKept DEF GetResumes
  <2>4. CASE GetSettles(r)
    BY <2>4, RunClosedKept DEF GetSettles
  <2>5. CASE \E s \in Sessions : CreateArrives(r, s)
    <3>0. PICK s \in Sessions : CreateArrives(r, s)
      BY <2>5
    <3>1. run[q] \in Invocations
      BY DEF RunsGood
    <3>2. CASE q = r
      <4>1. run'[q] = [run[q] EXCEPT !.pc = "created", !.sess = s]
        BY <3>0, <3>2 DEF CreateArrives, RunsGood
      <4>2. run'[q].pc = "created"
        BY <3>1, <4>1 DEF Invocations
      <4> QED
        BY <4>2 DEF RunClosed
    <3>3. CASE q # r
      BY <3>0, <3>3 DEF CreateArrives, RunsGood, RunClosed, ClosedKept, Closed
    <3> QED
      BY <3>2, <3>3
  <2>6. CASE CreateRefused(r)
    BY <2>6, RunClosedKept DEF CreateRefused
  <2>7. CASE Duplicate(r)
    BY <2>7, RunClosedKept DEF Duplicate
  <2>8. CASE CreatedCancelled(r)
    BY <2>8, RunClosedKept DEF CreatedCancelled
  <2>9. CASE Created(r)
    BY <2>9, RunClosedKept DEF Created
  <2>10. CASE DropSucceeds(r)
    BY <2>10, RunClosedKept DEF DropSucceeds
  <2>11. CASE DropFails(r)
    BY <2>11, RunClosedKept DEF DropFails
  <2>12. CASE PartsDone(r)
    BY <2>12, RunClosedKept DEF PartsDone
  <2>13. CASE CompleteArrives(r)
    <3>1. run[q] \in Invocations /\ run[r] \in Invocations
      BY DEF RunsGood
    <3>2. CASE q = r
      <4> DEFINE status == srv[run[r].sess].status
                 after  == IF status = "uploading" THEN "processing" ELSE status
      <4>1. run'[q] = [run[q] EXCEPT !.pc = "completed", !.ans = after]
        BY <2>13, <3>2 DEF CompleteArrives, RunsGood
      <4>2. run'[q].ans = after /\ run'[q].sess = run[q].sess
        BY <3>1, <4>1 DEF Invocations
      <4>3. run[q].sess \in Sessions
        BY <2>13, <3>2 DEF CompleteArrives, At, RunsGood, GoodRun
      <4>4. after = "ready" => Closed(run[q].sess)
        BY <3>2, <4>3 DEF Closed
      <4> QED
        BY <4>2, <4>3, <4>4 DEF RunClosed, ClosedKept, Closed
    <3>3. CASE q # r
      BY <2>13, <3>3 DEF CompleteArrives, RunsGood, RunClosed, ClosedKept, Closed
    <3> QED
      BY <3>2, <3>3
  <2>14. CASE CompleteIgnored(r)
    BY <2>14, RunClosedKept DEF CompleteIgnored
  <2>15. CASE Completed(r)
    BY <2>15, RunClosedKept DEF Completed
  <2>16. CASE Unwinds(r)
    BY <2>16, RunClosedKept DEF Unwinds
  <2>17. CASE Fails(r)
    BY <2>17, RunClosedKept DEF Fails
  <2> QED
    BY <1>6, <2>1, <2>2, <2>3, <2>4, <2>5, <2>6, <2>7, <2>8, <2>9, <2>10, <2>11, <2>12,
       <2>13, <2>14, <2>15, <2>16, <2>17
       DEF RunStep
<1>7. CASE \/ (\E u \in Users : SignIn(u)) \/ RestoreLocal \/ RestoreRemote \/ Restored
           \/ RestoreFails \/ PollAnswered \/ PollFails
           \/ (\E i \in NewIds, file \in Contents \cup {NoFile} : AddFile(i, file))
           \/ (\E i \in Ids : PollArrives(i)) \/ (\E s \in Sessions : ServerMoves(s))
  BY <1>7, RunClosedKept
     DEF SignIn, RestoreLocal, RestoreRemote, Restored, RestoreFails, PollAnswered,
        PollFails, AddFile, PollArrives, ServerMoves
<1> QED
  BY <1>1, <1>2, <1>3, <1>4, <1>5, <1>6, <1>7 DEF Next

\* A poll is answered for a session in the state that it is in.
LEMMA PollClosedStep ==
    ASSUME RowsGood, ClosedKept, PollClosed, Next
    PROVE  PollClosed'
<1>1. CASE poll' = poll
  BY <1>1 DEF PollClosed, ClosedKept, Closed
<1>2. CASE poll' = NoPoll
  BY <1>2 DEF PollClosed, NoPoll
<1>3. ASSUME NEW i \in Ids, PollArrives(i) PROVE PollClosed'
  <2>1. items[i].sess \in Sessions /\ srv[items[i].sess].status # "none"
    BY <1>3 DEF PollArrives, RowsGood, GoodRow, Past
  <2>2. /\ poll'.sess = items[i].sess /\ srv' = srv
        /\ poll'.ans = IF Alive(items[i].sess) THEN srv[items[i].sess].status ELSE "gone"
    BY <1>3 DEF PollArrives
  <2> QED
    BY <2>1, <2>2 DEF PollClosed, Closed, Alive
<1> QED
  BY <1>1, <1>2, <1>3, PollMoves

\* Every step keeps the answers that make rows go true.
LEMMA AnswersStep ==
    ASSUME ServerGood, RowsGood, RunsGood, CallsGood, Mounting, Answers, Next
    PROVE  ClosedKept /\ Answers'
BY ClosedStep, CallClosedStep, RunClosedStep, PollClosedStep DEF Answers

---------------------------------------------------------------------------
(* Duplicates *)

\* What an edit of a row says of its status.
LEMMA EditStatus ==
    ASSUME NEW row \in Row, NEW status, NEW file, NEW s, NEW hash
    PROVE  /\ [row EXCEPT !.status = status].status = status
           /\ [row EXCEPT !.status = status, !.file = file].status = status
           /\ [row EXCEPT !.file = file, !.status = status].status = status
           /\ [row EXCEPT !.hash = hash].status = row.status
           /\ [row EXCEPT !.hash = hash].sess = row.sess
           /\ [row EXCEPT !.file = file].status = row.status
           /\ [row EXCEPT !.file = file].sess = row.sess
           /\ [row EXCEPT !.status = status, !.file = file].sess = row.sess
           /\ [row EXCEPT !.sess = s, !.status = status].status = status
           /\ [row EXCEPT !.status = status, !.sess = s, !.hash = hash].status = status
BY DEF Row

\* No invocation of another row takes this one over.
LEMMA WorksKept ==
    ASSUME RunsGood, Mounting, NEW j, NEW r \in Slots,
           \/ UNCHANGED <<run, active>>
           \/ Finish(r)
           \/ active' = active /\ (Abort(r) \/ \E pc : Goto(r, pc))
           \/ active' = active /\ \E pc, s : run' = [run EXCEPT ![r] = [@ EXCEPT !.pc = pc, !.sess = s]]
           \/ active' = active /\ \E pc, a : run' = [run EXCEPT ![r] = [@ EXCEPT !.pc = pc, !.ans = a]]
    PROVE  Works(j)' => Works(j)
<1>1. CASE UNCHANGED <<run, active>>
  BY <1>1 DEF Works
<1>2. CASE Finish(r)
  BY <1>2 DEF Works, Finish, RunsGood, Mounting
<1>3. CASE active' = active /\ Abort(r)
  BY <1>3 DEF Works, Abort, RunsGood, Mounting, Invocations
<1>4. ASSUME active' = active, NEW pc, Goto(r, pc) PROVE Works(j)' => Works(j)
  <2>1. \A q \in Slots : run'[q] = IF q = r THEN [run[q] EXCEPT !.pc = pc] ELSE run[q]
    BY <1>4 DEF Goto, RunsGood
  <2>2. \A q \in Slots : run[q] \in Invocations
    BY DEF RunsGood
  <2>3. \A q \in Slots : run'[q].id = run[q].id
    BY <2>1, <2>2 DEF Invocations
  <2> QED
    BY <1>4, <2>3 DEF Works, Mounting
<1>5. ASSUME active' = active, NEW pc, NEW s, run' = [run EXCEPT ![r] = [@ EXCEPT !.pc = pc, !.sess = s]]
      PROVE  Works(j)' => Works(j)
  <2>1. \A q \in Slots :
            run'[q] = IF q = r THEN [run[q] EXCEPT !.pc = pc, !.sess = s] ELSE run[q]
    BY <1>5 DEF RunsGood
  <2>2. \A q \in Slots : run[q] \in Invocations
    BY DEF RunsGood
  <2>3. \A q \in Slots : run'[q].id = run[q].id
    BY <2>1, <2>2 DEF Invocations
  <2> QED
    BY <1>5, <2>3 DEF Works, Mounting
<1>6. ASSUME active' = active, NEW pc, NEW a, run' = [run EXCEPT ![r] = [@ EXCEPT !.pc = pc, !.ans = a]]
      PROVE  Works(j)' => Works(j)
  <2>1. \A q \in Slots :
            run'[q] = IF q = r THEN [run[q] EXCEPT !.pc = pc, !.ans = a] ELSE run[q]
    BY <1>6 DEF RunsGood
  <2>2. \A q \in Slots : run[q] \in Invocations
    BY DEF RunsGood
  <2>3. \A q \in Slots : run'[q].id = run[q].id
    BY <2>1, <2>2 DEF Invocations
  <2> QED
    BY <1>6, <2>3 DEF Works, Mounting
<1> QED
  BY <1>1, <1>2, <1>3, <1>4, <1>5, <1>6

\* A row that is not made a duplicate rests as before.
LEMMA RestingKept ==
    ASSUME NEW j, Resting(j), Works(j)' => Works(j),
           items'[j].status = "duplicate" => items[j].status = "duplicate"
    PROVE  Resting(j)'
BY DEF Resting

\* What the helpers write is a duplicate only when they say so.
LEMMA StatusMoves ==
    ASSUME RowsGood, NEW j \in Ids,
           \/ UNCHANGED items
           \/ \E i \in Ids : Remove(i)
           \/ \E i \in Ids : \E row : /\ Update(i, row)
                                      /\ row.status = "duplicate" => items[i].status = "duplicate"
           \/ \E u, i, row : StoreFor(u, i, row)
    PROVE  items'[j].status = "duplicate" => items[j].status = "duplicate"
BY RowAt DEF Absent, StoreFor

\* No step works for a duplicate.
LEMMA RestingStep ==
    ASSUME RowsGood, RunsGood, CallsGood, RestoreGood, PollGood, Mounting, Working,
           NEW j \in Ids, Resting(j), Next
    PROVE  Resting(j)'
<1>1. CASE Restored
  <2>1. active' = NoSlot
    BY <1>1 DEF Restored, Mounting
  <2> QED
    BY <2>1 DEF Resting, Works
<1>2. CASE SignOut
  <2>1. items'[j].status = "absent"
    BY <1>2 DEF SignOut, Unmounted, Absent
  <2> QED
    BY <2>1 DEF Resting
<1>3. CASE Reload
  <2>1. items'[j].status = "absent"
    BY <1>3 DEF Reload, Unmounted, Absent
  <2> QED
    BY <2>1 DEF Resting
<1>4. CASE PollAnswered
  <2>1. Works(j)' => Works(j)
    BY <1>4 DEF PollAnswered, Works
  <2>2. poll.id \in Ids /\ poll.ans # "duplicate"
    BY <1>4 DEF PollAnswered, PollGood, Polls, PollAnswers
  <2>3. PICK row : row = [items[poll.id] EXCEPT !.status = poll.ans]
    OBVIOUS
  <2>4. row.status # "duplicate"
    BY <2>2, <2>3, EditStatus DEF RowsGood
  <2>5. Remove(poll.id) \/ Update(poll.id, row)
    BY <1>4, <2>3 DEF PollAnswered
  <2>6. items'[j].status = "duplicate" => items[j].status = "duplicate"
    BY <2>2, <2>4, <2>5, StatusMoves
  <2> QED
    BY <2>1, <2>6, RestingKept
<1>5. ASSUME NEW i \in NewIds, NEW file \in Contents \cup {NoFile}, AddFile(i, file)
      PROVE  Resting(j)'
  <2>1. UNCHANGED <<run, active>> /\ items'[i].status \in {"error", "queued"}
    BY <1>5 DEF AddFile, RowsGood, Absent, Ids
  <2>2. i # j => items'[j] = items[j]
    BY <1>5 DEF AddFile, RowsGood
  <2> QED
    BY <2>1, <2>2 DEF Resting, Works
<1>6. ASSUME NEW r \in Slots, NEW i \in Ids, Start(r, i) PROVE Resting(j)'
  <2>1. active' = r /\ run'[r].id = i /\ active = NoSlot
    BY <1>6 DEF Start, RunsGood, Idle
  <2>2. PICK row : row = [items[i] EXCEPT !.status = "hashing"]
    OBVIOUS
  <2>3. row.status = "hashing" /\ Shown(i) /\ Update(i, row)
    BY <1>6, <2>2, EditStatus DEF Start, RowsGood, Shown
  <2>4. CASE i = j
    BY <2>3, <2>4, RowAt DEF Resting
  <2>5. CASE i # j
    BY <2>1, <2>5 DEF Resting, Works
  <2> QED
    BY <2>4, <2>5
<1>7. ASSUME NEW i \in Ids, Button(i) PROVE Resting(j)'
  <2>1. CASE Pause(i)
    <3>1. Works(j)' => Works(j)
      BY <2>1, WorksKept DEF Pause, Works, Mounting
    <3>2. PICK row : row = [items[i] EXCEPT !.status = "paused"]
      OBVIOUS
    <3>3. row.status # "duplicate"
      BY <2>1, <3>2, EditStatus DEF Pause, RowsGood
    <3>4. items'[j].status = "duplicate" => items[j].status = "duplicate"
      BY <2>1, <3>2, <3>3, StatusMoves DEF Pause
    <3> QED
      BY <3>1, <3>4, RestingKept
  <2>2. CASE CancelLocal(i)
    <3>1. Works(j)' => Works(j)
      BY <2>2, WorksKept DEF CancelLocal, Works, Mounting
    <3>2. PICK row : row = [items[i] EXCEPT !.status = "cancelling"]
      OBVIOUS
    <3>3. row.status # "duplicate"
      BY <2>2, <3>2, EditStatus DEF CancelLocal, RowsGood
    <3>4. items'[j].status = "duplicate" => items[j].status = "duplicate"
      BY <2>2, <3>2, <3>3, StatusMoves DEF CancelLocal
    <3> QED
      BY <3>1, <3>4, RestingKept
  <2>3. CASE CancelSend(i)
    <3>1. Works(j)' => Works(j)
      BY <2>3, WorksKept DEF CancelSend, Works, Mounting
    <3>2. PICK row : row = [items[i] EXCEPT !.status = "cancelling"]
      OBVIOUS
    <3>3. row.status # "duplicate"
      BY <2>3, <3>2, EditStatus DEF CancelSend, RowsGood
    <3>4. items'[j].status = "duplicate" => items[j].status = "duplicate"
      BY <2>3, <3>2, <3>3, StatusMoves DEF CancelSend
    <3> QED
      BY <3>1, <3>4, RestingKept
  <2>4. CASE RetryLocal(i)
    <3>1. Works(j)' => Works(j)
      BY <2>4 DEF RetryLocal, Works
    <3>2. PICK row : row = [items[i] EXCEPT
                         !.status = IF items[i].file = NoFile THEN "needs_file" ELSE "queued"]
      OBVIOUS
    <3>3. row.status # "duplicate"
      BY <2>4, <3>2, EditStatus DEF RetryLocal, RowsGood
    <3>4. items'[j].status = "duplicate" => items[j].status = "duplicate"
      BY <2>4, <3>2, <3>3, StatusMoves DEF RetryLocal
    <3> QED
      BY <3>1, <3>4, RestingKept
  <2>5. CASE Dismiss(i)
    <3>1. Works(j)' => Works(j)
      BY <2>5 DEF Dismiss, Works
    <3>2. items'[j].status = "duplicate" => items[j].status = "duplicate"
      BY <2>5, StatusMoves DEF Dismiss
    <3> QED
      BY <3>1, <3>2, RestingKept
  <2>6. CASE \E file \in Contents \cup {NoFile} : Reselect(i, file)
    <3>0. PICK file \in Contents \cup {NoFile} : Reselect(i, file)
      BY <2>6
    <3>1. Works(j)' => Works(j)
      BY <3>0 DEF Reselect, Works
    <3>2. PICK row : row = [items[i] EXCEPT !.file = file,
                               !.status = IF file = NoFile THEN "error" ELSE "queued"]
      OBVIOUS
    <3>3. row.status # "duplicate"
      BY <3>0, <3>2, EditStatus DEF Reselect, RowsGood
    <3>4. items'[j].status = "duplicate" => items[j].status = "duplicate"
      BY <3>0, <3>2, <3>3, StatusMoves DEF Reselect
    <3> QED
      BY <3>1, <3>4, RestingKept
  <2>7. CASE \/ RetrySend(i)
    BY <2>7, RestingKept DEF RetrySend, Works, mountVars
  <2> QED
    BY <1>7, <2>1, <2>2, <2>3, <2>4, <2>5, <2>6, <2>7 DEF Button
<1>8. ASSUME NEW i \in Ids, CallStep(i) PROVE Resting(j)'
  <2>1. CASE CancelSucceeds(i)
    <3>1. Works(j)' => Works(j)
      BY <2>1 DEF CancelSucceeds, Works
    <3>2. items'[j].status = "duplicate" => items[j].status = "duplicate"
      BY <2>1, StatusMoves DEF CancelSucceeds
    <3> QED
      BY <3>1, <3>2, RestingKept
  <2>2. CASE CancelFails(i)
    <3>1. Works(j)' => Works(j)
      BY <2>2 DEF CancelFails, Works
    <3>2. PICK row : row = [items[i] EXCEPT !.status = "error", !.file = call["cancel"][i].row.file]
      OBVIOUS
    <3>3. row.status # "duplicate"
      BY <2>2, <3>2, EditStatus DEF CancelFails, RowsGood
    <3>4. items'[j].status = "duplicate" => items[j].status = "duplicate"
      BY <2>2, <3>2, <3>3, StatusMoves DEF CancelFails
    <3> QED
      BY <3>1, <3>4, RestingKept
  <2>3. CASE RetryAnswered(i)
    <3>1. Works(j)' => Works(j)
      BY <2>3 DEF RetryAnswered, Works
    <3>2. PICK row : row = [items[i] EXCEPT !.status = "processing"]
      OBVIOUS
    <3>3. row.status # "duplicate"
      BY <2>3, <3>2, EditStatus DEF RetryAnswered, RowsGood
    <3>4. items'[j].status = "duplicate" => items[j].status = "duplicate"
      BY <2>3, <3>2, <3>3, StatusMoves DEF RetryAnswered
    <3> QED
      BY <3>1, <3>4, RestingKept
  <2>4. CASE \/ CancelArrives(i) \/ RetryArrives(i)
    BY <2>4, RestingKept DEF CancelArrives, RetryArrives, Works, mountVars
  <2>5. CASE RetryFails(i)
    <3>1. Works(j)' => Works(j)
      BY <2>5 DEF RetryFails, Works
    <3>2. items'[j].status = "duplicate" => items[j].status = "duplicate"
      BY <2>5, RetryFailsRows
    <3> QED
      BY <3>1, <3>2, RestingKept
  <2> QED
    BY <1>8, <2>1, <2>2, <2>3, <2>4, <2>5 DEF CallStep
<1>9. ASSUME NEW r \in Slots, RunStep(r) PROVE Resting(j)'
  <2>0. RunStep(r) /\ (run[r].pc # "idle" => run[r].id \in Ids /\ GoodRun(run[r]))
    BY <1>9 DEF RunsGood, GoodRun
  <2>1. CASE HashDiffers(r)
    <3>1. Works(j)' => Works(j)
      BY <2>1, WorksKept DEF HashDiffers
    <3>2. PICK row : row = [items[run[r].id] EXCEPT !.status = "needs_file", !.file = NoFile]
      OBVIOUS
    <3>3. row.status # "duplicate"
      BY <2>1, <2>0, <3>2, EditStatus
         DEF HashDiffers, RowsGood, RunsGood, GoodRun, GoodRow, Invocations
    <3>4. items'[j].status = "duplicate" => items[j].status = "duplicate"
      BY <2>1, <2>0, <3>2, <3>3, StatusMoves DEF HashDiffers, At
    <3> QED
      BY <3>1, <3>4, RestingKept
  <2>2. CASE Hashed(r)
    <3>1. Works(j)' => Works(j)
      BY <2>2, WorksKept DEF Hashed
    <3>2. PICK row : row = [items[run[r].id] EXCEPT !.hash = run[r].row.file]
      OBVIOUS
    <3>3. row.status = items[run[r].id].status
      BY <2>2, <2>0, <3>2, EditStatus DEF Hashed, At, RowsGood
    <3>4. items'[j].status = "duplicate" => items[j].status = "duplicate"
      BY <2>2, <2>0, <3>2, <3>3, StatusMoves DEF Hashed, At
    <3> QED
      BY <3>1, <3>4, RestingKept
  <2>3. CASE GetResumes(r)
    <3>1. Works(j)' => Works(j)
      BY <2>3, WorksKept DEF GetResumes
    <3>2. PICK row : row = [items[run[r].id] EXCEPT !.status = "uploading"]
      OBVIOUS
    <3>3. row.status # "duplicate"
      BY <2>3, <2>0, <3>2, EditStatus
         DEF GetResumes, RowsGood, RunsGood, GoodRun, GoodRow, Invocations
    <3>4. items'[j].status = "duplicate" => items[j].status = "duplicate"
      BY <2>3, <2>0, <3>2, <3>3, StatusMoves DEF GetResumes, At
    <3> QED
      BY <3>1, <3>4, RestingKept
  <2>4. CASE GetSettles(r)
    <3>1. Works(j)' => Works(j)
      BY <2>4, WorksKept DEF GetSettles
    <3>2. PICK row : row = [items[run[r].id] EXCEPT !.status = srv[run[r].sess].status, !.file = NoFile]
      OBVIOUS
    <3>3. row.status # "duplicate"
      BY <2>4, <2>0, <3>2, EditStatus
         DEF GetSettles, RowsGood, RunsGood, GoodRun, GoodRow, Invocations
    <3>4. items'[j].status = "duplicate" => items[j].status = "duplicate"
      BY <2>4, <2>0, <3>2, <3>3, StatusMoves DEF GetSettles, At
    <3> QED
      BY <3>1, <3>4, RestingKept
  <2>5. CASE \E s \in Sessions : CreateArrives(r, s)
    <3>0. PICK s \in Sessions : CreateArrives(r, s)
      BY <2>5
    <3>1. run' = [run EXCEPT ![r] = [@ EXCEPT !.pc = "created", !.sess = s]] /\ UNCHANGED <<items, active>>
      BY <3>0 DEF CreateArrives
    <3>2. Works(j)' => Works(j)
      BY <3>1, WorksKept
    <3> QED
      BY <3>1, <3>2, RestingKept
  <2>6. CASE CreateRefused(r)
    <3>1. Works(j)' => Works(j)
      BY <2>6, WorksKept DEF CreateRefused
    <3>2. items' = items
      BY <2>6 DEF CreateRefused
    <3> QED
      BY <3>1, <3>2, RestingKept
  <2>7. CASE Duplicate(r)
    <3>1. Works(j)' => Works(j)
      BY <2>7, WorksKept DEF Duplicate
    <3>2. CASE run[r].stale \/ run[r].id # j
      <4>1. items'[j] = items[j]
        BY <2>0, <3>2, RunElsewhere
      <4> QED
        BY <3>1, <4>1, RestingKept
    <3>3. CASE ~run[r].stale /\ run[r].id = j
      <4>1. r = active
        BY <2>7, <3>3 DEF Duplicate, At, Working
      <4>2. active' = NoSlot
        BY <2>7, <4>1 DEF Duplicate, Finish
      <4> QED
        BY <4>2 DEF Resting, Works
    <3> QED
      BY <3>2, <3>3
  <2>8. CASE CreatedCancelled(r)
    <3>1. Works(j)' => Works(j)
      BY <2>8, WorksKept DEF CreatedCancelled
    <3>2. items' = items
      BY <2>8 DEF CreatedCancelled
    <3> QED
      BY <3>1, <3>2, RestingKept
  <2>9. CASE Created(r)
    <3>1. Works(j)' => Works(j)
      BY <2>9, WorksKept DEF Created
    <3>2. PICK row : row = [items[run[r].id] EXCEPT !.sess = run[r].sess,
                              !.status = IF run[r].aborted THEN items[run[r].id].status
                                         ELSE "uploading"]
      OBVIOUS
    <3>3. row.status = "duplicate" => items[run[r].id].status = "duplicate"
      BY <2>9, <2>0, <3>2, EditStatus DEF Created, At, RowsGood
    <3>4. items'[j].status = "duplicate" => items[j].status = "duplicate"
      BY <2>9, <2>0, <3>2, <3>3, StatusMoves DEF Created, At
    <3> QED
      BY <3>1, <3>4, RestingKept
  <2>10. CASE DropSucceeds(r)
    <3>1. Works(j)' => Works(j)
      BY <2>10, WorksKept DEF DropSucceeds
    <3>2. items'[j].status = "duplicate" => items[j].status = "duplicate"
      BY <2>10, <2>0, StatusMoves DEF DropSucceeds, At, Erase
    <3> QED
      BY <3>1, <3>2, RestingKept
  <2>11. CASE DropFails(r)
    <3>1. Works(j)' => Works(j)
      BY <2>11, WorksKept DEF DropFails
    <3>2. PICK row : row = [run[r].row EXCEPT !.status = "error", !.sess = run[r].sess,
                                             !.hash = run[r].row.file]
      OBVIOUS
    <3>3. row.status # "duplicate"
      BY <2>11, <2>0, <3>2, EditStatus
         DEF DropFails, RowsGood, RunsGood, GoodRun, GoodRow, Invocations
    <3>4. items'[j].status = "duplicate" => items[j].status = "duplicate"
      BY <2>11, <2>0, <3>2, <3>3, StatusMoves DEF DropFails, At, Write
    <3> QED
      BY <3>1, <3>4, RestingKept
  <2>12. CASE PartsDone(r)
    <3>1. Works(j)' => Works(j)
      BY <2>12, WorksKept DEF PartsDone
    <3>2. items' = items
      BY <2>12 DEF PartsDone
    <3> QED
      BY <3>1, <3>2, RestingKept
  <2>13. CASE CompleteArrives(r)
    <3>1. Works(j)' => Works(j)
      BY <2>13, WorksKept DEF CompleteArrives
    <3>2. items' = items
      BY <2>13 DEF CompleteArrives
    <3> QED
      BY <3>1, <3>2, RestingKept
  <2>14. CASE CompleteIgnored(r)
    <3>1. Works(j)' => Works(j)
      BY <2>14, WorksKept DEF CompleteIgnored
    <3>2. items' = items
      BY <2>14 DEF CompleteIgnored
    <3> QED
      BY <3>1, <3>2, RestingKept
  <2>15. CASE Completed(r)
    <3>1. Works(j)' => Works(j)
      BY <2>15, WorksKept DEF Completed
    <3>2. PICK row : row = [items[run[r].id] EXCEPT !.status = run[r].ans, !.file = NoFile]
      OBVIOUS
    <3>3. row.status # "duplicate"
      BY <2>15, <2>0, <3>2, EditStatus
         DEF Completed, RowsGood, RunsGood, GoodRun, GoodRow, Invocations, At
    <3>4. items'[j].status = "duplicate" => items[j].status = "duplicate"
      BY <2>15, <2>0, <3>2, <3>3, StatusMoves DEF Completed, At
    <3> QED
      BY <3>1, <3>4, RestingKept
  <2>16. CASE Unwinds(r)
    <3>1. Works(j)' => Works(j)
      BY <2>16, WorksKept DEF Unwinds
    <3>2. items' = items
      BY <2>16 DEF Unwinds
    <3> QED
      BY <3>1, <3>2, RestingKept
  <2>17. CASE Fails(r)
    <3>1. Works(j)' => Works(j)
      BY <2>17, WorksKept DEF Fails
    <3>2. PICK row : row = [items[run[r].id] EXCEPT !.status = "error"]
      OBVIOUS
    <3>3. row.status # "duplicate"
      BY <2>17, <2>0, <3>2, EditStatus
         DEF Fails, RowsGood, RunsGood, GoodRun, GoodRow, Invocations
    <3>4. items'[j].status = "duplicate" => items[j].status = "duplicate"
      BY <2>17, <2>0, <3>2, <3>3, StatusMoves DEF Fails, At
    <3> QED
      BY <3>1, <3>4, RestingKept
  <2> QED
    BY <1>9, <2>1, <2>2, <2>3, <2>4, <2>5, <2>6, <2>7, <2>8, <2>9, <2>10, <2>11, <2>12,
       <2>13, <2>14, <2>15, <2>16, <2>17
       DEF RunStep
<1>10. CASE \/ (\E u \in Users : SignIn(u)) \/ RestoreLocal \/ RestoreRemote
            \/ RestoreFails \/ PollFails \/ (\E i \in Ids : PollArrives(i))
            \/ (\E s \in Sessions : ServerMoves(s))
  BY <1>10, RestingKept
     DEF SignIn, RestoreLocal, RestoreRemote, RestoreFails, PollFails, PollArrives,
        ServerMoves, Works, mountVars
<1> QED
  BY <1>1, <1>2, <1>3, <1>4, <1>5, <1>6, <1>7, <1>8, <1>9, <1>10 DEF Next

---------------------------------------------------------------------------
(* Empty rows and duplicates have no session *)

LoneAfter ==
    /\ \A i \in Ids : Lone(items'[i])
    /\ \A u \in Users, i \in Ids : Lone(stored'[u][i])

\* A row that may be put on display, and into IndexedDB without its File.
Fit(row) == Lone(row) /\ Lone([row EXCEPT !.file = NoFile])

\* An edit makes a duplicate or empty row only when it says so.
LEMMA EditLone ==
    ASSUME NEW row \in Row, NEW status, NEW file, NEW s, NEW hash
    PROVE  /\ status \notin {"absent", "duplicate"} =>
                  /\ Fit([row EXCEPT !.status = status])
                  /\ Fit([row EXCEPT !.status = status, !.file = file])
                  /\ Fit([row EXCEPT !.file = file, !.status = status])
                  /\ Fit([row EXCEPT !.sess = s, !.status = status])
                  /\ Fit([row EXCEPT !.status = status, !.sess = s, !.hash = hash])
           /\ Lone(row) => Fit([row EXCEPT !.hash = hash])
           /\ row.sess = NoSession => Fit([row EXCEPT !.status = status, !.file = file])
           /\ Fit(Absent)
BY DEF Row, Fit, Lone, Absent

\* What the helpers write.
LEMMA LoneWrites ==
    ASSUME RowsGood, LoneRows,
           \/ UNCHANGED <<items, stored>>
           \/ \E i \in Ids : Remove(i)
           \/ \E i \in Ids : \E row : Update(i, row) /\ Fit(row)
           \/ \E u \in Users, i \in Ids : \E row : StoreFor(u, i, row) /\ Fit(row)
    PROVE  LoneAfter
<1>1. Lone(Absent)
  BY DEF Lone, Absent
<1>2. CASE UNCHANGED <<items, stored>>
  BY <1>2 DEF LoneRows, LoneAfter
<1>3. ASSUME NEW i \in Ids, Remove(i) PROVE LoneAfter
  <2>1. \A j \in Ids : items'[j] \in {items[j], Absent}
    BY <1>3 DEF Remove, RowsGood
  <2>2. \A u \in Users, j \in Ids : stored'[u][j] \in {stored[u][j], Absent}
    BY <1>3 DEF Remove, RowsGood
  <2> QED
    BY <1>1, <2>1, <2>2 DEF LoneRows, LoneAfter
<1>4. ASSUME NEW i \in Ids, NEW row, Update(i, row), Fit(row) PROVE LoneAfter
  <2>1. \A j \in Ids : items'[j] \in {items[j], row}
    BY <1>4 DEF Update, RowsGood
  <2>2. \A u \in Users, j \in Ids : stored'[u][j] \in {stored[u][j], [row EXCEPT !.file = NoFile]}
    BY <1>4 DEF Update, RowsGood
  <2> QED
    BY <1>4, <2>1, <2>2 DEF LoneRows, LoneAfter, Fit
<1>5. ASSUME NEW u \in Users, NEW i \in Ids, NEW row, StoreFor(u, i, row), Fit(row)
      PROVE  LoneAfter
  <2>1. \A j \in Ids : items'[j] = items[j]
    BY <1>5 DEF StoreFor
  <2>2. \A v \in Users, j \in Ids : stored'[v][j] \in {stored[v][j], [row EXCEPT !.file = NoFile]}
    BY <1>5 DEF StoreFor, RowsGood
  <2> QED
    BY <1>5, <2>1, <2>2 DEF LoneRows, LoneAfter, Fit
<1> QED
  BY <1>2, <1>3, <1>4, <1>5

\* Only an invocation that is alive takes a step.
LEMMA RunAwake ==
    ASSUME NEW r \in Slots, RunStep(r)
    PROVE  run[r].pc # "idle"
BY DEF RunStep, HashDiffers, Hashed, GetResumes, GetSettles, CreateArrives, CreateRefused,
       Duplicate, CreatedCancelled, Created, DropSucceeds, DropFails, PartsDone,
       CompleteArrives, CompleteIgnored, Completed, Unwinds, Fails, At

\* No step gives a duplicate a session.
LEMMA LoneWrittenStep ==
    ASSUME RowsGood, RunsGood, CallsGood, RestoreGood, PollGood, Mounting, Working,
           LoneRows, \A i \in Ids : Resting(i), Next
    PROVE  LoneAfter
<1>1. CASE Restored
  <2> DEFINE listed == {s \in Sessions : restore.remote[s] # "none"}
  <2>1. PICK row \in [listed -> Ids] :
            items' = [i \in Ids |-> IF \E s \in listed : row[s] = i
                                    THEN FromServer(CHOOSE s \in listed : row[s] = i)
                                    ELSE Restorable(i)]
    BY <1>1 DEF Restored
  <2>2. ASSUME NEW s \in listed PROVE Lone(FromServer(s))
    <3>1. restore.remote[s] \in Listed
      BY DEF RestoreGood
    <3> QED
      BY <3>1 DEF Lone, FromServer, ServerUploadStatus, Listed
  <2>3. ASSUME NEW i \in Ids PROVE Lone(Restorable(i))
    <3>1. restore.local[i] \in Row /\ Lone(restore.local[i])
      BY DEF RestoreGood, Restores, LoneRows
    <3> QED
      BY <3>1 DEF Lone, Restorable, Row, Absent
  <2>4. \A i \in Ids : Lone(items'[i])
    BY <2>1, <2>2, <2>3
  <2>5. \A u \in Users, i \in Ids : stored'[u][i] \in {stored[u][i], Absent}
    BY <1>1 DEF Restored, RowsGood
  <2> QED
    BY <2>4, <2>5 DEF LoneRows, LoneAfter, Lone, Absent
<1>2. CASE SignOut
  <2>1. \A i \in Ids : items'[i] = Absent
    BY <1>2 DEF SignOut, Unmounted
  <2>2. stored' = stored
    BY <1>2 DEF SignOut, Unmounted
  <2> QED
    BY <2>1, <2>2 DEF LoneRows, LoneAfter, Lone, Absent
<1>3. CASE Reload
  <2>1. \A i \in Ids : items'[i] = Absent
    BY <1>3 DEF Reload, Unmounted
  <2>2. stored' = stored
    BY <1>3 DEF Reload, Unmounted
  <2> QED
    BY <2>1, <2>2 DEF LoneRows, LoneAfter, Lone, Absent
<1>4. CASE PollAnswered
  <2>1. poll.id \in Ids /\ poll.ans \notin {"absent", "duplicate"}
    BY <1>4 DEF PollAnswered, PollGood, Polls, PollAnswers
  <2>2. PICK row : row = [items[poll.id] EXCEPT !.status = poll.ans]
    OBVIOUS
  <2>3. Fit(row)
    BY <2>1, <2>2, EditLone DEF RowsGood
  <2>4. Remove(poll.id) \/ Update(poll.id, row)
    BY <1>4, <2>2 DEF PollAnswered
  <2> QED
    BY <2>1, <2>3, <2>4, LoneWrites
<1>5. ASSUME NEW i \in NewIds, NEW file \in Contents \cup {NoFile}, AddFile(i, file)
      PROVE  LoneAfter
  <2>1. PICK row : row = [Absent EXCEPT !.file = file,
                              !.status = IF file = NoFile THEN "error" ELSE "queued"]
    OBVIOUS
  <2>2. Fit(row)
    BY <2>1, EditLone, AbsentGood
  <2>3. \A j \in Ids : items'[j] \in {items[j], row}
    BY <1>5, <2>1 DEF AddFile, RowsGood
  <2>4. \A u \in Users, j \in Ids : stored'[u][j] \in {stored[u][j], [row EXCEPT !.file = NoFile]}
    BY <1>5, <2>1 DEF AddFile, RowsGood
  <2> QED
    BY <2>2, <2>3, <2>4 DEF LoneRows, LoneAfter, Fit
<1>6. ASSUME NEW r \in Slots, NEW i \in Ids, Start(r, i) PROVE LoneAfter
  <2>1. PICK row : row = [items[i] EXCEPT !.status = "hashing"]
    OBVIOUS
  <2>2. Fit(row)
    BY <2>1, EditLone DEF RowsGood
  <2>3. Update(i, row)
    BY <1>6, <2>1 DEF Start
  <2> QED
    BY <2>2, <2>3, LoneWrites
<1>7. ASSUME NEW i \in Ids, Button(i) PROVE LoneAfter
  <2>1. CASE Pause(i)
    <3>1. PICK row : row = [items[i] EXCEPT !.status = "paused"]
      OBVIOUS
    <3>2. Fit(row)
      BY <3>1, EditLone DEF RowsGood
    <3>3. Update(i, row)
      BY <2>1, <3>1 DEF Pause
    <3> QED
      BY <3>2, <3>3, LoneWrites
  <2>2. CASE CancelLocal(i)
    <3>1. PICK row : row = [items[i] EXCEPT !.status = "cancelling"]
      OBVIOUS
    <3>2. Fit(row)
      BY <3>1, EditLone DEF RowsGood
    <3>3. Remove(i) \/ Update(i, row)
      BY <2>2, <3>1 DEF CancelLocal
    <3> QED
      BY <3>2, <3>3, LoneWrites
  <2>3. CASE CancelSend(i)
    <3>1. PICK row : row = [items[i] EXCEPT !.status = "cancelling"]
      OBVIOUS
    <3>2. Fit(row)
      BY <3>1, EditLone DEF RowsGood
    <3>3. Update(i, row)
      BY <2>3, <3>1 DEF CancelSend
    <3> QED
      BY <3>2, <3>3, LoneWrites
  <2>4. CASE RetryLocal(i)
    <3>1. PICK row : row = [items[i] EXCEPT
                         !.status = IF items[i].file = NoFile THEN "needs_file" ELSE "queued"]
      OBVIOUS
    <3>2. Fit(row)
      BY <3>1, EditLone DEF RowsGood
    <3>3. Update(i, row)
      BY <2>4, <3>1 DEF RetryLocal
    <3> QED
      BY <3>2, <3>3, LoneWrites
  <2>5. CASE Dismiss(i)
    BY <2>5, LoneWrites DEF Dismiss
  <2>6. CASE \E file \in Contents \cup {NoFile} : Reselect(i, file)
    <3>0. PICK file \in Contents \cup {NoFile} : Reselect(i, file)
      BY <2>6
    <3>1. PICK row : row = [items[i] EXCEPT !.file = file,
                               !.status = IF file = NoFile THEN "error" ELSE "queued"]
      OBVIOUS
    <3>2. Fit(row)
      BY <3>1, EditLone DEF RowsGood
    <3>3. Update(i, row)
      BY <3>0, <3>1 DEF Reselect
    <3> QED
      BY <3>2, <3>3, LoneWrites
  <2>7. CASE \/ RetrySend(i)
    BY <2>7, LoneWrites DEF RetrySend, mountVars
  <2> QED
    BY <1>7, <2>1, <2>2, <2>3, <2>4, <2>5, <2>6, <2>7 DEF Button
<1>8. ASSUME NEW i \in Ids, CallStep(i) PROVE LoneAfter
  <2>1. CASE CancelSucceeds(i)
    <3>1. call["cancel"][i].user \in Users
      BY <2>1 DEF CancelSucceeds, CallsGood, GoodCall
    <3>2. Fit(Absent)
      BY EditLone, AbsentGood
    <3> QED
      BY <2>1, <3>1, <3>2, LoneWrites DEF CancelSucceeds
  <2>2. CASE CancelFails(i)
    <3>1. call["cancel"][i].user \in Users /\ call["cancel"][i].row \in Row
      BY <2>2 DEF CancelFails, CallsGood, GoodCall, GoodRow
    <3>2. PICK row1 : row1 = [call["cancel"][i].row EXCEPT !.status = "error"]
      OBVIOUS
    <3>3. PICK row2 : row2 = [items[i] EXCEPT !.status = "error", !.file = call["cancel"][i].row.file]
      OBVIOUS
    <3>4. Fit(row1) /\ Fit(row2)
      BY <3>1, <3>2, <3>3, EditLone DEF RowsGood
    <3>5. StoreFor(call["cancel"][i].user, i, row1) \/ Update(i, row2)
      BY <2>2, <3>2, <3>3 DEF CancelFails
    <3> QED
      BY <3>1, <3>4, <3>5, LoneWrites
  <2>3. CASE RetryAnswered(i)
    <3>1. call["retry"][i].user \in Users /\ call["retry"][i].row \in Row
      BY <2>3 DEF RetryAnswered, CallsGood, GoodCall, GoodRow
    <3>2. PICK row1 : row1 = [call["retry"][i].row EXCEPT !.status = "processing"]
      OBVIOUS
    <3>3. PICK row2 : row2 = [items[i] EXCEPT !.status = "processing"]
      OBVIOUS
    <3>4. Fit(row1) /\ Fit(row2)
      BY <3>1, <3>2, <3>3, EditLone DEF RowsGood
    <3>5. StoreFor(call["retry"][i].user, i, row1) \/ Update(i, row2)
      BY <2>3, <3>2, <3>3 DEF RetryAnswered
    <3> QED
      BY <3>1, <3>4, <3>5, LoneWrites
  <2>4. CASE \/ CancelArrives(i) \/ RetryArrives(i)
    BY <2>4, LoneWrites DEF CancelArrives, RetryArrives, mountVars
  <2>5. CASE RetryFails(i)
    <3>1. CASE StoreFor(call["retry"][i].user, i, call["retry"][i].row)
      <4>1. Fit(call["retry"][i].row)
        BY <2>5, RetryFailsRows DEF Fit, Lone, Row
      <4> QED
        BY <2>5, <3>1, <4>1, RetryFailsRows, LoneWrites
    <3>2. CASE Update(i, items[i])
      <4>1. Fit(items[i])
        BY DEF Fit, Lone, LoneRows, RowsGood, Row
      <4> QED
        BY <3>2, <4>1, LoneWrites
    <3> QED
      BY <2>5, <3>1, <3>2, RetryFailsRows
  <2> QED
    BY <1>8, <2>1, <2>2, <2>3, <2>4, <2>5 DEF CallStep
<1>9. ASSUME NEW r \in Slots, RunStep(r) PROVE LoneAfter
  <2>0. /\ run[r].pc # "idle" /\ run[r].id \in Ids /\ run[r].user \in Users
        /\ GoodRun(run[r]) /\ run[r].row \in Row /\ items[run[r].id] \in Row
    BY <1>9, RunAwake DEF RunsGood, GoodRun, GoodRow, RowsGood
  <2>1. CASE HashDiffers(r)
    <3>1. PICK row : row = [items[run[r].id] EXCEPT !.status = "needs_file", !.file = NoFile]
      OBVIOUS
    <3>2. Fit(row)
      BY <2>1, <2>0, <3>1, EditLone DEF HashDiffers, At, RowsGood, GoodRow, LoneRows
    <3>3. Update(run[r].id, row)
      BY <2>1, <3>1 DEF HashDiffers
    <3> QED
      BY <2>1, <2>0, <3>2, <3>3, LoneWrites DEF HashDiffers, At
  <2>2. CASE Hashed(r)
    <3>1. PICK row : row = [items[run[r].id] EXCEPT !.hash = run[r].row.file]
      OBVIOUS
    <3>2. Fit(row)
      BY <2>2, <2>0, <3>1, EditLone DEF Hashed, At, RowsGood, GoodRow, LoneRows
    <3>3. Update(run[r].id, row)
      BY <2>2, <3>1 DEF Hashed
    <3> QED
      BY <2>2, <2>0, <3>2, <3>3, LoneWrites DEF Hashed, At
  <2>3. CASE GetResumes(r)
    <3>1. PICK row : row = [items[run[r].id] EXCEPT !.status = "uploading"]
      OBVIOUS
    <3>2. Fit(row)
      BY <2>3, <2>0, <3>1, EditLone DEF GetResumes, At, RowsGood, GoodRow, LoneRows
    <3>3. Update(run[r].id, row)
      BY <2>3, <3>1 DEF GetResumes
    <3> QED
      BY <2>3, <2>0, <3>2, <3>3, LoneWrites DEF GetResumes, At
  <2>4. CASE GetSettles(r)
    <3>1. PICK row : row = [items[run[r].id] EXCEPT !.status = srv[run[r].sess].status,
                                               !.file = NoFile]
      OBVIOUS
    <3>2. Fit(row)
      BY <2>4, <2>0, <3>1, EditLone DEF GetSettles, At, RowsGood, GoodRow, LoneRows
    <3>3. Remove(run[r].id) \/ Update(run[r].id, row)
      BY <2>4, <3>1 DEF GetSettles
    <3> QED
      BY <2>4, <2>0, <3>2, <3>3, LoneWrites DEF GetSettles, At
  <2>5. CASE Duplicate(r)
    <3>1. PICK row : row = [run[r].row EXCEPT !.status = "duplicate", !.file = NoFile]
      OBVIOUS
    <3>2. run[r].row \in Row /\ run[r].row.sess = NoSession
      BY <2>5, <2>0 DEF Duplicate, At, GoodRun, GoodRow, CreatingPC
    <3>3. Fit(row) /\ Fit(Absent)
      BY <3>1, <3>2, EditLone
    <3>4. Erase(r) \/ Write(r, row)
      BY <2>5, <3>1 DEF Duplicate
    <3> QED
      BY <2>0, <3>3, <3>4, LoneWrites DEF Erase, Write
  <2>6. CASE Created(r)
    <3>1. run[r].row \in Row /\ items[run[r].id] \in Row
      BY <2>0 DEF GoodRun, GoodRow, RowsGood
    <3>2. CASE run[r].stale
      <4>1. PICK row : row = [run[r].row EXCEPT !.status = "paused", !.sess = run[r].sess,
                                                !.hash = run[r].row.file]
        OBVIOUS
      <4>2. Fit(row)
        BY <3>1, <4>1, EditLone
      <4>3. StoreFor(run[r].user, run[r].id, row)
        BY <2>6, <3>2, <4>1 DEF Created
      <4> QED
        BY <2>0, <4>2, <4>3, LoneWrites
    <3>3. CASE ~run[r].stale
      <4>1. r = active /\ active # NoSlot
        BY <2>0, <3>3, ConstantsAssumption DEF Working
      <4>2. items[run[r].id].status # "duplicate"
        BY <2>0, <4>1 DEF Resting, Works
      <4>3. PICK status : status = IF run[r].aborted THEN items[run[r].id].status
                                   ELSE "uploading"
        OBVIOUS
      <4>4. PICK row : row = [items[run[r].id] EXCEPT !.sess = run[r].sess, !.status = status]
        OBVIOUS
      <4>5. Shown(run[r].id) => status \notin {"absent", "duplicate"}
        BY <4>2, <4>3 DEF Shown
      <4>6. Shown(run[r].id) => Fit(row)
        BY <3>1, <4>4, <4>5, EditLone
      <4>7. Update(run[r].id, row)
        BY <2>6, <3>3, <4>3, <4>4 DEF Created
      <4>8. ~Shown(run[r].id) => UNCHANGED <<items, stored>>
        BY <4>7 DEF Update
      <4> QED
        BY <2>0, <4>6, <4>7, <4>8, LoneWrites
    <3> QED
      BY <3>2, <3>3
  <2>7. CASE DropSucceeds(r)
    <3>1. Fit(Absent)
      BY EditLone, AbsentGood
    <3> QED
      BY <2>7, <2>0, <3>1, LoneWrites DEF DropSucceeds, Erase
  <2>8. CASE DropFails(r)
    <3>1. PICK row : row = [run[r].row EXCEPT !.status = "error", !.sess = run[r].sess,
                                             !.hash = run[r].row.file]
      OBVIOUS
    <3>2. Fit(row)
      BY <2>8, <2>0, <3>1, EditLone DEF RunsGood, GoodRun, GoodRow
    <3>3. Write(r, row)
      BY <2>8, <3>1 DEF DropFails
    <3> QED
      BY <2>0, <3>2, <3>3, LoneWrites DEF Write
  <2>9. CASE Completed(r)
    <3>0. run[r].ans \notin {"absent", "duplicate"}
      BY <2>9, <2>0 DEF Completed, At, GoodRun
    <3>1. PICK row : row = [items[run[r].id] EXCEPT !.status = run[r].ans, !.file = NoFile]
      OBVIOUS
    <3>2. Fit(row)
      BY <2>9, <2>0, <3>0, <3>1, EditLone DEF Completed, At, RowsGood, GoodRow, LoneRows
    <3>3. Remove(run[r].id) \/ Update(run[r].id, row)
      BY <2>9, <3>1 DEF Completed
    <3> QED
      BY <2>9, <2>0, <3>2, <3>3, LoneWrites DEF Completed, At
  <2>10. CASE Fails(r)
    <3>1. PICK row : row = [items[run[r].id] EXCEPT !.status = "error"]
      OBVIOUS
    <3>2. Fit(row)
      BY <2>10, <2>0, <3>1, EditLone DEF Fails, At, RowsGood, GoodRow, LoneRows
    <3>3. UNCHANGED <<items, stored>> \/ Update(run[r].id, row)
      BY <2>10, <3>1 DEF Fails
    <3> QED
      BY <2>10, <2>0, <3>2, <3>3, LoneWrites DEF Fails, At
  <2>11. CASE \/ (\E s \in Sessions : CreateArrives(r, s)) \/ CreateRefused(r)
              \/ CreatedCancelled(r) \/ PartsDone(r) \/ CompleteArrives(r)
              \/ CompleteIgnored(r) \/ Unwinds(r)
    BY <2>11, LoneWrites
       DEF CreateArrives, CreateRefused, CreatedCancelled, PartsDone, CompleteArrives,
          CompleteIgnored, Unwinds, mountVars
  <2> QED
    BY <1>9, <2>1, <2>2, <2>3, <2>4, <2>5, <2>6, <2>7, <2>8, <2>9, <2>10, <2>11
       DEF RunStep
<1>10. CASE \/ (\E u \in Users : SignIn(u)) \/ RestoreLocal \/ RestoreRemote
            \/ RestoreFails \/ PollFails \/ (\E i \in Ids : PollArrives(i))
            \/ (\E s \in Sessions : ServerMoves(s))
  BY <1>10, LoneWrites
     DEF SignIn, RestoreLocal, RestoreRemote, RestoreFails, PollFails, PollArrives,
        ServerMoves, mountVars
<1> QED
  BY <1>1, <1>2, <1>3, <1>4, <1>5, <1>6, <1>7, <1>8, <1>9, <1>10 DEF Next

\* What the restoration has read stays, or is IndexedDB as it is, or is given up.
LEMMA RestoreMoves ==
    ASSUME Next
    PROVE  \/ restore' = restore \/ restore' = NotRead \/ RestoreLocal \/ RestoreRemote
<1>1. ASSUME NEW i \in Ids, Button(i) PROVE restore' = restore
  BY <1>1
  DEF Button, Pause, CancelLocal, CancelSend, RetryLocal, RetrySend, Dismiss, Reselect,
      mountVars
<1>2. ASSUME NEW i \in Ids, CallStep(i) PROVE restore' = restore
  BY <1>2
  DEF CallStep, CancelArrives, CancelSucceeds, CancelFails, RetryArrives, RetryAnswered,
      RetryFails, mountVars
<1>3. ASSUME NEW r \in Slots, RunStep(r) PROVE restore' = restore
  BY <1>3
  DEF RunStep, HashDiffers, Hashed, GetResumes, GetSettles, CreateArrives, CreateRefused,
      Duplicate, CreatedCancelled, Created, DropSucceeds, DropFails, PartsDone,
      CompleteArrives, CompleteIgnored, Completed, Unwinds, Fails, mountVars
<1> QED
  BY <1>1, <1>2, <1>3
  DEF Next, SignIn, Restored, RestoreFails, SignOut, Reload, Unmounted, PollAnswered,
      PollFails, PollArrives, AddFile, Start, ServerMoves, mountVars

\* Every step keeps empty rows and duplicates without sessions and without work.
LEMMA DuplicatesStep ==
    ASSUME RowsGood, RunsGood, CallsGood, RestoreGood, PollGood, Mounting, Working,
           Duplicates, Next
    PROVE  Duplicates'
<1>1. LoneAfter
  BY LoneWrittenStep DEF Duplicates
<1>2. ASSUME NEW i \in Ids PROVE Resting(i)'
  BY RestingStep DEF Duplicates
<1>3. ASSUME NEW i \in Ids PROVE Lone(restore'.local[i])
  <2>1. CASE restore' = restore
    BY <2>1 DEF Duplicates, LoneRows
  <2>2. CASE restore' = NotRead
    BY <2>2 DEF NotRead, Lone, Absent
  <2>3. CASE RestoreLocal
    <3>1. account \in Users
      BY <2>3 DEF RestoreLocal, Mounting
    <3>2. restore'.local = stored[account]
      BY <2>3 DEF RestoreLocal, RestoreGood, Restores
    <3> QED
      BY <3>1, <3>2 DEF Duplicates, LoneRows
  <2>4. CASE RestoreRemote
    <3>1. restore'.local = restore.local
      BY <2>4 DEF RestoreRemote, RestoreGood, Restores
    <3> QED
      BY <3>1 DEF Duplicates, LoneRows
  <2> QED
    BY <2>1, <2>2, <2>3, <2>4, RestoreMoves
<1> QED
  BY <1>1, <1>2, <1>3 DEF Duplicates, LoneRows, LoneAfter, Lone

---------------------------------------------------------------------------
(* Rows that go *)

\* What the helpers leave on display.
LEMMA ShownMoves ==
    ASSUME RowsGood, NEW j \in Ids, Shown(j),
           \/ UNCHANGED items
           \/ \E i \in Ids : Remove(i) /\ i # j
           \/ \E i \in Ids : \E row : Update(i, row) /\ (row.status # "absent" \/ i # j)
           \/ \E u, i, row : StoreFor(u, i, row)
    PROVE  Shown(j)'
BY RowAt DEF Shown, StoreFor

\* A row with a session goes once the server has finished with the session.
LEMMA GoneClosed ==
    ASSUME RowsGood, RunsGood, CallsGood, PollGood, Mounting, Working, Unused,
           SameSession, Answers, Duplicates, NEW j \in Ids, Shown(j),
           items[j].sess \in Sessions, ready, ready', Next
    PROVE  Shown(j)' \/ Closed(items[j].sess)
<1>1. CASE Restored
  BY <1>1 DEF Restored, Restored
<1>2. CASE SignOut
  BY <1>2 DEF SignOut, SignOut, Unmounted
<1>3. CASE Reload
  BY <1>3 DEF Reload, Reload, Unmounted
<1>4. CASE PollAnswered
  <2>1. poll.id \in Ids /\ poll.ans # "absent"
    BY <1>4 DEF PollAnswered, PollGood, Polls, PollAnswers
  <2>2. CASE poll.id # j
    <3>1. items'[j] = items[j]
      BY <1>4, <2>1, <2>2, RowAt DEF PollAnswered
    <3> QED
      BY <3>1 DEF Shown
  <2>3. CASE poll.id = j /\ poll.ans \in {"ready", "cancelled", "gone"}
    BY <1>4, <2>3 DEF PollAnswered, Answers, PollClosed, SameSession
  <2>4. CASE poll.id = j /\ poll.ans \notin {"ready", "cancelled", "gone"}
    <3>1. PICK row : row = [items[poll.id] EXCEPT !.status = poll.ans]
      OBVIOUS
    <3>2. row.status # "absent"
      BY <2>1, <3>1, EditStatus DEF RowsGood
    <3>3. Update(poll.id, row)
      BY <1>4, <2>4, <3>1 DEF PollAnswered
    <3> QED
      BY <2>1, <3>2, <3>3, ShownMoves
  <2> QED
    BY <2>2, <2>3, <2>4
<1>5. ASSUME NEW i \in NewIds, NEW file \in Contents \cup {NoFile}, AddFile(i, file)
      PROVE  Shown(j)' \/ Closed(items[j].sess)
  <2>1. i # j
    BY <1>5 DEF AddFile, Unused, UnusedRow, Shown, Absent
  <2> QED
    BY <1>5, <2>1 DEF AddFile, RowsGood, Shown
<1>6. ASSUME NEW r \in Slots, NEW i \in Ids, Start(r, i)
      PROVE  Shown(j)' \/ Closed(items[j].sess)
  <2>1. PICK row : row = [items[i] EXCEPT !.status = "hashing"]
    OBVIOUS
  <2>2. row.status # "absent"
    BY <2>1, EditStatus DEF RowsGood
  <2>3. Update(i, row)
    BY <1>6, <2>1 DEF Start
  <2> QED
    BY <2>2, <2>3, ShownMoves
<1>7. ASSUME NEW i \in Ids, Button(i) PROVE Shown(j)' \/ Closed(items[j].sess)
  <2>1. CASE Pause(i)
    <3>1. PICK row : row = [items[i] EXCEPT !.status = "paused"]
      OBVIOUS
    <3>2. row.status # "absent"
      BY <3>1, EditStatus DEF RowsGood
    <3>3. Update(i, row)
      BY <2>1, <3>1 DEF Pause
    <3> QED
      BY <3>2, <3>3, ShownMoves
  <2>2. CASE CancelLocal(i)
    <3>0. i # j
      BY <2>2, ConstantsAssumption DEF CancelLocal
    <3>1. PICK row : row = [items[i] EXCEPT !.status = "cancelling"]
      OBVIOUS
    <3>2. row.status # "absent"
      BY <3>1, EditStatus DEF RowsGood
    <3>3. Remove(i) \/ Update(i, row)
      BY <2>2, <3>1 DEF CancelLocal
    <3> QED
      BY <3>0, <3>3, ShownMoves
  <2>3. CASE CancelSend(i)
    <3>1. PICK row : row = [items[i] EXCEPT !.status = "cancelling"]
      OBVIOUS
    <3>2. row.status # "absent"
      BY <3>1, EditStatus DEF RowsGood
    <3>3. Update(i, row)
      BY <2>3, <3>1 DEF CancelSend
    <3> QED
      BY <3>2, <3>3, ShownMoves
  <2>4. CASE RetryLocal(i)
    <3>1. PICK row : row = [items[i] EXCEPT
                         !.status = IF items[i].file = NoFile THEN "needs_file" ELSE "queued"]
      OBVIOUS
    <3>2. row.status # "absent"
      BY <3>1, EditStatus DEF RowsGood
    <3>3. Update(i, row)
      BY <2>4, <3>1 DEF RetryLocal
    <3> QED
      BY <3>2, <3>3, ShownMoves
  <2>5. CASE Dismiss(i)
    <3>1. i # j
      BY <2>5, ConstantsAssumption DEF Dismiss, Duplicates, LoneRows, Lone
    <3> QED
      BY <2>5, <3>1, ShownMoves DEF Dismiss
  <2>6. CASE \E file \in Contents \cup {NoFile} : Reselect(i, file)
    <3>0. PICK file \in Contents \cup {NoFile} : Reselect(i, file)
      BY <2>6
    <3>1. PICK row : row = [items[i] EXCEPT !.file = file,
                               !.status = IF file = NoFile THEN "error" ELSE "queued"]
      OBVIOUS
    <3>2. row.status # "absent"
      BY <3>1, EditStatus DEF RowsGood
    <3>3. Update(i, row)
      BY <3>0, <3>1 DEF Reselect
    <3> QED
      BY <3>2, <3>3, ShownMoves
  <2>7. CASE \/ RetrySend(i)
    BY <2>7, ShownMoves DEF RetrySend, mountVars
  <2> QED
    BY <1>7, <2>1, <2>2, <2>3, <2>4, <2>5, <2>6, <2>7 DEF Button
<1>8. ASSUME NEW i \in Ids, CallStep(i) PROVE Shown(j)' \/ Closed(items[j].sess)
  <2>1. CASE CancelSucceeds(i)
    <3> DEFINE c == call["cancel"][i]
    <3>1. CASE c.stale \/ i # j
      BY <2>1, <3>1, ShownMoves DEF CancelSucceeds
    <3>2. CASE ~c.stale /\ i = j
      <4>1. items[j].sess = c.row.sess
        BY <2>1, <3>2 DEF CancelSucceeds, Pending, SameSession
      <4>2. Closed(c.row.sess)
        BY <2>1 DEF CancelSucceeds, Answers, CallClosed
      <4> QED
        BY <4>1, <4>2
    <3> QED
      BY <3>1, <3>2
  <2>2. CASE CancelFails(i)
    <3>1. PICK row : row = [items[i] EXCEPT !.status = "error", !.file = call["cancel"][i].row.file]
      OBVIOUS
    <3>2. row.status # "absent"
      BY <3>1, EditStatus DEF RowsGood
    <3>3. Update(i, row) \/ \E u, k, r : StoreFor(u, k, r)
      BY <2>2, <3>1 DEF CancelFails
    <3> QED
      BY <3>2, <3>3, ShownMoves
  <2>3. CASE RetryAnswered(i)
    <3>1. PICK row : row = [items[i] EXCEPT !.status = "processing"]
      OBVIOUS
    <3>2. row.status # "absent"
      BY <3>1, EditStatus DEF RowsGood
    <3>3. Update(i, row) \/ \E u, k, r : StoreFor(u, k, r)
      BY <2>3, <3>1 DEF RetryAnswered
    <3> QED
      BY <3>2, <3>3, ShownMoves
  <2>4. CASE \/ CancelArrives(i) \/ RetryArrives(i)
    BY <2>4, ShownMoves DEF CancelArrives, RetryArrives, mountVars
  <2>5. CASE RetryFails(i)
    BY <2>5, RetryFailsRows, ShownMoves
  <2> QED
    BY <1>8, <2>1, <2>2, <2>3, <2>4, <2>5 DEF CallStep
<1>9. ASSUME NEW r \in Slots, RunStep(r) PROVE Shown(j)' \/ Closed(items[j].sess)
  <2>a. /\ run[r].pc # "idle" /\ run[r].id \in Ids
        /\ GoodRun(run[r]) /\ run[r].row \in Row /\ items[run[r].id] \in Row
    BY <1>9, RunAwake DEF RunsGood, GoodRun, GoodRow, RowsGood
  <2>b. CASE run[r].stale \/ run[r].id # j
    <3>1. items'[j] = items[j]
      BY <1>9, <2>b, RunElsewhere
    <3> QED
      BY <3>1 DEF Shown
  <2>c. SUFFICES ASSUME ~run[r].stale, run[r].id = j
                 PROVE  Shown(j)' \/ Closed(items[j].sess)
    BY <2>b
  <2>d. r = active /\ active # NoSlot
    BY <2>a, <2>c, ConstantsAssumption DEF Working
  <2>e. items[j].sess = IF run[r].pc \in CreatingPC THEN NoSession ELSE run[r].sess
    BY <2>c, <2>d DEF SameSession
  <2>0. /\ run[r].pc # "idle" /\ run[r].id = j /\ ~run[r].stale
        /\ GoodRun(run[r]) /\ run[r].row \in Row /\ items[run[r].id] \in Row
        /\ items[j].sess = IF run[r].pc \in CreatingPC THEN NoSession ELSE run[r].sess
    BY <2>a, <2>c, <2>e
  <2>1. CASE HashDiffers(r)
    <3>1. PICK row : row = [items[run[r].id] EXCEPT !.status = "needs_file", !.file = NoFile]
      OBVIOUS
    <3>2. row.status # "absent"
      BY <2>1, <2>0, <3>1, EditStatus DEF HashDiffers, Shown
    <3>3. Update(run[r].id, row)
      BY <2>1, <2>0, <3>1 DEF HashDiffers, Write
    <3> QED
      BY <2>0, <3>2, <3>3, ShownMoves
  <2>2. CASE Hashed(r)
    <3>1. PICK row : row = [items[run[r].id] EXCEPT !.hash = run[r].row.file]
      OBVIOUS
    <3>2. row.status # "absent"
      BY <2>2, <2>0, <3>1, EditStatus DEF Hashed, Shown
    <3>3. Update(run[r].id, row)
      BY <2>2, <2>0, <3>1 DEF Hashed, Write
    <3> QED
      BY <2>0, <3>2, <3>3, ShownMoves
  <2>3. CASE GetResumes(r)
    <3>1. PICK row : row = [items[run[r].id] EXCEPT !.status = "uploading"]
      OBVIOUS
    <3>2. row.status # "absent"
      BY <2>3, <2>0, <3>1, EditStatus DEF GetResumes, Shown
    <3>3. Update(run[r].id, row)
      BY <2>3, <2>0, <3>1 DEF GetResumes, Write
    <3> QED
      BY <2>0, <3>2, <3>3, ShownMoves
  <2>4. CASE GetSettles(r)
    <3>1. CASE srv[run[r].sess].status \in {"ready", "cancelled"}
      BY <2>4, <2>0, <3>1 DEF GetSettles, At, GoodRun, CreatingPC, Closed
    <3>2. CASE srv[run[r].sess].status \notin {"ready", "cancelled"}
      <4>1. PICK row : row = [items[run[r].id] EXCEPT !.status = srv[run[r].sess].status,
                                                      !.file = NoFile]
        OBVIOUS
      <4>2. row.status # "absent"
        BY <2>4, <2>0, <3>2, <4>1, EditStatus DEF GetSettles
      <4>3. Update(run[r].id, row)
        BY <2>4, <3>2, <4>1 DEF GetSettles
      <4> QED
        BY <2>0, <4>2, <4>3, ShownMoves
    <3> QED
      BY <3>1, <3>2
  <2>5. CASE Duplicate(r)
    BY <2>5, <2>0, ConstantsAssumption DEF Duplicate, At, CreatingPC
  <2>6. CASE Created(r)
    <3>1. PICK row : row = [items[run[r].id] EXCEPT !.sess = run[r].sess,
                               !.status = IF run[r].aborted THEN items[run[r].id].status
                                          ELSE "uploading"]
      OBVIOUS
    <3>2. row.status # "absent"
      BY <2>6, <2>0, <3>1, EditStatus DEF Created, Shown
    <3>3. Update(run[r].id, row)
      BY <2>6, <2>0, <3>1 DEF Created, Write
    <3> QED
      BY <2>0, <3>2, <3>3, ShownMoves
  <2>7. CASE DropSucceeds(r)
    BY <2>7, <2>0, ConstantsAssumption DEF DropSucceeds, At, CreatingPC
  <2>8. CASE DropFails(r)
    <3>1. PICK row : row = [run[r].row EXCEPT !.status = "error", !.sess = run[r].sess,
                                             !.hash = run[r].row.file]
      OBVIOUS
    <3>2. row.status # "absent"
      BY <2>8, <2>0, <3>1, EditStatus DEF DropFails, Shown
    <3>3. Update(run[r].id, row)
      BY <2>8, <2>0, <3>1 DEF DropFails, Write
    <3> QED
      BY <2>0, <3>2, <3>3, ShownMoves
  <2>9. CASE Completed(r)
    <3>1. CASE run[r].ans = "ready"
      BY <2>9, <2>0, <3>1 DEF Completed, At, CreatingPC, Answers, RunClosed
    <3>2. CASE run[r].ans # "ready"
      <4>1. PICK row : row = [items[run[r].id] EXCEPT !.status = run[r].ans, !.file = NoFile]
        OBVIOUS
      <4>2. row.status # "absent"
        BY <2>9, <2>0, <3>2, <4>1, EditStatus DEF Completed, At, GoodRun
      <4>3. Update(run[r].id, row)
        BY <2>9, <3>2, <4>1 DEF Completed
      <4> QED
        BY <2>0, <4>2, <4>3, ShownMoves
    <3> QED
      BY <3>1, <3>2
  <2>10. CASE Fails(r)
    <3>1. PICK row : row = [items[run[r].id] EXCEPT !.status = "error"]
      OBVIOUS
    <3>2. row.status # "absent"
      BY <2>10, <2>0, <3>1, EditStatus DEF Fails, Shown
    <3>3. UNCHANGED items \/ Update(run[r].id, row)
      BY <2>10, <2>0, <3>1 DEF Fails, Write
    <3> QED
      BY <2>0, <3>2, <3>3, ShownMoves
  <2>11. CASE \/ (\E s \in Sessions : CreateArrives(r, s)) \/ CreateRefused(r)
              \/ CreatedCancelled(r) \/ PartsDone(r) \/ CompleteArrives(r)
              \/ CompleteIgnored(r) \/ Unwinds(r)
    BY <2>11, ShownMoves
       DEF CreateArrives, CreateRefused, CreatedCancelled, PartsDone, CompleteArrives,
          CompleteIgnored, Unwinds, mountVars
  <2> QED
    BY <1>9, <2>1, <2>2, <2>3, <2>4, <2>5, <2>6, <2>7, <2>8, <2>9, <2>10, <2>11
       DEF RunStep
<1>10. CASE \/ (\E u \in Users : SignIn(u)) \/ RestoreLocal \/ RestoreRemote
            \/ RestoreFails \/ PollFails \/ (\E i \in Ids : PollArrives(i))
            \/ (\E s \in Sessions : ServerMoves(s))
  BY <1>10, ShownMoves
     DEF SignIn, RestoreLocal, RestoreRemote, RestoreFails, PollFails, PollArrives,
        ServerMoves, mountVars
<1> QED
  BY <1>1, <1>2, <1>3, <1>4, <1>5, <1>6, <1>7, <1>8, <1>9, <1>10 DEF Next

\* A session that leaves the queue is one that the server has finished with.
LEMMA SessionGoes ==
    ASSUME RowsGood, RunsGood, CallsGood, PollGood, Mounting, Working, Unused, SameSession,
           Answers, Duplicates, ready, ready', Next, NEW j \in Ids,
           items[j].sess \in Sessions, items'[j].sess # items[j].sess
    PROVE  Closed(items[j].sess)
<1>1. Shown(j)
  BY ConstantsAssumption DEF Duplicates, LoneRows, Lone, Shown
<1>2. j \notin NewIds \ used
  BY <1>1 DEF Unused, UnusedRow, Shown, Absent
<1>3. ~Recording(j)
  BY <1>1, ConstantsAssumption DEF Recording, SameSession
<1>4. SessionKept(j)
  BY <1>2, <1>3, SessionStep
<1>5. ~Shown(j)'
  BY <1>1, <1>4 DEF SessionKept
<1> QED
  BY <1>1, <1>5, GoneClosed

---------------------------------------------------------------------------
(* The theorem *)

Forgets ==
    ready /\ ready' => \A s \in Sessions :
        (\E i \in Ids : items[i].sess = s) /\ (\A i \in Ids : items'[i].sess # s)
            => srv[s].status \notin Listed

\* From any state of the invariant, a step forgets no session that is listed.
LEMMA StepForgetsNothing ==
    ASSUME Inv, Answers, Duplicates, Next
    PROVE  Forgets
<1> SUFFICES ASSUME ready, ready', NEW s \in Sessions, NEW j \in Ids, items[j].sess = s,
                    \A i \in Ids : items'[i].sess # s
             PROVE  srv[s].status \notin Listed
  BY DEF Forgets
<1>1. Closed(s)
  BY SessionGoes DEF Inv
<1> QED
  BY <1>1 DEF Closed, Listed

\* Nothing was answered and nothing is on display when the page is loaded.
LEMMA InitQueue == Init => Answers /\ Duplicates
<1> SUFFICES ASSUME Init PROVE Answers /\ Duplicates
  OBVIOUS
<1>1. \A i \in Ids : call["cancel"][i].pc = "none"
  BY DEF Init, NoCall
<1>2. \A r \in Slots : run[r].pc = "idle"
  BY DEF Init, Idle
<1>3. poll.ans = "none"
  BY DEF Init, NoPoll
<1>4. Answers
  BY <1>1, <1>2, <1>3 DEF Answers, CallClosed, RunClosed, PollClosed
<1>5. LoneRows
  BY DEF Init, LoneRows, Lone, NotRead, Absent
<1>6. \A i \in Ids : Resting(i)
  BY DEF Init, Resting, Absent
<1> QED
  BY <1>4, <1>5, <1>6 DEF Duplicates

\* A step that changes nothing keeps both.
LEMMA StutterQueue ==
    ASSUME Answers, Duplicates, UNCHANGED vars
    PROVE  Answers' /\ Duplicates' /\ Forgets
<1>1. UNCHANGED <<items, active, run, call, poll, stored, srv, restore>>
  BY DEF vars, mountVars
<1>2. Answers'
  BY <1>1 DEF Answers, CallClosed, RunClosed, PollClosed, Closed
<1>3. Duplicates'
  BY <1>1 DEF Duplicates, LoneRows, Lone, Resting, Works
<1> QED
  BY <1>1, <1>2, <1>3 DEF Forgets

\* What the queue knows of the server, beside Inv.
THEOREM AnswersTrue == Spec => [](Answers /\ Duplicates)
<1>1. Inv /\ Answers /\ Duplicates /\ [Next]_vars => (Answers /\ Duplicates)'
  <2> SUFFICES ASSUME Inv, Answers, Duplicates, [Next]_vars PROVE Answers' /\ Duplicates'
    OBVIOUS
  <2>1. CASE Next
    BY <2>1, AnswersStep, DuplicatesStep DEF Inv
  <2>2. CASE UNCHANGED vars
    BY <2>2, StutterQueue
  <2> QED
    BY <2>1, <2>2
<1> QED
  BY <1>1, InitQueue, Invariance, PTL DEF Spec

\* A session that the queue showed leaves it only once the server has finished with
\* it, for any number of accounts, files, invocations and sessions.
THEOREM NothingForgottenHolds == Spec => NothingForgotten
<1>1. Inv /\ Answers /\ Duplicates /\ [Next]_vars => [Forgets]_vars
  BY StepForgetsNothing
<1>2. Spec => [][Forgets]_vars
  BY <1>1, Invariance, AnswersTrue, PTL DEF Spec
<1> QED
  BY <1>2 DEF NothingForgotten, Forgets

===========================================================================
