---------------------- MODULE UploadQueueClientProofs ----------------------
(***************************************************************************)
(* Proofs about UploadQueueClient, for any sets of users, sessions, files  *)
(* and invocations, and any number of changes of account.                  *)
(***************************************************************************)
EXTENDS UploadQueueClient, TLAPS

---------------------------------------------------------------------------
(* The inductive invariant *)

CallPC == {"none", "sent", "answered"}
CallAnswers == {"none", "gone", "refused", "processing"}
PollAnswers == {"none", "processing", "error", "ready", "cancelled", "gone"}

\* The types of the records that TypeOK describes in part.
Invocations ==
    [pc: RunPC, id: Ids \cup {NoSession}, user: Users \cup {NoUser}, row: Row,
     aborted: BOOLEAN, stale: BOOLEAN, flag: BOOLEAN,
     sess: Sessions \cup {NoSession}, ans: ServerStatuses]
Calls ==
    [pc: CallPC, user: Users \cup {NoUser}, row: Row, stale: BOOLEAN, ans: CallAnswers]
Polls ==
    [id: Ids \cup {NoSession}, sess: Sessions \cup {NoSession}, ans: PollAnswers]
Restores ==
    [local: [Ids -> Row], gotLocal: BOOLEAN, remote: [Sessions -> ServerStatuses],
     gotRemote: BOOLEAN]
ServerRows ==
    [status: ServerStatuses, owner: Users \cup {NoUser}, content: Contents \cup {NoFile}]

\* A session has left the upload phase, for good.
Past(s) == s \in Sessions /\ srv[s].status \notin {"none", "uploading"}

\* Whatever names a session names one of its own account.
Owned(sess, u) == sess # NoSession => srv[sess].owner = u

\* A row that account u may hold, wherever a copy of it is kept.
GoodRow(row, u) ==
    row \in Row /\ Owned(row.sess, u) /\ (row.status = "processing" => Past(row.sess))

ServerGood ==
    /\ srv \in [Sessions -> ServerRows]
    /\ \A s \in Sessions : srv[s].status = "none" => srv[s].owner = NoUser

RowsGood ==
    /\ items \in [Ids -> Row] /\ stored \in [Users -> [Ids -> Row]]
    /\ \A i \in Ids : GoodRow(items[i], account)
    /\ \A u \in Users, i \in Ids : GoodRow(stored[u][i], u)

GoodRun(inv) ==
    inv.pc # "idle" =>
        /\ inv.id \in Ids /\ inv.user \in Users
        /\ GoodRow(inv.row, inv.user) /\ Owned(inv.sess, inv.user)
        /\ ~inv.stale => inv.user = account
        /\ inv.pc = "hash" => inv.row.sess = inv.sess
        /\ inv.pc \in CreatingPC => inv.row.sess = NoSession
        /\ inv.pc \in {"get", "created", "drop", "parts", "complete", "completed"}
               => inv.sess \in Sessions
        /\ inv.pc = "completed" => inv.ans \in {"processing", "ready"} /\ Past(inv.sess)
RunsGood ==
    run \in [Slots -> Invocations] /\ \A r \in Slots : GoodRun(run[r])

GoodCall(c) ==
    c.pc # "none" =>
        /\ c.user \in Users /\ c.row.sess \in Sessions /\ GoodRow(c.row, c.user)
        /\ ~c.stale => c.user = account
        /\ c.ans = "processing" => Past(c.row.sess)
        /\ c.row.status \in {"cancelling", "error"}
CallsGood ==
    /\ call \in [{"cancel", "retry"} -> [Ids -> Calls]]
    /\ \A op \in {"cancel", "retry"}, i \in Ids : GoodCall(call[op][i])

\* What the restoration has read is of the account that reads it.
RestoreGood ==
    /\ restore \in Restores
    /\ \A i \in Ids : GoodRow(restore.local[i], account)
    /\ \A s \in Sessions : /\ restore.remote[s] # "none" => srv[s].owner = account
                           /\ restore.remote[s] = "processing" => Past(s)
                           /\ restore.remote[s] \in Listed \cup {"none"}

PollGood ==
    /\ poll \in Polls
    /\ poll = NoPoll \/ (poll.id \in Ids /\ Past(poll.sess) /\ poll.ans # "none")

\* A request of this mount whose answer has not been handled.
Pending(op, i) == call[op][i].pc # "none" /\ ~call[op][i].stale

\* Without a restored queue nothing of this mount is under way.
Mounting ==
    /\ account \in Users \cup {NoUser} /\ ready \in BOOLEAN
    /\ unmounts \in 0 .. MaxUnmounts /\ used \subseteq NewIds
    /\ cancelled \subseteq Ids /\ active \in Slots \cup {NoSlot}
    /\ account = NoUser => ~ready /\ restore = NotRead
    /\ ~ready => /\ items = [i \in Ids |-> Absent]
                 /\ active = NoSlot /\ cancelled = {} /\ poll = NoPoll
                 /\ \A op \in {"cancel", "retry"}, i \in Ids : ~Pending(op, i)

\* activeRef names the one invocation of this mount; those of earlier mounts
\* were aborted.
Working ==
    \A r \in Slots : /\ run[r].pc # "idle" /\ ~run[r].stale <=> r = active
                     /\ run[r].stale => run[r].aborted

\* An id that addFiles may still draw occurs nowhere.
UnusedRow(i) == items[i] = Absent /\ \A u \in Users : stored[u][i] = Absent
UnusedWork(i) ==
    /\ restore.local[i] = Absent
    /\ poll # NoPoll => poll.id # i
    /\ \A op \in {"cancel", "retry"} : call[op][i].pc = "none"
    /\ \A r \in Slots : run[r].pc # "idle" => run[r].id # i
Unused == \A i \in NewIds \ used : UnusedRow(i) /\ UnusedWork(i)

\* The session of a row on display does not change under the work for it.
SameSession ==
    /\ \A op \in {"cancel", "retry"}, i \in Ids :
           Pending(op, i) /\ Shown(i) => items[i].sess = call[op][i].row.sess
    /\ poll # NoPoll /\ Shown(poll.id) => items[poll.id].sess = poll.sess
    /\ active # NoSlot /\ Shown(run[active].id) =>
           items[run[active].id].sess =
               IF run[active].pc \in CreatingPC THEN NoSession ELSE run[active].sess

\* Why no row is stuck: an aborted invocation has left the row in another status, a
\* row that says cancelling is known to the invocation that creates its session, and
\* a row with a session that the user has cancelled has its request under way.
Busy == {"hashing", "uploading"}
Creates(i) == Works(i) /\ run[active].pc \in CreatingPC
ActiveSettled ==
    active # NoSlot /\ run[active].aborted => items[run[active].id].status \notin Busy
RowSettled(i) ==
    /\ items[i].status \in Busy => Works(i) \/ Pending("cancel", i)
    /\ items[i].status = "cancelling" =>
           Pending("cancel", i) \/ (i \in cancelled /\ Creates(i))
    /\ i \in cancelled /\ Shown(i) /\ items[i].sess # NoSession => Pending("cancel", i)
Settled == ActiveSettled /\ \A i \in Ids : RowSettled(i)

Inv == /\ ServerGood /\ RowsGood /\ RunsGood /\ CallsGood /\ RestoreGood /\ PollGood
       /\ Mounting /\ Working /\ Unused /\ SameSession /\ Settled

---------------------------------------------------------------------------
(* What a step does to the sessions of the server *)

\* A session keeps its owner and never returns to the upload phase.
ServerMonotone ==
    \A s \in Sessions : /\ srv[s].owner # NoUser => srv'[s].owner = srv[s].owner
                        /\ Past(s) => Past(s)'

\* A session that exists moves to any status but "none".
LEMMA StatusMove ==
    ASSUME ServerGood, NEW s \in Sessions, NEW status \in ServerStatuses \ {"none"},
           srv[s].status # "none", SetServer(s, status),
           srv[s].status # "uploading" => status # "uploading"
    PROVE  ServerGood' /\ ServerMonotone
BY DEF ServerGood, ServerMonotone, SetServer, ServerRows, Past

\* A step that leaves the sessions alone.
LEMMA SameServer ==
    ASSUME ServerGood, UNCHANGED srv
    PROVE  ServerGood' /\ ServerMonotone
BY DEF ServerGood, ServerMonotone, Past

\* DELETE of an upload, refused or not.
LEMMA CancelMove ==
    ASSUME ServerGood, NEW s \in Sessions, NEW u, CancelEffect(s, u)
    PROVE  ServerGood' /\ ServerMonotone
<1>1. CASE CancelAnswer(s, u) = "ok"
  BY <1>1, StatusMove DEF CancelEffect, CancelAnswer, Alive, ServerStatuses
<1>2. CASE CancelAnswer(s, u) # "ok"
  BY <1>2, SameServer DEF CancelEffect
<1> QED
  BY <1>1, <1>2

\* Every step moves sessions forward only.
LEMMA ServerStep ==
    ASSUME ServerGood, RunsGood, CallsGood, Next
    PROVE  ServerGood' /\ ServerMonotone
<1>1. ASSUME NEW s \in Sessions, ServerMoves(s) PROVE ServerGood' /\ ServerMonotone
  BY <1>1, StatusMove DEF ServerMoves, ServerStatuses
<1>2. ASSUME NEW i \in Ids, Button(i) PROVE ServerGood' /\ ServerMonotone
  BY <1>2, SameServer
     DEF Button, Pause, CancelLocal, CancelSend, RetryLocal, RetrySend, Dismiss,
        Reselect
<1>3. ASSUME NEW i \in Ids, CallStep(i) PROVE ServerGood' /\ ServerMonotone
  <2>1. CASE CancelArrives(i)
    BY <2>1, CancelMove DEF CancelArrives, CallsGood, GoodCall
  <2>2. CASE RetryArrives(i)
    BY <2>2, StatusMove, SameServer
       DEF RetryArrives, CallsGood, GoodCall, ServerStatuses
  <2>3. CASE \/ CancelSucceeds(i) \/ CancelFails(i) \/ RetryAnswered(i)
             \/ RetryFails(i)
    BY <2>3, SameServer DEF CancelSucceeds, CancelFails, RetryAnswered, RetryFails
  <2> QED
    BY <1>3, <2>1, <2>2, <2>3 DEF CallStep
<1>4. ASSUME NEW r \in Slots, RunStep(r) PROVE ServerGood' /\ ServerMonotone
  <2>1. CASE \E s \in Sessions : CreateArrives(r, s)
    <3> PICK s \in Sessions : CreateArrives(r, s)
      BY <2>1
    <3> QED
      BY DEF CreateArrives, ServerMonotone, ServerGood, ServerRows, ServerStatuses, Past,
             RunsGood, GoodRun, Invocations, GoodRow, Row, At
  <2>2. CASE DropSucceeds(r)
    BY <2>2, StatusMove
       DEF DropSucceeds, At, RunsGood, GoodRun, CancelAnswer, Alive, ServerStatuses
  <2>3. CASE DropFails(r)
    BY <2>3, CancelMove, SameServer DEF DropFails, At, RunsGood, GoodRun
  <2>4. CASE CompleteArrives(r)
    BY <2>4, StatusMove DEF CompleteArrives, At, RunsGood, GoodRun, ServerStatuses
  <2>5. CASE \/ HashDiffers(r) \/ Hashed(r) \/ GetResumes(r) \/ GetSettles(r)
             \/ CreateRefused(r) \/ Duplicate(r) \/ CreatedCancelled(r) \/ Created(r)
             \/ PartsDone(r) \/ CompleteIgnored(r) \/ Completed(r) \/ Unwinds(r)
             \/ Fails(r)
    BY <2>5, SameServer
       DEF HashDiffers, Hashed, GetResumes, GetSettles, CreateRefused, Duplicate,
          CreatedCancelled, Created, PartsDone, CompleteIgnored, Completed, Unwinds,
          Fails
  <2> QED
    BY <1>4, <2>1, <2>2, <2>3, <2>4, <2>5 DEF RunStep
<1>5. CASE \/ (\E u \in Users : SignIn(u)) \/ RestoreLocal \/ RestoreRemote \/ Restored
           \/ RestoreFails \/ SignOut \/ Reload \/ PollAnswered \/ PollFails
           \/ (\E i \in NewIds, file \in Contents \cup {NoFile} : AddFile(i, file))
           \/ (\E i \in Ids : PollArrives(i))
           \/ (\E r \in Slots, i \in Ids : Start(r, i))
  BY <1>5, SameServer
     DEF SignIn, RestoreLocal, RestoreRemote, Restored, RestoreFails, SignOut, Reload,
        PollAnswered, PollFails, AddFile, PollArrives, Start, Unmounted
<1> QED
  BY <1>1, <1>2, <1>3, <1>4, <1>5 DEF Next

---------------------------------------------------------------------------
(* Rows *)

\* A good row stays good, as its session only moves forward.
LEMMA GoodRowStays ==
    ASSUME ServerMonotone
    PROVE  \A row, u : u # NoUser /\ GoodRow(row, u) => GoodRow(row, u)'
BY DEF ServerMonotone, GoodRow, Owned, Past, Row

\* Whatever has no session is a good row of anybody.
LEMMA AbsentGood ==
    /\ Absent \in Row
    /\ \A u : GoodRow(Absent, u) /\ GoodRow(Absent, u)'
BY DEF Absent, GoodRow, Owned, Row, Statuses

\* The fields that the work on a row changes.
LEMMA EditRow ==
    ASSUME NEW row \in Row, NEW u, GoodRow(row, u),
           NEW status \in Statuses, NEW file \in Contents \cup {NoFile},
           status = "processing" => Past(row.sess)
    PROVE  /\ GoodRow([row EXCEPT !.status = status], u)
           /\ GoodRow([row EXCEPT !.file = file], u)
           /\ GoodRow([row EXCEPT !.hash = file], u)
           /\ GoodRow([row EXCEPT !.status = status, !.file = file], u)
           /\ GoodRow([row EXCEPT !.file = file, !.status = status], u)
BY DEF GoodRow, Row, Owned, Past

\* Rows survive every step that leaves them alone.
LEMMA KeptRows ==
    ASSUME RowsGood, Mounting, ServerMonotone, UNCHANGED <<items, stored, account>>
    PROVE  RowsGood'
BY ConstantsAssumption, GoodRowStays, AbsentGood DEF RowsGood, Mounting

\* updateItem leaves good rows on display and in IndexedDB.
LEMMA UpdateRows ==
    ASSUME RowsGood, Mounting, ServerMonotone, UNCHANGED account,
           NEW i \in Ids, NEW row, GoodRow(row, account), Update(i, row)
    PROVE  RowsGood'
<1>1. CASE ~Shown(i)
  BY <1>1, KeptRows DEF Update
<1>2. CASE Shown(i)
  <2>1. account \in Users
    BY <1>2, ConstantsAssumption DEF Mounting, Shown, Absent
  <2>2. row \in Row /\ GoodRow(row, account)' /\ account # NoUser
    BY <2>1, ConstantsAssumption, GoodRowStays DEF GoodRow
  <2>3. GoodRow([row EXCEPT !.file = NoFile], account)'
    BY <2>2 DEF GoodRow, Row, Owned, Past
  <2>4. items' = [items EXCEPT ![i] = row]
    BY <1>2 DEF Update
  <2>5. stored' = [stored EXCEPT ![account][i] = [row EXCEPT !.file = NoFile]]
    BY <1>2 DEF Update
  <2>6. items' \in [Ids -> Row] /\ \A j \in Ids : GoodRow(items[j], account)'
    BY <2>1, <2>2, <2>4, GoodRowStays DEF RowsGood
  <2>7. [row EXCEPT !.file = NoFile] \in Row
    BY <2>2 DEF Row
  <2>8. stored' \in [Users -> [Ids -> Row]]
    BY <2>5, <2>7 DEF RowsGood
  <2>9. \A u \in Users, j \in Ids : GoodRow(stored[u][j], u)'
    BY <2>1, <2>3, <2>5, <2>7, GoodRowStays, ConstantsAssumption DEF RowsGood
  <2> QED
    BY <2>6, <2>8, <2>9 DEF RowsGood
<1> QED
  BY <1>1, <1>2

\* removeItem leaves rows of their account.
LEMMA RemoveRows ==
    ASSUME RowsGood, Mounting, ServerMonotone, UNCHANGED account,
           NEW i \in Ids, Remove(i)
    PROVE  RowsGood'
<1>1. \A j \in Ids : GoodRow(items[j], account)'
  <2>1. \A j \in Ids : items'[j] \in {items[j], Absent}
    BY DEF Remove, RowsGood
  <2>2. \A j \in Ids : GoodRow(items[j], account)
    BY DEF RowsGood
  <2>3. CASE account = NoUser
    BY <2>1, <2>3, AbsentGood DEF Mounting
  <2>4. CASE account \in Users
    <3>1. ASSUME NEW j \in Ids PROVE GoodRow(items[j], account)'
      <4>1. CASE items'[j] = items[j]
        BY <2>2, <2>4, <4>1, GoodRowStays, ConstantsAssumption DEF GoodRow
      <4>2. CASE items'[j] = Absent
        BY <4>2, AbsentGood
      <4> QED
        BY <2>1, <4>1, <4>2
    <3> QED
      BY <3>1
  <2> QED
    BY <2>3, <2>4 DEF Mounting
<1>2. items' \in [Ids -> Row] /\ stored' \in [Users -> [Ids -> Row]]
  BY AbsentGood DEF Remove, RowsGood
<1>3. \A u \in Users, j \in Ids : GoodRow(stored[u][j], u)'
  <2>1. \A u \in Users, j \in Ids : stored'[u][j] \in {stored[u][j], Absent}
    BY DEF Remove, RowsGood
  <2> QED
    BY <2>1, GoodRowStays, AbsentGood, ConstantsAssumption DEF RowsGood
<1> QED
  BY <1>1, <1>2, <1>3 DEF RowsGood

\* A row of u stored for u is a good one.
LEMMA StoreForRows ==
    ASSUME RowsGood, Mounting, ServerMonotone, UNCHANGED account,
           NEW u \in Users, NEW i \in Ids, NEW row, GoodRow(row, u), StoreFor(u, i, row)
    PROVE  RowsGood'
<1>1. row \in Row /\ GoodRow(row, u)'
  BY ConstantsAssumption, GoodRowStays DEF GoodRow
<1>2. [row EXCEPT !.file = NoFile] \in Row /\ GoodRow([row EXCEPT !.file = NoFile], u)'
  BY <1>1 DEF GoodRow, Row, Owned, Past
<1>3. items' \in [Ids -> Row] /\ \A j \in Ids : GoodRow(items[j], account)'
  BY KeptRows, ConstantsAssumption, GoodRowStays, AbsentGood
     DEF StoreFor, RowsGood, Mounting
<1>4. /\ stored' \in [Users -> [Ids -> Row]]
      /\ \A v \in Users, j \in Ids : GoodRow(stored[v][j], v)'
  BY <1>2, GoodRowStays, ConstantsAssumption DEF StoreFor, RowsGood
<1> QED
  BY <1>3, <1>4 DEF RowsGood

\* The message of a retry that failed changes nothing on display.
LEMMA RetryFailsRows ==
    ASSUME RowsGood, CallsGood, NEW i \in Ids, RetryFails(i)
    PROVE  /\ items' = items /\ i \in Ids /\ call["retry"][i].user \in Users
           /\ call["retry"][i].row \in Row
           /\ GoodRow(call["retry"][i].row, call["retry"][i].user)
           /\ call["retry"][i].row.status = "error" \/ call["retry"][i].row.status = "cancelling"
           /\ \/ StoreFor(call["retry"][i].user, i, call["retry"][i].row)
              \/ Update(i, items[i])
<1>1. /\ call["retry"][i].user \in Users
      /\ GoodRow(call["retry"][i].row, call["retry"][i].user)
      /\ call["retry"][i].row.status = "error" \/ call["retry"][i].row.status = "cancelling"
  BY DEF RetryFails, CallsGood, GoodCall
<1>2. \/ StoreFor(call["retry"][i].user, i, call["retry"][i].row)
      \/ Update(i, items[i])
  BY DEF RetryFails
<1>3. items' = items
  BY <1>2 DEF StoreFor, Update, RowsGood
<1> QED
  BY <1>1, <1>2, <1>3 DEF GoodRow

\* What an invocation between two awaits is known to hold.
LEMMA RunFacts ==
    ASSUME RowsGood, RunsGood, Working, SameSession, NEW r \in Slots, run[r].pc # "idle"
    PROVE  /\ run[r].id \in Ids /\ run[r].user \in Users
           /\ run[r].row \in Row /\ GoodRow(run[r].row, run[r].user)
           /\ run[r].row.file \in Contents \cup {NoFile}
           /\ items[run[r].id] \in Row /\ GoodRow(items[run[r].id], account)
           /\ ~run[r].aborted \/ ~run[r].stale => r = active
           /\ r = active /\ Shown(run[r].id) =>
                 items[run[r].id].sess =
                     IF run[r].pc \in CreatingPC THEN NoSession ELSE run[r].sess
<1>1. run[r].id \in Ids /\ run[r].user \in Users /\ GoodRow(run[r].row, run[r].user)
  BY DEF RunsGood, GoodRun
<1>2. run[r].row \in Row /\ run[r].row.file \in Contents \cup {NoFile}
  BY <1>1 DEF GoodRow, Row
<1>3. items[run[r].id] \in Row /\ GoodRow(items[run[r].id], account)
  BY <1>1 DEF RowsGood
<1>4. ~run[r].aborted \/ ~run[r].stale => r = active
  BY DEF Working
<1>5. r = active => active # NoSlot
  BY ConstantsAssumption
<1> QED
  BY <1>1, <1>2, <1>3, <1>4, <1>5 DEF SameSession

\* The rows that the invocation r writes or removes are of its account.
LEMMA WriteRows ==
    ASSUME RowsGood, RunsGood, Mounting, ServerMonotone, UNCHANGED account,
           NEW r \in Slots, run[r].pc # "idle",
           NEW row, GoodRow(row, run[r].user), Write(r, row)
    PROVE  RowsGood'
BY UpdateRows, StoreForRows DEF Write, RunsGood, GoodRun

\* The row of an invocation may go, wherever it is.
LEMMA EraseRows ==
    ASSUME RowsGood, RunsGood, Mounting, ServerMonotone, UNCHANGED account,
           NEW r \in Slots, run[r].pc # "idle", Erase(r)
    PROVE  RowsGood'
BY RemoveRows, StoreForRows, AbsentGood DEF Erase, RunsGood, GoodRun

\* Every step keeps the rows of an account its own, and truthful about processing.
LEMMA RowsStep ==
    ASSUME ServerGood, RowsGood, RunsGood, CallsGood, RestoreGood, PollGood, Mounting,
           Working, SameSession, Unused, ServerMonotone, Next
    PROVE  RowsGood'
<1>1. ASSUME NEW u \in Users, SignIn(u) PROVE RowsGood'
  BY <1>1, GoodRowStays, AbsentGood, ConstantsAssumption DEF SignIn, RowsGood, Mounting
<1>2. CASE Restored
  <2> DEFINE listed == {s \in Sessions : restore.remote[s] # "none"}
  <2>1. /\ account \in Users /\ UNCHANGED <<account, srv>>
    BY <1>2, ConstantsAssumption DEF Restored, Mounting
  <2>2. ASSUME NEW s \in listed PROVE GoodRow(FromServer(s), account)
    <3>1. restore.remote[s] \in Listed /\ srv[s].content \in Contents \cup {NoFile}
      BY RestoreGood DEF RestoreGood, ServerGood, ServerRows
    <3> QED
      BY <3>1
      DEF FromServer, GoodRow, Row, Owned, RestoreGood, ServerUploadStatus, Statuses,
          Listed
  <2>3. ASSUME NEW i \in Ids PROVE GoodRow(Restorable(i), account)
    <3>1. restore.local[i] \in Row /\ GoodRow(restore.local[i], account)
      BY DEF RestoreGood, Restores
    <3> QED
      BY <3>1, AbsentGood DEF Restorable, GoodRow, Row, Owned, Statuses
  <2>4. PICK row \in [listed -> Ids] :
            items' = [i \in Ids |-> IF \E s \in listed : row[s] = i
                                    THEN FromServer(CHOOSE s \in listed : row[s] = i)
                                    ELSE Restorable(i)]
    BY <1>2 DEF Restored
  <2>5. \A i \in Ids : GoodRow(items'[i], account)
    BY <2>2, <2>3, <2>4
  <2>6. items' \in [Ids -> Row]
    BY <2>4, <2>5 DEF GoodRow
  <2>7. \A i \in Ids : GoodRow(items[i], account)'
    BY <2>1, <2>5 DEF GoodRow, Owned, Past
  <2>8. stored' = [stored EXCEPT ![account] = [i \in Ids |-> IF i \in StaleRows THEN Absent ELSE @[i]]]
    BY <1>2 DEF Restored
  <2>9. stored' \in [Users -> [Ids -> Row]]
    BY <2>8, AbsentGood DEF RowsGood
  <2>10. \A u \in Users, i \in Ids : stored'[u][i] \in {stored[u][i], Absent}
    BY <2>8 DEF RowsGood
  <2>11. \A u \in Users, i \in Ids : GoodRow(stored[u][i], u)'
    BY <2>10, AbsentGood, GoodRowStays, ConstantsAssumption DEF RowsGood
  <2> QED
    BY <2>6, <2>7, <2>9, <2>11 DEF RowsGood
<1>3. CASE SignOut
  BY <1>3, GoodRowStays, AbsentGood, ConstantsAssumption
     DEF SignOut, Unmounted, RowsGood
<1>4. CASE Reload
  BY <1>4, GoodRowStays, AbsentGood, ConstantsAssumption
     DEF Reload, Unmounted, RowsGood
<1>5. CASE PollAnswered
  <2>1. poll.id \in Ids /\ poll.ans \in PollAnswers /\ Past(poll.sess) /\ poll.ans # "none"
    BY <1>5 DEF PollAnswered, PollGood, Polls
  <2>2. CASE poll.ans \in {"ready", "cancelled", "gone"}
    BY <1>5, <2>1, <2>2, RemoveRows DEF PollAnswered, mountVars
  <2>3. CASE poll.ans \notin {"ready", "cancelled", "gone"}
    <3>1. Shown(poll.id) => items[poll.id].sess = poll.sess
      BY <1>5 DEF PollAnswered, SameSession
    <3> QED
      BY ZenonT(60), <1>5, <2>1, <2>3, <3>1, EditRow, UpdateRows, KeptRows
         DEF PollAnswered, PollAnswers, RowsGood, Update, Statuses, mountVars
  <2> QED
    BY <2>2, <2>3
<1>6. ASSUME NEW i \in NewIds, NEW file \in Contents \cup {NoFile}, AddFile(i, file)
      PROVE  RowsGood'
  <2> DEFINE row == [Absent EXCEPT !.file = file,
                        !.status = IF file = NoFile THEN "error" ELSE "queued"]
  <2>1. row \in Row /\ [row EXCEPT !.file = NoFile] \in Row
    BY DEF Absent, Row, Statuses
  <2>2. \A u : GoodRow(row, u)' /\ GoodRow([row EXCEPT !.file = NoFile], u)'
    BY <2>1 DEF Absent, GoodRow, Owned
  <2>3. i \in Ids /\ account \in Users /\ UNCHANGED account
    BY <1>6, ConstantsAssumption DEF AddFile, Mounting, Ids
  <2>4. items' = [items EXCEPT ![i] = row]
    BY <1>6 DEF AddFile
  <2>5. stored' = [stored EXCEPT ![account][i] = [row EXCEPT !.file = NoFile]]
    BY <1>6 DEF AddFile
  <2>6. items' \in [Ids -> Row] /\ \A j \in Ids : GoodRow(items[j], account)'
    BY <2>1, <2>2, <2>3, <2>4, GoodRowStays, ConstantsAssumption DEF RowsGood
  <2>7. stored' \in [Users -> [Ids -> Row]]
    BY <2>1, <2>5 DEF RowsGood
  <2>8. \A u \in Users, j \in Ids : GoodRow(stored[u][j], u)'
    BY <2>1, <2>2, <2>3, <2>5, GoodRowStays, ConstantsAssumption DEF RowsGood
  <2> QED
    BY <2>6, <2>7, <2>8 DEF RowsGood
<1>7. ASSUME NEW r \in Slots, NEW i \in Ids, Start(r, i) PROVE RowsGood'
  BY <1>7, UpdateRows, EditRow DEF Start, RowsGood, Statuses, mountVars
<1>8. ASSUME NEW i \in Ids, Button(i) PROVE RowsGood'
  <2>1. CASE Pause(i)
    BY <2>1, UpdateRows, EditRow DEF Pause, RowsGood, Statuses, mountVars
  <2>2. CASE CancelLocal(i)
    BY <2>2, UpdateRows, RemoveRows, EditRow DEF CancelLocal, RowsGood, Statuses
  <2>3. CASE CancelSend(i)
    BY <2>3, UpdateRows, EditRow DEF CancelSend, RowsGood, Statuses, mountVars
  <2>4. CASE RetryLocal(i)
    BY <2>4, UpdateRows, EditRow DEF RetryLocal, RowsGood, Statuses, mountVars
  <2>5. CASE Dismiss(i)
    BY <2>5, RemoveRows DEF Dismiss, mountVars
  <2>6. CASE \E file \in Contents \cup {NoFile} : Reselect(i, file)
    BY <2>6, UpdateRows, EditRow DEF Reselect, RowsGood, Statuses, mountVars
  <2>7. CASE \/ RetrySend(i)
    BY <2>7, KeptRows DEF RetrySend, mountVars
  <2> QED
    BY <1>8, <2>1, <2>2, <2>3, <2>4, <2>5, <2>6, <2>7 DEF Button
<1>9. ASSUME NEW i \in Ids, CallStep(i) PROVE RowsGood'
  <2>1. CASE CancelSucceeds(i)
    BY <2>1, RemoveRows, StoreForRows, AbsentGood
       DEF CancelSucceeds, CallsGood, GoodCall, mountVars
  <2>2. CASE CancelFails(i)
    <3>1. call["cancel"][i].user \in Users /\ GoodRow(call["cancel"][i].row, call["cancel"][i].user)
      BY <2>2 DEF CancelFails, CallsGood, GoodCall
    <3>2. call["cancel"][i].row \in Row /\ call["cancel"][i].row.file \in Contents \cup {NoFile}
      BY <3>1 DEF GoodRow, Row
    <3>3. CASE call["cancel"][i].stale
      BY <2>2, <3>1, <3>2, <3>3, StoreForRows, EditRow, ZenonT(60) DEF CancelFails, Statuses
    <3>4. CASE ~call["cancel"][i].stale
      BY <2>2, <3>2, <3>4, UpdateRows, EditRow DEF CancelFails, Statuses, RowsGood
    <3> QED
      BY <3>3, <3>4
  <2>3. CASE RetryAnswered(i)
    <3> DEFINE c == call["retry"][i]
    <3>1. c.user \in Users /\ GoodRow(c.row, c.user) /\ c.row \in Row /\ Past(c.row.sess)
      BY <2>3 DEF RetryAnswered, CallsGood, GoodCall, GoodRow
    <3>2. CASE c.stale
      BY <2>3, <3>1, <3>2, StoreForRows, EditRow, ZenonT(60)
      DEF RetryAnswered, Statuses, mountVars
    <3>3. CASE ~c.stale /\ Shown(i)
      <4>1. items[i].sess = c.row.sess
        BY <2>3, <3>3 DEF RetryAnswered, SameSession, Pending
      <4> QED
        BY <2>3, <3>1, <3>3, <4>1, UpdateRows, EditRow
           DEF RetryAnswered, Statuses, RowsGood, mountVars
    <3>4. CASE ~c.stale /\ ~Shown(i)
      BY <2>3, <3>4, KeptRows DEF RetryAnswered, Update, mountVars
    <3> QED
      BY <3>2, <3>3, <3>4
  <2>4. CASE \/ CancelArrives(i) \/ RetryArrives(i)
    BY <2>4, KeptRows DEF CancelArrives, RetryArrives, mountVars
  <2>5. CASE RetryFails(i)
    <3>1. UNCHANGED account /\ GoodRow(items[i], account)
      BY <2>5 DEF RetryFails, RowsGood, mountVars
    <3>2. CASE StoreFor(call["retry"][i].user, i, call["retry"][i].row)
      BY <2>5, <3>1, <3>2, RetryFailsRows, StoreForRows
    <3>3. CASE Update(i, items[i])
      BY <3>1, <3>3, UpdateRows
    <3> QED
      BY <2>5, <3>2, <3>3, RetryFailsRows
  <2> QED
    BY <1>9, <2>1, <2>2, <2>3, <2>4, <2>5 DEF CallStep
<1>10. ASSUME NEW r \in Slots, RunStep(r) PROVE RowsGood'
  <2>1. CASE HashDiffers(r)
    BY <2>1, RunFacts, UpdateRows, EditRow, KeptRows
       DEF HashDiffers, Statuses, At, mountVars
  <2>2. CASE Hashed(r)
    BY ZenonT(60), <2>2, RunFacts, UpdateRows, EditRow, KeptRows
       DEF Hashed, Statuses, At, mountVars
  <2>3. CASE GetResumes(r)
    BY <2>3, RunFacts, UpdateRows, EditRow, KeptRows
       DEF GetResumes, Statuses, At, mountVars
  <2>4. CASE GetSettles(r)
    <3>1. run[r].pc = "get" /\ r = active /\ run[r].id \in Ids /\ run[r].sess \in Sessions
      BY <2>4, RunFacts DEF GetSettles, At, RunsGood, GoodRun
    <3>2. CASE srv[run[r].sess].status \in {"ready", "cancelled"}
      BY <2>4, <3>1, <3>2, RemoveRows DEF GetSettles, mountVars
    <3>3. CASE srv[run[r].sess].status \in {"processing", "error"} /\ Shown(run[r].id)
      <4>1. items[run[r].id].sess = run[r].sess
        BY <3>1, <3>3, RunFacts DEF CreatingPC
      <4>2. Past(items[run[r].id].sess)
        BY <3>1, <3>3, <4>1 DEF Past
      <4> DEFINE row == [items[run[r].id] EXCEPT !.status = srv[run[r].sess].status,
                                                !.file = NoFile]
      <4>3. GoodRow(row, account)
        BY <3>1, <3>3, <4>2, RunFacts, ZenonT(60) DEF GoodRow, Row, Statuses, Owned
      <4>4. Update(run[r].id, row) /\ UNCHANGED account
        BY <2>4, <3>3 DEF GetSettles, mountVars
      <4> QED
        BY <3>1, <4>3, <4>4, UpdateRows
    <3>4. CASE ~Shown(run[r].id) /\ srv[run[r].sess].status \in {"processing", "error"}
      BY <2>4, <3>4, KeptRows DEF GetSettles, Update, mountVars
    <3> QED
      BY <2>4, <3>2, <3>3, <3>4 DEF GetSettles
  <2>5. CASE Duplicate(r)
    BY ZenonT(60), <2>5, WriteRows, EraseRows, EditRow
       DEF Duplicate, RunsGood, GoodRun, GoodRow, Statuses, At, mountVars
  <2>6. CASE Created(r)
    <3>1. /\ run[r].pc = "created" /\ run[r].id \in Ids /\ run[r].user \in Users
          /\ run[r].sess \in Sessions /\ Owned(run[r].sess, run[r].user)
          /\ ~run[r].stale => run[r].user = account
      BY <2>6 DEF Created, At, RunsGood, GoodRun
    <3>2. CASE run[r].stale
      <4> DEFINE row == [run[r].row EXCEPT !.status = "paused", !.sess = run[r].sess,
                                           !.hash = run[r].row.file]
      <4>1. GoodRow(row, run[r].user)
        BY <3>1, RunFacts, ZenonT(60) DEF GoodRow, Row, Statuses, Owned
      <4> QED
        BY <2>6, <3>1, <3>2, <4>1, StoreForRows DEF Created, mountVars
    <3>3. CASE ~run[r].stale
      <4> DEFINE i == run[r].id
                 row == [items[i] EXCEPT !.sess = run[r].sess,
                            !.status = IF run[r].aborted THEN @ ELSE "uploading"]
      <4>1. items[i].status = "processing" => Past(items[i].sess)
        BY <3>1, RunFacts, ZenonT(60) DEF GoodRow
      <4>2. Shown(i) => items[i].sess = NoSession
        BY <3>1, <3>3, RunFacts DEF CreatingPC
      <4>3. Shown(i) => items[i].status # "processing"
        BY <4>1, <4>2, ConstantsAssumption DEF Past
      <4>4. Shown(i) => GoodRow(row, account)
        BY <3>1, <3>3, <4>3, RunFacts, ZenonT(60) DEF GoodRow, Row, Statuses, Owned
      <4>5. Update(i, row)
        BY <2>6, <3>3 DEF Created
      <4> QED
        BY <2>6, <3>1, <4>4, <4>5, UpdateRows, KeptRows DEF Created, Update, mountVars
    <3> QED
      BY <3>2, <3>3
  <2>7. CASE DropSucceeds(r)
    BY <2>7, EraseRows DEF DropSucceeds, At, mountVars
  <2>8. CASE DropFails(r)
    <3> DEFINE row == [run[r].row EXCEPT !.status = "error", !.sess = run[r].sess,
                                         !.hash = run[r].row.file]
    <3>1. /\ run[r].pc = "drop" /\ run[r].sess \in Sessions /\ Owned(run[r].sess, run[r].user)
      BY <2>8 DEF DropFails, At, RunsGood, GoodRun
    <3>2. GoodRow(row, run[r].user)
      BY <3>1, RunFacts, ZenonT(60) DEF GoodRow, Row, Statuses, Owned
    <3> QED
      BY <2>8, <3>1, <3>2, WriteRows DEF DropFails
  <2>9. CASE Completed(r)
    <3>1. /\ run[r].pc = "completed" /\ r = active /\ run[r].id \in Ids
          /\ run[r].ans \in {"processing", "ready"} /\ Past(run[r].sess)
      BY <2>9, RunFacts DEF Completed, At, RunsGood, GoodRun
    <3>2. CASE run[r].ans = "ready"
      BY <2>9, <3>1, <3>2, RemoveRows DEF Completed, mountVars
    <3>3. CASE run[r].ans = "processing" /\ Shown(run[r].id)
      <4>1. items[run[r].id].sess = run[r].sess
        BY <3>1, <3>3, RunFacts DEF CreatingPC
      <4> DEFINE row == [items[run[r].id] EXCEPT !.status = run[r].ans, !.file = NoFile]
      <4>2. GoodRow(row, account)
        <5>1. /\ items[run[r].id] \in Row /\ GoodRow(items[run[r].id], account)
              /\ Past(items[run[r].id].sess)
          BY <3>1, <4>1, RunFacts
        <5> QED
          BY <3>3, <5>1, EditRow DEF Statuses
      <4>3. Update(run[r].id, row) /\ UNCHANGED account
        BY <2>9, <3>3 DEF Completed, mountVars
      <4> QED
        BY <3>1, <4>2, <4>3, UpdateRows
    <3>4. CASE run[r].ans = "processing" /\ ~Shown(run[r].id)
      BY <2>9, <3>4, KeptRows DEF Completed, Update, mountVars
    <3> QED
      BY <3>1, <3>2, <3>3, <3>4
  <2>10. CASE Fails(r)
    BY <2>10, RunFacts, UpdateRows, EditRow, KeptRows
       DEF Fails, Statuses, At, mountVars
  <2>11. CASE \/ (\E s \in Sessions : CreateArrives(r, s)) \/ CreateRefused(r)
              \/ CreatedCancelled(r) \/ PartsDone(r) \/ CompleteArrives(r)
              \/ CompleteIgnored(r) \/ Unwinds(r)
    BY <2>11, KeptRows
       DEF CreateArrives, CreateRefused, CreatedCancelled, PartsDone, CompleteArrives,
          CompleteIgnored, Unwinds, mountVars
  <2> QED
    BY <1>10, <2>1, <2>2, <2>3, <2>4, <2>5, <2>6, <2>7, <2>8, <2>9, <2>10, <2>11
       DEF RunStep
<1>11. CASE \/ RestoreLocal \/ RestoreRemote \/ RestoreFails \/ PollFails
            \/ (\E i \in Ids : PollArrives(i)) \/ (\E s \in Sessions : ServerMoves(s))
  BY <1>11, KeptRows
     DEF RestoreLocal, RestoreRemote, RestoreFails, PollFails, PollArrives, ServerMoves,
        mountVars
<1> QED
  BY <1>1, <1>2, <1>3, <1>4, <1>5, <1>6, <1>7, <1>8, <1>9, <1>10, <1>11 DEF Next

---------------------------------------------------------------------------
(* Invocations of processOne *)

\* An invocation keeps its facts while its fields and the account stay.
LEMMA GoodRunStays ==
    ASSUME ServerMonotone, UNCHANGED account
    PROVE  \A inv \in Invocations : GoodRun(inv) => GoodRun(inv)'
<1> SUFFICES ASSUME NEW inv \in Invocations, GoodRun(inv), inv.pc # "idle" PROVE GoodRun(inv)'
  BY DEF GoodRun
<1>1. inv.user \in Users /\ inv.user # NoUser /\ GoodRow(inv.row, inv.user)'
  BY ConstantsAssumption, GoodRowStays DEF GoodRun
<1>2. Owned(inv.sess, inv.user)' /\ (Past(inv.sess) => Past(inv.sess)')
  BY <1>1 DEF GoodRun, Owned, ServerMonotone, Past, Invocations
<1> QED
  BY <1>1, <1>2 DEF GoodRun

\* Invocations survive every step that leaves them alone.
LEMMA KeptRuns ==
    ASSUME RunsGood, ServerMonotone, UNCHANGED <<run, account>>
    PROVE  RunsGood'
BY GoodRunStays DEF RunsGood

\* A free slot claims nothing.
LEMMA IdleGood ==
    /\ Idle \in Invocations /\ Idle.pc = "idle"
    /\ GoodRun(Idle) /\ GoodRun(Idle)'
BY AbsentGood DEF Idle, Invocations, RunPC, ServerStatuses, GoodRun

\* One invocation changes.
LEMMA ChangedRun ==
    ASSUME RunsGood, ServerMonotone, UNCHANGED account,
           NEW r \in Slots, NEW inv \in Invocations, GoodRun(inv)',
           run' = [run EXCEPT ![r] = inv]
    PROVE  RunsGood'
BY GoodRunStays DEF RunsGood

\* The finally block frees the slot.
LEMMA FinishRuns ==
    ASSUME RunsGood, ServerMonotone, UNCHANGED account, NEW r \in Slots, Finish(r)
    PROVE  RunsGood'
BY IdleGood, ChangedRun DEF Finish

\* An abort changes nothing but the flag.
LEMMA AbortRuns ==
    ASSUME RunsGood, ServerMonotone, UNCHANGED account, NEW r \in Slots, Abort(r)
    PROVE  RunsGood'
<1> PICK inv : inv = [run[r] EXCEPT !.aborted = TRUE]
  OBVIOUS
<1>1. inv \in Invocations /\ GoodRun(inv)
  BY DEF RunsGood, GoodRun, Invocations
<1> QED
  BY <1>1, ChangedRun, GoodRunStays DEF Abort

\* An invocation goes on with the same row and session.
LEMMA GotoRuns ==
    ASSUME RunsGood, ServerMonotone, UNCHANGED account,
           NEW r \in Slots, run[r].pc # "idle", NEW pc \in RunPC \ {"hash", "completed"},
           pc \in {"get", "created", "drop", "parts", "complete"} => run[r].sess \in Sessions,
           pc \in CreatingPC => run[r].row.sess = NoSession,
           Goto(r, pc)
    PROVE  RunsGood'
<1> PICK inv : inv = [run[r] EXCEPT !.pc = pc]
  OBVIOUS
<1>1. run[r] \in Invocations /\ GoodRun(run[r])
  BY DEF RunsGood
<1>2. inv \in Invocations /\ inv.pc = pc
  BY <1>1 DEF Invocations
<1>3. GoodRun(inv)
  BY <1>1, <1>2 DEF GoodRun, Invocations
<1> QED
  BY <1>2, <1>3, ChangedRun, GoodRunStays DEF Goto

\* Every step keeps what the invocations know true.
LEMMA RunsStep ==
    ASSUME ServerGood, RowsGood, RunsGood, CallsGood, RestoreGood, PollGood, Mounting,
           Working, SameSession, Unused, ServerMonotone, Next
    PROVE  RunsGood'
<1>1. ASSUME NEW u \in Users, SignIn(u) PROVE RunsGood'
  <2>1. account = NoUser /\ ~ready /\ UNCHANGED run
    BY <1>1 DEF SignIn, Mounting
  <2>2. \A r \in Slots : run[r].pc # "idle" => run[r].stale
    BY <2>1, ConstantsAssumption DEF Mounting, Working
  <2>3. \A r \in Slots : GoodRun(run[r])'
    <3> TAKE r \in Slots
    <3> SUFFICES ASSUME run[r].pc # "idle" PROVE GoodRun(run[r])'
      BY <2>1 DEF GoodRun
    <3>1. run[r].stale /\ GoodRun(run[r])
      BY <2>2 DEF RunsGood
    <3>2. run[r].user \in Users /\ run[r].user # NoUser /\ GoodRow(run[r].row, run[r].user)
      BY <3>1, ConstantsAssumption DEF GoodRun
    <3> QED
      BY <1>1, <2>1, <3>1, <3>2 DEF GoodRun, SignIn, GoodRow, Owned, Past
  <2> QED
    BY <2>1, <2>3 DEF RunsGood
<1>2. CASE SignOut
  <2> DEFINE left(r) == [run[r] EXCEPT !.aborted = TRUE, !.stale = TRUE, !.flag = Flagged(r)]
  <2>1. /\ run' = [r \in Slots |-> IF run[r].pc = "idle" THEN run[r] ELSE left(r)]
        /\ UNCHANGED srv
    BY <1>2 DEF SignOut, Unmounted
  <2>2. ASSUME NEW r \in Slots PROVE run'[r] \in Invocations /\ GoodRun(run'[r])
    <3>1. run[r] \in Invocations /\ GoodRun(run[r])
      BY DEF RunsGood
    <3>4. Flagged(r) \in BOOLEAN
      <4>1. CASE run[r].stale
        BY <3>1, <4>1 DEF Flagged, Invocations
      <4>2. CASE ~run[r].stale
        BY <4>2 DEF Flagged
      <4> QED
        BY <4>1, <4>2
    <3>2. CASE run[r].pc = "idle"
      BY <2>1, <3>1, <3>2
    <3>3. CASE run[r].pc # "idle"
      <4>1. left(r) \in Invocations /\ run'[r] = left(r)
        BY <2>1, <3>1, <3>3, <3>4 DEF Invocations
      <4>2. GoodRun(left(r))
        BY <3>1, <3>3 DEF GoodRun, Invocations
      <4> QED
        BY <4>1, <4>2
    <3> QED
      BY <3>2, <3>3
  <2>3. \A r \in Slots : run'[r].pc # "idle" => run'[r].stale
    BY <2>1 DEF RunsGood, Invocations
  <2>4. \A r \in Slots : GoodRun(run[r])'
    BY <2>1, <2>2, <2>3, ZenonT(60) DEF GoodRun, GoodRow, Owned, Past
  <2> QED
    BY <2>1, <2>2, <2>4 DEF RunsGood
<1>3. CASE Reload
  BY <1>3, IdleGood DEF Reload, RunsGood, GoodRun
<1>4. ASSUME NEW r \in Slots, NEW i \in Ids, Start(r, i) PROVE RunsGood'
  <2> PICK inv : inv = [Idle EXCEPT !.pc = "hash", !.id = i, !.user = account,
                                    !.row = items[i], !.sess = items[i].sess]
    OBVIOUS
  <2>1. account \in Users
    BY <1>4, ConstantsAssumption DEF Start, Mounting
  <2>2. items[i] \in Row /\ GoodRow(items[i], account) /\ items[i].sess \in Sessions \cup {NoSession}
    BY DEF RowsGood, Row
  <2>3. inv \in Invocations
    BY <2>1, <2>2 DEF Idle, Invocations, RunPC, ServerStatuses
  <2>4. GoodRun(inv)
    BY <2>1, <2>2 DEF GoodRun, Idle, CreatingPC, GoodRow
  <2> QED
    BY <1>4, <2>3, <2>4, ChangedRun, GoodRunStays DEF Start, mountVars
<1>5. ASSUME NEW i \in Ids, Button(i) PROVE RunsGood'
  <2>1. CASE Pause(i)
    BY <2>1, KeptRuns, AbortRuns DEF Pause, Works, Mounting, mountVars
  <2>2. CASE CancelLocal(i)
    BY <2>2, KeptRuns, AbortRuns DEF CancelLocal, Works, Mounting, mountVars
  <2>3. CASE CancelSend(i)
    BY <2>3, KeptRuns, AbortRuns DEF CancelSend, Works, Mounting, mountVars
  <2>4. CASE \/ RetryLocal(i) \/ RetrySend(i) \/ Dismiss(i)
             \/ (\E file \in Contents \cup {NoFile} : Reselect(i, file))
    BY <2>4, KeptRuns DEF RetryLocal, RetrySend, Dismiss, Reselect, mountVars
  <2> QED
    BY <1>5, <2>1, <2>2, <2>3, <2>4 DEF Button
<1>6. ASSUME NEW i \in Ids, CallStep(i) PROVE RunsGood'
  BY <1>6, KeptRuns
     DEF CallStep, CancelArrives, CancelSucceeds, CancelFails, RetryArrives,
        RetryAnswered, RetryFails, mountVars
<1>7. ASSUME NEW r \in Slots, RunStep(r) PROVE RunsGood'
  <2>1. CASE HashDiffers(r)
    BY <2>1, FinishRuns DEF HashDiffers, mountVars
  <2>2. CASE Hashed(r)
    <3>1. /\ run[r].pc = "hash" /\ run[r].row.sess = run[r].sess
          /\ run[r].sess \in Sessions \cup {NoSession}
      BY <2>2 DEF Hashed, At, RunsGood, GoodRun, Invocations
    <3> QED
      BY <2>2, <3>1, GotoRuns DEF Hashed, RunPC, CreatingPC, mountVars
  <2>3. CASE GetResumes(r)
    BY <2>3, GotoRuns
       DEF GetResumes, RunsGood, GoodRun, RunPC, CreatingPC, At, mountVars
  <2>4. CASE GetSettles(r)
    BY <2>4, FinishRuns DEF GetSettles, mountVars
  <2>5. CASE \E s \in Sessions : CreateArrives(r, s)
    <3>1. PICK s \in Sessions : CreateArrives(r, s)
      BY <2>5
    <3>2. PICK inv : inv = [run[r] EXCEPT !.pc = "created", !.sess = s]
      OBVIOUS
    <3>3. run[r] \in Invocations /\ GoodRun(run[r]) /\ run[r].pc = "create"
      BY <3>1 DEF CreateArrives, At, RunsGood
    <3>4. /\ inv \in Invocations /\ inv.pc = "created" /\ inv.sess = s
          /\ inv.id = run[r].id /\ inv.user = run[r].user /\ inv.row = run[r].row
          /\ inv.stale = run[r].stale
      BY <3>2, <3>3 DEF Invocations, RunPC
    <3>5. run' = [run EXCEPT ![r] = inv] /\ UNCHANGED account /\ srv'[s].owner = inv.user
      BY <3>1, <3>2, <3>4 DEF CreateArrives, ServerGood, mountVars
    <3>6. GoodRow(inv.row, inv.user)'
      BY <3>3, <3>4, GoodRowStays, ConstantsAssumption DEF GoodRun
    <3>7. GoodRun(inv)'
      BY <3>3, <3>4, <3>5, <3>6 DEF GoodRun, Owned, CreatingPC
    <3> QED
      BY <3>4, <3>5, <3>7, ChangedRun
  <2>6. CASE CreateRefused(r)
    BY <2>6, GotoRuns
       DEF CreateRefused, RunsGood, GoodRun, RunPC, CreatingPC, At, mountVars
  <2>7. CASE Duplicate(r)
    BY <2>7, FinishRuns DEF Duplicate, mountVars
  <2>8. CASE CreatedCancelled(r)
    BY <2>8, GotoRuns
       DEF CreatedCancelled, RunsGood, GoodRun, RunPC, CreatingPC, At, mountVars
  <2>9. CASE Created(r)
    BY <2>9, GotoRuns, FinishRuns
       DEF Created, RunsGood, GoodRun, RunPC, CreatingPC, At, mountVars
  <2>10. CASE DropSucceeds(r)
    BY <2>10, FinishRuns DEF DropSucceeds, mountVars
  <2>11. CASE DropFails(r)
    BY <2>11, FinishRuns DEF DropFails, mountVars
  <2>12. CASE PartsDone(r)
    BY <2>12, GotoRuns
       DEF PartsDone, RunsGood, GoodRun, RunPC, CreatingPC, At, mountVars
  <2>13. CASE CompleteArrives(r)
    <3>1. PICK s : s = run[r].sess
      OBVIOUS
    <3>2. PICK inv : inv = [run[r] EXCEPT !.pc = "completed",
                              !.ans = IF srv[s].status = "uploading" THEN "processing"
                                      ELSE srv[s].status]
      OBVIOUS
    <3>3. run[r] \in Invocations /\ GoodRun(run[r]) /\ run[r].pc = "complete" /\ s \in Sessions
      BY <2>13, <3>1 DEF CompleteArrives, At, RunsGood, GoodRun
    <3>4. /\ inv \in Invocations /\ inv.pc = "completed" /\ inv.sess = s
          /\ inv.id = run[r].id /\ inv.user = run[r].user /\ inv.row = run[r].row
          /\ inv.stale = run[r].stale /\ inv.ans \in {"processing", "ready"}
      BY <2>13, <3>1, <3>2, <3>3 DEF CompleteArrives, Invocations, RunPC, ServerStatuses
    <3>5. run' = [run EXCEPT ![r] = inv] /\ UNCHANGED account
      BY <2>13, <3>1, <3>2 DEF CompleteArrives, mountVars
    <3>6. Past(s)'
      BY <2>13, <3>1, <3>3 DEF CompleteArrives, SetServer, Past, ServerGood, ServerRows
    <3>7. GoodRow(inv.row, inv.user)' /\ Owned(s, inv.user)'
      BY <3>1, <3>3, <3>4, GoodRowStays, ConstantsAssumption
      DEF GoodRun, Owned, ServerMonotone
    <3>8. GoodRun(inv)'
      BY <3>3, <3>4, <3>5, <3>6, <3>7 DEF GoodRun, CreatingPC
    <3> QED
      BY <3>4, <3>5, <3>8, ChangedRun
  <2>14. CASE CompleteIgnored(r)
    BY <2>14, FinishRuns DEF CompleteIgnored, mountVars
  <2>15. CASE Completed(r)
    BY <2>15, FinishRuns DEF Completed, mountVars
  <2>16. CASE Unwinds(r)
    BY <2>16, FinishRuns DEF Unwinds, mountVars
  <2>17. CASE Fails(r)
    BY <2>17, FinishRuns DEF Fails, mountVars
  <2> QED
    BY <1>7, <2>1, <2>2, <2>3, <2>4, <2>5, <2>6, <2>7, <2>8, <2>9, <2>10, <2>11, <2>12,
       <2>13, <2>14, <2>15, <2>16, <2>17
       DEF RunStep
<1>8. CASE \/ RestoreLocal \/ RestoreRemote \/ Restored \/ RestoreFails \/ PollAnswered
           \/ PollFails
           \/ (\E i \in NewIds, file \in Contents \cup {NoFile} : AddFile(i, file))
           \/ (\E i \in Ids : PollArrives(i)) \/ (\E s \in Sessions : ServerMoves(s))
  BY <1>8, KeptRuns
     DEF RestoreLocal, RestoreRemote, Restored, RestoreFails, PollAnswered, PollFails,
        AddFile, PollArrives, ServerMoves, mountVars
<1> QED
  BY <1>1, <1>2, <1>3, <1>4, <1>5, <1>6, <1>7, <1>8 DEF Next

---------------------------------------------------------------------------
(* Requests of the buttons *)

\* What a request claims stays true while the account stays.
LEMMA GoodCallStays ==
    ASSUME ServerMonotone, UNCHANGED account
    PROVE  \A c \in Calls : GoodCall(c) => GoodCall(c)'
<1> SUFFICES ASSUME NEW c \in Calls, GoodCall(c), c.pc # "none" PROVE GoodCall(c)'
  BY DEF GoodCall
<1>1. c.user \in Users /\ c.user # NoUser /\ GoodRow(c.row, c.user)'
  BY ConstantsAssumption, GoodRowStays DEF GoodCall
<1>2. Past(c.row.sess) => Past(c.row.sess)'
  BY DEF ServerMonotone, Past
<1> QED
  BY <1>1, <1>2 DEF GoodCall

\* Requests survive every step that leaves them alone.
LEMMA KeptCalls ==
    ASSUME CallsGood, ServerMonotone, UNCHANGED <<call, account>>
    PROVE  CallsGood'
BY GoodCallStays DEF CallsGood

\* No request claims nothing.
LEMMA NoCallGood ==
    NoCall \in Calls /\ NoCall.pc = "none" /\ GoodCall(NoCall) /\ GoodCall(NoCall)'
BY AbsentGood DEF NoCall, Calls, CallPC, CallAnswers, GoodCall

\* One request changes.
LEMMA ChangedCall ==
    ASSUME CallsGood, ServerMonotone, UNCHANGED account,
           NEW op \in {"cancel", "retry"}, NEW i \in Ids,
           NEW c \in Calls, GoodCall(c)', call' = [call EXCEPT ![op][i] = c]
    PROVE  CallsGood'
BY GoodCallStays DEF CallsGood

\* Every step keeps what the requests under way know true.
LEMMA CallsStep ==
    ASSUME ServerGood, RowsGood, RunsGood, CallsGood, RestoreGood, PollGood, Mounting,
           Working, SameSession, Unused, ServerMonotone, Next
    PROVE  CallsGood'
<1>1. ASSUME NEW u \in Users, SignIn(u) PROVE CallsGood'
  <2>1. account = NoUser /\ ~ready /\ UNCHANGED <<call, srv>>
    BY <1>1 DEF SignIn, Mounting
  <2>2. \A op \in {"cancel", "retry"}, i \in Ids : call[op][i].pc # "none" => call[op][i].stale
    BY <2>1 DEF Mounting, Pending
  <2> QED
    BY ZenonT(30), <2>1, <2>2 DEF CallsGood, GoodCall, GoodRow, Owned, Past
<1>2. CASE SignOut
  <2> DEFINE left(op, i) == [call[op][i] EXCEPT !.stale = TRUE]
  <2>1. /\ call' = [op \in {"cancel", "retry"} |-> [i \in Ids |->
                       IF call[op][i].pc = "none" THEN NoCall ELSE left(op, i)]]
        /\ UNCHANGED srv
    BY <1>2 DEF SignOut, Unmounted
  <2>2. ASSUME NEW op \in {"cancel", "retry"}, NEW i \in Ids, call[op][i].pc # "none"
        PROVE  left(op, i) \in Calls /\ GoodCall(left(op, i)) /\ left(op, i).stale
    BY <2>2, ZenonT(60) DEF CallsGood, GoodCall, Calls
  <2>3. ASSUME NEW op \in {"cancel", "retry"}, NEW i \in Ids
        PROVE  call'[op][i] \in Calls /\ GoodCall(call[op][i])'
    <3>1. CASE call[op][i].pc = "none"
      BY <2>1, <3>1, NoCallGood
    <3>2. CASE call[op][i].pc # "none"
      BY <2>1, <2>2, <3>2, ZenonT(60) DEF GoodCall, GoodRow, Owned, Past
    <3> QED
      BY <3>1, <3>2
  <2> QED
    BY <2>1, <2>3 DEF CallsGood
<1>3. CASE Reload
  BY <1>3, NoCallGood DEF Reload, CallsGood
<1>4. ASSUME NEW i \in Ids, Button(i) PROVE CallsGood'
  <2>1. CASE CancelSend(i)
    <3>1. PICK c : c = [NoCall EXCEPT !.pc = "sent", !.user = account,
                          !.row = [items[i] EXCEPT !.status = "cancelling"]]
      OBVIOUS
    <3>2. items[i] \in Row /\ Shown(i) /\ GoodRow(items[i], account) /\ items[i].sess \in Sessions
      BY <2>1 DEF CancelSend, RowsGood, Row, Shown, Cancellable
    <3>3. account \in Users
      BY <3>2, ConstantsAssumption DEF Mounting, Shown, Absent
    <3>4. c \in Calls /\ GoodCall(c)
      BY <3>1, <3>2, <3>3
      DEF NoCall, Calls, GoodCall, CallPC, CallAnswers, GoodRow, Row, Statuses,
                              Owned
    <3> QED
      BY <2>1, <3>1, <3>4, ChangedCall, GoodCallStays DEF CancelSend, mountVars
  <2>2. CASE RetrySend(i)
    <3>1. PICK c : c = [NoCall EXCEPT !.pc = "sent", !.user = account,
                          !.row = items[i]]
      OBVIOUS
    <3>2. items[i] \in Row /\ Shown(i) /\ GoodRow(items[i], account) /\ items[i].sess \in Sessions
      BY <2>2 DEF RetrySend, RowsGood, Row, Shown, Cancellable
    <3>5. items[i].status = "error"
      BY <2>2 DEF RetrySend
    <3>3. account \in Users
      BY <3>2, ConstantsAssumption DEF Mounting, Shown, Absent
    <3>4. c \in Calls /\ GoodCall(c)
      BY <3>1, <3>2, <3>3, <3>5
      DEF NoCall, Calls, GoodCall, CallPC, CallAnswers, GoodRow, Row, Statuses,
                              Owned
    <3> QED
      BY <2>2, <3>1, <3>4, ChangedCall, GoodCallStays DEF RetrySend, mountVars
  <2>3. CASE \/ Pause(i) \/ CancelLocal(i) \/ RetryLocal(i) \/ Dismiss(i)
             \/ (\E file \in Contents \cup {NoFile} : Reselect(i, file))
    BY <2>3, KeptCalls DEF Pause, CancelLocal, RetryLocal, Dismiss, Reselect, mountVars
  <2> QED
    BY <1>4, <2>1, <2>2, <2>3 DEF Button
<1>5. ASSUME NEW i \in Ids, CallStep(i) PROVE CallsGood'
  <2>1. CASE CancelArrives(i)
    <3>1. PICK c : c = [call["cancel"][i] EXCEPT !.pc = "answered",
                          !.ans = IF CancelAnswer(call["cancel"][i].row.sess,
                                                  call["cancel"][i].user) = "refused"
                                  THEN "refused" ELSE "gone"]
      OBVIOUS
    <3>2. call["cancel"][i] \in Calls /\ GoodCall(call["cancel"][i]) /\ call["cancel"][i].pc # "none"
      BY <2>1 DEF CancelArrives, CallsGood
    <3>3. c \in Calls /\ GoodCall(c)
      BY <3>1, <3>2 DEF Calls, GoodCall, CallPC, CallAnswers
    <3>4. call' = [call EXCEPT !["cancel"][i] = c]
      BY <2>1, <3>1 DEF CancelArrives
    <3> QED
      BY <2>1, <3>3, <3>4, ChangedCall, GoodCallStays DEF CancelArrives, mountVars
  <2>2. CASE CancelSucceeds(i)
    BY <2>2, NoCallGood, ChangedCall DEF CancelSucceeds, mountVars
  <2>3. CASE CancelFails(i)
    BY <2>3, NoCallGood, ChangedCall DEF CancelFails, mountVars
  <2>4. CASE RetryArrives(i)
    <3>1. PICK s, u : s = call["retry"][i].row.sess /\ u = call["retry"][i].user
      OBVIOUS
    <3>2. PICK c : c = [call["retry"][i] EXCEPT !.pc = "answered",
                          !.ans = IF srv[s].status = "error" /\ srv[s].owner = u
                                  THEN "processing" ELSE "refused"]
      OBVIOUS
    <3>3. /\ call["retry"][i] \in Calls /\ GoodCall(call["retry"][i])
          /\ call["retry"][i].pc # "none" /\ s \in Sessions
      BY <2>4, <3>1 DEF RetryArrives, CallsGood, GoodCall
    <3>4. /\ c \in Calls /\ c.row = call["retry"][i].row /\ c.user = call["retry"][i].user
          /\ c.stale = call["retry"][i].stale /\ c.row.sess = s
          /\ c.ans = "processing" => srv[s].status = "error" /\ srv[s].owner = u
      BY <3>1, <3>2, <3>3 DEF Calls, CallPC, CallAnswers
    <3>5. c.ans = "processing" => Past(s)
      BY <3>3, <3>4 DEF Past
    <3>6. GoodCall(c)
      BY <3>3, <3>4, <3>5 DEF GoodCall
    <3>7. call' = [call EXCEPT !["retry"][i] = c]
      BY <2>4, <3>1, <3>2 DEF RetryArrives
    <3> QED
      BY <2>4, <3>4, <3>6, <3>7, ChangedCall, GoodCallStays DEF RetryArrives, mountVars
  <2>5. CASE RetryAnswered(i)
    BY <2>5, NoCallGood, ChangedCall DEF RetryAnswered, mountVars
  <2>6. CASE RetryFails(i)
    BY <2>6, NoCallGood, ChangedCall DEF RetryFails, mountVars
  <2> QED
    BY <1>5, <2>1, <2>2, <2>3, <2>4, <2>5, <2>6 DEF CallStep
<1>6. ASSUME NEW r \in Slots, RunStep(r) PROVE CallsGood'
  BY <1>6, KeptCalls
     DEF RunStep, HashDiffers, Hashed, GetResumes, GetSettles, CreateArrives,
        CreateRefused, Duplicate, CreatedCancelled, Created, DropSucceeds, DropFails,
        PartsDone, CompleteArrives, CompleteIgnored, Completed, Unwinds, Fails,
        mountVars
<1>7. CASE \/ RestoreLocal \/ RestoreRemote \/ Restored \/ RestoreFails \/ PollAnswered
           \/ PollFails
           \/ (\E i \in NewIds, file \in Contents \cup {NoFile} : AddFile(i, file))
           \/ (\E i \in Ids : PollArrives(i))
           \/ (\E r \in Slots, i \in Ids : Start(r, i))
           \/ (\E s \in Sessions : ServerMoves(s))
  BY <1>7, KeptCalls
     DEF RestoreLocal, RestoreRemote, Restored, RestoreFails, PollAnswered, PollFails,
        AddFile, PollArrives, Start, ServerMoves, mountVars
<1> QED
  BY <1>1, <1>2, <1>3, <1>4, <1>5, <1>6, <1>7 DEF Next

---------------------------------------------------------------------------
(* The restoration and the poll *)

\* A restoration that has read nothing claims nothing.
LEMMA NotReadGood ==
    ASSUME ServerGood, restore = NotRead
    PROVE  RestoreGood
BY AbsentGood DEF RestoreGood, NotRead, Restores, ServerStatuses

\* What was read stays true, and once it is used nothing of it is left.
LEMMA KeptRestore ==
    ASSUME RestoreGood, ServerGood, ServerGood', Mounting, ServerMonotone,
           UNCHANGED account, UNCHANGED restore \/ restore' = NotRead
    PROVE  RestoreGood'
<1>1. CASE restore' = NotRead
  BY <1>1, AbsentGood DEF RestoreGood, NotRead, Restores, ServerStatuses
<1>2. CASE account = NoUser /\ UNCHANGED restore
  BY <1>1, <1>2 DEF Mounting
<1>3. CASE account # NoUser /\ UNCHANGED restore
  <2>1. \A i \in Ids : GoodRow(restore.local[i], account)'
    BY <1>3, GoodRowStays DEF RestoreGood
  <2>2. \A s \in Sessions : restore.remote[s] # "none" => srv'[s].owner = account'
    BY <1>3 DEF RestoreGood, ServerMonotone
  <2>3. \A s \in Sessions : restore.remote[s] = "processing" => Past(s)'
    BY DEF RestoreGood, ServerMonotone
  <2> QED
    BY <1>3, <2>1, <2>2, <2>3 DEF RestoreGood
<1> QED
  BY <1>1, <1>2, <1>3

\* Every step keeps what the restoration has read true.
LEMMA RestoreStep ==
    ASSUME ServerGood, RowsGood, RunsGood, CallsGood, RestoreGood, PollGood, Mounting,
           Working, SameSession, Unused, ServerMonotone, ServerGood', Next
    PROVE  RestoreGood'
<1>1. ASSUME NEW u \in Users, SignIn(u) PROVE RestoreGood'
  <2>1. restore' = NotRead
    BY <1>1 DEF SignIn, Mounting
  <2> QED
    BY <2>1, AbsentGood DEF RestoreGood, NotRead, Restores, ServerStatuses
<1>2. CASE RestoreLocal
  <2>1. /\ account \in Users /\ UNCHANGED <<account, srv>>
        /\ restore' = [restore EXCEPT !.gotLocal = TRUE, !.local = stored[account]]
    BY <1>2, ConstantsAssumption DEF RestoreLocal, Mounting
  <2>2. stored[account] \in [Ids -> Row] /\ \A i \in Ids : GoodRow(stored[account][i], account)
    BY <2>1 DEF RowsGood
  <2>3. restore' \in Restores /\ restore'.local = stored[account] /\ restore'.remote = restore.remote
    BY <2>1, <2>2 DEF RestoreGood, Restores
  <2> QED
    BY <2>1, <2>2, <2>3 DEF RestoreGood, GoodRow, Owned, Past
<1>3. CASE RestoreRemote
  <2> DEFINE read(s) == IF srv[s].owner = account /\ srv[s].status \in Listed
                        THEN srv[s].status ELSE "none"
  <2>1. /\ UNCHANGED <<account, srv>>
        /\ restore' = [restore EXCEPT !.gotRemote = TRUE, !.remote = [s \in Sessions |-> read(s)]]
    BY <1>3 DEF RestoreRemote
  <2>2. /\ restore' \in Restores /\ restore'.local = restore.local
        /\ restore'.remote = [s \in Sessions |-> read(s)]
    BY <2>1 DEF RestoreGood, Restores, Listed, ServerStatuses
  <2> QED
    BY <2>1, <2>2 DEF RestoreGood, GoodRow, Owned, Past, Listed
<1>4. CASE SignOut
  <2>1. restore' = NotRead
    BY <1>4 DEF SignOut, Unmounted
  <2> QED
    BY <2>1, AbsentGood DEF RestoreGood, NotRead, Restores, ServerStatuses
<1>5. CASE Reload
  BY <1>5, KeptRestore DEF Reload, Unmounted
<1>6. ASSUME NEW i \in Ids, Button(i) PROVE RestoreGood'
  BY <1>6, KeptRestore
     DEF Button, Pause, CancelLocal, CancelSend, RetryLocal, RetrySend, Dismiss,
        Reselect, mountVars
<1>7. ASSUME NEW i \in Ids, CallStep(i) PROVE RestoreGood'
  BY <1>7, KeptRestore
     DEF CallStep, CancelArrives, CancelSucceeds, CancelFails, RetryArrives,
        RetryAnswered, RetryFails, mountVars
<1>8. ASSUME NEW r \in Slots, RunStep(r) PROVE RestoreGood'
  BY <1>8, KeptRestore
     DEF RunStep, HashDiffers, Hashed, GetResumes, GetSettles, CreateArrives,
        CreateRefused, Duplicate, CreatedCancelled, Created, DropSucceeds, DropFails,
        PartsDone, CompleteArrives, CompleteIgnored, Completed, Unwinds, Fails,
        mountVars
<1>9. CASE \/ Restored \/ RestoreFails \/ PollAnswered \/ PollFails
           \/ (\E i \in NewIds, file \in Contents \cup {NoFile} : AddFile(i, file))
           \/ (\E i \in Ids : PollArrives(i))
           \/ (\E r \in Slots, i \in Ids : Start(r, i))
           \/ (\E s \in Sessions : ServerMoves(s))
  BY <1>9, KeptRestore
     DEF Restored, RestoreFails, PollAnswered, PollFails, AddFile, PollArrives, Start,
        ServerMoves, mountVars
<1> QED
  BY <1>1, <1>2, <1>3, <1>4, <1>5, <1>6, <1>7, <1>8, <1>9 DEF Next

\* A poll keeps what it claims, or is given up.
LEMMA KeptPoll ==
    ASSUME PollGood, ServerMonotone, UNCHANGED poll \/ poll' = NoPoll \/ KeepPoll
    PROVE  PollGood'
<1>1. poll' = poll \/ poll' = NoPoll
  BY DEF KeepPoll
<1>2. NoPoll \in Polls
  BY DEF NoPoll, Polls, PollAnswers
<1> QED
  BY <1>1, <1>2 DEF PollGood, ServerMonotone, Past

\* Every step keeps the answer of the poll that is in flight true.
LEMMA PollStep ==
    ASSUME ServerGood, RowsGood, RunsGood, CallsGood, RestoreGood, PollGood, Mounting,
           Working, SameSession, Unused, ServerMonotone, Next
    PROVE  PollGood'
<1>1. CASE SignOut
  BY <1>1, KeptPoll DEF SignOut, Unmounted
<1>2. CASE Reload
  BY <1>2, KeptPoll DEF Reload, Unmounted
<1>3. ASSUME NEW i \in Ids, PollArrives(i) PROVE PollGood'
  <2>1. PICK s : s = items[i].sess
    OBVIOUS
  <2>2. items[i] \in Row /\ GoodRow(items[i], account) /\ items[i].status = "processing"
    BY <1>3 DEF PollArrives, RowsGood
  <2>3. Past(s) /\ srv[s].status \in ServerStatuses /\ UNCHANGED srv
    BY <1>3, <2>1, <2>2 DEF GoodRow, PollArrives, Past, ServerGood, ServerRows
  <2>4. poll' = [id |-> i, sess |-> s, ans |-> IF Alive(s) THEN srv[s].status ELSE "gone"]
    BY <1>3, <2>1 DEF PollArrives
  <2>5. poll' \in Polls /\ poll'.ans # "none" /\ poll'.id = i /\ poll'.sess = s
    BY <2>3, <2>4 DEF Polls, PollAnswers, Past, Alive, ServerStatuses
  <2> QED
    BY <2>3, <2>5 DEF PollGood, Past
<1>4. ASSUME NEW i \in Ids, Button(i) PROVE PollGood'
  BY <1>4, KeptPoll
     DEF Button, Pause, CancelLocal, CancelSend, RetryLocal, RetrySend, Dismiss,
        Reselect, mountVars
<1>5. ASSUME NEW i \in Ids, CallStep(i) PROVE PollGood'
  BY <1>5, KeptPoll
     DEF CallStep, CancelArrives, CancelSucceeds, CancelFails, RetryArrives,
        RetryAnswered, RetryFails, mountVars
<1>6. ASSUME NEW r \in Slots, RunStep(r) PROVE PollGood'
  BY <1>6, KeptPoll
     DEF RunStep, HashDiffers, Hashed, GetResumes, GetSettles, CreateArrives,
        CreateRefused, Duplicate, CreatedCancelled, Created, DropSucceeds, DropFails,
        PartsDone, CompleteArrives, CompleteIgnored, Completed, Unwinds, Fails,
        mountVars
<1>7. CASE \/ (\E u \in Users : SignIn(u)) \/ RestoreLocal \/ RestoreRemote \/ Restored
           \/ RestoreFails \/ PollAnswered \/ PollFails
           \/ (\E i \in NewIds, file \in Contents \cup {NoFile} : AddFile(i, file))
           \/ (\E r \in Slots, i \in Ids : Start(r, i))
           \/ (\E s \in Sessions : ServerMoves(s))
  BY <1>7, KeptPoll
     DEF SignIn, RestoreLocal, RestoreRemote, Restored, RestoreFails, PollAnswered,
        PollFails, AddFile, Start, ServerMoves, mountVars
<1> QED
  BY <1>1, <1>2, <1>3, <1>4, <1>5, <1>6, <1>7 DEF Next

---------------------------------------------------------------------------
(* The one invocation of a mount *)

\* When the invocation that activeRef names ends, activeRef is cleared.
LEMMA FinishWorking ==
    ASSUME RunsGood, Working, NEW r \in Slots, Finish(r)
    PROVE  Working'
BY ConstantsAssumption DEF RunsGood, Working, Finish, Idle

\* An invocation that goes on stays the one that it was.
LEMMA GotoWorking ==
    ASSUME RunsGood, Working, NEW r \in Slots, run[r].pc # "idle", NEW pc, pc # "idle",
           Goto(r, pc), UNCHANGED active
    PROVE  Working'
BY DEF RunsGood, Invocations, Working, Goto

\* An abort does not end an invocation.
LEMMA AbortWorking ==
    ASSUME RunsGood, Working, NEW r \in Slots, Abort(r), UNCHANGED active
    PROVE  Working'
BY DEF RunsGood, Invocations, Working, Abort

\* Nothing changes for the invocations.
LEMMA KeptWorking ==
    ASSUME Working, UNCHANGED <<run, active>>
    PROVE  Working'
BY DEF Working

\* activeRef keeps naming the one invocation that works for this mount.
LEMMA WorkingStep ==
    ASSUME RunsGood, Mounting, Working, Next
    PROVE  Working'
<1>1. CASE SignOut
  BY <1>1, ConstantsAssumption, ZenonT(60)
  DEF SignOut, Unmounted, RunsGood, Invocations, Working
<1>2. CASE Reload
  BY <1>2, ConstantsAssumption DEF Reload, Unmounted, Idle, Working
<1>3. ASSUME NEW r \in Slots, NEW i \in Ids, Start(r, i) PROVE Working'
  BY <1>3, ConstantsAssumption DEF Start, RunsGood, Working, Idle, At
<1>4. ASSUME NEW i \in Ids, Button(i) PROVE Working'
  <2>1. CASE Pause(i)
    BY <2>1, AbortWorking, KeptWorking DEF Pause, Works, Mounting
  <2>2. CASE CancelLocal(i)
    BY <2>2, AbortWorking, KeptWorking DEF CancelLocal, Works, Mounting
  <2>3. CASE CancelSend(i)
    BY <2>3, AbortWorking, KeptWorking DEF CancelSend, Works, Mounting
  <2>4. CASE \/ RetryLocal(i) \/ RetrySend(i) \/ Dismiss(i)
             \/ (\E file \in Contents \cup {NoFile} : Reselect(i, file))
    BY <2>4, KeptWorking DEF RetryLocal, RetrySend, Dismiss, Reselect
  <2> QED
    BY <1>4, <2>1, <2>2, <2>3, <2>4 DEF Button
<1>5. ASSUME NEW i \in Ids, CallStep(i) PROVE Working'
  BY <1>5, KeptWorking
     DEF CallStep, CancelArrives, CancelSucceeds, CancelFails, RetryArrives,
        RetryAnswered, RetryFails
<1>6. ASSUME NEW r \in Slots, RunStep(r) PROVE Working'
  <2>1. CASE HashDiffers(r)
    BY <2>1, FinishWorking DEF HashDiffers
  <2>2. CASE Hashed(r)
    BY <2>2, GotoWorking DEF Hashed, At
  <2>3. CASE GetResumes(r)
    BY <2>3, GotoWorking DEF GetResumes, At
  <2>4. CASE GetSettles(r)
    BY <2>4, FinishWorking DEF GetSettles
  <2>5. CASE \E s \in Sessions : CreateArrives(r, s)
    BY <2>5 DEF CreateArrives, At, RunsGood, Invocations, Working
  <2>6. CASE CreateRefused(r)
    BY <2>6, GotoWorking DEF CreateRefused, At
  <2>7. CASE Duplicate(r)
    BY <2>7, FinishWorking DEF Duplicate
  <2>8. CASE CreatedCancelled(r)
    BY <2>8, GotoWorking DEF CreatedCancelled, At
  <2>9. CASE Created(r)
    BY <2>9, GotoWorking, FinishWorking DEF Created, At
  <2>10. CASE DropSucceeds(r)
    BY <2>10, FinishWorking DEF DropSucceeds
  <2>11. CASE DropFails(r)
    BY <2>11, FinishWorking DEF DropFails
  <2>12. CASE PartsDone(r)
    BY <2>12, GotoWorking DEF PartsDone, At
  <2>13. CASE CompleteArrives(r)
    BY <2>13 DEF CompleteArrives, At, RunsGood, Invocations, Working
  <2>14. CASE CompleteIgnored(r)
    BY <2>14, FinishWorking DEF CompleteIgnored
  <2>15. CASE Completed(r)
    BY <2>15, FinishWorking DEF Completed
  <2>16. CASE Unwinds(r)
    BY <2>16, FinishWorking DEF Unwinds
  <2>17. CASE Fails(r)
    BY <2>17, FinishWorking DEF Fails
  <2> QED
    BY <1>6, <2>1, <2>2, <2>3, <2>4, <2>5, <2>6, <2>7, <2>8, <2>9, <2>10, <2>11, <2>12,
       <2>13, <2>14, <2>15, <2>16, <2>17
       DEF RunStep
<1>7. CASE \/ (\E u \in Users : SignIn(u)) \/ RestoreLocal \/ RestoreRemote \/ Restored
           \/ RestoreFails \/ PollAnswered \/ PollFails
           \/ (\E i \in NewIds, file \in Contents \cup {NoFile} : AddFile(i, file))
           \/ (\E i \in Ids : PollArrives(i)) \/ (\E s \in Sessions : ServerMoves(s))
  BY <1>7, KeptWorking
     DEF SignIn, RestoreLocal, RestoreRemote, Restored, RestoreFails, PollAnswered,
        PollFails, AddFile, PollArrives, ServerMoves
<1> QED
  BY <1>1, <1>2, <1>3, <1>4, <1>5, <1>6, <1>7 DEF Next

---------------------------------------------------------------------------
(* Mounting *)

\* Without a restored queue the steps of earlier mounts change nothing on display.
LEMMA QuietRows ==
    ASSUME RowsGood, Mounting, ~ready, NEW i \in Ids, NEW row,
           Update(i, row) \/ Remove(i)
    PROVE  UNCHANGED items
BY DEF RowsGood, Mounting, Update, Remove, Shown, Absent

\* With a restored queue only the types are left to show.
LEMMA ReadyMounting ==
    ASSUME Mounting, ready, UNCHANGED <<account, ready, unmounts>>, used' \subseteq NewIds,
           cancelled' \subseteq Ids, active' \in Slots \cup {NoSlot}
    PROVE  Mounting'
BY DEF Mounting

\* Steps of earlier mounts start nothing for this one.
LEMMA QuietMounting ==
    ASSUME Mounting, CallsGood, ~ready, UNCHANGED <<mountVars, items, active, poll>>,
           \/ UNCHANGED call
           \/ \E op \in {"cancel", "retry"}, i \in Ids :
                  \/ call' = [call EXCEPT ![op][i] = NoCall]
                  \/ \E c \in Calls : c.stale /\ call' = [call EXCEPT ![op][i] = c]
    PROVE  Mounting'
<1>0. \A o \in {"cancel", "retry"}, j \in Ids : call[o][j].pc # "none" => call[o][j].stale
  BY DEF Mounting, Pending
<1>1. \A o \in {"cancel", "retry"}, j \in Ids : ~Pending(o, j)'
  <2>1. CASE UNCHANGED call
    BY <1>0, <2>1 DEF Pending
  <2>2. CASE \E op \in {"cancel", "retry"}, i \in Ids : call' = [call EXCEPT ![op][i] = NoCall]
    BY <1>0, <2>2 DEF Pending, CallsGood, NoCall
  <2>3. ASSUME NEW op \in {"cancel", "retry"}, NEW i \in Ids, NEW c \in Calls, c.stale,
               call' = [call EXCEPT ![op][i] = c]
        PROVE  \A o \in {"cancel", "retry"}, j \in Ids : ~Pending(o, j)'
    BY <1>0, <2>3 DEF Pending, CallsGood
  <2> QED
    BY <2>1, <2>2, <2>3
<1> QED
  BY <1>1 DEF Mounting, mountVars

\* Without a restored queue nothing is on display to press a button for.
LEMMA ButtonReady ==
    ASSUME Mounting, NEW i \in Ids, Button(i)
    PROVE  ready
<1>1. items[i].status # "absent"
  BY DEF Button, Pause, CancelLocal, CancelSend, RetryLocal, RetrySend, Dismiss, Reselect,
         Cancellable
<1> QED
  BY <1>1 DEF Mounting, Absent

\* Nothing of this mount is under way until the queue is restored.
LEMMA MountingStep ==
    ASSUME RowsGood, RunsGood, CallsGood, PollGood, Mounting, Working, Next
    PROVE  Mounting'
<1>1. ASSUME NEW u \in Users, SignIn(u) PROVE Mounting'
  BY <1>1, ConstantsAssumption DEF SignIn, Mounting, Pending
<1>2. CASE RestoreLocal
  BY <1>2 DEF RestoreLocal, Mounting, Pending
<1>3. CASE RestoreRemote
  BY <1>3 DEF RestoreRemote, Mounting, Pending
<1>4. CASE Restored
  BY <1>4 DEF Restored, Mounting
<1>5. CASE RestoreFails
  BY <1>5 DEF RestoreFails, Mounting
<1>6. CASE SignOut
  <2>1. ASSUME NEW o \in {"cancel", "retry"}, NEW i \in Ids
        PROVE  call'[o][i].pc # "none" => call'[o][i].stale
    <3>1. call'[o][i] = IF call[o][i].pc = "none" THEN NoCall ELSE [call[o][i] EXCEPT !.stale = TRUE]
      BY <1>6 DEF SignOut
    <3>2. call[o][i] \in Calls
      BY DEF CallsGood
    <3> QED
      BY <3>1, <3>2 DEF Calls, NoCall
  <2>2. \A o \in {"cancel", "retry"}, i \in Ids : ~Pending(o, i)'
    BY <2>1 DEF Pending
  <2>3. unmounts' \in 0 .. MaxUnmounts
    <3>1. unmounts < MaxUnmounts /\ unmounts' = unmounts + 1
      BY <1>6 DEF SignOut, Unmounted
    <3> QED
      BY <3>1, ConstantsAssumption DEF Mounting
  <2>4. /\ ready' = FALSE /\ restore' = NotRead /\ cancelled' = {} /\ active' = NoSlot
        /\ items' = [i \in Ids |-> Absent] /\ poll' = NoPoll /\ used' = used
        /\ account' \in {account, NoUser}
    BY <1>6 DEF SignOut, Unmounted
  <2> QED
    BY <2>2, <2>3, <2>4 DEF Mounting
<1>7. CASE Reload
  <2>1. \A o \in {"cancel", "retry"}, i \in Ids : ~Pending(o, i)'
    BY <1>7 DEF Reload, Pending, NoCall
  <2>3. unmounts' \in 0 .. MaxUnmounts
    <3>1. unmounts < MaxUnmounts /\ unmounts' = unmounts + 1
      BY <1>7 DEF Reload, Unmounted
    <3> QED
      BY <3>1, ConstantsAssumption DEF Mounting
  <2>4. /\ ready' = FALSE /\ restore' = NotRead /\ cancelled' = {} /\ active' = NoSlot
        /\ items' = [i \in Ids |-> Absent] /\ poll' = NoPoll /\ used' = used
        /\ account' \in {account, NoUser}
    BY <1>7 DEF Reload, Unmounted
  <2> QED
    BY <2>1, <2>3, <2>4 DEF Mounting
<1>8. CASE PollAnswered
  <2>1. ready
    BY <1>8 DEF PollAnswered, Mounting
  <2> QED
    BY <1>8, <2>1, ReadyMounting DEF PollAnswered, Mounting, mountVars
<1>9. CASE PollFails
  <2>1. ready
    BY <1>9 DEF PollFails, Mounting
  <2> QED
    BY <1>9, <2>1, ReadyMounting DEF PollFails, Mounting, mountVars
<1>10. ASSUME NEW i \in NewIds, NEW file \in Contents \cup {NoFile}, AddFile(i, file)
       PROVE  Mounting'
  BY <1>10, ReadyMounting DEF AddFile, Mounting
<1>11. ASSUME NEW i \in Ids, PollArrives(i) PROVE Mounting'
  <2>1. ready
    BY <1>11 DEF PollArrives, Mounting, Absent
  <2> QED
    BY <1>11, <2>1, ReadyMounting DEF PollArrives, Mounting, mountVars
<1>12. ASSUME NEW r \in Slots, NEW i \in Ids, Start(r, i) PROVE Mounting'
  BY <1>12, ReadyMounting DEF Start, Mounting, mountVars
<1>13. ASSUME NEW s \in Sessions, ServerMoves(s) PROVE Mounting'
  BY <1>13, QuietMounting, ReadyMounting DEF ServerMoves, Mounting, mountVars
<1>14. ASSUME NEW i \in Ids, Button(i) PROVE Mounting'
  <2>0. ready
    BY <1>14, ButtonReady
  <2>1. CASE Pause(i)
    BY <2>1, <2>0, ReadyMounting DEF Pause, Mounting, mountVars
  <2>2. CASE CancelLocal(i)
    BY <2>2, <2>0, ReadyMounting DEF CancelLocal, Mounting, mountVars
  <2>3. CASE CancelSend(i)
    BY <2>3, <2>0, ReadyMounting DEF CancelSend, Mounting, mountVars
  <2>4. CASE RetryLocal(i)
    BY <2>4, <2>0, ReadyMounting DEF RetryLocal, Mounting, mountVars
  <2>5. CASE RetrySend(i)
    BY <2>5, <2>0, ReadyMounting DEF RetrySend, Mounting, mountVars
  <2>6. CASE Dismiss(i)
    BY <2>6, <2>0, ReadyMounting DEF Dismiss, Mounting, mountVars
  <2>7. CASE \E file \in Contents \cup {NoFile} : Reselect(i, file)
    BY <2>7, <2>0, ReadyMounting DEF Reselect, Mounting, mountVars
  <2> QED
    BY <1>14, <2>1, <2>2, <2>3, <2>4, <2>5, <2>6, <2>7 DEF Button
<1>15. ASSUME NEW i \in Ids, CallStep(i) PROVE Mounting'
  <2>1. CASE CancelArrives(i)
    <3>1. CASE ready
      BY <2>1, <3>1, ReadyMounting DEF CancelArrives, Mounting, mountVars
    <3>2. CASE ~ready
      <4>1. call["cancel"][i].pc # "none" => call["cancel"][i].stale
        BY <3>2 DEF Mounting, Pending
      <4>2. UNCHANGED <<mountVars, items, active, poll>>
        BY <2>1, <3>2, <4>1 DEF CancelArrives, Mounting, StoreFor, KeepPoll, mountVars
      <4>3. PICK ans \in {"processing", "refused", "gone"} :
                call' = [call EXCEPT !["cancel"][i] = [@ EXCEPT !.pc = "answered", !.ans = ans]]
        BY <2>1 DEF CancelArrives
      <4>4. PICK c : c = [call["cancel"][i] EXCEPT !.pc = "answered", !.ans = ans]
        OBVIOUS
      <4>5. call' = [call EXCEPT !["cancel"][i] = c]
        BY <4>3, <4>4
      <4>6. call["cancel"][i] \in Calls /\ call["cancel"][i].stale
        BY <2>1, <4>1 DEF CancelArrives, CallsGood
      <4>7. c \in Calls /\ c.stale
        BY <4>4, <4>6 DEF Calls, CallPC, CallAnswers
      <4> QED
        BY <3>2, <4>2, <4>5, <4>7, QuietMounting
    <3> QED
      BY <3>1, <3>2
  <2>2. CASE CancelSucceeds(i)
    <3>1. CASE ready
      BY <2>2, <3>1, ReadyMounting DEF CancelSucceeds, Mounting, mountVars
    <3>2. CASE ~ready
      <4>1. call["cancel"][i].pc # "none" => call["cancel"][i].stale
        BY <3>2 DEF Mounting, Pending
      <4>2. UNCHANGED <<mountVars, items, active, poll>>
        BY <2>2, <3>2, <4>1 DEF CancelSucceeds, Mounting, StoreFor, KeepPoll, mountVars
      <4> QED
        BY <2>2, <3>2, <4>1, <4>2, QuietMounting DEF CancelSucceeds
    <3> QED
      BY <3>1, <3>2
  <2>3. CASE CancelFails(i)
    <3>1. CASE ready
      BY <2>3, <3>1, ReadyMounting DEF CancelFails, Mounting, mountVars
    <3>2. CASE ~ready
      <4>1. call["cancel"][i].pc # "none" => call["cancel"][i].stale
        BY <3>2 DEF Mounting, Pending
      <4>2. UNCHANGED <<mountVars, items, active, poll>>
        BY <2>3, <3>2, <4>1 DEF CancelFails, Mounting, StoreFor, KeepPoll, mountVars
      <4> QED
        BY <2>3, <3>2, <4>1, <4>2, QuietMounting DEF CancelFails
    <3> QED
      BY <3>1, <3>2
  <2>4. CASE RetryArrives(i)
    <3>1. CASE ready
      BY <2>4, <3>1, ReadyMounting DEF RetryArrives, Mounting, mountVars
    <3>2. CASE ~ready
      <4>1. call["retry"][i].pc # "none" => call["retry"][i].stale
        BY <3>2 DEF Mounting, Pending
      <4>2. UNCHANGED <<mountVars, items, active, poll>>
        BY <2>4, <3>2, <4>1 DEF RetryArrives, Mounting, StoreFor, KeepPoll, mountVars
      <4>3. PICK ans \in {"processing", "refused", "gone"} :
                call' = [call EXCEPT !["retry"][i] = [@ EXCEPT !.pc = "answered", !.ans = ans]]
        BY <2>4 DEF RetryArrives
      <4>4. PICK c : c = [call["retry"][i] EXCEPT !.pc = "answered", !.ans = ans]
        OBVIOUS
      <4>5. call' = [call EXCEPT !["retry"][i] = c]
        BY <4>3, <4>4
      <4>6. call["retry"][i] \in Calls /\ call["retry"][i].stale
        BY <2>4, <4>1 DEF RetryArrives, CallsGood
      <4>7. c \in Calls /\ c.stale
        BY <4>4, <4>6 DEF Calls, CallPC, CallAnswers
      <4> QED
        BY <3>2, <4>2, <4>5, <4>7, QuietMounting
    <3> QED
      BY <3>1, <3>2
  <2>5. CASE RetryAnswered(i)
    <3>1. CASE ready
      BY <2>5, <3>1, ReadyMounting DEF RetryAnswered, Mounting, mountVars
    <3>2. CASE ~ready
      <4>1. call["retry"][i].pc # "none" => call["retry"][i].stale
        BY <3>2 DEF Mounting, Pending
      <4>2. UNCHANGED <<mountVars, items, active, poll>>
        BY <2>5, <3>2, <4>1 DEF RetryAnswered, Mounting, StoreFor, KeepPoll, mountVars
      <4> QED
        BY <2>5, <3>2, <4>1, <4>2, QuietMounting DEF RetryAnswered
    <3> QED
      BY <3>1, <3>2
  <2>6. CASE RetryFails(i)
    <3>1. CASE ready
      BY <2>6, <3>1, ReadyMounting DEF RetryFails, Mounting, mountVars
    <3>2. CASE ~ready
      <4>1. call["retry"][i].pc # "none" => call["retry"][i].stale
        BY <3>2 DEF Mounting, Pending
      <4>2. UNCHANGED <<mountVars, items, active, poll>>
        BY <2>6, <3>2, <4>1 DEF RetryFails, Mounting, StoreFor, KeepPoll, mountVars
      <4> QED
        BY <2>6, <3>2, <4>1, <4>2, QuietMounting DEF RetryFails
    <3> QED
      BY <3>1, <3>2
  <2> QED
    BY <1>15, <2>1, <2>2, <2>3, <2>4, <2>5, <2>6 DEF CallStep
<1>16. ASSUME NEW r \in Slots, RunStep(r) PROVE Mounting'
  <2>0. ~ready /\ run[r].pc # "idle" => run[r].stale /\ run[r].aborted
    BY ConstantsAssumption DEF Mounting, Working
  <2>1. CASE HashDiffers(r)
    <3>1. CASE ready
      BY <2>1, <3>1, ReadyMounting DEF HashDiffers, Finish, Mounting, mountVars
    <3>2. CASE ~ready
      BY <2>1, <3>2, <2>0, QuietMounting
      DEF HashDiffers, At, Finish, StoreFor, Write, Erase, KeepPoll, Mounting,
         mountVars
    <3> QED
      BY <3>1, <3>2
  <2>2. CASE Hashed(r)
    <3>1. CASE ready
      BY <2>2, <3>1, ReadyMounting DEF Hashed, Finish, Mounting, mountVars
    <3>2. CASE ~ready
      BY <2>2, <3>2, <2>0, QuietMounting
      DEF Hashed, At, Finish, StoreFor, Write, Erase, KeepPoll, Mounting,
         mountVars
    <3> QED
      BY <3>1, <3>2
  <2>3. CASE GetResumes(r)
    <3>1. CASE ready
      BY <2>3, <3>1, ReadyMounting DEF GetResumes, Finish, Mounting, mountVars
    <3>2. CASE ~ready
      BY <2>3, <3>2, <2>0, QuietMounting
      DEF GetResumes, At, Finish, StoreFor, Write, Erase, KeepPoll, Mounting,
         mountVars
    <3> QED
      BY <3>1, <3>2
  <2>4. CASE GetSettles(r)
    <3>1. CASE ready
      BY <2>4, <3>1, ReadyMounting DEF GetSettles, Finish, Mounting, mountVars
    <3>2. CASE ~ready
      BY <2>4, <3>2, <2>0, QuietMounting
      DEF GetSettles, At, Finish, StoreFor, Write, Erase, KeepPoll, Mounting,
         mountVars
    <3> QED
      BY <3>1, <3>2
  <2>5. CASE \E s \in Sessions : CreateArrives(r, s)
    <3>1. CASE ready
      BY <2>5, <3>1, ReadyMounting DEF CreateArrives, Finish, Mounting, mountVars
    <3>2. CASE ~ready
      BY <2>5, <3>2, <2>0, QuietMounting
      DEF CreateArrives, At, Finish, StoreFor, Write, Erase, KeepPoll, Mounting,
         mountVars
    <3> QED
      BY <3>1, <3>2
  <2>6. CASE CreateRefused(r)
    <3>1. CASE ready
      BY <2>6, <3>1, ReadyMounting DEF CreateRefused, Finish, Mounting, mountVars
    <3>2. CASE ~ready
      BY <2>6, <3>2, <2>0, QuietMounting
      DEF CreateRefused, At, Finish, StoreFor, Write, Erase, KeepPoll, Mounting,
         mountVars
    <3> QED
      BY <3>1, <3>2
  <2>7. CASE Duplicate(r)
    <3>1. CASE ready
      BY <2>7, <3>1, ReadyMounting DEF Duplicate, Finish, Mounting, mountVars
    <3>2. CASE ~ready
      BY <2>7, <3>2, <2>0, QuietMounting
      DEF Duplicate, At, Finish, StoreFor, Write, Erase, KeepPoll, Mounting,
         mountVars
    <3> QED
      BY <3>1, <3>2
  <2>8. CASE CreatedCancelled(r)
    <3>1. CASE ready
      BY <2>8, <3>1, ReadyMounting DEF CreatedCancelled, Finish, Mounting, mountVars
    <3>2. CASE ~ready
      BY <2>8, <3>2, <2>0, QuietMounting
      DEF CreatedCancelled, At, Finish, StoreFor, Write, Erase, KeepPoll, Mounting,
         mountVars
    <3> QED
      BY <3>1, <3>2
  <2>9. CASE Created(r)
    <3>1. CASE ready
      BY <2>9, <3>1, ReadyMounting DEF Created, Finish, Mounting, mountVars
    <3>2. CASE ~ready
      BY <2>9, <3>2, <2>0, QuietMounting
      DEF Created, At, Finish, StoreFor, Write, Erase, KeepPoll, Mounting,
         mountVars
    <3> QED
      BY <3>1, <3>2
  <2>10. CASE DropSucceeds(r)
    <3>1. CASE ready
      BY <2>10, <3>1, ReadyMounting DEF DropSucceeds, Finish, Mounting, mountVars
    <3>2. CASE ~ready
      BY <2>10, <3>2, <2>0, QuietMounting
      DEF DropSucceeds, At, Finish, StoreFor, Write, Erase, KeepPoll, Mounting,
         mountVars
    <3> QED
      BY <3>1, <3>2
  <2>11. CASE DropFails(r)
    <3>1. CASE ready
      BY <2>11, <3>1, ReadyMounting
      DEF DropFails, Finish, Mounting, mountVars, RunsGood, GoodRun
    <3>2. CASE ~ready
      BY <2>11, <3>2, <2>0, QuietMounting
      DEF DropFails, At, Finish, StoreFor, Write, Erase, KeepPoll, Mounting,
         mountVars
    <3> QED
      BY <3>1, <3>2
  <2>12. CASE PartsDone(r)
    <3>1. CASE ready
      BY <2>12, <3>1, ReadyMounting DEF PartsDone, Finish, Mounting, mountVars
    <3>2. CASE ~ready
      BY <2>12, <3>2, <2>0, QuietMounting
      DEF PartsDone, At, Finish, StoreFor, Write, Erase, KeepPoll, Mounting,
         mountVars
    <3> QED
      BY <3>1, <3>2
  <2>13. CASE CompleteArrives(r)
    <3>1. CASE ready
      BY <2>13, <3>1, ReadyMounting DEF CompleteArrives, Finish, Mounting, mountVars
    <3>2. CASE ~ready
      BY <2>13, <3>2, <2>0, QuietMounting
      DEF CompleteArrives, At, Finish, StoreFor, Write, Erase, KeepPoll, Mounting,
         mountVars
    <3> QED
      BY <3>1, <3>2
  <2>14. CASE CompleteIgnored(r)
    <3>1. CASE ready
      BY <2>14, <3>1, ReadyMounting DEF CompleteIgnored, Finish, Mounting, mountVars
    <3>2. CASE ~ready
      BY <2>14, <3>2, <2>0, QuietMounting
      DEF CompleteIgnored, At, Finish, StoreFor, Write, Erase, KeepPoll, Mounting,
         mountVars
    <3> QED
      BY <3>1, <3>2
  <2>15. CASE Completed(r)
    <3>1. CASE ready
      BY <2>15, <3>1, ReadyMounting DEF Completed, Finish, Mounting, mountVars
    <3>2. CASE ~ready
      BY <2>15, <3>2, <2>0, QuietMounting
      DEF Completed, At, Finish, StoreFor, Write, Erase, KeepPoll, Mounting,
         mountVars
    <3> QED
      BY <3>1, <3>2
  <2>16. CASE Unwinds(r)
    <3>1. CASE ready
      BY <2>16, <3>1, ReadyMounting DEF Unwinds, Finish, Mounting, mountVars
    <3>2. CASE ~ready
      BY <2>16, <3>2, <2>0, QuietMounting
      DEF Unwinds, At, Finish, StoreFor, Write, Erase, KeepPoll, Mounting,
         mountVars
    <3> QED
      BY <3>1, <3>2
  <2>17. CASE Fails(r)
    <3>1. CASE ready
      BY <2>17, <3>1, ReadyMounting DEF Fails, Finish, Mounting, mountVars
    <3>2. CASE ~ready
      BY <2>17, <3>2, <2>0, QuietMounting
      DEF Fails, At, Finish, StoreFor, Write, Erase, KeepPoll, Mounting,
         mountVars
    <3> QED
      BY <3>1, <3>2
  <2> QED
    BY <1>16, <2>1, <2>2, <2>3, <2>4, <2>5, <2>6, <2>7, <2>8, <2>9, <2>10, <2>11, <2>12,
       <2>13, <2>14, <2>15, <2>16, <2>17
       DEF RunStep
<1> QED
  BY <1>1, <1>2, <1>3, <1>4, <1>5, <1>6, <1>7, <1>8, <1>9, <1>10, <1>11, <1>12, <1>13,
     <1>14, <1>15, <1>16
     DEF Next

---------------------------------------------------------------------------
(* Ids that were not drawn *)

\* No write gives a row to an id that has none, unless it names that id.
LEMMA UnusedRowMoves ==
    ASSUME RowsGood, NEW j \in NewIds, UnusedRow(j),
           \/ UNCHANGED <<items, stored>>
           \/ \E i \in Ids : \E row : Update(i, row)
           \/ \E i \in Ids : Remove(i)
           \/ \E u \in Users, i \in Ids : \E row : StoreFor(u, i, row) /\ (i # j \/ row = Absent)
    PROVE  UnusedRow(j)'
<1>0. j \in Ids /\ [Absent EXCEPT !.file = NoFile] = Absent
  BY DEF Ids, Absent
<1>1. CASE UNCHANGED <<items, stored>>
  BY <1>1 DEF UnusedRow
<1>2. ASSUME NEW i \in Ids, NEW row, Update(i, row) PROVE UnusedRow(j)'
  <2>1. CASE Shown(i)
    <3>1. i # j
      BY <2>1 DEF Shown, UnusedRow, Absent
    <3> QED
      BY <1>0, <1>2, <2>1, <3>1 DEF Update, UnusedRow, RowsGood
  <2>2. CASE ~Shown(i)
    BY <1>2, <2>2 DEF Update, UnusedRow
  <2> QED
    BY <2>1, <2>2
<1>3. ASSUME NEW i \in Ids, Remove(i) PROVE UnusedRow(j)'
  BY <1>0, <1>3 DEF Remove, UnusedRow, RowsGood
<1>4. ASSUME NEW u \in Users, NEW i \in Ids, NEW row, StoreFor(u, i, row), i # j \/ row = Absent
      PROVE  UnusedRow(j)'
  BY <1>0, <1>4 DEF StoreFor, UnusedRow, RowsGood
<1> QED
  BY <1>1, <1>2, <1>3, <1>4

\* Every step leaves ids that were not drawn without a row.
LEMMA UnusedRowStep ==
    ASSUME RowsGood, RunsGood, CallsGood, RestoreGood, PollGood, Mounting,
           NEW j \in NewIds \ used, UnusedRow(j), UnusedWork(j), Next
    PROVE  j \in used' \/ UnusedRow(j)'
<1>1. CASE Restored
  <2> DEFINE listed == {s \in Sessions : restore.remote[s] # "none"}
  <2>1. j \in Ids /\ j \notin Sessions /\ restore.local[j] = Absent
    BY ConstantsAssumption DEF Ids, UnusedWork
  <2>2. PICK row \in [listed -> Ids] :
            /\ \A s \in listed : row[s] \in IF NamedBy(s) = {} THEN {s} ELSE NamedBy(s)
            /\ items' = [i \in Ids |-> IF \E s \in listed : row[s] = i
                                       THEN FromServer(CHOOSE s \in listed : row[s] = i)
                                       ELSE Restorable(i)]
    BY <1>1 DEF Restored
  <2>3. \A s \in listed : row[s] # j
    <3>1. \A s \in Sessions : j \notin NamedBy(s)
      BY <2>1, ConstantsAssumption DEF NamedBy, Absent
    <3> QED
      BY <2>1, <2>2, <3>1
  <2>4. items'[j] = Absent
    BY <2>1, <2>2, <2>3 DEF Restorable, Absent
  <2>5. \A u \in Users : stored'[u][j] \in {stored[u][j], Absent}
    BY <1>1, <2>1 DEF Restored, RowsGood
  <2> QED
    BY <2>4, <2>5 DEF UnusedRow
<1>2. CASE SignOut
  BY <1>2 DEF SignOut, Unmounted, UnusedRow, Ids
<1>3. CASE Reload
  BY <1>3 DEF Reload, Unmounted, UnusedRow, Ids
<1>4. CASE PollAnswered
  BY <1>4, UnusedRowMoves DEF PollAnswered, PollGood
<1>5. ASSUME NEW i \in NewIds, NEW file \in Contents \cup {NoFile}, AddFile(i, file)
      PROVE  j \in used' \/ UnusedRow(j)'
  BY <1>5 DEF AddFile, UnusedRow, RowsGood, Ids
<1>6. ASSUME NEW r \in Slots, NEW i \in Ids, Start(r, i) PROVE j \in used' \/ UnusedRow(j)'
  BY <1>6, UnusedRowMoves DEF Start
<1>7. ASSUME NEW i \in Ids, Button(i) PROVE j \in used' \/ UnusedRow(j)'
  <2>1. CASE Pause(i)
    BY <2>1, UnusedRowMoves DEF Pause
  <2>2. CASE CancelLocal(i)
    BY <2>2, UnusedRowMoves DEF CancelLocal
  <2>3. CASE CancelSend(i)
    BY <2>3, UnusedRowMoves DEF CancelSend
  <2>4. CASE RetryLocal(i)
    BY <2>4, UnusedRowMoves DEF RetryLocal
  <2>5. CASE Dismiss(i)
    BY <2>5, UnusedRowMoves DEF Dismiss
  <2>6. CASE \E file \in Contents \cup {NoFile} : Reselect(i, file)
    BY <2>6, UnusedRowMoves DEF Reselect
  <2>7. CASE \/ RetrySend(i)
    BY <2>7, UnusedRowMoves DEF RetrySend, mountVars
  <2> QED
    BY <1>7, <2>1, <2>2, <2>3, <2>4, <2>5, <2>6, <2>7 DEF Button
<1>8. ASSUME NEW i \in Ids, CallStep(i) PROVE j \in used' \/ UnusedRow(j)'
  <2>1. CASE CancelSucceeds(i)
    BY <2>1, UnusedRowMoves DEF CancelSucceeds, CallsGood, GoodCall, UnusedWork
  <2>2. CASE CancelFails(i)
    BY <2>2, UnusedRowMoves DEF CancelFails, CallsGood, GoodCall, UnusedWork
  <2>3. CASE RetryAnswered(i)
    BY <2>3, UnusedRowMoves DEF RetryAnswered, CallsGood, GoodCall, UnusedWork
  <2>4. CASE \/ CancelArrives(i) \/ RetryArrives(i)
    BY <2>4, UnusedRowMoves DEF CancelArrives, RetryArrives, mountVars
  <2>5. CASE RetryFails(i)
    <3>1. i # j
      BY <2>5 DEF RetryFails, UnusedWork
    <3>2. \/ \E u \in Users, k \in Ids : \E row : StoreFor(u, k, row) /\ k # j
          \/ \E k \in Ids : \E row : Update(k, row)
      BY <2>5, <3>1, RetryFailsRows
    <3> QED
      BY <3>2, UnusedRowMoves
  <2> QED
    BY <1>8, <2>1, <2>2, <2>3, <2>4, <2>5 DEF CallStep
<1>9. ASSUME NEW r \in Slots, RunStep(r) PROVE j \in used' \/ UnusedRow(j)'
  <2>0. run[r].pc # "idle" => run[r].id \in Ids /\ run[r].user \in Users
    BY DEF RunsGood, GoodRun
  <2>1. CASE HashDiffers(r)
    BY <2>1, UnusedRowMoves, <2>0 DEF HashDiffers, At
  <2>2. CASE Hashed(r)
    BY <2>2, UnusedRowMoves, <2>0 DEF Hashed, At
  <2>3. CASE GetResumes(r)
    BY <2>3, UnusedRowMoves, <2>0 DEF GetResumes, At
  <2>4. CASE GetSettles(r)
    BY <2>4, UnusedRowMoves, <2>0 DEF GetSettles, At
  <2>5. CASE Duplicate(r)
    BY <2>5, UnusedRowMoves, <2>0 DEF Duplicate, At, Write, Erase, UnusedWork
  <2>6. CASE Created(r)
    BY <2>6, UnusedRowMoves, <2>0 DEF Created, At, Write, Erase, UnusedWork
  <2>7. CASE DropSucceeds(r)
    BY <2>7, UnusedRowMoves, <2>0 DEF DropSucceeds, At, Write, Erase, UnusedWork
  <2>8. CASE DropFails(r)
    BY <2>8, UnusedRowMoves, <2>0 DEF DropFails, At, Write, Erase, UnusedWork
  <2>9. CASE Completed(r)
    BY <2>9, UnusedRowMoves, <2>0 DEF Completed, At
  <2>10. CASE Fails(r)
    BY <2>10, UnusedRowMoves, <2>0 DEF Fails, At
  <2>11. CASE \/ (\E s \in Sessions : CreateArrives(r, s)) \/ CreateRefused(r)
              \/ CreatedCancelled(r) \/ PartsDone(r) \/ CompleteArrives(r)
              \/ CompleteIgnored(r) \/ Unwinds(r)
    BY <2>11, UnusedRowMoves
       DEF CreateArrives, CreateRefused, CreatedCancelled, PartsDone, CompleteArrives,
          CompleteIgnored, Unwinds, mountVars
  <2> QED
    BY <1>9, <2>1, <2>2, <2>3, <2>4, <2>5, <2>6, <2>7, <2>8, <2>9, <2>10, <2>11
       DEF RunStep
<1>10. CASE \/ (\E u \in Users : SignIn(u)) \/ RestoreLocal \/ RestoreRemote
            \/ RestoreFails \/ PollFails \/ (\E i \in Ids : PollArrives(i))
            \/ (\E s \in Sessions : ServerMoves(s))
  BY <1>10, UnusedRowMoves
     DEF SignIn, RestoreLocal, RestoreRemote, RestoreFails, PollFails, PollArrives,
        ServerMoves, mountVars
<1> QED
  BY <1>1, <1>2, <1>3, <1>4, <1>5, <1>6, <1>7, <1>8, <1>9, <1>10 DEF Next

\* An invocation never changes the id it works for.
LEMMA UnusedRuns ==
    ASSUME RunsGood, NEW j, \A r \in Slots : run[r].pc # "idle" => run[r].id # j,
           NEW r \in Slots,
           \/ UNCHANGED run \/ Finish(r) \/ Abort(r)
           \/ run[r].pc # "idle" /\ \E pc : Goto(r, pc)
           \/ run[r].pc # "idle" /\ \E inv : inv.id = run[r].id /\ run' = [run EXCEPT ![r] = inv]
    PROVE  \A q \in Slots : run'[q].pc # "idle" => run'[q].id # j
<1> USE DEF RunsGood
<1>1. CASE UNCHANGED run \/ Finish(r)
  BY <1>1 DEF Finish, Idle
<1>2. CASE Abort(r)
  BY <1>2 DEF Abort, Invocations
<1>3. ASSUME run[r].pc # "idle", NEW pc, Goto(r, pc)
      PROVE  \A q \in Slots : run'[q].pc # "idle" => run'[q].id # j
  <2>1. run'[r] = [run[r] EXCEPT !.pc = pc] /\ \A q \in Slots \ {r} : run'[q] = run[q]
    BY <1>3 DEF Goto
  <2>2. run[r] \in Invocations
    OBVIOUS
  <2>3. run'[r].id = run[r].id
    BY <2>1, <2>2 DEF Invocations
  <2> QED
    BY <1>3, <2>1, <2>3
<1>4. ASSUME run[r].pc # "idle", NEW inv, inv.id = run[r].id, run' = [run EXCEPT ![r] = inv]
      PROVE  \A q \in Slots : run'[q].pc # "idle" => run'[q].id # j
  BY <1>4
<1> QED
  BY <1>1, <1>2, <1>3, <1>4

\* Every step leaves ids that were not drawn without work.
LEMMA UnusedWorkStep ==
    ASSUME RowsGood, RunsGood, CallsGood, RestoreGood, PollGood, Mounting,
           NEW j \in NewIds \ used, UnusedRow(j), UnusedWork(j), Next
    PROVE  j \in used' \/ UnusedWork(j)'
<1>1. CASE RestoreLocal
  <2>1. restore'.local[j] = stored[account][j] /\ account \in Users
    BY <1>1, ConstantsAssumption DEF RestoreLocal, RestoreGood, Restores, Mounting
  <2> QED
    BY <1>1, <2>1 DEF RestoreLocal, UnusedWork, UnusedRow
<1>2. CASE RestoreRemote
  BY <1>2 DEF RestoreRemote, UnusedWork, RestoreGood, Restores
<1>3. CASE Restored
  BY <1>3 DEF Restored, UnusedWork, NotRead, KeepPoll, Ids
<1>4. CASE RestoreFails
  BY <1>4 DEF RestoreFails, UnusedWork, NotRead, KeepPoll, Ids
<1>5. CASE SignOut
  BY <1>5
     DEF SignOut, UnusedWork, Unmounted, NotRead, Ids, RunsGood, Invocations, NoCall
<1>6. CASE Reload
  BY <1>6 DEF Reload, UnusedWork, Unmounted, NotRead, Ids, Idle, NoCall
<1>7. CASE PollAnswered
  BY <1>7 DEF PollAnswered, UnusedWork, mountVars
<1>8. CASE PollFails
  BY <1>8 DEF PollFails, UnusedWork, mountVars
<1>9. ASSUME NEW i \in Ids, PollArrives(i) PROVE j \in used' \/ UnusedWork(j)'
  BY <1>9 DEF PollArrives, UnusedWork, UnusedRow, Absent, mountVars
<1>10. ASSUME NEW r \in Slots, NEW i \in Ids, Start(r, i)
       PROVE  j \in used' \/ UnusedWork(j)'
  BY <1>10 DEF Start, UnusedWork, UnusedRow, Absent, RunsGood, Idle, mountVars
<1>11. ASSUME NEW i \in Ids, Button(i) PROVE j \in used' \/ UnusedWork(j)'
  <2>1. CASE Pause(i)
    BY <2>1, UnusedRuns DEF Pause, UnusedWork, Works, Mounting, mountVars
  <2>2. CASE CancelLocal(i)
    BY <2>2, UnusedRuns DEF CancelLocal, UnusedWork, Works, Mounting, mountVars
  <2>3. CASE CancelSend(i)
    <3>1. i # j
      BY <2>3 DEF CancelSend, UnusedRow, Absent, Cancellable
    <3>2. \A r \in Slots : run'[r].pc # "idle" => run'[r].id # j
      BY <2>3, UnusedRuns DEF CancelSend, UnusedWork, Works, Mounting
    <3> QED
      BY <2>3, <3>1, <3>2 DEF CancelSend, UnusedWork, CallsGood
  <2>4. CASE RetrySend(i)
    <3>1. i # j
      BY <2>4 DEF RetrySend, UnusedRow, Absent
    <3> QED
      BY <2>4, <3>1 DEF RetrySend, UnusedWork, CallsGood, mountVars
  <2>5. CASE \/ RetryLocal(i) \/ Dismiss(i)
             \/ (\E file \in Contents \cup {NoFile} : Reselect(i, file))
    BY <2>5 DEF RetryLocal, Dismiss, Reselect, UnusedWork, mountVars
  <2> QED
    BY <1>11, <2>1, <2>2, <2>3, <2>4, <2>5 DEF Button
<1>12. ASSUME NEW i \in Ids, CallStep(i) PROVE j \in used' \/ UnusedWork(j)'
  <2>1. CASE CancelArrives(i)
    <3>1. i # j
      BY <2>1 DEF CancelArrives, UnusedWork
    <3>2. \A op \in {"cancel", "retry"} : call'[op][j] = call[op][j]
      BY <2>1, <3>1 DEF CancelArrives, CallsGood, Ids
    <3> QED
      BY <2>1, <3>2 DEF CancelArrives, UnusedWork, mountVars
  <2>2. CASE CancelSucceeds(i)
    BY <2>2
       DEF CancelSucceeds, UnusedWork, CallsGood, Calls, NoCall, KeepPoll, mountVars
  <2>3. CASE CancelFails(i)
    BY <2>3 DEF CancelFails, UnusedWork, CallsGood, Calls, NoCall, KeepPoll, mountVars
  <2>4. CASE RetryArrives(i)
    <3>1. i # j
      BY <2>4 DEF RetryArrives, UnusedWork
    <3>2. \A op \in {"cancel", "retry"} : call'[op][j] = call[op][j]
      BY <2>4, <3>1 DEF RetryArrives, CallsGood, Ids
    <3> QED
      BY <2>4, <3>2 DEF RetryArrives, UnusedWork, mountVars
  <2>5. CASE RetryAnswered(i)
    BY <2>5
       DEF RetryAnswered, UnusedWork, CallsGood, Calls, NoCall, KeepPoll, mountVars
  <2>6. CASE RetryFails(i)
    BY <2>6 DEF RetryFails, UnusedWork, CallsGood, Calls, NoCall, KeepPoll, mountVars
  <2> QED
    BY <1>12, <2>1, <2>2, <2>3, <2>4, <2>5, <2>6 DEF CallStep
<1>13. ASSUME NEW r \in Slots, RunStep(r) PROVE j \in used' \/ UnusedWork(j)'
  <2>1. CASE HashDiffers(r)
    BY <2>1, UnusedRuns DEF HashDiffers, UnusedWork, At, mountVars
  <2>2. CASE Hashed(r)
    BY <2>2, UnusedRuns DEF Hashed, UnusedWork, At, mountVars
  <2>3. CASE GetResumes(r)
    BY <2>3, UnusedRuns DEF GetResumes, UnusedWork, At, mountVars
  <2>4. CASE GetSettles(r)
    BY <2>4, UnusedRuns DEF GetSettles, UnusedWork, At, KeepPoll, mountVars
  <2>5. CASE \E s \in Sessions : CreateArrives(r, s)
    <3>1. PICK s \in Sessions : CreateArrives(r, s)
      BY <2>5
    <3>2. PICK inv : inv = [run[r] EXCEPT !.pc = "created", !.sess = s]
      OBVIOUS
    <3>3. run' = [run EXCEPT ![r] = inv]
      BY <3>1, <3>2 DEF CreateArrives
    <3>4. inv.id = run[r].id
      BY <3>2 DEF RunsGood, Invocations
    <3>5. run[r].pc # "idle" /\ UNCHANGED <<mountVars, call, poll>>
      BY <2>5 DEF CreateArrives, At, mountVars
    <3>6. \A q \in Slots : run'[q].pc # "idle" => run'[q].id # j
      BY <3>3, <3>4, <3>5, UnusedRuns DEF UnusedWork
    <3> QED
      BY <3>5, <3>6 DEF UnusedWork, mountVars
  <2>6. CASE CreateRefused(r)
    BY <2>6, UnusedRuns DEF CreateRefused, UnusedWork, At, mountVars
  <2>7. CASE Duplicate(r)
    BY <2>7, UnusedRuns DEF Duplicate, UnusedWork, At, mountVars
  <2>8. CASE CreatedCancelled(r)
    BY <2>8, UnusedRuns DEF CreatedCancelled, UnusedWork, At, mountVars
  <2>9. CASE Created(r)
    BY <2>9, UnusedRuns DEF Created, UnusedWork, At, mountVars
  <2>10. CASE DropSucceeds(r)
    BY <2>10, UnusedRuns DEF DropSucceeds, UnusedWork, At, mountVars
  <2>11. CASE DropFails(r)
    BY <2>11, UnusedRuns DEF DropFails, UnusedWork, At, mountVars
  <2>12. CASE PartsDone(r)
    BY <2>12, UnusedRuns DEF PartsDone, UnusedWork, At, mountVars
  <2>13. CASE CompleteArrives(r)
    <3>1. PICK ans : run' = [run EXCEPT ![r] = [@ EXCEPT !.pc = "completed", !.ans = ans]]
      BY <2>13 DEF CompleteArrives
    <3>2. PICK inv : inv = [run[r] EXCEPT !.pc = "completed", !.ans = ans]
      OBVIOUS
    <3>3. run' = [run EXCEPT ![r] = inv]
      BY <3>1, <3>2
    <3>4. inv.id = run[r].id
      BY <3>2 DEF RunsGood, Invocations
    <3>5. run[r].pc # "idle" /\ UNCHANGED <<mountVars, call, poll>>
      BY <2>13 DEF CompleteArrives, At, mountVars
    <3>6. \A q \in Slots : run'[q].pc # "idle" => run'[q].id # j
      BY <3>3, <3>4, <3>5, UnusedRuns DEF UnusedWork
    <3> QED
      BY <3>5, <3>6 DEF UnusedWork, mountVars
  <2>14. CASE CompleteIgnored(r)
    BY <2>14, UnusedRuns DEF CompleteIgnored, UnusedWork, At, mountVars
  <2>15. CASE Completed(r)
    BY <2>15, UnusedRuns DEF Completed, UnusedWork, At, KeepPoll, mountVars
  <2>16. CASE Unwinds(r)
    BY <2>16, UnusedRuns DEF Unwinds, UnusedWork, mountVars
  <2>17. CASE Fails(r)
    BY <2>17, UnusedRuns DEF Fails, UnusedWork, KeepPoll, mountVars
  <2> QED
    BY <1>13, <2>1, <2>2, <2>3, <2>4, <2>5, <2>6, <2>7, <2>8, <2>9, <2>10, <2>11, <2>12,
       <2>13, <2>14, <2>15, <2>16, <2>17
       DEF RunStep
<1>14. CASE \/ (\E u \in Users : SignIn(u))
            \/ (\E i \in NewIds, file \in Contents \cup {NoFile} : AddFile(i, file))
            \/ (\E s \in Sessions : ServerMoves(s))
  BY <1>14 DEF SignIn, AddFile, ServerMoves, UnusedWork, mountVars
<1> QED
  BY <1>1, <1>2, <1>3, <1>4, <1>5, <1>6, <1>7, <1>8, <1>9, <1>10, <1>11, <1>12, <1>13,
     <1>14
     DEF Next

\* Ids that were not drawn stay unused.
LEMMA UnusedStep ==
    ASSUME RowsGood, RunsGood, CallsGood, RestoreGood, PollGood, Mounting, Unused, Next,
           used \subseteq used'
    PROVE  Unused'
BY UnusedRowStep, UnusedWorkStep DEF Unused

---------------------------------------------------------------------------
(* The session of a row on display *)

SessionKept(i) == Shown(i)' => Shown(i) /\ items'[i].sess = items[i].sess

\* Where a session may be recorded: on the row of a created one.
Recording(i) ==
    /\ Shown(i) /\ items[i].sess = NoSession /\ Works(i)
    /\ run[active].pc \in {"created", "drop"} /\ run'[active].pc \notin CreatingPC

\* What the work on a row changes is not its session.
LEMMA EditKeepsSession ==
    ASSUME NEW row \in Row, NEW status, NEW file
    PROVE  /\ [row EXCEPT !.status = status].sess = row.sess
           /\ [row EXCEPT !.file = file, !.status = status].sess = row.sess
           /\ [row EXCEPT !.status = status, !.file = file].sess = row.sess
BY DEF Row

\* What the helpers do to the session of a row.
LEMMA SessionMoves ==
    ASSUME RowsGood, NEW j \in Ids,
           \/ UNCHANGED items
           \/ \E i \in Ids : \E row : Update(i, row) /\ row.sess = items[i].sess
           \/ \E i \in Ids : \E row : Update(i, row) /\ i # j
           \/ \E i \in Ids : Remove(i)
           \/ \E u, i, row : StoreFor(u, i, row)
    PROVE  SessionKept(j)
<1>1. CASE UNCHANGED items
  BY <1>1 DEF SessionKept, Shown
<1>2. ASSUME NEW i \in Ids, NEW row, Update(i, row), row.sess = items[i].sess \/ i # j
      PROVE  SessionKept(j)
  BY <1>2 DEF Update, RowsGood, SessionKept, Shown
<1>3. ASSUME NEW i \in Ids, Remove(i) PROVE SessionKept(j)
  BY <1>3 DEF Remove, RowsGood, SessionKept, Shown, Absent
<1>4. CASE \E u, i, row : StoreFor(u, i, row)
  BY <1>4 DEF StoreFor, SessionKept, Shown
<1> QED
  BY <1>1, <1>2, <1>3, <1>4

\* Every step keeps the session of every row that stays on display, but for those
\* that are new and for the one whose session is being recorded.
LEMMA SessionStep ==
    ASSUME RowsGood, RunsGood, CallsGood, PollGood, Mounting, Working, SameSession,
           Unused, NEW j \in Ids, Next
    PROVE  SessionKept(j) \/ ~ready \/ j \in NewIds \ used \/ Recording(j)
<1>1. CASE Restored
  BY <1>1 DEF Restored
<1>2. CASE SignOut
  BY <1>2 DEF SignOut, Unmounted, SessionKept, Shown, Absent
<1>3. CASE Reload
  BY <1>3 DEF Reload, Unmounted, SessionKept, Shown, Absent
<1>4. CASE PollAnswered
  BY <1>4, SessionMoves DEF PollAnswered, PollGood, Row, RowsGood
<1>5. ASSUME NEW i \in NewIds, NEW file \in Contents \cup {NoFile}, AddFile(i, file)
      PROVE  SessionKept(j) \/ ~ready \/ j \in NewIds \ used \/ Recording(j)
  BY <1>5 DEF AddFile, RowsGood, SessionKept, Shown
<1>6. ASSUME NEW r \in Slots, NEW i \in Ids, Start(r, i)
      PROVE  SessionKept(j) \/ ~ready \/ j \in NewIds \ used \/ Recording(j)
  BY <1>6, SessionMoves DEF Start, Row, RowsGood
<1>7. ASSUME NEW i \in Ids, Button(i)
      PROVE  SessionKept(j) \/ ~ready \/ j \in NewIds \ used \/ Recording(j)
  <2>1. CASE Pause(i)
    BY <2>1, SessionMoves DEF Pause, Row, RowsGood
  <2>2. CASE CancelLocal(i)
    BY <2>2, SessionMoves DEF CancelLocal, Row, RowsGood
  <2>3. CASE CancelSend(i)
    BY <2>3, SessionMoves DEF CancelSend, Row, RowsGood
  <2>4. CASE RetryLocal(i)
    BY <2>4, SessionMoves DEF RetryLocal, Row, RowsGood
  <2>5. CASE Dismiss(i)
    BY <2>5, SessionMoves DEF Dismiss, Row, RowsGood
  <2>6. CASE \E file \in Contents \cup {NoFile} : Reselect(i, file)
    <3>1. PICK file \in Contents \cup {NoFile} : Reselect(i, file)
      BY <2>6
    <3> DEFINE row == [items[i] EXCEPT !.file = file,
                          !.status = IF file = NoFile THEN "error" ELSE "queued"]
    <3>2. row.sess = items[i].sess /\ Update(i, row)
      BY <3>1, EditKeepsSession DEF RowsGood, Reselect
    <3> QED
      BY <3>2, SessionMoves
  <2>7. CASE \/ RetrySend(i)
    BY <2>7, SessionMoves DEF RetrySend, mountVars
  <2> QED
    BY <1>7, <2>1, <2>2, <2>3, <2>4, <2>5, <2>6, <2>7 DEF Button
<1>8. ASSUME NEW i \in Ids, CallStep(i)
      PROVE  SessionKept(j) \/ ~ready \/ j \in NewIds \ used \/ Recording(j)
  <2>1. CASE CancelSucceeds(i)
    BY <2>1, SessionMoves DEF CancelSucceeds, Row, RowsGood
  <2>2. CASE CancelFails(i)
    <3> DEFINE i0 == i
               row == [items[i] EXCEPT !.status = "error", !.file = call["cancel"][i].row.file]
    <3>1. i0 \in Ids /\ items[i0] \in Row /\ row.sess = items[i0].sess
      BY <2>2, EditKeepsSession DEF RowsGood
    <3>2. Update(i0, row) \/ UNCHANGED items
      BY <2>2 DEF CancelFails, StoreFor
    <3> QED
      BY <3>1, <3>2, SessionMoves
  <2>3. CASE RetryAnswered(i)
    BY <2>3, SessionMoves DEF RetryAnswered, Row, RowsGood
  <2>4. CASE \/ CancelArrives(i) \/ RetryArrives(i) \/ RetryFails(i)
    BY <2>4, SessionMoves DEF CancelArrives, RetryArrives, RetryFails, mountVars
  <2> QED
    BY <1>8, <2>1, <2>2, <2>3, <2>4 DEF CallStep
<1>9. ASSUME NEW r \in Slots, RunStep(r)
      PROVE  SessionKept(j) \/ ~ready \/ j \in NewIds \ used \/ Recording(j)
  <2>0. run[r].pc # "idle" => /\ run[r].id \in Ids /\ items[run[r].id] \in Row
                              /\ run[r].row \in Row
                              /\ run[r].pc \in CreatingPC => run[r].row.sess = NoSession
    BY DEF RunsGood, RowsGood, GoodRun, GoodRow
  <2>1. CASE HashDiffers(r)
    <3> DEFINE i0 == run[r].id
               row == [items[run[r].id] EXCEPT !.status = "needs_file", !.file = NoFile]
    <3>1. i0 \in Ids /\ items[i0] \in Row /\ row.sess = items[i0].sess
      BY <2>1, EditKeepsSession, <2>0 DEF HashDiffers, At
    <3>2. Update(i0, row) \/ UNCHANGED items
      BY <2>1 DEF HashDiffers
    <3> QED
      BY <3>1, <3>2, SessionMoves
  <2>2. CASE Hashed(r)
    BY <2>2, SessionMoves, <2>0 DEF Hashed, Row, RowsGood, At
  <2>3. CASE GetResumes(r)
    BY <2>3, SessionMoves, <2>0 DEF GetResumes, Row, RowsGood, At
  <2>4. CASE GetSettles(r)
    <3> DEFINE i0 == run[r].id
               row == [items[run[r].id] EXCEPT !.status = srv[run[r].sess].status,
                                                !.file = NoFile]
    <3>1. i0 \in Ids /\ items[i0] \in Row /\ row.sess = items[i0].sess
      BY <2>4, EditKeepsSession, <2>0 DEF GetSettles, At
    <3>2. Update(i0, row) \/ Remove(i0)
      BY <2>4 DEF GetSettles
    <3> QED
      BY <3>1, <3>2, SessionMoves
  <2>5. CASE Duplicate(r)
    <3>1. CASE Flagged(r) \/ run[r].stale
      BY <2>5, <2>0, <3>1, SessionMoves DEF Duplicate, Erase, Write, At
    <3>2. CASE ~Flagged(r) /\ ~run[r].stale
      <4> DEFINE i == run[r].id
                 row == [run[r].row EXCEPT !.status = "duplicate", !.file = NoFile]
      <4>1. Update(i, row) /\ i \in Ids /\ r = active
        BY <2>5, <2>0, <3>2, RunFacts DEF Duplicate, Write, At
      <4>2. row.sess = NoSession
        BY <2>5, <2>0 DEF Duplicate, At, CreatingPC, Row
      <4>3. Shown(i) => items[i].sess = NoSession
        BY <2>5, <4>1, RunFacts DEF Duplicate, At, CreatingPC
      <4>4. CASE Shown(i)
        BY <4>1, <4>2, <4>3, <4>4, SessionMoves
      <4>5. CASE ~Shown(i)
        BY <4>1, <4>5, SessionMoves DEF Update
      <4> QED
        BY <4>4, <4>5
    <3> QED
      BY <3>1, <3>2
  <2>6. CASE Created(r)
    <3>1. CASE run[r].stale
      BY <2>6, <2>0, <3>1, SessionMoves DEF Created, Write, At
    <3>2. CASE ~run[r].stale
      <4> DEFINE i == run[r].id
      <4>1. /\ i \in Ids /\ r = active /\ run[r].pc = "created"
            /\ Shown(i) => items[i].sess = NoSession
        BY <2>6, <2>0, <3>2, RunFacts DEF Created, At, CreatingPC
      <4>2. (\E row : Update(i, row)) /\ Works(i)
        BY <2>6, <3>2, <4>1, ConstantsAssumption DEF Created, Write, Works
      <4>3. CASE ~Shown(i)
        BY <4>2, <4>3, SessionMoves DEF Update
      <4>6. run'[r].pc \notin CreatingPC
        BY <2>6, <4>1 DEF Created, Finish, Goto, Idle, CreatingPC, RunsGood, Invocations
      <4>4. CASE Shown(i) /\ i = j
        BY <4>1, <4>2, <4>4, <4>6 DEF Recording
      <4>5. CASE i # j
        BY <4>1, <4>2, <4>5, SessionMoves
      <4> QED
        BY <4>3, <4>4, <4>5
    <3> QED
      BY <3>1, <3>2
  <2>7. CASE DropSucceeds(r)
    BY <2>7, SessionMoves, <2>0 DEF DropSucceeds, At, Erase
  <2>8. CASE DropFails(r)
    <3>1. CASE run[r].stale
      BY <2>8, <2>0, <3>1, SessionMoves DEF DropFails, Write, At
    <3>2. CASE ~run[r].stale
      <4> DEFINE i == run[r].id
      <4>1. /\ i \in Ids /\ r = active /\ run[r].pc = "drop"
            /\ Shown(i) => items[i].sess = NoSession
        BY <2>8, <2>0, <3>2, RunFacts DEF DropFails, At, CreatingPC
      <4>2. (\E row : Update(i, row)) /\ Works(i)
        BY <2>8, <3>2, <4>1, ConstantsAssumption DEF DropFails, Write, Works
      <4>3. CASE ~Shown(i)
        BY <4>2, <4>3, SessionMoves DEF Update
      <4>6. run'[r].pc \notin CreatingPC
        BY <2>8, <4>1 DEF DropFails, Finish, Goto, Idle, CreatingPC, RunsGood, Invocations
      <4>4. CASE Shown(i) /\ i = j
        BY <4>1, <4>2, <4>4, <4>6 DEF Recording
      <4>5. CASE i # j
        BY <4>1, <4>2, <4>5, SessionMoves
      <4> QED
        BY <4>3, <4>4, <4>5
    <3> QED
      BY <3>1, <3>2
  <2>9. CASE Completed(r)
    <3> DEFINE i0 == run[r].id
               row == [items[run[r].id] EXCEPT !.status = run[r].ans, !.file = NoFile]
    <3>1. i0 \in Ids /\ items[i0] \in Row /\ row.sess = items[i0].sess
      BY <2>9, EditKeepsSession, <2>0 DEF Completed, At
    <3>2. Update(i0, row) \/ Remove(i0)
      BY <2>9 DEF Completed
    <3> QED
      BY <3>1, <3>2, SessionMoves
  <2>10. CASE Fails(r)
    BY <2>10, SessionMoves, <2>0 DEF Fails, Row, RowsGood, At
  <2>11. CASE \/ (\E s \in Sessions : CreateArrives(r, s)) \/ CreateRefused(r)
              \/ CreatedCancelled(r) \/ PartsDone(r) \/ CompleteArrives(r)
              \/ CompleteIgnored(r) \/ Unwinds(r)
    BY <2>11, SessionMoves
       DEF CreateArrives, CreateRefused, CreatedCancelled, PartsDone, CompleteArrives,
          CompleteIgnored, Unwinds, mountVars
  <2> QED
    BY <1>9, <2>1, <2>2, <2>3, <2>4, <2>5, <2>6, <2>7, <2>8, <2>9, <2>10, <2>11
       DEF RunStep
<1>10. CASE \/ (\E u \in Users : SignIn(u)) \/ RestoreLocal \/ RestoreRemote
            \/ RestoreFails \/ PollFails \/ (\E i \in Ids : PollArrives(i))
            \/ (\E s \in Sessions : ServerMoves(s))
  BY <1>10, SessionMoves
     DEF SignIn, RestoreLocal, RestoreRemote, RestoreFails, PollFails, PollArrives,
        ServerMoves, mountVars
<1> QED
  BY <1>1, <1>2, <1>3, <1>4, <1>5, <1>6, <1>7, <1>8, <1>9, <1>10 DEF Next

\* A request clears, or its row keeps the session.
LEMMA PendingMoves ==
    ASSUME CallsGood, NEW o \in {"cancel", "retry"}, NEW j \in Ids, Pending(o, j)',
           \/ UNCHANGED call
           \/ \E op \in {"cancel", "retry"}, i \in Ids : call' = [call EXCEPT ![op][i] = NoCall]
    PROVE  Pending(o, j) /\ call'[o][j].row = call[o][j].row
BY DEF CallsGood, Pending, NoCall

PendingKept(o, j) ==
    \/ Pending(o, j) /\ call'[o][j].row = call[o][j].row
    \/ Shown(j) /\ call'[o][j].row.sess = items[j].sess /\ SessionKept(j)

\* Every request of this mount is about the session of its row.
LEMMA PendingStep ==
    ASSUME RowsGood, CallsGood, Mounting, NEW o \in {"cancel", "retry"}, NEW j \in Ids,
           Pending(o, j)', Next
    PROVE  PendingKept(o, j)
<1>1. CASE SignOut
  <2>1. call'[o][j] = IF call[o][j].pc = "none" THEN NoCall ELSE [call[o][j] EXCEPT !.stale = TRUE]
    BY <1>1 DEF SignOut
  <2>2. call[o][j] \in Calls
    BY DEF CallsGood
  <2> QED
    BY <2>1, <2>2 DEF Pending, NoCall, Calls
<1>2. CASE Reload
  BY <1>2 DEF Reload, Pending, NoCall
<1>3. ASSUME NEW i \in Ids, Button(i) PROVE PendingKept(o, j)
  <2>1. CASE CancelSend(i)
    <3>1. CASE o = "cancel" /\ j = i
      <4>1. Shown(i) /\ items[i] \in Row /\ SessionKept(i)
        BY <2>1, SessionMoves DEF CancelSend, Cancellable, Shown, RowsGood, Row
      <4>2. call'[o][j].row = [items[i] EXCEPT !.status = "cancelling"]
        BY <2>1, <3>1 DEF CancelSend, CallsGood, NoCall
      <4> QED
        BY <3>1, <4>1, <4>2 DEF PendingKept, Row
    <3>2. CASE o # "cancel" \/ j # i
      BY <2>1, <3>2 DEF CancelSend, PendingKept, Pending, CallsGood
    <3> QED
      BY <3>1, <3>2
  <2>2. CASE RetrySend(i)
    <3>1. CASE o = "retry" /\ j = i
      BY <2>2, <3>1, SessionMoves DEF RetrySend, Shown, CallsGood, NoCall, PendingKept
    <3>2. CASE o # "retry" \/ j # i
      BY <2>2, <3>2 DEF RetrySend, PendingKept, Pending, CallsGood
    <3> QED
      BY <3>1, <3>2
  <2>3. CASE \/ Pause(i) \/ CancelLocal(i) \/ RetryLocal(i) \/ Dismiss(i)
             \/ (\E file \in Contents \cup {NoFile} : Reselect(i, file))
    BY <2>3, PendingMoves
       DEF Pause, CancelLocal, RetryLocal, Dismiss, Reselect, PendingKept, mountVars
  <2> QED
    BY <1>3, <2>1, <2>2, <2>3 DEF Button
<1>4. ASSUME NEW i \in Ids, CallStep(i) PROVE PendingKept(o, j)
  <2>1. CASE CancelArrives(i)
    <3>1. call["cancel"][i] \in Calls /\ call["cancel"][i].pc = "sent"
      BY <2>1 DEF CancelArrives, CallsGood
    <3>2. CASE o = "cancel" /\ j = i
      BY <2>1, <3>1, <3>2 DEF CancelArrives, PendingKept, Pending, CallsGood, Calls
    <3>3. CASE o # "cancel" \/ j # i
      BY <2>1, <3>3 DEF CancelArrives, PendingKept, Pending, CallsGood
    <3> QED
      BY <3>2, <3>3
  <2>2. CASE CancelSucceeds(i)
    BY <2>2, PendingMoves DEF CancelSucceeds, PendingKept, mountVars
  <2>3. CASE CancelFails(i)
    BY <2>3, PendingMoves DEF CancelFails, PendingKept, mountVars
  <2>4. CASE RetryArrives(i)
    <3>1. call["retry"][i] \in Calls /\ call["retry"][i].pc = "sent"
      BY <2>4 DEF RetryArrives, CallsGood
    <3>2. CASE o = "retry" /\ j = i
      BY <2>4, <3>1, <3>2 DEF RetryArrives, PendingKept, Pending, CallsGood, Calls
    <3>3. CASE o # "retry" \/ j # i
      BY <2>4, <3>3 DEF RetryArrives, PendingKept, Pending, CallsGood
    <3> QED
      BY <3>2, <3>3
  <2>5. CASE RetryAnswered(i)
    BY <2>5, PendingMoves DEF RetryAnswered, PendingKept, mountVars
  <2>6. CASE RetryFails(i)
    BY <2>6, PendingMoves DEF RetryFails, PendingKept, mountVars
  <2> QED
    BY <1>4, <2>1, <2>2, <2>3, <2>4, <2>5, <2>6 DEF CallStep
<1>5. ASSUME NEW r \in Slots, RunStep(r) PROVE PendingKept(o, j)
  BY <1>5, PendingMoves
     DEF RunStep, HashDiffers, Hashed, GetResumes, GetSettles, CreateArrives,
        CreateRefused, Duplicate, CreatedCancelled, Created, DropSucceeds, DropFails,
        PartsDone, CompleteArrives, CompleteIgnored, Completed, Unwinds, Fails,
        PendingKept, mountVars
<1>6. CASE \/ (\E u \in Users : SignIn(u)) \/ RestoreLocal \/ RestoreRemote \/ Restored
           \/ RestoreFails \/ PollAnswered \/ PollFails
           \/ (\E i \in NewIds, file \in Contents \cup {NoFile} : AddFile(i, file))
           \/ (\E i \in Ids : PollArrives(i))
           \/ (\E r \in Slots, i \in Ids : Start(r, i))
           \/ (\E s \in Sessions : ServerMoves(s))
  BY <1>6, PendingMoves
     DEF SignIn, RestoreLocal, RestoreRemote, Restored, RestoreFails, PollAnswered,
        PollFails, AddFile, PollArrives, Start, ServerMoves, PendingKept, mountVars
<1> QED
  BY <1>1, <1>2, <1>3, <1>4, <1>5, <1>6 DEF Next

Kept(j) == SessionKept(j) \/ ~ready \/ j \in NewIds \ used \/ Recording(j)

ActiveSession ==
    active # NoSlot /\ Shown(run[active].id) =>
        items[run[active].id].sess =
            IF run[active].pc \in CreatingPC THEN NoSession ELSE run[active].sess

\* The invocation of this mount goes on with the session of its row.
LEMMA ActiveKept ==
    ASSUME RunsGood, Mounting, Working, Unused, ActiveSession, \A j \in Ids : Kept(j),
           active' = active,
           active # NoSlot =>
               /\ run'[active].id = run[active].id
               /\ run'[active].pc \in CreatingPC <=> run[active].pc \in CreatingPC
               /\ run[active].pc \notin CreatingPC => run'[active].sess = run[active].sess
    PROVE  ActiveSession'
<1> SUFFICES ASSUME active # NoSlot, Shown(run[active].id)'
             PROVE  items'[run[active].id].sess =
                        IF run[active].pc \in CreatingPC THEN NoSession ELSE run[active].sess
  BY DEF ActiveSession, Shown
<1> DEFINE k == run[active].id
<1>1. active \in Slots /\ ready
  BY DEF Mounting
<1>2. run[active].pc # "idle" /\ k \in Ids
  BY <1>1 DEF Working, RunsGood, GoodRun
<1>3. k \notin NewIds \ used
  BY <1>1, <1>2 DEF Unused, UnusedWork
<1>4. ~Recording(k)
  BY DEF Recording, CreatingPC
<1>5. SessionKept(k)
  BY <1>1, <1>2, <1>3, <1>4 DEF Kept
<1> QED
  BY <1>5 DEF SessionKept, Shown, ActiveSession

\* The active invocation ends, or another one does.
LEMMA FinishActive ==
    ASSUME RunsGood, Mounting, Working, Unused, ActiveSession, \A j \in Ids : Kept(j),
           NEW r \in Slots, Finish(r)
    PROVE  ActiveSession'
<1>1. CASE active = r
  BY <1>1 DEF Finish, ActiveSession
<1>2. CASE active # r
  <2>1. active' = active /\ (active # NoSlot => run'[active] = run[active])
    BY <1>2 DEF Finish, RunsGood, Mounting
  <2> QED
    BY <2>1, ActiveKept
<1> QED
  BY <1>1, <1>2

\* An abort leaves the session of the invocation alone.
LEMMA AbortActive ==
    ASSUME RunsGood, Mounting, Working, Unused, ActiveSession, \A j \in Ids : Kept(j),
           UNCHANGED active, UNCHANGED run \/ Abort(active)
    PROVE  ActiveSession'
<1>1. CASE UNCHANGED run
  BY <1>1, ActiveKept
<1>2. CASE Abort(active) /\ active # NoSlot
  <2>1. active \in Slots /\ run[active] \in Invocations
    BY <1>2 DEF Mounting, RunsGood
  <2>2. run'[active] = [run[active] EXCEPT !.aborted = TRUE]
    BY <1>2, <2>1 DEF Abort, RunsGood
  <2> QED
    BY <2>1, <2>2, ActiveKept DEF Invocations
<1>3. CASE active = NoSlot
  BY <1>3, ActiveKept
<1> QED
  BY <1>1, <1>2, <1>3

\* The active invocation goes on with the same session.
LEMMA GotoActive ==
    ASSUME RunsGood, Mounting, Working, Unused, ActiveSession, \A j \in Ids : Kept(j),
           NEW r \in Slots, UNCHANGED active, NEW pc, Goto(r, pc),
           pc \in CreatingPC <=> run[r].pc \in CreatingPC
    PROVE  ActiveSession'
<1>1. run[r] \in Invocations /\ run'[r] = [run[r] EXCEPT !.pc = pc]
  BY DEF RunsGood, Goto
<1>2. run'[r].id = run[r].id /\ run'[r].pc = pc /\ run'[r].sess = run[r].sess
  BY <1>1 DEF Invocations
<1>3. \A q \in Slots \ {r} : run'[q] = run[q]
  BY DEF RunsGood, Goto
<1> QED
  BY <1>2, <1>3, ActiveKept DEF Mounting

\* Every step keeps the invocation of this mount and its row at one session.
LEMMA ActiveSessionStep ==
    ASSUME RowsGood, RunsGood, Mounting, Working, Unused, ActiveSession,
           \A j \in Ids : Kept(j), Next
    PROVE  ActiveSession'
<1>1. CASE SignOut
  BY <1>1 DEF SignOut, Unmounted, ActiveSession
<1>2. CASE Reload
  BY <1>2 DEF Reload, Unmounted, ActiveSession
<1>3. ASSUME NEW r \in Slots, NEW i \in Ids, Start(r, i) PROVE ActiveSession'
  <2>1. run'[r].id = i /\ run'[r].pc = "hash" /\ run'[r].sess = items[i].sess /\ active' = r
    BY <1>3 DEF Start, RunsGood, Idle
  <2>2. SessionKept(i)
    BY <1>3, SessionMoves DEF Start, Row, RowsGood
  <2> QED
    BY <2>1, <2>2 DEF ActiveSession, CreatingPC, SessionKept, Shown
<1>4. ASSUME NEW i \in Ids, Button(i) PROVE ActiveSession'
  <2>1. CASE Pause(i)
    BY <2>1, AbortActive DEF Pause, mountVars
  <2>2. CASE CancelLocal(i)
    BY <2>2, AbortActive DEF CancelLocal, mountVars
  <2>3. CASE CancelSend(i)
    BY <2>3, AbortActive DEF CancelSend, mountVars
  <2>4. CASE \/ RetryLocal(i) \/ RetrySend(i) \/ Dismiss(i)
             \/ (\E file \in Contents \cup {NoFile} : Reselect(i, file))
    BY <2>4, ActiveKept DEF RetryLocal, RetrySend, Dismiss, Reselect, mountVars
  <2> QED
    BY <1>4, <2>1, <2>2, <2>3, <2>4 DEF Button
<1>5. ASSUME NEW i \in Ids, CallStep(i) PROVE ActiveSession'
  BY <1>5, ActiveKept
     DEF CallStep, CancelArrives, CancelSucceeds, CancelFails, RetryArrives,
        RetryAnswered, RetryFails, mountVars
<1>6. ASSUME NEW r \in Slots, RunStep(r) PROVE ActiveSession'
  <2>1. CASE HashDiffers(r)
    BY <2>1, FinishActive DEF HashDiffers
  <2>2. CASE Hashed(r)
    <3> DEFINE pc == IF run[r].sess = NoSession THEN "create" ELSE "get"
    <3>1. /\ r = active /\ active # NoSlot /\ active' = active /\ run[r].pc = "hash"
          /\ run[r] \in Invocations
      BY <2>2, ConstantsAssumption DEF Hashed, At, Working, RunsGood
    <3>2. run'[r] = [run[r] EXCEPT !.pc = pc]
      BY <2>2 DEF Hashed, Goto, RunsGood
    <3>3. run'[r].id = run[r].id /\ run'[r].pc = pc /\ run'[r].sess = run[r].sess
      BY <3>1, <3>2 DEF Invocations
    <3>4. PICK k \in Ids : k = run[r].id
      BY <3>1 DEF RunsGood, GoodRun
    <3>5. SessionKept(k)
      <4> DEFINE row == [items[k] EXCEPT !.hash = run[r].row.file]
      <4>1. Update(k, row) /\ row.sess = items[k].sess
        BY <2>2, <3>4 DEF Hashed, RowsGood, Row
      <4> QED
        BY <4>1, SessionMoves
    <3>6. Shown(k)' => items'[k].sess = run[r].sess
      BY <3>1, <3>4, <3>5 DEF ActiveSession, CreatingPC, SessionKept
    <3> QED
      BY <3>1, <3>3, <3>4, <3>6 DEF ActiveSession, CreatingPC, Shown
  <2>3. CASE GetResumes(r)
    BY <2>3, GotoActive DEF GetResumes, CreatingPC, At
  <2>4. CASE GetSettles(r)
    BY <2>4, FinishActive DEF GetSettles
  <2>5. CASE \E s \in Sessions : CreateArrives(r, s)
    <3>1. PICK s \in Sessions : CreateArrives(r, s)
      BY <2>5
    <3>2. run[r] \in Invocations /\ run'[r] = [run[r] EXCEPT !.pc = "created", !.sess = s]
      BY <3>1 DEF CreateArrives, RunsGood
    <3>3. run'[r].id = run[r].id /\ run'[r].pc = "created"
      BY <3>2 DEF Invocations
    <3>4. run[r].pc = "create" /\ active' = active /\ \A q \in Slots \ {r} : run'[q] = run[q]
      BY <3>1 DEF CreateArrives, At, RunsGood
    <3> QED
      BY <3>3, <3>4, ActiveKept DEF Mounting, CreatingPC
  <2>6. CASE CreateRefused(r)
    BY <2>6, GotoActive DEF CreateRefused, CreatingPC, At
  <2>7. CASE Duplicate(r)
    BY <2>7, FinishActive DEF Duplicate
  <2>8. CASE CreatedCancelled(r)
    BY <2>8, GotoActive DEF CreatedCancelled, CreatingPC, At
  <2>9. CASE Created(r)
    <3>1. CASE run[r].aborted
      BY <2>9, <3>1, FinishActive DEF Created
    <3>2. CASE ~run[r].aborted
      <4>0. PICK k : k = run[r].id
        OBVIOUS
      <4> DEFINE row == [items[k] EXCEPT !.sess = run[r].sess,
                            !.status = IF run[r].aborted THEN @ ELSE "uploading"]
      <4>1. /\ r = active /\ ~run[r].stale /\ active' = active
            /\ k \in Ids /\ run[r] \in Invocations /\ items[k] \in Row
        BY <2>9, <3>2, <4>0 DEF Created, At, Working, RunsGood, GoodRun, RowsGood
      <4>2. run'[r] = [run[r] EXCEPT !.pc = "parts"]
        BY <2>9, <3>2 DEF Created, Goto, RunsGood
      <4>3. run'[r].id = k /\ run'[r].pc = "parts" /\ run'[r].sess = run[r].sess
        BY <4>0, <4>1, <4>2 DEF Invocations
      <4>4. Update(k, row) /\ row.sess = run[r].sess
        BY <2>9, <4>0, <4>1 DEF Created, Row
      <4>5. Shown(k)' => items'[k].sess = run[r].sess
        BY <4>1, <4>4 DEF Update, RowsGood, Shown
      <4> QED
        BY <4>1, <4>3, <4>5 DEF ActiveSession, CreatingPC, Shown
    <3> QED
      BY <3>1, <3>2
  <2>10. CASE DropSucceeds(r)
    BY <2>10, FinishActive DEF DropSucceeds
  <2>11. CASE DropFails(r)
    BY <2>11, FinishActive DEF DropFails
  <2>12. CASE PartsDone(r)
    BY <2>12, GotoActive DEF PartsDone, CreatingPC, At
  <2>13. CASE CompleteArrives(r)
    <3> DEFINE s == run[r].sess
               after == IF srv[s].status = "uploading" THEN "processing" ELSE srv[s].status
    <3>1. run[r] \in Invocations /\ run'[r] = [run[r] EXCEPT !.pc = "completed", !.ans = after]
      BY <2>13 DEF CompleteArrives, RunsGood
    <3>2. run'[r].id = run[r].id /\ run'[r].pc = "completed" /\ run'[r].sess = run[r].sess
      BY <3>1 DEF Invocations
    <3>3. run[r].pc = "complete" /\ active' = active /\ \A q \in Slots \ {r} : run'[q] = run[q]
      BY <2>13 DEF CompleteArrives, At, RunsGood
    <3> QED
      BY <3>2, <3>3, ActiveKept DEF Mounting, CreatingPC
  <2>14. CASE CompleteIgnored(r)
    BY <2>14, FinishActive DEF CompleteIgnored
  <2>15. CASE Completed(r)
    BY <2>15, FinishActive DEF Completed
  <2>16. CASE Unwinds(r)
    BY <2>16, FinishActive DEF Unwinds
  <2>17. CASE Fails(r)
    BY <2>17, FinishActive DEF Fails
  <2> QED
    BY <1>6, <2>1, <2>2, <2>3, <2>4, <2>5, <2>6, <2>7, <2>8, <2>9, <2>10, <2>11, <2>12,
       <2>13, <2>14, <2>15, <2>16, <2>17
       DEF RunStep
<1>7. CASE \/ (\E u \in Users : SignIn(u)) \/ RestoreLocal \/ RestoreRemote \/ Restored
           \/ RestoreFails \/ PollAnswered \/ PollFails
           \/ (\E i \in NewIds, file \in Contents \cup {NoFile} : AddFile(i, file))
           \/ (\E i \in Ids : PollArrives(i)) \/ (\E s \in Sessions : ServerMoves(s))
  BY <1>7, ActiveKept
     DEF SignIn, RestoreLocal, RestoreRemote, Restored, RestoreFails, PollAnswered,
        PollFails, AddFile, PollArrives, ServerMoves, mountVars
<1> QED
  BY <1>1, <1>2, <1>3, <1>4, <1>5, <1>6, <1>7 DEF Next

\* The poll stays in flight, is given up, or is sent for a row in processing.
LEMMA PollMoves ==
    ASSUME Next
    PROVE  poll' = poll \/ poll' = NoPoll \/ \E i \in Ids : PollArrives(i)
<1>1. ASSUME NEW i \in Ids, Button(i) PROVE poll' = poll
  BY <1>1
  DEF Button, Pause, CancelLocal, CancelSend, RetryLocal, RetrySend, Dismiss, Reselect
<1>2. ASSUME NEW i \in Ids, CallStep(i) PROVE poll' \in {poll, NoPoll}
  BY <1>2 DEF CallStep, CancelArrives, CancelSucceeds, CancelFails, RetryArrives,
              RetryAnswered, RetryFails, KeepPoll
<1>3. ASSUME NEW r \in Slots, RunStep(r) PROVE poll' \in {poll, NoPoll}
  BY <1>3 DEF RunStep, HashDiffers, Hashed, GetResumes, GetSettles, CreateArrives,
              CreateRefused, Duplicate, CreatedCancelled, Created, DropSucceeds, DropFails,
              PartsDone, CompleteArrives, CompleteIgnored, Completed, Unwinds, Fails, KeepPoll
<1> QED
  BY <1>1, <1>2, <1>3
  DEF Next, SignIn, RestoreLocal, RestoreRemote, Restored, RestoreFails, SignOut, Reload,
      Unmounted, PollAnswered, PollFails, AddFile, Start, ServerMoves, KeepPoll

\* Every step keeps the session of a row that is worked for.
LEMMA SameSessionStep ==
    ASSUME RowsGood, RunsGood, CallsGood, PollGood, Mounting, Working, SameSession, Unused,
           Next
    PROVE  SameSession'
<1>1. \A j \in Ids : Kept(j)
  BY SessionStep DEF Kept
<1>2. ActiveSession'
  BY <1>1, ActiveSessionStep DEF ActiveSession, SameSession
<1>3. ASSUME NEW o \in {"cancel", "retry"}, NEW j \in Ids, Pending(o, j)', Shown(j)'
      PROVE  items'[j].sess = call'[o][j].row.sess
  <2>1. CASE Pending(o, j) /\ call'[o][j].row = call[o][j].row
    <3>1. ready /\ j \notin NewIds \ used
      BY <2>1 DEF Mounting, Unused, UnusedWork, Pending
    <3>2. call[o][j].row.sess \in Sessions
      BY <2>1 DEF CallsGood, GoodCall, Pending
    <3>3. ~Recording(j)
      BY <2>1, <3>2, ConstantsAssumption DEF Recording, SameSession
    <3>4. SessionKept(j)
      BY <1>1, <3>1, <3>3 DEF Kept
    <3> QED
      BY <1>3, <2>1, <3>4 DEF SessionKept, SameSession
  <2>2. CASE Shown(j) /\ call'[o][j].row.sess = items[j].sess /\ SessionKept(j)
    BY <1>3, <2>2 DEF SessionKept
  <2> QED
    BY <1>3, <2>1, <2>2, PendingStep DEF PendingKept
<1>4. ASSUME poll' # NoPoll, Shown(poll.id)' PROVE items'[poll'.id].sess = poll'.sess
  <2>1. CASE poll' = poll
    <3>1. poll # NoPoll /\ poll.id \in Ids /\ Past(poll.sess)
      BY <1>4, <2>1 DEF PollGood
    <3>2. ready /\ poll.id \notin NewIds \ used
      BY <3>1 DEF Mounting, Unused, UnusedWork
    <3>3. ~Recording(poll.id)
      BY <3>1, ConstantsAssumption DEF Recording, SameSession, Past
    <3>4. SessionKept(poll.id)
      BY <1>1, <3>1, <3>2, <3>3 DEF Kept
    <3> QED
      BY <1>4, <2>1, <3>1, <3>4 DEF SessionKept, SameSession, Shown
  <2>2. ASSUME NEW i \in Ids, PollArrives(i) PROVE items'[poll'.id].sess = poll'.sess
    BY <2>2 DEF PollArrives
  <2> QED
    BY <1>4, <2>1, <2>2, PollMoves
<1> QED
  BY <1>2, <1>3, <1>4 DEF SameSession, ActiveSession, Shown

---------------------------------------------------------------------------
(* No stuck row *)

WorkKept(j) == (Works(j) => Works(j)') /\ (Creates(j) => Creates(j)')

\* The invocation of this mount goes on with the same row.
LEMMA WorkMoves ==
    ASSUME NEW j, active' = active,
           active # NoSlot =>
               /\ run'[active].id = run[active].id
               /\ run[active].pc \in CreatingPC /\ run[active].id = j
                      => run'[active].pc \in CreatingPC
    PROVE  WorkKept(j)
BY DEF WorkKept, Works, Creates

\* What keeps the excuses of a row whose status and session stay.
LEMMA SettledKept ==
    ASSUME NEW j \in Ids, RowSettled(j), WorkKept(j),
           items'[j].status = items[j].status, items'[j].sess = items[j].sess,
           Pending("cancel", j) => Pending("cancel", j)', j \in cancelled' <=> j \in cancelled
    PROVE  RowSettled(j)'
BY DEF RowSettled, WorkKept, Shown

\* A row in a status that waits for nobody.
LEMMA SettledQuiet ==
    ASSUME NEW j \in Ids, RowSettled(j),
           items'[j].status \notin Busy \cup {"cancelling"},
           \/ items'[j].status = "absent"
           \/ /\ items'[j].sess = NoSession \/ j \notin cancelled'
           \/ /\ Shown(j) /\ items'[j].sess = items[j].sess
              /\ Pending("cancel", j) => Pending("cancel", j)'
              /\ j \in cancelled' => j \in cancelled
    PROVE  RowSettled(j)'
BY DEF RowSettled, Shown

\* What the helpers do to the row of one id.
LEMMA RowAt ==
    ASSUME RowsGood, NEW i \in Ids, NEW j \in Ids
    PROVE  /\ \A row : Update(i, row) =>
                  items'[j] = IF i = j /\ Shown(j) THEN row ELSE items[j]
           /\ Remove(i) => items'[j] = IF i = j THEN Absent ELSE items[j]
           /\ \A u, k, row : StoreFor(u, k, row) => items'[j] = items[j]
BY DEF RowsGood, Update, Remove, StoreFor

\* An invocation that is not of this mount, or of another row.
LEMMA FinishWork ==
    ASSUME RunsGood, Mounting, NEW r \in Slots, NEW j, Finish(r),
           active # r \/ run[r].id # j
    PROVE  WorkKept(j)
<1>1. CASE active = r
  BY <1>1 DEF WorkKept, Works, Creates
<1>2. CASE active # r
  BY <1>2, WorkMoves DEF Finish, RunsGood, Mounting
<1> QED
  BY <1>1, <1>2

\* An aborted invocation still works for its row until it ends.
LEMMA AbortWork ==
    ASSUME RunsGood, Mounting, NEW j, UNCHANGED active, UNCHANGED run \/ Abort(active)
    PROVE  WorkKept(j)
<1>1. CASE UNCHANGED run
  BY <1>1, WorkMoves
<1>2. CASE Abort(active) /\ active # NoSlot
  <2>1. active \in Slots /\ run[active] \in Invocations
    BY <1>2 DEF Mounting, RunsGood
  <2>2. run'[active] = [run[active] EXCEPT !.aborted = TRUE]
    BY <1>2, <2>1 DEF Abort, RunsGood
  <2> QED
    BY <2>1, <2>2, WorkMoves DEF Invocations
<1>3. CASE active = NoSlot
  BY <1>3, WorkMoves
<1> QED
  BY <1>1, <1>2, <1>3

\* An invocation of this mount goes to another place, or is only waiting there.
LEMMA GotoWork ==
    ASSUME RunsGood, Mounting, NEW r \in Slots, UNCHANGED active, NEW j, NEW pc,
           NEW inv \in Invocations, inv.id = run[r].id, inv.pc = pc,
           run' = [run EXCEPT ![r] = inv],
           pc \notin CreatingPC /\ r = active /\ run[r].id = j => run[r].pc \notin CreatingPC
    PROVE  WorkKept(j)
<1>1. run'[r] = inv /\ \A q \in Slots \ {r} : run'[q] = run[q]
  BY DEF RunsGood
<1> QED
  BY <1>1, WorkMoves DEF Mounting

\* An invocation that goes on still works for its row.
LEMMA MoveWork ==
    ASSUME RunsGood, Mounting, NEW r \in Slots, UNCHANGED active, NEW j, NEW pc \in RunPC,
           pc \notin CreatingPC /\ r = active /\ run[r].id = j => run[r].pc \notin CreatingPC,
           \/ Goto(r, pc)
           \/ \E s \in Sessions : run' = [run EXCEPT ![r] = [@ EXCEPT !.pc = pc, !.sess = s]]
           \/ \E ans \in ServerStatuses : run' = [run EXCEPT ![r] = [@ EXCEPT !.pc = pc, !.ans = ans]]
    PROVE  WorkKept(j)
<1>1. run[r] \in Invocations
  BY DEF RunsGood
<1>2. CASE Goto(r, pc)
  <2>1. PICK inv : inv = [run[r] EXCEPT !.pc = pc]
    OBVIOUS
  <2>2. inv \in Invocations /\ inv.id = run[r].id /\ inv.pc = pc
    BY <1>1, <2>1 DEF Invocations
  <2>3. run' = [run EXCEPT ![r] = inv]
    BY <1>2, <2>1 DEF Goto
  <2> QED
    BY <2>2, <2>3, GotoWork
<1>3. ASSUME NEW s \in Sessions, run' = [run EXCEPT ![r] = [@ EXCEPT !.pc = pc, !.sess = s]]
      PROVE  WorkKept(j)
  <2>1. PICK inv : inv = [run[r] EXCEPT !.pc = pc, !.sess = s]
    OBVIOUS
  <2>2. inv \in Invocations /\ inv.id = run[r].id /\ inv.pc = pc
    BY <1>1, <2>1 DEF Invocations
  <2>3. run' = [run EXCEPT ![r] = inv]
    BY <1>3, <2>1
  <2> QED
    BY <2>2, <2>3, GotoWork
<1>4. ASSUME NEW ans \in ServerStatuses, run' = [run EXCEPT ![r] = [@ EXCEPT !.pc = pc, !.ans = ans]]
      PROVE  WorkKept(j)
  <2>1. PICK inv : inv = [run[r] EXCEPT !.pc = pc, !.ans = ans]
    OBVIOUS
  <2>2. inv \in Invocations /\ inv.id = run[r].id /\ inv.pc = pc
    BY <1>1, <2>1 DEF Invocations
  <2>3. run' = [run EXCEPT ![r] = inv]
    BY <1>4, <2>1
  <2> QED
    BY <2>2, <2>3, GotoWork
<1> QED
  BY <1>2, <1>3, <1>4

\* An invocation of an earlier mount, or of another row, leaves the row to its work.
LEMMA RunElsewhere ==
    ASSUME RowsGood, RunsGood, Mounting, Working, NEW j \in Ids, NEW r \in Slots, RunStep(r),
           run[r].stale \/ run[r].id # j
    PROVE  /\ items'[j] = items[j] /\ UNCHANGED call /\ (j \in cancelled' <=> j \in cancelled)
           /\ WorkKept(j)
<1>0. /\ run[r].pc # "idle" /\ run[r].id \in Ids
      /\ active # r \/ run[r].id # j
      /\ run[r].stale => run[r].aborted
  <2>1. run[r].pc # "idle"
    BY
    DEF RunStep, HashDiffers, Hashed, GetResumes, GetSettles, CreateArrives,
        CreateRefused,
       Duplicate, CreatedCancelled, Created, DropSucceeds, DropFails, PartsDone,
       CompleteArrives, CompleteIgnored, Completed, Unwinds, Fails, At
  <2> QED
    BY <2>1 DEF RunsGood, GoodRun, Working
<1>1. CASE HashDiffers(r)
  <2>1. items'[j] = items[j] /\ UNCHANGED call /\ (j \in cancelled' <=> j \in cancelled)
    BY <1>1, <1>0, RowAt DEF HashDiffers, At, mountVars
  <2>2. WorkKept(j)
    BY <1>1, <1>0, FinishWork DEF HashDiffers
  <2> QED
    BY <2>1, <2>2
<1>2. CASE Hashed(r)
  <2>1. items'[j] = items[j] /\ UNCHANGED call /\ (j \in cancelled' <=> j \in cancelled)
    BY <1>2, <1>0, RowAt DEF Hashed, At, mountVars
  <2>2. WorkKept(j)
    <3>1. PICK pc \in RunPC : pc = (IF run[r].sess = NoSession THEN "create" ELSE "get")
      BY DEF RunPC
    <3>2. pc \notin CreatingPC => run[r].pc \notin CreatingPC
      BY <1>2, <3>1 DEF Hashed, At, CreatingPC
    <3>3. UNCHANGED active /\ Goto(r, pc)
      BY <1>2, <3>1 DEF Hashed
    <3> QED
      BY <3>2, <3>3, MoveWork
  <2> QED
    BY <2>1, <2>2
<1>3. CASE GetResumes(r)
  <2>1. items'[j] = items[j] /\ UNCHANGED call /\ (j \in cancelled' <=> j \in cancelled)
    BY <1>3, <1>0, RowAt DEF GetResumes, At, mountVars
  <2>2. WorkKept(j)
    <3>1. PICK pc \in RunPC : pc = "parts"
      BY DEF RunPC
    <3>2. pc \notin CreatingPC => run[r].pc \notin CreatingPC
      BY <1>3, <3>1 DEF GetResumes, At, CreatingPC
    <3>3. UNCHANGED active /\ Goto(r, pc)
      BY <1>3, <3>1 DEF GetResumes
    <3> QED
      BY <3>2, <3>3, MoveWork
  <2> QED
    BY <2>1, <2>2
<1>4. CASE GetSettles(r)
  <2>1. items'[j] = items[j] /\ UNCHANGED call /\ (j \in cancelled' <=> j \in cancelled)
    BY <1>4, <1>0, RowAt DEF GetSettles, At, mountVars
  <2>2. WorkKept(j)
    BY <1>4, <1>0, FinishWork DEF GetSettles
  <2> QED
    BY <2>1, <2>2
<1>5. CASE \E s \in Sessions : CreateArrives(r, s)
  <2>1. items'[j] = items[j] /\ UNCHANGED call /\ (j \in cancelled' <=> j \in cancelled)
    BY <1>5, <1>0, RowAt DEF CreateArrives, At, mountVars
  <2>2. WorkKept(j)
    <3>1. PICK pc \in RunPC : pc = "created"
      BY DEF RunPC
    <3>2. pc \notin CreatingPC => run[r].pc \notin CreatingPC
      BY <1>5, <3>1 DEF CreateArrives, At, CreatingPC
    <3>3. UNCHANGED active /\ \E s \in Sessions : run' = [run EXCEPT ![r] = [@ EXCEPT !.pc = pc, !.sess = s]]
      BY <1>5, <3>1 DEF CreateArrives
    <3> QED
      BY <3>2, <3>3, MoveWork
  <2> QED
    BY <2>1, <2>2
<1>6. CASE CreateRefused(r)
  <2>1. items'[j] = items[j] /\ UNCHANGED call /\ (j \in cancelled' <=> j \in cancelled)
    BY <1>6, <1>0, RowAt DEF CreateRefused, At, mountVars
  <2>2. WorkKept(j)
    <3>1. PICK pc \in RunPC : pc = "duplicate"
      BY DEF RunPC
    <3>2. pc \notin CreatingPC => run[r].pc \notin CreatingPC
      BY <1>6, <3>1 DEF CreateRefused, At, CreatingPC
    <3>3. UNCHANGED active /\ Goto(r, pc)
      BY <1>6, <3>1 DEF CreateRefused
    <3> QED
      BY <3>2, <3>3, MoveWork
  <2> QED
    BY <2>1, <2>2
<1>7. CASE Duplicate(r)
  <2>1. items'[j] = items[j] /\ UNCHANGED call /\ (j \in cancelled' <=> j \in cancelled)
    BY <1>7, <1>0, RowAt DEF Duplicate, Flagged, At, Write, Erase, mountVars
  <2>2. WorkKept(j)
    BY <1>7, <1>0, FinishWork DEF Duplicate
  <2> QED
    BY <2>1, <2>2
<1>8. CASE CreatedCancelled(r)
  <2>1. items'[j] = items[j] /\ UNCHANGED call /\ (j \in cancelled' <=> j \in cancelled)
    BY <1>8, <1>0, RowAt DEF CreatedCancelled, Flagged, At, mountVars
  <2>2. WorkKept(j)
    <3>1. PICK pc \in RunPC : pc = "drop"
      BY DEF RunPC
    <3>2. pc \notin CreatingPC => run[r].pc \notin CreatingPC
      BY <1>8, <3>1 DEF CreatedCancelled, At, CreatingPC
    <3>3. UNCHANGED active /\ Goto(r, pc)
      BY <1>8, <3>1 DEF CreatedCancelled
    <3> QED
      BY <3>2, <3>3, MoveWork
  <2> QED
    BY <2>1, <2>2
<1>9. CASE Created(r)
  <2>1. items'[j] = items[j] /\ UNCHANGED call /\ (j \in cancelled' <=> j \in cancelled)
    BY <1>9, <1>0, RowAt DEF Created, Flagged, At, mountVars
  <2>2. CASE run[r].aborted
    BY <1>9, <1>0, <2>1, <2>2, FinishWork DEF Created
  <2>3. CASE ~run[r].aborted
    <3>1. UNCHANGED active /\ Goto(r, "parts") /\ "parts" \in RunPC
      BY <1>9, <2>3 DEF Created, RunPC
    <3>2. WorkKept(j)
      BY <1>0, <3>1, MoveWork
    <3> QED
      BY <2>1, <3>2
  <2> QED
    BY <2>1, <2>2, <2>3
<1>10. CASE DropSucceeds(r)
  <2>1. items'[j] = items[j] /\ UNCHANGED call /\ (j \in cancelled' <=> j \in cancelled)
    BY <1>10, <1>0, RowAt DEF DropSucceeds, At, Erase, mountVars
  <2>2. WorkKept(j)
    BY <1>10, <1>0, FinishWork DEF DropSucceeds
  <2> QED
    BY <2>1, <2>2
<1>11. CASE DropFails(r)
  <2>1. items'[j] = items[j] /\ UNCHANGED call /\ (j \in cancelled' <=> j \in cancelled)
    BY <1>11, <1>0, RowAt DEF DropFails, At, Write, mountVars
  <2>2. WorkKept(j)
    BY <1>11, <1>0, FinishWork DEF DropFails
  <2> QED
    BY <2>1, <2>2
<1>12. CASE PartsDone(r)
  <2>1. items'[j] = items[j] /\ UNCHANGED call /\ (j \in cancelled' <=> j \in cancelled)
    BY <1>12, <1>0, RowAt DEF PartsDone, At, mountVars
  <2>2. WorkKept(j)
    <3>1. PICK pc \in RunPC : pc = "complete"
      BY DEF RunPC
    <3>2. pc \notin CreatingPC => run[r].pc \notin CreatingPC
      BY <1>12, <3>1 DEF PartsDone, At, CreatingPC
    <3>3. UNCHANGED active /\ Goto(r, pc)
      BY <1>12, <3>1 DEF PartsDone
    <3> QED
      BY <3>2, <3>3, MoveWork
  <2> QED
    BY <2>1, <2>2
<1>13. CASE CompleteArrives(r)
  <2>1. items'[j] = items[j] /\ UNCHANGED call /\ (j \in cancelled' <=> j \in cancelled)
    BY <1>13, <1>0, RowAt DEF CompleteArrives, At, mountVars
  <2>2. WorkKept(j)
    <3>1. PICK pc \in RunPC : pc = "completed"
      BY DEF RunPC
    <3>2. pc \notin CreatingPC => run[r].pc \notin CreatingPC
      BY <1>13, <3>1 DEF CompleteArrives, At, CreatingPC
    <3>3. UNCHANGED active /\ \E ans \in ServerStatuses :
                                  run' = [run EXCEPT ![r] = [@ EXCEPT !.pc = pc, !.ans = ans]]
      BY <1>13, <3>1 DEF CompleteArrives, ServerStatuses
    <3> QED
      BY <3>2, <3>3, MoveWork
  <2> QED
    BY <2>1, <2>2
<1>14. CASE CompleteIgnored(r)
  <2>1. items'[j] = items[j] /\ UNCHANGED call /\ (j \in cancelled' <=> j \in cancelled)
    BY <1>14, <1>0, RowAt DEF CompleteIgnored, Flagged, At, mountVars
  <2>2. WorkKept(j)
    BY <1>14, <1>0, FinishWork DEF CompleteIgnored
  <2> QED
    BY <2>1, <2>2
<1>15. CASE Completed(r)
  <2>1. items'[j] = items[j] /\ UNCHANGED call /\ (j \in cancelled' <=> j \in cancelled)
    BY <1>15, <1>0, RowAt DEF Completed, Flagged, At, mountVars
  <2>2. WorkKept(j)
    BY <1>15, <1>0, FinishWork DEF Completed
  <2> QED
    BY <2>1, <2>2
<1>16. CASE Unwinds(r)
  <2>1. items'[j] = items[j] /\ UNCHANGED call /\ (j \in cancelled' <=> j \in cancelled)
    BY <1>16, <1>0, RowAt DEF Unwinds, mountVars
  <2>2. WorkKept(j)
    BY <1>16, <1>0, FinishWork DEF Unwinds
  <2> QED
    BY <2>1, <2>2
<1>17. CASE Fails(r)
  <2>1. items'[j] = items[j] /\ UNCHANGED call /\ (j \in cancelled' <=> j \in cancelled)
    BY <1>17, <1>0, RowAt DEF Fails, mountVars
  <2>2. WorkKept(j)
    BY <1>17, <1>0, FinishWork DEF Fails
  <2> QED
    BY <2>1, <2>2
<1> QED
  BY <1>1, <1>2, <1>3, <1>4, <1>5, <1>6, <1>7, <1>8, <1>9, <1>10, <1>11, <1>12, <1>13,
     <1>14, <1>15, <1>16, <1>17
     DEF RunStep

\* The row that the invocation works for is settled by its last step, or goes on
\* being worked on.
LEMMA RunHere ==
    ASSUME RowsGood, RunsGood, CallsGood, Mounting, Working, SameSession, ActiveSettled,
           NEW j \in Ids, RowSettled(j), NEW r \in Slots, RunStep(r),
           ~run[r].stale, run[r].id = j
    PROVE  RowSettled(j)'
<1>0. /\ run[r].pc # "idle" /\ r = active /\ active # NoSlot /\ GoodRun(run[r])
      /\ run[r].aborted \in BOOLEAN /\ account \in Users
      /\ items[j] \in Row /\ run[r].row \in Row
  <2>1. run[r].pc # "idle"
    BY
    DEF RunStep, HashDiffers, Hashed, GetResumes, GetSettles, CreateArrives,
        CreateRefused,
       Duplicate, CreatedCancelled, Created, DropSucceeds, DropFails, PartsDone,
       CompleteArrives, CompleteIgnored, Completed, Unwinds, Fails, At
  <2> QED
    BY <2>1, ConstantsAssumption DEF RowsGood, RunsGood, GoodRun, Working, Invocations
<1>1. CASE HashDiffers(r)
  <2>1. PICK row : row = [items[j] EXCEPT !.status = "needs_file", !.file = NoFile]
    OBVIOUS
  <2>2. row.sess = items[j].sess
    BY <1>0, <2>1 DEF Row
  <2>3. \/ Update(j, row) /\ row.status = "needs_file"
        \/ Remove(j)
    BY <1>1, <1>0, <2>1 DEF HashDiffers, Row
  <2>4. UNCHANGED <<call, cancelled>>
    BY <1>1 DEF HashDiffers, mountVars
  <2>5. \/ Shown(j) /\ items'[j] = row /\ row.status = "needs_file"
        \/ items'[j].status = "absent"
    BY <2>3, RowAt DEF Shown, Absent
  <2> QED
    BY <2>2, <2>4, <2>5, SettledQuiet DEF Busy, Pending, Shown
<1>2. CASE Hashed(r)
  <2>1. /\ items'[j].status = items[j].status /\ items'[j].sess = items[j].sess
        /\ UNCHANGED call /\ (j \in cancelled' <=> j \in cancelled)
    BY <1>2, <1>0, RowAt DEF Hashed, At, mountVars, Row
  <2>2. WorkKept(j)
    <3>1. PICK pc \in RunPC : pc = (IF run[r].sess = NoSession THEN "create" ELSE "get")
      BY DEF RunPC
    <3>2. pc \notin CreatingPC => run[r].pc \notin CreatingPC
      BY <1>2, <3>1 DEF Hashed, At, CreatingPC
    <3>3. UNCHANGED active /\ Goto(r, pc)
      BY <1>2, <3>1 DEF Hashed
    <3> QED
      BY <3>2, <3>3, MoveWork
  <2> QED
    BY <2>1, <2>2, SettledKept DEF Pending
<1>3. CASE GetResumes(r)
  <2>1. active # NoSlot /\ run[active].id = j /\ active' = active
    BY <1>3, <1>0 DEF GetResumes
  <2>2. run'[r].id = run[r].id
    BY <1>3 DEF GetResumes, Goto, RunsGood, Invocations
  <2>3. Works(j)'
    BY <1>0, <2>1, <2>2 DEF Works
  <2>4. /\ UNCHANGED <<call, cancelled>> /\ items'[j].sess = items[j].sess
        /\ items'[j].status \in {"absent", "uploading"} /\ (Shown(j)' <=> Shown(j))
    BY <1>3, <1>0, RowAt DEF GetResumes, Row, Shown, mountVars
  <2> QED
    BY <2>3, <2>4 DEF RowSettled, Busy, Shown, Pending
<1>4. CASE GetSettles(r)
  <2>1. PICK row : row = [items[j] EXCEPT !.status = srv[run[r].sess].status, !.file = NoFile]
    OBVIOUS
  <2>2. row.sess = items[j].sess
    BY <1>0, <2>1 DEF Row
  <2>3. \/ Update(j, row) /\ row.status \in {"processing", "error"}
        \/ Remove(j)
    BY <1>4, <1>0, <2>1 DEF GetSettles, Row
  <2>4. UNCHANGED <<call, cancelled>>
    BY <1>4 DEF GetSettles, mountVars
  <2>5. \/ Shown(j) /\ items'[j] = row /\ row.status \in {"processing", "error"}
        \/ items'[j].status = "absent"
    BY <2>3, RowAt DEF Shown, Absent
  <2> QED
    BY <2>2, <2>4, <2>5, SettledQuiet DEF Busy, Pending, Shown
<1>5. CASE \E s \in Sessions : CreateArrives(r, s)
  <2>1. /\ items'[j].status = items[j].status /\ items'[j].sess = items[j].sess
        /\ UNCHANGED call /\ (j \in cancelled' <=> j \in cancelled)
    BY <1>5, <1>0, RowAt DEF CreateArrives, At, mountVars, Row
  <2>2. WorkKept(j)
    <3>1. PICK pc \in RunPC : pc = "created"
      BY DEF RunPC
    <3>2. pc \notin CreatingPC => run[r].pc \notin CreatingPC
      BY <1>5, <3>1 DEF CreateArrives, At, CreatingPC
    <3>3. UNCHANGED active /\ \E s \in Sessions : run' = [run EXCEPT ![r] = [@ EXCEPT !.pc = pc, !.sess = s]]
      BY <1>5, <3>1 DEF CreateArrives
    <3> QED
      BY <3>2, <3>3, MoveWork
  <2> QED
    BY <2>1, <2>2, SettledKept DEF Pending
<1>6. CASE CreateRefused(r)
  <2>1. /\ items'[j].status = items[j].status /\ items'[j].sess = items[j].sess
        /\ UNCHANGED call /\ (j \in cancelled' <=> j \in cancelled)
    BY <1>6, <1>0, RowAt DEF CreateRefused, At, mountVars, Row
  <2>2. WorkKept(j)
    <3>1. PICK pc \in RunPC : pc = "duplicate"
      BY DEF RunPC
    <3>2. pc \notin CreatingPC => run[r].pc \notin CreatingPC
      BY <1>6, <3>1 DEF CreateRefused, At, CreatingPC
    <3>3. UNCHANGED active /\ Goto(r, pc)
      BY <1>6, <3>1 DEF CreateRefused
    <3> QED
      BY <3>2, <3>3, MoveWork
  <2> QED
    BY <2>1, <2>2, SettledKept DEF Pending
<1>7. CASE Duplicate(r)
  <2>1. PICK row : row = [run[r].row EXCEPT !.status = "duplicate", !.file = NoFile]
    OBVIOUS
  <2>2. row.status = "duplicate"
    BY <1>0, <2>1 DEF Row
  <2>3. CASE j \in cancelled
    <3>1. items'[j].status = "absent"
      BY <1>7, <2>3, RowAt DEF Duplicate, Flagged, Erase, Absent
    <3> QED
      BY <3>1, SettledQuiet DEF Busy
  <2>4. CASE j \notin cancelled
    <3>1. Update(j, row) /\ j \notin cancelled'
      BY <1>7, <2>1, <2>4 DEF Duplicate, Flagged, Write, mountVars
    <3>2. items'[j].status \in {"duplicate", "absent"}
      BY <2>2, <3>1, RowAt DEF Shown
    <3> QED
      BY <3>1, <3>2, SettledQuiet DEF Busy
  <2> QED
    BY <2>3, <2>4
<1>8. CASE CreatedCancelled(r)
  <2>1. /\ items'[j].status = items[j].status /\ items'[j].sess = items[j].sess
        /\ UNCHANGED call /\ (j \in cancelled' <=> j \in cancelled)
    BY <1>8, <1>0, RowAt DEF CreatedCancelled, Flagged, At, mountVars, Row
  <2>2. WorkKept(j)
    <3>1. PICK pc \in RunPC : pc = "drop"
      BY DEF RunPC
    <3>2. pc \notin CreatingPC => run[r].pc \notin CreatingPC
      BY <1>8, <3>1 DEF CreatedCancelled, At, CreatingPC
    <3>3. UNCHANGED active /\ Goto(r, pc)
      BY <1>8, <3>1 DEF CreatedCancelled
    <3> QED
      BY <3>2, <3>3, MoveWork
  <2> QED
    BY <2>1, <2>2, SettledKept DEF Pending
<1>9. CASE Created(r)
  <2>1. UNCHANGED call /\ j \notin cancelled' /\ j \notin cancelled
    BY <1>9, <1>0 DEF Created, Flagged, mountVars
  <2>2. items[j].status # "cancelling"
    <3>1. Shown(j) => items[j].sess = NoSession
      BY <1>9, <1>0 DEF Created, At, CreatingPC, SameSession
    <3>2. call["cancel"][j].pc # "none" => call["cancel"][j].row.sess \in Sessions
      BY DEF CallsGood, GoodCall
    <3>3. Pending("cancel", j) => ~Shown(j)
      BY <3>1, <3>2, ConstantsAssumption DEF SameSession, Pending
    <3> QED
      BY <2>1, <3>3 DEF RowSettled, Shown
  <2>3. CASE run[r].aborted
    <3>1. PICK row : row = [items[j] EXCEPT !.sess = run[r].sess, !.status = items[j].status]
      OBVIOUS
    <3>2. Update(j, row) /\ row.status = items[j].status
      BY <1>9, <1>0, <2>3, <3>1 DEF Created, Row
    <3>3. items'[j].status = items[j].status
      BY <3>2, RowAt
    <3>4. items[j].status \notin Busy
      BY <1>0, <2>3 DEF ActiveSettled
    <3> QED
      BY <2>1, <2>2, <3>3, <3>4 DEF RowSettled, Shown, Busy
  <2>4. CASE ~run[r].aborted
    <3>1. active' = active /\ run'[r].id = run[r].id
      BY <1>9, <2>4 DEF Created, Goto, RunsGood, Invocations
    <3>2. Works(j)'
      BY <1>0, <3>1 DEF Works
    <3>3. PICK row : row = [items[j] EXCEPT !.sess = run[r].sess, !.status = "uploading"]
      OBVIOUS
    <3>4. Update(j, row) /\ row.status = "uploading"
      BY <1>9, <1>0, <2>4, <3>3 DEF Created, Row
    <3>5. items'[j].status \in {"absent", "uploading"}
      BY <3>4, RowAt DEF Shown
    <3> QED
      BY <2>1, <3>2, <3>5 DEF RowSettled, Shown, Busy
  <2> QED
    BY <2>3, <2>4
<1>10. CASE DropSucceeds(r)
  <2>1. items'[j].status = "absent"
    BY <1>10, <1>0, RowAt DEF DropSucceeds, Erase, Absent
  <2> QED
    BY <2>1, SettledQuiet DEF Busy
<1>11. CASE DropFails(r)
  <2>1. PICK row : row = [run[r].row EXCEPT !.status = "error", !.sess = run[r].sess,
                                             !.hash = run[r].row.file]
    OBVIOUS
  <2>2. row.status = "error"
    BY <1>0, <2>1 DEF Row
  <2>3. Update(j, row) /\ j \notin cancelled'
    BY <1>11, <2>1 DEF DropFails, Write
  <2>4. items'[j].status \in {"error", "absent"}
    BY <2>2, <2>3, RowAt DEF Shown
  <2> QED
    BY <2>3, <2>4, SettledQuiet DEF Busy
<1>12. CASE PartsDone(r)
  <2>1. /\ items'[j].status = items[j].status /\ items'[j].sess = items[j].sess
        /\ UNCHANGED call /\ (j \in cancelled' <=> j \in cancelled)
    BY <1>12, <1>0, RowAt DEF PartsDone, At, mountVars, Row
  <2>2. WorkKept(j)
    <3>1. PICK pc \in RunPC : pc = "complete"
      BY DEF RunPC
    <3>2. pc \notin CreatingPC => run[r].pc \notin CreatingPC
      BY <1>12, <3>1 DEF PartsDone, At, CreatingPC
    <3>3. UNCHANGED active /\ Goto(r, pc)
      BY <1>12, <3>1 DEF PartsDone
    <3> QED
      BY <3>2, <3>3, MoveWork
  <2> QED
    BY <2>1, <2>2, SettledKept DEF Pending
<1>13. CASE CompleteArrives(r)
  <2>1. /\ items'[j].status = items[j].status /\ items'[j].sess = items[j].sess
        /\ UNCHANGED call /\ (j \in cancelled' <=> j \in cancelled)
    BY <1>13, <1>0, RowAt DEF CompleteArrives, At, mountVars, Row
  <2>2. WorkKept(j)
    <3>1. PICK pc \in RunPC : pc = "completed"
      BY DEF RunPC
    <3>2. pc \notin CreatingPC => run[r].pc \notin CreatingPC
      BY <1>13, <3>1 DEF CompleteArrives, At, CreatingPC
    <3>3. UNCHANGED active /\ \E ans \in ServerStatuses :
                                  run' = [run EXCEPT ![r] = [@ EXCEPT !.pc = pc, !.ans = ans]]
      BY <1>13, <3>1 DEF CompleteArrives, ServerStatuses
    <3> QED
      BY <3>2, <3>3, MoveWork
  <2> QED
    BY <2>1, <2>2, SettledKept DEF Pending
<1>14. CASE CompleteIgnored(r)
  <2>1. j \in cancelled /\ UNCHANGED <<items, call, cancelled>>
    BY <1>14, <1>0 DEF CompleteIgnored, Flagged, mountVars
  <2>2. Shown(j) => items[j].sess # NoSession
    BY <1>14, <1>0, ConstantsAssumption
    DEF CompleteIgnored, At, CreatingPC, SameSession, GoodRun
  <2> QED
    BY <2>1, <2>2 DEF RowSettled, Shown, Pending, Busy
<1>15. CASE Completed(r)
  <2>1. PICK row : row = [items[j] EXCEPT !.status = run[r].ans, !.file = NoFile]
    OBVIOUS
  <2>2. row.sess = items[j].sess
    BY <1>0, <2>1 DEF Row
  <2>3. \/ Update(j, row) /\ row.status = "processing"
        \/ Remove(j)
    BY <1>15, <1>0, <2>1 DEF Completed, At, GoodRun, Row
  <2>4. UNCHANGED <<call, cancelled>>
    BY <1>15 DEF Completed, mountVars
  <2>5. \/ Shown(j) /\ items'[j] = row /\ row.status = "processing"
        \/ items'[j].status = "absent"
    BY <2>3, RowAt DEF Shown, Absent
  <2> QED
    BY <2>2, <2>4, <2>5, SettledQuiet DEF Busy, Pending, Shown
<1>16. CASE Unwinds(r)
  <2>1. UNCHANGED <<items, call, cancelled>>
    BY <1>16 DEF Unwinds, mountVars
  <2>2. items[j].status \notin Busy
    BY <1>16, <1>0 DEF Unwinds, ActiveSettled
  <2>3. ~Creates(j)
    BY <1>16, <1>0 DEF Unwinds, Creates, CreatingPC
  <2> QED
    BY <2>1, <2>2, <2>3 DEF RowSettled, Shown, Pending
<1>17. CASE Fails(r)
  <2>1. PICK row : row = [items[j] EXCEPT !.status = "error"]
    OBVIOUS
  <2>2. row.sess = items[j].sess
    BY <1>0, <2>1 DEF Row
  <2>3. \/ Update(j, row) /\ row.status = "error"
        \/ Remove(j)
    BY <1>17, <1>0, <2>1 DEF Fails, Row
  <2>4. UNCHANGED <<call, cancelled>>
    BY <1>17 DEF Fails, mountVars
  <2>5. \/ Shown(j) /\ items'[j] = row /\ row.status = "error"
        \/ items'[j].status = "absent"
    BY <2>3, RowAt DEF Shown, Absent
  <2> QED
    BY <2>2, <2>4, <2>5, SettledQuiet DEF Busy, Pending, Shown
<1> QED
  BY <1>1, <1>2, <1>3, <1>4, <1>5, <1>6, <1>7, <1>8, <1>9, <1>10, <1>11, <1>12, <1>13,
     <1>14, <1>15, <1>16, <1>17
     DEF RunStep

\* Every step leaves a row that waits for something its excuse.
LEMMA RowSettledStep ==
    ASSUME RowsGood, RunsGood, CallsGood, RestoreGood, PollGood, Mounting, Working,
           SameSession, ActiveSettled, NEW j \in Ids, RowSettled(j), Next
    PROVE  RowSettled(j)'
<1>1. CASE Restored
  <2>1. ~ready /\ cancelled = {} /\ cancelled' = cancelled
    BY <1>1 DEF Restored, Mounting
  <2>2. items'[j].status \notin Busy \cup {"cancelling"}
    <3> DEFINE listed == {s \in Sessions : restore.remote[s] # "none"}
    <3>1. PICK row \in [listed -> Ids] :
              items' = [i \in Ids |-> IF \E s \in listed : row[s] = i
                                      THEN FromServer(CHOOSE s \in listed : row[s] = i)
                                      ELSE Restorable(i)]
      BY <1>1 DEF Restored
    <3>2. CASE \E s \in listed : row[s] = j
      <4>1. PICK s \in listed : items'[j] = FromServer(s)
        BY <3>1, <3>2
      <4>2. items'[j].status = ServerUploadStatus(restore.remote[s])
        BY <4>1 DEF FromServer
      <4> QED
        BY <4>1, <4>2 DEF RestoreGood, ServerUploadStatus, Listed, Busy
    <3>3. CASE ~\E s \in listed : row[s] = j
      <4>1. items'[j] = Restorable(j) /\ restore.local[j] \in Row
        BY <3>1, <3>3 DEF RestoreGood, Restores
      <4> QED
        BY <4>1 DEF Restorable, Absent, Row, Busy
    <3> QED
      BY <3>2, <3>3
  <2> QED
    BY <2>1, <2>2, SettledQuiet
<1>2. CASE SignOut
  <2>1. items'[j].status = "absent"
    BY <1>2 DEF SignOut, Unmounted, Absent
  <2> QED
    BY <2>1, SettledQuiet DEF Busy
<1>3. CASE Reload
  <2>1. items'[j].status = "absent"
    BY <1>3 DEF Reload, Unmounted, Absent
  <2> QED
    BY <2>1, SettledQuiet DEF Busy
<1>4. CASE PollAnswered
  <2>1. UNCHANGED <<active, run, call, cancelled>>
    BY <1>4 DEF PollAnswered, mountVars
  <2>2. PICK i : i = poll.id
    OBVIOUS
  <2>3. i \in Ids
    BY <1>4, <2>2 DEF PollAnswered, PollGood
  <2>4. CASE i = j
    <3>1. PICK row : row = [items[j] EXCEPT !.status = poll.ans]
      OBVIOUS
    <3>2. row.sess = items[j].sess /\ row.status = poll.ans
      BY <3>1 DEF RowsGood, Row
    <3>3. Remove(j) \/ (Update(j, row) /\ row.status \in {"processing", "error"})
      <4>1. poll.id = j
        BY <2>2, <2>4
      <4>2. poll.ans \in PollAnswers \ {"none"}
        BY <1>4 DEF PollAnswered, PollGood, Polls
      <4>3. CASE poll.ans \in {"ready", "cancelled", "gone"}
        BY <1>4, <4>1, <4>3 DEF PollAnswered
      <4>4. CASE poll.ans \in {"processing", "error"}
        BY <1>4, <3>1, <3>2, <4>1, <4>4 DEF PollAnswered
      <4> QED
        BY <4>2, <4>3, <4>4 DEF PollAnswers
    <3>4. \/ items'[j].status = "absent"
          \/ Shown(j) /\ items'[j] = row /\ row.status \in {"processing", "error"}
      BY <3>3, RowAt DEF Shown, Absent
    <3> QED
      BY <2>1, <3>2, <3>4, SettledQuiet DEF Busy, Pending
  <2>5. CASE i # j
    <3>1. items'[j] = items[j]
      BY <1>4, <2>2, <2>3, <2>5, RowAt DEF PollAnswered
    <3> QED
      BY <2>1, <3>1, SettledKept DEF WorkKept, Works, Creates, Pending
  <2> QED
    BY <2>4, <2>5
<1>5. ASSUME NEW i \in NewIds, NEW file \in Contents \cup {NoFile}, AddFile(i, file)
      PROVE  RowSettled(j)'
  <2>1. items'[i].status \in {"error", "queued"} /\ items'[i].sess = NoSession
    BY <1>5 DEF AddFile, RowsGood, Absent, Ids
  <2>2. i # j => items'[j] = items[j]
    BY <1>5 DEF AddFile, RowsGood
  <2>3. UNCHANGED <<active, run, call, cancelled>>
    BY <1>5 DEF AddFile
  <2>4. CASE i = j
    BY <2>1, <2>4, SettledQuiet DEF Busy
  <2>5. CASE i # j
    BY <2>2, <2>3, <2>5, SettledKept DEF WorkKept, Works, Creates, Pending
  <2> QED
    BY <2>4, <2>5
<1>6. ASSUME NEW r \in Slots, NEW i \in Ids, Start(r, i) PROVE RowSettled(j)'
  <2>1. UNCHANGED <<call, cancelled>> /\ active = NoSlot
    BY <1>6 DEF Start, mountVars
  <2>2. ~Works(j) /\ ~Creates(j)
    BY <2>1 DEF Works, Creates
  <2>3. CASE i = j
    <3>1. PICK row : row = [items[j] EXCEPT !.status = "hashing"]
      OBVIOUS
    <3>2. row.status = "hashing" /\ row.sess = items[j].sess /\ Shown(j) /\ Update(j, row)
      BY <1>6, <2>3, <3>1 DEF Start, RowsGood, Row, Shown
    <3>3. items'[j] = row
      BY <3>2, RowAt
    <3>4. Works(j)'
      BY <1>6, <2>3, ConstantsAssumption DEF Start, Works, RunsGood, Idle
    <3> QED
      BY <2>1, <3>2, <3>3, <3>4 DEF RowSettled, Shown, Pending
  <2>4. CASE i # j
    <3>1. items'[j] = items[j]
      BY <1>6, <2>4, RowAt DEF Start
    <3> QED
      BY <2>1, <2>2, <3>1, SettledKept DEF WorkKept, Pending
  <2> QED
    BY <2>3, <2>4
<1>7. ASSUME NEW i \in Ids, Button(i) PROVE RowSettled(j)'
  <2>1. CASE Pause(i)
    <3>1. UNCHANGED <<call, cancelled>> /\ WorkKept(j)
      BY <2>1, AbortWork DEF Pause, mountVars, Works
    <3>2. CASE i = j
      <4>1. PICK row : row = [items[j] EXCEPT !.status = "paused"]
        OBVIOUS
      <4>2. row.sess = items[j].sess /\ row.status \in {"paused"}
        BY <4>1 DEF RowsGood, Row
      <4>3. Update(j, row) /\ Shown(j)
        BY <2>1, <3>2, <4>1 DEF Pause, Shown
      <4>4. items'[j] = row
        BY <4>3, RowAt
      <4> QED
        BY <3>1, <4>2, <4>3, <4>4, SettledQuiet DEF Busy, Pending
    <3>3. CASE i # j
      <4>1. items'[j] = items[j]
        BY <2>1, <3>3, RowAt DEF Pause
      <4> QED
        BY <3>1, <4>1, SettledKept DEF Pending
    <3> QED
      BY <3>2, <3>3
  <2>2. CASE CancelLocal(i)
    <3>1. /\ cancelled' = cancelled \cup {i} /\ call' = call /\ active' = active
          /\ IF Works(i) THEN Abort(active) ELSE UNCHANGED run
      BY <2>2 DEF CancelLocal
    <3>2. WorkKept(j)
      BY <3>1, AbortWork DEF Works
    <3>3. CASE i = j
      <4>1. CASE Creates(j)
        <5>1. PICK row : row = [items[j] EXCEPT !.status = "cancelling"]
          OBVIOUS
        <5>2. row.sess = NoSession /\ row.status = "cancelling" /\ Update(j, row)
          BY <2>2, <3>3, <4>1, <5>1 DEF CancelLocal, Creates, RowsGood, Row
        <5>3. Shown(j) /\ items'[j] = row
          BY <2>2, <3>3, <5>2, RowAt DEF CancelLocal, Cancellable, Shown
        <5> QED
          BY <3>1, <3>2, <3>3, <4>1, <5>2, <5>3 DEF RowSettled, WorkKept, Busy
      <4>2. CASE ~Creates(j)
        <5>1. items'[j].status = "absent"
          BY <2>2, <3>3, <4>2, RowAt DEF CancelLocal, Creates, Absent
        <5> QED
          BY <5>1, SettledQuiet DEF Busy
      <4> QED
        BY <4>1, <4>2
    <3>4. CASE i # j
      <4>1. items'[j] = items[j]
        BY <2>2, <3>4, RowAt DEF CancelLocal
      <4> QED
        BY <3>1, <3>2, <3>4, <4>1, SettledKept DEF Pending
    <3> QED
      BY <3>3, <3>4
  <2>3. CASE CancelSend(i)
    <3>1. WorkKept(j) /\ cancelled' = cancelled \cup {i}
      BY <2>3, AbortWork DEF CancelSend, Works
    <3>2. CASE i = j
      <4>1. Pending("cancel", j)'
        BY <2>3, <3>2 DEF CancelSend, Pending, CallsGood, NoCall
      <4>2. PICK row : row = [items[j] EXCEPT !.status = "cancelling"]
        OBVIOUS
      <4>3. items'[j].status = "cancelling"
        BY SMTT(20), <2>3, <3>2, <4>2, RowAt DEF CancelSend, Cancellable, Shown, RowsGood, Row
      <4> QED
        BY <4>1, <4>3 DEF RowSettled, Busy
    <3>3. CASE i # j
      <4>1. items'[j] = items[j] /\ call'["cancel"][j] = call["cancel"][j]
        BY <2>3, <3>3, RowAt DEF CancelSend, CallsGood
      <4> QED
        BY <3>1, <3>3, <4>1, SettledKept DEF Pending
    <3> QED
      BY <3>2, <3>3
  <2>4. CASE RetryLocal(i)
    <3>1. UNCHANGED <<call, cancelled>> /\ WorkKept(j)
      BY <2>4 DEF RetryLocal, mountVars, WorkKept, Works, Creates
    <3>2. CASE i = j
      <4>1. PICK row : row = [items[j] EXCEPT
                          !.status = IF items[j].file = NoFile THEN "needs_file" ELSE "queued"]
        OBVIOUS
      <4>2. row.sess = items[j].sess /\ row.status \in {"needs_file", "queued"}
        BY <4>1 DEF RowsGood, Row
      <4>3. Update(j, row) /\ Shown(j)
        BY <2>4, <3>2, <4>1 DEF RetryLocal, Shown
      <4>4. items'[j] = row
        BY <4>3, RowAt
      <4> QED
        BY <3>1, <4>2, <4>3, <4>4, SettledQuiet DEF Busy, Pending
    <3>3. CASE i # j
      <4>1. items'[j] = items[j]
        BY <2>4, <3>3, RowAt DEF RetryLocal
      <4> QED
        BY <3>1, <4>1, SettledKept DEF Pending
    <3> QED
      BY <3>2, <3>3
  <2>5. CASE RetrySend(i)
    <3>1. UNCHANGED <<items, cancelled, active, run>> /\ call'["cancel"] = call["cancel"]
      BY <2>5 DEF RetrySend, mountVars, CallsGood
    <3> QED
      BY <3>1, SettledKept DEF WorkKept, Works, Creates, Pending
  <2>6. CASE Dismiss(i)
    <3>1. UNCHANGED <<cancelled, active, run, call>>
      BY <2>6 DEF Dismiss, mountVars
    <3>2. i # j => items'[j] = items[j]
      BY <2>6, RowAt DEF Dismiss
    <3>3. i = j => items'[j].status = "absent"
      BY <2>6, RowAt DEF Dismiss, Absent
    <3>4. CASE i # j
      BY <3>1, <3>2, <3>4, SettledKept DEF WorkKept, Works, Creates, Pending
    <3>5. CASE i = j
      BY <3>3, <3>5, SettledQuiet DEF Busy
    <3> QED
      BY <3>4, <3>5
  <2>7. CASE \E file \in Contents \cup {NoFile} : Reselect(i, file)
    <3>0. PICK file \in Contents \cup {NoFile} : Reselect(i, file)
      BY <2>7
    <3>1. UNCHANGED <<call, cancelled>> /\ WorkKept(j)
      BY <3>0 DEF Reselect, mountVars, WorkKept, Works, Creates
    <3>2. CASE i = j
      <4>1. PICK row : row = [items[j] EXCEPT !.file = file,
                                 !.status = IF file = NoFile THEN "error" ELSE "queued"]
        OBVIOUS
      <4>2. row.sess = items[j].sess /\ row.status \in {"queued", "error"}
        BY <4>1 DEF RowsGood, Row
      <4>3. Update(j, row) /\ Shown(j)
        BY <3>0, <3>2, <4>1 DEF Reselect, Shown
      <4>4. items'[j] = row
        BY <4>3, RowAt
      <4> QED
        BY <3>1, <4>2, <4>3, <4>4, SettledQuiet DEF Busy, Pending
    <3>3. CASE i # j
      <4>1. items'[j] = items[j]
        BY <3>0, <3>3, RowAt DEF Reselect
      <4> QED
        BY <3>1, <4>1, SettledKept DEF Pending
    <3> QED
      BY <3>2, <3>3
  <2> QED
    BY <1>7, <2>1, <2>2, <2>3, <2>4, <2>5, <2>6, <2>7 DEF Button
<1>8. ASSUME NEW i \in Ids, CallStep(i) PROVE RowSettled(j)'
  <2>1. CASE CancelArrives(i)
    <3>1. UNCHANGED <<items, cancelled, active, run>>
      BY <2>1 DEF CancelArrives, mountVars
    <3>2. \A k \in Ids : Pending("cancel", k) => Pending("cancel", k)'
      <4>1. PICK ans : call' = [call EXCEPT !["cancel"][i] = [@ EXCEPT !.pc = "answered", !.ans = ans]]
        BY <2>1 DEF CancelArrives
      <4>2. \A k \in Ids : k # i => call'["cancel"][k] = call["cancel"][k]
        BY <4>1 DEF CallsGood
      <4>3. call'["cancel"][i].pc = "answered" /\ call'["cancel"][i].stale = call["cancel"][i].stale
        BY <4>1 DEF CallsGood, Calls
      <4> QED
        BY <4>2, <4>3 DEF Pending
    <3> QED
      BY <3>1, <3>2, SettledKept DEF WorkKept, Works, Creates
  <2>2. CASE CancelSucceeds(i)
    <3>1. UNCHANGED <<active, run>> /\ WorkKept(j)
      BY <2>2 DEF CancelSucceeds, mountVars, WorkKept, Works, Creates
    <3>2. \A k \in Ids : k # i => call'["cancel"][k] = call["cancel"][k]
      BY <2>2 DEF CancelSucceeds, CallsGood
    <3>3. CASE i # j
      <4>1. items'[j] = items[j] /\ (j \in cancelled' <=> j \in cancelled)
        BY <2>2, <3>3, RowAt DEF CancelSucceeds, mountVars
      <4> QED
        BY <3>1, <3>2, <3>3, <4>1, SettledKept DEF Pending
    <3>4. CASE i = j /\ call["cancel"][i].stale
      <4>1. items'[j] = items[j] /\ cancelled' = cancelled
        BY <2>2, <3>4 DEF CancelSucceeds, StoreFor, mountVars
      <4> QED
        BY <3>1, <3>4, <4>1, SettledKept DEF Pending
    <3>5. CASE i = j /\ ~call["cancel"][i].stale
      <4>1. items'[j].status = "absent"
        BY <2>2, <3>5, RowAt DEF CancelSucceeds, Absent
      <4> QED
        BY <4>1, SettledQuiet DEF Busy
    <3> QED
      BY <3>3, <3>4, <3>5
  <2>3. CASE CancelFails(i)
    <3>1. UNCHANGED <<active, run>> /\ WorkKept(j)
      BY <2>3 DEF CancelFails, mountVars, WorkKept, Works, Creates
    <3>2. \A k \in Ids : k # i => call'["cancel"][k] = call["cancel"][k]
      BY <2>3 DEF CancelFails, CallsGood
    <3>3. CASE i # j
      <4>1. items'[j] = items[j] /\ (j \in cancelled' <=> j \in cancelled)
        BY <2>3, <3>3, RowAt DEF CancelFails, mountVars
      <4> QED
        BY <3>1, <3>2, <3>3, <4>1, SettledKept DEF Pending
    <3>4. CASE i = j /\ call["cancel"][i].stale
      <4>1. items'[j] = items[j] /\ cancelled' = cancelled
        BY <2>3, <3>4 DEF CancelFails, StoreFor, mountVars
      <4> QED
        BY <3>1, <3>4, <4>1, SettledKept DEF Pending
    <3>5. CASE i = j /\ ~call["cancel"][i].stale
      <4>1. PICK row : row = [items[j] EXCEPT !.status = "error", !.file = call["cancel"][j].row.file]
        OBVIOUS
      <4>2. row.status = "error" /\ Update(j, row) /\ j \notin cancelled'
        BY <2>3, <3>5, <4>1 DEF CancelFails, RowsGood, Row
      <4>3. items'[j].status \in {"absent", "error"}
        BY <4>2, RowAt DEF Shown
      <4> QED
        BY <4>2, <4>3, SettledQuiet DEF Busy
    <3> QED
      BY <3>3, <3>4, <3>5
  <2>4. CASE RetryArrives(i)
    <3>1. UNCHANGED <<items, cancelled, active, run>> /\ call'["cancel"] = call["cancel"]
      BY <2>4 DEF RetryArrives, mountVars, CallsGood
    <3> QED
      BY <3>1, SettledKept DEF WorkKept, Works, Creates, Pending
  <2>5. CASE RetryAnswered(i)
    <3>1. UNCHANGED <<cancelled, active, run>> /\ call'["cancel"] = call["cancel"]
      BY <2>5 DEF RetryAnswered, mountVars, CallsGood
    <3>2. CASE i # j \/ call["retry"][i].stale
      <4>1. items'[j] = items[j]
        BY <2>5, <3>2, RowAt DEF RetryAnswered, StoreFor
      <4> QED
        BY <3>1, <4>1, SettledKept DEF WorkKept, Works, Creates, Pending
    <3>3. CASE i = j /\ ~call["retry"][i].stale
      <4>1. PICK row : row = [items[j] EXCEPT !.status = "processing"]
        OBVIOUS
      <4>2. row.status = "processing" /\ row.sess = items[j].sess /\ Update(j, row)
        BY <2>5, <3>3, <4>1 DEF RetryAnswered, RowsGood, Row
      <4>3. items'[j].status = "absent" \/ (Shown(j) /\ items'[j] = row)
        BY <4>2, RowAt DEF Shown
      <4> QED
        BY <3>1, <4>2, <4>3, SettledQuiet DEF Busy, Pending
    <3> QED
      BY <3>2, <3>3
  <2>6. CASE RetryFails(i)
    <3>1. UNCHANGED <<items, cancelled, active, run>> /\ call'["cancel"] = call["cancel"]
      BY <2>6, RetryFailsRows DEF RetryFails, mountVars, CallsGood
    <3> QED
      BY <3>1, SettledKept DEF WorkKept, Works, Creates, Pending
  <2> QED
    BY <1>8, <2>1, <2>2, <2>3, <2>4, <2>5, <2>6 DEF CallStep
<1>9. ASSUME NEW r \in Slots, RunStep(r) PROVE RowSettled(j)'
  <2>1. CASE run[r].stale \/ run[r].id # j
    <3>1. /\ items'[j] = items[j] /\ call' = call /\ (j \in cancelled' <=> j \in cancelled)
          /\ WorkKept(j)
      BY <1>9, <2>1, RunElsewhere
    <3> QED
      BY <3>1, SettledKept DEF Pending
  <2>2. CASE ~run[r].stale /\ run[r].id = j
    BY <1>9, <2>2, RunHere
  <2> QED
    BY <2>1, <2>2
<1>10. CASE \/ (\E u \in Users : SignIn(u)) \/ RestoreLocal \/ RestoreRemote
            \/ RestoreFails \/ PollFails \/ (\E i \in Ids : PollArrives(i))
            \/ (\E s \in Sessions : ServerMoves(s))
  BY <1>10, SettledKept
     DEF SignIn, RestoreLocal, RestoreRemote, RestoreFails, PollFails, PollArrives,
        ServerMoves, WorkKept, Works, Creates, Pending, mountVars
<1> QED
  BY <1>1, <1>2, <1>3, <1>4, <1>5, <1>6, <1>7, <1>8, <1>9, <1>10 DEF Next

\* No row takes a status that needs work.
Calm == \A k \in Ids : items'[k].status \in Busy => items[k].status \in Busy

\* What the helpers write does not need work, unless the row says so.
LEMMA CalmWrites ==
    ASSUME RowsGood,
           \/ UNCHANGED items
           \/ \E i \in Ids : Remove(i)
           \/ \E i \in Ids, row \in Row : Update(i, row) /\ row.status \notin Busy
           \/ \E u, i, row : StoreFor(u, i, row)
    PROVE  Calm
BY RowAt DEF Calm, Absent, Busy, StoreFor

\* The invocation of the mount stays settled when no row needs more work.
LEMMA AbortsSettled ==
    ASSUME RowsGood, RunsGood, Mounting, Working, ActiveSettled, Calm, active' = active,
           \/ UNCHANGED run
           \/ /\ active # NoSlot /\ items'[run[active].id].status \notin Busy
              /\ run' = [run EXCEPT ![active].aborted = TRUE]
           \/ \E r \in Slots, inv \in Invocations :
                  /\ run' = [run EXCEPT ![r] = inv]
                  /\ inv.id = run[r].id /\ inv.aborted = run[r].aborted
    PROVE  ActiveSettled'
<1>1. active # NoSlot => active \in Slots /\ run[active].id \in Ids
  BY DEF Mounting, Working, RunsGood, GoodRun
<1>2. CASE UNCHANGED run
  BY <1>1, <1>2 DEF ActiveSettled, Calm
<1>3. CASE /\ active # NoSlot /\ items'[run[active].id].status \notin Busy
           /\ run' = [run EXCEPT ![active].aborted = TRUE]
  <2>1. run'[active].id = run[active].id
    BY <1>1, <1>3 DEF RunsGood, Invocations
  <2> QED
    BY <1>3, <2>1 DEF ActiveSettled
<1>4. ASSUME NEW r \in Slots, NEW inv \in Invocations, run' = [run EXCEPT ![r] = inv],
             inv.id = run[r].id, inv.aborted = run[r].aborted
      PROVE  ActiveSettled'
  <2>1. active # NoSlot => /\ run'[active].id = run[active].id
                           /\ run'[active].aborted = run[active].aborted
    BY <1>1, <1>4 DEF RunsGood
  <2> QED
    BY <1>1, <2>1 DEF ActiveSettled, Calm
<1> QED
  BY <1>2, <1>3, <1>4

\* An invocation that ends is the one of the mount, or changes nothing on display.
LEMMA FinishedKept ==
    ASSUME RowsGood, RunsGood, Mounting, Working, ActiveSettled,
           NEW r \in Slots, RunStep(r), run[r].pc # "idle", Finish(r)
    PROVE  ActiveSettled'
<1>1. CASE r = active
  BY <1>1 DEF Finish, ActiveSettled
<1>2. CASE r # active
  <2>1. run[r].stale
    BY <1>2 DEF Working
  <2>2. \A j \in Ids : items'[j] = items[j]
    BY <2>1, RunElsewhere
  <2>3. active' = active /\ (active # NoSlot => run'[active] = run[active])
    BY <1>2 DEF Finish, Mounting, RunsGood
  <2>4. active # NoSlot => run[active].id \in Ids
    BY DEF Mounting, Working, RunsGood, GoodRun
  <2> QED
    BY <2>2, <2>3, <2>4 DEF ActiveSettled
<1> QED
  BY <1>1, <1>2

\* An invocation is aborted by a step that takes its row out of the statuses that need it.
LEMMA ActiveSettledStep ==
    ASSUME RowsGood, RunsGood, CallsGood, RestoreGood, PollGood, Mounting, Working,
           ActiveSettled, Next
    PROVE  ActiveSettled'
<1>1. CASE Restored
  <2>1. active' = NoSlot
    BY <1>1 DEF Restored, Mounting
  <2> QED
    BY <2>1 DEF ActiveSettled
<1>2. CASE SignOut
  <2>1. active' = NoSlot
    BY <1>2 DEF SignOut, Unmounted
  <2> QED
    BY <2>1 DEF ActiveSettled
<1>3. CASE Reload
  <2>1. active' = NoSlot
    BY <1>3 DEF Reload, Unmounted
  <2> QED
    BY <2>1 DEF ActiveSettled
<1>4. CASE PollAnswered
  <2>1. UNCHANGED <<active, run>>
    BY <1>4 DEF PollAnswered
  <2>2. PICK i, row : i = poll.id /\ row = [items[i] EXCEPT !.status = poll.ans]
    OBVIOUS
  <2>3. i \in Ids /\ items[i] \in Row /\ poll.ans \in PollAnswers \ {"none"}
    BY <1>4, <2>2 DEF PollAnswered, PollGood, Polls, RowsGood
  <2>4. Calm
    <3>1. CASE poll.ans \in {"ready", "cancelled", "gone"}
      BY <1>4, <2>2, <2>3, <3>1, CalmWrites DEF PollAnswered
    <3>2. CASE poll.ans \in {"processing", "error"}
      <4>1. row \in Row /\ row.status \notin Busy
        BY <2>2, <2>3, <3>2 DEF Row, Statuses, Busy
      <4> QED
        BY <1>4, <2>2, <2>3, <3>2, <4>1, CalmWrites DEF PollAnswered
    <3> QED
      BY <2>3, <3>1, <3>2 DEF PollAnswers
  <2> QED
    BY <2>1, <2>4, AbortsSettled
<1>5. ASSUME NEW i \in NewIds, NEW file \in Contents \cup {NoFile}, AddFile(i, file)
      PROVE  ActiveSettled'
  <2>1. Calm /\ UNCHANGED <<active, run>>
    BY <1>5 DEF AddFile, Calm, Busy, RowsGood, Absent
  <2> QED
    BY <2>1, AbortsSettled
<1>6. ASSUME NEW r \in Slots, NEW i \in Ids, Start(r, i) PROVE ActiveSettled'
  <2>1. active' = r /\ run'[r].aborted = FALSE
    BY <1>6 DEF Start, RunsGood, Idle
  <2> QED
    BY <2>1 DEF ActiveSettled
<1>7. ASSUME NEW i \in Ids, Button(i) PROVE ActiveSettled'
  <2>1. CASE Pause(i)
    <3>2. PICK row : row = [items[i] EXCEPT !.status = "paused"]
      OBVIOUS
    <3>3. row \in Row /\ row.status \notin Busy
      BY <3>2, ZenonT(60) DEF RowsGood, Row, Statuses, Busy
    <3>4. Update(i, row)
      BY <2>1, <3>2 DEF Pause
    <3>5. Calm /\ items'[i].status \notin Busy
      BY <3>3, <3>4, CalmWrites, RowAt DEF Shown, Busy
    <3>6. /\ active' = active
          /\ IF Works(i) THEN Abort(active) ELSE UNCHANGED run
      BY <2>1 DEF Pause
    <3> QED
      BY <3>5, <3>6, AbortsSettled DEF Works, Abort
  <2>2. CASE CancelLocal(i)
    <3>2. PICK row : row = [items[i] EXCEPT !.status = "cancelling"]
      OBVIOUS
    <3>3. row \in Row /\ row.status \notin Busy
      BY <3>2, ZenonT(60) DEF RowsGood, Row, Statuses, Busy
    <3>4. Update(i, row) \/ Remove(i)
      BY <2>2, <3>2 DEF CancelLocal
    <3>5. Calm /\ items'[i].status \notin Busy
      BY <3>3, <3>4, CalmWrites, RowAt DEF Shown, Busy, Absent
    <3>6. /\ active' = active
          /\ IF Works(i) THEN Abort(active) ELSE UNCHANGED run
      BY <2>2 DEF CancelLocal
    <3> QED
      BY <3>5, <3>6, AbortsSettled DEF Works, Abort
  <2>3. CASE CancelSend(i)
    <3>2. PICK row : row = [items[i] EXCEPT !.status = "cancelling"]
      OBVIOUS
    <3>3. row \in Row /\ row.status \notin Busy
      BY <3>2, ZenonT(60) DEF RowsGood, Row, Statuses, Busy
    <3>4. Update(i, row)
      BY <2>3, <3>2 DEF CancelSend
    <3>5. Calm /\ items'[i].status \notin Busy
      BY <3>3, <3>4, CalmWrites, RowAt DEF Shown, Busy
    <3>6. /\ active' = active
          /\ IF Works(i) THEN Abort(active) ELSE UNCHANGED run
      BY <2>3 DEF CancelSend
    <3> QED
      BY <3>5, <3>6, AbortsSettled DEF Works, Abort
  <2>4. CASE RetryLocal(i)
    <3>1. UNCHANGED <<active, run>>
      BY <2>4 DEF RetryLocal
    <3>2. PICK row : row = [items[i] EXCEPT
                         !.status = IF items[i].file = NoFile THEN "needs_file" ELSE "queued"]
      OBVIOUS
    <3>3. row \in Row /\ row.status \notin Busy
      BY <3>2, ZenonT(60) DEF RowsGood, Row, Statuses, Busy
    <3>4. Calm
      BY <2>4, <3>2, <3>3, CalmWrites DEF RetryLocal
    <3> QED
      BY <3>1, <3>4, AbortsSettled
  <2>5. CASE Dismiss(i)
    <3>1. UNCHANGED <<active, run>> /\ Calm
      BY <2>5, CalmWrites DEF Dismiss
    <3> QED
      BY <3>1, AbortsSettled
  <2>6. CASE \E file \in Contents \cup {NoFile} : Reselect(i, file)
    <3>1. PICK file \in Contents \cup {NoFile} : Reselect(i, file)
      BY <2>6
    <3>2. PICK row : row = [items[i] EXCEPT !.file = file,
                               !.status = IF file = NoFile THEN "error" ELSE "queued"]
      OBVIOUS
    <3>3. row \in Row /\ row.status \notin Busy
      BY <3>2, ZenonT(60) DEF RowsGood, Row, Statuses, Busy
    <3>4. Calm
      BY <3>1, <3>2, <3>3, CalmWrites DEF Reselect
    <3> QED
      BY <3>1, <3>4, AbortsSettled DEF Reselect
  <2>7. CASE \/ RetrySend(i)
    BY <2>7, AbortsSettled DEF RetrySend, Calm, mountVars
  <2> QED
    BY <1>7, <2>1, <2>2, <2>3, <2>4, <2>5, <2>6, <2>7 DEF Button
<1>8. ASSUME NEW i \in Ids, CallStep(i) PROVE ActiveSettled'
  <2>1. CASE CancelSucceeds(i)
    <3>1. UNCHANGED <<active, run>> /\ Calm
      BY <2>1, CalmWrites DEF CancelSucceeds
    <3> QED
      BY <3>1, AbortsSettled
  <2>2. CASE CancelFails(i)
    <3>1. UNCHANGED <<active, run>>
      BY <2>2 DEF CancelFails
    <3>2. PICK row : row = [items[i] EXCEPT !.status = "error", !.file = call["cancel"][i].row.file]
      OBVIOUS
    <3>3. row \in Row /\ row.status \notin Busy
      BY <2>2, <3>2, ZenonT(60)
      DEF CancelFails, RowsGood, CallsGood, Calls, Row, Statuses, Busy
    <3>4. Calm
      BY <2>2, <3>2, <3>3, CalmWrites DEF CancelFails
    <3> QED
      BY <3>1, <3>4, AbortsSettled
  <2>3. CASE RetryAnswered(i)
    <3>1. UNCHANGED <<active, run>>
      BY <2>3 DEF RetryAnswered
    <3>2. PICK row : row = [items[i] EXCEPT !.status = "processing"]
      OBVIOUS
    <3>3. row \in Row /\ row.status \notin Busy
      BY <3>2, ZenonT(60) DEF RowsGood, Row, Statuses, Busy
    <3>4. Calm
      BY <2>3, <3>2, <3>3, CalmWrites DEF RetryAnswered
    <3> QED
      BY <3>1, <3>4, AbortsSettled
  <2>4. CASE \/ CancelArrives(i) \/ RetryArrives(i)
    BY <2>4, AbortsSettled DEF CancelArrives, RetryArrives, Calm, mountVars
  <2>5. CASE RetryFails(i)
    <3>1. UNCHANGED <<active, run>> /\ Calm
      BY <2>5, RetryFailsRows DEF RetryFails, Calm
    <3> QED
      BY <3>1, AbortsSettled
  <2> QED
    BY <1>8, <2>1, <2>2, <2>3, <2>4, <2>5 DEF CallStep
<1>9. ASSUME NEW r \in Slots, RunStep(r) PROVE ActiveSettled'
  <2>0. RunStep(r)
    BY <1>9
  <2>1. CASE HashDiffers(r)
    BY <2>1, <2>0, FinishedKept DEF HashDiffers, At
  <2>2. CASE Hashed(r)
    <3>1. \E inv \in Invocations :
              /\ run' = [run EXCEPT ![r] = inv]
              /\ inv.id = run[r].id /\ inv.aborted = run[r].aborted
      <4>1. PICK inv : inv = [run[r] EXCEPT !.pc = IF run[r].sess = NoSession THEN "create" ELSE "get"]
        OBVIOUS
      <4>2. inv \in Invocations /\ inv.id = run[r].id /\ inv.aborted = run[r].aborted
        BY <2>2, <4>1 DEF RunsGood, Invocations, RunPC
      <4>3. run' = [run EXCEPT ![r] = inv]
        BY <2>2, <4>1 DEF Hashed, Goto
      <4> QED
        BY <4>2, <4>3
    <3>2. active' = active
      BY <2>2 DEF Hashed
    <3>3. Calm
      <4>1. PICK row : row = [items[run[r].id] EXCEPT !.hash = run[r].row.file]
        OBVIOUS
      <4>2. run[r].id \in Ids
        BY <2>2 DEF Hashed, At, RunsGood, GoodRun
      <4>3. row.status = items[run[r].id].status
        BY <4>1, <4>2 DEF RowsGood, Row
      <4>4. Update(run[r].id, row)
        BY <2>2, <4>1 DEF Hashed
      <4> QED
        BY <4>2, <4>3, <4>4, RowAt DEF Calm
    <3> QED
      BY <3>1, <3>2, <3>3, AbortsSettled
  <2>3. CASE GetResumes(r)
    <3>1. active' = active /\ ~run[r].aborted
      BY <2>3 DEF GetResumes
    <3>2. r = active
      BY <2>3 DEF GetResumes, At, Working
    <3>3. run'[active].aborted = FALSE
      BY <2>3, <3>1, <3>2 DEF GetResumes, Goto, RunsGood, Invocations
    <3> QED
      BY <3>1, <3>3 DEF ActiveSettled
  <2>4. CASE GetSettles(r)
    BY <2>4, <2>0, FinishedKept DEF GetSettles, At
  <2>5. CASE \E s \in Sessions : CreateArrives(r, s)
    <3>0. PICK s \in Sessions : CreateArrives(r, s)
      BY <2>5
    <3>1. \E inv \in Invocations :
              /\ run' = [run EXCEPT ![r] = inv]
              /\ inv.id = run[r].id /\ inv.aborted = run[r].aborted
      <4>1. PICK inv : inv = [run[r] EXCEPT !.pc = "created", !.sess = s]
        OBVIOUS
      <4>2. inv \in Invocations /\ inv.id = run[r].id /\ inv.aborted = run[r].aborted
        BY <3>0, <4>1, ZenonT(60) DEF RunsGood, Invocations, RunPC
      <4>3. run' = [run EXCEPT ![r] = inv]
        BY <3>0, <4>1 DEF CreateArrives
      <4> QED
        BY <4>2, <4>3
    <3>2. active' = active /\ Calm
      BY <3>0 DEF CreateArrives, Calm
    <3> QED
      BY <3>1, <3>2, AbortsSettled
  <2>6. CASE CreateRefused(r)
    <3>1. \E inv \in Invocations :
              /\ run' = [run EXCEPT ![r] = inv]
              /\ inv.id = run[r].id /\ inv.aborted = run[r].aborted
      <4>1. PICK inv : inv = [run[r] EXCEPT !.pc = "duplicate"]
        OBVIOUS
      <4>2. inv \in Invocations /\ inv.id = run[r].id /\ inv.aborted = run[r].aborted
        BY <2>6, <4>1 DEF RunsGood, Invocations, RunPC
      <4>3. run' = [run EXCEPT ![r] = inv]
        BY <2>6, <4>1 DEF CreateRefused, Goto
      <4> QED
        BY <4>2, <4>3
    <3>2. active' = active /\ Calm
      BY <2>6 DEF CreateRefused, Calm
    <3> QED
      BY <3>1, <3>2, AbortsSettled
  <2>7. CASE Duplicate(r)
    BY <2>7, <2>0, FinishedKept DEF Duplicate, At
  <2>8. CASE CreatedCancelled(r)
    <3>1. \E inv \in Invocations :
              /\ run' = [run EXCEPT ![r] = inv]
              /\ inv.id = run[r].id /\ inv.aborted = run[r].aborted
      <4>1. PICK inv : inv = [run[r] EXCEPT !.pc = "drop"]
        OBVIOUS
      <4>2. inv \in Invocations /\ inv.id = run[r].id /\ inv.aborted = run[r].aborted
        BY <2>8, <4>1 DEF RunsGood, Invocations, RunPC
      <4>3. run' = [run EXCEPT ![r] = inv]
        BY <2>8, <4>1 DEF CreatedCancelled, Goto
      <4> QED
        BY <4>2, <4>3
    <3>2. active' = active /\ Calm
      BY <2>8 DEF CreatedCancelled, Calm
    <3> QED
      BY <3>1, <3>2, AbortsSettled
  <2>9. CASE Created(r)
    <3>1. CASE run[r].aborted
      BY <2>9, <2>0, <3>1, FinishedKept DEF Created, At
    <3>2. CASE ~run[r].aborted
      <4>1. r = active /\ active' = active
        BY <2>9, <3>2 DEF Created, At, Working
      <4>2. run'[active].aborted = FALSE
        BY <2>9, <3>2, <4>1 DEF Created, Goto, RunsGood, Invocations
      <4> QED
        BY <4>1, <4>2 DEF ActiveSettled
    <3> QED
      BY <3>1, <3>2
  <2>10. CASE DropSucceeds(r)
    BY <2>10, <2>0, FinishedKept DEF DropSucceeds, At
  <2>11. CASE DropFails(r)
    BY <2>11, <2>0, FinishedKept DEF DropFails, At
  <2>12. CASE PartsDone(r)
    <3>1. \E inv \in Invocations :
              /\ run' = [run EXCEPT ![r] = inv]
              /\ inv.id = run[r].id /\ inv.aborted = run[r].aborted
      <4>1. PICK inv : inv = [run[r] EXCEPT !.pc = "complete"]
        OBVIOUS
      <4>2. inv \in Invocations /\ inv.id = run[r].id /\ inv.aborted = run[r].aborted
        BY <2>12, <4>1 DEF RunsGood, Invocations, RunPC
      <4>3. run' = [run EXCEPT ![r] = inv]
        BY <2>12, <4>1 DEF PartsDone, Goto
      <4> QED
        BY <4>2, <4>3
    <3>2. active' = active /\ Calm
      BY <2>12 DEF PartsDone, Calm
    <3> QED
      BY <3>1, <3>2, AbortsSettled
  <2>13. CASE CompleteArrives(r)
    <3>1. \E inv \in Invocations :
              /\ run' = [run EXCEPT ![r] = inv]
              /\ inv.id = run[r].id /\ inv.aborted = run[r].aborted
      <4>1. PICK inv : inv = [run[r] EXCEPT !.pc = "completed",
                                   !.ans = IF srv[run[r].sess].status = "uploading"
                                           THEN "processing" ELSE srv[run[r].sess].status]
        OBVIOUS
      <4>2. inv \in Invocations /\ inv.id = run[r].id /\ inv.aborted = run[r].aborted
        BY <2>13, <4>1, ZenonT(60)
        DEF RunsGood, Invocations, RunPC, CompleteArrives, ServerStatuses
      <4>3. run' = [run EXCEPT ![r] = inv]
        BY <2>13, <4>1 DEF CompleteArrives
      <4> QED
        BY <4>2, <4>3
    <3>2. active' = active /\ Calm
      BY <2>13 DEF CompleteArrives, Calm
    <3> QED
      BY <3>1, <3>2, AbortsSettled
  <2>14. CASE CompleteIgnored(r)
    BY <2>14, <2>0, FinishedKept DEF CompleteIgnored, At
  <2>15. CASE Completed(r)
    BY <2>15, <2>0, FinishedKept DEF Completed, At
  <2>16. CASE Unwinds(r)
    BY <2>16, <2>0, FinishedKept DEF Unwinds, At
  <2>17. CASE Fails(r)
    BY <2>17, <2>0, FinishedKept DEF Fails, At
  <2> QED
    BY <1>9, <2>1, <2>2, <2>3, <2>4, <2>5, <2>6, <2>7, <2>8, <2>9, <2>10, <2>11, <2>12,
       <2>13, <2>14, <2>15, <2>16, <2>17
       DEF RunStep
<1>10. CASE \/ (\E u \in Users : SignIn(u)) \/ RestoreLocal \/ RestoreRemote
            \/ RestoreFails \/ PollFails \/ (\E i \in Ids : PollArrives(i))
            \/ (\E s \in Sessions : ServerMoves(s))
  BY <1>10, AbortsSettled
     DEF SignIn, RestoreLocal, RestoreRemote, RestoreFails, PollFails, PollArrives,
        ServerMoves, Calm, mountVars
<1> QED
  BY <1>1, <1>2, <1>3, <1>4, <1>5, <1>6, <1>7, <1>8, <1>9, <1>10 DEF Next

---------------------------------------------------------------------------
(* The inductive invariant *)

\* Ids are drawn for good.
LEMMA UsedStep ==
    ASSUME Next
    PROVE  used \subseteq used'
<1>1. ASSUME NEW i \in Ids, Button(i) PROVE used' = used
  BY <1>1
  DEF Button, Pause, CancelLocal, CancelSend, RetryLocal, RetrySend, Dismiss, Reselect,
              mountVars
<1>2. ASSUME NEW i \in Ids, CallStep(i) PROVE used' = used
  BY <1>2 DEF CallStep, CancelArrives, CancelSucceeds, CancelFails, RetryArrives,
              RetryAnswered, RetryFails, mountVars
<1>3. ASSUME NEW r \in Slots, RunStep(r) PROVE used' = used
  BY <1>3 DEF RunStep, HashDiffers, Hashed, GetResumes, GetSettles, CreateArrives,
              CreateRefused, Duplicate, CreatedCancelled, Created, DropSucceeds, DropFails,
              PartsDone, CompleteArrives, CompleteIgnored, Completed, Unwinds, Fails, mountVars
<1> QED
  BY <1>1, <1>2, <1>3
  DEF Next, SignIn, RestoreLocal, RestoreRemote, Restored, RestoreFails, SignOut, Reload,
      Unmounted, PollAnswered, PollFails, AddFile, PollArrives, Start, ServerMoves, mountVars

\* Nothing is under way when the program is opened for the first time.
LEMMA InitInv == Init => Inv
<1> SUFFICES ASSUME Init PROVE Inv
  OBVIOUS
<1>0. Absent \in Row /\ Absent.sess = NoSession /\ Absent.status = "absent"
  BY DEF Absent, Row, Statuses
<1>1. ServerGood
  BY DEF Init, ServerGood, ServerRows, NotCreated, ServerStatuses
<1>2. RowsGood
  BY <1>0 DEF Init, RowsGood, GoodRow, Owned
<1>3. RunsGood
  BY <1>0 DEF Init, RunsGood, Invocations, GoodRun, Idle, RunPC, ServerStatuses
<1>4. CallsGood
  BY <1>0 DEF Init, CallsGood, Calls, GoodCall, NoCall, CallPC, CallAnswers
<1>5. RestoreGood
  BY <1>0 DEF Init, RestoreGood, Restores, NotRead, ServerStatuses, GoodRow, Owned
<1>6. PollGood
  BY DEF Init, PollGood, Polls, NoPoll, PollAnswers
<1>7. Mounting
  <2>1. unmounts \in 0 .. MaxUnmounts
    BY ConstantsAssumption DEF Init
  <2>2. \A op \in {"cancel", "retry"}, i \in Ids : ~Pending(op, i)
    BY DEF Init, Pending, NoCall
  <2> QED
    BY <2>1, <2>2 DEF Init, Mounting
<1>8. Working
  BY ConstantsAssumption DEF Init, Working, Idle
<1>9. Unused
  BY DEF Init, Unused, UnusedRow, UnusedWork, Ids, NotRead, NoCall, Idle
<1>10. SameSession
  BY DEF Init, SameSession, Pending, NoCall
<1>11. Settled
  BY <1>0 DEF Init, Settled, ActiveSettled, RowSettled, Busy, Shown
<1> QED
  BY <1>1, <1>2, <1>3, <1>4, <1>5, <1>6, <1>7, <1>8, <1>9, <1>10, <1>11 DEF Inv

\* Every part of the invariant speaks of the variables only.
LEMMA StutterInv == Inv /\ UNCHANGED vars => Inv'
<1> SUFFICES ASSUME Inv, UNCHANGED vars PROVE Inv'
  OBVIOUS
<1> USE DEF Inv, vars, mountVars
<1>1. ServerGood'
  BY DEF ServerGood
<1>2. RowsGood'
  BY DEF RowsGood, GoodRow, Owned, Past
<1>3. RunsGood'
  BY DEF RunsGood, GoodRun, GoodRow, Owned, Past
<1>4. CallsGood'
  BY ZenonT(30) DEF CallsGood, GoodCall, GoodRow, Owned, Past
<1>5. RestoreGood'
  BY DEF RestoreGood, GoodRow, Owned, Past
<1>6. PollGood'
  BY DEF PollGood, Past
<1>7. Mounting'
  BY DEF Mounting, Pending
<1>8. Working'
  BY DEF Working
<1>9. Unused'
  BY DEF Unused, UnusedRow, UnusedWork
<1>10. SameSession'
  BY DEF SameSession, Pending, Shown
<1>11. Settled'
  BY DEF Settled, ActiveSettled, RowSettled, Works, Creates, Pending, Shown
<1> QED
  BY <1>1, <1>2, <1>3, <1>4, <1>5, <1>6, <1>7, <1>8, <1>9, <1>10, <1>11 DEF Inv

\* Every step keeps every part of the invariant.
LEMMA NextInv == Inv /\ Next => Inv'
<1> SUFFICES ASSUME Inv, Next PROVE Inv'
  OBVIOUS
<1> USE DEF Inv
<1>1. ServerGood' /\ ServerMonotone
  BY ServerStep
<1>2. RowsGood'
  BY <1>1, RowsStep
<1>3. RunsGood'
  BY <1>1, RunsStep
<1>4. CallsGood'
  BY <1>1, CallsStep
<1>5. RestoreGood'
  BY <1>1, RestoreStep
<1>6. PollGood'
  BY <1>1, PollStep
<1>7. Mounting'
  BY MountingStep
<1>8. Working'
  BY WorkingStep
<1>9. Unused'
  BY UsedStep, UnusedStep
<1>10. SameSession'
  BY SameSessionStep
<1>11. Settled'
  <2>1. \A j \in Ids : RowSettled(j)'
    BY RowSettledStep DEF Settled
  <2>2. ActiveSettled'
    BY ActiveSettledStep DEF Settled
  <2> QED
    BY <2>1, <2>2 DEF Settled
<1> QED
  BY <1>1, <1>2, <1>3, <1>4, <1>5, <1>6, <1>7, <1>8, <1>9, <1>10, <1>11

\* The inductive invariant holds in every reachable state.
THEOREM Invariance == Spec => []Inv
<1>1. Inv /\ [Next]_vars => Inv'
  BY NextInv, StutterInv
<1> QED
  BY InitInv, <1>1, PTL DEF Spec

---------------------------------------------------------------------------
(* What it says of the queue *)

\* Whoever signs in or out while requests are under way, every row on display or in
\* IndexedDB is of its account, and every step works for a session that it names.
THEOREM TypeCorrect == Spec => []TypeOK
<1>1. Inv => TypeOK
  <2> SUFFICES ASSUME Inv PROVE TypeOK
    OBVIOUS
  <2> USE DEF Inv
  <2>1. OwnQueue
    BY DEF RowsGood, GoodRow, Owned, OwnQueue
  <2>2. /\ account \in Users \cup {NoUser} /\ ready \in BOOLEAN
        /\ unmounts \in 0 .. MaxUnmounts /\ used \subseteq NewIds
        /\ active \in Slots \cup {NoSlot} /\ cancelled \subseteq Ids
    BY DEF Mounting
  <2>3. /\ restore.local \in [Ids -> Row]
        /\ restore.remote \in [Sessions -> ServerStatuses]
    BY DEF RestoreGood, Restores
  <2>4. items \in [Ids -> Row] /\ stored \in [Users -> [Ids -> Row]]
    BY DEF RowsGood
  <2>5. ASSUME NEW r \in Slots
        PROVE  /\ run[r].pc \in RunPC /\ run[r].row \in Row
               /\ run[r].pc # "idle" => run[r].id \in Ids /\ run[r].user \in Users
               /\ run[r].pc \in {"get", "created", "drop", "parts", "complete", "completed"}
                      => run[r].sess \in Sessions
    <3>1. run[r] \in Invocations /\ GoodRun(run[r])
      BY <2>5 DEF RunsGood
    <3> QED
      BY <3>1 DEF Invocations, GoodRun
  <2>6. ASSUME NEW op \in {"cancel", "retry"}, NEW i \in Ids, call[op][i].pc # "none"
        PROVE  call[op][i].user \in Users /\ call[op][i].row.sess \in Sessions
    BY <2>6 DEF CallsGood, GoodCall
  <2>7. poll.id # NoSession => poll.id \in Ids /\ poll.sess \in Sessions
    BY DEF PollGood, NoPoll, Past
  <2>8. srv \in [Sessions -> [status: ServerStatuses, owner: Users \cup {NoUser},
                              content: Contents \cup {NoFile}]]
    BY DEF ServerGood, ServerRows
  <2> QED
    BY <2>1, <2>2, <2>3, <2>4, <2>5, <2>6, <2>7, <2>8 DEF TypeOK
<1> QED
  BY Invariance, <1>1, PTL

\* Whatever is paused, cancelled, retried or remounted, at most one invocation works on.
THEOREM OneAtATimeHolds == Spec => []OneAtATime
<1>1. Inv => OneAtATime
  BY DEF Inv, Working, OneAtATime
<1> QED
  BY Invariance, <1>1, PTL

\* A row that says that it is worked on, or is being cancelled, has somebody who does it.
THEOREM NoStuckRowHolds == Spec => []NoStuckRow
<1>1. Inv => NoStuckRow
  BY DEF Inv, Settled, RowSettled, Busy, Pending, Creates, Works, NoStuckRow
<1> QED
  BY Invariance, <1>1, PTL

\* A row says "processing" only for a session that has left the upload phase.
THEOREM ProcessingTrueHolds == Spec => []ProcessingTrue
<1>1. Inv => ProcessingTrue
  BY DEF Inv, RowsGood, GoodRow, Past, ProcessingTrue
<1> QED
  BY Invariance, <1>1, PTL

===========================================================================
