-------------------------- MODULE UploadQueueClient --------------------------
(***************************************************************************)
(* The upload queue of the browser (apps/web/src/components/               *)
(* UploadManager.tsx, lib/upload-queue.ts, lib/upload-db.ts): rows of      *)
(* files, the one upload that runs, the buttons of AddView, the polls of   *)
(* processing rows, and what survives a reload or a change of account.     *)
(*                                                                         *)
(*   - processOne is a coroutine: run[r] is one invocation of it, with the *)
(*     row it was given and its place between two awaits.  Hashing, reads  *)
(*     and parts stop when their controller is aborted; a create, complete *)
(*     or cancel request goes on and answers later.                        *)
(*   - App.tsx mounts the provider under the key of the user, so a change  *)
(*     of account starts with empty refs; invocations and calls of the     *)
(*     previous mount are "stale", and may still write to IndexedDB.       *)
(*   - A request reaches the server in one step and its answer is handled  *)
(*     in another one, so that both can be lost, late, or overtaken.       *)
(*   - The server is what UploadPipeline promises of one session.          *)
(***************************************************************************)
EXTENDS Naturals, FiniteSets

CONSTANTS
    Users, NoUser,
    NewIds,     \* localIds that addFiles may draw: bounds the files added
    Sessions,   \* sessions the server may create
    NoSession,
    Contents,   \* what a file may contain; its sha256 is the content itself
    NoFile,
    Slots,      \* invocations of processOne that may be alive together
    NoSlot,
    MaxUnmounts \* log-outs and reloads

\* restoreUploadQueue draws a fresh id for a listed session that no stored row
\* names: the session itself stands for it.
Ids == NewIds \cup Sessions

ASSUME ConstantsAssumption ==
    /\ NoUser \notin Users /\ NoSession \notin Sessions
    /\ NoFile \notin Contents /\ NoSlot \notin Slots
    /\ NewIds \cap Sessions = {}
    /\ MaxUnmounts \in Nat

VARIABLES
    account,    \* the user key of the mounted provider
    ready,      \* the queue was restored
    restore,    \* what the two reads of the restoration have answered
    items,      \* itemsRef: the rows on display
    used,       \* localIds drawn so far
    active,     \* activeRef
    cancelled,  \* cancelledLocalIDsRef
    run,        \* invocations of processOne
    call,       \* requests of the cancel and retry buttons
    poll,       \* the poll in flight
    stored,     \* upload-metadata rows in IndexedDB, by owner
    unmounts,   \* log-outs and reloads so far
    srv         \* upload_sessions at the server

mountVars == <<account, ready, restore, used, cancelled, unmounts>>
vars == <<mountVars, items, active, run, call, poll, stored, srv>>

Statuses == {"absent", "queued", "needs_file", "hashing", "duplicate", "uploading",
             "paused", "processing", "error", "cancelling"}
ServerStatuses == {"none", "uploading", "processing", "error", "ready", "cancelled",
                   "gone", "purged"}
Listed == {"uploading", "processing", "error"}

Row == [status: Statuses, sess: Sessions \cup {NoSession},
        file: Contents \cup {NoFile}, hash: Contents \cup {NoFile}]
Absent == [status |-> "absent", sess |-> NoSession, file |-> NoFile, hash |-> NoFile]

RunPC == {"idle", "hash", "get", "create", "created", "duplicate", "drop",
          "parts", "complete", "completed"}
\* The phase "creating" of the active upload lasts until its session is recorded.
CreatingPC == {"create", "created", "duplicate", "drop"}

Idle == [pc |-> "idle", id |-> NoSession, user |-> NoUser, row |-> Absent,
         aborted |-> FALSE, stale |-> FALSE, flag |-> FALSE, sess |-> NoSession,
         ans |-> "none"]
NoCall == [pc |-> "none", user |-> NoUser, row |-> Absent, stale |-> FALSE,
           ans |-> "none"]
NoPoll == [id |-> NoSession, sess |-> NoSession, ans |-> "none"]
NotRead == [local |-> [i \in Ids |-> Absent], gotLocal |-> FALSE,
            remote |-> [s \in Sessions |-> "none"], gotRemote |-> FALSE]
NotCreated == [status |-> "none", owner |-> NoUser, content |-> NoFile]

\* Rows on display and rows in IndexedDB belong to their account, also when
\* requests of the previous account answer after the change.
OwnQueue ==
    /\ \A i \in Ids : items[i].sess # NoSession => srv[items[i].sess].owner = account
    /\ \A u \in Users, i \in Ids :
           stored[u][i].sess # NoSession => srv[stored[u][i].sess].owner = u

\* The types: a step that works for a session names one, and rows are of their account.
TypeOK ==
    /\ account \in Users \cup {NoUser} /\ ready \in BOOLEAN
    /\ unmounts \in 0 .. MaxUnmounts
    /\ restore.local \in [Ids -> Row] /\ restore.remote \in [Sessions -> ServerStatuses]
    /\ items \in [Ids -> Row] /\ used \subseteq NewIds
    /\ active \in Slots \cup {NoSlot} /\ cancelled \subseteq Ids
    /\ \A r \in Slots :
           /\ run[r].pc \in RunPC /\ run[r].row \in Row
           /\ run[r].pc # "idle" => run[r].id \in Ids /\ run[r].user \in Users
           /\ run[r].pc \in {"get", "created", "drop", "parts", "complete", "completed"}
                  => run[r].sess \in Sessions
    /\ \A op \in {"cancel", "retry"}, i \in Ids :
           call[op][i].pc # "none" => /\ call[op][i].user \in Users
                                      /\ call[op][i].row.sess \in Sessions
    /\ poll.id # NoSession => poll.id \in Ids /\ poll.sess \in Sessions
    /\ stored \in [Users -> [Ids -> Row]]
    /\ srv \in [Sessions -> [status: ServerStatuses, owner: Users \cup {NoUser},
                             content: Contents \cup {NoFile}]]
    /\ OwnQueue

Init ==
    /\ account = NoUser /\ ready = FALSE /\ restore = NotRead
    /\ items = [i \in Ids |-> Absent] /\ used = {}
    /\ active = NoSlot /\ cancelled = {}
    /\ run = [r \in Slots |-> Idle]
    /\ call = [op \in {"cancel", "retry"} |-> [i \in Ids |-> NoCall]]
    /\ poll = NoPoll
    /\ stored = [u \in Users |-> [i \in Ids |-> Absent]]
    /\ srv = [s \in Sessions |-> NotCreated] /\ unmounts = 0

---------------------------------------------------------------------------
(* Rows and their copies in IndexedDB *)

Shown(i) == items[i].status # "absent"

\* updateItem: the row on display and its stored copy, which has no File.
Update(i, row) ==
    IF Shown(i)
    THEN /\ items' = [items EXCEPT ![i] = row]
         /\ stored' = [stored EXCEPT ![account][i] = [row EXCEPT !.file = NoFile]]
    ELSE UNCHANGED <<items, stored>>

\* removeItem
Remove(i) ==
    /\ items' = [items EXCEPT ![i] = Absent]
    /\ stored' = [stored EXCEPT ![account][i] = Absent]

\* Faulty: under the user of today.
StoreForAccount(u, i, row) ==
    /\ stored' = [stored EXCEPT ![IF account = NoUser THEN u ELSE account][i] =
                     [row EXCEPT !.file = NoFile]]
    /\ UNCHANGED items

\* persistItem and removePersistedUploads of a previous mount, under its user.
StoreFor(u, i, row) ==
    /\ stored' = [stored EXCEPT ![u][i] = [row EXCEPT !.file = NoFile]]
    /\ UNCHANGED items

\* The effect that polls is cleaned up whenever processingKey changes.
ProcessingKey == {<<i, items[i].sess>> : i \in {i \in Ids : items[i].status = "processing"}}
KeepPoll == poll' = IF ProcessingKey' = ProcessingKey THEN poll ELSE NoPoll

\* The finally block of processOne.
Finish(r) ==
    /\ run' = [run EXCEPT ![r] = Idle]
    /\ active' = IF active = r THEN NoSlot ELSE active

Abort(r) == run' = [run EXCEPT ![r].aborted = TRUE]

\* activeRef.current?.id === item.localId
Works(i) == active # NoSlot /\ run[active].id = i

Flagged(r) == IF run[r].stale THEN run[r].flag ELSE run[r].id \in cancelled

---------------------------------------------------------------------------
(* The server *)

Alive(s) == srv[s].status \notin {"none", "gone", "purged"}

\* findDuplicateTrack: a published track keeps its sha256 when its session is purged.
Taken(c) ==
    \E s \in Sessions :
        srv[s].content = c /\ srv[s].status \notin {"none", "cancelled", "gone"}

SetServer(s, status) == srv' = [srv EXCEPT ![s].status = status]

\* DELETE /me/uploads/:id with the cookie of user u.
CancelAnswer(s, u) ==
    IF ~Alive(s) \/ srv[s].owner # u THEN "upload_not_found"
    ELSE IF srv[s].status \in {"ready", "processing"} THEN "refused" ELSE "ok"
CancelEffect(s, u) ==
    IF CancelAnswer(s, u) = "ok" THEN SetServer(s, "cancelled") ELSE UNCHANGED srv

\* The worker publishes or fails; expiry cancels; the purge removes terminal rows.
ServerMoves(s) ==
    /\ \/ srv[s].status = "processing" /\ \E to \in {"ready", "error"} : SetServer(s, to)
       \/ srv[s].status = "uploading" /\ SetServer(s, "cancelled")
       \/ srv[s].status = "ready" /\ SetServer(s, "purged")
       \/ srv[s].status = "cancelled" /\ SetServer(s, "gone")
    /\ UNCHANGED <<mountVars, items, active, run, call, poll, stored>>

---------------------------------------------------------------------------
(* Mounting, restoring, unmounting *)

SignIn(u) ==
    /\ account = NoUser
    /\ account' = u
    /\ UNCHANGED <<ready, restore, used, cancelled, unmounts, items, active, run, call, poll,
                   stored, srv>>

\* listPersistedUploads and getUploads run in parallel.
RestoreLocal ==
    /\ account # NoUser /\ ~ready /\ ~restore.gotLocal
    /\ restore' = [restore EXCEPT !.gotLocal = TRUE, !.local = stored[account]]
    /\ UNCHANGED <<account, ready, used, cancelled, unmounts, items, active, run, call, poll,
                   stored, srv>>

RestoreRemote ==
    /\ account # NoUser /\ ~ready /\ ~restore.gotRemote
    /\ restore' = [restore EXCEPT !.gotRemote = TRUE,
          !.remote = [s \in Sessions |->
              IF srv[s].owner = account /\ srv[s].status \in Listed
              THEN srv[s].status ELSE "none"]]
    /\ UNCHANGED <<account, ready, used, cancelled, unmounts, items, active, run, call, poll,
                   stored, srv>>

ServerUploadStatus(status) == IF status = "uploading" THEN "needs_file" ELSE status

\* restoreUploadQueue: stored rows whose session is not listed are discarded, a
\* listed session takes over the first row that names it, or a row of its own.
StaleRows ==
    {i \in Ids : /\ restore.local[i].sess # NoSession
                 /\ restore.remote[restore.local[i].sess] = "none"}
NamedBy(s) == {i \in Ids : restore.local[i].sess = s}
Restorable(i) ==
    LET row == restore.local[i]
    IN IF row.status = "absent" \/ i \in StaleRows THEN Absent
       ELSE [row EXCEPT !.status = IF @ \in {"processing", "error", "duplicate"}
                                   THEN @ ELSE "needs_file"]
FromServer(s) == [status |-> ServerUploadStatus(restore.remote[s]), sess |-> s,
                  file |-> NoFile, hash |-> srv[s].content]

Restored ==
    LET listed == {s \in Sessions : restore.remote[s] # "none"} IN
    /\ account # NoUser /\ ~ready /\ restore.gotLocal /\ restore.gotRemote
    /\ \E row \in [listed -> Ids] :
           /\ \A s \in listed :
                  row[s] \in IF NamedBy(s) = {} THEN {s} ELSE NamedBy(s)
           /\ items' = [i \in Ids |->
                  IF \E s \in listed : row[s] = i
                  THEN FromServer(CHOOSE s \in listed : row[s] = i)
                  ELSE Restorable(i)]
    /\ stored' = [stored EXCEPT ![account] =
                     [i \in Ids |-> IF i \in StaleRows THEN Absent ELSE @[i]]]
    /\ ready' = TRUE /\ restore' = NotRead /\ KeepPoll
    /\ UNCHANGED <<account, used, cancelled, unmounts, active, run, call, srv>>

\* getUploads failed: an empty queue with a message.
RestoreFails ==
    /\ account # NoUser /\ ~ready
    /\ ready' = TRUE /\ restore' = NotRead
    /\ UNCHANGED <<account, used, cancelled, unmounts, items, active, run, call, poll, stored, srv>>

Unmounted ==
    /\ unmounts < MaxUnmounts /\ unmounts' = unmounts + 1
    /\ ready' = FALSE /\ restore' = NotRead /\ cancelled' = {}
    /\ items' = [i \in Ids |-> Absent] /\ active' = NoSlot /\ poll' = NoPoll
    /\ UNCHANGED <<used, stored, srv>>

\* Log-out, or a session that the server no longer accepts: the invocation of
\* this mount is aborted and its requests answer to nobody.
SignOut ==
    /\ account # NoUser /\ account' = NoUser
    /\ Unmounted
    /\ run' = [r \in Slots |->
          IF run[r].pc = "idle" THEN run[r]
          ELSE [run[r] EXCEPT !.aborted = TRUE, !.stale = TRUE, !.flag = Flagged(r)]]
    /\ call' = [op \in {"cancel", "retry"} |-> [i \in Ids |->
          IF call[op][i].pc = "none" THEN NoCall
          ELSE [call[op][i] EXCEPT !.stale = TRUE]]]

\* A reload keeps the cookie and IndexedDB, and nothing else.
Reload ==
    /\ account # NoUser /\ UNCHANGED account
    /\ Unmounted
    /\ run' = [r \in Slots |-> Idle]
    /\ call' = [op \in {"cancel", "retry"} |-> [i \in Ids |-> NoCall]]

---------------------------------------------------------------------------
(* The buttons *)

\* addFiles with a new file; one that validation refuses is a row in error.
AddFile(i, file) ==
    /\ ready /\ i \in NewIds \ used
    /\ used' = used \cup {i}
    /\ LET row == [Absent EXCEPT !.file = file,
                     !.status = IF file = NoFile THEN "error" ELSE "queued"]
       IN /\ items' = [items EXCEPT ![i] = row]
          /\ stored' = [stored EXCEPT ![account][i] = [row EXCEPT !.file = NoFile]]
    /\ UNCHANGED <<account, ready, restore, cancelled, unmounts, active, run, call, poll, srv>>

\* reselectFile, and addFiles with a file that matches a waiting row: name and
\* size agree, the content may not.  One that validation refuses in addFiles
\* leaves the row in error.
Reselect(i, file) ==
    /\ ready /\ items[i].status = "needs_file"
    /\ Update(i, [items[i] EXCEPT !.file = file,
                     !.status = IF file = NoFile THEN "error" ELSE "queued"])
    /\ UNCHANGED <<mountVars, active, run, call, poll, srv>>

\* Faulty: the row keeps the status of the work that is being stopped.
PauseSilently(i) ==
    /\ items[i].status \in {"hashing", "uploading"}
    /\ IF Works(i) THEN Abort(active) ELSE UNCHANGED run
    /\ UNCHANGED <<mountVars, items, active, call, poll, stored, srv>>

Pause(i) ==
    /\ items[i].status \in {"hashing", "uploading"}
    /\ IF Works(i) THEN Abort(active) ELSE UNCHANGED run
    /\ Update(i, [items[i] EXCEPT !.status = "paused"])
    /\ UNCHANGED <<mountVars, active, call, poll, srv>>

Cancellable == {"queued", "needs_file", "hashing", "uploading", "paused", "error"}

\* cancel without a session: the invocation that is creating one will cancel it.
CancelLocal(i) ==
    /\ items[i].status \in Cancellable /\ items[i].sess = NoSession
    /\ cancelled' = cancelled \cup {i}
    /\ IF Works(i) THEN Abort(active) ELSE UNCHANGED run
    /\ IF Works(i) /\ run[active].pc \in CreatingPC
       THEN Update(i, [items[i] EXCEPT !.status = "cancelling"])
       ELSE Remove(i)
    /\ UNCHANGED <<account, ready, restore, used, unmounts, active, call, poll, srv>>

\* cancel with a session: the row waits for the answer.
CancelSend(i) ==
    /\ items[i].status \in Cancellable /\ items[i].sess # NoSession
    /\ call["cancel"][i].pc = "none"
    /\ cancelled' = cancelled \cup {i}
    /\ IF Works(i) THEN Abort(active) ELSE UNCHANGED run
    /\ Update(i, [items[i] EXCEPT !.status = "cancelling"])
    /\ call' = [call EXCEPT !["cancel"][i] =
                  [NoCall EXCEPT !.pc = "sent", !.user = account,
                                 !.row = [items[i] EXCEPT !.status = "cancelling"]]]
    /\ UNCHANGED <<account, ready, restore, used, unmounts, active, poll, srv>>

CancelArrives(i) ==
    LET c == call["cancel"][i] IN
    /\ c.pc = "sent"
    /\ CancelEffect(c.row.sess, c.user)
    /\ call' = [call EXCEPT !["cancel"][i] =
                   [@ EXCEPT !.pc = "answered",
                             !.ans = IF CancelAnswer(c.row.sess, c.user) = "refused"
                                     THEN "refused" ELSE "gone"]]
    /\ UNCHANGED <<mountVars, items, active, run, poll, stored>>

\* The server no longer has the session active: the row goes.
CancelSucceeds(i) ==
    LET c == call["cancel"][i] IN
    /\ c.pc = "answered" /\ c.ans = "gone"
    /\ IF c.stale THEN StoreFor(c.user, i, Absent) ELSE Remove(i)
    /\ call' = [call EXCEPT !["cancel"][i] = NoCall]
    /\ KeepPoll
    /\ UNCHANGED <<mountVars, active, run, srv>>

\* Faulty: the row goes whatever the server answered.
CancelFailsRemoves(i) ==
    LET c == call["cancel"][i] IN
    /\ c.pc = "sent" \/ (c.pc = "answered" /\ c.ans = "refused")
    /\ IF c.stale THEN StoreFor(c.user, i, Absent) ELSE Remove(i)
    /\ cancelled' = IF c.stale THEN cancelled ELSE cancelled \ {i}
    /\ call' = [call EXCEPT !["cancel"][i] = NoCall]
    /\ KeepPoll
    /\ UNCHANGED <<account, ready, restore, used, unmounts, active, run, srv>>

\* A refusal, or a failure before or after the server has acted: the row can be
\* retried with the File it had.
CancelFails(i) ==
    LET c == call["cancel"][i] IN
    /\ c.pc # "none"
    /\ IF c.stale THEN StoreFor(c.user, i, [c.row EXCEPT !.status = "error"])
       ELSE Update(i, [items[i] EXCEPT !.status = "error", !.file = c.row.file])
    /\ cancelled' = IF c.stale THEN cancelled ELSE cancelled \ {i}
    /\ call' = [call EXCEPT !["cancel"][i] = NoCall]
    /\ KeepPoll
    /\ UNCHANGED <<account, ready, restore, used, unmounts, active, run, srv>>

\* retry of a row that can be queued again, or that needs its file first.
RetryLocal(i) ==
    /\ \/ items[i].status = "paused"
       \/ items[i].status = "error" /\ (items[i].sess = NoSession \/ items[i].file # NoFile)
    /\ Update(i, [items[i] EXCEPT
                    !.status = IF items[i].file = NoFile THEN "needs_file" ELSE "queued"])
    /\ UNCHANGED <<mountVars, active, run, call, poll, srv>>

\* retry of a row that the server failed to process.
RetrySend(i) ==
    /\ items[i].status = "error" /\ items[i].sess # NoSession /\ items[i].file = NoFile
    /\ call["retry"][i].pc = "none"
    /\ call' = [call EXCEPT !["retry"][i] =
                  [NoCall EXCEPT !.pc = "sent", !.user = account, !.row = items[i]]]
    /\ UNCHANGED <<mountVars, items, active, run, poll, stored, srv>>

RetryArrives(i) ==
    LET c == call["retry"][i]
        s == c.row.sess
        retried == srv[s].status = "error" /\ srv[s].owner = c.user
    IN /\ c.pc = "sent"
       /\ IF retried THEN SetServer(s, "processing") ELSE UNCHANGED srv
       /\ call' = [call EXCEPT !["retry"][i] =
                      [@ EXCEPT !.pc = "answered",
                                !.ans = IF retried THEN "processing" ELSE "refused"]]
       /\ UNCHANGED <<mountVars, items, active, run, poll, stored>>

\* applySessionUpdate, to the row of that id if there is one.
RetryAnswered(i) ==
    LET c == call["retry"][i] IN
    /\ c.pc = "answered" /\ c.ans = "processing"
    /\ IF c.stale THEN StoreFor(c.user, i, [c.row EXCEPT !.status = "processing"])
       ELSE Update(i, [items[i] EXCEPT !.status = "processing"])
    /\ call' = [call EXCEPT !["retry"][i] = NoCall]
    /\ KeepPoll
    /\ UNCHANGED <<mountVars, active, run, srv>>

\* Only the message of the row changes, and the row is stored again.
RetryFails(i) ==
    LET c == call["retry"][i] IN
    /\ c.pc # "none"
    /\ IF c.stale THEN StoreFor(c.user, i, c.row) ELSE Update(i, items[i])
    /\ call' = [call EXCEPT !["retry"][i] = NoCall]
    /\ UNCHANGED <<mountVars, active, run, poll, srv>>

\* removeItem of a duplicate.
Dismiss(i) ==
    /\ items[i].status = "duplicate"
    /\ Remove(i)
    /\ UNCHANGED <<mountVars, active, run, call, poll, srv>>

---------------------------------------------------------------------------
(* processOne *)

At(r, pc) == run[r].pc = pc
Goto(r, pc) == run' = [run EXCEPT ![r].pc = pc]

\* The row of invocation r, on display or, after an unmount, in IndexedDB.
Write(r, row) ==
    IF run[r].stale THEN StoreFor(run[r].user, run[r].id, row) ELSE Update(run[r].id, row)
Erase(r) ==
    IF run[r].stale THEN StoreFor(run[r].user, run[r].id, Absent) ELSE Remove(run[r].id)

\* Faulty: the effect does not look at activeRef.
StartBeside(r, i) ==
    /\ ready /\ At(r, "idle")
    /\ items[i].status = "queued" /\ items[i].file # NoFile
    /\ run' = [run EXCEPT ![r] = [Idle EXCEPT !.pc = "hash", !.id = i, !.user = account,
                                             !.row = items[i], !.sess = items[i].sess]]
    /\ active' = r
    /\ Update(i, [items[i] EXCEPT !.status = "hashing"])
    /\ UNCHANGED <<mountVars, call, poll, srv>>

\* The effect that takes a queued row, whichever comes first in the list.
Start(r, i) ==
    /\ ready /\ At(r, "idle") /\ active = NoSlot
    /\ items[i].status = "queued" /\ items[i].file # NoFile
    /\ run' = [run EXCEPT ![r] = [Idle EXCEPT !.pc = "hash", !.id = i, !.user = account,
                                             !.row = items[i], !.sess = items[i].sess]]
    /\ active' = r
    /\ Update(i, [items[i] EXCEPT !.status = "hashing"])
    /\ UNCHANGED <<mountVars, call, poll, srv>>

\* The file is not the one whose sha256 the row remembers.
HashDiffers(r) ==
    /\ At(r, "hash") /\ ~run[r].aborted
    /\ run[r].row.hash \notin {NoFile, run[r].row.file}
    /\ Update(run[r].id, [items[run[r].id] EXCEPT !.status = "needs_file", !.file = NoFile])
    /\ Finish(r)
    /\ UNCHANGED <<mountVars, call, poll, srv>>

\* The sha256 is recorded; the session of the row is read, or one is created.
Hashed(r) ==
    /\ At(r, "hash") /\ ~run[r].aborted
    /\ run[r].row.hash \in {NoFile, run[r].row.file}
    /\ Update(run[r].id, [items[run[r].id] EXCEPT !.hash = run[r].row.file])
    /\ Goto(r, IF run[r].sess = NoSession THEN "create" ELSE "get")
    /\ UNCHANGED <<mountVars, active, call, poll, srv>>

\* The session still takes parts.
GetResumes(r) ==
    /\ At(r, "get") /\ ~run[r].aborted
    /\ srv[run[r].sess].status = "uploading"
    /\ Update(run[r].id, [items[run[r].id] EXCEPT !.status = "uploading"])
    /\ Goto(r, "parts")
    /\ UNCHANGED <<mountVars, active, call, poll, srv>>

\* The session has gone on without this browser.
GetSettles(r) ==
    LET i == run[r].id  status == srv[run[r].sess].status IN
    /\ At(r, "get") /\ ~run[r].aborted
    /\ status \in {"processing", "error", "ready", "cancelled"}
    /\ IF status \in {"ready", "cancelled"} THEN Remove(i)
       ELSE Update(i, [items[i] EXCEPT !.status = status, !.file = NoFile])
    /\ Finish(r) /\ KeepPoll
    /\ UNCHANGED <<mountVars, call, srv>>

\* POST /me/uploads: a session, or the answer duplicate_track.
CreateArrives(r, s) ==
    LET c == run[r].row.file IN
    /\ At(r, "create") /\ ~Taken(c) /\ srv[s].status = "none"
    /\ srv' = [srv EXCEPT ![s] = [status |-> "uploading", owner |-> run[r].user,
                                  content |-> c]]
    /\ run' = [run EXCEPT ![r] = [@ EXCEPT !.pc = "created", !.sess = s]]
    /\ UNCHANGED <<mountVars, items, active, call, poll, stored>>

CreateRefused(r) ==
    /\ At(r, "create") /\ Taken(run[r].row.file)
    /\ Goto(r, "duplicate")
    /\ UNCHANGED <<mountVars, items, active, call, poll, stored, srv>>

\* The row becomes a duplicate, with the fields it had when it was started.
Duplicate(r) ==
    /\ At(r, "duplicate")
    /\ IF Flagged(r) THEN Erase(r)
       ELSE Write(r, [run[r].row EXCEPT !.status = "duplicate", !.file = NoFile])
    /\ Finish(r)
    /\ UNCHANGED <<mountVars, call, poll, srv>>

\* Cancelled while the session was being created: the session is cancelled.
CreatedCancelled(r) ==
    /\ At(r, "created") /\ Flagged(r)
    /\ Goto(r, "drop")
    /\ UNCHANGED <<mountVars, items, active, call, poll, stored, srv>>

\* The session is recorded on the row, or stored for the next mount; a paused
\* row stops there, another one goes on with the parts.
Created(r) ==
    LET i == run[r].id  s == run[r].sess IN
    /\ At(r, "created") /\ ~Flagged(r)
    /\ IF run[r].stale
       THEN StoreFor(run[r].user, i, [run[r].row EXCEPT !.status = "paused", !.sess = s,
                                                        !.hash = run[r].row.file])
       ELSE Update(i, [items[i] EXCEPT !.sess = s,
                         !.status = IF run[r].aborted THEN @ ELSE "uploading"])
    /\ IF run[r].aborted THEN Finish(r) ELSE Goto(r, "parts") /\ UNCHANGED active
    /\ UNCHANGED <<mountVars, call, poll, srv>>

\* cancelUpload of the created session, with the cookie of whoever is signed in.
DropSucceeds(r) ==
    /\ At(r, "drop") /\ CancelAnswer(run[r].sess, account) = "ok"
    /\ SetServer(run[r].sess, "cancelled")
    /\ Erase(r) /\ Finish(r)
    /\ UNCHANGED <<mountVars, call, poll>>

\* The row keeps the session in error, with its File, and is no longer cancelled.
DropFails(r) ==
    LET i == run[r].id IN
    /\ At(r, "drop")
    /\ UNCHANGED srv \/ CancelEffect(run[r].sess, account)
    /\ Write(r, [run[r].row EXCEPT !.status = "error", !.sess = run[r].sess,
                                   !.hash = run[r].row.file])
    /\ cancelled' = IF run[r].stale THEN cancelled ELSE cancelled \ {i}
    /\ Finish(r)
    /\ UNCHANGED <<account, ready, restore, used, unmounts, call, poll>>

\* Faulty: the row says processing before the server has answered.
PartsDoneOptimistic(r) ==
    /\ At(r, "parts") /\ ~run[r].aborted
    /\ Update(run[r].id, [items[run[r].id] EXCEPT !.status = "processing"])
    /\ Goto(r, "complete") /\ KeepPoll
    /\ UNCHANGED <<mountVars, active, call, srv>>

\* Every part was put: completeUpload is sent.
PartsDone(r) ==
    /\ At(r, "parts") /\ ~run[r].aborted
    /\ Goto(r, "complete")
    /\ UNCHANGED <<mountVars, items, active, call, poll, stored, srv>>

CompleteArrives(r) ==
    LET status == srv[run[r].sess].status
        after  == IF status = "uploading" THEN "processing" ELSE status IN
    /\ At(r, "complete")
    /\ status \in {"uploading", "processing", "ready"}
    /\ SetServer(run[r].sess, after)
    /\ run' = [run EXCEPT ![r] = [@ EXCEPT !.pc = "completed", !.ans = after]]
    /\ UNCHANGED <<mountVars, items, active, call, poll, stored>>

\* A cancelled row waits for its cancel call, a stale one for its next mount.
CompleteIgnored(r) ==
    /\ At(r, "completed") /\ (Flagged(r) \/ run[r].stale)
    /\ Finish(r)
    /\ UNCHANGED <<mountVars, items, call, poll, stored, srv>>

\* The answer is authoritative, also for a row that was paused meanwhile.
Completed(r) ==
    LET i == run[r].id IN
    /\ At(r, "completed") /\ ~Flagged(r) /\ ~run[r].stale
    /\ IF run[r].ans = "ready" THEN Remove(i)
       ELSE Update(i, [items[i] EXCEPT !.status = run[r].ans, !.file = NoFile])
    /\ Finish(r) /\ KeepPoll
    /\ UNCHANGED <<mountVars, call, srv>>

\* AbortError: what aborted the invocation has set the row's status.
Unwinds(r) ==
    /\ run[r].pc \in {"hash", "get", "parts"} /\ run[r].aborted
    /\ Finish(r)
    /\ UNCHANGED <<mountVars, items, call, poll, stored, srv>>

\* Any other failure: hashing, the network before or after the server has acted,
\* or a session that does not take the request.
Fails(r) ==
    LET i == run[r].id IN
    /\ \/ run[r].pc \in {"create", "created", "complete", "completed"}
       \/ run[r].pc \in {"hash", "get", "parts"} /\ ~run[r].aborted
    /\ IF run[r].stale THEN UNCHANGED <<items, stored>>
       ELSE Update(i, [items[i] EXCEPT !.status = "error"])
    /\ Finish(r) /\ KeepPoll
    /\ UNCHANGED <<mountVars, call, srv>>

---------------------------------------------------------------------------
(* Polls of processing rows *)

PollArrives(i) ==
    LET s == items[i].sess IN
    /\ items[i].status = "processing" /\ poll = NoPoll
    /\ poll' = [id |-> i, sess |-> s, ans |-> IF Alive(s) THEN srv[s].status ELSE "gone"]
    /\ UNCHANGED <<mountVars, items, active, run, call, stored, srv>>

PollAnswered ==
    LET i == poll.id IN
    /\ poll # NoPoll
    /\ IF poll.ans \in {"ready", "cancelled", "gone"} THEN Remove(i)
       ELSE Update(i, [items[i] EXCEPT !.status = poll.ans])
    /\ poll' = NoPoll
    /\ UNCHANGED <<mountVars, active, run, call, srv>>

PollFails ==
    /\ poll # NoPoll /\ poll' = NoPoll
    /\ UNCHANGED <<mountVars, items, active, run, call, stored, srv>>

---------------------------------------------------------------------------
Button(i) ==
    \/ Pause(i) \/ CancelLocal(i) \/ CancelSend(i)
    \/ RetryLocal(i) \/ RetrySend(i) \/ Dismiss(i)
    \/ \E file \in Contents \cup {NoFile} : Reselect(i, file)

CallStep(i) ==
    \/ CancelArrives(i) \/ CancelSucceeds(i) \/ CancelFails(i)
    \/ RetryArrives(i) \/ RetryAnswered(i) \/ RetryFails(i)

RunStep(r) ==
    \/ HashDiffers(r) \/ Hashed(r) \/ GetResumes(r) \/ GetSettles(r)
    \/ \E s \in Sessions : CreateArrives(r, s)
    \/ CreateRefused(r) \/ Duplicate(r) \/ CreatedCancelled(r) \/ Created(r)
    \/ DropSucceeds(r) \/ DropFails(r) \/ PartsDone(r) \/ CompleteArrives(r)
    \/ CompleteIgnored(r) \/ Completed(r) \/ Unwinds(r) \/ Fails(r)

Next ==
    \/ \E u \in Users : SignIn(u)
    \/ RestoreLocal \/ RestoreRemote \/ Restored \/ RestoreFails
    \/ SignOut \/ Reload \/ PollAnswered \/ PollFails
    \/ \E i \in NewIds, file \in Contents \cup {NoFile} : AddFile(i, file)
    \/ \E i \in Ids : Button(i) \/ CallStep(i) \/ PollArrives(i)
    \/ \E r \in Slots : RunStep(r) \/ \E i \in Ids : Start(r, i)
    \/ \E s \in Sessions : ServerMoves(s)

Spec == Init /\ [][Next]_vars

---------------------------------------------------------------------------
(* Safety *)

\* "The browser uploads up to 50 files, one at a time" (README.md, line 8):
\* whatever was paused, cancelled, retried or remounted while requests were under
\* way, one invocation at most works on, and it is the one activeRef names.
OneAtATime ==
    \A r \in Slots : run[r].pc # "idle" /\ ~run[r].aborted => r = active

\* No row spins for ever: a row that says hashing or uploading is worked on, and
\* one that says cancelling has an invocation or a request that will settle it.
NoStuckRow ==
    \A i \in Ids :
        LET cancelling == call["cancel"][i].pc # "none" IN
        /\ items[i].status \in {"hashing", "uploading"} => Works(i) \/ cancelling
        /\ items[i].status = "cancelling" =>
               cancelling \/ (Works(i) /\ run[active].pc \in CreatingPC)

\* A row says "processing" only for a session that has left the upload phase:
\* late answers of polls, retries, completions and cancels, and rows restored from
\* two reads, never let a row wait for a file that the server still waits for.
ProcessingTrue ==
    \A i \in Ids : items[i].status = "processing" =>
        srv[items[i].sess].status \notin {"none", "uploading"}

\* A session that the queue showed leaves it only once the server has finished
\* with it: its owner never loses sight of an upload that holds a sha256.
NothingForgotten ==
    [][ready /\ ready' => \A s \in Sessions :
          (\E i \in Ids : items[i].sess = s) /\ (\A i \in Ids : items'[i].sess # s)
              => srv[s].status \notin Listed]_vars

\* A row that its owner retries after a failed cancellation is uploaded again and
\* not cancelled: only a row that says cancelling, or that is gone, is cancelled.
RetriedNotCancelled ==
    \A r \in Slots : At(r, "drop") /\ ~run[r].stale =>
        items[run[r].id].status \in {"cancelling", "absent"}

===========================================================================
