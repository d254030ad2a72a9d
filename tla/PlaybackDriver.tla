--------------------------- MODULE PlaybackDriver ---------------------------
(***************************************************************************)
(* How the web player plays a queue through a playback session: the hook   *)
(* that creates or resumes the session, attaches its HLS playlist to the   *)
(* audio element (natively or with hls.js), recovers it from failures,     *)
(* keeps the queue of the store in step with the timeline and, when all    *)
(* that fails, falls back to progressive playback.                         *)
(*                                                                         *)
(* Source: use-playback-session-driver.ts, playback-session.ts, and from   *)
(* Player.tsx and player-store.ts what calls it and what it writes.        *)
(*                                                                         *)
(* A tab is one record.  A handler is an operator that maps the tab before *)
(* it to the tab after it; Becomes adds the React effects that the change  *)
(* makes due, which run before the next event.  Time is counted in tracks: *)
(* every item of a timeline is one long, a position is the number of the   *)
(* items before it.  Delays are steps that may come at any time.           *)
(***************************************************************************)
EXTENDS Integers, Sequences, FiniteSetsExt

CONSTANTS
    Platforms,    \* "native", "js": what shouldUseNativeHLS may answer
    FirstItems,   \* the tracks of a queue that was chosen
    MaxItems,     \* the tracks of a session once its source is at its end
    MaxAttempts,  \* MAX_HLS_RECOVERY_ATTEMPTS
    MaxContexts,  \* bound: queues that are chosen
    MaxSessions,  \* bound: sessions that are created
    None

ASSUME DriverConstants ==
    /\ Platforms # {} /\ Platforms \subseteq {"native", "js"}
    /\ {FirstItems, MaxItems, MaxAttempts, MaxContexts, MaxSessions} \subseteq Nat \ {0}
    /\ FirstItems <= MaxItems
    \* null is neither a number nor one of the tuples and records of the tab
    /\ None \notin Nat
    /\ None \notin [id : Nat, list : Nat, n : Nat]
    /\ None \notin Nat \X [id : Nat, list : Nat, n : Nat]
    /\ None \notin [get : Nat \cup {None}, list : Nat, n : Nat, start : Nat]
    /\ None \notin [to : Nat \cup {None}, media : Nat]

VARIABLES
    tab,      \* the page: store, driver and audio element
    sessions  \* the sessions of the server, by id

vars == <<tab, sessions>>

Positions == 0..(MaxItems - 1)
Drivers == {"progressive", "preparing", "hls-native", "hls-js"}

-----------------------------------------------------------------------------
(* What the handlers are made of. *)

IsHLS(q) == q.driver \in {"hls-native", "hls-js"}

\* The queue id of the current item.  The items of a list are new objects in
\* each context; those of a session are named by their ordinal and track.
QueueId(q) == IF q.queue.kind = "list" THEN <<"list", q.context, q.current>>
                                       ELSE <<"playback", q.queue.list, q.current>>

\* findPlaybackBoundary: the last of n items that starts at or before a position.
Boundary(n, position) == Min({position + 1, n})

HasMore(session) == session.n < MaxItems

ClearRecovery(q) == [q EXCEPT !.timer = None, !.waiting = FALSE, !.attempts = 0]

\* audio.pause()
Pause(q) == [q EXCEPT !.paused = TRUE]

Emptied(q) == [Pause(q) EXCEPT !.source = "empty", !.phase = "empty", !.position = 0]

\* destroyHLS: hls.js lets go of the audio element.
DestroyHLS(q) ==
    LET gone == [q EXCEPT !.hls = None, !.waiters = None]
    IN  IF q.hls # None /\ q.source = "session" THEN Emptied(gone) ELSE gone

\* clearPlaybackSession of the store
ClearStoreSession(q) ==
    [q EXCEPT !.storeSession = None, !.storeContext = None, !.time = 0]

\* fallBackToProgressive: the session is given up; the queue stays.
FallBack(q) ==
    LET idle == [ClearStoreSession(DestroyHLS(ClearRecovery(q))) EXCEPT
                     !.nativePlay = FALSE,
                     !.session = None, !.attachedTo = None, !.seen = None,
                     !.ready = TRUE, !.recovery = FALSE, !.driver = "progressive"]
    IN  IF q.session = None THEN idle
        ELSE [Emptied(idle) EXCEPT !.released = @ \cup {q.session.id}]

\* refreshSession: one request at a time for a session.
AskRefresh(q) ==
    IF q.session = None \/ \E r \in q.refreshes : r.id = q.session.id THEN q
    ELSE [q EXCEPT !.refreshes = @ \cup {[id |-> q.session.id, context |-> q.context]}]

\* setPlaybackSession of the store
Place(q, context, position) ==
    [q EXCEPT !.storeSession = q.session.id, !.storeContext = context, !.time = position]

\* syncPlaybackSessionTimeline with the items of the session
ShowItems(q, context, position) ==
    LET order == Boundary(q.session.n, position)
    IN  [Place(q, context, position) EXCEPT
            !.current = order, !.seen = <<order, q.session>>,
            !.queue = [kind |-> "playback", list |-> q.session.list, n |-> q.session.n]]

\* syncTimeline at a position, with the queue context that its caller closed
\* over.  Past the known items the position is kept and more are asked for.
\* The queue is replaced when the items or the current one have changed; else
\* the item is looked for by its ordinal in the queue there is.
SyncAt(q, context, position) ==
    LET order == Boundary(q.session.n, position)
    IN  IF q.session = None THEN q
        ELSE IF HasMore(q.session) /\ position >= q.session.n
             THEN AskRefresh(IF q.time = position THEN q ELSE Place(q, context, position))
        ELSE IF q.seen # <<order, q.session>> THEN ShowItems(q, context, position)
        ELSE IF q.queue.kind = "playback" /\ order <= q.queue.n
             THEN [Place(q, context, position) EXCEPT !.current = order]
        ELSE q

\* syncTimeline at the position of the audio element; the 0 that it shows
\* while a source is attached is passed over.
Sync(q, context) ==
    IF ~q.ready /\ q.position = 0 THEN q ELSE SyncAt(q, context, q.position)

\* Faulty: an offline failure leaves nothing that would try again.
ScheduleRecoveryOnlineOnly(q) ==
    LET failed == [SyncAt(q, q.context, q.position) EXCEPT !.recovery = TRUE, !.ready = FALSE]
    IN  IF q.session = None \/ q.driver = "progressive" \/ ~q.playing THEN q
        ELSE IF ~q.online THEN [failed EXCEPT !.timer = None]
        ELSE IF q.timer = None /\ q.attempts >= MaxAttempts THEN FallBack(failed)
        ELSE [failed EXCEPT !.waiting = FALSE,
                            !.timer = [id |-> q.session.id, at |-> q.position]]

\* Faulty: the session is tried for ever.
ScheduleRecoveryForEver(q) ==
    LET failed == [SyncAt(q, q.context, q.position) EXCEPT !.recovery = TRUE, !.ready = FALSE]
    IN  IF q.session = None \/ q.driver = "progressive" \/ ~q.playing THEN q
        ELSE IF ~q.online THEN [failed EXCEPT !.timer = None, !.waiting = TRUE]
        ELSE [failed EXCEPT !.waiting = FALSE,
                            !.timer = [id |-> q.session.id, at |-> q.position]]

\* scheduleRecovery: an armed timer stays armed, but for the position it will
\* go on at; after MaxAttempts the session is given up.
ScheduleRecovery(q) ==
    LET failed == [SyncAt(q, q.context, q.position) EXCEPT !.recovery = TRUE, !.ready = FALSE]
        armed  == IF q.timer = None THEN q.session.id ELSE q.timer.id
    IN  IF q.session = None \/ q.driver = "progressive" \/ ~q.playing THEN q
        ELSE IF ~q.online THEN [failed EXCEPT !.timer = None, !.waiting = TRUE]
        ELSE IF q.timer = None /\ q.attempts >= MaxAttempts THEN FallBack(failed)
        ELSE [failed EXCEPT !.waiting = FALSE, !.timer = [id |-> armed, at |-> q.position]]

\* The end of an attachment or of a recovery.
Ready(q) == [ClearRecovery(q) EXCEPT !.recovery = FALSE, !.ready = TRUE]

\* The playlist of the session becomes the source of the audio element.
LoadPlaylist(q) ==
    [Pause(q) EXCEPT !.source = "session", !.phase = "loading",
                     !.position = 0]

\* Native playback waits for loadedmetadata, to seek, and for canplay.
LoadNatively(q, to) ==
    [LoadPlaylist(q) EXCEPT !.waiters = [to |-> to, timer |-> TRUE]]

\* Faulty: the session that is replaced is not deleted.
AttachLeaking(q, found) ==
    LET to    == IF q.storeSession = found.id THEN q.time ELSE found.start
        clean == [DestroyHLS(ClearRecovery(q)) EXCEPT
                      !.nativePlay = FALSE, !.ready = FALSE, !.assigned = None,
                      !.recovery = FALSE, !.attachedTo = q.context,
                      !.session = [id |-> found.id, list |-> found.list, n |-> found.n]]
        shown == ShowItems(clean, q.context, to)
    IN  IF q.platform = "native" THEN LoadNatively([shown EXCEPT !.driver = "hls-native"], to)
        ELSE [shown EXCEPT !.module = [id |-> found.id, to |-> to]]

\* attachSession: at the place that the store has in this session, or where
\* the session starts.
Attach(q, found) ==
    LET to    == IF q.storeSession = found.id THEN q.time ELSE found.start
        clean == [DestroyHLS(ClearRecovery(q)) EXCEPT
                      !.nativePlay = FALSE, !.ready = FALSE, !.assigned = None,
                      !.recovery = FALSE, !.attachedTo = q.context,
                      !.session = [id |-> found.id, list |-> found.list, n |-> found.n],
                      !.released = IF q.session # None /\ q.session.id # found.id
                                  THEN @ \cup {q.session.id} ELSE @]
        shown == ShowItems(clean, q.context, to)
    IN  IF q.platform = "native" THEN LoadNatively([shown EXCEPT !.driver = "hls-native"], to)
        ELSE [shown EXCEPT !.module = [id |-> found.id, to |-> to]]

\* requestNativePlay
NativePlay(q) ==
    IF q.session = None \/ q.driver # "hls-native" \/ q.nativePlay THEN q
    ELSE [q EXCEPT !.nativePlay = TRUE, !.paused = FALSE]

-----------------------------------------------------------------------------
(* The React effects, which follow every change before the next event. *)

\* Faulty: a session that plays is kept for any queue.
StartEffectOnce(q) ==
    IF q.current = 0 THEN [FallBack(q) EXCEPT !.request = None]
    ELSE IF q.session # None /\ q.driver # "progressive" THEN [q EXCEPT !.request = None]
    ELSE [q EXCEPT
             !.driver = "preparing",
             !.request = [get   |-> IF q.storeContext = q.context THEN q.storeSession ELSE None,
                          list  |-> q.queue.list,
                          n     |-> q.queue.n,
                          start |-> q.current - 1]]

\* The effect that starts a session, when the queue or its current item has
\* changed.  The request before it is aborted in any case.
StartEffect(q) ==
    IF q.current = 0 THEN [FallBack(q) EXCEPT !.request = None]
    ELSE IF q.attachedTo = q.context /\ q.session # None /\ q.driver # "progressive"
         THEN [q EXCEPT !.request = None]
    ELSE [q EXCEPT
             !.driver = "preparing",
             !.request = [get   |-> IF q.storeContext = q.context THEN q.storeSession ELSE None,
                          list  |-> q.queue.list,
                          n     |-> q.queue.n,
                          start |-> q.current - 1]]

\* The effect of Player that assigns the stream of the current item, unless the
\* data attributes of the element say that it has it.
SourceEffect(q) ==
    IF IsHLS(q) THEN q
    ELSE IF ~q.resolved THEN Pause(q)
    ELSE IF q.assigned = QueueId(q) THEN q
    ELSE [Pause(q) EXCEPT !.assigned = QueueId(q), !.source = "stream",
                          !.phase = "loading", !.position = 0]

\* The effect of Player that plays and pauses.  A session that is attached but
\* being replaced is neither played nor paused.
PlayEffect(q) ==
    IF ~IsHLS(q) THEN IF q.session # None \/ ~q.resolved THEN q
                      ELSE [q EXCEPT !.paused = ~q.playing]
    ELSE IF ~q.ready THEN IF ~q.playing THEN q
                          ELSE IF q.recovery THEN ScheduleRecovery(q)
                          ELSE NativePlay(q)
    ELSE [q EXCEPT !.paused = ~q.playing]

SourceDependencies(q) == <<QueueId(q), IsHLS(q), q.resolved>>

PlayDependencies(q) ==
    <<QueueId(q), q.playing, IsHLS(q), q.ready, q.recovery, q.session = None, q.resolved>>

\* A step of a handler: the tab it makes of the one before, and the effects in
\* their order.  (Sets of one make TLC compute each of them once.)
Becomes(handled) ==
    \E q \in {handled} :
    \E started \in {IF QueueId(q) # QueueId(tab) \/ q.context # tab.context
                    THEN StartEffect([q EXCEPT !.resolved = FALSE]) ELSE q} :
    \E cleared \in {IF tab.playing /\ ~started.playing THEN ClearRecovery(started)
                                                       ELSE started} :
    \E sourced \in {IF SourceDependencies(cleared) # SourceDependencies(tab)
                    THEN SourceEffect(cleared) ELSE cleared} :
        tab' = IF PlayDependencies(sourced) # PlayDependencies(tab) THEN PlayEffect(sourced)
                                                                    ELSE sourced

\* The step of a handler that leaves the server alone.
Do(handled) == Becomes(handled) /\ UNCHANGED sessions

-----------------------------------------------------------------------------
(* The tab, when the page is loaded with a store. *)

Mounted(store, kind) ==
    StartEffect([
        playing |-> FALSE, context |-> store.context, current |-> store.current,
        time |-> store.time, queue |-> store.queue,
        storeSession |-> store.session, storeContext |-> store.sessionContext,
        driver |-> "progressive", ready |-> TRUE, recovery |-> FALSE,
        session |-> None, attachedTo |-> None, seen |-> None,
        request |-> None, refreshes |-> {}, next |-> None,
        timer |-> None, attempts |-> 0, waiting |-> FALSE, nativePlay |-> FALSE,
        module |-> None, hls |-> None, waiters |-> None,
        source |-> "empty", phase |-> "empty", position |-> 0,
        paused |-> TRUE, assigned |-> None, resolved |-> FALSE,
        released |-> {}, platform |-> kind, online |-> TRUE])

NewStore == [context |-> 0, current |-> 0, time |-> 0,
             queue |-> [kind |-> "list", list |-> 0, n |-> 0],
             session |-> None, sessionContext |-> None]

\* A store that was persisted while it played the item k of n of a session.
PersistedStore(k, n) ==
    [context |-> 1, current |-> k, time |-> k - 1,
     queue |-> [kind |-> "playback", list |-> 1, n |-> n],
     session |-> 1, sessionContext |-> 1]

\* The page is loaded, for the first time or again.
Init ==
    \E kind \in Platforms :
        \/ /\ tab = Mounted(NewStore, kind)
           /\ sessions = <<>>
        \/ /\ \E n \in FirstItems..MaxItems, k \in 1..MaxItems :
                  k <= n /\ tab = Mounted(PersistedStore(k, n), kind)
           /\ \E n \in tab.queue.n..MaxItems :
                  sessions = <<[list |-> 1, n |-> n, start |-> 0]>>

-----------------------------------------------------------------------------
(* The user. *)

\* togglePlayback, and requestNativePlay from the control that was pressed
TogglePlayback ==
    /\ tab.current > 0
    /\ LET toggled == [tab EXCEPT !.playing = ~@]
       IN  Do(IF toggled.playing /\ ~tab.recovery THEN NativePlay(toggled) ELSE toggled)

\* replaceQueue: a list that was picked starts to play.
ChooseQueue ==
    /\ tab.context < MaxContexts
    /\ \E k \in 1..FirstItems :
           Do([ClearStoreSession(tab) EXCEPT
                  !.context = @ + 1, !.current = k, !.playing = TRUE,
                  !.queue = [kind |-> "list", list |-> tab.context + 1, n |-> FirstItems]])

\* next of the store, which the control calls unless a session plays.
ProgressiveNext ==
    /\ ~IsHLS(tab) /\ tab.current < tab.queue.n
    /\ Do([tab EXCEPT !.current = @ + 1, !.playing = TRUE])

\* The seek of nextTrack to the item after the one at the position.
SeekNext(q, n, context) ==
    LET order == Boundary(n, q.position)
    IN  IF order >= n THEN q
        ELSE SyncAt([q EXCEPT !.position = order], context, order)

\* nextTrack: at the end of the known items it waits for a refresh.  (Bound:
\* one press waits at a time.)
NextTrack ==
    /\ IsHLS(tab) /\ tab.next = None
    /\ IF tab.position + 1 >= tab.session.n /\ HasMore(tab.session)
       THEN Do([AskRefresh(tab) EXCEPT
                   !.next = [id |-> tab.session.id, n |-> tab.session.n, context |-> tab.context]])
       ELSE Do(SeekNext(tab, tab.session.n, tab.context))

\* previousTrack and seekLocal: to the start of the item, or of the one before.
PreviousTrack ==
    /\ IsHLS(tab)
    /\ \E order \in {Boundary(tab.session.n, tab.position) - 1,
                     Boundary(tab.session.n, tab.position)} \ {0} :
           Do(SyncAt([tab EXCEPT !.position = order - 1], tab.context, order - 1))

-----------------------------------------------------------------------------
(* The answers of the server. *)

Answered == [tab EXCEPT !.request = None]

SessionCreated ==
    /\ tab.request # None /\ tab.request.get = None /\ Len(sessions) < MaxSessions
    /\ LET made == [list |-> tab.request.list, n |-> tab.request.n, start |-> tab.request.start]
       IN  /\ sessions' = Append(sessions, made)
           /\ Becomes(Attach(Answered, [id |-> Len(sessions) + 1, list |-> made.list,
                                              n |-> made.n, start |-> made.start]))

SessionFound ==
    /\ tab.request # None /\ tab.request.get # None
    /\ tab.request.get \notin tab.released
    /\ LET id == tab.request.get
       IN  Do(Attach(Answered, [id |-> id, list |-> sessions[id].list, n |-> sessions[id].n,
                                start |-> sessions[id].start]))

\* 404 or 410: a session is created in place of the one that has expired.
SessionGone ==
    /\ tab.request # None /\ tab.request.get # None
    /\ Do([ClearStoreSession(tab) EXCEPT !.request.get = None])

SessionRefused ==
    /\ tab.request # None
    /\ Do(FallBack(Answered))

\* The server appends to the timeline of a session.
Extend(id) ==
    /\ sessions[id].n < MaxItems
    /\ sessions' = [sessions EXCEPT ![id].n = @ + 1]
    /\ UNCHANGED tab

\* refreshSession, from the minute timer or a page that is shown again
Refresh == tab.session # None /\ Do(AskRefresh(tab))

\* nextTrack goes on with the session that was refreshed, or else with the one
\* that it began with.
ResumeNext(q, id) ==
    IF q.next = None \/ q.next.id # id THEN q
    ELSE SeekNext([q EXCEPT !.next = None],
                  IF q.session # None /\ q.session.id = id THEN q.session.n ELSE q.next.n,
                  q.next.context)

\* The answer of a refresh is merged by ordinal, if its session is still there.
RefreshAnswered(r) ==
    LET answered == [tab EXCEPT !.refreshes = @ \ {r}]
    IN  /\ r \in tab.refreshes
        /\ IF tab.session # None /\ tab.session.id = r.id
           THEN Do(ResumeNext(Sync([answered EXCEPT !.session.n = Max({@, sessions[r.id].n})],
                                   r.context), r.id))
           ELSE Do(ResumeNext(answered, r.id))

RefreshFailed(r) ==
    /\ r \in tab.refreshes
    /\ Do(ResumeNext([tab EXCEPT !.refreshes = @ \ {r}], r.id))

-----------------------------------------------------------------------------
(* hls.js.  (Its module and its events are external.) *)

\* The library has loaded, for the session that it was loaded for.
ModuleLoaded ==
    /\ tab.module # None
    /\ LET arrived == [tab EXCEPT !.module = None]
       IN  IF tab.session = None \/ tab.session.id # tab.module.id THEN Do(arrived)
           ELSE Do([LoadPlaylist(DestroyHLS(arrived)) EXCEPT
                       !.driver = "hls-js", !.ready = FALSE,
                       !.hls = [to |-> tab.module.to, media |-> 0]])

\* It could not be loaded, or does not support the browser.
ModuleFailed ==
    /\ tab.module # None
    /\ LET arrived == [tab EXCEPT !.module = None]
       IN  IF tab.session # None /\ tab.session.id = tab.module.id
           THEN Do(FallBack(arrived)) ELSE Do(arrived)

\* hls.js is attached to the audio element.
Attached == tab.hls # None /\ tab.source = "session"

\* MANIFEST_PARSED: the place is restored.
ManifestParsed ==
    /\ Attached /\ tab.phase = "loading"
    /\ Do(SyncAt([tab EXCEPT !.phase = "parsed", !.position = tab.hls.to, !.hls.to = None],
                 tab.attachedTo, tab.hls.to))

\* FRAG_BUFFERED
FragmentBuffered ==
    /\ Attached /\ tab.phase \in {"parsed", "ok"}
    /\ Do(Ready([tab EXCEPT !.phase = "ok", !.hls.media = 0]))

\* startLoad of hls.js: it loads again what it stopped at.  (External.)
StartLoad(q) == IF q.phase # "failed" THEN q.phase
                ELSE IF q.hls.to = None THEN "parsed" ELSE "loading"

\* A fatal NETWORK_ERROR: hls.js stops until startLoad.
NetworkError ==
    /\ Attached /\ tab.phase # "failed"
    /\ Do(ScheduleRecovery([tab EXCEPT !.phase = "failed"]))

\* A fatal MEDIA_ERROR: recoverMediaError, once between two fragments, empties
\* the buffer and loads again.
MediaError ==
    /\ Attached
    /\ IF tab.hls.media = 1 THEN Do(FallBack(tab))
       ELSE Do([Pause(SyncAt(tab, tab.attachedTo, tab.position)) EXCEPT
                    !.hls.media = 1, !.recovery = TRUE, !.ready = FALSE,
                    !.phase = IF StartLoad(tab) = "loading" THEN "loading" ELSE "parsed"])

OtherError == Attached /\ Do(FallBack(tab))

-----------------------------------------------------------------------------
(* The audio element. *)

\* The progressive player resolves a stream for the current item, unless a
\* session blocks it.
StreamResolved ==
    /\ ~IsHLS(tab) /\ tab.playing /\ tab.current > 0 /\ ~tab.resolved
    /\ Do([tab EXCEPT !.resolved = TRUE])

\* The element loads by itself, not by hls.js.
Native == tab.source = "stream" \/ (tab.source = "session" /\ tab.hls = None)

\* loadedmetadata, of whatever source there is: the waiter of the driver seeks.
MetadataLoaded ==
    /\ Native /\ tab.phase = "loading"
    /\ LET loaded == [tab EXCEPT !.phase = "parsed"]
       IN  IF tab.waiters = None \/ tab.waiters.to = None THEN Do(loaded)
           ELSE Do(SyncAt([loaded EXCEPT !.waiters.to = None, !.position = tab.waiters.to],
                          tab.attachedTo, tab.waiters.to))

\* handleCanPlay
CanPlay(q) ==
    IF q.session = None \/ q.driver = "progressive" THEN q
    ELSE IF ~q.online /\ q.playing THEN ScheduleRecovery(q)
    ELSE SyncAt(Ready(q), q.context, q.position)

\* canplay: Player hears it before the waiter of the driver.
NativeCanPlay ==
    /\ Native /\ tab.phase = "parsed"
    /\ LET heard == CanPlay([tab EXCEPT !.phase = "ok"])
       IN  IF heard.waiters = None THEN Do(heard)
           ELSE Do(Ready([heard EXCEPT !.waiters = None]))

OtherCanPlay ==
    /\ tab.source # "empty" /\ tab.phase = "ok"
    /\ Do(CanPlay(tab))

\* The 12 s of NATIVE_HLS_CANPLAY_TIMEOUT_MS are over.
CanPlayTimeout ==
    /\ tab.waiters # None /\ tab.waiters.timer
    /\ Do(ScheduleRecovery([tab EXCEPT !.waiters.timer = FALSE]))

\* error: handleMediaError
ElementError ==
    /\ IsHLS(tab) /\ tab.source = "session"
    /\ Do(ScheduleRecovery([tab EXCEPT !.phase = IF tab.driver = "hls-native"
                                                 THEN "failed" ELSE @]))

\* waiting and stalled: handleBuffering
Buffering ==
    /\ tab.source = "session" /\ ~tab.paused
    /\ Do(ScheduleRecovery(tab))

\* playing: onPlaying of Player and handlePlaying
PlaybackStarted ==
    /\ IsHLS(tab) /\ tab.phase = "ok" /\ ~tab.paused
    /\ IF ~tab.playing THEN Do(Pause(tab))
       ELSE Do(SyncAt(Ready(tab), tab.context, tab.position))

\* pause, that the page did not ask for: handlePause keeps the intent to play
\* and lets 400 ms pass.
Paused ==
    /\ tab.session # None /\ tab.source # "empty" /\ ~tab.paused
    /\ Do(Pause(tab))

\* The element is still paused then, or when a page that is shown again looks
\* at it for the last time.  (That the pause is explained by a step of the
\* driver less than 1.5 s ago, or the page hidden, is that this does not come.)
PauseReconciled ==
    /\ tab.session # None /\ tab.driver # "progressive" /\ tab.playing /\ tab.paused
    /\ Do(ScheduleRecovery(Sync(tab, tab.context)))

\* ended: handleEnded
Ended ==
    /\ tab.source = "session" /\ tab.session # None /\ tab.phase = "ok" /\ ~tab.paused
    /\ tab.position + 1 = sessions[tab.session.id].n /\ ~HasMore(sessions[tab.session.id])
    /\ Do([Pause(tab) EXCEPT !.playing = FALSE])

\* The element plays on; its events may be skipped.
Advance ==
    /\ tab.source = "session" /\ tab.session # None /\ tab.phase = "ok" /\ ~tab.paused
    /\ tab.position + 1 < sessions[tab.session.id].n
    /\ Do([tab EXCEPT !.position = @ + 1])

\* timeupdate, the timer of 500 ms and the first two of a page shown again
TimelineSync == tab.session # None /\ Do(Sync(tab, tab.context))

-----------------------------------------------------------------------------
(* The promises of audio.play(). *)

\* Faulty: the promise of a play that the user has since paused resolves.
NativePlayResolvedAnyway ==
    /\ tab.nativePlay /\ tab.phase = "ok"
    /\ Do([Ready([tab EXCEPT !.nativePlay = FALSE]) EXCEPT !.playing = TRUE])

\* setPlaybackStatus("playing"), which also sets isPlaying
NativePlayResolved ==
    /\ tab.nativePlay /\ tab.phase = "ok"
    /\ LET settled == [tab EXCEPT !.nativePlay = FALSE]
       IN  Do(IF tab.playing THEN [Ready(settled) EXCEPT !.playing = TRUE] ELSE settled)

\* AbortError: it was paused, or its source replaced.
NativePlayAborted == tab.nativePlay /\ tab.paused /\ Do([tab EXCEPT !.nativePlay = FALSE])

\* NotAllowedError: the browser wants the user to press play.
NativePlayBlocked ==
    /\ tab.nativePlay
    /\ Do([ClearRecovery(Pause(tab)) EXCEPT !.nativePlay = FALSE, !.playing = FALSE])

NativePlayFailed ==
    /\ tab.nativePlay
    /\ Do(ScheduleRecovery([Pause(tab) EXCEPT !.nativePlay = FALSE]))

\* The play of PlayEffect is refused: the player stops, to be played again
\* (NotAllowedError) or with an error.
PlayRefused ==
    /\ IsHLS(tab) /\ tab.ready /\ tab.playing /\ ~tab.paused
    /\ Do([Pause(tab) EXCEPT !.playing = FALSE])

-----------------------------------------------------------------------------
(* Recovery. *)

\* The recovery timer: hls.js is told to load again, a native source is
\* assigned again.
RecoveryDue ==
    /\ tab.timer # None
    /\ LET q     == [tab EXCEPT !.timer = None]
           again == [q EXCEPT !.attempts = @ + 1]
       IN  IF q.session = None \/ q.session.id # tab.timer.id \/ ~q.playing THEN Do(q)
           ELSE IF ~q.online THEN Do(ScheduleRecovery(q))
           ELSE CASE q.driver = "hls-js" ->
                         Do([again EXCEPT !.phase = StartLoad(q)])
                  [] q.driver = "hls-native" -> Do(LoadNatively(again, tab.timer.at))
                  [] OTHER -> Do(again)

Offline == tab.online /\ Do([tab EXCEPT !.online = FALSE])

\* online: resumeWhenOnline
Online ==
    /\ ~tab.online
    /\ LET q == [tab EXCEPT !.online = TRUE]
       IN  IF q.waiting /\ q.session # None /\ q.playing
           THEN Do(ScheduleRecovery([q EXCEPT !.waiting = FALSE])) ELSE Do(q)

-----------------------------------------------------------------------------
Next ==
    \/ TogglePlayback \/ ChooseQueue \/ ProgressiveNext \/ NextTrack \/ PreviousTrack
    \/ SessionCreated \/ SessionFound \/ SessionGone \/ SessionRefused
    \/ \E id \in DOMAIN sessions : Extend(id)
    \/ Refresh
    \/ \E r \in tab.refreshes : RefreshAnswered(r) \/ RefreshFailed(r)
    \/ ModuleLoaded \/ ModuleFailed
    \/ ManifestParsed \/ FragmentBuffered \/ NetworkError \/ MediaError \/ OtherError
    \/ StreamResolved
    \/ MetadataLoaded \/ NativeCanPlay \/ OtherCanPlay \/ CanPlayTimeout \/ ElementError
    \/ Buffering \/ PlaybackStarted \/ Paused \/ PauseReconciled
    \/ Ended \/ Advance \/ TimelineSync
    \/ NativePlayResolved \/ NativePlayAborted \/ NativePlayBlocked \/ NativePlayFailed
    \/ PlayRefused
    \/ RecoveryDue \/ Offline \/ Online

Spec == Init /\ [][Next]_vars

Answer == SessionCreated \/ SessionFound \/ SessionGone \/ SessionRefused

\* Requests are answered or fail, timers fire, what loads comes to an end, and
\* a promise that can be settled is.  Neither the user nor the network is fair.
Fairness ==
    /\ WF_vars(Answer)
    /\ WF_vars(ModuleLoaded \/ ModuleFailed)
    /\ WF_vars(RecoveryDue)
    /\ WF_vars(CanPlayTimeout)
    /\ WF_vars(tab.phase = "loading" /\ (ManifestParsed \/ NetworkError))
    /\ WF_vars(tab.phase \in {"parsed", "ok"} /\ ~tab.ready /\ (FragmentBuffered \/ NetworkError))
    /\ WF_vars(Native /\ tab.phase = "loading" /\ (MetadataLoaded \/ ElementError))
    /\ WF_vars(Native /\ tab.phase = "parsed" /\ (NativeCanPlay \/ ElementError))
    /\ WF_vars(NativePlayResolved \/ NativePlayAborted)

FairSpec == Spec /\ Fairness

-----------------------------------------------------------------------------
(* Properties. *)

Maybe(S) == S \cup {None}

\* The type of the state: what is recorded of a session names one that exists.
TypeOK ==
    /\ tab.driver \in Drivers
    /\ tab.session # None => /\ tab.session.id \in DOMAIN sessions
                             /\ tab.session.n <= sessions[tab.session.id].n
    /\ tab.timer # None => tab.timer.id \in DOMAIN sessions
    /\ tab.storeSession \in Maybe(DOMAIN sessions)
    /\ tab.attempts \in 0..MaxAttempts
    /\ {tab.position, tab.time} \subseteq Positions
    /\ tab.current \in 0..tab.queue.n /\ tab.queue.n \in 0..MaxItems
    /\ tab.phase \in {"empty", "loading", "parsed", "ok", "failed"}
    /\ tab.source \in {"empty", "stream", "session"}

\* Playback that was paused starts again only when the user asks for it:
\* no answer, timer, event or promise that comes late resumes it.
PauseHolds ==
    [][~tab.playing /\ tab'.playing => TogglePlayback \/ ChooseQueue \/ ProgressiveNext]_vars

\* A session that is let go of is deleted, since nothing but its expiry would
\* end it; one that is attached, or stored to be resumed, never is.
Released ==
    /\ [][tab.session # None /\ (tab'.session = None \/ tab'.session.id # tab.session.id)
              => tab.session.id \in tab'.released]_vars
    /\ [](\A id \in tab.released :
              tab.storeSession # id /\ (tab.session = None \/ tab.session.id # id))

\* What plays is what is shown: while a session is ready and no other queue
\* waits for one, the queue of the store is the one the session was made of and
\* the store names the session, to resume it after a reload.
StoreFollows ==
    IsHLS(tab) /\ tab.ready /\ tab.request = None =>
        /\ tab.storeSession = tab.session.id
        /\ tab.queue.kind = "playback" /\ tab.queue.list = tab.session.list

\* A queue does not stay in preparation, and the recovery of a session that
\* should play ends, in playback or in the progressive player, unless it is
\* paused or the connection is lost meanwhile.
PlaybackSettles ==
    /\ (tab.driver = "preparing") ~> (tab.driver # "preparing")
    /\ (IsHLS(tab) /\ tab.recovery) ~>
           (~IsHLS(tab) \/ ~tab.recovery \/ ~tab.playing \/ ~tab.online)

\* PLANS.md: transient stream failures recover without a manual retry.
PlayNotStuck ==
    (IsHLS(tab) /\ ~tab.ready /\ tab.playing) ~>
        (~IsHLS(tab) \/ tab.ready \/ ~tab.playing \/ ~tab.online)

\* A queue that was chosen is not exchanged for an older one.
NewQueueKept ==
    [][tab'.context = tab.context /\ tab.queue.list = tab.context
           => tab'.queue.list = tab.context]_vars

\* README.md: playback resumes at the same position after a network failure.
\* A failure never moves the saved place of a session back.
PlaceKept ==
    [][tab.storeSession # None /\ tab'.storeSession = tab.storeSession /\ tab'.recovery
           => tab'.time >= tab.time]_vars

\* README.md: progressive playback remains available without a session.
FallbackAudible ==
    tab.driver = "progressive" /\ tab.playing /\ tab.resolved
        /\ tab.assigned = QueueId(tab) => tab.source # "empty"
=============================================================================
