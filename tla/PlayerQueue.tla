---------------------------- MODULE PlayerQueue ----------------------------
(***************************************************************************)
(* What the web player plays next: the queue of the player store, the      *)
(* pages of a list (search or likes) that QueueContinuation appends to it, *)
(* the shuffle cycle that takes its place while shuffle is on, and what a  *)
(* reload of the page restores.                                            *)
(*                                                                         *)
(* Source: player-store.ts, queue-continuation-store.ts and                *)
(* QueueContinuation.tsx, TrackCard.tsx and Player.tsx, and the pages of   *)
(* shuffle.go, in a build without HLS playback.                            *)
(*                                                                         *)
(* A track is its place in the order of the track ids, which is the ring   *)
(* of a shuffle; a cursor of a list is a position in it.  Indexes are      *)
(* counted from 1, and 0 stands for the -1 of the code.  An item is known  *)
(* by its track.  The media element is not modelled: "playing" is what the *)
(* user asked for.                                                         *)
(***************************************************************************)
EXTENDS Integers, FiniteSets, SequencesExt, QueueOps

CONSTANTS
    Tracks,            \* 1..n
    Lists,             \* the order of each list: function to Seq(Tracks)
    Removals,          \* sets of tracks of which one leaves the library, once
    PageSize,          \* searchResultLimit, shufflePageSize
    HistoryLimit,      \* QUEUE_HISTORY_LIMIT
    FuturePersist,     \* QUEUE_FUTURE_PERSIST_LIMIT
    PrefetchDistance,  \* QUEUE_PREFETCH_DISTANCE
    ShuffleDistance,   \* the 3 of Player.tsx
    Anchors,           \* tracks that the server draws to start a shuffle at
    MaxContexts,       \* bound: queue contexts that are created
    None

ASSUME PlayerConstants ==
    /\ Tracks # {} /\ IsFiniteSet(Tracks) /\ Tracks = 1..Cardinality(Tracks)
    /\ \A s \in DOMAIN Lists : /\ Lists[s] \in Seq(Tracks) /\ IsInjective(Lists[s])
                               /\ Lists[s] # <<>>
    /\ Removals \subseteq SUBSET Tracks /\ Anchors \subseteq Tracks \ UNION Removals
    /\ Anchors # {}
    /\ \A n \in {PageSize, HistoryLimit, FuturePersist, PrefetchDistance, ShuffleDistance} :
           n \in Nat /\ n > 0
    \* a shuffle queue that has just grown is not cut by a reload
    /\ FuturePersist + 1 >= ShuffleDistance + PageSize
    /\ MaxContexts \in Nat
    /\ None \notin Nat \cup DOMAIN Lists /\ None \notin [anchor: Tracks, after: Tracks]
    /\ \A S \in SUBSET Tracks : None # S

VARIABLES
    queue, idx, history,  \* queue, currentIndex, history
    playing,              \* isPlaying
    context,              \* queueContextId
    pending,              \* pendingAdvanceQueueContextId
    shuffle,              \* shuffleEnabled
    cycle,                \* shuffleCursor, shuffleExcludedExternalID,
                          \* shuffleCycleComplete, shuffleCycleHasTracks
    preQueue, preCont,    \* preShuffleQueue, preShuffleContinuation
    request,              \* the request of shuffleRequestPromise, as the set of
                          \* ended tracks whose next() awaits it
    stale,                \* one that it replaced and that is still in flight
    retry,                \* the context a shuffle retry is armed for
    cont,                 \* the queue continuation store
    page,                 \* the page request of QueueContinuation
    dirty,                \* its effect has to run
    gone,                 \* the tracks that have left the library
    heard,                \* history: the tracks of this shuffle cycle
    behind                \* history: what was dropped behind the current track

queueVars == <<queue, idx, history, playing, context, pending>>
shuffleVars == <<shuffle, cycle, preQueue, preCont>>
askVars == <<request, stale, retry>>
contVars == <<cont, page>>
ghostVars == <<heard, behind>>
vars == <<queueVars, shuffleVars, askVars, contVars, dirty, gone, ghostVars>>

-----------------------------------------------------------------------------
(* The pages of the server. *)

Position(s, t) == CHOOSE k \in DOMAIN Lists[s] : Lists[s][k] = t

\* The first n tracks of the list s after a position, and the cursor there.
ListAfter(s, after, n) ==
    LET left == Keep(SubSeq(Lists[s], after + 1, Len(Lists[s])), Tracks \ gone)
    IN  [tracks |-> Cut(left, n),
         cursor |-> IF Len(left) > n THEN Position(s, left[n]) ELSE None]

\* How far the track to is from the track from, around the ring.
Distance(from, to) == IF to >= from THEN to - from ELSE to - from + Cardinality(Tracks)

\* The ring, from the track a on.
RingFrom(a) ==
    [k \in Tracks |-> IF k <= Cardinality(Tracks) - a + 1 THEN a + k - 1
                     ELSE a + k - 1 - Cardinality(Tracks)]

FollowsInRing(cursor, t) ==
    \/ cursor.after = None
    \/ Distance(cursor.anchor, t) > Distance(cursor.anchor, cursor.after)

\* Faulty: the track that the cycle began with comes again at its end.
RingLeftWithExcluded(cursor, excluded) ==
    {t \in Tracks \ gone : FollowsInRing(cursor, t)}

\* What a cycle still has to deliver.
RingLeft(cursor, excluded) ==
    {t \in Tracks \ (gone \cup {excluded}) : FollowsInRing(cursor, t)}

\* A page of the ring from the anchor of a cursor, and the cursor after it.
ShufflePage(cursor, excluded) ==
    LET from == cursor.anchor
        ring == Keep(RingFrom(from), RingLeft(cursor, excluded))
    IN  [tracks |-> Cut(ring, PageSize),
         cursor |-> IF Len(ring) > PageSize
                      THEN [anchor |-> from, after |-> ring[PageSize]] ELSE None]

\* Where a page starts: at the cursor of the cycle, or at a track that the
\* server draws.  No anchor is ever gone: the library is not empty.
Starts(cursor) ==
    IF cursor # None THEN {cursor} ELSE {[anchor |-> a, after |-> None] : a \in Anchors}

-----------------------------------------------------------------------------
(* The store. *)

Current == IF idx > 0 THEN queue[idx] ELSE None

\* createQueueContextId: no two contexts are equal.
NewContext == /\ context < MaxContexts
              /\ context' = context + 1

\* Faulty: the history keeps its indexes.
CompactedUnshifted(q, i, h) ==
    LET drop == Greater(0, i - 1 - HistoryLimit)
    IN  [queue |-> SubSeq(q, drop + 1, Len(q)), idx |-> i - drop,
         history |-> Keep(h, (drop + 1)..i),
         dropped |-> ToSet(SubSeq(q, 1, drop))]

\* compactConsumedQueue: what is more than HistoryLimit behind is dropped.
Compacted(q, i, h) ==
    LET drop == Greater(0, i - 1 - HistoryLimit)
        kept == Keep(h, (drop + 1)..i)
    IN  [queue   |-> SubSeq(q, drop + 1, Len(q)),
         idx     |-> i - drop,
         history |-> [k \in DOMAIN kept |-> kept[k] - drop],
         dropped |-> ToSet(SubSeq(q, 1, drop))]

\* moveToIndex with autoplay
MoveTo(q, i, h) ==
    /\ queue' = q /\ idx' = i /\ history' = h
    /\ playing' = TRUE /\ pending' = None

Stopped == [source |-> None, cursor |-> None, hasMore |-> FALSE, context |-> None]

Started(s, cursor, hasMore, c) ==
    [source |-> s, cursor |-> cursor, hasMore |-> hasMore /\ cursor # None,
     context |-> c]

NoPage == [state |-> "none", context |-> None]

NoCycle == [cursor |-> None, excluded |-> None, complete |-> FALSE, hasTracks |-> FALSE]

\* Faulty: what the last cycle found out is kept.
NewCycleKeeps(t) == [cycle EXCEPT !.cursor = None, !.excluded = t]

NewCycle(t) == [NoCycle EXCEPT !.excluded = t]

\* The request in flight is no longer the one of shuffleRequestId.  A track
\* that ended and waits for it keeps waiting as long as it is in the queue q.
\* Of several such requests the newest is followed.
Supersede(q) ==
    LET old == IF request # None THEN request ELSE stale
    IN  stale' = IF old = None THEN None ELSE old \cap q

-----------------------------------------------------------------------------
(* The user. *)

\* The effect of QueueContinuation runs again when what it reads has changed.
Read == <<context, idx, Len(queue), shuffle, cont>>
Rerender == dirty' = (Read' # Read)

\* handlePlay of a TrackCard: track k of the first n pages of a list that the
\* view shows; the current track is toggled instead.
HandlePlay(s, n, k) ==
    LET feed == ListAfter(s, 0, n * PageSize)
        track == feed.tracks[k]
    IN  /\ k \in DOMAIN feed.tracks /\ track # Current
        /\ history' = <<>> /\ playing' = TRUE /\ pending' = None
        /\ NewContext
        /\ retry' = None
        /\ Supersede({})
        /\ behind' = {}
        /\ IF shuffle
             THEN /\ queue' = <<track>> /\ idx' = 1
                  /\ cycle' = NewCycle(track) /\ heard' = {track}
                  /\ request' = {}
                  /\ preQueue' = feed.tracks /\ preCont' = None
                  /\ cont' = Stopped
             ELSE /\ queue' = feed.tracks /\ idx' = k
                  /\ cycle' = NoCycle
                  /\ cont' = Started(s, feed.cursor, feed.cursor # None, context')
                  /\ UNCHANGED <<preQueue, preCont, request, heard>>
        /\ UNCHANGED <<shuffle, page, gone>>
        /\ Rerender

TogglePlayback ==
    /\ idx > 0
    /\ playing' = ~playing /\ pending' = None /\ retry' = None
    /\ UNCHANGED <<queue, idx, history, context, shuffleVars, request, stale,
                   contVars, dirty, gone, ghostVars>>

NextQueued ==
    /\ idx < Len(queue)
    /\ MoveTo(queue, idx + 1, IF shuffle THEN Append(history, idx) ELSE history)
    /\ UNCHANGED <<context, shuffleVars, askVars, contVars, gone, ghostVars>>
    /\ Rerender

\* Faulty: a list without a further page is waited for.
CanWaitForEndedList == cont.source # None /\ cont.context = context

CanWaitForQueueContinuation ==
    /\ cont.source # None /\ cont.context = context
    /\ cont.hasMore /\ cont.cursor # None

\* At the end of the list: wait for its next page, or stop.
NextOfList ==
    /\ idx = Len(queue) /\ ~shuffle
    /\ IF CanWaitForQueueContinuation
         THEN pending' = context /\ playing' = TRUE
         ELSE playing' = FALSE /\ UNCHANGED pending
    /\ UNCHANGED <<queue, idx, history, context, shuffleVars, askVars, contVars,
                   dirty, gone, ghostVars>>

\* A cycle that had no track but the current one.
NextOfNothing ==
    /\ idx = Len(queue) /\ shuffle /\ cycle.complete /\ ~cycle.hasTracks
    /\ playing' = FALSE
    /\ UNCHANGED <<queue, idx, history, context, pending, shuffleVars, askVars,
                   contVars, dirty, gone, ghostVars>>

\* The first part of next(): a new cycle, if this one is complete.
NextCycle(waiters) ==
    /\ idx = Len(queue) /\ shuffle /\ cycle.complete /\ cycle.hasTracks
    /\ queue' = <<Current>> /\ idx' = 1 /\ history' = <<>>
    /\ cycle' = NewCycle(Current) /\ heard' = {Current}
    /\ pending' = context /\ playing' = TRUE
    /\ Supersede({Current})
    /\ request' = waiters
    /\ UNCHANGED <<context, shuffle, preQueue, preCont, retry, contVars, gone,
                   behind>>
    /\ Rerender

\* Wait for the request in flight, or for a new one.
NextOfCycle(waiters) ==
    /\ idx = Len(queue) /\ shuffle /\ ~cycle.complete
    /\ pending' = context /\ playing' = TRUE
    /\ request' = IF request = None THEN waiters ELSE request \cup waiters
    /\ UNCHANGED <<queue, idx, history, context, shuffleVars, stale, retry,
                   contVars, dirty, gone, ghostVars>>

\* next(): what its caller does with the result matters only to
\* handleTrackEnded, whose track is the waiter.
NextTrack(waiters) ==
    /\ idx > 0
    /\ \/ NextQueued \/ NextOfList \/ NextOfNothing
       \/ NextCycle(waiters) \/ NextOfCycle(waiters)

PressNext == NextTrack({})

HandleTrackEnded == playing /\ pending = None /\ NextTrack({Current})

\* The position of the track is not modelled: it may be past the threshold.
Previous ==
    /\ idx > 0
    /\ retry' = None
    /\ \/ /\ pending' = None
          /\ UNCHANGED <<queue, idx, history, playing>>
       \/ /\ shuffle /\ history # <<>>
          /\ MoveTo(queue, Last(history), Front(history))
       \/ /\ ~(shuffle /\ history # <<>>) /\ idx > 1
          /\ MoveTo(queue, idx - 1, history)
    /\ UNCHANGED <<context, shuffleVars, request, stale, contVars, gone, ghostVars>>
    /\ Rerender

SetShuffleOn ==
    LET c == Compacted(queue, idx, history)
        saved == IF cont.source # None /\ cont.context = context
                   THEN [cont EXCEPT !.context = None] ELSE None
    IN  /\ ~shuffle /\ shuffle' = TRUE
        /\ queue' = IF idx > 0 THEN <<Current>> ELSE <<>>
        /\ idx' = IF idx > 0 THEN 1 ELSE 0
        /\ history' = <<>>
        /\ NewContext /\ pending' = None /\ retry' = None
        /\ cycle' = NewCycle(Current)
        /\ preQueue' = c.queue /\ preCont' = saved
        /\ cont' = Stopped
        /\ Supersede({})
        /\ request' = IF idx > 0 THEN {} ELSE None
        /\ heard' = ToSet(queue') /\ behind' = behind \cup c.dropped
        /\ UNCHANGED <<playing, page, gone>>
        /\ Rerender

\* Faulty: the current track is dropped when the saved queue lacks it.
RestoredAlone == preQueue

\* The current track keeps its place in the saved queue, or leads it.
Restored ==
    IF Current = None \/ Current \in ToSet(preQueue) THEN preQueue
    ELSE <<Current>> \o preQueue

RestoredIndex ==
    IF Current \in ToSet(Restored)
      THEN CHOOSE k \in DOMAIN Restored : Restored[k] = Current
      ELSE Lesser(1, Len(Restored))

SetShuffleOff ==
    /\ shuffle /\ shuffle' = FALSE
    /\ NewContext /\ pending' = None /\ retry' = None
    /\ history' = <<>>
    /\ queue' = IF Restored # <<>> THEN Restored ELSE queue
    /\ idx' = IF Restored # <<>> THEN RestoredIndex ELSE idx
    /\ cycle' = NoCycle
    /\ preQueue' = <<>> /\ preCont' = None
    /\ Supersede({}) /\ request' = None
    /\ cont' = IF preCont # None /\ Restored # <<>>
                 THEN Started(preCont.source, preCont.cursor, preCont.hasMore, context')
                 ELSE cont
    /\ heard' = {}
    /\ UNCHANGED <<playing, page, gone, behind>>
    /\ Rerender

\* Signing out; the user signs in again at any time.
ClearSession ==
    /\ retry' = None
    /\ Supersede(ToSet(queue)) /\ request' = None
    /\ cont' = Stopped
    /\ playing' = FALSE /\ pending' = None
    /\ UNCHANGED <<queue, idx, history, context, shuffleVars, page, gone, ghostVars>>
    /\ Rerender

HandlePlaybackError ==
    /\ idx > 0
    /\ playing' = FALSE /\ pending' = None
    /\ UNCHANGED <<queue, idx, history, context, shuffleVars, askVars, contVars,
                   dirty, gone, ghostVars>>

-----------------------------------------------------------------------------
(* The pages of the list. *)

ShouldPrefetchQueue ==
    /\ cont.hasMore /\ cont.cursor # None
    /\ idx > 0 /\ Len(queue) - idx < PrefetchDistance

\* The effect of QueueContinuation, which React runs before the next event: it
\* aborts its request and its retry, and asks for the next page.
QueueContinuationEffect ==
    /\ dirty /\ dirty' = FALSE
    /\ \/ /\ cont.source # None /\ (shuffle \/ context # cont.context)
          /\ cont' = Stopped /\ page' = NoPage
       \/ /\ cont.source # None /\ ~shuffle /\ context = cont.context
          /\ ShouldPrefetchQueue
          /\ page' = [state |-> "sent", context |-> context]
          /\ UNCHANGED cont
       \/ /\ \/ cont.source = None
             \/ ~shuffle /\ context = cont.context /\ ~ShouldPrefetchQueue
          /\ page' = NoPage
          /\ UNCHANGED cont
    /\ UNCHANGED <<queueVars, shuffleVars, askVars, gone, ghostVars>>

\* cancelPendingAdvance(c)
CancelPendingAdvance(c) ==
    /\ retry' = None
    /\ IF pending = c THEN pending' = None /\ playing' = FALSE
                      ELSE UNCHANGED <<pending, playing>>

\* appendToQueue: the queue is compacted, and a wait for it is over.
AppendToQueue(tracks) ==
    LET c == Compacted(queue, idx, history)
        longer == c.queue \o tracks
    IN  /\ behind' = behind \cup c.dropped
        /\ IF idx > 0 /\ pending = context
             THEN MoveTo(longer, c.idx + 1, c.history)
             ELSE /\ queue' = longer /\ idx' = Greater(1, c.idx) /\ history' = c.history
                  /\ UNCHANGED <<playing, pending>>

\* A page with tracks that the queue does not have, or with none.
PageArrives ==
    LET answer == ListAfter(cont.source, cont.cursor, PageSize)
        tracks == Keep(answer.tracks, Tracks \ ToSet(queue))
        continues == answer.cursor # None
    IN  /\ page.state = "sent" /\ page' = NoPage
        /\ cont.context = page.context /\ context = page.context
        /\ cont' = Started(cont.source, answer.cursor, continues, cont.context)
        /\ \/ /\ tracks # <<>> /\ ~shuffle
              /\ AppendToQueue(tracks)
              /\ UNCHANGED retry
           \/ /\ tracks = <<>> \/ shuffle
              /\ IF tracks = <<>> /\ ~continues
                   THEN CancelPendingAdvance(page.context)
                   ELSE UNCHANGED <<retry, pending, playing>>
              /\ UNCHANGED <<queue, idx, history, behind>>
        /\ UNCHANGED <<context, shuffleVars, request, stale, gone, heard>>
        /\ Rerender

\* A failure that shouldRetryQueueContinuation accepts, or not.
PageFails(retryable) ==
    /\ page.state = "sent"
    /\ IF retryable
         THEN /\ page' = [page EXCEPT !.state = "waiting"]
              /\ UNCHANGED <<cont, retry, pending, playing>>
         ELSE /\ page' = NoPage /\ cont' = Stopped
              /\ CancelPendingAdvance(page.context)
    /\ UNCHANGED <<queue, idx, history, context, shuffleVars, request, stale,
                   gone, ghostVars>>
    /\ Rerender

\* The timer or the "online" event: the effect runs again.
PageRetry ==
    /\ page.state = "waiting" /\ page' = NoPage
    /\ dirty' = (cont.context = page.context)
    /\ UNCHANGED <<queueVars, shuffleVars, askVars, cont, gone, ghostVars>>

-----------------------------------------------------------------------------
(* The pages of the shuffle. *)

CanAsk == shuffle /\ idx > 0 /\ ~cycle.complete /\ request = None

\* The effect of Player, or the "online" event while it is in place.
PrefetchShuffle ==
    /\ CanAsk /\ Len(queue) - idx < ShuffleDistance
    /\ request' = {}
    /\ UNCHANGED <<queueVars, shuffleVars, stale, retry, contVars, dirty, gone,
                   ghostVars>>

\* next() goes on after the answer: it fails if its track is still the current
\* one and nothing waits for the next one any more, and handleTrackEnded then
\* pauses.  While something waits there is no next track (see TypeOK), so that
\* next() never moves here.
ResumeNext(waiters, keepsPlaying) ==
    playing' = (keepsPlaying /\ ~(Current \in waiters /\ pending' = None))

\* Faulty: the player moves on although nobody waits.
ShouldAdvanceUnasked(c, fresh) == c.idx = Len(c.queue) /\ fresh # <<>>

ShouldAdvance(c, fresh) ==
    pending = context /\ c.idx = Len(c.queue) /\ fresh # <<>>

\* A page of the ring: its tracks follow the compacted queue, and the first of
\* them plays if the player waits for it.
ShuffleArrives(answer) ==
    LET c == Compacted(queue, idx, history)
        fresh == Keep(answer.tracks, Tracks \ ToSet(queue))
        longer == c.queue \o fresh
        complete == answer.cursor = None
        waits == pending = context
    IN  /\ cycle' = [cycle EXCEPT !.cursor = answer.cursor, !.complete = complete,
                                  !.hasTracks = @ \/ fresh # <<>>]
        /\ heard' = heard \cup ToSet(fresh)
        /\ \/ /\ ShouldAdvance(c, fresh)
              /\ MoveTo(longer, c.idx + 1, Append(c.history, c.idx))
              /\ retry' = None
           \/ /\ ~ShouldAdvance(c, fresh)
              /\ queue' = longer /\ idx' = c.idx /\ history' = c.history
              /\ retry' = IF waits /\ ~complete THEN context ELSE None
              /\ pending' = IF waits /\ complete THEN None ELSE pending
              /\ ResumeNext(request, playing /\ ~(waits /\ complete))
        /\ request' = None
        /\ UNCHANGED <<context, shuffle, preQueue, preCont, stale, contVars, gone,
                       behind>>
        /\ Rerender

ShuffleAnswered ==
    /\ request # None
    /\ \E c \in Starts(cycle.cursor) : ShuffleArrives(ShufflePage(c, cycle.excluded))

\* A failure that isRetryableShuffleContinuationError accepts, or not.
ShuffleFails(retryable) ==
    /\ request # None /\ request' = None
    /\ IF pending = context
         THEN /\ retry' = IF retryable THEN context ELSE None
              /\ pending' = IF retryable THEN pending ELSE None
              /\ ResumeNext(request, playing /\ retryable)
         ELSE /\ UNCHANGED <<retry, pending>>
              /\ ResumeNext(request, playing)
    /\ UNCHANGED <<queue, idx, history, context, shuffleVars, stale, contVars, dirty,
                   gone, ghostVars>>

\* shuffleRequestId has changed since: the answer, or the failure, is ignored.
StaleAnswered ==
    /\ stale # None /\ stale' = None
    /\ pending' = pending
    /\ ResumeNext(stale, playing)
    /\ UNCHANGED <<queue, idx, history, context, shuffleVars, request, retry, contVars,
                   dirty, gone, ghostVars>>

\* The timer or the "online" event: retry() of scheduleShuffleRetry.
ShuffleRetry ==
    /\ retry # None /\ retry' = None
    /\ request' = IF pending = retry /\ context = retry /\ CanAsk
                    THEN {} ELSE request
    /\ UNCHANGED <<queueVars, shuffleVars, stale, contVars, dirty, gone, ghostVars>>

-----------------------------------------------------------------------------
(* A reload of the page, and the library. *)

\* Faulty: a cut queue keeps its context, and with it its continuation.
KeepContext(cut) == UNCHANGED context

\* queueTruncated: the continuation goes on where the queue was before the cut.
HydratedContext(cut) == IF cut THEN NewContext ELSE UNCHANGED context

\* partialize, and merge on the next start.  The continuation store keeps its
\* own copy of all it has but errors.
Reload ==
    LET from == Greater(1, idx - HistoryLimit)
        through == Lesser(Len(queue), idx + FuturePersist)
        limit == HistoryLimit + 1 + FuturePersist
    IN  /\ queue' = SubSeq(queue, from, through)
        /\ idx' = IF idx > 0 THEN idx - from + 1 ELSE Lesser(1, Len(queue'))
        /\ history' = <<>> /\ playing' = FALSE /\ pending' = None
        /\ HydratedContext(through < Len(queue))
        /\ preQueue' = Cut(preQueue, limit)
        /\ preCont' = IF Len(preQueue) > limit THEN None ELSE preCont
        /\ request' = None /\ stale' = None /\ retry' = None
        /\ page' = NoPage /\ dirty' = TRUE
        /\ behind' = IF shuffle THEN behind
                     ELSE behind \cup ToSet(SubSeq(queue, 1, from - 1))
        /\ UNCHANGED <<shuffle, cycle, cont, gone, heard>>

TracksRemoved ==
    /\ gone = {} /\ gone' \in Removals
    /\ UNCHANGED <<queueVars, shuffleVars, askVars, contVars, dirty, ghostVars>>

-----------------------------------------------------------------------------
Init ==
    /\ queue = <<>> /\ idx = 0 /\ history = <<>> /\ playing = FALSE
    /\ context = 0
    /\ pending = None
    /\ shuffle = FALSE /\ cycle = NoCycle /\ preQueue = <<>> /\ preCont = None
    /\ request = None /\ stale = None /\ retry = None
    /\ cont = Stopped /\ page = NoPage /\ dirty = TRUE
    /\ gone = {}
    /\ heard = {} /\ behind = {}

UserActs ==
    \/ \E s \in DOMAIN Lists : \E n, k \in DOMAIN Lists[s] : HandlePlay(s, n, k)
    \/ TogglePlayback \/ PressNext \/ Previous
    \/ SetShuffleOn \/ SetShuffleOff
    \/ ClearSession

ListAnswers == PageArrives \/ \E retryable \in BOOLEAN : PageFails(retryable)

RingAnswers ==
    \/ ShuffleAnswered \/ StaleAnswered
    \/ \E retryable \in BOOLEAN : ShuffleFails(retryable)

Next ==
    \/ QueueContinuationEffect
    \/ /\ ~dirty
       /\ \/ UserActs \/ HandleTrackEnded \/ HandlePlaybackError
          \/ ListAnswers \/ PageRetry
          \/ PrefetchShuffle \/ RingAnswers \/ ShuffleRetry
          \/ Reload \/ TracksRemoved

Spec == Init /\ [][Next]_vars

-----------------------------------------------------------------------------
CursorOK(c) == c = None \/ (DOMAIN c = {"anchor", "after"} /\ c.anchor \in Tracks
                                                          /\ c.after \in Tracks)

RequestOK(r) == r = None \/ r \subseteq Tracks

\* No track is twice in a queue, every index of the history is one of a track
\* before the current one, in the order in which they were played, and a wait
\* for the next track is one of this queue, at its end.
TypeOK ==
    /\ queue \in Seq(Tracks) /\ IsInjective(queue)
    /\ idx \in 0..Len(queue) /\ (idx = 0 <=> queue = <<>>)
    /\ \A k \in DOMAIN history : history[k] = idx - Len(history) + k - 1 /\ history[k] > 0
    /\ history # <<>> => shuffle
    /\ context \in 0..MaxContexts /\ pending \in {None, context} /\ retry \in {None, context}
    /\ pending # None => idx = Len(queue) /\ idx > 0
    /\ playing \in BOOLEAN /\ shuffle \in BOOLEAN /\ dirty \in BOOLEAN /\ gone \subseteq Tracks
    /\ CursorOK(cycle.cursor) /\ (shuffle /\ idx > 0 => cycle.excluded \in Tracks)
    /\ preQueue \in Seq(Tracks) /\ IsInjective(preQueue)
    /\ preCont # None => shuffle /\ preCont.source \in DOMAIN Lists
    /\ RequestOK(request) /\ RequestOK(stale)
    /\ cont.source \in DOMAIN Lists \cup {None} /\ cont.context \in Nat \cup {None}
    /\ page.state \in {"none", "sent", "waiting"} /\ page.context \in Nat \cup {None}

\* Every track of the list up to the cursor of its continuation c, or every
\* track if the list is over, is in the queue q or was dropped behind what
\* plays, unless it left the library.
Covers(q, c) ==
    LET known == IF c.hasMore THEN c.cursor ELSE Len(Lists[c.source])
    IN  ToSet(SubSeq(Lists[c.source], 1, known)) \subseteq ToSet(q) \cup behind \cup gone

\* No track of the list is skipped: while the continuation belongs to the queue
\* its cursor never runs ahead of what the queue holds, nor, during a shuffle,
\* does the saved one run ahead of the saved queue.  Pages, late and repeated
\* ones, compaction, a reload that cuts the queue and shuffle switched on and
\* off in between must keep cursor and queue together (appendToQueue, merge,
\* setShuffleEnabled, advanceQueueContinuation).
NothingSkipped ==
    /\ ~shuffle /\ cont.source # None /\ cont.context = context => Covers(queue, cont)
    /\ preCont # None => Covers(preQueue, preCont)

\* "walks the complete ready library": a shuffle cycle is only complete when
\* every track of the library was in it, whatever requests failed, were
\* superseded or were cut by a reload (prefetchShuffle).
WholeCycle == shuffle /\ idx > 0 /\ cycle.complete => Tracks \ gone \subseteq heard

\* A cycle never offers a track twice, although the queue forgets what it
\* dropped behind the current track: only the cursor, and the excluded track,
\* know (prefetchShuffle, compactConsumedQueue, partialize).
NoRepeat ==
    [][shuffle /\ context' = context
           => (ToSet(queue') \ ToSet(queue)) \cap heard = {}]_vars

\* Whoever waits for the next track waits for something: a shuffle request or
\* an armed retry, or a continuation of this very queue whose page is requested
\* or is about to be.  After any failure, reload or change of queue the wait is
\* over or something is under way (next, handleTrackEnded, the catch branches).
WaitHasAnswer ==
    pending # None =>
        IF shuffle THEN request # None \/ retry = context
        ELSE /\ CanWaitForQueueContinuation
             /\ dirty \/ (page.state # "none" /\ page.context = context)

\* An answer from the server changes what plays only for the one who waits for
\* it, and then by one track: the one after the current track.  A page or a
\* shuffle answer that comes late, after the user pressed something else, moves
\* nothing and starts nothing (appendToQueue, prefetchShuffle).
AnswersAdvanceOnce ==
    [][ListAnswers \/ RingAnswers =>
           \/ Current' = Current /\ (playing' => playing)
           \/ /\ pending = context /\ playing' /\ idx' > 1
              /\ queue'[idx' - 1] = Current /\ Current' \notin ToSet(queue)]_vars

\* Switching shuffle on or off and a reload keep the current track, at whatever
\* place it has in the compacted, cut or restored queue (setShuffleEnabled,
\* compactQueueForPersistence, merge).
TrackKept == [][(shuffle' # shuffle \/ Reload) /\ idx > 0 => Current' = Current]_vars
===========================================================================
