-------------------------- MODULE PlaybackSession --------------------------
(***************************************************************************)
(* One server-side playback session: its queue of items, which concurrent  *)
(* manifest requests continue from its source (search, likes or shuffle),  *)
(* and the full and delta playlists that they answer with.                 *)
(*                                                                         *)
(* Source: playback_sessions.go, with the pages that shuffle.go and        *)
(* library_tracks.go return.  A track is the number of its place in the    *)
(* order its source is read in.  A media sequence is counted from 0, an    *)
(* ordinal from 1, since it is an index of "items".  One unit of time      *)
(* stands for the milliseconds of the code.                                *)
(***************************************************************************)
EXTENDS Integers, FiniteSets, SequencesExt, QueueOps

CONSTANTS
    Tracks,        \* 1..n
    Volatile,      \* tracks that leave the ready ones and come back
    Unprepared,    \* tracks without a current HLS asset
    Segments,      \* the durations of the segments of each track's asset
    Kinds,         \* source kinds of the instance
    Requests,      \* manifest requests that may be served at a time
    PageSize,      \* searchResultLimit, shufflePageSize
    PageLimit,     \* playbackContinuationPageLimit
    MinFuture,     \* playbackMinimumFutureDuration
    TailSegments,  \* playbackManifestTailSegmentNum
    TailDuration,  \* six playbackManifestTargetDuration
    MaxPage,       \* bound: no new request once the source is at this page
    Msn,           \* values of _HLS_msn that the client sends, if any
    NoRequest

ASSUME PlaybackConstants ==
    /\ IsFiniteSet(Tracks) /\ Tracks # {} /\ Tracks = 1..Cardinality(Tracks)
    /\ Volatile \subseteq Tracks /\ Unprepared \subseteq Tracks
    /\ DOMAIN Segments = Tracks
    /\ \A t \in Tracks : /\ Segments[t] \in Seq(Nat) /\ Segments[t] # <<>>
                         /\ \A k \in DOMAIN Segments[t] : Segments[t][k] > 0
    /\ Kinds \subseteq {"search", "likes", "shuffle"}
    /\ \A n \in {PageSize, PageLimit, MinFuture, TailSegments, TailDuration, MaxPage} :
           n \in Nat /\ n > 0
    /\ Msn \subseteq Nat /\ NoRequest \notin Requests

VARIABLES
    kind,      \* playback_sessions.source_kind
    ready,     \* tracks that the source's query returns
    source,    \* playback_sessions.source_state
    items,     \* playback_session_items in the order of their ordinals
    fetched,   \* last_fetched_media_sequence
    startAt,   \* start_position_ms
    req,       \* the manifest requests on the server
    playlist,  \* the segments that the client's playlist lists
    ended,     \* its playlist carried EXT-X-ENDLIST
    awaiting   \* the request the client waits for

sessionVars == <<source, items, fetched>>
clientVars  == <<playlist, ended, awaiting>>
vars == <<kind, ready, sessionVars, startAt, req, clientVars>>

\* A cursor of either walk; 0 stands for an absent field, and in "after" and
\* "anchor" for the whole absent cursor.
Cursor   == [anchor: Tracks \cup {0}, after: Tracks \cup {0}, phase: 0..2,
             excluded: Tracks \cup {0}]
NoCursor == [anchor |-> 0, after |-> 0, phase |-> 0, excluded |-> 0]

\* A shuffle cursor whose signature does not verify.
BadCursor == [NoCursor EXCEPT !.phase = 2]

Source == [cursor: Cursor, page: Nat, hasMore: BOOLEAN, cycle: Nat,
           excluded: Tracks \cup {0}]

Item == [track: Tracks, cycle: Nat, first: Nat, start: Nat]

RequestPC == {"idle", "load", "fetch", "append", "record", "plan", "render"}

Request == [pc: RequestPC, tries: Nat, seen: Source, reached: Nat \cup {-1},
            empty: BOOLEAN, page: Seq(Tracks), next: Source, delta: BOOLEAN,
            active: BOOLEAN, skip: Nat, from: Nat \ {0}]

\* The types: no sequence number, time or cursor leaves its range.
TypeOK ==
    /\ kind \in Kinds /\ ready \subseteq Tracks
    /\ source \in Source /\ items \in Seq(Item)
    /\ fetched \in Nat \cup {-1} /\ startAt \in Nat
    /\ req \in [Requests -> Request]
    /\ \A i \in DOMAIN playlist : playlist[i] \in Nat \X Nat
    /\ ended \in BOOLEAN /\ awaiting \in Requests \cup {NoRequest}

---------------------------------------------------------------------------
(* Items and segments *)

Sorted(S) == Keep([t \in Tracks |-> t], S)

\* The sum of the last n durations of d, and of all of them.
LastOf(d, n) ==
    LET sum[k \in 0..n] == IF k = 0 THEN 0 ELSE sum[k - 1] + d[Len(d) - k + 1]
    IN sum[n]
Sum(d) == LastOf(d, Len(d))

Count(item)    == Len(Segments[item.track])
Duration       == [t \in Tracks |-> Sum(Segments[t])]
EndOf(item)    == item.start + Duration[item.track]
Total(q)       == Last(q).first + Count(Last(q))
Durations(q)   == FlattenSeq([i \in DOMAIN q |-> Segments[q[i].track]])

\* Faulty: a new cycle starts the timeline again.
NextItemRestarts(q, t, cycle) ==
    [track |-> t, cycle |-> cycle,
     first |-> IF q = <<>> THEN 0 ELSE Total(q),
     start |-> IF q = <<>> \/ Last(q).cycle # cycle THEN 0 ELSE EndOf(Last(q))]

\* The item that follows q: it continues the media sequence and the timeline.
NextItem(q, t, cycle) ==
    [track |-> t, cycle |-> cycle,
     first |-> IF q = <<>> THEN 0 ELSE Total(q),
     start |-> IF q = <<>> THEN 0 ELSE EndOf(Last(q))]

Extend(q, tracks, cycle) ==
    LET after[n \in 0..Len(tracks)] ==
            IF n = 0 THEN q
            ELSE LET r == after[n - 1] IN Append(r, NextItem(r, tracks[n], cycle))
    IN after[Len(tracks)]

\* The segments <<ordinal, index>> of a playlist that skips the first n ones,
\* rendered from the items of q, whose first ordinal is "from".
Emitted(q, from, n) ==
    LET Skipped(i) == IF n > q[i].first THEN Lesser(Count(q[i]), n - q[i].first) ELSE 0
        Of(i) == [k \in 1..(Count(q[i]) - Skipped(i)) |-> <<from + i - 1, k + Skipped(i)>>]
    IN FlattenSeq([i \in DOMAIN q |-> Of(i)])

WholePlaylist == Emitted(items, 1, 0)

\* How many segments at the end of d a delta playlist must keep.
Retained(d) ==
    LET enough == {n \in 0..Len(d) : n >= TailSegments /\ LastOf(d, n) >= TailDuration}
    IN IF enough = {} THEN Len(d) ELSE Min(enough)

---------------------------------------------------------------------------
(* Creation *)

Idle == [pc |-> "idle", tries |-> 0,
         seen |-> [cursor |-> NoCursor, page |-> 1, hasMore |-> FALSE,
                   cycle |-> 0, excluded |-> 0],
         reached |-> -1, empty |-> TRUE, page |-> <<>>,
         next |-> [cursor |-> NoCursor, page |-> 1, hasMore |-> FALSE,
                   cycle |-> 0, excluded |-> 0],
         delta |-> FALSE, active |-> FALSE, skip |-> 0, from |-> 1]

After(t) == [NoCursor EXCEPT !.after = t]

\* The browser's first page of a list, and the track that starts a shuffle.
FirstPage == Cut(Sorted(Tracks), PageSize)

InitialSources ==
    IF kind = "shuffle"
    THEN {[cursor |-> c, page |-> 1, hasMore |-> TRUE, cycle |-> 0, excluded |-> t] :
              c \in {NoCursor, BadCursor}, t \in Tracks \ Unprepared}
    ELSE {[cursor |-> After(Last(FirstPage)), page |-> 1, hasMore |-> TRUE,
           cycle |-> 0, excluded |-> 0]}

InitialTracks(s) == IF kind = "shuffle" THEN <<s.excluded>> ELSE FirstPage

\* insertPlaybackSession, once every initial track proved to have an asset.  The
\* rest of createPlaybackSession is the ensurePlaybackHorizon of a request.
Init ==
    /\ kind \in Kinds
    /\ ready = Tracks
    /\ source \in InitialSources
    /\ items = Extend(<<>>, InitialTracks(source), 0)
    /\ \A i \in DOMAIN items : items[i].track \notin Unprepared
    /\ fetched = -1
    /\ startAt \in {items[i].start : i \in DOMAIN items}
    /\ req = [r \in Requests |-> Idle]
    /\ playlist = <<>> /\ ended = FALSE /\ awaiting = NoRequest

---------------------------------------------------------------------------
(* Pages of a source *)

\* The rows of a list after cursor c, or from the offset of page p without one.
ListFrom(c, p) ==
    IF c # NoCursor THEN Sorted({t \in ready : t > c.after})
    ELSE SubSeq(Sorted(ready), (p - 1) * PageSize + 1, Len(Sorted(ready)))

\* The total of likes counts tracks that are not ready, that of a search does not.
TotalCount == IF kind = "likes" THEN Cardinality(Tracks) ELSE Cardinality(ready)

ListPage(s, c, p) ==
    LET rows   == ListFrom(c, p)
        tracks == Cut(rows, PageSize)
        more   == p * PageSize < TotalCount \/ Len(rows) > PageSize
    IN [tracks |-> tracks,
        next |-> [s EXCEPT !.page = s.page + 1,
                    !.cursor = IF more /\ tracks # <<>> THEN After(Last(tracks))
                               ELSE NoCursor,
                    !.hasMore = more /\ tracks # <<>>]]

\* searchLibraryTracks drops a cursor of another search mode, which the content
\* of the library decides, and starts over at page 1.
ListPages(s) ==
    {ListPage(s, s.cursor, s.page + 1)} \cup
    (IF kind = "search" /\ s.cursor # NoCursor THEN {ListPage(s, NoCursor, 1)} ELSE {})

\* listShuffleTracks: the ring of ready tracks from the anchor, in two phases.
Ring(c) ==
    LET Phase(n, after) ==
            Sorted({t \in ready \ {c.excluded} :
                        t > after /\ (IF n = 0 THEN t >= c.anchor ELSE t < c.anchor)})
    IN IF c.phase = 0 THEN Phase(0, c.after) \o Phase(1, 0) ELSE Phase(1, c.after)

\* Faulty: the exclusion outlives the first cycle.
ShufflePageExcludes(s, c) ==
    LET rows   == Ring(c)
        tracks == Cut(rows, PageSize)
        last   == Last(tracks)
    IN [tracks |-> tracks,
        next |-> IF Len(rows) <= PageSize
                 THEN [s EXCEPT !.page = @ + 1, !.cursor = NoCursor, !.hasMore = TRUE,
                                !.cycle = @ + 1]
                 ELSE [s EXCEPT !.page = @ + 1, !.hasMore = TRUE,
                         !.cursor = [c EXCEPT !.after = last,
                                       !.phase = IF c.anchor <= last THEN 0 ELSE 1]]]

ShufflePage(s, c) ==
    LET rows   == Ring(c)
        tracks == Cut(rows, PageSize)
        last   == Last(tracks)
    IN [tracks |-> tracks,
        next |-> IF Len(rows) <= PageSize
                 THEN [s EXCEPT !.page = @ + 1, !.cursor = NoCursor, !.hasMore = TRUE,
                                !.cycle = @ + 1, !.excluded = 0]
                 ELSE [s EXCEPT !.page = @ + 1, !.hasMore = TRUE,
                         !.cursor = [c EXCEPT !.after = last,
                                       !.phase = IF c.anchor <= last THEN 0 ELSE 1]]]

\* A new cycle starts at a random ready track; a cursor that does not decode
\* starts the cycle again.
ShufflePages(s) ==
    IF s.cursor = BadCursor
    THEN {[tracks |-> <<>>, next |-> [s EXCEPT !.cursor = NoCursor, !.hasMore = TRUE]]}
    ELSE IF s.cursor # NoCursor THEN {ShufflePage(s, s.cursor)}
    ELSE IF ready = {} THEN {[tracks |-> <<>>, next |-> [s EXCEPT !.hasMore = FALSE]]}
    ELSE {ShufflePage(s, [NoCursor EXCEPT !.anchor = a, !.excluded = s.excluded]) : a \in ready}

Pages(s) == IF kind = "shuffle" THEN ShufflePages(s) ELSE ListPages(s)

---------------------------------------------------------------------------
(* A manifest request: ensurePlaybackHorizon *)

At(r, pc)   == req[r].pc = pc
Goto(r, pc) == req' = [req EXCEPT ![r].pc = pc]
Continues(s) == s.hasMore \/ kind = "shuffle"

\* One more turn of the loop, or its end.
Again(r, pc) == req' = [req EXCEPT ![r] = [Idle EXCEPT !.pc = pc, !.tries = req[r].tries + 1,
                                                       !.delta = req[r].delta]]

\* The request ends without a playlist.
Refuse(r) ==
    /\ req' = [req EXCEPT ![r] = Idle]
    /\ awaiting' = IF awaiting = r THEN NoRequest ELSE awaiting
    /\ UNCHANGED <<playlist, ended>>

\* loadPlaybackSessionRecord at the top of the loop.
LoadSession(r) ==
    /\ At(r, "load") /\ req[r].tries < PageLimit
    /\ req' = [req EXCEPT ![r] = [@ EXCEPT !.pc = "fetch", !.seen = source,
                                          !.reached = fetched]]
    /\ UNCHANGED <<kind, ready, sessionVars, startAt, clientVars>>

\* "playback continuation exceeded the safety limit"
LimitExceeded(r) ==
    /\ At(r, "load") /\ req[r].tries = PageLimit
    /\ Refuse(r)
    /\ UNCHANGED <<kind, ready, sessionVars, startAt>>

\* playbackNeedsContinuationFromDB: the end of the last fetched segment, or the
\* start position, is too close to the end of the queue.
Reference(reached) ==
    LET holds == {i \in DOMAIN items :
                    reached \in items[i].first..(items[i].first + Count(items[i]) - 1)}
    IN IF holds = {} THEN startAt
       ELSE LET i == CHOOSE i \in holds : TRUE
            IN items[i].start
               + Sum(Cut(Segments[items[i].track], reached - items[i].first + 1))

NeedsContinuation(r) ==
    /\ Continues(req[r].seen)
    /\ Greater(0, EndOf(Last(items)) - Reference(req[r].reached)) < MinFuture

HorizonReached(r) ==
    /\ At(r, "fetch") /\ ~NeedsContinuation(r)
    /\ req' = [req EXCEPT ![r] = [Idle EXCEPT !.pc = "record", !.delta = req[r].delta]]
    /\ UNCHANGED <<kind, ready, sessionVars, startAt, clientVars>>

\* fetchPlaybackContinuation, and the assets of its tracks that are available.
FetchPage(r) ==
    /\ At(r, "fetch") /\ NeedsContinuation(r)
    /\ \E p \in Pages(req[r].seen) :
           req' = [req EXCEPT ![r] =
                     [@ EXCEPT !.pc = "append", !.empty = (p.tracks = <<>>),
                               !.page = Keep(p.tracks, Tracks \ Unprepared),
                               !.next = p.next]]
    /\ UNCHANGED <<kind, ready, sessionVars, startAt, clientVars>>

\* Nothing is left of a list, or of the library of a shuffle.
Exhausted(r) == req[r].empty /\ ~req[r].next.hasMore

\* Faulty: what the queue already holds is not looked up.
QueuedNone(c) == {}

\* The unique index on session, cycle and track, and the look-up of the tracks
\* that a finite source has already queued.
Queued(c) == {items[i].track : i \in {j \in DOMAIN items :
                                         kind = "shuffle" => items[j].cycle = c}}

\* Faulty: the page is appended whatever the position has become.
AppendUnchecked(r) ==
    LET cycle == IF kind = "shuffle" THEN req[r].seen.cycle ELSE 0 IN
    /\ At(r, "append")
    /\ items' = Extend(items, Keep(req[r].page, Tracks \ Queued(cycle)), cycle)
    /\ source' = req[r].next
    /\ Again(r, IF Exhausted(r) THEN "record" ELSE "load")
    /\ UNCHANGED <<kind, ready, fetched, startAt, clientVars>>

\* appendPlaybackContinuation: under the session's row lock, and only when its
\* position is still the one that the page was fetched for.  A page that ends a
\* shuffle cycle still belongs to that cycle.
AppendPage(r) ==
    LET cycle == IF kind = "shuffle" THEN req[r].seen.cycle ELSE 0 IN
    /\ At(r, "append") /\ source = req[r].seen
    /\ items' = Extend(items, Keep(req[r].page, Tracks \ Queued(cycle)), cycle)
    /\ source' = req[r].next
    /\ Again(r, IF Exhausted(r) THEN "record" ELSE "load")
    /\ UNCHANGED <<kind, ready, fetched, startAt, clientVars>>

\* errPlaybackContinuationChanged: the loop starts over.
AppendRace(r) ==
    /\ At(r, "append") /\ source # req[r].seen
    /\ kind = "shuffle" \/ ~Exhausted(r)
    /\ Again(r, "load")
    /\ UNCHANGED <<kind, ready, sessionVars, startAt, clientVars>>

\* The empty last page of a list returns the lost race as its own error.
AppendRaceRefused(r) ==
    /\ At(r, "append") /\ source # req[r].seen
    /\ kind # "shuffle" /\ Exhausted(r)
    /\ Refuse(r)
    /\ UNCHANGED <<kind, ready, sessionVars, startAt>>

---------------------------------------------------------------------------
(* A manifest request: the playlist *)

\* Faulty: without the floor at zero and the segment after it.
ReadRecordNegative(r) ==
    /\ At(r, "record")
    /\ \E limit \in {fetched} \cup {Lesser(fetched, n) : n \in Msn} :
           req' = [req EXCEPT ![r] = [Idle EXCEPT !.pc = "plan", !.delta = req[r].delta,
                                        !.skip = limit, !.active = Continues(source)]]
    /\ UNCHANGED <<kind, ready, sessionVars, startAt, clientVars>>

\* Faulty: the segment after the last fetched one may be skipped as well.
ReadRecordOffByOne(r) ==
    /\ At(r, "record")
    /\ \E limit \in {fetched + 2} \cup {Lesser(fetched + 2, n) : n \in Msn} :
           req' = [req EXCEPT ![r] = [Idle EXCEPT !.pc = "plan", !.delta = req[r].delta,
                                        !.skip = limit, !.active = Continues(source)]]
    /\ UNCHANGED <<kind, ready, sessionVars, startAt, clientVars>>

\* The second read of the session: a delta may skip what was fetched, or less
\* when the client's _HLS_msn says so.
ReadRecord(r) ==
    /\ At(r, "record")
    /\ \E limit \in {fetched + 1} \cup {Lesser(fetched + 1, n) : n \in Msn} :
           req' = [req EXCEPT ![r] = [Idle EXCEPT !.pc = "plan", !.delta = req[r].delta,
                                        !.skip = limit, !.active = Continues(source)]]
    /\ UNCHANGED <<kind, ready, sessionVars, startAt, clientVars>>

\* loadPlaybackManifestItems up to its last query: the first ordinal to load.
\* Its queries read rows that no longer change once the last ordinal is known.
FirstToLoad(r) ==
    LET skip == Lesser(Greater(0, Total(items) - Retained(Durations(items))), req[r].skip)
        i == Max({j \in DOMAIN items : items[j].first <= skip})
    IN IF ~(req[r].delta /\ req[r].active) \/ skip = 0 THEN 1
       ELSE IF skip >= items[i].first + Count(items[i]) THEN i + 1 ELSE i

PlanLoad(r) ==
    /\ At(r, "plan")
    /\ req' = [req EXCEPT ![r] = [@ EXCEPT !.pc = "render", !.from = FirstToLoad(r)]]
    /\ UNCHANGED <<kind, ready, sessionVars, startAt, clientVars>>

\* renderPlaybackManifest: what is skipped when "loaded" has been loaded.
Skipped(r, loaded) ==
    LET d        == Durations(loaded)
        retained == IF req[r].active THEN Retained(d) ELSE 0
        skippable == Greater(0, Total(loaded) - retained)
        canSkip  == req[r].active /\ skippable > 0 /\ LastOf(d, retained) >= TailDuration
    IN IF req[r].delta /\ canSkip THEN Lesser(skippable, req[r].skip) ELSE 0

\* The client puts a delta after the segments that it says were skipped.
Merged(skip, emitted) ==
    IF skip = 0 THEN emitted
    ELSE IF skip > Len(playlist) THEN emitted ELSE Cut(playlist, skip) \o emitted

\* The last query loads the items to the end, and the playlist is sent; a client
\* that no longer waits drops it.
Render(r) ==
    LET loaded == SubSeq(items, req[r].from, Len(items))
        skip   == Skipped(r, loaded)
    IN
    /\ At(r, "render")
    /\ req' = [req EXCEPT ![r] = Idle]
    /\ IF awaiting = r
       THEN /\ playlist' = Merged(skip, Emitted(loaded, req[r].from, skip))
            /\ ended' = ~req[r].active
            /\ awaiting' = NoRequest
       ELSE UNCHANGED clientVars
    /\ UNCHANGED <<kind, ready, sessionVars, startAt>>

---------------------------------------------------------------------------
(* The client, the library *)

\* A playlist is reloaded until it ends; a delta only updates one.
AskManifest(r, delta) ==
    /\ awaiting = NoRequest /\ At(r, "idle") /\ ~ended
    /\ delta => playlist # <<>>
    /\ source.page < MaxPage
    /\ req' = [req EXCEPT ![r] = [@ EXCEPT !.pc = "load", !.delta = delta]]
    /\ awaiting' = r
    /\ UNCHANGED <<kind, ready, sessionVars, startAt, playlist, ended>>

\* The player's load timeout; the server goes on with the request.
GiveUp ==
    /\ awaiting # NoRequest
    /\ awaiting' = NoRequest
    /\ UNCHANGED <<kind, ready, sessionVars, startAt, req, playlist, ended>>

\* playbackAsset for the k-th segment listed: a seek may fetch any of them.
FetchSegment(k) ==
    LET sequence == items[playlist[k][1]].first + playlist[k][2] - 1 IN
    /\ fetched' = Greater(fetched, sequence)
    /\ UNCHANGED <<kind, ready, source, items, startAt, req, clientVars>>

\* A track is reprocessed, unliked or deleted, or becomes ready again.
TrackChanges(t) ==
    /\ ready' = IF t \in ready THEN ready \ {t} ELSE ready \cup {t}
    /\ UNCHANGED <<kind, sessionVars, startAt, req, clientVars>>

---------------------------------------------------------------------------
RequestStep(r) ==
    \/ LoadSession(r) \/ LimitExceeded(r) \/ HorizonReached(r) \/ FetchPage(r)
    \/ AppendPage(r) \/ AppendRace(r) \/ AppendRaceRefused(r)
    \/ ReadRecord(r) \/ PlanLoad(r) \/ Render(r)

Next ==
    \/ \E r \in Requests :
           RequestStep(r) \/ \E delta \in BOOLEAN : AskManifest(r, delta)
    \/ GiveUp
    \/ \E k \in DOMAIN playlist : FetchSegment(k)
    \/ \E t \in Volatile : TrackChanges(t)

Spec == Init /\ [][Next]_vars

---------------------------------------------------------------------------
(* Properties *)

\* The queue follows its source: likes stay in their order, shuffle cycles do not
\* mix, and nothing is queued twice, in the whole queue or in one cycle of a
\* shuffle, also when a request that was overtaken appends its page late.
QueueInOrder ==
    \A i, j \in DOMAIN items : i < j =>
        /\ kind = "likes" => items[i].track < items[j].track
        /\ items[i].cycle <= items[j].cycle
        /\ items[i].track = items[j].track => items[i].cycle < items[j].cycle

\* Nothing is skipped: a prepared track that was ready all along is queued once the
\* source is past it, in every cycle of a shuffle, the track it started from too.
NothingSkipped ==
    \A t \in Tracks \ (Volatile \cup Unprepared) :
        /\ kind = "likes" /\ (~source.hasMore \/ t <= source.cursor.after) =>
               \E i \in DOMAIN items : items[i].track = t
        /\ kind = "shuffle" => \A c \in 0..(source.cycle - 1) :
               \E i \in DOMAIN items : items[i].track = t /\ items[i].cycle = c

\* The items' media sequences and times leave no gap and do not overlap.
TimelineContiguous ==
    \A i \in DOMAIN items :
        IF i = 1 THEN items[i].first = 0 /\ items[i].start = 0
        ELSE /\ items[i].first = items[i - 1].first + Count(items[i - 1])
             /\ items[i].start = EndOf(items[i - 1])

\* What the client has put together from full and delta playlists is a prefix of
\* the whole playlist, segment by segment: no delta skips what the client does not
\* have, or starts elsewhere than where it says, while other requests append.
PlaylistExact == IsPrefix(playlist, WholePlaylist)

\* EXT-X-ENDLIST is final: no item follows it, not even one of a request that was
\* overtaken.
EndedFinal == ended => playlist = WholePlaylist

---------------------------------------------------------------------------
(* Refinement: what the session promises its player, see EventPlaylist. *)

Event == INSTANCE EventPlaylist
             WITH timeline <- WholePlaylist, shown <- playlist, over <- ended

\* The playlist is the EVENT playlist that its header declares: segments are only added
\* at its end, every answer that the client takes completes its copy, and ENDLIST is not
\* taken back, whichever request answers (renderPlaybackManifest).
ImplementsEvent == Event!Spec

===========================================================================
