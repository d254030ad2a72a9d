----------------------- MODULE PlaybackDriverProofs -----------------------
(***************************************************************************)
(* Proofs about PlaybackDriver: its type invariant, that playback which    *)
(* was paused stays paused (PauseHolds), that a session which is let go of *)
(* is deleted and one that is held is not (Released), and that what plays  *)
(* is what the store shows (StoreFollows).                                 *)
(*                                                                         *)
(* A handler is a composition of operators on the tab, and so is the proof *)
(* about it: what an operator changes is stated once, with Same for all    *)
(* the rest, then what it preserves (Good) and how the tab after it        *)
(* relates to the one before (Follows).  The lemma Effects does the same   *)
(* for the React effects that every handler ends with.                     *)
(***************************************************************************)
EXTENDS PlaybackDriver, TLAPS

-----------------------------------------------------------------------------
(* The inductive invariant. *)

Fields == {"playing", "context", "current", "time", "queue", "storeSession", "storeContext",
           "driver", "ready", "recovery", "session", "attachedTo", "seen", "request",
           "refreshes", "next", "timer", "attempts", "waiting", "nativePlay", "module",
           "hls", "waiters", "source", "phase", "position", "paused", "assigned",
           "resolved", "released", "platform", "online"}

IsTab(q) == DOMAIN q = Fields

Ids(ss) == 1..Len(ss)
Items == 1..MaxItems

SessionRef == [id : Nat, list : Nat, n : Items]
Requests(ss) == [get : Maybe(Ids(ss)), list : Nat, n : Items, start : Positions]
Players == [to : Maybe(Positions), media : {0, 1}]

SessionTyped(q, ss) ==
    /\ q.session \in Maybe(SessionRef)
    /\ q.session # None => q.session.id \in Ids(ss) /\ q.session.n <= ss[q.session.id].n

\* No session is attached to a context that is still to come.
ContextTyped(q) ==
    /\ q.context \in Nat /\ q.attachedTo \in Maybe(Nat)
    /\ q.attachedTo # None => q.attachedTo <= q.context

SeenTyped(q) == q.seen \in Maybe(Items \X SessionRef)

RequestTyped(q, ss) ==
    /\ q.request \in Maybe(Requests(ss))
    /\ q.request # None => q.request.start < q.request.n

RefreshTyped(q, ss) ==
    /\ q.refreshes \subseteq [id : Ids(ss), context : Nat]
    /\ q.next \in Maybe([id : Ids(ss), n : Items, context : Nat])

\* A timer that is armed has an attempt left.
TimerTyped(q, ss) ==
    /\ q.timer \in Maybe([id : Ids(ss), at : Positions])
    /\ q.attempts \in 0..MaxAttempts
    /\ q.timer # None => q.attempts < MaxAttempts

MediaTyped(q, ss) ==
    /\ q.module \in Maybe([id : Ids(ss), to : Positions])
    /\ q.hls \in Maybe(Players)
    /\ q.waiters \in Maybe([to : Maybe(Positions), timer : BOOLEAN])
    /\ q.phase \in {"empty", "loading", "parsed", "ok", "failed"}
    /\ q.source \in {"empty", "stream", "session"}

PlaceTyped(q) == q.position \in Positions /\ q.time \in Positions

QueueTyped(q) ==
    /\ q.queue \in [kind : {"list", "playback"}, list : Nat, n : 0..MaxItems]
    /\ q.current \in 0..q.queue.n

StoreTyped(q, ss) ==
    /\ q.storeSession \in Maybe(Ids(ss))
    /\ q.released \subseteq Ids(ss)

KindTyped(q) == q.driver \in Drivers /\ q.platform \in {"native", "js"}

FlagsTyped(q) ==
    /\ q.playing \in BOOLEAN /\ q.ready \in BOOLEAN /\ q.recovery \in BOOLEAN
    /\ q.waiting \in BOOLEAN /\ q.nativePlay \in BOOLEAN /\ q.paused \in BOOLEAN
    /\ q.resolved \in BOOLEAN /\ q.online \in BOOLEAN

Typed(q, ss) ==
    /\ SessionTyped(q, ss) /\ ContextTyped(q) /\ SeenTyped(q)
    /\ RequestTyped(q, ss) /\ RefreshTyped(q, ss) /\ TimerTyped(q, ss)
    /\ MediaTyped(q, ss) /\ PlaceTyped(q) /\ QueueTyped(q) /\ StoreTyped(q, ss)
    /\ KindTyped(q) /\ FlagsTyped(q)

\* Neither the session that is attached nor the stored one was deleted, and a
\* driver that plays HLS has a session.
Live(q) ==
    /\ q.storeSession \notin q.released
    /\ q.session # None => q.session.id \notin q.released
    /\ IsHLS(q) => q.session # None

\* The session is the one of the queue that is shown.
Own(q) == q.session # None /\ q.attachedTo = q.context

\* Then the queue is the one of the session, at an item that it has, and the
\* store names the session or, after a SessionGone, none.
Matches(q) ==
    Own(q) =>
        /\ q.queue.kind = "playback" /\ q.queue.list = q.session.list
        /\ q.seen # None => q.seen[1] <= q.queue.n
        /\ q.storeSession \in {None, q.session.id}

\* What the platforms and the sources exclude.
Kinds(q) ==
    /\ q.storeSession = None => q.time = 0
    /\ q.source = "empty" => q.phase = "empty"
    /\ q.driver = "hls-native" => q.platform = "native"
    /\ q.nativePlay => q.platform = "native"
    /\ q.driver = "hls-js" => /\ q.platform = "js" /\ q.source # "stream"
                              /\ q.source = "session" => q.hls # None
                              /\ q.hls = None => q.phase = "empty"
    /\ q.platform = "native" => q.module = None /\ q.hls = None
    /\ q.source = "session" /\ q.phase = "loading" => q.hls = None \/ q.hls.to # None

Good(q, ss) == IsTab(q) /\ Typed(q, ss) /\ Live(q) /\ Matches(q) /\ Kinds(q)

Shown(q) == q.storeSession = q.session.id

\* HLS playback got beyond the loading of its playlist.
Begun(q) ==
    /\ IsHLS(q)
    /\ \/ q.ready \/ q.driver = "hls-native" \/ q.phase \in {"parsed", "ok"}
       \/ q.hls # None /\ q.hls.to = None

Held(q) == Own(q) /\ Begun(q) => Shown(q)

\* Without a request for another one, the session is the one of the queue, and
\* the store names it before it plays.
Settled(q) == q.session # None /\ q.request = None => Own(q) /\ Held(q)

Timelines == [list : Nat, n : Items, start : Positions]

SessionsTyped ==
    /\ sessions \in Seq(Timelines)
    /\ \A id \in Ids(sessions) : sessions[id].start < sessions[id].n

DriverInv == SessionsTyped /\ Good(tab, sessions) /\ Settled(tab)

-----------------------------------------------------------------------------
(* Relations between the tab before and after an operator. *)

\* The fields of S are the same.
Same(q, r, S) == IsTab(r) /\ \A f \in S : r[f] = q[f]

\* A session that is let go of is deleted, and nothing is brought back.
LetsGo(q, r) ==
    /\ q.released \subseteq r.released
    /\ q.session # None => \/ r.session # None /\ r.session.id = q.session.id
                           \/ q.session.id \in r.released

\* Nor does anything start to play.
Follows(q, r) == LetsGo(q, r) /\ (r.playing => q.playing)

\* What makes StartEffect due, and what the other effects may then rely on.
Changed(q, r) == QueueId(r) # QueueId(q) \/ r.context # q.context

Handled(q, r) == IF Changed(q, r) THEN Held(r) ELSE Settled(r)

\* A settled tab stays settled, and what is held stays so.
Keeps(q, r) ==
    /\ Settled(q) => Settled(r)
    /\ Held(q) => Held(r)
    /\ Changed(q, r) => Held(r)

\* What is the same is as it was typed, and keeps each part of the invariant.
LEMMA FrameTyped ==
    ASSUME NEW q, NEW r, NEW ss, NEW S, Same(q, r, S), Typed(q, ss)
    PROVE  /\ "session" \in S => SessionTyped(r, ss)
           /\ {"context", "attachedTo"} \subseteq S => ContextTyped(r)
           /\ "seen" \in S => SeenTyped(r)
           /\ "request" \in S => RequestTyped(r, ss)
           /\ {"refreshes", "next"} \subseteq S => RefreshTyped(r, ss)
           /\ {"timer", "attempts"} \subseteq S => TimerTyped(r, ss)
           /\ {"module", "hls", "waiters", "phase", "source"} \subseteq S => MediaTyped(r, ss)
           /\ {"position", "time"} \subseteq S => PlaceTyped(r)
           /\ {"queue", "current"} \subseteq S => QueueTyped(r)
           /\ {"storeSession", "released"} \subseteq S => StoreTyped(r, ss)
           /\ {"driver", "platform"} \subseteq S => KindTyped(r)
           /\ {"playing", "ready", "recovery", "waiting", "nativePlay", "paused",
               "resolved", "online"} \subseteq S => FlagsTyped(r)
<1>1. "session" \in S => SessionTyped(r, ss)
  BY DEF Same, Typed, SessionTyped
<1>2. {"context", "attachedTo"} \subseteq S => ContextTyped(r)
  BY DEF Same, Typed, ContextTyped
<1>3. "seen" \in S => SeenTyped(r)
  BY DEF Same, Typed, SeenTyped
<1>4. "request" \in S => RequestTyped(r, ss)
  BY DEF Same, Typed, RequestTyped
<1>5. {"refreshes", "next"} \subseteq S => RefreshTyped(r, ss)
  BY DEF Same, Typed, RefreshTyped
<1>6. {"timer", "attempts"} \subseteq S => TimerTyped(r, ss)
  BY DEF Same, Typed, TimerTyped
<1>7. {"module", "hls", "waiters", "phase", "source"} \subseteq S => MediaTyped(r, ss)
  BY DEF Same, Typed, MediaTyped
<1>8. {"position", "time"} \subseteq S => PlaceTyped(r)
  BY DEF Same, Typed, PlaceTyped
<1>9. {"queue", "current"} \subseteq S => QueueTyped(r)
  BY DEF Same, Typed, QueueTyped
<1>10. {"storeSession", "released"} \subseteq S => StoreTyped(r, ss)
  BY DEF Same, Typed, StoreTyped
<1>11. {"driver", "platform"} \subseteq S => KindTyped(r)
  BY DEF Same, Typed, KindTyped
<1>12. {"playing", "ready", "recovery", "waiting", "nativePlay", "paused",
        "resolved", "online"} \subseteq S => FlagsTyped(r)
  BY DEF Same, Typed, FlagsTyped
<1>. QED
  BY <1>1, <1>2, <1>3, <1>4, <1>5, <1>6, <1>7, <1>8, <1>9, <1>10, <1>11, <1>12

\* The same for the parts that relate fields.
LEMMA Frame ==
    ASSUME NEW q, NEW r, NEW S, Same(q, r, S)
    PROVE  /\ {"storeSession", "released", "session", "driver"} \subseteq S /\ Live(q)
                  => Live(r)
           /\ {"session", "attachedTo", "context"} \subseteq S => (Own(r) <=> Own(q))
           /\ {"session", "attachedTo", "context", "queue", "seen", "storeSession"} \subseteq S
                  /\ Matches(q) => Matches(r)
           /\ {"storeSession", "time", "driver", "platform", "nativePlay", "source", "hls",
               "phase", "module"} \subseteq S /\ Kinds(q) => Kinds(r)
           /\ {"driver", "ready", "phase", "hls"} \subseteq S => (Begun(r) <=> Begun(q))
           /\ {"storeSession", "session"} \subseteq S => (Shown(r) <=> Shown(q))
           /\ {"queue", "context", "current"} \subseteq S => QueueId(r) = QueueId(q)
           /\ "driver" \in S => (IsHLS(r) <=> IsHLS(q))
           /\ {"session", "released"} \subseteq S => LetsGo(q, r)
<1>1. {"storeSession", "released", "session", "driver"} \subseteq S /\ Live(q) => Live(r)
  BY DEF Same, Live, IsHLS
<1>2. {"session", "attachedTo", "context"} \subseteq S => (Own(r) <=> Own(q))
  BY DEF Same, Own
<1>3. {"session", "attachedTo", "context", "queue", "seen", "storeSession"} \subseteq S
          /\ Matches(q) => Matches(r)
  BY DEF Same, Matches, Own
<1>4. {"storeSession", "time", "driver", "platform", "nativePlay", "source", "hls",
       "phase", "module"} \subseteq S /\ Kinds(q) => Kinds(r)
  BY DEF Same, Kinds
<1>5. {"driver", "ready", "phase", "hls"} \subseteq S => (Begun(r) <=> Begun(q))
  BY DEF Same, Begun, IsHLS
<1>6. {"storeSession", "session"} \subseteq S => (Shown(r) <=> Shown(q))
  BY DEF Same, Shown
<1>7. {"queue", "context", "current"} \subseteq S => QueueId(r) = QueueId(q)
  BY DEF Same, QueueId
<1>8. "driver" \in S => (IsHLS(r) <=> IsHLS(q))
  BY DEF Same, IsHLS
<1>9. {"session", "released"} \subseteq S => LetsGo(q, r)
  BY DEF Same, LetsGo
<1>. QED BY <1>1, <1>2, <1>3, <1>4, <1>5, <1>6, <1>7, <1>8, <1>9

\* Follows is transitive.
LEMMA FollowsTransitive ==
    ASSUME NEW q, NEW r, NEW s
    PROVE  /\ LetsGo(q, r) /\ LetsGo(r, s) => LetsGo(q, s)
           /\ Follows(q, r) /\ Follows(r, s) => Follows(q, s)
           /\ Follows(q, q)
  BY DEF Follows, LetsGo

\* Nor does the tab become unsettled when HLS playback begins no further, when
\* the store comes to name the session, or when the session is given up.
LEMMA KeepsFrame ==
    ASSUME NEW q, NEW r, NEW S, Same(q, r, S)
    PROVE  /\ {"session", "attachedTo", "context", "request", "queue", "current",
               "storeSession"} \subseteq S /\ (Begun(r) => Begun(q)) => Keeps(q, r)
           /\ {"session", "attachedTo", "context", "request"} \subseteq S
                  /\ (Own(r) => Shown(r)) => Keeps(q, r)
           /\ r.session = None => Keeps(q, r)
<1>1. {"session", "attachedTo", "context", "request", "queue", "current",
       "storeSession"} \subseteq S /\ (Begun(r) => Begun(q)) => Keeps(q, r)
  <2>1. ASSUME {"session", "attachedTo", "context", "request", "queue", "current",
                "storeSession"} \subseteq S, Begun(r) => Begun(q)
        PROVE  Keeps(q, r)
    <3>1. (Own(r) <=> Own(q)) /\ (Shown(r) <=> Shown(q)) /\ QueueId(r) = QueueId(q)
      BY <2>1, Frame
    <3>2. r.context = q.context /\ r.session = q.session /\ r.request = q.request
      BY <2>1 DEF Same
    <3>. QED BY <2>1, <3>1, <3>2 DEF Keeps, Settled, Held, Changed
  <2>. QED BY <2>1
<1>2. {"session", "attachedTo", "context", "request"} \subseteq S
          /\ (Own(r) => Shown(r)) => Keeps(q, r)
  <2>1. ASSUME {"session", "attachedTo", "context", "request"} \subseteq S,
               Own(r) => Shown(r)
        PROVE  Keeps(q, r)
    <3>1. Own(r) <=> Own(q)
      BY <2>1, Frame
    <3>2. r.session = q.session /\ r.request = q.request
      BY <2>1 DEF Same
    <3>. QED BY <2>1, <3>1, <3>2 DEF Keeps, Settled, Held
  <2>. QED BY <2>1
<1>3. r.session = None => Keeps(q, r)
  BY DEF Keeps, Settled, Held, Own
<1>. QED BY <1>1, <1>2, <1>3

\* Keeps is transitive.
LEMMA KeepsTransitive ==
    ASSUME NEW q, NEW r, NEW s
    PROVE  /\ Keeps(q, r) /\ Keeps(r, s) => Keeps(q, s)
           /\ Keeps(q, q)
           /\ Settled(q) /\ Keeps(q, r) => Handled(q, r)
  BY DEF Keeps, Changed, Handled

-----------------------------------------------------------------------------
(* The operators that handlers are made of. *)

\* ClearRecovery disarms the timer and forgets the attempts.
LEMMA ClearRecoveryGood ==
    ASSUME NEW q, NEW ss, Good(q, ss), NEW r, r = ClearRecovery(q)
    PROVE  /\ Same(q, r, Fields \ {"timer", "waiting", "attempts"})
           /\ r.timer = None /\ r.waiting = FALSE /\ r.attempts = 0
           /\ Good(r, ss) /\ Follows(q, r)
<1>1. /\ Same(q, r, Fields \ {"timer", "waiting", "attempts"})
      /\ r.timer = None /\ r.waiting = FALSE /\ r.attempts = 0
  BY DEF ClearRecovery, Good, Same, IsTab, Fields
<1>2. Typed(r, ss)
  <2>1. TimerTyped(r, ss)
    BY <1>1, DriverConstants DEF TimerTyped, Maybe
  <2>2. FlagsTyped(r)
    BY <1>1 DEF Good, Typed, FlagsTyped, Same, Fields
  <2>. QED BY <1>1, <2>1, <2>2, FrameTyped DEF Good, Typed, Fields
<1>3. Live(r) /\ Matches(r) /\ Kinds(r)
  BY <1>1, Frame DEF Good, Fields
<1>4. Follows(q, r)
  BY <1>1, Frame DEF Follows, Same, Fields
<1>. QED BY <1>1, <1>2, <1>3, <1>4 DEF Good, Same

\* Pausing changes nothing else.
LEMMA PauseGood ==
    ASSUME NEW q, NEW ss, Good(q, ss), NEW r, r = Pause(q)
    PROVE  /\ Same(q, r, Fields \ {"paused"}) /\ r.paused = TRUE
           /\ Good(r, ss) /\ Follows(q, r)
<1>1. Same(q, r, Fields \ {"paused"}) /\ r.paused = TRUE
  BY DEF Pause, Good, Same, IsTab, Fields
<1>2. FlagsTyped(r)
  BY <1>1 DEF Good, Typed, FlagsTyped, Same, Fields
<1>3. Typed(r, ss)
  BY <1>1, <1>2, FrameTyped DEF Good, Typed, Fields
<1>4. Live(r) /\ Matches(r) /\ Kinds(r)
  BY <1>1, Frame DEF Good, Fields
<1>5. Follows(q, r)
  BY <1>1, Frame DEF Follows, Same, Fields
<1>. QED BY <1>1, <1>3, <1>4, <1>5 DEF Good, Same

\* The audio element without a source.
LEMMA EmptiedGood ==
    ASSUME NEW q, NEW ss, Good(q, ss), NEW r, r = Emptied(q)
    PROVE  /\ Same(q, r, Fields \ {"paused", "source", "phase", "position"})
           /\ r.source = "empty" /\ r.phase = "empty" /\ r.position = 0
           /\ Good(r, ss) /\ Follows(q, r)
<1>1. /\ Same(q, r, Fields \ {"paused", "source", "phase", "position"})
      /\ r.source = "empty" /\ r.phase = "empty" /\ r.position = 0 /\ r.paused = TRUE
  BY DEF Emptied, Pause, Good, Same, IsTab, Fields
<1>2. Typed(r, ss)
  <2>1. FlagsTyped(r)
    BY <1>1 DEF Good, Typed, FlagsTyped, Same, Fields
  <2>2. MediaTyped(r, ss)
    BY <1>1 DEF Good, Typed, MediaTyped, Same, Fields
  <2>3. PlaceTyped(r)
    BY <1>1, DriverConstants DEF Good, Typed, PlaceTyped, Same, Fields, Positions
  <2>. QED BY <1>1, <2>1, <2>2, <2>3, FrameTyped DEF Good, Typed, Fields
<1>3. Live(r) /\ Matches(r)
  BY <1>1, Frame DEF Good, Fields
<1>4. Kinds(r)
  BY <1>1 DEF Good, Kinds, Same, Fields
<1>5. Follows(q, r)
  BY <1>1, Frame DEF Follows, Same, Fields
<1>. QED BY <1>1, <1>2, <1>3, <1>4, <1>5 DEF Good, Same

\* hls.js lets go: an element that it fed is empty.
LEMMA DestroyHLSGood ==
    ASSUME NEW q, NEW ss, Good(q, ss), NEW r, r = DestroyHLS(q)
    PROVE  /\ Same(q, r, Fields \ {"hls", "waiters", "paused", "source", "phase", "position"})
           /\ r.hls = None /\ r.waiters = None
           /\ Good(r, ss) /\ Follows(q, r)
<1>1. PICK gone : gone = [q EXCEPT !.hls = None, !.waiters = None]
  OBVIOUS
<1>2. Same(q, gone, Fields \ {"hls", "waiters"}) /\ gone.hls = None /\ gone.waiters = None
  BY <1>1 DEF Good, Same, IsTab, Fields
<1>3. Typed(gone, ss)
  <2>1. MediaTyped(gone, ss)
    BY <1>2 DEF Good, Typed, MediaTyped, Same, Fields, Maybe
  <2>. QED BY <1>2, <2>1, FrameTyped DEF Good, Typed, Fields
<1>4. Live(gone) /\ Matches(gone)
  BY <1>2, Frame DEF Good, Fields
<1>5. Follows(q, gone)
  BY <1>2, Frame DEF Follows, Same, Fields
<1>6. CASE q.hls # None /\ q.source = "session"
  <2>1. /\ Same(q, r, Fields \ {"hls", "waiters", "paused", "source", "phase", "position"})
        /\ r.hls = None /\ r.waiters = None
        /\ r.source = "empty" /\ r.phase = "empty" /\ r.position = 0 /\ r.paused = TRUE
    BY <1>1, <1>6 DEF DestroyHLS, Emptied, Pause, Good, Same, IsTab, Fields
  <2>2. Typed(r, ss)
    <3>1. FlagsTyped(r)
      BY ZenonT(30), <2>1 DEF Good, Typed, FlagsTyped, Same, Fields
    <3>2. MediaTyped(r, ss)
      BY <2>1 DEF Good, Typed, MediaTyped, Same, Fields, Maybe
    <3>3. PlaceTyped(r)
      BY <2>1, DriverConstants DEF Good, Typed, PlaceTyped, Same, Fields, Positions
    <3>. QED BY <2>1, <3>1, <3>2, <3>3, FrameTyped DEF Good, Typed, Fields
  <2>3. Live(r) /\ Matches(r)
    BY <2>1, Frame DEF Good, Fields
  <2>4. Kinds(r)
    BY <2>1 DEF Good, Kinds, Same, Fields
  <2>5. Follows(q, r)
    BY <2>1, Frame DEF Follows, Same, Fields
  <2>. QED BY <2>1, <2>2, <2>3, <2>4, <2>5 DEF Good, Same
<1>7. CASE ~(q.hls # None /\ q.source = "session")
  <2>1. r = gone
    BY <1>1, <1>7 DEF DestroyHLS
  <2>2. Kinds(gone)
    BY <1>2, <1>7 DEF Good, Typed, MediaTyped, Kinds, Same, Fields
  <2>. QED BY <1>2, <1>3, <1>4, <1>5, <2>1, <2>2 DEF Good, Same
<1>. QED BY <1>6, <1>7

\* The store names no session.
LEMMA ClearStoreSessionGood ==
    ASSUME NEW q, NEW ss, Good(q, ss), NEW r, r = ClearStoreSession(q)
    PROVE  /\ Same(q, r, Fields \ {"storeSession", "storeContext", "time"})
           /\ r.storeSession = None /\ r.time = 0
           /\ Good(r, ss) /\ Follows(q, r)
<1>1. /\ Same(q, r, Fields \ {"storeSession", "storeContext", "time"})
      /\ r.storeSession = None /\ r.time = 0
  BY DEF ClearStoreSession, Good, Same, IsTab, Fields
<1>2. Typed(r, ss)
  <2>1. StoreTyped(r, ss)
    BY <1>1 DEF Good, Typed, StoreTyped, Same, Fields, Maybe
  <2>2. PlaceTyped(r)
    BY <1>1, DriverConstants DEF Good, Typed, PlaceTyped, Same, Fields, Positions
  <2>. QED BY <1>1, <2>1, <2>2, FrameTyped DEF Good, Typed, Fields
<1>3. None \notin r.released
  BY <1>2, DriverConstants DEF Typed, StoreTyped, Ids
<1>4. Live(r)
  BY <1>1, <1>3 DEF Good, Live, Same, Fields, IsHLS
<1>5. Matches(r)
  BY <1>1 DEF Good, Matches, Same, Fields, Own
<1>6. Kinds(r)
  BY <1>1 DEF Good, Kinds, Same, Fields
<1>7. Follows(q, r)
  BY <1>1, Frame DEF Follows, Same, Fields
<1>. QED BY <1>1, <1>2, <1>4, <1>5, <1>6, <1>7 DEF Good, Same

\* What fallBackToProgressive changes.
FallBackFields == {"timer", "waiting", "attempts", "hls", "waiters", "source", "phase",
                   "position", "paused", "storeSession", "storeContext", "time",
                   "nativePlay", "session", "attachedTo", "seen", "ready", "recovery",
                   "driver", "released"}

\* A fallback gives the session up and deletes it; the queue stays.
LEMMA FallBackGood ==
    ASSUME NEW q, NEW ss, Good(q, ss), NEW r, r = FallBack(q)
    PROVE  /\ Same(q, r, Fields \ FallBackFields)
           /\ r.session = None /\ r.driver = "progressive"
           /\ Good(r, ss) /\ Follows(q, r)
<1>1. PICK c : c = ClearRecovery(q)
  OBVIOUS
<1>2. /\ Same(q, c, Fields \ {"timer", "waiting", "attempts"})
      /\ Good(c, ss) /\ Follows(q, c)
  BY <1>1, ClearRecoveryGood
<1>3. PICK d : d = DestroyHLS(c)
  OBVIOUS
<1>4. /\ Same(c, d, Fields \ {"hls", "waiters", "paused", "source", "phase", "position"})
      /\ d.hls = None /\ Good(d, ss) /\ Follows(c, d)
  BY <1>2, <1>3, DestroyHLSGood
<1>5. PICK e : e = ClearStoreSession(d)
  OBVIOUS
<1>6. /\ Same(d, e, Fields \ {"storeSession", "storeContext", "time"})
      /\ e.storeSession = None /\ Good(e, ss) /\ Follows(d, e)
  BY <1>4, <1>5, ClearStoreSessionGood
<1>7. /\ Same(q, e, Fields \ {"timer", "waiting", "attempts", "hls", "waiters", "paused",
                              "source", "phase", "position", "storeSession",
                              "storeContext", "time"})
      /\ e.hls = None
  BY <1>2, <1>4, <1>6 DEF Same, Fields
<1>8. PICK idle : idle = [e EXCEPT
                     !.nativePlay = FALSE,
                     !.session = None, !.attachedTo = None, !.seen = None,
                     !.ready = TRUE, !.recovery = FALSE, !.driver = "progressive"]
  OBVIOUS
<1>9. PICK gone : gone = Emptied(idle)
  OBVIOUS
<1>10. r = IF q.session = None THEN idle ELSE [gone EXCEPT !.released = @ \cup {q.session.id}]
  BY <1>1, <1>3, <1>5, <1>8, <1>9 DEF FallBack
<1>11. /\ Same(e, idle, Fields \ {"nativePlay", "session", "attachedTo", "seen", "ready",
                                  "recovery", "driver"})
       /\ idle.nativePlay = FALSE /\ idle.session = None /\ idle.attachedTo = None
       /\ idle.seen = None /\ idle.ready = TRUE /\ idle.recovery = FALSE
       /\ idle.driver = "progressive"
  BY <1>6, <1>8 DEF Good, Same, IsTab, Fields
<1>12. Good(idle, ss)
  <2>1. SessionTyped(idle, ss) /\ SeenTyped(idle)
    BY <1>11 DEF SessionTyped, SeenTyped, Maybe
  <2>2. ContextTyped(idle)
    BY <1>6, <1>11 DEF Good, Typed, ContextTyped, Same, Fields, Maybe
  <2>3. KindTyped(idle)
    BY <1>6, <1>11 DEF Good, Typed, KindTyped, Same, Fields, Drivers
  <2>4. FlagsTyped(idle)
    BY <1>6, <1>11 DEF Good, Typed, FlagsTyped, Same, Fields
  <2>5. Typed(idle, ss)
    BY <1>6, <1>11, <2>1, <2>2, <2>3, <2>4, FrameTyped DEF Good, Typed, Fields
  <2>6. Live(idle)
    BY <1>6, <1>11 DEF Good, Live, Same, Fields, IsHLS
  <2>7. Matches(idle)
    BY <1>11 DEF Matches, Own
  <2>8. Kinds(idle)
    BY <1>6, <1>11 DEF Good, Kinds, Same, Fields
  <2>. QED BY <1>11, <2>5, <2>6, <2>7, <2>8 DEF Good, Same
<1>13. Same(q, idle, Fields \ FallBackFields)
  BY <1>7, <1>11 DEF Same, Fields, FallBackFields
<1>14. idle.released = q.released /\ idle.playing = q.playing
  BY <1>7, <1>11 DEF Same, Fields
<1>15. CASE q.session = None
  <2>1. r = idle
    BY <1>10, <1>15
  <2>2. Follows(q, r)
    BY <1>14, <1>15, <2>1 DEF Follows, LetsGo
  <2>. QED BY <1>11, <1>12, <1>13, <2>1, <2>2
<1>16. CASE q.session # None
  <2>1. /\ Same(idle, gone, Fields \ {"paused", "source", "phase", "position"})
        /\ Good(gone, ss)
    BY <1>9, <1>12, EmptiedGood
  <2>2. /\ Same(gone, r, Fields \ {"released"})
        /\ r.released = gone.released \cup {q.session.id}
    BY <1>10, <1>16, <2>1 DEF Good, Same, IsTab, Fields
  <2>3. gone.session = None /\ gone.storeSession = None /\ gone.driver = "progressive"
    BY <1>6, <1>11, <2>1 DEF Same, Fields
  <2>4. q.session.id \in Ids(ss) /\ None \notin Ids(ss)
    BY <1>16, DriverConstants DEF Good, Typed, SessionTyped, Ids
  <2>5. StoreTyped(r, ss)
    BY <2>1, <2>2, <2>4 DEF Good, Typed, StoreTyped, Same, Fields
  <2>6. Typed(r, ss)
    BY <2>1, <2>2, <2>5, FrameTyped DEF Good, Typed, Fields
  <2>7. Live(r)
    BY <2>1, <2>2, <2>3, <2>4 DEF Good, Live, Same, Fields, IsHLS
  <2>8. Matches(r) /\ Kinds(r)
    BY <2>1, <2>2, Frame DEF Good, Fields
  <2>9. Same(q, r, Fields \ FallBackFields)
    BY <1>13, <2>1, <2>2 DEF Same, Fields, FallBackFields
  <2>10. r.session = None /\ r.driver = "progressive"
    BY <2>2, <2>3 DEF Same, Fields
  <2>11. Follows(q, r)
    BY <1>14, <2>1, <2>2 DEF Follows, LetsGo, Same, Fields
  <2>. QED BY <2>2, <2>6, <2>7, <2>8, <2>9, <2>10, <2>11 DEF Good, Same
<1>. QED BY <1>15, <1>16

\* findPlaybackBoundary: an item of the list, the one after the position or the last.
LEMMA BoundaryIsItem ==
    ASSUME NEW n \in Nat \ {0}, NEW position \in Nat
    PROVE  /\ Boundary(n, position) \in 1..n /\ Boundary(n, position) <= position + 1
           /\ position < n => Boundary(n, position) = position + 1
<1>1. PICK m : m = Boundary(n, position)
  OBVIOUS
<1>2. m = CHOOSE x \in {position + 1, n} : \A y \in {position + 1, n} : x <= y
  BY <1>1 DEF Boundary, Min
<1>3. \E x \in {position + 1, n} : \A y \in {position + 1, n} : x <= y
  OBVIOUS
<1>4. m \in {position + 1, n} /\ m <= position + 1 /\ m <= n
  BY <1>2, <1>3
<1>. QED BY <1>1, <1>4

\* The numbers are natural, and there is an item at least.
LEMMA Numbers ==
    /\ MaxItems \in Nat \ {0} /\ FirstItems \in 1..MaxItems /\ MaxAttempts \in Nat \ {0}
    /\ Items \subseteq Nat \ {0} /\ Positions \subseteq Nat /\ 0 \in Positions
    /\ \A n \in Items : 1..n \subseteq Items /\ \A k \in 1..n : k - 1 \in Positions
  BY DriverConstants DEF Items, Positions, Ids

\* refreshSession adds to the requests in flight, and to nothing else.
LEMMA AskRefreshGood ==
    ASSUME NEW q, NEW ss, Good(q, ss), NEW r, r = AskRefresh(q)
    PROVE  Same(q, r, Fields \ {"refreshes"}) /\ Good(r, ss) /\ Follows(q, r)
<1>1. CASE r = q
  BY <1>1, FollowsTransitive DEF Good, Same
<1>2. CASE /\ q.session # None
           /\ r = [q EXCEPT !.refreshes = @ \cup {[id |-> q.session.id, context |-> q.context]}]
  <2>1. /\ Same(q, r, Fields \ {"refreshes"})
        /\ r.refreshes = q.refreshes \cup {[id |-> q.session.id, context |-> q.context]}
    BY <1>2 DEF Good, Same, IsTab, Fields
  <2>2. q.session.id \in Ids(ss) /\ q.context \in Nat
    BY <1>2 DEF Good, Typed, SessionTyped, ContextTyped
  <2>3. RefreshTyped(r, ss)
    BY <2>1, <2>2 DEF Good, Typed, RefreshTyped, Same, Fields
  <2>4. Typed(r, ss)
    BY <2>1, <2>3, FrameTyped DEF Good, Typed, Fields
  <2>5. Live(r) /\ Matches(r) /\ Kinds(r)
    BY <2>1, Frame DEF Good, Fields
  <2>6. Follows(q, r)
    BY <2>1, Frame DEF Follows, Same, Fields
  <2>. QED BY <2>1, <2>4, <2>5, <2>6 DEF Good, Same
<1>. QED BY <1>1, <1>2 DEF AskRefresh

\* setPlaybackSession: the store names the session that is attached.
LEMMA PlaceGood ==
    ASSUME NEW q, NEW ss, Good(q, ss), q.session # None,
           NEW context, NEW position \in Positions, NEW r, r = Place(q, context, position)
    PROVE  /\ Same(q, r, Fields \ {"storeSession", "storeContext", "time"})
           /\ r.storeSession = q.session.id
           /\ Good(r, ss) /\ Follows(q, r)
<1>1. /\ Same(q, r, Fields \ {"storeSession", "storeContext", "time"})
      /\ r.storeSession = q.session.id /\ r.time = position
  BY DEF Place, Good, Same, IsTab, Fields
<1>2. q.session.id \in Ids(ss) /\ None \notin Ids(ss)
  BY DriverConstants DEF Good, Typed, SessionTyped, Ids
<1>3. Typed(r, ss)
  <2>1. StoreTyped(r, ss)
    BY <1>1, <1>2 DEF Good, Typed, StoreTyped, Same, Fields, Maybe
  <2>2. PlaceTyped(r)
    BY <1>1 DEF Good, Typed, PlaceTyped, Same, Fields
  <2>. QED BY <1>1, <2>1, <2>2, FrameTyped DEF Good, Typed, Fields
<1>4. Live(r)
  BY <1>1 DEF Good, Live, Same, Fields, IsHLS
<1>5. Matches(r)
  BY <1>1 DEF Good, Matches, Same, Fields, Own
<1>6. Kinds(r)
  BY <1>1, <1>2 DEF Good, Kinds, Same, Fields
<1>7. Follows(q, r)
  BY <1>1, Frame DEF Follows, Same, Fields
<1>. QED BY <1>1, <1>3, <1>4, <1>5, <1>6, <1>7 DEF Good, Same

\* What a step of the timeline changes in the tab.
TimelineFields == {"storeSession", "storeContext", "time", "current", "seen", "queue",
                   "refreshes"}

\* The queue shows the items of the session.  (The tab before it need not match:
\* Attach has just set the session.)
LEMMA ShowItemsGood ==
    ASSUME NEW q, NEW ss, IsTab(q), Typed(q, ss), q.session # None,
           q.session.id \notin q.released, IsHLS(q) => q.session # None, Kinds(q),
           NEW context, NEW position \in Positions, NEW r, r = ShowItems(q, context, position)
    PROVE  /\ Same(q, r, Fields \ TimelineFields)
           /\ Good(r, ss) /\ Shown(r) /\ Follows(q, r)
<1>1. PICK order : order = Boundary(q.session.n, position)
  OBVIOUS
<1>2. /\ q.session \in SessionRef /\ q.session.id \in Ids(ss)
      /\ q.session.n \in Items /\ q.session.list \in Nat
  BY DEF Typed, SessionTyped, Maybe, SessionRef
<1>3. order \in 1..q.session.n
  BY <1>1, <1>2, Numbers, BoundaryIsItem
<1>4. order \in Items /\ None \notin Ids(ss)
  BY <1>2, <1>3, DriverConstants DEF Items, Ids
<1>5. PICK shown : shown = [kind |-> "playback", list |-> q.session.list, n |-> q.session.n]
  OBVIOUS
<1>6. r = [[q EXCEPT !.storeSession = q.session.id, !.storeContext = context,
                     !.time = position] EXCEPT
              !.current = order, !.seen = <<order, q.session>>, !.queue = shown]
  BY <1>1, <1>5 DEF ShowItems, Place
<1>7. /\ Same(q, r, Fields \ {"storeSession", "storeContext", "time", "current", "seen",
                              "queue"})
      /\ r.storeSession = q.session.id /\ r.time = position
      /\ r.current = order /\ r.seen = <<order, q.session>> /\ r.queue = shown
  BY ZenonT(30), <1>6 DEF Same, IsTab, Fields
<1>8. Same(q, r, Fields \ TimelineFields)
  BY <1>7 DEF Same, Fields, TimelineFields
<1>9. Typed(r, ss)
  <2>1. StoreTyped(r, ss)
    BY <1>2, <1>7 DEF Typed, StoreTyped, Same, Fields, Maybe
  <2>2. PlaceTyped(r)
    BY <1>7 DEF Typed, PlaceTyped, Same, Fields
  <2>3. SeenTyped(r)
    BY <1>2, <1>4, <1>7 DEF SeenTyped, Maybe
  <2>4. QueueTyped(r)
    <3>1. q.session.n \in 0..MaxItems
      BY <1>2, DriverConstants DEF Items
    <3>2. shown \in [kind : {"list", "playback"}, list : Nat, n : 0..MaxItems]
      BY <1>2, <1>5, <3>1
    <3>3. shown.n = q.session.n
      BY <1>5
    <3>4. order \in 0..shown.n
      BY <1>2, <1>3, <3>3 DEF Items
    <3>. QED BY <1>7, <3>2, <3>4 DEF QueueTyped
  <2>. QED BY <1>7, <2>1, <2>2, <2>3, <2>4, FrameTyped DEF Typed, Fields
<1>10. Live(r)
  BY <1>7 DEF Live, Same, Fields, IsHLS
<1>11. Matches(r)
  <2>1. r.session = q.session
    BY <1>7 DEF Same, Fields
  <2>2. r.queue.kind = "playback" /\ r.queue.list = q.session.list /\ r.queue.n = q.session.n
    BY <1>5, <1>7
  <2>3. r.seen[1] <= r.queue.n
    BY <1>2, <1>3, <1>7, <2>2 DEF Items
  <2>. QED BY <1>7, <2>1, <2>2, <2>3 DEF Matches
<1>12. Kinds(r)
  BY <1>2, <1>4, <1>7 DEF Kinds, Same, Fields
<1>13. Shown(r)
  BY <1>7 DEF Shown, Same, Fields
<1>14. Follows(q, r)
  BY <1>7, Frame DEF Follows, Same, Fields
<1>. QED BY <1>7, <1>8, <1>9, <1>10, <1>11, <1>12, <1>13, <1>14 DEF Good, Same

\* syncTimeline: whenever the session is the one of the queue, the store names it.
LEMMA SyncAtGood ==
    ASSUME NEW q, NEW ss, Good(q, ss), NEW context, NEW position \in Positions,
           NEW r, r = SyncAt(q, context, position)
    PROVE  /\ Same(q, r, Fields \ TimelineFields)
           /\ Good(r, ss) /\ Follows(q, r) /\ Keeps(q, r)
           /\ Own(r) => Shown(r)
<1>1. PICK order : order = Boundary(q.session.n, position)
  OBVIOUS
<1>2. CASE q.session = None
  <2>1. r = q
    BY <1>2 DEF SyncAt
  <2>2. ~Own(q)
    BY <1>2 DEF Own
  <2>. QED BY <2>1, <2>2, FollowsTransitive, KeepsTransitive DEF Good, Same
<1>3. CASE q.session # None /\ HasMore(q.session) /\ position >= q.session.n
  <2>1. PICK p : p = IF q.time = position THEN q ELSE Place(q, context, position)
    OBVIOUS
  <2>2. r = AskRefresh(p)
    BY <1>3, <2>1 DEF SyncAt
  <2>3. /\ Same(q, p, Fields \ {"storeSession", "storeContext", "time"})
        /\ Good(p, ss) /\ Follows(q, p)
    BY <1>3, <2>1, PlaceGood, FollowsTransitive DEF Good, Same
  <2>4. Own(p) => Shown(p)
    <3>1. CASE q.time # position
      <4>1. p.storeSession = q.session.id /\ p.session = q.session
        BY <1>3, <2>1, <2>3, <3>1, PlaceGood DEF Same, Fields
      <4>. QED BY <4>1 DEF Shown
    <3>2. CASE q.time = position
      <4>1. q.session.n \in Nat \ {0} /\ position \in Nat
        BY <1>3, Numbers DEF Good, Typed, SessionTyped, SessionRef, Maybe
      <4>2. q.time # 0
        BY <1>3, <3>2, <4>1
      <4>3. q.storeSession # None
        BY <4>2 DEF Good, Kinds
      <4>4. Own(q) => Shown(q)
        BY <4>3 DEF Good, Matches, Shown
      <4>. QED BY <2>1, <3>2, <4>4
    <3>. QED BY <3>1, <3>2
  <2>5. Same(p, r, Fields \ {"refreshes"}) /\ Good(r, ss) /\ Follows(p, r)
    BY <2>2, <2>3, AskRefreshGood
  <2>6. Same(q, r, Fields \ TimelineFields)
    BY <2>3, <2>5 DEF Same, Fields, TimelineFields
  <2>7. Own(r) => Shown(r)
    BY <2>4, <2>5, Frame DEF Fields
  <2>8. Keeps(q, r)
    BY <2>6, <2>7, KeepsFrame DEF Fields, TimelineFields
  <2>. QED BY <2>3, <2>5, <2>6, <2>7, <2>8, FollowsTransitive
<1>4. CASE /\ q.session # None /\ ~(HasMore(q.session) /\ position >= q.session.n)
           /\ q.seen # <<order, q.session>>
  <2>1. r = ShowItems(q, context, position)
    BY <1>1, <1>4 DEF SyncAt
  <2>2. /\ Same(q, r, Fields \ TimelineFields)
        /\ Good(r, ss) /\ Shown(r) /\ Follows(q, r)
    BY <1>4, <2>1, ShowItemsGood DEF Good, Live
  <2>3. Keeps(q, r)
    BY <2>2, KeepsFrame DEF Fields, TimelineFields
  <2>. QED BY <2>2, <2>3
<1>5. CASE /\ q.session # None /\ ~(HasMore(q.session) /\ position >= q.session.n)
           /\ q.seen = <<order, q.session>>
  <2>1. /\ q.session \in SessionRef /\ q.session.n \in Nat \ {0} /\ q.session.n \in Items
        /\ position \in Nat
    BY <1>5, Numbers DEF Good, Typed, SessionTyped, SessionRef, Maybe
  <2>2. order \in 1..q.session.n
    BY <1>1, <2>1, BoundaryIsItem
  <2>3. order \in Items
    BY <2>1, <2>2, Numbers
  <2>4. CASE q.queue.kind = "playback" /\ order <= q.queue.n
    <3>1. PICK p : p = Place(q, context, position)
      OBVIOUS
    <3>2. r = [p EXCEPT !.current = order]
      BY <1>1, <1>5, <2>4, <3>1 DEF SyncAt
    <3>3. /\ Same(q, p, Fields \ {"storeSession", "storeContext", "time"})
          /\ p.storeSession = q.session.id /\ Good(p, ss) /\ Follows(q, p)
      BY <1>5, <3>1, PlaceGood
    <3>4. Same(p, r, Fields \ {"current"}) /\ r.current = order
      BY <3>2, <3>3 DEF Good, Same, IsTab, Fields
    <3>5. q.queue.n \in Nat /\ p.queue = q.queue /\ r.queue = q.queue
      BY <3>3, <3>4, Numbers DEF Good, Typed, QueueTyped, Same, Fields
    <3>6. order \in 0..q.queue.n
      BY <2>3, <2>4, <3>5 DEF Items
    <3>7. QueueTyped(r)
      BY <3>3, <3>4, <3>5, <3>6 DEF Good, Typed, QueueTyped
    <3>8. Typed(r, ss)
      BY <3>3, <3>4, <3>7, FrameTyped DEF Good, Typed, Fields
    <3>9. Live(r) /\ Matches(r) /\ Kinds(r)
      BY <3>3, <3>4, Frame DEF Good, Fields
    <3>10. Follows(p, r)
      BY <3>4, Frame DEF Follows, Same, Fields
    <3>11. Shown(r)
      BY <3>3, <3>4 DEF Shown, Same, Fields
    <3>12. Same(q, r, Fields \ TimelineFields)
      BY <3>3, <3>4 DEF Same, Fields, TimelineFields
    <3>13. Keeps(q, r)
      BY <3>11, <3>12, KeepsFrame DEF Fields, TimelineFields
    <3>. QED
      BY <3>3, <3>4, <3>8, <3>9, <3>10, <3>11, <3>12, <3>13, FollowsTransitive
         DEF Good, Same
  <2>5. CASE ~(q.queue.kind = "playback" /\ order <= q.queue.n)
    <3>1. r = q
      BY <1>1, <1>5, <2>5 DEF SyncAt
    <3>2. q.seen[1] = order
      BY <1>5
    <3>3. q.seen # None
      <4>1. order \in Nat /\ q.session \in [id : Nat, list : Nat, n : Nat]
        BY <2>1, <2>3, Numbers DEF SessionRef
      <4>. QED BY <1>5, <4>1, DriverConstants
    <3>4. ~Own(q)
      BY <2>5, <3>2, <3>3 DEF Good, Matches
    <3>. QED BY <3>1, <3>4, FollowsTransitive, KeepsTransitive DEF Good, Same
  <2>. QED BY <2>4, <2>5
<1>. QED BY <1>2, <1>3, <1>4, <1>5

\* syncTimeline at the position of the audio element.
LEMMA SyncGood ==
    ASSUME NEW q, NEW ss, Good(q, ss), NEW context, NEW r, r = Sync(q, context)
    PROVE  Same(q, r, Fields \ TimelineFields) /\ Good(r, ss) /\ Follows(q, r) /\ Keeps(q, r)
<1>1. CASE r = q
  BY <1>1, FollowsTransitive, KeepsTransitive DEF Good, Same
<1>2. CASE r = SyncAt(q, context, q.position)
  BY <1>2, SyncAtGood DEF Good, Typed, PlaceTyped
<1>. QED BY <1>1, <1>2 DEF Sync

\* What a recovery that goes on changes.
RecoveryFields == TimelineFields \cup {"recovery", "ready", "timer", "waiting"}

\* scheduleRecovery either gives the session up or leaves its playback where it
\* is, and arms a timer only for an attempt that is left.
LEMMA ScheduleRecoveryGood ==
    ASSUME NEW q, NEW ss, Good(q, ss), NEW r, r = ScheduleRecovery(q)
    PROVE  /\ Same(q, r, Fields \ (TimelineFields \cup FallBackFields))
           /\ Same(q, r, Fields \ RecoveryFields) \/ r.session = None
           /\ Good(r, ss) /\ Follows(q, r) /\ Keeps(q, r)
<1>1. CASE r = q
  BY <1>1, FollowsTransitive, KeepsTransitive DEF Good, Same
<1>2. CASE r # q
  <2>1. q.session # None
    BY <1>2 DEF ScheduleRecovery
  <2>2. PICK synced : synced = SyncAt(q, q.context, q.position)
    OBVIOUS
  <2>3. /\ Same(q, synced, Fields \ TimelineFields)
        /\ Good(synced, ss) /\ Follows(q, synced)
        /\ Own(synced) => Shown(synced)
    BY <2>2, SyncAtGood DEF Good, Typed, PlaceTyped
  <2>4. PICK failed : failed = [synced EXCEPT !.recovery = TRUE, !.ready = FALSE]
    OBVIOUS
  <2>5. /\ Same(synced, failed, Fields \ {"recovery", "ready"})
        /\ failed.recovery = TRUE /\ failed.ready = FALSE
    BY <2>3, <2>4 DEF Good, Same, IsTab, Fields
  <2>6. Good(failed, ss) /\ Follows(synced, failed)
    <3>1. FlagsTyped(failed)
      BY <2>3, <2>5 DEF Good, Typed, FlagsTyped, Same, Fields
    <3>2. Typed(failed, ss)
      BY <2>3, <2>5, <3>1, FrameTyped DEF Good, Typed, Fields
    <3>3. Live(failed) /\ Matches(failed) /\ Kinds(failed)
      BY <2>3, <2>5, Frame DEF Good, Fields
    <3>4. Follows(synced, failed)
      BY <2>5, Frame DEF Follows, Same, Fields
    <3>. QED BY <2>5, <3>2, <3>3, <3>4 DEF Good, Same
  <2>7. Own(failed) => Shown(failed)
    BY <2>3, <2>5, Frame DEF Fields
  <2>8. Same(q, failed, Fields \ (TimelineFields \cup {"recovery", "ready"}))
    BY <2>3, <2>5 DEF Same, Fields, TimelineFields
  <2>9. CASE r = FallBack(failed)
    <3>1. /\ Same(failed, r, Fields \ FallBackFields)
          /\ r.session = None /\ Good(r, ss) /\ Follows(failed, r)
      BY <2>6, <2>9, FallBackGood
    <3>2. Same(q, r, Fields \ (TimelineFields \cup FallBackFields))
      BY <2>8, <3>1 DEF Same, Fields, TimelineFields, FallBackFields
    <3>3. Keeps(q, r)
      BY <3>1, <3>2, KeepsFrame
    <3>. QED BY <2>3, <2>6, <3>1, <3>2, <3>3, FollowsTransitive
  <2>10. ASSUME Same(failed, r, Fields \ {"timer", "waiting"}),
                r.waiting \in BOOLEAN, TimerTyped(r, ss)
         PROVE  /\ Same(q, r, Fields \ (TimelineFields \cup FallBackFields))
                /\ Same(q, r, Fields \ RecoveryFields) \/ r.session = None
                /\ Good(r, ss) /\ Follows(q, r) /\ Keeps(q, r)
    <3>1. Same(q, r, Fields \ RecoveryFields)
      BY <2>8, <2>10 DEF Same, Fields, TimelineFields, RecoveryFields
    <3>2. Same(q, r, Fields \ (TimelineFields \cup FallBackFields))
      BY <3>1 DEF Same, Fields, TimelineFields, RecoveryFields, FallBackFields
    <3>3. FlagsTyped(r)
      BY <2>6, <2>10 DEF Good, Typed, FlagsTyped, Same, Fields
    <3>4. Typed(r, ss)
      BY <2>6, <2>10, <3>3, FrameTyped DEF Good, Typed, Fields
    <3>5. Live(r) /\ Matches(r) /\ Kinds(r)
      BY <2>6, <2>10, Frame DEF Good, Fields
    <3>6. Follows(failed, r)
      BY <2>10, Frame DEF Follows, Same, Fields
    <3>7. Own(r) => Shown(r)
      BY <2>7, <2>10, Frame DEF Fields
    <3>8. Keeps(q, r)
      BY <3>1, <3>7, KeepsFrame DEF Fields, RecoveryFields, TimelineFields
    <3>. QED
      BY <2>3, <2>6, <2>10, <3>1, <3>2, <3>4, <3>5, <3>6, <3>8, FollowsTransitive
         DEF Good, Same
  <2>11. CASE r = [failed EXCEPT !.timer = None, !.waiting = TRUE]
    <3>1. /\ Same(failed, r, Fields \ {"timer", "waiting"})
          /\ r.timer = None /\ r.waiting = TRUE
      BY <2>6, <2>11 DEF Good, Same, IsTab, Fields
    <3>2. TimerTyped(r, ss)
      BY <2>6, <3>1 DEF Good, Typed, TimerTyped, Same, Fields, Maybe
    <3>. QED BY <2>10, <3>1, <3>2
  <2>12. CASE /\ ~(q.timer = None /\ q.attempts >= MaxAttempts)
              /\ \E armed : /\ armed = IF q.timer = None THEN q.session.id ELSE q.timer.id
                            /\ r = [failed EXCEPT !.waiting = FALSE,
                                                  !.timer = [id |-> armed, at |-> q.position]]
    <3>1. PICK armed :
              /\ armed = IF q.timer = None THEN q.session.id ELSE q.timer.id
              /\ r = [failed EXCEPT !.waiting = FALSE,
                                    !.timer = [id |-> armed, at |-> q.position]]
      BY <2>12
    <3>2. /\ Same(failed, r, Fields \ {"timer", "waiting"})
          /\ r.timer = [id |-> armed, at |-> q.position] /\ r.waiting = FALSE
      BY <2>6, <3>1 DEF Good, Same, IsTab, Fields
    <3>3. armed \in Ids(ss) /\ q.position \in Positions
      BY <2>1, <3>1 DEF Good, Typed, SessionTyped, TimerTyped, PlaceTyped, Maybe
    <3>4. q.attempts \in 0..MaxAttempts /\ q.attempts < MaxAttempts
      BY <2>12, Numbers DEF Good, Typed, TimerTyped
    <3>5. r.attempts = q.attempts
      BY <2>8, <3>2 DEF Same, Fields, TimelineFields
    <3>6. TimerTyped(r, ss)
      BY <3>2, <3>3, <3>4, <3>5 DEF TimerTyped, Maybe
    <3>. QED BY <2>10, <3>2, <3>6
  <2>13. \/ r = [failed EXCEPT !.timer = None, !.waiting = TRUE]
         \/ r = FallBack(failed)
         \/ /\ ~(q.timer = None /\ q.attempts >= MaxAttempts)
            /\ \E armed : /\ armed = IF q.timer = None THEN q.session.id ELSE q.timer.id
                          /\ r = [failed EXCEPT !.waiting = FALSE,
                                                !.timer = [id |-> armed, at |-> q.position]]
    BY <1>2, <2>2, <2>4, Zenon DEF ScheduleRecovery
  <2>. QED BY <2>9, <2>11, <2>12, <2>13
<1>. QED BY <1>1, <1>2

\* The end of an attachment or of a recovery: playback has begun before.
LEMMA ReadyGood ==
    ASSUME NEW q, NEW ss, Good(q, ss), NEW r, r = Ready(q)
    PROVE  /\ Same(q, r, Fields \ {"timer", "waiting", "attempts", "recovery", "ready"})
           /\ Good(r, ss) /\ Follows(q, r)
           /\ q.phase \in {"parsed", "ok"} => Keeps(q, r)
<1>1. PICK c : c = ClearRecovery(q)
  OBVIOUS
<1>2. /\ Same(q, c, Fields \ {"timer", "waiting", "attempts"})
      /\ Good(c, ss) /\ Follows(q, c)
  BY <1>1, ClearRecoveryGood
<1>3. Same(c, r, Fields \ {"recovery", "ready"}) /\ r.recovery = FALSE /\ r.ready = TRUE
  BY <1>1, <1>2 DEF Ready, Good, Same, IsTab, Fields
<1>4. Same(q, r, Fields \ {"timer", "waiting", "attempts", "recovery", "ready"})
  BY <1>2, <1>3 DEF Same, Fields
<1>5. Good(r, ss)
  <2>1. FlagsTyped(r)
    BY <1>2, <1>3 DEF Good, Typed, FlagsTyped, Same, Fields
  <2>2. Typed(r, ss)
    BY <1>2, <1>3, <2>1, FrameTyped DEF Good, Typed, Fields
  <2>3. Live(r) /\ Matches(r) /\ Kinds(r)
    BY <1>2, <1>3, Frame DEF Good, Fields
  <2>. QED BY <1>3, <2>2, <2>3 DEF Good, Same
<1>6. Follows(c, r)
  BY <1>3, Frame DEF Follows, Same, Fields
<1>7. q.phase \in {"parsed", "ok"} => Keeps(q, r)
  <2>1. ASSUME q.phase \in {"parsed", "ok"}
        PROVE  Begun(r) => Begun(q)
    BY <1>4, <2>1 DEF Begun, IsHLS, Same, Fields
  <2>. QED BY <1>4, <2>1, KeepsFrame DEF Fields
<1>. QED BY <1>2, <1>4, <1>5, <1>6, <1>7, FollowsTransitive

\* The playlist becomes the source of a native element.
LEMMA LoadNativelyGood ==
    ASSUME NEW q, NEW ss, Good(q, ss), q.driver = "hls-native", NEW to \in Positions,
           NEW r, r = LoadNatively(q, to)
    PROVE  /\ Same(q, r, Fields \ {"paused", "source", "phase", "position", "waiters"})
           /\ Good(r, ss) /\ Follows(q, r) /\ Keeps(q, r)
<1>1. /\ Same(q, r, Fields \ {"paused", "source", "phase", "position", "waiters"})
      /\ r.paused = TRUE /\ r.source = "session" /\ r.phase = "loading" /\ r.position = 0
      /\ r.waiters = [to |-> to, timer |-> TRUE]
  BY DEF LoadNatively, LoadPlaylist, Pause, Good, Same, IsTab, Fields
<1>2. Typed(r, ss)
  <2>1. FlagsTyped(r)
    BY ZenonT(30), <1>1 DEF Good, Typed, FlagsTyped, Same, Fields
  <2>2. MediaTyped(r, ss)
    BY <1>1 DEF Good, Typed, MediaTyped, Same, Fields, Maybe
  <2>3. PlaceTyped(r)
    BY <1>1, Numbers DEF Good, Typed, PlaceTyped, Same, Fields
  <2>. QED BY <1>1, <2>1, <2>2, <2>3, FrameTyped DEF Good, Typed, Fields
<1>3. Live(r) /\ Matches(r)
  BY <1>1, Frame DEF Good, Fields
<1>4. Kinds(r)
  BY <1>1 DEF Good, Kinds, Same, Fields
<1>5. Follows(q, r)
  BY <1>1, Frame DEF Follows, Same, Fields
<1>6. Begun(r) => Begun(q)
  BY DEF Begun, IsHLS
<1>7. Keeps(q, r)
  BY <1>1, <1>6, KeepsFrame DEF Fields
<1>. QED BY <1>1, <1>2, <1>3, <1>4, <1>5, <1>7 DEF Good, Same

\* requestNativePlay is for a native element.
LEMMA NativePlayGood ==
    ASSUME NEW q, NEW ss, Good(q, ss), NEW r, r = NativePlay(q)
    PROVE  /\ Same(q, r, Fields \ {"nativePlay", "paused"})
           /\ Good(r, ss) /\ Follows(q, r) /\ Keeps(q, r)
<1>1. CASE r = q
  BY <1>1, FollowsTransitive, KeepsTransitive DEF Good, Same
<1>2. CASE r # q
  <2>1. q.driver = "hls-native" /\ r = [q EXCEPT !.nativePlay = TRUE, !.paused = FALSE]
    BY <1>2 DEF NativePlay
  <2>2. Same(q, r, Fields \ {"nativePlay", "paused"}) /\ r.nativePlay = TRUE /\ r.paused = FALSE
    BY <2>1 DEF Good, Same, IsTab, Fields
  <2>3. FlagsTyped(r)
    BY <2>2 DEF Good, Typed, FlagsTyped, Same, Fields
  <2>4. Typed(r, ss)
    BY <2>2, <2>3, FrameTyped DEF Good, Typed, Fields
  <2>5. Live(r) /\ Matches(r)
    BY <2>2, Frame DEF Good, Fields
  <2>6. Kinds(r)
    BY <2>1, <2>2 DEF Good, Kinds, Same, Fields
  <2>7. Begun(r) => Begun(q)
    BY <2>2, Frame DEF Fields
  <2>8. Keeps(q, r)
    BY <2>2, <2>7, KeepsFrame DEF Fields
  <2>9. Follows(q, r)
    BY <2>2, Frame DEF Follows, Same, Fields
  <2>. QED BY <2>2, <2>4, <2>5, <2>6, <2>8, <2>9 DEF Good, Same
<1>. QED BY <1>1, <1>2

\* A session that the server made or found.
Found(ss) == [id : Ids(ss), list : Nat, n : Items, start : Positions]

\* attachSession: the session of the tab is let go of, and the new one is the
\* session of the queue.
LEMMA AttachGood ==
    ASSUME NEW q, NEW ss, Good(q, ss), q.request = None,
           NEW found \in Found(ss), found.n <= ss[found.id].n, found.id \notin q.released,
           NEW r, r = Attach(q, found)
    PROVE  /\ Good(r, ss) /\ Follows(q, r)
           /\ Own(r) /\ Shown(r)
<1>1. PICK to : to = IF q.storeSession = found.id THEN q.time ELSE found.start
  OBVIOUS
<1>2. PICK c : c = ClearRecovery(q)
  OBVIOUS
<1>3. /\ Same(q, c, Fields \ {"timer", "waiting", "attempts"})
      /\ Good(c, ss) /\ Follows(q, c)
  BY <1>2, ClearRecoveryGood
<1>4. PICK d : d = DestroyHLS(c)
  OBVIOUS
<1>5. /\ Same(c, d, Fields \ {"hls", "waiters", "paused", "source", "phase", "position"})
      /\ Good(d, ss) /\ Follows(c, d)
  BY <1>3, <1>4, DestroyHLSGood
<1>6. /\ d.session = q.session /\ d.released = q.released /\ d.context = q.context
      /\ d.request = q.request
  BY <1>3, <1>5 DEF Same, Fields
<1>7. PICK s : s = [id |-> found.id, list |-> found.list, n |-> found.n]
  OBVIOUS
<1>8. PICK old : old = IF q.session # None /\ q.session.id # found.id
                       THEN {q.session.id} ELSE {}
  OBVIOUS
<1>9. /\ found.id \in Ids(ss) /\ found.list \in Nat /\ found.n \in Items
      /\ found.start \in Positions
  BY DEF Found
<1>10. /\ s.id = found.id /\ s.list = found.list /\ s.n = found.n
       /\ s \in SessionRef /\ s # None
  <2>1. s.id = found.id /\ s.list = found.list /\ s.n = found.n
    BY <1>7
  <2>2. found.id \in Nat
    BY <1>9 DEF Ids
  <2>3. s \in SessionRef
    BY <1>7, <1>9, <2>2 DEF SessionRef
  <2>4. s \in [id : Nat, list : Nat, n : Nat]
    BY <1>7, <1>9, <2>2, Numbers
  <2>. QED BY <2>1, <2>3, <2>4, DriverConstants
<1>11. PICK clean :
           clean = [d EXCEPT
                      !.nativePlay = FALSE, !.ready = FALSE, !.assigned = None,
                      !.recovery = FALSE, !.attachedTo = q.context, !.session = s,
                      !.released = IF q.session # None /\ q.session.id # found.id
                                  THEN @ \cup {q.session.id} ELSE @]
  OBVIOUS
<1>12. /\ Same(d, clean, Fields \ {"nativePlay", "ready", "assigned", "recovery",
                                   "attachedTo", "session", "released"})
       /\ clean.nativePlay = FALSE /\ clean.ready = FALSE /\ clean.recovery = FALSE
       /\ clean.attachedTo = q.context /\ clean.session = s
       /\ clean.released = d.released \cup old
  BY <1>5, <1>8, <1>11 DEF Good, Same, IsTab, Fields
<1>13. old \subseteq Ids(ss) /\ found.id \notin old
  BY <1>8 DEF Good, Typed, SessionTyped
<1>14. Typed(clean, ss)
  <2>1. SessionTyped(clean, ss)
    BY <1>9, <1>10, <1>12 DEF SessionTyped, Maybe
  <2>2. q.context \in Nat /\ clean.context = q.context
    BY <1>6, <1>12 DEF Good, Typed, ContextTyped, Same, Fields
  <2>3. ContextTyped(clean)
    BY <1>12, <2>2 DEF ContextTyped, Maybe
  <2>4. StoreTyped(clean, ss)
    BY <1>5, <1>12, <1>13 DEF Good, Typed, StoreTyped, Same, Fields
  <2>5. FlagsTyped(clean)
    BY <1>5, <1>12 DEF Good, Typed, FlagsTyped, Same, Fields
  <2>. QED
    BY <1>5, <1>12, <2>1, <2>3, <2>4, <2>5, FrameTyped DEF Good, Typed, Fields
<1>15. Kinds(clean)
  BY <1>5, <1>12 DEF Good, Kinds, Same, Fields
<1>16. clean.session # None /\ clean.session.id \notin clean.released
  BY <1>6, <1>10, <1>12, <1>13
<1>17. Follows(q, clean)
  <2>1. clean.playing = q.playing
    BY <1>3, <1>5, <1>12 DEF Same, Fields
  <2>2. LetsGo(q, clean)
    BY <1>6, <1>8, <1>10, <1>12 DEF LetsGo
  <2>. QED BY <2>1, <2>2 DEF Follows
<1>18. to \in Positions
  BY <1>1, <1>9 DEF Good, Typed, PlaceTyped
<1>19. PICK shown : shown = ShowItems(clean, q.context, to)
  OBVIOUS
<1>20. /\ Same(clean, shown, Fields \ TimelineFields)
       /\ Good(shown, ss) /\ Shown(shown) /\ Follows(clean, shown)
  BY <1>12, <1>14, <1>15, <1>16, <1>18, <1>19, ShowItemsGood DEF Same
<1>21. Own(shown) /\ shown.platform = q.platform
  <2>1. /\ shown.session = clean.session /\ shown.attachedTo = clean.attachedTo
        /\ shown.context = clean.context
        /\ shown.platform = clean.platform
    BY <1>20 DEF Same, Fields, TimelineFields
  <2>2. clean.context = q.context /\ clean.platform = q.platform
    BY <1>3, <1>5, <1>12 DEF Same, Fields
  <2>. QED BY <1>12, <1>16, <2>1, <2>2 DEF Own
<1>22. CASE q.platform = "native"
  <2>1. PICK n : n = [shown EXCEPT !.driver = "hls-native"]
    OBVIOUS
  <2>2. r = LoadNatively(n, to)
    BY <1>1, <1>2, <1>4, <1>7, <1>11, <1>19, <1>22, <2>1, Zenon DEF Attach
  <2>3. Same(shown, n, Fields \ {"driver"}) /\ n.driver = "hls-native"
    BY <1>20, <2>1 DEF Good, Same, IsTab, Fields
  <2>4. Good(n, ss)
    <3>1. KindTyped(n)
      BY <1>20, <2>3 DEF Good, Typed, KindTyped, Same, Fields, Drivers
    <3>2. Typed(n, ss)
      BY <1>20, <2>3, <3>1, FrameTyped DEF Good, Typed, Fields
    <3>3. Live(n)
      BY <1>20, <1>21, <2>3 DEF Good, Live, Own, Same, Fields, IsHLS
    <3>4. Matches(n)
      BY <1>20, <2>3, Frame DEF Good, Fields
    <3>5. Kinds(n)
      BY <1>20, <1>21, <1>22, <2>3 DEF Good, Kinds, Same, Fields
    <3>. QED BY <2>3, <3>2, <3>3, <3>4, <3>5 DEF Good, Same
  <2>5. Own(n) /\ Shown(n)
    BY <1>20, <1>21, <2>3, Frame DEF Fields
  <2>6. Follows(shown, n)
    BY <2>3, Frame DEF Follows, Same, Fields
  <2>7. /\ Same(n, r, Fields \ {"paused", "source", "phase", "position", "waiters"})
        /\ Good(r, ss) /\ Follows(n, r)
    BY <1>18, <2>2, <2>3, <2>4, LoadNativelyGood
  <2>8. Own(r) /\ Shown(r)
    BY <2>5, <2>7, Frame DEF Fields
  <2>. QED BY <1>17, <1>20, <2>6, <2>7, <2>8, FollowsTransitive
<1>23. CASE q.platform # "native"
  <2>1. r = [shown EXCEPT !.module = [id |-> found.id, to |-> to]]
    BY <1>1, <1>2, <1>4, <1>7, <1>11, <1>19, <1>23, Zenon DEF Attach
  <2>2. Same(shown, r, Fields \ {"module"}) /\ r.module = [id |-> found.id, to |-> to]
    BY <1>20, <2>1 DEF Good, Same, IsTab, Fields
  <2>3. MediaTyped(r, ss)
    BY <1>9, <1>18, <1>20, <2>2 DEF Good, Typed, MediaTyped, Same, Fields, Maybe
  <2>4. Typed(r, ss)
    BY <1>20, <2>2, <2>3, FrameTyped DEF Good, Typed, Fields
  <2>5. Live(r) /\ Matches(r) /\ Own(r) /\ Shown(r)
    BY <1>20, <1>21, <2>2, Frame DEF Good, Fields
  <2>6. Kinds(r)
    BY <1>20, <1>21, <1>23, <2>2 DEF Good, Kinds, Same, Fields
  <2>7. Follows(shown, r)
    BY <2>2, Frame DEF Follows, Same, Fields
  <2>. QED
    BY <1>17, <1>20, <2>2, <2>4, <2>5, <2>6, <2>7, FollowsTransitive DEF Good, Same
<1>. QED BY <1>22, <1>23

\* handleCanPlay
LEMMA CanPlayGood ==
    ASSUME NEW q, NEW ss, Good(q, ss), q.phase = "ok", NEW r, r = CanPlay(q)
    PROVE  /\ Good(r, ss) /\ Follows(q, r) /\ Keeps(q, r)
           /\ r.phase = "ok" \/ r.session = None
<1>1. CASE r = q
  BY <1>1, FollowsTransitive, KeepsTransitive DEF Good, Same
<1>2. CASE r = ScheduleRecovery(q)
  <2>1. /\ Same(q, r, Fields \ RecoveryFields) \/ r.session = None
        /\ Good(r, ss) /\ Follows(q, r) /\ Keeps(q, r)
    BY <1>2, ScheduleRecoveryGood
  <2>. QED BY <2>1 DEF Same, Fields, RecoveryFields, TimelineFields
<1>3. CASE r = SyncAt(Ready(q), q.context, q.position)
  <2>1. PICK p : p = Ready(q)
    OBVIOUS
  <2>2. /\ Same(q, p, Fields \ {"timer", "waiting", "attempts", "recovery", "ready"})
        /\ Good(p, ss) /\ Follows(q, p) /\ Keeps(q, p)
    BY <2>1, ReadyGood
  <2>3. q.position \in Positions
    BY DEF Good, Typed, PlaceTyped
  <2>4. /\ Same(p, r, Fields \ TimelineFields)
        /\ Good(r, ss) /\ Follows(p, r) /\ Keeps(p, r)
    BY <1>3, <2>1, <2>2, <2>3, SyncAtGood
  <2>5. r.phase = "ok"
    BY <2>2, <2>4 DEF Same, Fields, TimelineFields
  <2>. QED BY <2>2, <2>4, <2>5, FollowsTransitive, KeepsTransitive
<1>. QED BY <1>1, <1>2, <1>3 DEF CanPlay

\* What the invariant says more of than its type.
Core == {"playing", "driver", "ready", "phase", "source", "hls", "module", "nativePlay",
         "platform", "session", "attachedTo", "context", "request", "queue", "current",
         "seen", "storeSession", "time", "released"}

\* A step that changes nothing else needs only the type.
LEMMA CoreFrame ==
    ASSUME NEW q, NEW r, NEW S, NEW ss, Same(q, r, S), Core \subseteq S, Good(q, ss),
           Typed(r, ss)
    PROVE  Good(r, ss) /\ Follows(q, r) /\ Keeps(q, r)
<1>1. Live(r) /\ Matches(r) /\ Kinds(r) /\ LetsGo(q, r) /\ (Begun(r) => Begun(q))
  BY Frame DEF Good, Core
<1>2. Keeps(q, r)
  BY <1>1, KeepsFrame DEF Core
<1>3. r.playing = q.playing
  BY DEF Same, Core
<1>. QED BY <1>1, <1>2, <1>3 DEF Good, Follows, Same

\* The position may be set to any item of the session.
LEMMA SeekGood ==
    ASSUME NEW q, NEW ss, Good(q, ss), NEW to \in Positions,
           NEW context, NEW r, r = SyncAt([q EXCEPT !.position = to], context, to)
    PROVE  Good(r, ss) /\ Follows(q, r) /\ Keeps(q, r)
<1>1. PICK p : p = [q EXCEPT !.position = to]
  OBVIOUS
<1>2. Same(q, p, Fields \ {"position"}) /\ p.position = to
  BY <1>1 DEF Good, Same, IsTab, Fields
<1>3. PlaceTyped(p)
  BY <1>2 DEF Good, Typed, PlaceTyped, Same, Fields
<1>4. Typed(p, ss)
  BY <1>2, <1>3, FrameTyped DEF Good, Typed, Fields
<1>5. Good(p, ss) /\ Follows(q, p) /\ Keeps(q, p)
  BY <1>2, <1>4, CoreFrame DEF Fields, Core
<1>6. Good(r, ss) /\ Follows(p, r) /\ Keeps(p, r)
  BY <1>1, <1>5, SyncAtGood
<1>. QED BY <1>5, <1>6, FollowsTransitive, KeepsTransitive

\* The seek of nextTrack.
LEMMA SeekNextGood ==
    ASSUME NEW q, NEW ss, Good(q, ss), NEW n \in Items, NEW context,
           NEW r, r = SeekNext(q, n, context)
    PROVE  Good(r, ss) /\ Follows(q, r) /\ Keeps(q, r)
<1>1. PICK order : order = Boundary(n, q.position)
  OBVIOUS
<1>2. CASE order >= n
  <2>1. r = q
    BY <1>1, <1>2 DEF SeekNext
  <2>. QED BY <2>1, FollowsTransitive, KeepsTransitive
<1>3. CASE ~(order >= n)
  <2>1. r = SyncAt([q EXCEPT !.position = order], context, order)
    BY <1>1, <1>3 DEF SeekNext
  <2>2. q.position \in Nat /\ n \in Nat \ {0}
    BY Numbers DEF Good, Typed, PlaceTyped
  <2>3. order \in 1..n
    BY <1>1, <2>2, BoundaryIsItem
  <2>4. order \in Positions
    BY <1>3, <2>2, <2>3, Numbers DEF Items, Positions
  <2>. QED BY <2>1, <2>4, SeekGood
<1>. QED BY <1>2, <1>3

\* nextTrack goes on after a refresh.
LEMMA ResumeNextGood ==
    ASSUME NEW q, NEW ss, Good(q, ss), NEW id, NEW r, r = ResumeNext(q, id)
    PROVE  Good(r, ss) /\ Follows(q, r) /\ Keeps(q, r)
<1>1. CASE r = q
  BY <1>1, FollowsTransitive, KeepsTransitive
<1>2. CASE q.next # None /\ r # q
  <2>1. PICK p : p = [q EXCEPT !.next = None]
    OBVIOUS
  <2>2. PICK n : n = IF q.session # None /\ q.session.id = id THEN q.session.n ELSE q.next.n
    OBVIOUS
  <2>3. r = SeekNext(p, n, q.next.context)
    BY <1>2, <2>1, <2>2 DEF ResumeNext
  <2>4. Same(q, p, Fields \ {"next"}) /\ p.next = None
    BY <2>1 DEF Good, Same, IsTab, Fields
  <2>5. RefreshTyped(p, ss)
    BY <2>4 DEF Good, Typed, RefreshTyped, Same, Fields, Maybe
  <2>6. Typed(p, ss)
    BY <2>4, <2>5, FrameTyped DEF Good, Typed, Fields
  <2>7. Good(p, ss) /\ Follows(q, p) /\ Keeps(q, p)
    BY <2>4, <2>6, CoreFrame DEF Fields, Core
  <2>8. n \in Items
    <3>1. q.next.n \in Items
      BY <1>2 DEF Good, Typed, RefreshTyped, Maybe
    <3>2. q.session # None => q.session.n \in Items
      BY DEF Good, Typed, SessionTyped, SessionRef, Maybe
    <3>. QED BY <2>2, <3>1, <3>2
  <2>9. Good(r, ss) /\ Follows(p, r) /\ Keeps(p, r)
    BY <2>3, <2>7, <2>8, SeekNextGood
  <2>. QED BY <2>7, <2>9, FollowsTransitive, KeepsTransitive
<1>. QED BY <1>1, <1>2 DEF ResumeNext

-----------------------------------------------------------------------------
(* The effects. *)

\* The effect that starts a session settles a tab that holds.
LEMMA StartEffectGood ==
    ASSUME NEW q, NEW ss, Good(q, ss), NEW r, r = StartEffect(q)
    PROVE  Good(r, ss) /\ Follows(q, r) /\ (Held(q) => Settled(r))
<1>1. CASE q.current = 0
  <2>1. PICK f : f = FallBack(q)
    OBVIOUS
  <2>2. f.session = None /\ Good(f, ss) /\ Follows(q, f)
    BY <2>1, FallBackGood
  <2>3. r = [f EXCEPT !.request = None]
    BY <1>1, <2>1 DEF StartEffect
  <2>4. Same(f, r, Fields \ {"request"}) /\ r.request = None
    BY <2>2, <2>3 DEF Good, Same, IsTab, Fields
  <2>5. RequestTyped(r, ss)
    BY <2>4 DEF RequestTyped, Maybe
  <2>6. Typed(r, ss)
    BY <2>2, <2>4, <2>5, FrameTyped DEF Good, Typed, Fields
  <2>7. Live(r) /\ Matches(r) /\ Kinds(r)
    BY <2>2, <2>4, Frame DEF Good, Fields
  <2>8. Follows(f, r)
    BY <2>4, Frame DEF Follows, Same, Fields
  <2>9. Settled(r)
    BY <2>2, <2>4 DEF Settled, Same, Fields
  <2>. QED BY <2>2, <2>4, <2>6, <2>7, <2>8, <2>9, FollowsTransitive DEF Good, Same
<1>2. CASE r = [q EXCEPT !.request = None] /\ Own(q)
  <2>1. Same(q, r, Fields \ {"request"}) /\ r.request = None
    BY <1>2 DEF Good, Same, IsTab, Fields
  <2>2. RequestTyped(r, ss)
    BY <2>1 DEF RequestTyped, Maybe
  <2>3. Typed(r, ss)
    BY <2>1, <2>2, FrameTyped DEF Good, Typed, Fields
  <2>4. Live(r) /\ Matches(r) /\ Kinds(r)
    BY <2>1, Frame DEF Good, Fields
  <2>5. Follows(q, r)
    BY <2>1, Frame DEF Follows, Same, Fields
  <2>6. Own(r) /\ (Begun(r) => Begun(q)) /\ (Shown(q) => Shown(r))
    BY <1>2, <2>1, Frame DEF Fields
  <2>7. Held(q) => Settled(r)
    BY <1>2, <2>6 DEF Held, Settled
  <2>. QED BY <2>1, <2>3, <2>4, <2>5, <2>7 DEF Good, Same
<1>3. CASE /\ q.current # 0
           /\ \E get, asked :
                  /\ get = IF q.storeContext = q.context THEN q.storeSession ELSE None
                  /\ asked = [get |-> get, list |-> q.queue.list, n |-> q.queue.n,
                              start |-> q.current - 1]
                  /\ r = [q EXCEPT !.driver = "preparing", !.request = asked]
  <2>1. PICK get, asked :
            /\ get = IF q.storeContext = q.context THEN q.storeSession ELSE None
            /\ asked = [get |-> get, list |-> q.queue.list, n |-> q.queue.n,
                        start |-> q.current - 1]
            /\ r = [q EXCEPT !.driver = "preparing", !.request = asked]
    BY <1>3
  <2>2. /\ Same(q, r, Fields \ {"driver", "request"})
        /\ r.driver = "preparing" /\ r.request = asked
    BY <2>1 DEF Good, Same, IsTab, Fields
  <2>3. PICK n, current : n = q.queue.n /\ current = q.current
    OBVIOUS
  <2>4. n \in 0..MaxItems /\ current \in 0..n /\ q.queue.list \in Nat
    BY <2>3 DEF Good, Typed, QueueTyped
  <2>5. n \in Items /\ current - 1 \in Positions /\ current - 1 < n
    BY <1>3, <2>3, <2>4, Numbers DEF Items, Positions
  <2>6. get \in Maybe(Ids(ss))
    BY <2>1 DEF Good, Typed, StoreTyped, Maybe
  <2>7. asked \in Requests(ss) /\ asked.start < asked.n
    BY <2>1, <2>3, <2>4, <2>5, <2>6 DEF Requests
  <2>8. asked # None
    <3>1. get \in Nat \cup {None}
      BY <2>6 DEF Maybe, Ids
    <3>2. asked \in [get : Nat \cup {None}, list : Nat, n : Nat, start : Nat]
      BY <2>1, <2>3, <2>4, <2>5, <3>1, Numbers
    <3>. QED BY <3>2, DriverConstants
  <2>9. RequestTyped(r, ss)
    BY <2>2, <2>7 DEF RequestTyped, Maybe
  <2>10. KindTyped(r)
    BY <2>2 DEF Good, Typed, KindTyped, Same, Fields, Drivers
  <2>11. Typed(r, ss)
    BY <2>2, <2>9, <2>10, FrameTyped DEF Good, Typed, Fields
  <2>12. Live(r)
    BY <2>2 DEF Good, Live, Same, Fields, IsHLS
  <2>13. Matches(r)
    BY <2>2, Frame DEF Good, Fields
  <2>14. Kinds(r)
    BY <2>2 DEF Good, Kinds, Same, Fields
  <2>15. Follows(q, r)
    BY <2>2, Frame DEF Follows, Same, Fields
  <2>16. Settled(r)
    BY <2>2, <2>8 DEF Settled
  <2>. QED BY <2>2, <2>11, <2>12, <2>13, <2>14, <2>15, <2>16 DEF Good, Same
<1>. QED BY <1>1, <1>2, <1>3, Zenon DEF StartEffect, Own

\* A stream is assigned only while no session plays.
LEMMA SourceEffectGood ==
    ASSUME NEW q, NEW ss, Good(q, ss), NEW r, r = SourceEffect(q)
    PROVE  Good(r, ss) /\ Follows(q, r) /\ Keeps(q, r)
<1>1. CASE r = q
  BY <1>1, FollowsTransitive, KeepsTransitive
<1>2. CASE r = Pause(q)
  <2>1. Same(q, r, Fields \ {"paused"}) /\ Good(r, ss) /\ Follows(q, r)
    BY <1>2, PauseGood
  <2>. QED BY <2>1, CoreFrame DEF Good, Fields, Core
<1>3. CASE /\ ~IsHLS(q)
           /\ r = [Pause(q) EXCEPT !.assigned = QueueId(q), !.source = "stream",
                                   !.phase = "loading", !.position = 0]
  <2>1. PICK id : id = QueueId(q)
    OBVIOUS
  <2>2. /\ Same(q, r, Fields \ {"paused", "assigned", "source", "phase", "position"})
        /\ r.paused = TRUE /\ r.source = "stream" /\ r.phase = "loading" /\ r.position = 0
    BY <1>3, <2>1 DEF Pause, Good, Same, IsTab, Fields
  <2>3. FlagsTyped(r)
    BY ZenonT(30), <2>2 DEF Good, Typed, FlagsTyped, Same, Fields
  <2>4. MediaTyped(r, ss)
    BY <2>2 DEF Good, Typed, MediaTyped, Same, Fields
  <2>5. PlaceTyped(r)
    BY <2>2, Numbers DEF Good, Typed, PlaceTyped, Same, Fields
  <2>6. Typed(r, ss)
    BY <2>2, <2>3, <2>4, <2>5, FrameTyped DEF Good, Typed, Fields
  <2>7. Live(r) /\ Matches(r) /\ ~IsHLS(r)
    BY <1>3, <2>2, Frame DEF Good, Fields
  <2>8. Kinds(r)
    BY <2>2, <2>7 DEF Good, Kinds, Same, Fields, IsHLS
  <2>9. Follows(q, r)
    BY <2>2, Frame DEF Follows, Same, Fields
  <2>10. Keeps(q, r)
    BY <2>2, <2>7, KeepsFrame DEF Begun, Fields
  <2>. QED BY <2>2, <2>6, <2>7, <2>8, <2>9, <2>10 DEF Good, Same
<1>. QED BY <1>1, <1>2, <1>3 DEF SourceEffect

\* Player plays and pauses, or asks for a recovery.
LEMMA PlayEffectGood ==
    ASSUME NEW q, NEW ss, Good(q, ss), NEW r, r = PlayEffect(q)
    PROVE  Good(r, ss) /\ Follows(q, r) /\ Keeps(q, r)
<1>1. CASE r = q
  BY <1>1, FollowsTransitive, KeepsTransitive
<1>2. CASE r = [q EXCEPT !.paused = ~q.playing]
  <2>1. Same(q, r, Fields \ {"paused"}) /\ r.paused = ~q.playing
    BY <1>2 DEF Good, Same, IsTab, Fields
  <2>2. r.paused \in BOOLEAN
    BY <2>1
  <2>3. FlagsTyped(r)
    BY <2>1, <2>2 DEF Good, Typed, FlagsTyped, Same, Fields
  <2>4. Typed(r, ss)
    BY <2>1, <2>3, FrameTyped DEF Good, Typed, Fields
  <2>. QED BY <2>1, <2>4, CoreFrame DEF Fields, Core
<1>3. CASE r = ScheduleRecovery(q)
  BY <1>3, ScheduleRecoveryGood
<1>4. CASE r = NativePlay(q)
  BY <1>4, NativePlayGood
<1>. QED BY <1>1, <1>2, <1>3, <1>4 DEF PlayEffect

\* A handler, and the effects that follow it, lead to a good and settled tab.
LEMMA Effects ==
    ASSUME NEW h, NEW ss, Good(h, ss), Handled(tab, h), Becomes(h)
    PROVE  Good(tab', ss) /\ Settled(tab') /\ Follows(h, tab')
<1>1. PICK started :
          started = IF QueueId(h) # QueueId(tab) \/ h.context # tab.context
                    THEN StartEffect([h EXCEPT !.resolved = FALSE]) ELSE h
  OBVIOUS
<1>2. PICK cleared : cleared = IF tab.playing /\ ~started.playing
                               THEN ClearRecovery(started) ELSE started
  OBVIOUS
<1>3. PICK sourced : sourced = IF SourceDependencies(cleared) # SourceDependencies(tab)
                               THEN SourceEffect(cleared) ELSE cleared
  OBVIOUS
<1>4. tab' = IF PlayDependencies(sourced) # PlayDependencies(tab)
             THEN PlayEffect(sourced) ELSE sourced
  BY <1>1, <1>2, <1>3, Zenon DEF Becomes
<1>5. Good(started, ss) /\ Settled(started) /\ Follows(h, started)
  <2>1. CASE Changed(tab, h)
    <3>1. PICK p : p = [h EXCEPT !.resolved = FALSE]
      OBVIOUS
    <3>2. started = StartEffect(p)
      BY <1>1, <2>1, <3>1 DEF Changed
    <3>3. Same(h, p, Fields \ {"resolved"}) /\ p.resolved = FALSE
      BY <3>1 DEF Good, Same, IsTab, Fields
    <3>4. FlagsTyped(p)
      BY <3>3 DEF Good, Typed, FlagsTyped, Same, Fields
    <3>5. Typed(p, ss)
      BY <3>3, <3>4, FrameTyped DEF Good, Typed, Fields
    <3>6. Good(p, ss) /\ Follows(h, p) /\ Keeps(h, p)
      BY <3>3, <3>5, CoreFrame DEF Fields, Core
    <3>7. Held(p)
      BY <2>1, <3>6 DEF Handled, Keeps
    <3>. QED BY <3>2, <3>6, <3>7, StartEffectGood, FollowsTransitive
  <2>2. CASE ~Changed(tab, h)
    <3>1. started = h
      BY <1>1, <2>2 DEF Changed
    <3>. QED BY <2>2, <3>1, FollowsTransitive DEF Handled
  <2>. QED BY <2>1, <2>2
<1>6. Good(cleared, ss) /\ Settled(cleared) /\ Follows(started, cleared)
  <2>1. CASE cleared = started
    BY <1>5, <2>1, FollowsTransitive
  <2>2. CASE cleared = ClearRecovery(started)
    <3>1. /\ Same(started, cleared, Fields \ {"timer", "waiting", "attempts"})
          /\ Good(cleared, ss) /\ Follows(started, cleared)
      BY <1>5, <2>2, ClearRecoveryGood
    <3>2. Typed(cleared, ss)
      BY <3>1 DEF Good
    <3>3. Keeps(started, cleared)
      BY <1>5, <3>1, <3>2, CoreFrame DEF Fields, Core
    <3>. QED BY <1>5, <3>1, <3>3 DEF Keeps
  <2>. QED BY <1>2, <2>1, <2>2
<1>7. Good(sourced, ss) /\ Settled(sourced) /\ Follows(cleared, sourced)
  BY <1>3, <1>6, SourceEffectGood, FollowsTransitive DEF Keeps
<1>8. Good(tab', ss) /\ Settled(tab') /\ Follows(sourced, tab')
  BY <1>4, <1>7, PlayEffectGood, FollowsTransitive DEF Keeps
<1>. QED BY <1>5, <1>6, <1>7, <1>8, FollowsTransitive

-----------------------------------------------------------------------------
(* The actions.  Each keeps the invariant, and lets no session go undeleted. *)

\* A handler that keeps the invariant, with the effects after it.
LEMMA DoGood ==
    ASSUME DriverInv, NEW h, Good(h, sessions), Keeps(tab, h), Do(h)
    PROVE  DriverInv' /\ Follows(h, tab')
<1>1. Handled(tab, h)
  BY KeepsTransitive DEF DriverInv
<1>2. Good(tab', sessions) /\ Settled(tab') /\ Follows(h, tab')
  BY <1>1, Effects DEF Do
<1>3. sessions' = sessions
  BY DEF Do
<1>. QED BY <1>2, <1>3 DEF DriverInv, SessionsTyped

\* The same for a handler that starts no playback.
LEMMA DoFollows ==
    ASSUME DriverInv, NEW h, Good(h, sessions), Keeps(tab, h), Follows(tab, h), Do(h)
    PROVE  DriverInv' /\ Follows(tab, tab')
  BY DoGood, FollowsTransitive

\* A promise that is settled and a player that stops change nothing else of the
\* invariant.
LEMMA LowerFrame ==
    ASSUME NEW q, NEW r, NEW S, NEW ss, Same(q, r, S), Core \ {"playing", "nativePlay"} \subseteq S,
           Good(q, ss), Typed(r, ss), r.nativePlay => q.nativePlay
    PROVE  /\ Good(r, ss) /\ LetsGo(q, r) /\ Keeps(q, r)
           /\ (r.playing => q.playing) => Follows(q, r)
<1>1. Live(r) /\ Matches(r) /\ LetsGo(q, r) /\ (Begun(r) => Begun(q))
  BY Frame DEF Good, Core
<1>2. Kinds(r)
  BY DEF Good, Kinds, Same, Core
<1>3. Keeps(q, r)
  BY <1>1, KeepsFrame DEF Core
<1>. QED BY <1>1, <1>2, <1>3 DEF Good, Follows, Same

\* togglePlayback
LEMMA TogglePlaybackStep ==
    ASSUME DriverInv, TogglePlayback
    PROVE  DriverInv' /\ LetsGo(tab, tab')
<1>1. PICK p : p = [tab EXCEPT !.playing = ~@]
  OBVIOUS
<1>2. PICK h : h = IF p.playing /\ ~tab.recovery THEN NativePlay(p) ELSE p
  OBVIOUS
<1>3. Do(h)
  BY <1>1, <1>2 DEF TogglePlayback
<1>4. Good(tab, sessions)
  BY DEF DriverInv
<1>5. Same(tab, p, Fields \ {"playing"}) /\ p.playing = ~tab.playing
  BY <1>1, <1>4 DEF Good, Same, IsTab, Fields
<1>6. p.playing \in BOOLEAN
  BY <1>5
<1>7. FlagsTyped(p)
  BY <1>4, <1>5, <1>6 DEF Good, Typed, FlagsTyped, Same, Fields
<1>8. Typed(p, sessions)
  BY <1>4, <1>5, <1>7, FrameTyped DEF Good, Typed, Fields
<1>9. p.nativePlay = tab.nativePlay
  BY <1>5 DEF Same, Fields
<1>10. Good(p, sessions) /\ LetsGo(tab, p) /\ Keeps(tab, p)
  BY <1>4, <1>5, <1>8, <1>9, LowerFrame DEF Fields, Core
<1>11. Good(h, sessions) /\ LetsGo(p, h) /\ Keeps(p, h)
  BY <1>2, <1>10, NativePlayGood, FollowsTransitive, KeepsTransitive DEF Follows
<1>12. DriverInv' /\ Follows(h, tab')
  BY <1>3, <1>10, <1>11, KeepsTransitive, DoGood
<1>. QED BY <1>10, <1>11, <1>12, FollowsTransitive DEF Follows

\* replaceQueue
LEMMA ChooseQueueStep ==
    ASSUME DriverInv, ChooseQueue
    PROVE  DriverInv' /\ LetsGo(tab, tab')
<1>1. PICK p : p = ClearStoreSession(tab)
  OBVIOUS
<1>2. PICK list : list = [kind |-> "list", list |-> tab.context + 1, n |-> FirstItems]
  OBVIOUS
<1>3. PICK k \in 1..FirstItems :
          Do([p EXCEPT !.context = @ + 1, !.current = k, !.playing = TRUE, !.queue = list])
  BY <1>1, <1>2 DEF ChooseQueue
<1>4. PICK h : h = [p EXCEPT !.context = @ + 1, !.current = k, !.playing = TRUE,
                             !.queue = list]
  OBVIOUS
<1>5. Good(tab, sessions)
  BY DEF DriverInv
<1>6. /\ Same(tab, p, Fields \ {"storeSession", "storeContext", "time"})
      /\ Good(p, sessions) /\ Follows(tab, p)
  BY <1>1, <1>5, ClearStoreSessionGood
<1>7. /\ Same(p, h, Fields \ {"context", "current", "playing", "queue"})
      /\ h.context = p.context + 1 /\ h.current = k /\ h.playing = TRUE /\ h.queue = list
  BY <1>4, <1>6 DEF Good, Same, IsTab, Fields
<1>8. p.context = tab.context /\ tab.context \in Nat
  BY <1>5, <1>6 DEF Good, Typed, ContextTyped, Same, Fields
<1>9. ~Own(h)
  <2>1. h.attachedTo = p.attachedTo
    BY <1>7 DEF Same, Fields
  <2>2. p.attachedTo # None => p.attachedTo \in Nat /\ p.attachedTo <= p.context
    BY <1>6 DEF Good, Typed, ContextTyped, Maybe
  <2>3. h.context # p.attachedTo
    <3>1. h.context \in Nat /\ h.context > p.context
      BY <1>7, <1>8
    <3>. QED BY <1>8, <2>2, <3>1, DriverConstants
  <2>. QED BY <2>1, <2>3 DEF Own
<1>10. Typed(h, sessions)
  <2>1. ContextTyped(h)
    <3>1. h.attachedTo = p.attachedTo
      BY <1>7 DEF Same, Fields
    <3>2. /\ p.attachedTo \in Maybe(Nat)
          /\ p.attachedTo # None => p.attachedTo \in Nat /\ p.attachedTo <= p.context
      BY <1>6 DEF Good, Typed, ContextTyped, Maybe
    <3>. QED BY <1>7, <1>8, <3>1, <3>2 DEF ContextTyped
  <2>2. QueueTyped(h)
    <3>1. FirstItems \in 0..MaxItems /\ k \in 0..FirstItems
      BY Numbers
    <3>2. list \in [kind : {"list", "playback"}, list : Nat, n : 0..MaxItems]
      BY <1>2, <1>8, <3>1
    <3>3. list.n = FirstItems
      BY <1>2
    <3>. QED BY <1>7, <3>1, <3>2, <3>3 DEF QueueTyped
  <2>3. FlagsTyped(h)
    BY <1>6, <1>7 DEF Good, Typed, FlagsTyped, Same, Fields
  <2>. QED BY <1>6, <1>7, <2>1, <2>2, <2>3, FrameTyped DEF Good, Typed, Fields
<1>11. Live(h) /\ Kinds(h) /\ LetsGo(p, h)
  BY <1>6, <1>7, Frame DEF Good, Fields
<1>12. Matches(h) /\ Held(h)
  BY <1>9 DEF Matches, Held
<1>13. Good(h, sessions)
  BY <1>7, <1>10, <1>11, <1>12 DEF Good, Same
<1>14. Handled(tab, h)
  <2>1. h.context # tab.context
    BY <1>7, <1>8
  <2>. QED BY <1>12, <2>1 DEF Handled, Changed
<1>15. Do(h)
  BY <1>3, <1>4
<1>16. Good(tab', sessions) /\ Settled(tab') /\ Follows(h, tab')
  BY <1>13, <1>14, <1>15, Effects DEF Do
<1>17. DriverInv'
  BY <1>15, <1>16 DEF Do, DriverInv, SessionsTyped
<1>18. LetsGo(tab, h)
  BY <1>6, <1>11, FollowsTransitive DEF Follows
<1>. QED BY <1>16, <1>17, <1>18, FollowsTransitive DEF Follows

\* next of the store
LEMMA ProgressiveNextStep ==
    ASSUME DriverInv, ProgressiveNext
    PROVE  DriverInv' /\ LetsGo(tab, tab')
<1>1. PICK h : h = [tab EXCEPT !.current = @ + 1, !.playing = TRUE]
  OBVIOUS
<1>2. Do(h) /\ ~IsHLS(tab) /\ tab.current < tab.queue.n
  BY <1>1 DEF ProgressiveNext
<1>3. Good(tab, sessions)
  BY DEF DriverInv
<1>4. /\ Same(tab, h, Fields \ {"current", "playing"})
      /\ h.current = tab.current + 1 /\ h.playing = TRUE
  BY <1>1, <1>3 DEF Good, Same, IsTab, Fields
<1>5. QueueTyped(h)
  <2>1. PICK n, c : n = tab.queue.n /\ c = tab.current
    OBVIOUS
  <2>2. n \in 0..MaxItems /\ c \in 0..n
    BY <1>3, <2>1 DEF Good, Typed, QueueTyped
  <2>3. c + 1 \in 0..n
    BY <1>2, <2>1, <2>2, Numbers
  <2>4. h.queue = tab.queue
    BY <1>4 DEF Same, Fields
  <2>. QED BY <1>3, <1>4, <2>1, <2>3, <2>4 DEF Good, Typed, QueueTyped
<1>6. FlagsTyped(h)
  BY <1>3, <1>4 DEF Good, Typed, FlagsTyped, Same, Fields
<1>7. Typed(h, sessions)
  BY <1>3, <1>4, <1>5, <1>6, FrameTyped DEF Good, Typed, Fields
<1>8. Live(h) /\ Matches(h) /\ Kinds(h) /\ LetsGo(tab, h) /\ ~Begun(h)
  BY <1>2, <1>3, <1>4, Frame DEF Good, Fields, Begun
<1>9. Good(h, sessions)
  BY <1>4, <1>7, <1>8 DEF Good, Same
<1>10. Keeps(tab, h)
  <2>1. /\ h.session = tab.session /\ h.request = tab.request
        /\ h.attachedTo = tab.attachedTo /\ h.context = tab.context
    BY <1>4 DEF Same, Fields
  <2>. QED BY <1>8, <2>1 DEF Keeps, Held, Settled, Own
<1>. QED BY <1>2, <1>8, <1>9, <1>10, DoGood, FollowsTransitive DEF Follows

\* nextTrack
LEMMA NextTrackStep ==
    ASSUME DriverInv, NextTrack
    PROVE  DriverInv' /\ Follows(tab, tab')
<1>1. Good(tab, sessions) /\ tab.session # None
  BY DEF DriverInv, NextTrack, Good, Live
<1>2. tab.session.n \in Items /\ tab.session.id \in Ids(sessions) /\ tab.context \in Nat
  BY <1>1 DEF Good, Typed, SessionTyped, SessionRef, Maybe, ContextTyped
<1>3. CASE Do(SeekNext(tab, tab.session.n, tab.context))
  <2>1. PICK h : h = SeekNext(tab, tab.session.n, tab.context)
    OBVIOUS
  <2>2. Good(h, sessions) /\ Follows(tab, h) /\ Keeps(tab, h)
    BY <1>1, <1>2, <2>1, SeekNextGood
  <2>. QED BY <1>3, <2>1, <2>2, DoFollows
<1>4. CASE Do([AskRefresh(tab) EXCEPT
                   !.next = [id |-> tab.session.id, n |-> tab.session.n,
                             context |-> tab.context]])
  <2>1. PICK p : p = AskRefresh(tab)
    OBVIOUS
  <2>2. PICK next : next = [id |-> tab.session.id, n |-> tab.session.n,
                            context |-> tab.context]
    OBVIOUS
  <2>3. PICK h : h = [p EXCEPT !.next = next]
    OBVIOUS
  <2>4. Same(tab, p, Fields \ {"refreshes"}) /\ Good(p, sessions)
    BY <1>1, <2>1, AskRefreshGood
  <2>5. Same(p, h, Fields \ {"next"}) /\ h.next = next
    BY <2>3, <2>4 DEF Good, Same, IsTab, Fields
  <2>6. RefreshTyped(h, sessions)
    BY <1>2, <2>2, <2>4, <2>5 DEF Good, Typed, RefreshTyped, Same, Fields, Maybe
  <2>7. Typed(h, sessions)
    BY <2>4, <2>5, <2>6, FrameTyped DEF Good, Typed, Fields
  <2>8. Same(tab, h, Fields \ {"refreshes", "next"})
    BY <2>4, <2>5 DEF Same, Fields
  <2>9. Good(h, sessions) /\ Follows(tab, h) /\ Keeps(tab, h)
    BY <1>1, <2>7, <2>8, CoreFrame DEF Fields, Core
  <2>. QED BY <1>4, <2>1, <2>2, <2>3, <2>9, DoFollows
<1>. QED BY <1>3, <1>4 DEF NextTrack

\* previousTrack
LEMMA PreviousTrackStep ==
    ASSUME DriverInv, PreviousTrack
    PROVE  DriverInv' /\ Follows(tab, tab')
<1>1. Good(tab, sessions) /\ tab.session # None
  BY DEF DriverInv, PreviousTrack, Good, Live
<1>2. PICK n, last : n = tab.session.n /\ last = Boundary(tab.session.n, tab.position)
  OBVIOUS
<1>3. PICK order \in {last - 1, last} \ {0} :
          Do(SyncAt([tab EXCEPT !.position = order - 1], tab.context, order - 1))
  BY <1>2 DEF PreviousTrack
<1>4. n \in Items /\ n \in Nat \ {0} /\ tab.position \in Nat
  BY <1>1, <1>2, Numbers DEF Good, Typed, SessionTyped, SessionRef, Maybe, PlaceTyped
<1>5. last \in 1..n
  BY <1>2, <1>4, BoundaryIsItem
<1>6. order \in 1..n
  BY <1>4, <1>5
<1>7. order - 1 \in Positions
  BY <1>4, <1>6, Numbers
<1>8. PICK h : h = SyncAt([tab EXCEPT !.position = order - 1], tab.context, order - 1)
  OBVIOUS
<1>9. Good(h, sessions) /\ Follows(tab, h) /\ Keeps(tab, h)
  BY <1>1, <1>7, <1>8, SeekGood
<1>. QED BY <1>3, <1>8, <1>9, DoFollows

\* An entry of a sequence is one of its values.
LEMMA Entry ==
    ASSUME NEW T, NEW s \in Seq(T), NEW i \in 1..Len(s)
    PROVE  s[i] \in T
  OBVIOUS

\* Sessions that are added to, and new ones, change nothing for the tab.
LEMMA Grown ==
    ASSUME NEW q, NEW ss, NEW tt, Good(q, ss),
           Len(ss) \in Nat, Len(tt) \in Nat, Len(ss) <= Len(tt),
           \A id \in Ids(ss) : ss[id].n \in Nat /\ tt[id].n \in Nat /\ ss[id].n <= tt[id].n
    PROVE  Good(q, tt)
<1>1. Ids(ss) \subseteq Ids(tt)
  BY DEF Ids
<1>2. SessionTyped(q, tt)
  <2>1. SessionTyped(q, ss)
    BY DEF Good, Typed
  <2>2. ASSUME q.session # None PROVE q.session.id \in Ids(tt) /\ q.session.n <= tt[q.session.id].n
    <3>1. q.session.id \in Ids(ss) /\ q.session.n <= ss[q.session.id].n /\ q.session.n \in Nat
      BY <2>1, <2>2, Numbers DEF SessionTyped, SessionRef, Maybe
    <3>2. PICK a, b, c : a = q.session.n /\ b = ss[q.session.id].n /\ c = tt[q.session.id].n
      OBVIOUS
    <3>3. a \in Nat /\ b \in Nat /\ c \in Nat /\ a <= b /\ b <= c
      BY <3>1, <3>2
    <3>4. a <= c
      BY <3>3
    <3>. QED BY <1>1, <3>1, <3>2, <3>4
  <2>. QED BY <2>1, <2>2 DEF SessionTyped
<1>3. RequestTyped(q, tt)
  <2>1. RequestTyped(q, ss)
    BY DEF Good, Typed
  <2>2. Requests(ss) \subseteq Requests(tt)
    BY <1>1 DEF Requests, Maybe
  <2>. QED BY <2>1, <2>2 DEF RequestTyped, Maybe
<1>4. RefreshTyped(q, tt)
  <2>1. RefreshTyped(q, ss)
    BY DEF Good, Typed
  <2>2. /\ [id : Ids(ss), context : Nat] \subseteq [id : Ids(tt), context : Nat]
        /\ [id : Ids(ss), n : Items, context : Nat]
               \subseteq [id : Ids(tt), n : Items, context : Nat]
    BY <1>1
  <2>. QED BY <2>1, <2>2 DEF RefreshTyped, Maybe
<1>5. TimerTyped(q, tt)
  <2>1. TimerTyped(q, ss)
    BY DEF Good, Typed
  <2>2. [id : Ids(ss), at : Positions] \subseteq [id : Ids(tt), at : Positions]
    BY <1>1
  <2>. QED BY <2>1, <2>2 DEF TimerTyped, Maybe
<1>6. MediaTyped(q, tt)
  <2>1. MediaTyped(q, ss)
    BY DEF Good, Typed
  <2>2. [id : Ids(ss), to : Positions] \subseteq [id : Ids(tt), to : Positions]
    BY <1>1
  <2>. QED BY <2>1, <2>2 DEF MediaTyped, Maybe
<1>7. StoreTyped(q, tt)
  BY <1>1 DEF Good, Typed, StoreTyped, Maybe
<1>. QED BY <1>2, <1>3, <1>4, <1>5, <1>6, <1>7 DEF Good, Typed

\* A request that is answered is over.
LEMMA AnsweredGood ==
    ASSUME NEW ss, Good(tab, ss)
    PROVE  /\ Same(tab, Answered, Fields \ {"request"}) /\ Answered.request = None
           /\ Good(Answered, ss) /\ Follows(tab, Answered)
<1>1. Same(tab, Answered, Fields \ {"request"}) /\ Answered.request = None
  BY DEF Answered, Good, Same, IsTab, Fields
<1>2. RequestTyped(Answered, ss)
  BY <1>1 DEF RequestTyped, Maybe
<1>3. Typed(Answered, ss)
  BY <1>1, <1>2, FrameTyped DEF Good, Typed, Fields
<1>4. Live(Answered) /\ Matches(Answered) /\ Kinds(Answered)
  BY <1>1, Frame DEF Good, Fields
<1>5. Follows(tab, Answered)
  BY <1>1, Frame DEF Follows, Same, Fields
<1>. QED BY <1>1, <1>3, <1>4, <1>5 DEF Good, Same

\* A session that is made, or found, is attached.
LEMMA AttachStep ==
    ASSUME DriverInv, NEW ss, Good(tab, ss), NEW found \in Found(ss),
           found.n <= ss[found.id].n, found.id \notin tab.released,
           Becomes(Attach(Answered, found))
    PROVE  Good(tab', ss) /\ Settled(tab') /\ Follows(tab, tab')
<1>1. /\ Answered.request = None /\ Good(Answered, ss) /\ Follows(tab, Answered)
      /\ Answered.released = tab.released
  BY AnsweredGood DEF Same, Fields
<1>2. PICK h : h = Attach(Answered, found)
  OBVIOUS
<1>3. Good(h, ss) /\ Follows(Answered, h) /\ Own(h) /\ Shown(h)
  BY <1>1, <1>2, AttachGood
<1>4. Handled(tab, h)
  BY <1>3 DEF Handled, Held, Settled
<1>5. Good(tab', ss) /\ Settled(tab') /\ Follows(h, tab')
  BY <1>2, <1>3, <1>4, Effects
<1>. QED BY <1>1, <1>3, <1>5, FollowsTransitive

\* createPlaybackSession
LEMMA SessionCreatedStep ==
    ASSUME DriverInv, SessionCreated
    PROVE  DriverInv' /\ Follows(tab, tab')
<1>1. Good(tab, sessions) /\ SessionsTyped
  BY DEF DriverInv
<1>2. PICK made : made = [list |-> tab.request.list, n |-> tab.request.n,
                          start |-> tab.request.start]
  OBVIOUS
<1>3. PICK found : found = [id |-> Len(sessions) + 1, list |-> made.list, n |-> made.n,
                            start |-> made.start]
  OBVIOUS
<1>4. /\ tab.request # None /\ sessions' = Append(sessions, made)
      /\ Becomes(Attach(Answered, found))
  BY <1>2, <1>3 DEF SessionCreated
<1>5. /\ tab.request.list \in Nat /\ tab.request.n \in Items /\ tab.request.start \in Positions
      /\ tab.request.start < tab.request.n
  BY <1>1, <1>4 DEF Good, Typed, RequestTyped, Requests, Maybe
<1>6. /\ made \in Timelines
      /\ made.list \in Nat /\ made.n \in Items /\ made.start \in Positions
      /\ made.start < made.n
  BY <1>2, <1>5 DEF Timelines
<1>7. PICK len \in Nat : len = Len(sessions)
  BY <1>1 DEF SessionsTyped
<1>8. /\ sessions' \in Seq(Timelines)
      /\ Len(sessions') = len + 1 /\ sessions'[len + 1] = made
      /\ \A id \in Ids(sessions) : sessions'[id] = sessions[id]
  BY <1>1, <1>4, <1>6, <1>7 DEF SessionsTyped, Ids
<1>9. \A id \in Ids(sessions) : sessions[id] \in Timelines
  BY <1>1, Entry DEF SessionsTyped, Ids
<1>10. \A id \in Ids(sessions) : sessions[id].n \in Nat
  BY <1>9, Numbers DEF Timelines
<1>11. SessionsTyped'
  <2>1. ASSUME NEW id \in Ids(sessions') PROVE sessions'[id].start < sessions'[id].n
    <3>1. id = len + 1 \/ id \in Ids(sessions)
      BY <1>7, <1>8 DEF Ids
    <3>. QED BY <1>1, <1>6, <1>8, <3>1 DEF SessionsTyped
  <2>. QED BY <1>8, <2>1 DEF SessionsTyped
<1>12. Good(tab, sessions')
  <2>1. Len(sessions) <= Len(sessions')
    BY <1>7, <1>8
  <2>2. \A id \in Ids(sessions) : /\ sessions[id].n \in Nat /\ sessions'[id].n \in Nat
                                 /\ sessions[id].n <= sessions'[id].n
    BY <1>8, <1>10
  <2>. QED BY <1>1, <1>7, <1>8, <2>1, <2>2, Grown
<1>13. found \in Found(sessions') /\ found.id = len + 1 /\ found.n = made.n
  <2>1. len + 1 \in Ids(sessions')
    BY <1>8 DEF Ids
  <2>. QED BY <1>3, <1>6, <1>7, <2>1 DEF Found
<1>14. found.n <= sessions'[found.id].n
  <2>1. sessions'[found.id] = made /\ made.n \in Nat
    BY <1>6, <1>8, <1>13, Numbers
  <2>. QED BY <1>13, <2>1
<1>15. found.id \notin tab.released
  BY <1>1, <1>7, <1>13 DEF Good, Typed, StoreTyped, Ids
<1>16. Good(tab', sessions') /\ Settled(tab') /\ Follows(tab, tab')
  BY <1>4, <1>12, <1>13, <1>14, <1>15, AttachStep
<1>. QED BY <1>11, <1>16 DEF DriverInv

\* getPlaybackSession
LEMMA SessionFoundStep ==
    ASSUME DriverInv, SessionFound
    PROVE  DriverInv' /\ Follows(tab, tab')
<1>1. Good(tab, sessions) /\ SessionsTyped
  BY DEF DriverInv
<1>2. PICK id : id = tab.request.get
  OBVIOUS
<1>3. PICK found : found = [id |-> id, list |-> sessions[id].list, n |-> sessions[id].n,
                            start |-> sessions[id].start]
  OBVIOUS
<1>4. /\ tab.request # None /\ id # None /\ id \notin tab.released
      /\ Becomes(Attach(Answered, found)) /\ sessions' = sessions
  BY <1>2, <1>3 DEF SessionFound, Do
<1>5. id \in Ids(sessions)
  BY <1>1, <1>2, <1>4 DEF Good, Typed, RequestTyped, Requests, Maybe
<1>6. sessions[id] \in Timelines
  BY <1>1, <1>5, Entry DEF SessionsTyped, Ids
<1>7. PICK s \in Timelines : s = sessions[id]
  BY <1>6
<1>8. found \in Found(sessions) /\ found.id = id /\ found.n = s.n /\ s.n \in Nat
  BY <1>3, <1>5, <1>7, Numbers DEF Found, Timelines
<1>9. found.n <= sessions[found.id].n
  BY <1>7, <1>8
<1>10. Good(tab', sessions) /\ Settled(tab') /\ Follows(tab, tab')
  BY <1>1, <1>4, <1>8, <1>9, AttachStep
<1>. QED BY <1>1, <1>4, <1>10 DEF DriverInv, SessionsTyped

\* The session that was stored has expired: another one is asked for.
LEMMA SessionGoneStep ==
    ASSUME DriverInv, SessionGone
    PROVE  DriverInv' /\ Follows(tab, tab')
<1>1. Good(tab, sessions) /\ tab.request # None
  BY DEF DriverInv, SessionGone
<1>2. PICK p : p = ClearStoreSession(tab)
  OBVIOUS
<1>3. PICK h : h = [p EXCEPT !.request.get = None]
  OBVIOUS
<1>4. Do(h)
  BY <1>2, <1>3 DEF SessionGone
<1>5. /\ Same(tab, p, Fields \ {"storeSession", "storeContext", "time"})
      /\ Good(p, sessions) /\ Follows(tab, p)
  BY <1>1, <1>2, ClearStoreSessionGood
<1>6. PICK asked : asked = [tab.request EXCEPT !.get = None]
  OBVIOUS
<1>7. p.request = tab.request
  BY <1>5 DEF Same, Fields
<1>8. Same(p, h, Fields \ {"request"}) /\ h.request = asked
  BY <1>3, <1>5, <1>6, <1>7 DEF Good, Same, IsTab, Fields
<1>9. PICK i \in Requests(sessions) : i = tab.request
  BY <1>1 DEF Good, Typed, RequestTyped, Maybe
<1>10. i.start < i.n /\ i.list \in Nat /\ i.n \in Items /\ i.start \in Positions
  BY <1>1, <1>9 DEF Good, Typed, RequestTyped, Requests
<1>11. asked = [get |-> None, list |-> i.list, n |-> i.n, start |-> i.start]
  BY <1>6, <1>9 DEF Requests
<1>12. asked \in Requests(sessions) /\ asked.start < asked.n
  BY <1>10, <1>11 DEF Requests, Maybe
<1>13. asked # None
  <2>1. asked \in [get : Nat \cup {None}, list : Nat, n : Nat, start : Nat]
    BY <1>10, <1>11, Numbers
  <2>. QED BY <2>1, DriverConstants
<1>14. RequestTyped(h, sessions)
  BY <1>8, <1>12 DEF RequestTyped, Maybe
<1>15. Typed(h, sessions)
  BY <1>5, <1>8, <1>14, FrameTyped DEF Good, Typed, Fields
<1>16. Live(h) /\ Matches(h) /\ Kinds(h)
  BY <1>5, <1>8, Frame DEF Good, Fields
<1>17. Good(h, sessions)
  BY <1>8, <1>15, <1>16 DEF Good, Same
<1>18. Follows(p, h)
  BY <1>8, Frame DEF Follows, Same, Fields
<1>19. Settled(h)
  BY <1>8, <1>13 DEF Settled
<1>20. Same(tab, h, Fields \ {"storeSession", "storeContext", "time", "request"})
  BY <1>5, <1>8 DEF Same, Fields
<1>21. QueueId(h) = QueueId(tab) /\ h.context = tab.context
  BY ZenonT(30), <1>20, Frame DEF Same, Fields
<1>22. Handled(tab, h)
  BY <1>19, <1>21 DEF Handled, Changed
<1>23. Good(tab', sessions) /\ Settled(tab') /\ Follows(h, tab')
  BY <1>4, <1>17, <1>22, Effects DEF Do
<1>24. DriverInv'
  BY <1>4, <1>23 DEF Do, DriverInv, SessionsTyped
<1>. QED BY <1>5, <1>18, <1>23, <1>24, FollowsTransitive

\* No session can be made: the fallback.
LEMMA SessionRefusedStep ==
    ASSUME DriverInv, SessionRefused
    PROVE  DriverInv' /\ Follows(tab, tab')
<1>1. Good(tab, sessions)
  BY DEF DriverInv
<1>2. /\ Same(tab, Answered, Fields \ {"request"})
      /\ Good(Answered, sessions) /\ Follows(tab, Answered)
  BY <1>1, AnsweredGood
<1>3. PICK h : h = FallBack(Answered)
  OBVIOUS
<1>4. h.session = None /\ IsTab(h) /\ Good(h, sessions) /\ Follows(Answered, h)
  BY <1>2, <1>3, FallBackGood DEF Good
<1>5. Keeps(tab, h)
  <2>1. Same(tab, h, {})
    BY <1>4 DEF Same
  <2>. QED BY <1>4, <2>1, KeepsFrame
<1>6. Follows(tab, h)
  BY <1>2, <1>4, FollowsTransitive
<1>7. Do(h)
  BY <1>3 DEF SessionRefused
<1>. QED BY <1>4, <1>5, <1>6, <1>7, DoFollows

\* The server appends to a timeline.
LEMMA ExtendStep ==
    ASSUME DriverInv, NEW id \in DOMAIN sessions, Extend(id)
    PROVE  DriverInv' /\ Follows(tab, tab')
<1>1. Good(tab, sessions) /\ Settled(tab) /\ SessionsTyped /\ tab' = tab
  BY DEF DriverInv, Extend
<1>2. PICK s \in Timelines : s = sessions[id]
  <2>1. id \in Ids(sessions)
    BY <1>1 DEF SessionsTyped, Ids
  <2>. QED BY <1>1, <2>1, Entry DEF SessionsTyped, Ids
<1>3. PICK longer : longer = [s EXCEPT !.n = @ + 1]
  OBVIOUS
<1>4. s.n \in Items /\ s.n < MaxItems /\ s.list \in Nat /\ s.start \in Positions
  BY <1>2 DEF Extend, Timelines
<1>5. longer = [list |-> s.list, n |-> s.n + 1, start |-> s.start]
  BY <1>3 DEF Timelines
<1>6. longer \in Timelines /\ longer.n = s.n + 1 /\ longer.start = s.start
  <2>1. s.n + 1 \in Items
    BY <1>4, Numbers DEF Items
  <2>. QED BY <1>4, <1>5, <2>1 DEF Timelines
<1>7. sessions' = [sessions EXCEPT ![id] = longer]
  BY <1>2, <1>3 DEF Extend
<1>8. PICK len \in Nat : len = Len(sessions) /\ DOMAIN sessions = 1..len
  BY <1>1 DEF SessionsTyped
<1>9. /\ sessions' \in Seq(Timelines) /\ Len(sessions') = len
      /\ sessions'[id] = longer
      /\ \A k \in Ids(sessions) : k # id => sessions'[k] = sessions[k]
  BY <1>1, <1>6, <1>7, <1>8 DEF SessionsTyped, Ids
<1>10. \A k \in Ids(sessions) : sessions[k] \in Timelines
  BY <1>1, Entry DEF SessionsTyped, Ids
<1>11. \A k \in Ids(sessions) : sessions[k].n \in Nat /\ sessions[k].start \in Nat
  BY <1>10, Numbers DEF Timelines
<1>12. \A k \in Ids(sessions) : /\ sessions[k].n \in Nat /\ sessions'[k].n \in Nat
                               /\ sessions[k].n <= sessions'[k].n
  <2>1. ASSUME NEW k \in Ids(sessions)
        PROVE  /\ sessions[k].n \in Nat /\ sessions'[k].n \in Nat
               /\ sessions[k].n <= sessions'[k].n
    <3>1. CASE k = id
      <4>1. sessions'[k].n = s.n + 1 /\ sessions[k].n = s.n /\ s.n \in Nat
        BY <1>2, <1>4, <1>6, <1>9, <3>1, Numbers
      <4>. QED BY <4>1
    <3>2. CASE k # id
      <4>1. sessions'[k] = sessions[k] /\ sessions[k].n \in Nat
        BY <1>9, <1>11, <3>2
      <4>. QED BY <4>1
    <3>. QED BY <3>1, <3>2
  <2>. QED BY <2>1
<1>13. Good(tab, sessions')
  <2>1. Len(sessions) <= Len(sessions')
    BY <1>8, <1>9
  <2>. QED BY <1>1, <1>8, <1>9, <1>12, <2>1, Grown
<1>14. SessionsTyped'
  <2>1. Ids(sessions') = Ids(sessions)
    BY <1>8, <1>9 DEF Ids
  <2>2. ASSUME NEW k \in Ids(sessions') PROVE sessions'[k].start < sessions'[k].n
    <3>1. CASE k = id
      <4>1. s.start < s.n /\ s.start \in Nat /\ s.n \in Nat
        BY <1>1, <1>2, <1>4, <2>1, <2>2, <3>1, Numbers DEF SessionsTyped
      <4>2. s.start < s.n + 1
        BY <4>1
      <4>. QED BY <1>6, <1>9, <3>1, <4>2
    <3>2. CASE k # id
      BY <1>1, <1>9, <2>1, <2>2, <3>2 DEF SessionsTyped
    <3>. QED BY <3>1, <3>2
  <2>. QED BY <1>9, <2>2 DEF SessionsTyped
<1>15. DriverInv'
  BY <1>1, <1>13, <1>14 DEF DriverInv
<1>. QED BY <1>1, <1>15, FollowsTransitive

\* refreshSession
LEMMA RefreshStep ==
    ASSUME DriverInv, Refresh
    PROVE  DriverInv' /\ Follows(tab, tab')
<1>1. Good(tab, sessions)
  BY DEF DriverInv
<1>2. PICK h : h = AskRefresh(tab)
  OBVIOUS
<1>3. Same(tab, h, Fields \ {"refreshes"}) /\ Good(h, sessions)
  BY <1>1, <1>2, AskRefreshGood
<1>4. Follows(tab, h) /\ Keeps(tab, h)
  BY <1>1, <1>3, CoreFrame DEF Good, Fields, Core
<1>. QED BY <1>2, <1>3, <1>4, DoFollows DEF Refresh

\* What a step of refreshSession does with the request that is over.
LEMMA RefreshOver ==
    ASSUME DriverInv, NEW r, NEW q, q = [tab EXCEPT !.refreshes = @ \ {r}]
    PROVE  /\ Same(tab, q, Fields \ {"refreshes"})
           /\ Good(q, sessions) /\ Follows(tab, q) /\ Keeps(tab, q)
<1>1. Good(tab, sessions)
  BY DEF DriverInv
<1>2. Same(tab, q, Fields \ {"refreshes"}) /\ q.refreshes = tab.refreshes \ {r}
  BY <1>1 DEF Good, Same, IsTab, Fields
<1>3. RefreshTyped(q, sessions)
  BY <1>1, <1>2 DEF Good, Typed, RefreshTyped, Same, Fields
<1>4. Typed(q, sessions)
  BY <1>1, <1>2, <1>3, FrameTyped DEF Good, Typed, Fields
<1>. QED BY <1>1, <1>2, <1>4, CoreFrame DEF Fields, Core

\* The answer of a refresh.
LEMMA RefreshAnsweredStep ==
    ASSUME DriverInv, NEW r, RefreshAnswered(r)
    PROVE  DriverInv' /\ Follows(tab, tab')
<1>1. PICK q : q = [tab EXCEPT !.refreshes = @ \ {r}]
  OBVIOUS
<1>2. /\ Same(tab, q, Fields \ {"refreshes"})
      /\ Good(q, sessions) /\ Follows(tab, q) /\ Keeps(tab, q)
  BY <1>1, RefreshOver
<1>3. CASE ~(tab.session # None /\ tab.session.id = r.id)
  <2>1. PICK h : h = ResumeNext(q, r.id)
    OBVIOUS
  <2>2. Do(h)
    BY <1>1, <1>3, <2>1 DEF RefreshAnswered
  <2>3. Good(h, sessions) /\ Follows(q, h) /\ Keeps(q, h)
    BY <1>2, <2>1, ResumeNextGood
  <2>. QED BY <1>2, <2>2, <2>3, FollowsTransitive, KeepsTransitive, DoFollows
<1>4. CASE tab.session # None /\ tab.session.id = r.id
  <2>1. q.session = tab.session
    BY <1>2 DEF Same, Fields
  <2>2. PICK s \in SessionRef : s = tab.session
    BY <1>2, <1>4, <2>1 DEF Good, Typed, SessionTyped, Maybe
  <2>3. /\ s.id \in Ids(sessions) /\ s.id \in Nat /\ s.list \in Nat /\ s.n \in Items
        /\ s.n <= sessions[s.id].n /\ r.id = s.id
    BY <1>2, <1>4, <2>1, <2>2 DEF Good, Typed, SessionTyped, SessionRef
  <2>4. sessions[s.id].n \in Items
    <3>1. sessions[s.id] \in Timelines
      BY <2>3, Entry DEF DriverInv, SessionsTyped, Ids
    <3>. QED BY <3>1 DEF Timelines
  <2>5. PICK a, b : a = s.n /\ b = sessions[s.id].n
    OBVIOUS
  <2>6. Max({a, b}) = b
    <3>1. a \in Nat /\ b \in Nat /\ a <= b
      BY <2>3, <2>4, <2>5, Numbers
    <3>2. PICK m : m = CHOOSE x \in {a, b} : \A y \in {a, b} : x >= y
      OBVIOUS
    <3>3. \E x \in {a, b} : \A y \in {a, b} : x >= y
      BY <3>1
    <3>4. m \in {a, b} /\ m >= b
      BY <3>2, <3>3
    <3>5. m = b
      BY <3>1, <3>4
    <3>. QED BY <3>2, <3>5 DEF Max
  <2>7. PICK longer : longer = [s EXCEPT !.n = Max({@, sessions[r.id].n})]
    OBVIOUS
  <2>8. longer = [id |-> s.id, list |-> s.list, n |-> b]
    BY <2>3, <2>5, <2>6, <2>7 DEF SessionRef
  <2>9. /\ longer \in SessionRef /\ longer # None
        /\ longer.id = s.id /\ longer.list = s.list /\ longer.n = b
    <3>1. longer \in SessionRef /\ longer.id = s.id /\ longer.list = s.list /\ longer.n = b
      BY <2>3, <2>4, <2>5, <2>8 DEF SessionRef
    <3>2. longer \in [id : Nat, list : Nat, n : Nat]
      BY <2>3, <2>4, <2>5, <2>8, Numbers
    <3>. QED BY <3>1, <3>2, DriverConstants
  <2>10. PICK p : p = [q EXCEPT !.session.n = Max({@, sessions[r.id].n})]
    OBVIOUS
  <2>11. Same(q, p, Fields \ {"session"}) /\ p.session = longer
    BY <1>2, <2>1, <2>2, <2>7, <2>10 DEF Good, Same, IsTab, Fields
  <2>12. Good(p, sessions)
    <3>1. SessionTyped(p, sessions)
      <4>1. b \in Nat
        BY <2>4, <2>5, Numbers
      <4>2. PICK c \in Nat : c = b
        BY <4>1
      <4>3. c <= c
        OBVIOUS
      <4>4. b <= b
        BY <4>2, <4>3
      <4>. QED BY <2>3, <2>5, <2>9, <2>11, <4>4 DEF SessionTyped, Maybe
    <3>2. Typed(p, sessions)
      BY <1>2, <2>11, <3>1, FrameTyped DEF Good, Typed, Fields
    <3>3. Live(p)
      BY <1>2, <1>4, <2>1, <2>2, <2>9, <2>11 DEF Good, Live, Same, Fields, IsHLS
    <3>4. Matches(p)
      BY <1>2, <1>4, <2>1, <2>2, <2>9, <2>11 DEF Good, Matches, Own, Same, Fields
    <3>5. Kinds(p)
      BY <1>2, <2>11, Frame DEF Good, Fields
    <3>. QED BY <2>11, <3>2, <3>3, <3>4, <3>5 DEF Good, Same
  <2>13. Follows(q, p)
    BY <1>4, <2>1, <2>2, <2>9, <2>11 DEF Follows, LetsGo, Same, Fields
  <2>14. Keeps(q, p)
    <3>1. QueueId(p) = QueueId(q) /\ (Begun(p) <=> Begun(q))
      BY <2>11, Frame DEF Fields
    <3>4. p.context = q.context
      BY <2>11 DEF Same, Fields
    <3>2. (Own(p) <=> Own(q)) /\ (Shown(p) <=> Shown(q))
      BY <1>4, <2>1, <2>2, <2>9, <2>11 DEF Own, Shown, Same, Fields
    <3>3. p.request = q.request /\ q.session # None
      BY <1>4, <2>1, <2>11 DEF Same, Fields
    <3>. QED BY <3>1, <3>2, <3>3, <3>4 DEF Keeps, Changed, Held, Settled
  <2>15. PICK synced : synced = Sync(p, r.context)
    OBVIOUS
  <2>16. Good(synced, sessions) /\ Follows(p, synced) /\ Keeps(p, synced)
    BY <2>12, <2>15, SyncGood
  <2>17. PICK h : h = ResumeNext(synced, r.id)
    OBVIOUS
  <2>18. Good(h, sessions) /\ Follows(synced, h) /\ Keeps(synced, h)
    BY <2>16, <2>17, ResumeNextGood
  <2>19. Do(h)
    BY <1>1, <1>4, <2>10, <2>15, <2>17 DEF RefreshAnswered
  <2>20. Follows(tab, h) /\ Keeps(tab, h)
    BY <1>2, <2>13, <2>14, <2>16, <2>18, FollowsTransitive, KeepsTransitive
  <2>. QED BY <2>18, <2>19, <2>20, DoFollows
<1>. QED BY <1>3, <1>4

\* A refresh that fails.
LEMMA RefreshFailedStep ==
    ASSUME DriverInv, NEW r, RefreshFailed(r)
    PROVE  DriverInv' /\ Follows(tab, tab')
<1>1. PICK q : q = [tab EXCEPT !.refreshes = @ \ {r}]
  OBVIOUS
<1>2. Good(q, sessions) /\ Follows(tab, q) /\ Keeps(tab, q)
  BY <1>1, RefreshOver
<1>3. PICK h : h = ResumeNext(q, r.id)
  OBVIOUS
<1>4. Good(h, sessions) /\ Follows(q, h) /\ Keeps(q, h)
  BY <1>2, <1>3, ResumeNextGood
<1>5. Do(h)
  BY <1>1, <1>3 DEF RefreshFailed
<1>. QED BY <1>2, <1>4, <1>5, FollowsTransitive, KeepsTransitive, DoFollows

\* The module of hls.js is there, or not: in either case no longer awaited.
LEMMA ModuleOver ==
    ASSUME DriverInv, NEW q, q = [tab EXCEPT !.module = None]
    PROVE  /\ Same(tab, q, Fields \ {"module"})
           /\ Good(q, sessions) /\ Follows(tab, q) /\ Keeps(tab, q)
<1>1. Good(tab, sessions)
  BY DEF DriverInv
<1>2. Same(tab, q, Fields \ {"module"}) /\ q.module = None
  BY <1>1 DEF Good, Same, IsTab, Fields
<1>3. MediaTyped(q, sessions)
  BY <1>1, <1>2 DEF Good, Typed, MediaTyped, Same, Fields, Maybe
<1>4. Typed(q, sessions)
  BY <1>1, <1>2, <1>3, FrameTyped DEF Good, Typed, Fields
<1>5. Live(q) /\ Matches(q) /\ LetsGo(tab, q) /\ (Begun(q) => Begun(tab))
  BY <1>1, <1>2, Frame DEF Good, Fields
<1>6. Kinds(q)
  BY <1>1, <1>2 DEF Good, Kinds, Same, Fields
<1>7. Follows(tab, q)
  BY <1>2, <1>5 DEF Follows, Same, Fields
<1>8. Keeps(tab, q)
  BY <1>2, <1>5, KeepsFrame DEF Fields
<1>. QED BY <1>2, <1>4, <1>5, <1>6, <1>7, <1>8 DEF Good, Same

\* hls.js attaches the playlist of the session that it was loaded for.
LEMMA ModuleLoadedStep ==
    ASSUME DriverInv, ModuleLoaded
    PROVE  DriverInv' /\ Follows(tab, tab')
<1>1. Good(tab, sessions) /\ tab.module # None
  BY DEF DriverInv, ModuleLoaded
<1>2. PICK q : q = [tab EXCEPT !.module = None]
  OBVIOUS
<1>3. /\ Same(tab, q, Fields \ {"module"})
      /\ Good(q, sessions) /\ Follows(tab, q) /\ Keeps(tab, q)
  BY <1>2, ModuleOver
<1>4. CASE Do(q)
  BY <1>3, <1>4, DoFollows
<1>5. CASE ~(tab.session = None \/ tab.session.id # tab.module.id)
  <2>1. PICK d : d = DestroyHLS(q)
    OBVIOUS
  <2>2. /\ Same(q, d, Fields \ {"hls", "waiters", "paused", "source", "phase", "position"})
        /\ Good(d, sessions) /\ Follows(q, d)
    BY <1>3, <2>1, DestroyHLSGood
  <2>3. PICK hls : hls = [to |-> tab.module.to, media |-> 0]
    OBVIOUS
  <2>4. PICK h : h = [LoadPlaylist(d) EXCEPT !.driver = "hls-js", !.ready = FALSE, !.hls = hls]
    OBVIOUS
  <2>5. Do(h)
    BY <1>2, <1>5, <2>1, <2>3, <2>4 DEF ModuleLoaded
  <2>6. /\ Same(d, h, Fields \ {"paused", "source", "phase", "position", "driver",
                                "ready", "hls"})
        /\ h.paused = TRUE /\ h.source = "session" /\ h.phase = "loading"
        /\ h.position = 0 /\ h.driver = "hls-js" /\ h.ready = FALSE /\ h.hls = hls
    BY <2>2, <2>4 DEF LoadPlaylist, Pause, Good, Same, IsTab, Fields
  <2>7. tab.module.to \in Positions
    BY <1>1 DEF Good, Typed, MediaTyped, Maybe
  <2>8. hls \in Players /\ hls # None /\ hls.to # None
    <3>1. hls \in Players /\ hls.to = tab.module.to
      BY <2>3, <2>7 DEF Players, Maybe
    <3>2. hls \in [to : Nat \cup {None}, media : Nat]
      BY <2>3, <2>7, Numbers
    <3>3. tab.module.to # None
      BY <2>7, Numbers, DriverConstants
    <3>. QED BY <3>1, <3>2, <3>3, DriverConstants
  <2>9. tab.platform = "js"
    BY <1>1 DEF Good, Kinds, Typed, KindTyped
  <2>10. h.platform = "js" /\ h.session # None
    BY <1>3, <1>5, <2>2, <2>6, <2>9 DEF Same, Fields
  <2>11. Good(h, sessions)
    <3>1. MediaTyped(h, sessions)
      BY <2>2, <2>6, <2>8 DEF Good, Typed, MediaTyped, Same, Fields, Maybe
    <3>2. PlaceTyped(h)
      BY <2>2, <2>6, Numbers DEF Good, Typed, PlaceTyped, Same, Fields
    <3>3. KindTyped(h)
      BY <2>6, <2>10 DEF KindTyped, Drivers
    <3>4. FlagsTyped(h)
      BY ZenonT(30), <2>2, <2>6 DEF Good, Typed, FlagsTyped, Same, Fields
    <3>5. Typed(h, sessions)
      BY <2>2, <2>6, <3>1, <3>2, <3>3, <3>4, FrameTyped DEF Good, Typed, Fields
    <3>6. Live(h)
      BY <2>2, <2>6, <2>10 DEF Good, Live, Same, Fields, IsHLS
    <3>7. Matches(h)
      BY <2>2, <2>6, Frame DEF Good, Fields
    <3>8. Kinds(h)
      BY <2>2, <2>6, <2>8, <2>10 DEF Good, Kinds, Same, Fields
    <3>. QED BY <2>6, <3>5, <3>6, <3>7, <3>8 DEF Good, Same
  <2>12. ~Begun(h)
    BY <2>6, <2>8 DEF Begun
  <2>13. Same(q, h, Fields \ {"waiters", "paused", "source", "phase", "position", "driver",
                              "ready", "hls"})
    BY <2>2, <2>6 DEF Same, Fields
  <2>14. Follows(q, h) /\ Keeps(q, h)
    <3>1. LetsGo(q, h) /\ Keeps(q, h)
      BY <2>12, <2>13, Frame, KeepsFrame DEF Fields
    <3>2. h.playing = q.playing
      BY <2>13 DEF Same, Fields
    <3>. QED BY <3>1, <3>2 DEF Follows
  <2>15. Follows(tab, h) /\ Keeps(tab, h)
    BY <1>3, <2>14, FollowsTransitive, KeepsTransitive
  <2>. QED BY <2>5, <2>11, <2>15, DoFollows
<1>. QED BY <1>2, <1>4, <1>5 DEF ModuleLoaded

\* A fallback as a handler.
LEMMA FallBackStep ==
    ASSUME DriverInv, NEW q, Good(q, sessions), Follows(tab, q), Do(FallBack(q))
    PROVE  DriverInv' /\ Follows(tab, tab')
<1>1. PICK h : h = FallBack(q)
  OBVIOUS
<1>2. h.session = None /\ Good(h, sessions) /\ Follows(q, h)
  BY <1>1, FallBackGood
<1>3. Same(tab, h, {})
  BY <1>2 DEF Good, Same
<1>4. Keeps(tab, h)
  BY <1>2, <1>3, KeepsFrame
<1>5. Follows(tab, h)
  BY <1>2, FollowsTransitive
<1>. QED BY <1>1, <1>2, <1>4, <1>5, DoFollows

\* hls.js could not be loaded.
LEMMA ModuleFailedStep ==
    ASSUME DriverInv, ModuleFailed
    PROVE  DriverInv' /\ Follows(tab, tab')
<1>1. PICK q : q = [tab EXCEPT !.module = None]
  OBVIOUS
<1>2. Good(q, sessions) /\ Follows(tab, q) /\ Keeps(tab, q)
  BY <1>1, ModuleOver
<1>3. Do(q) \/ Do(FallBack(q))
  BY <1>1 DEF ModuleFailed
<1>. QED BY <1>2, <1>3, FallBackStep, DoFollows

-----------------------------------------------------------------------------
(* What hls.js and the audio element report. *)

\* What an event of a player changes is its player, its place and its flags.
LEMMA MediaFrame ==
    ASSUME NEW q, NEW r, NEW ss, Good(q, ss),
           Same(q, r, Fields \ {"phase", "position", "hls", "waiters", "recovery", "ready"}),
           MediaTyped(r, ss), PlaceTyped(r), Kinds(r), r.ready \in BOOLEAN, r.recovery \in BOOLEAN
    PROVE  /\ Good(r, ss) /\ Follows(q, r)
           /\ (Begun(r) => Begun(q)) \/ (Own(r) => Shown(r)) => Keeps(q, r)
<1>1. FlagsTyped(r)
  BY DEF Good, Typed, FlagsTyped, Same, Fields
<1>2. Typed(r, ss)
  BY <1>1, FrameTyped DEF Good, Typed, Fields
<1>3. Live(r) /\ Matches(r) /\ LetsGo(q, r)
  BY Frame DEF Good, Fields
<1>4. (Begun(r) => Begun(q)) \/ (Own(r) => Shown(r)) => Keeps(q, r)
  BY KeepsFrame DEF Fields
<1>5. r.playing = q.playing
  BY DEF Same, Fields
<1>. QED BY <1>2, <1>3, <1>4, <1>5 DEF Good, Follows, Same

\* A player that hls.js is attached to has a place to restore while it loads.
LEMMA Player ==
    ASSUME DriverInv, Attached
    PROVE  /\ tab.hls # None /\ tab.hls \in Players /\ tab.platform # "native"
           /\ tab.source = "session" /\ tab.driver # "hls-native"
           /\ tab.phase = "loading" => tab.hls.to \in Positions
           /\ \A to \in Maybe(Positions), media \in {0, 1} :
                 [to |-> to, media |-> media] \in Players \ {None}
<1>1. Good(tab, sessions) /\ tab.hls # None /\ tab.source = "session"
  BY DEF DriverInv, Attached
<1>2. tab.hls \in Players
  BY <1>1 DEF Good, Typed, MediaTyped, Maybe
<1>3. tab.platform # "native" /\ tab.driver # "hls-native"
  BY <1>1 DEF Good, Kinds
<1>4. tab.phase = "loading" => tab.hls.to \in Positions
  BY <1>1, <1>2 DEF Good, Kinds, Players, Maybe
<1>5. ASSUME NEW to \in Maybe(Positions), NEW media \in {0, 1}
      PROVE  [to |-> to, media |-> media] \in Players \ {None}
  <2>1. to \in Nat \cup {None}
    BY Numbers DEF Maybe
  <2>2. [to |-> to, media |-> media] \in [to : Nat \cup {None}, media : Nat]
    BY <2>1
  <2>. QED BY <2>2, DriverConstants DEF Players
<1>. QED BY <1>1, <1>2, <1>3, <1>4, <1>5

\* MANIFEST_PARSED
LEMMA ManifestParsedStep ==
    ASSUME DriverInv, ManifestParsed
    PROVE  DriverInv' /\ Follows(tab, tab')
<1>1. Good(tab, sessions) /\ Attached /\ tab.phase = "loading"
  BY DEF DriverInv, ManifestParsed
<1>2. /\ tab.hls # None /\ tab.hls \in Players /\ tab.platform # "native"
      /\ tab.driver # "hls-native" /\ tab.source = "session"
  BY <1>1, Player
<1>3. PICK to \in Positions : to = tab.hls.to
  BY <1>1, Player
<1>4. PICK hls : hls = [to |-> None, media |-> tab.hls.media]
  OBVIOUS
<1>5. hls \in Players /\ hls # None /\ hls = [tab.hls EXCEPT !.to = None]
  <2>1. tab.hls.media \in {0, 1} /\ None \in Maybe(Positions)
    BY <1>2 DEF Players, Maybe
  <2>2. hls = [tab.hls EXCEPT !.to = None]
    BY <1>2, <1>4 DEF Players
  <2>. QED BY <1>1, <1>4, <2>1, <2>2, Player
<1>6. PICK p : p = [tab EXCEPT !.phase = "parsed", !.position = tab.hls.to, !.hls.to = None]
  OBVIOUS
<1>7. /\ Same(tab, p, Fields \ {"phase", "position", "hls"})
      /\ p.phase = "parsed" /\ p.position = to /\ p.hls = hls
  BY <1>1, <1>3, <1>5, <1>6 DEF Good, Same, IsTab, Fields
<1>8. Same(tab, p, Fields \ {"phase", "position", "hls", "waiters", "recovery", "ready"})
  BY <1>7 DEF Same, Fields
<1>9. Good(p, sessions) /\ Follows(tab, p)
  <2>1. MediaTyped(p, sessions)
    BY <1>1, <1>5, <1>7 DEF Good, Typed, MediaTyped, Same, Fields, Maybe
  <2>2. PlaceTyped(p)
    BY <1>1, <1>7 DEF Good, Typed, PlaceTyped, Same, Fields
  <2>3. Kinds(p)
    BY <1>1, <1>2, <1>5, <1>7 DEF Good, Kinds, Same, Fields
  <2>4. p.ready \in BOOLEAN /\ p.recovery \in BOOLEAN
    BY <1>1, <1>7 DEF Good, Typed, FlagsTyped, Same, Fields
  <2>. QED BY <1>1, <1>8, <2>1, <2>2, <2>3, <2>4, MediaFrame
<1>10. PICK h : h = SyncAt(p, tab.attachedTo, to)
  OBVIOUS
<1>11. Do(h)
  BY <1>3, <1>6, <1>10 DEF ManifestParsed
<1>12. /\ Same(p, h, Fields \ TimelineFields)
       /\ Good(h, sessions) /\ Follows(p, h) /\ (Own(h) => Shown(h))
  BY <1>9, <1>10, SyncAtGood
<1>13. Same(tab, h, {"session", "attachedTo", "context", "request"})
  BY <1>7, <1>12 DEF Same, Fields, TimelineFields
<1>14. Keeps(tab, h)
  BY <1>12, <1>13, KeepsFrame
<1>. QED BY <1>9, <1>11, <1>12, <1>14, FollowsTransitive, DoFollows

\* FRAG_BUFFERED
LEMMA FragmentBufferedStep ==
    ASSUME DriverInv, FragmentBuffered
    PROVE  DriverInv' /\ Follows(tab, tab')
<1>1. Good(tab, sessions) /\ Attached /\ tab.phase \in {"parsed", "ok"}
  BY DEF DriverInv, FragmentBuffered
<1>2. /\ tab.hls # None /\ tab.hls \in Players /\ tab.platform # "native"
      /\ tab.driver # "hls-native" /\ tab.source = "session"
  BY <1>1, Player
<1>3. PICK hls : hls = [to |-> tab.hls.to, media |-> 0]
  OBVIOUS
<1>4. hls \in Players /\ hls # None /\ hls = [tab.hls EXCEPT !.media = 0]
  <2>1. tab.hls.to \in Maybe(Positions)
    BY <1>2 DEF Players
  <2>2. hls = [tab.hls EXCEPT !.media = 0]
    BY <1>2, <1>3 DEF Players
  <2>. QED BY <1>1, <1>3, <2>1, <2>2, Player
<1>5. PICK p : p = [tab EXCEPT !.phase = "ok", !.hls.media = 0]
  OBVIOUS
<1>6. Same(tab, p, Fields \ {"phase", "hls"}) /\ p.phase = "ok" /\ p.hls = hls
  BY <1>1, <1>4, <1>5 DEF Good, Same, IsTab, Fields
<1>7. Same(tab, p, Fields \ {"phase", "position", "hls", "waiters", "recovery", "ready"})
  BY <1>6 DEF Same, Fields
<1>8. Good(p, sessions) /\ Follows(tab, p) /\ Keeps(tab, p)
  <2>1. MediaTyped(p, sessions)
    BY <1>1, <1>4, <1>6 DEF Good, Typed, MediaTyped, Same, Fields, Maybe
  <2>2. PlaceTyped(p)
    BY <1>1, <1>6 DEF Good, Typed, PlaceTyped, Same, Fields
  <2>3. Kinds(p)
    BY <1>1, <1>2, <1>4, <1>6 DEF Good, Kinds, Same, Fields
  <2>4. p.ready \in BOOLEAN /\ p.recovery \in BOOLEAN
    BY <1>1, <1>6 DEF Good, Typed, FlagsTyped, Same, Fields
  <2>5. Begun(p) => Begun(tab)
    BY <1>1, <1>6 DEF Begun, IsHLS, Same, Fields
  <2>. QED BY <1>1, <1>7, <2>1, <2>2, <2>3, <2>4, <2>5, MediaFrame
<1>9. PICK h : h = Ready(p)
  OBVIOUS
<1>10. Do(h)
  BY <1>5, <1>9 DEF FragmentBuffered
<1>11. Good(h, sessions) /\ Follows(p, h) /\ Keeps(p, h)
  BY <1>6, <1>8, <1>9, ReadyGood
<1>. QED BY <1>8, <1>10, <1>11, FollowsTransitive, KeepsTransitive, DoFollows

\* A source that fails, as hls.js and the audio element report it.
LEMMA PhaseFailed ==
    ASSUME DriverInv, tab.source = "session", NEW q, q = [tab EXCEPT !.phase = "failed"]
    PROVE  Good(q, sessions) /\ Follows(tab, q) /\ Keeps(tab, q)
<1>1. Good(tab, sessions)
  BY DEF DriverInv
<1>2. Same(tab, q, Fields \ {"phase"}) /\ q.phase = "failed"
  BY <1>1 DEF Good, Same, IsTab, Fields
<1>3. Same(tab, q, Fields \ {"phase", "position", "hls", "waiters", "recovery", "ready"})
  BY <1>2 DEF Same, Fields
<1>4. MediaTyped(q, sessions)
  BY <1>1, <1>2 DEF Good, Typed, MediaTyped, Same, Fields
<1>5. PlaceTyped(q)
  BY <1>1, <1>2 DEF Good, Typed, PlaceTyped, Same, Fields
<1>6. Kinds(q)
  BY <1>1, <1>2 DEF Good, Kinds, Same, Fields
<1>7. q.ready \in BOOLEAN /\ q.recovery \in BOOLEAN
  BY <1>1, <1>2 DEF Good, Typed, FlagsTyped, Same, Fields
<1>8. Begun(q) => Begun(tab)
  BY <1>2 DEF Begun, IsHLS, Same, Fields
<1>. QED BY <1>1, <1>3, <1>4, <1>5, <1>6, <1>7, <1>8, MediaFrame

\* scheduleRecovery as the last call of a handler.
LEMMA RecoveryStep ==
    ASSUME DriverInv, NEW q, Good(q, sessions), Follows(tab, q), Keeps(tab, q),
           Do(ScheduleRecovery(q))
    PROVE  DriverInv' /\ Follows(tab, tab')
<1>1. PICK h : h = ScheduleRecovery(q)
  OBVIOUS
<1>2. Good(h, sessions) /\ Follows(q, h) /\ Keeps(q, h)
  BY <1>1, ScheduleRecoveryGood
<1>. QED BY <1>1, <1>2, FollowsTransitive, KeepsTransitive, DoFollows

\* A fatal NETWORK_ERROR.
LEMMA NetworkErrorStep ==
    ASSUME DriverInv, NetworkError
    PROVE  DriverInv' /\ Follows(tab, tab')
<1>1. PICK q : q = [tab EXCEPT !.phase = "failed"]
  OBVIOUS
<1>2. Good(q, sessions) /\ Follows(tab, q) /\ Keeps(tab, q)
  BY <1>1, PhaseFailed DEF NetworkError, Attached
<1>3. Do(ScheduleRecovery(q))
  BY <1>1 DEF NetworkError
<1>. QED BY <1>2, <1>3, RecoveryStep

\* A fatal error that only the fallback answers.
LEMMA OtherErrorStep ==
    ASSUME DriverInv, OtherError
    PROVE  DriverInv' /\ Follows(tab, tab')
  BY FallBackStep, FollowsTransitive DEF OtherError, DriverInv

\* A fatal MEDIA_ERROR.
LEMMA MediaErrorStep ==
    ASSUME DriverInv, MediaError
    PROVE  DriverInv' /\ Follows(tab, tab')
<1>1. Good(tab, sessions) /\ Attached
  BY DEF DriverInv, MediaError
<1>2. /\ tab.hls # None /\ tab.hls \in Players /\ tab.platform # "native"
      /\ tab.driver # "hls-native" /\ tab.source = "session"
  BY <1>1, Player
<1>3. CASE tab.hls.media = 1
  BY <1>1, <1>3, FallBackStep, FollowsTransitive DEF MediaError
<1>4. CASE tab.hls.media # 1
  <2>1. PICK s : s = SyncAt(tab, tab.attachedTo, tab.position)
    OBVIOUS
  <2>2. tab.position \in Positions
    BY <1>1 DEF Good, Typed, PlaceTyped
  <2>3. /\ Same(tab, s, Fields \ TimelineFields)
        /\ Good(s, sessions) /\ Follows(tab, s) /\ (Own(s) => Shown(s))
    BY <1>1, <2>1, <2>2, SyncAtGood
  <2>4. PICK p : p = Pause(s)
    OBVIOUS
  <2>5. Same(s, p, Fields \ {"paused"}) /\ Good(p, sessions) /\ Follows(s, p)
    BY <2>3, <2>4, PauseGood
  <2>6. p.hls = tab.hls /\ p.source = "session" /\ p.driver = tab.driver
        /\ p.platform = tab.platform
    BY <1>2, <2>3, <2>5 DEF Same, Fields, TimelineFields
  <2>7. PICK phase : phase = IF StartLoad(tab) = "loading" THEN "loading" ELSE "parsed"
    OBVIOUS
  <2>8. phase \in {"loading", "parsed"} /\ (phase = "loading" => tab.hls.to # None)
    BY <1>1, <1>2, <2>7 DEF StartLoad, Good, Kinds
  <2>9. PICK hls : hls = [to |-> tab.hls.to, media |-> 1]
    OBVIOUS
  <2>10. hls \in Players /\ hls # None /\ hls = [tab.hls EXCEPT !.media = 1] /\ hls.to = tab.hls.to
    <3>1. tab.hls.to \in Maybe(Positions)
      BY <1>2 DEF Players
    <3>2. hls = [tab.hls EXCEPT !.media = 1]
      BY <1>2, <2>9 DEF Players
    <3>. QED BY <1>1, <2>9, <3>1, <3>2, Player
  <2>11. PICK h : h = [p EXCEPT !.hls.media = 1, !.recovery = TRUE, !.ready = FALSE,
                                !.phase = phase]
    OBVIOUS
  <2>12. Do(h)
    BY <1>4, <2>1, <2>4, <2>7, <2>11 DEF MediaError
  <2>13. /\ Same(p, h, Fields \ {"hls", "recovery", "ready", "phase"})
         /\ h.hls = hls /\ h.recovery = TRUE /\ h.ready = FALSE /\ h.phase = phase
    BY <2>5, <2>6, <2>10, <2>11 DEF Good, Same, IsTab, Fields
  <2>14. Same(p, h, Fields \ {"phase", "position", "hls", "waiters", "recovery", "ready"})
    BY <2>13 DEF Same, Fields
  <2>15. Good(h, sessions) /\ Follows(p, h)
    <3>1. MediaTyped(h, sessions)
      BY <2>5, <2>8, <2>10, <2>13 DEF Good, Typed, MediaTyped, Same, Fields, Maybe
    <3>2. PlaceTyped(h)
      BY <2>5, <2>13 DEF Good, Typed, PlaceTyped, Same, Fields
    <3>3. Kinds(h)
      BY <1>2, <2>5, <2>6, <2>8, <2>10, <2>13 DEF Good, Kinds, Same, Fields
    <3>. QED BY <2>5, <2>13, <2>14, <3>1, <3>2, <3>3, MediaFrame
  <2>16. Own(h) => Shown(h)
    <3>1. (Own(h) <=> Own(s)) /\ (Shown(h) <=> Shown(s))
      BY <2>5, <2>13, Frame DEF Fields
    <3>. QED BY <2>3, <3>1
  <2>17. Same(tab, h, {"session", "attachedTo", "context", "request"})
    BY <2>3, <2>5, <2>13 DEF Same, Fields, TimelineFields
  <2>18. Keeps(tab, h)
    BY <2>16, <2>17, KeepsFrame
  <2>. QED BY <2>3, <2>5, <2>12, <2>15, <2>18, FollowsTransitive, DoFollows
<1>. QED BY <1>3, <1>4

\* The audio element loads by itself only where hls.js does not play.
LEMMA NativeFrame ==
    ASSUME DriverInv, Native, NEW q, NEW phase \in {"parsed", "ok"}, NEW S,
           S = {"phase", "position", "waiters"}, Same(tab, q, Fields \ S), q.phase = phase,
           q.waiters \in Maybe([to : Maybe(Positions), timer : BOOLEAN]),
           q.position \in Positions
    PROVE  Good(q, sessions) /\ Follows(tab, q) /\ Keeps(tab, q)
<1>1. Good(tab, sessions) /\ tab.driver # "hls-js" /\ tab.source \in {"stream", "session"}
  BY DEF DriverInv, Native, Good, Kinds
<1>2. Same(tab, q, Fields \ {"phase", "position", "hls", "waiters", "recovery", "ready"})
  BY DEF Same, Fields
<1>3. MediaTyped(q, sessions)
  BY <1>1 DEF Good, Typed, MediaTyped, Same, Fields
<1>4. PlaceTyped(q)
  BY <1>1 DEF Good, Typed, PlaceTyped, Same, Fields
<1>5. Kinds(q)
  BY <1>1 DEF Good, Kinds, Same, Fields
<1>6. q.ready \in BOOLEAN /\ q.recovery \in BOOLEAN
  BY <1>1 DEF Good, Typed, FlagsTyped, Same, Fields
<1>7. Begun(q) => Begun(tab)
  BY <1>1 DEF Begun, IsHLS, Same, Fields
<1>. QED BY <1>1, <1>2, <1>3, <1>4, <1>5, <1>6, <1>7, MediaFrame

\* loadedmetadata
LEMMA MetadataLoadedStep ==
    ASSUME DriverInv, MetadataLoaded
    PROVE  DriverInv' /\ Follows(tab, tab')
<1>1. Good(tab, sessions) /\ Native /\ tab.phase = "loading"
  BY DEF DriverInv, MetadataLoaded
<1>2. /\ tab.waiters \in Maybe([to : Maybe(Positions), timer : BOOLEAN])
      /\ tab.position \in Positions
  BY <1>1 DEF Good, Typed, MediaTyped, PlaceTyped
<1>3. PICK p : p = [tab EXCEPT !.phase = "parsed"]
  OBVIOUS
<1>4. Same(tab, p, Fields \ {"phase"}) /\ p.phase = "parsed"
  BY <1>1, <1>3 DEF Good, Same, IsTab, Fields
<1>5. CASE tab.waiters = None \/ tab.waiters.to = None
  <2>1. Do(p)
    BY <1>3, <1>5 DEF MetadataLoaded
  <2>2. Same(tab, p, Fields \ {"phase", "position", "waiters"})
    BY <1>4 DEF Same, Fields
  <2>3. p.waiters = tab.waiters /\ p.position = tab.position
    BY <1>4 DEF Same, Fields
  <2>4. Good(p, sessions) /\ Follows(tab, p) /\ Keeps(tab, p)
    BY <1>1, <1>2, <1>4, <2>2, <2>3, NativeFrame
  <2>. QED BY <2>1, <2>4, DoFollows
<1>6. CASE ~(tab.waiters = None \/ tab.waiters.to = None)
  <2>1. PICK to \in Positions : to = tab.waiters.to
    BY <1>2, <1>6 DEF Maybe
  <2>2. PICK waiters : waiters = [tab.waiters EXCEPT !.to = None]
    OBVIOUS
  <2>3. waiters \in Maybe([to : Maybe(Positions), timer : BOOLEAN])
    BY <1>2, <1>6, <2>2 DEF Maybe
  <2>4. PICK q : q = [p EXCEPT !.waiters.to = None, !.position = tab.waiters.to]
    OBVIOUS
  <2>5. /\ Same(tab, q, Fields \ {"phase", "position", "waiters"})
        /\ q.phase = "parsed" /\ q.waiters = waiters /\ q.position = to
    BY <1>4, <2>1, <2>2, <2>4 DEF Same, IsTab, Fields
  <2>6. Good(q, sessions) /\ Follows(tab, q) /\ Keeps(tab, q)
    BY <1>1, <2>3, <2>5, NativeFrame
  <2>7. PICK h : h = SyncAt(q, tab.attachedTo, to)
    OBVIOUS
  <2>8. Good(h, sessions) /\ Follows(q, h) /\ Keeps(q, h)
    BY <2>6, <2>7, SyncAtGood
  <2>9. Do(h)
    BY <1>3, <1>6, <2>1, <2>4, <2>7 DEF MetadataLoaded
  <2>. QED BY <2>6, <2>8, <2>9, FollowsTransitive, KeepsTransitive, DoFollows
<1>. QED BY <1>5, <1>6

\* canplay
LEMMA NativeCanPlayStep ==
    ASSUME DriverInv, NativeCanPlay
    PROVE  DriverInv' /\ Follows(tab, tab')
<1>1. Good(tab, sessions) /\ Native
  BY DEF DriverInv, NativeCanPlay
<1>2. PICK p : p = [tab EXCEPT !.phase = "ok"]
  OBVIOUS
<1>3. Good(p, sessions) /\ Follows(tab, p) /\ Keeps(tab, p) /\ p.phase = "ok"
  <2>1. Same(tab, p, Fields \ {"phase", "position", "waiters"}) /\ p.phase = "ok"
        /\ p.waiters = tab.waiters /\ p.position = tab.position
    BY <1>1, <1>2 DEF Good, Same, IsTab, Fields
  <2>2. /\ tab.waiters \in Maybe([to : Maybe(Positions), timer : BOOLEAN])
        /\ tab.position \in Positions
    BY <1>1 DEF Good, Typed, MediaTyped, PlaceTyped
  <2>. QED BY <1>1, <2>1, <2>2, NativeFrame
<1>4. PICK heard : heard = CanPlay(p)
  OBVIOUS
<1>5. /\ Good(heard, sessions) /\ Follows(p, heard) /\ Keeps(p, heard)
      /\ heard.phase = "ok" \/ heard.session = None
  BY <1>3, <1>4, CanPlayGood
<1>6. Follows(tab, heard) /\ Keeps(tab, heard)
  BY <1>3, <1>5, FollowsTransitive, KeepsTransitive
<1>7. CASE heard.waiters = None
  <2>1. Do(heard)
    BY <1>2, <1>4, <1>7 DEF NativeCanPlay
  <2>. QED BY <1>5, <1>6, <2>1, DoFollows
<1>8. CASE heard.waiters # None
  <2>1. PICK w : w = [heard EXCEPT !.waiters = None]
    OBVIOUS
  <2>2. Same(heard, w, Fields \ {"waiters"}) /\ w.waiters = None
    BY <1>5, <2>1 DEF Good, Same, IsTab, Fields
  <2>3. MediaTyped(w, sessions)
    BY <1>5, <2>2 DEF Good, Typed, MediaTyped, Same, Fields, Maybe
  <2>4. Typed(w, sessions)
    BY <1>5, <2>2, <2>3, FrameTyped DEF Good, Typed, Fields
  <2>5. Good(w, sessions) /\ Follows(heard, w) /\ Keeps(heard, w)
    BY <1>5, <2>2, <2>4, CoreFrame DEF Fields, Core
  <2>6. PICK h : h = Ready(w)
    OBVIOUS
  <2>7. /\ Same(w, h, Fields \ {"timer", "waiting", "attempts", "recovery", "ready"})
        /\ Good(h, sessions) /\ Follows(w, h)
        /\ w.phase \in {"parsed", "ok"} => Keeps(w, h)
    BY <2>5, <2>6, ReadyGood
  <2>8. Keeps(w, h)
    <3>1. CASE heard.phase = "ok"
      BY <2>2, <2>7, <3>1 DEF Same, Fields
    <3>2. CASE heard.session = None
      <4>1. h.session = None
        BY <2>2, <2>7, <3>2 DEF Same, Fields
      <4>. QED BY <2>7, <4>1, KeepsFrame
    <3>. QED BY <1>5, <3>1, <3>2
  <2>9. Do(h)
    BY <1>2, <1>4, <1>8, <2>1, <2>6 DEF NativeCanPlay
  <2>10. Follows(tab, h) /\ Keeps(tab, h)
    BY <1>6, <2>5, <2>7, <2>8, FollowsTransitive, KeepsTransitive
  <2>. QED BY <2>7, <2>9, <2>10, DoFollows
<1>. QED BY <1>7, <1>8

\* canplay without a load before it
LEMMA OtherCanPlayStep ==
    ASSUME DriverInv, OtherCanPlay
    PROVE  DriverInv' /\ Follows(tab, tab')
<1>1. Good(tab, sessions) /\ tab.phase = "ok"
  BY DEF DriverInv, OtherCanPlay
<1>2. PICK h : h = CanPlay(tab)
  OBVIOUS
<1>3. Good(h, sessions) /\ Follows(tab, h) /\ Keeps(tab, h)
  BY <1>1, <1>2, CanPlayGood
<1>. QED BY <1>2, <1>3, DoFollows DEF OtherCanPlay

\* The wait for canplay is over.
LEMMA CanPlayTimeoutStep ==
    ASSUME DriverInv, CanPlayTimeout
    PROVE  DriverInv' /\ Follows(tab, tab')
<1>1. Good(tab, sessions) /\ tab.waiters # None
  BY DEF DriverInv, CanPlayTimeout
<1>2. tab.waiters \in [to : Maybe(Positions), timer : BOOLEAN]
  BY <1>1 DEF Good, Typed, MediaTyped, Maybe
<1>3. PICK waiters : waiters = [tab.waiters EXCEPT !.timer = FALSE]
  OBVIOUS
<1>4. waiters \in [to : Maybe(Positions), timer : BOOLEAN]
  BY <1>2, <1>3
<1>5. PICK q : q = [tab EXCEPT !.waiters.timer = FALSE]
  OBVIOUS
<1>6. Same(tab, q, Fields \ {"waiters"}) /\ q.waiters = waiters
  BY <1>1, <1>3, <1>5 DEF Good, Same, IsTab, Fields
<1>7. MediaTyped(q, sessions)
  BY <1>1, <1>4, <1>6 DEF Good, Typed, MediaTyped, Same, Fields, Maybe
<1>8. Typed(q, sessions)
  BY <1>1, <1>6, <1>7, FrameTyped DEF Good, Typed, Fields
<1>9. Good(q, sessions) /\ Follows(tab, q) /\ Keeps(tab, q)
  BY <1>1, <1>6, <1>8, CoreFrame DEF Fields, Core
<1>10. Do(ScheduleRecovery(q))
  BY <1>5 DEF CanPlayTimeout
<1>. QED BY <1>9, <1>10, RecoveryStep

\* error
LEMMA ElementErrorStep ==
    ASSUME DriverInv, ElementError
    PROVE  DriverInv' /\ Follows(tab, tab')
<1>1. Good(tab, sessions) /\ tab.source = "session"
  BY DEF DriverInv, ElementError
<1>2. PICK q : q = [tab EXCEPT !.phase = IF tab.driver = "hls-native" THEN "failed" ELSE @]
  OBVIOUS
<1>3. Do(ScheduleRecovery(q))
  BY <1>2 DEF ElementError
<1>4. CASE tab.driver = "hls-native"
  <2>1. q = [tab EXCEPT !.phase = "failed"]
    BY <1>2, <1>4
  <2>2. Good(q, sessions) /\ Follows(tab, q) /\ Keeps(tab, q)
    BY <1>1, <2>1, PhaseFailed
  <2>. QED BY <1>3, <2>2, RecoveryStep
<1>5. CASE tab.driver # "hls-native"
  <2>1. Same(tab, q, Fields)
    BY <1>1, <1>2, <1>5 DEF Good, Same, IsTab, Fields
  <2>2. Typed(q, sessions)
    BY <1>1, <2>1, FrameTyped DEF Good, Typed, Fields
  <2>3. Good(q, sessions) /\ Follows(tab, q) /\ Keeps(tab, q)
    BY <1>1, <2>1, <2>2, CoreFrame DEF Fields, Core
  <2>. QED BY <1>3, <2>3, RecoveryStep
<1>. QED BY <1>4, <1>5

\* waiting and stalled
LEMMA BufferingStep ==
    ASSUME DriverInv, Buffering
    PROVE  DriverInv' /\ Follows(tab, tab')
  BY RecoveryStep, FollowsTransitive, KeepsTransitive DEF Buffering, DriverInv

\* pause() as a handler.
LEMMA PauseStep ==
    ASSUME DriverInv, Do(Pause(tab))
    PROVE  DriverInv' /\ Follows(tab, tab')
<1>1. PICK h : h = Pause(tab)
  OBVIOUS
<1>2. Same(tab, h, Fields \ {"paused"}) /\ Good(h, sessions) /\ Follows(tab, h)
  BY <1>1, PauseGood DEF DriverInv
<1>3. Keeps(tab, h)
  BY <1>2, CoreFrame DEF DriverInv, Good, Fields, Core
<1>. QED BY <1>1, <1>2, <1>3, DoFollows

\* playing
LEMMA PlaybackStartedStep ==
    ASSUME DriverInv, PlaybackStarted
    PROVE  DriverInv' /\ Follows(tab, tab')
<1>1. Good(tab, sessions) /\ tab.phase = "ok"
  BY DEF DriverInv, PlaybackStarted
<1>2. CASE ~tab.playing
  BY <1>2, PauseStep DEF PlaybackStarted
<1>3. CASE tab.playing
  <2>1. PICK q : q = Ready(tab)
    OBVIOUS
  <2>2. Good(q, sessions) /\ Follows(tab, q) /\ Keeps(tab, q)
    BY <1>1, <2>1, ReadyGood
  <2>3. PICK h : h = SyncAt(q, tab.context, tab.position)
    OBVIOUS
  <2>4. tab.position \in Positions
    BY <1>1 DEF Good, Typed, PlaceTyped
  <2>5. Good(h, sessions) /\ Follows(q, h) /\ Keeps(q, h)
    BY <2>2, <2>3, <2>4, SyncAtGood
  <2>6. Do(h)
    BY <1>3, <2>1, <2>3 DEF PlaybackStarted
  <2>. QED BY <2>2, <2>5, <2>6, FollowsTransitive, KeepsTransitive, DoFollows
<1>. QED BY <1>2, <1>3

\* pause, of the element alone
LEMMA PausedStep ==
    ASSUME DriverInv, Paused
    PROVE  DriverInv' /\ Follows(tab, tab')
  BY PauseStep DEF Paused

\* The element is still paused.
LEMMA PauseReconciledStep ==
    ASSUME DriverInv, PauseReconciled
    PROVE  DriverInv' /\ Follows(tab, tab')
<1>1. PICK q : q = Sync(tab, tab.context)
  OBVIOUS
<1>2. Good(q, sessions) /\ Follows(tab, q) /\ Keeps(tab, q)
  BY <1>1, SyncGood DEF DriverInv
<1>3. Do(ScheduleRecovery(q))
  BY <1>1 DEF PauseReconciled
<1>. QED BY <1>2, <1>3, RecoveryStep

\* timeupdate and what else keeps the timeline
LEMMA TimelineSyncStep ==
    ASSUME DriverInv, TimelineSync
    PROVE  DriverInv' /\ Follows(tab, tab')
<1>1. PICK q : q = Sync(tab, tab.context)
  OBVIOUS
<1>2. Good(q, sessions) /\ Follows(tab, q) /\ Keeps(tab, q)
  BY <1>1, SyncGood DEF DriverInv
<1>. QED BY <1>1, <1>2, DoFollows DEF TimelineSync

\* The stream of the item is there.
LEMMA StreamResolvedStep ==
    ASSUME DriverInv, StreamResolved
    PROVE  DriverInv' /\ Follows(tab, tab')
<1>1. Good(tab, sessions)
  BY DEF DriverInv
<1>2. PICK h : h = [tab EXCEPT !.resolved = TRUE]
  OBVIOUS
<1>3. Same(tab, h, Fields \ {"resolved"}) /\ h.resolved = TRUE
  BY <1>1, <1>2 DEF Good, Same, IsTab, Fields
<1>4. FlagsTyped(h)
  BY <1>1, <1>3 DEF Good, Typed, FlagsTyped, Same, Fields
<1>5. Typed(h, sessions)
  BY <1>1, <1>3, <1>4, FrameTyped DEF Good, Typed, Fields
<1>6. Good(h, sessions) /\ Follows(tab, h) /\ Keeps(tab, h)
  BY <1>1, <1>3, <1>5, CoreFrame DEF Fields, Core
<1>. QED BY <1>2, <1>6, DoFollows DEF StreamResolved

\* The element plays on.
LEMMA AdvanceStep ==
    ASSUME DriverInv, Advance
    PROVE  DriverInv' /\ Follows(tab, tab')
<1>1. Good(tab, sessions) /\ tab.session # None
  BY DEF DriverInv, Advance
<1>2. tab.session.id \in Ids(sessions)
  BY <1>1 DEF Good, Typed, SessionTyped
<1>3. sessions[tab.session.id] \in Timelines
  BY <1>2, Entry DEF DriverInv, SessionsTyped, Ids
<1>4. PICK n \in Items : n = sessions[tab.session.id].n
  BY <1>3 DEF Timelines
<1>5. PICK at \in Positions : at = tab.position
  BY <1>1 DEF Good, Typed, PlaceTyped
<1>6. at + 1 \in Positions
  <2>1. at + 1 < n
    BY <1>4, <1>5 DEF Advance
  <2>. QED BY <2>1, Numbers DEF Positions, Items
<1>7. PICK h : h = [tab EXCEPT !.position = @ + 1]
  OBVIOUS
<1>8. Same(tab, h, Fields \ {"position"}) /\ h.position = at + 1
  BY <1>1, <1>5, <1>7 DEF Good, Same, IsTab, Fields
<1>9. PlaceTyped(h)
  BY <1>1, <1>6, <1>8 DEF Good, Typed, PlaceTyped, Same, Fields
<1>10. Typed(h, sessions)
  BY <1>1, <1>8, <1>9, FrameTyped DEF Good, Typed, Fields
<1>11. Good(h, sessions) /\ Follows(tab, h) /\ Keeps(tab, h)
  BY <1>1, <1>8, <1>10, CoreFrame DEF Fields, Core
<1>. QED BY <1>7, <1>11, DoFollows DEF Advance

\* Playback that stops, and a promise that is settled.
LEMMA Lowered ==
    ASSUME NEW q, NEW ss, Good(q, ss), NEW r, Same(q, r, Fields \ {"playing", "nativePlay"}),
           r.playing \in BOOLEAN, r.playing => q.playing,
           r.nativePlay \in BOOLEAN, r.nativePlay => q.nativePlay
    PROVE  Good(r, ss) /\ Follows(q, r) /\ Keeps(q, r)
<1>1. FlagsTyped(r)
  BY DEF Good, Typed, FlagsTyped, Same, Fields
<1>2. Typed(r, ss)
  BY <1>1, FrameTyped DEF Good, Typed, Fields
<1>. QED BY <1>2, LowerFrame DEF Fields, Core

\* A player that stops.
LEMMA StopStep ==
    ASSUME DriverInv, Do([Pause(tab) EXCEPT !.playing = FALSE])
    PROVE  DriverInv' /\ Follows(tab, tab')
<1>1. Good(tab, sessions)
  BY DEF DriverInv
<1>2. PICK p : p = Pause(tab)
  OBVIOUS
<1>3. Same(tab, p, Fields \ {"paused"}) /\ Good(p, sessions) /\ Follows(tab, p)
  BY <1>1, <1>2, PauseGood
<1>4. Keeps(tab, p)
  BY <1>1, <1>3, CoreFrame DEF Good, Fields, Core
<1>5. PICK h : h = [p EXCEPT !.playing = FALSE]
  OBVIOUS
<1>6. /\ Same(p, h, Fields \ {"playing", "nativePlay"}) /\ h.playing = FALSE
      /\ h.nativePlay = p.nativePlay
  BY <1>3, <1>5 DEF Good, Same, IsTab, Fields
<1>7. p.nativePlay \in BOOLEAN
  BY <1>3 DEF Good, Typed, FlagsTyped
<1>8. Good(h, sessions) /\ Follows(p, h) /\ Keeps(p, h)
  BY <1>3, <1>6, <1>7, Lowered
<1>. QED BY <1>2, <1>3, <1>4, <1>5, <1>8, FollowsTransitive, KeepsTransitive, DoFollows

\* ended
LEMMA EndedStep ==
    ASSUME DriverInv, Ended
    PROVE  DriverInv' /\ Follows(tab, tab')
  BY StopStep DEF Ended

\* A play that is refused.
LEMMA PlayRefusedStep ==
    ASSUME DriverInv, PlayRefused
    PROVE  DriverInv' /\ Follows(tab, tab')
  BY StopStep DEF PlayRefused

\* The promise of play() is settled.
LEMMA PromiseSettled ==
    ASSUME NEW q, NEW ss, Good(q, ss), NEW r, r = [q EXCEPT !.nativePlay = FALSE]
    PROVE  /\ Same(q, r, Fields \ {"nativePlay"})
           /\ Good(r, ss) /\ Follows(q, r) /\ Keeps(q, r)
<1>1. Same(q, r, Fields \ {"nativePlay"}) /\ r.nativePlay = FALSE
  BY DEF Good, Same, IsTab, Fields
<1>2. Same(q, r, Fields \ {"playing", "nativePlay"}) /\ r.playing = q.playing
  BY <1>1 DEF Same, Fields
<1>3. q.playing \in BOOLEAN
  BY DEF Good, Typed, FlagsTyped
<1>. QED BY <1>1, <1>2, <1>3, Lowered

\* It resolves.
LEMMA NativePlayResolvedStep ==
    ASSUME DriverInv, NativePlayResolved
    PROVE  DriverInv' /\ Follows(tab, tab')
<1>1. Good(tab, sessions) /\ tab.phase = "ok"
  BY DEF DriverInv, NativePlayResolved
<1>2. PICK q : q = [tab EXCEPT !.nativePlay = FALSE]
  OBVIOUS
<1>3. /\ Same(tab, q, Fields \ {"nativePlay"})
      /\ Good(q, sessions) /\ Follows(tab, q) /\ Keeps(tab, q)
  BY <1>1, <1>2, PromiseSettled
<1>4. CASE ~tab.playing
  <2>1. Do(q)
    BY <1>2, <1>4 DEF NativePlayResolved
  <2>. QED BY <1>3, <2>1, DoFollows
<1>5. CASE tab.playing
  <2>1. PICK r : r = Ready(q)
    OBVIOUS
  <2>2. q.phase = "ok" /\ q.playing = tab.playing
    BY <1>1, <1>3 DEF Same, Fields
  <2>3. /\ Same(q, r, Fields \ {"timer", "waiting", "attempts", "recovery", "ready"})
        /\ Good(r, sessions) /\ Follows(q, r) /\ Keeps(q, r)
    BY <1>3, <2>1, <2>2, ReadyGood
  <2>4. r.playing = TRUE
    <3>1. r.playing = tab.playing
      BY <2>2, <2>3 DEF Same, Fields
    <3>2. tab.playing \in BOOLEAN
      BY <1>1 DEF Good, Typed, FlagsTyped
    <3>. QED BY <1>5, <3>1, <3>2
  <2>5. PICK h : h = [r EXCEPT !.playing = TRUE]
    OBVIOUS
  <2>6. Same(r, h, Fields)
    BY <2>3, <2>4, <2>5 DEF Good, Same, IsTab, Fields
  <2>7. Typed(h, sessions)
    BY <2>3, <2>6, FrameTyped DEF Good, Typed, Fields
  <2>8. Good(h, sessions) /\ Follows(r, h) /\ Keeps(r, h)
    BY <2>3, <2>6, <2>7, CoreFrame DEF Fields, Core
  <2>9. Do(h)
    BY <1>2, <1>5, <2>1, <2>5 DEF NativePlayResolved
  <2>10. Follows(tab, h) /\ Keeps(tab, h)
    BY <1>3, <2>3, <2>8, FollowsTransitive, KeepsTransitive
  <2>. QED BY <2>8, <2>9, <2>10, DoFollows
<1>. QED BY <1>4, <1>5

\* It is aborted.
LEMMA NativePlayAbortedStep ==
    ASSUME DriverInv, NativePlayAborted
    PROVE  DriverInv' /\ Follows(tab, tab')
<1>1. PICK h : h = [tab EXCEPT !.nativePlay = FALSE]
  OBVIOUS
<1>2. Good(h, sessions) /\ Follows(tab, h) /\ Keeps(tab, h)
  BY <1>1, PromiseSettled DEF DriverInv
<1>. QED BY <1>1, <1>2, DoFollows DEF NativePlayAborted

\* The browser wants the user to press play.
LEMMA NativePlayBlockedStep ==
    ASSUME DriverInv, NativePlayBlocked
    PROVE  DriverInv' /\ Follows(tab, tab')
<1>1. Good(tab, sessions)
  BY DEF DriverInv
<1>2. PICK p : p = Pause(tab)
  OBVIOUS
<1>3. Same(tab, p, Fields \ {"paused"}) /\ Good(p, sessions) /\ Follows(tab, p)
  BY <1>1, <1>2, PauseGood
<1>4. PICK c : c = ClearRecovery(p)
  OBVIOUS
<1>5. /\ Same(p, c, Fields \ {"timer", "waiting", "attempts"})
      /\ Good(c, sessions) /\ Follows(p, c)
  BY <1>3, <1>4, ClearRecoveryGood
<1>6. Keeps(tab, p) /\ Keeps(p, c)
  BY <1>1, <1>3, <1>5, CoreFrame DEF Good, Fields, Core
<1>7. PICK h : h = [c EXCEPT !.nativePlay = FALSE, !.playing = FALSE]
  OBVIOUS
<1>8. /\ Same(c, h, Fields \ {"playing", "nativePlay"})
      /\ h.playing = FALSE /\ h.nativePlay = FALSE
  BY <1>5, <1>7 DEF Good, Same, IsTab, Fields
<1>9. Good(h, sessions) /\ Follows(c, h) /\ Keeps(c, h)
  BY <1>5, <1>8, Lowered
<1>10. Do(h)
  BY <1>2, <1>4, <1>7 DEF NativePlayBlocked
<1>11. Follows(tab, h) /\ Keeps(tab, h)
  BY <1>3, <1>5, <1>6, <1>9, FollowsTransitive, KeepsTransitive
<1>. QED BY <1>9, <1>10, <1>11, DoFollows

\* It fails.
LEMMA NativePlayFailedStep ==
    ASSUME DriverInv, NativePlayFailed
    PROVE  DriverInv' /\ Follows(tab, tab')
<1>1. Good(tab, sessions)
  BY DEF DriverInv
<1>2. PICK p : p = Pause(tab)
  OBVIOUS
<1>3. Same(tab, p, Fields \ {"paused"}) /\ Good(p, sessions) /\ Follows(tab, p)
  BY <1>1, <1>2, PauseGood
<1>4. Keeps(tab, p)
  BY <1>1, <1>3, CoreFrame DEF Good, Fields, Core
<1>5. PICK q : q = [p EXCEPT !.nativePlay = FALSE]
  OBVIOUS
<1>6. Good(q, sessions) /\ Follows(p, q) /\ Keeps(p, q)
  BY <1>3, <1>5, PromiseSettled
<1>7. Do(ScheduleRecovery(q))
  BY <1>2, <1>5 DEF NativePlayFailed
<1>. QED BY <1>3, <1>4, <1>6, <1>7, FollowsTransitive, KeepsTransitive, RecoveryStep

\* The recovery timer fires.
LEMMA RecoveryDueStep ==
    ASSUME DriverInv, RecoveryDue
    PROVE  DriverInv' /\ Follows(tab, tab')
<1>1. Good(tab, sessions) /\ tab.timer # None
  BY DEF DriverInv, RecoveryDue
<1>2. /\ tab.timer \in [id : Ids(sessions), at : Positions]
      /\ tab.attempts \in 0..MaxAttempts /\ tab.attempts < MaxAttempts
  BY <1>1 DEF Good, Typed, TimerTyped, Maybe
<1>3. PICK q : q = [tab EXCEPT !.timer = None]
  OBVIOUS
<1>4. Same(tab, q, Fields \ {"timer"}) /\ q.timer = None
  BY <1>1, <1>3 DEF Good, Same, IsTab, Fields
<1>5. Good(q, sessions) /\ Follows(tab, q) /\ Keeps(tab, q)
  <2>1. q.attempts = tab.attempts
    BY <1>4 DEF Same, Fields
  <2>2. TimerTyped(q, sessions)
    BY <1>2, <1>4, <2>1 DEF TimerTyped, Maybe
  <2>3. Typed(q, sessions)
    BY <1>1, <1>4, <2>2, FrameTyped DEF Good, Typed, Fields
  <2>. QED BY <1>1, <1>4, <2>3, CoreFrame DEF Fields, Core
<1>6. PICK again : again = [q EXCEPT !.attempts = @ + 1]
  OBVIOUS
<1>7. Same(q, again, Fields \ {"attempts"}) /\ again.attempts = tab.attempts + 1
  BY <1>4, <1>5, <1>6 DEF Good, Same, IsTab, Fields
<1>8. Good(again, sessions) /\ Follows(q, again) /\ Keeps(q, again)
  <2>1. again.timer = None
    BY <1>4, <1>7 DEF Same, Fields
  <2>2. tab.attempts + 1 \in 0..MaxAttempts
    BY <1>2, Numbers
  <2>3. TimerTyped(again, sessions)
    BY <1>7, <2>1, <2>2 DEF TimerTyped, Maybe
  <2>4. Typed(again, sessions)
    BY <1>5, <1>7, <2>3, FrameTyped DEF Good, Typed, Fields
  <2>. QED BY <1>5, <1>7, <2>4, CoreFrame DEF Fields, Core
<1>9. Follows(tab, again) /\ Keeps(tab, again)
  BY <1>5, <1>8, FollowsTransitive, KeepsTransitive
<1>10. CASE Do(q)
  BY <1>5, <1>10, DoFollows
<1>11. CASE Do(ScheduleRecovery(q))
  BY <1>5, <1>11, RecoveryStep
<1>12. CASE Do(again)
  BY <1>8, <1>9, <1>12, DoFollows
<1>13. CASE q.driver = "hls-js" /\ Do([again EXCEPT !.phase = StartLoad(q)])
  <2>1. /\ again.driver = "hls-js" /\ again.phase = q.phase /\ again.hls = q.hls
        /\ again.source = q.source /\ q.driver = "hls-js"
    BY <1>7, <1>13 DEF Same, Fields
  <2>2. PICK phase : phase = StartLoad(q)
    OBVIOUS
  <2>3. /\ phase = q.phase \/ phase \in {"parsed", "loading"}
        /\ q.phase # "failed" => phase = q.phase
        /\ q.phase = "failed" => q.hls # None
        /\ q.phase = "failed" /\ phase = "parsed" => q.hls.to = None
        /\ q.phase = "failed" /\ phase = "loading" => q.hls.to # None
    <3>1. q.phase = "failed" => q.hls # None
      BY <1>5, <2>1 DEF Good, Kinds
    <3>2. q.phase # "failed" => phase = q.phase
      BY <2>2 DEF StartLoad
    <3>3. q.phase = "failed" /\ q.hls.to = None => phase = "parsed"
      BY <2>2 DEF StartLoad
    <3>4. q.phase = "failed" /\ q.hls.to # None => phase = "loading"
      BY <2>2 DEF StartLoad
    <3>. QED BY <3>1, <3>2, <3>3, <3>4
  <2>4. PICK h : h = [again EXCEPT !.phase = phase]
    OBVIOUS
  <2>5. Same(again, h, Fields \ {"phase"}) /\ h.phase = phase
    BY <1>8, <2>4 DEF Good, Same, IsTab, Fields
  <2>6. Same(again, h, Fields \ {"phase", "position", "hls", "waiters", "recovery", "ready"})
    BY <2>5 DEF Same, Fields
  <2>7. again.phase \in {"empty", "loading", "parsed", "ok", "failed"}
    BY <1>8 DEF Good, Typed, MediaTyped
  <2>8. MediaTyped(h, sessions)
    BY <1>8, <2>1, <2>3, <2>5, <2>7 DEF Good, Typed, MediaTyped, Same, Fields
  <2>9. PlaceTyped(h)
    BY <1>8, <2>5 DEF Good, Typed, PlaceTyped, Same, Fields
  <2>10. Kinds(h)
    BY <1>8, <2>1, <2>3, <2>5 DEF Good, Kinds, Same, Fields
  <2>11. h.ready \in BOOLEAN /\ h.recovery \in BOOLEAN
    BY <1>8, <2>5 DEF Good, Typed, FlagsTyped, Same, Fields
  <2>12. Begun(h) => Begun(again)
    BY <2>1, <2>3, <2>5 DEF Begun, IsHLS, Same, Fields
  <2>13. Good(h, sessions) /\ Follows(again, h) /\ Keeps(again, h)
    BY <1>8, <2>6, <2>8, <2>9, <2>10, <2>11, <2>12, MediaFrame
  <2>14. Do(h)
    BY <1>13, <2>2, <2>4
  <2>. QED BY <1>9, <2>13, <2>14, FollowsTransitive, KeepsTransitive, DoFollows
<1>14. CASE q.driver = "hls-native" /\ Do(LoadNatively(again, tab.timer.at))
  <2>1. again.driver = "hls-native"
    BY <1>7, <1>14 DEF Same, Fields
  <2>2. tab.timer.at \in Positions
    BY <1>2
  <2>3. PICK h : h = LoadNatively(again, tab.timer.at)
    OBVIOUS
  <2>4. Good(h, sessions) /\ Follows(again, h) /\ Keeps(again, h)
    BY <1>8, <2>1, <2>2, <2>3, LoadNativelyGood
  <2>. QED BY <1>9, <1>14, <2>3, <2>4, FollowsTransitive, KeepsTransitive, DoFollows
<1>15. \/ Do(q) \/ Do(ScheduleRecovery(q)) \/ Do(again)
       \/ q.driver = "hls-js" /\ Do([again EXCEPT !.phase = StartLoad(q)])
       \/ q.driver = "hls-native" /\ Do(LoadNatively(again, tab.timer.at))
  BY <1>3, <1>6, Zenon DEF RecoveryDue
<1>. QED BY <1>10, <1>11, <1>12, <1>13, <1>14, <1>15

\* The connection is lost, or there again.
LEMMA Connection ==
    ASSUME NEW q, NEW ss, Good(q, ss), NEW r, NEW b \in BOOLEAN,
           r = [q EXCEPT !.online = b] \/ r = [q EXCEPT !.waiting = b]
    PROVE  Good(r, ss) /\ Follows(q, r) /\ Keeps(q, r)
<1>1. /\ Same(q, r, Fields \ {"online", "waiting"})
      /\ r.online \in BOOLEAN /\ r.waiting \in BOOLEAN
  BY DEF Good, Typed, FlagsTyped, Same, IsTab, Fields
<1>2. FlagsTyped(r)
  BY <1>1 DEF Good, Typed, FlagsTyped, Same, Fields
<1>3. Typed(r, ss)
  BY <1>1, <1>2, FrameTyped DEF Good, Typed, Fields
<1>. QED BY <1>1, <1>3, CoreFrame DEF Fields, Core

\* The connection is lost.
LEMMA OfflineStep ==
    ASSUME DriverInv, Offline
    PROVE  DriverInv' /\ Follows(tab, tab')
<1>1. PICK h : h = [tab EXCEPT !.online = FALSE]
  OBVIOUS
<1>2. Good(h, sessions) /\ Follows(tab, h) /\ Keeps(tab, h)
  BY <1>1, Connection DEF DriverInv
<1>. QED BY <1>1, <1>2, DoFollows DEF Offline

\* It is there again.
LEMMA OnlineStep ==
    ASSUME DriverInv, Online
    PROVE  DriverInv' /\ Follows(tab, tab')
<1>1. PICK q : q = [tab EXCEPT !.online = TRUE]
  OBVIOUS
<1>2. Good(q, sessions) /\ Follows(tab, q) /\ Keeps(tab, q)
  BY <1>1, Connection DEF DriverInv
<1>3. PICK r : r = [q EXCEPT !.waiting = FALSE]
  OBVIOUS
<1>4. Good(r, sessions) /\ Follows(q, r) /\ Keeps(q, r)
  BY <1>2, <1>3, Connection
<1>5. Do(q) \/ Do(ScheduleRecovery(r))
  BY <1>1, <1>3 DEF Online
<1>6. Follows(tab, r) /\ Keeps(tab, r)
  BY <1>2, <1>4, FollowsTransitive, KeepsTransitive
<1>. QED BY <1>2, <1>4, <1>5, <1>6, RecoveryStep, DoFollows

-----------------------------------------------------------------------------
(* The page when it is loaded. *)

\* A page that is loaded with a store that was persisted is settled.
LEMMA MountedGood ==
    ASSUME NEW ss, NEW kind \in {"native", "js"}, NEW store,
           store.context \in Nat, store.time \in Positions,
           store.queue \in [kind : {"list", "playback"}, list : Nat, n : 0..MaxItems],
           store.current \in 0..store.queue.n, store.session \in Maybe(Ids(ss)),
           store.session = None => store.time = 0,
           NEW q, q = Mounted(store, kind)
    PROVE  Good(q, ss) /\ Settled(q)
<1>1. PICK p : p = [
        playing |-> FALSE, context |-> store.context, current |-> store.current,
        time |-> store.time, queue |-> store.queue,
        storeSession |-> store.session, storeContext |-> store.sessionContext,
        driver |-> "progressive", ready |-> TRUE, recovery |-> FALSE,
        session |-> None, attachedTo |-> None, seen |-> None,
        request |-> None, refreshes |-> {}, next |-> None,
        timer |-> None, attempts |-> 0, waiting |-> FALSE, nativePlay |-> FALSE,
        module |-> None, hls |-> None, waiters |-> None,
        source |-> "empty", phase |-> "empty", position |-> 0,
        paused |-> TRUE, assigned |-> None, resolved |-> FALSE,
        released |-> {}, platform |-> kind, online |-> TRUE]
  OBVIOUS
<1>2. q = StartEffect(p)
  BY <1>1 DEF Mounted
<1>3. IsTab(p)
  BY <1>1 DEF IsTab, Fields
<1>4. /\ p.playing = FALSE /\ p.context = store.context /\ p.current = store.current
      /\ p.time = store.time /\ p.queue = store.queue /\ p.storeSession = store.session
      /\ p.driver = "progressive" /\ p.ready = TRUE /\ p.recovery = FALSE
      /\ p.session = None /\ p.attachedTo = None /\ p.seen = None
      /\ p.request = None /\ p.refreshes = {} /\ p.next = None
      /\ p.timer = None /\ p.attempts = 0 /\ p.waiting = FALSE /\ p.nativePlay = FALSE
  BY <1>1
<1>5. /\ p.module = None /\ p.hls = None /\ p.waiters = None
      /\ p.source = "empty" /\ p.phase = "empty" /\ p.position = 0
      /\ p.paused = TRUE /\ p.resolved = FALSE
      /\ p.released = {} /\ p.platform = kind /\ p.online = TRUE
  BY <1>1
<1>6. Typed(p, ss)
  <2>1. SessionTyped(p, ss) /\ ContextTyped(p) /\ SeenTyped(p)
    BY <1>4 DEF SessionTyped, ContextTyped, SeenTyped, Maybe
  <2>2. RequestTyped(p, ss) /\ RefreshTyped(p, ss)
    BY <1>4 DEF RequestTyped, RefreshTyped, Maybe
  <2>3. TimerTyped(p, ss)
    BY <1>4, Numbers DEF TimerTyped, Maybe
  <2>4. MediaTyped(p, ss)
    BY <1>5 DEF MediaTyped, Maybe
  <2>5. PlaceTyped(p) /\ QueueTyped(p) /\ StoreTyped(p, ss)
    BY <1>4, <1>5, Numbers DEF PlaceTyped, QueueTyped, StoreTyped
  <2>6. KindTyped(p) /\ FlagsTyped(p)
    BY <1>4, <1>5 DEF KindTyped, FlagsTyped, Drivers
  <2>. QED BY <2>1, <2>2, <2>3, <2>4, <2>5, <2>6 DEF Typed
<1>7. Live(p) /\ Matches(p) /\ Kinds(p)
  BY <1>4, <1>5 DEF Live, Matches, Kinds, Own, IsHLS
<1>8. Good(p, ss)
  BY <1>3, <1>6, <1>7 DEF Good
<1>9. Held(p)
  BY <1>4 DEF Held, Own
<1>. QED BY <1>2, <1>8, <1>9, StartEffectGood

\* The queue of a page that is loaded at an item stays.
LEMMA MountedQueue ==
    ASSUME NEW store, NEW kind, store.current # 0
    PROVE  Mounted(store, kind).queue = store.queue
  BY DEF Mounted, StartEffect

\* The invariant holds when the page is loaded.
LEMMA Initially ==
    ASSUME Init
    PROVE  DriverInv
<1>1. PICK kind \in Platforms :
        \/ /\ tab = Mounted(NewStore, kind)
           /\ sessions = <<>>
        \/ /\ \E n \in FirstItems..MaxItems, k \in 1..MaxItems :
                  k <= n /\ tab = Mounted(PersistedStore(k, n), kind)
           /\ \E n \in tab.queue.n..MaxItems :
                  sessions = <<[list |-> 1, n |-> n, start |-> 0]>>
  BY DEF Init
<1>2. kind \in {"native", "js"}
  BY DriverConstants
<1>3. CASE tab = Mounted(NewStore, kind) /\ sessions = <<>>
  <2>1. SessionsTyped
    BY <1>3 DEF SessionsTyped, Ids
  <2>2. PICK store : store = NewStore
    OBVIOUS
  <2>3. /\ store.context \in Nat /\ store.time \in Positions
        /\ store.queue \in [kind : {"list", "playback"}, list : Nat, n : 0..MaxItems]
        /\ store.current \in 0..store.queue.n /\ store.session \in Maybe(Ids(sessions))
        /\ store.session = None => store.time = 0
    BY <2>2, Numbers DEF NewStore, Maybe
  <2>4. tab = Mounted(store, kind)
    BY <1>3, <2>2
  <2>5. Good(tab, sessions) /\ Settled(tab)
    BY <1>2, <2>3, <2>4, MountedGood
  <2>. QED BY <2>1, <2>5 DEF DriverInv
<1>4. ASSUME NEW n \in FirstItems..MaxItems, NEW k \in 1..MaxItems, k <= n,
             tab = Mounted(PersistedStore(k, n), kind),
             NEW m \in tab.queue.n..MaxItems,
             sessions = <<[list |-> 1, n |-> m, start |-> 0]>>
      PROVE  DriverInv
  <2>1. PICK store : store = PersistedStore(k, n)
    OBVIOUS
  <2>2. n \in Items /\ k \in 1..n
    BY <1>4, Numbers DEF Items
  <2>3. tab.queue.n = n
    BY <1>4, Numbers, MountedQueue DEF PersistedStore
  <2>4. m \in Items
    BY <1>4, <2>2, <2>3, Numbers DEF Items
  <2>5. PICK made : made = [list |-> 1, n |-> m, start |-> 0]
    OBVIOUS
  <2>6. made \in Timelines /\ made.start < made.n
    BY <2>4, <2>5, Numbers DEF Timelines
  <2>7. sessions \in Seq(Timelines) /\ Len(sessions) = 1 /\ sessions[1] = made
    BY <1>4, <2>5, <2>6
  <2>8. SessionsTyped
    BY <2>6, <2>7 DEF SessionsTyped, Ids
  <2>9. /\ store.context \in Nat /\ store.time \in Positions
        /\ store.queue \in [kind : {"list", "playback"}, list : Nat, n : 0..MaxItems]
        /\ store.current \in 0..store.queue.n
    BY <2>1, <2>2, Numbers DEF PersistedStore, Items
  <2>10. store.session \in Maybe(Ids(sessions)) /\ (store.session = None => store.time = 0)
    BY <2>1, <2>7, DriverConstants DEF PersistedStore, Maybe, Ids
  <2>11. tab = Mounted(store, kind)
    BY <1>4, <2>1
  <2>12. Good(tab, sessions) /\ Settled(tab)
    BY <1>2, <2>9, <2>10, <2>11, MountedGood
  <2>. QED BY <2>8, <2>12 DEF DriverInv
<1>. QED BY <1>1, <1>3, <1>4

-----------------------------------------------------------------------------
(* The theorems. *)

\* Every step keeps the invariant, deletes the session that it lets go of, and
\* starts playback only if the user asked for it.
LEMMA EveryStep ==
    ASSUME DriverInv, Next
    PROVE  /\ DriverInv' /\ LetsGo(tab, tab')
           /\ Follows(tab, tab') \/ TogglePlayback \/ ChooseQueue \/ ProgressiveNext
<1>1. CASE TogglePlayback \/ ChooseQueue \/ ProgressiveNext
  BY <1>1, TogglePlaybackStep, ChooseQueueStep, ProgressiveNextStep
<1>2. SUFFICES ASSUME ~(TogglePlayback \/ ChooseQueue \/ ProgressiveNext)
               PROVE  DriverInv' /\ Follows(tab, tab')
  BY <1>1 DEF Follows
<1>3. CASE NextTrack \/ PreviousTrack
  BY <1>3, NextTrackStep, PreviousTrackStep
<1>4. CASE SessionCreated \/ SessionFound \/ SessionGone \/ SessionRefused
  BY <1>4, SessionCreatedStep, SessionFoundStep, SessionGoneStep, SessionRefusedStep
<1>5. ASSUME NEW id \in DOMAIN sessions, Extend(id)
      PROVE  DriverInv' /\ Follows(tab, tab')
  BY <1>5, ExtendStep
<1>6. ASSUME NEW r \in tab.refreshes, RefreshAnswered(r) \/ RefreshFailed(r)
      PROVE  DriverInv' /\ Follows(tab, tab')
  BY <1>6, RefreshAnsweredStep, RefreshFailedStep
<1>7. CASE Refresh \/ ModuleLoaded \/ ModuleFailed
  BY <1>7, RefreshStep, ModuleLoadedStep, ModuleFailedStep
<1>8. CASE ManifestParsed \/ FragmentBuffered \/ NetworkError \/ MediaError \/ OtherError
  BY <1>8, ManifestParsedStep, FragmentBufferedStep, NetworkErrorStep, MediaErrorStep,
     OtherErrorStep
<1>9. CASE StreamResolved \/ MetadataLoaded \/ NativeCanPlay \/ OtherCanPlay \/ CanPlayTimeout
  BY <1>9, StreamResolvedStep, MetadataLoadedStep, NativeCanPlayStep, OtherCanPlayStep,
     CanPlayTimeoutStep
<1>10. CASE ElementError \/ Buffering \/ PlaybackStarted \/ Paused \/ PauseReconciled
  BY <1>10, ElementErrorStep, BufferingStep, PlaybackStartedStep, PausedStep,
     PauseReconciledStep
<1>11. CASE Ended \/ Advance \/ TimelineSync \/ NativePlayResolved \/ NativePlayAborted
  BY <1>11, EndedStep, AdvanceStep, TimelineSyncStep, NativePlayResolvedStep,
     NativePlayAbortedStep
<1>12. CASE NativePlayBlocked \/ NativePlayFailed \/ PlayRefused \/ RecoveryDue \/ Offline
            \/ Online
  BY <1>12, NativePlayBlockedStep, NativePlayFailedStep, PlayRefusedStep, RecoveryDueStep,
     OfflineStep, OnlineStep
<1>. QED
  BY <1>2, <1>3, <1>4, <1>5, <1>6, <1>7, <1>8, <1>9, <1>10, <1>11, <1>12, Zenon DEF Next

\* A step that changes nothing keeps the invariant.
LEMMA Stutter ==
    ASSUME DriverInv, UNCHANGED vars
    PROVE  DriverInv'
  BY DEF vars, DriverInv, SessionsTyped

\* DriverInv is an invariant: the base of the four theorems below.
THEOREM Invariant == Spec => []DriverInv
<1>1. Init => DriverInv
  BY Initially
<1>2. DriverInv /\ [Next]_vars => DriverInv'
  BY EveryStep, Stutter
<1>. QED BY <1>1, <1>2, PTL DEF Spec

\* What is recorded of a session names one that exists, the place that is shown
\* and the place that plays are items, and attempts are counted to MaxAttempts:
\* no handler leaves the tab with a value that another could not take.
THEOREM TypeCorrect == Spec => []TypeOK
<1>1. ASSUME DriverInv PROVE TypeOK
  <2>1. Typed(tab, sessions) /\ DOMAIN sessions = Ids(sessions)
    BY <1>1 DEF DriverInv, Good, SessionsTyped, Ids
  <2>2. tab.driver \in Drivers
    BY <2>1 DEF Typed, KindTyped
  <2>3. tab.session # None => /\ tab.session.id \in DOMAIN sessions
                              /\ tab.session.n <= sessions[tab.session.id].n
    BY <2>1 DEF Typed, SessionTyped
  <2>4. tab.timer # None => tab.timer.id \in DOMAIN sessions
    BY <2>1 DEF Typed, TimerTyped, Maybe
  <2>5. tab.storeSession \in Maybe(DOMAIN sessions)
    BY <2>1 DEF Typed, StoreTyped
  <2>6. tab.attempts \in 0..MaxAttempts
    BY <2>1 DEF Typed, TimerTyped
  <2>7. {tab.position, tab.time} \subseteq Positions
    BY <2>1 DEF Typed, PlaceTyped
  <2>8. tab.current \in 0..tab.queue.n /\ tab.queue.n \in 0..MaxItems
    BY <2>1 DEF Typed, QueueTyped
  <2>9. /\ tab.phase \in {"empty", "loading", "parsed", "ok", "failed"}
        /\ tab.source \in {"empty", "stream", "session"}
    BY <2>1 DEF Typed, MediaTyped
  <2>. QED BY <2>2, <2>3, <2>4, <2>5, <2>6, <2>7, <2>8, <2>9 DEF TypeOK
<1>. QED BY <1>1, Invariant, PTL

\* What plays is what is shown: a session that is ready, with no request for
\* another, is the one of the queue that the store shows, and the store names it.
THEOREM StoreFollowsHolds == Spec => []StoreFollows
<1>1. ASSUME DriverInv PROVE StoreFollows
  <2>1. SUFFICES ASSUME IsHLS(tab), tab.ready, tab.request = None
                 PROVE  /\ tab.storeSession = tab.session.id
                        /\ tab.queue.kind = "playback" /\ tab.queue.list = tab.session.list
    BY DEF StoreFollows
  <2>2. tab.session # None
    BY <1>1, <2>1 DEF DriverInv, Good, Live
  <2>3. Own(tab) /\ Held(tab)
    BY <1>1, <2>1, <2>2 DEF DriverInv, Settled
  <2>4. Shown(tab)
    BY <2>1, <2>3 DEF Held, Begun
  <2>. QED BY <1>1, <2>3, <2>4 DEF Shown, DriverInv, Good, Matches
<1>. QED BY <1>1, Invariant, PTL

\* Playback that was paused starts again only when the user asks for it: no
\* answer, timer, event or promise that comes late resumes it.
THEOREM PauseHoldsHolds == Spec => PauseHolds
<1>1. ASSUME DriverInv, [Next]_vars
      PROVE  [~tab.playing /\ tab'.playing
                  => TogglePlayback \/ ChooseQueue \/ ProgressiveNext]_vars
  BY <1>1, EveryStep DEF vars, Follows
<1>. QED BY <1>1, Invariant, PTL DEF Spec, PauseHolds

\* A session that is let go of is deleted; one that is attached, or stored to
\* be resumed, never is.
THEOREM ReleasedHolds == Spec => Released
<1>1. ASSUME DriverInv, [Next]_vars
      PROVE  [tab.session # None /\ (tab'.session = None \/ tab'.session.id # tab.session.id)
                  => tab.session.id \in tab'.released]_vars
  BY <1>1, EveryStep DEF vars, LetsGo
<1>2. ASSUME DriverInv
      PROVE  \A id \in tab.released :
                tab.storeSession # id /\ (tab.session = None \/ tab.session.id # id)
  BY <1>2 DEF DriverInv, Good, Live
<1>. QED BY <1>1, <1>2, Invariant, PTL DEF Spec, Released
=============================================================================
