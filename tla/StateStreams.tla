---------------------------- MODULE StateStreams ----------------------------
(***************************************************************************)
(* The consumers of the one-slot stores: a /ws/state socket, a /ws/bundle  *)
(* socket and a /stream.mjpg response (web/app.py) and the SteamVR         *)
(* controller, polled by the Windows bridge and by its web page            *)
(* (steamvr/service.py), while the capture thread and the perception       *)
(* worker publish and a camera switch clears.                              *)
(*                                                                         *)
(* Consumers only read the stores: a behaviour follows one of them, `who', *)
(* against every order of publications and clears.                         *)
(*                                                                         *)
(* A socket is an asyncio task whose waits run in another thread: what a   *)
(* wait returned may be superseded when the task resumes.  There are two   *)
(* clocks: the monotonic `now' and the wall clock, which an operator or a  *)
(* time service may step.                                                  *)
(***************************************************************************)
EXTENDS Integers, Sequences

CONSTANTS
  StaleAfter,  \* stale_after_ms and bundle_stale_after_ms, in ticks
  MaxNow,      \* bound: ticks in a behaviour
  MaxGen,      \* bound: publications and clears in a behaviour
  Skews,       \* wall clock minus monotonic clock, the values it may take
  FirstSkew,   \* its value before the step
  None

ASSUME StreamsAssumption ==
  /\ StaleAfter \in Nat /\ MaxNow \in Nat /\ MaxGen \in Nat
  /\ Skews \subseteq Nat /\ FirstSkew \in Skews /\ None \notin Nat

VARIABLES
  now, skew, stepped,   \* the clocks; when the wall clock was stepped, or None
  states, bundles,      \* the stores: generation and slot
  captured,             \* when the frame was captured whose state came last
  producer,             \* what the worker or the switch does next
  who,                  \* the consumer this behaviour follows
  sock,                 \* the two socket tasks: label, cursor, wait result
  frames, stream,       \* the frame store; the response that streams from it
  notified,             \* stale_notified of the bundle socket
  observed,             \* the controller's latch on a generation
  cache,                \* its render cache
  log,                  \* history: every publication of the state store
  shown, vrFrame        \* history: last message of a socket, last overlay served

clocks  == <<now, skew, stepped>>
stores  == <<states, bundles, captured, producer, log, who>>
sockets == <<sock, notified, shown>>
video   == <<frames, stream>>
steamvr == <<observed, cache, vrFrame>>
vars    == <<clocks, stores, sockets, video, steamvr>>

-----------------------------------------------------------------------------
Wall == now + skew

\* What the wall clock may have shown at tick t.
WallAt(t) ==
  {t + s : s \in {s \in {FirstSkew, skew} :
                    /\ s = FirstSkew => stepped = None \/ t <= stepped
                    /\ s = skew => stepped = None \/ t >= stepped}}

\* A SceneState: the time its consumer reads (wall clock), which is when its
\* frame was captured for the controller and when it was emitted for the bundle
\* socket; and whether its keyboard pose is usable and of the controller's
\* model revisions.
Scene == [at : Nat, usable : BOOLEAN]
Slot  == Scene \cup {None}
Store == [gen : Nat, latest : Slot]
Sockets == {"state", "bundle"}
Consumers == Sockets \cup {"steamvr", "mjpeg"}

Empty == [gen |-> 0, latest |-> None]

Init ==
  /\ now = 0 /\ skew = FirstSkew /\ stepped = None
  /\ states = Empty /\ bundles = Empty /\ captured = 0 /\ producer = "idle"
  /\ sock = [s \in Sockets |-> [pc |-> "closed", cursor |-> 0, got |-> Empty]]
  /\ notified = FALSE
  /\ frames = [id |-> 0, latest |-> 0] /\ stream = [pc |-> "closed", after |-> 0, got |-> 0, shown |-> 0, lit |-> FALSE]
  /\ observed = [gen |-> -1, deadline |-> 0, expired |-> TRUE, since |-> 0]
  /\ cache = [gen |-> -1, fresh |-> FALSE, image |-> None]
  /\ log = <<>>
  /\ shown = [s \in Sockets |-> [gen |-> 0, view |-> None]]
  /\ who \in Consumers
  /\ vrFrame = [polled |-> FALSE, gen |-> 0, fresh |-> FALSE, image |-> None, at |-> 0, since |-> 0]

-----------------------------------------------------------------------------
(* The stores.  The worker publishes the state, then the bundle of the     *)
(* same frame; a switch, whose worker has stopped, clears both.  Only the  *)
(* behaviours that follow its reader write the bundle store.               *)

\* Mutant: a clear empties the slot without a new generation.
ClearedSilently(store) == [store EXCEPT !.latest = None]
Cleared(store) == [gen |-> store.gen + 1, latest |-> None]
Published(store, scene) == [gen |-> store.gen + 1, latest |-> scene]

Then(write) == IF who = "bundle" THEN write ELSE "idle"

\* A state is emitted now; its frame was captured earlier, but after the frames
\* before it and after the last switch.
PublishState ==
  /\ who # "mjpeg" /\ producer = "idle" /\ states.gen < MaxGen
  /\ \E t \in IF who = "steamvr" THEN captured .. now ELSE {now}, usable \in BOOLEAN :
       \E at \in IF who = "steamvr" THEN WallAt(t) ELSE {Wall} :
         LET scene == [at |-> at, usable |-> usable]
         IN  /\ states' = Published(states, scene)
             /\ log' = Append(log, scene)
             /\ captured' = t
  /\ producer' = Then("publish")
  /\ UNCHANGED <<clocks, bundles, who, sockets, steamvr, video>>

PublishBundle ==
  /\ producer = "publish"
  /\ bundles' = Published(bundles, states.latest)
  /\ producer' = "idle"
  /\ UNCHANGED <<clocks, states, captured, log, who, sockets, steamvr, video>>

ClearStates ==
  /\ who # "mjpeg" /\ producer = "idle" /\ states.gen < MaxGen
  /\ states' = Cleared(states)
  /\ log' = Append(log, None)
  /\ captured' = now
  /\ producer' = Then("clear")
  /\ UNCHANGED <<clocks, bundles, who, sockets, steamvr, video>>

ClearBundles ==
  /\ producer = "clear"
  /\ bundles' = Cleared(bundles)
  /\ producer' = "idle"
  /\ UNCHANGED <<clocks, states, captured, log, who, sockets, steamvr, video>>

\* Only the bundle socket and the controller read a clock.
Tick ==
  /\ who \in {"bundle", "steamvr"} /\ now < MaxNow
  /\ now' = now + 1
  /\ UNCHANGED <<skew, stepped, stores, sockets, steamvr, video>>

\* One step per behaviour, in either direction.
WallClockSteps ==
  /\ who \in {"bundle", "steamvr"} /\ stepped = None
  /\ skew' \in Skews \ {skew}
  /\ stepped' = now
  /\ UNCHANGED <<now, stores, sockets, steamvr, video>>

-----------------------------------------------------------------------------
(* Sockets.  wait_for_newer and latest_with_generation read the store      *)
(* under its lock; the task works on what they returned.                   *)

Goto(s, label) == [sock[s] EXCEPT !.pc = label]
Shows(s, pair) == shown' = [shown EXCEPT ![s] = [gen |-> pair.gen, view |-> pair.latest]]
GoesDark(s, g) == shown' = [shown EXCEPT ![s] = [gen |-> g, view |-> None]]

\* wait_for_newer: the generation passed the cursor; returned as one pair.
Wakes(s, store) ==
  /\ sock[s].pc = "wait" /\ store.gen > sock[s].cursor
  /\ sock' = [sock EXCEPT ![s] = [Goto(s, "woken") EXCEPT !.got = store]]
  /\ UNCHANGED <<clocks, stores, notified, shown, steamvr, video>>

\* It returned at its timeout with the cursor's generation: wait again.
WaitsAgain(s, store) ==
  /\ sock[s].pc = "wait" /\ store.gen <= sock[s].cursor
  /\ UNCHANGED vars

\* The bundle socket's wait ended at its timeout, and it has not said so yet.
OwesStale ==
  sock["bundle"].pc = "wait" /\ bundles.gen <= sock["bundle"].cursor /\ ~notified

\* A send raises WebSocketDisconnect and the task ends.
Disconnects(s) ==
  /\ sock[s].pc \in {"woken", "delay", "greet", "encode"} \/ (s = "bundle" /\ OwesStale)
  /\ sock' = [sock EXCEPT ![s] = [pc |-> "closed", cursor |-> 0, got |-> Empty]]
  /\ GoesDark(s, shown[s].gen)
  /\ UNCHANGED <<clocks, stores, notified, steamvr, video>>

\* /ws/state: the first read is sent at once, if there is a state.
StateConnects ==
  /\ who = "state"
  /\ sock["state"].pc = "closed"
  /\ sock' = [sock EXCEPT !["state"] = [pc |-> "wait", cursor |-> states.gen, got |-> Empty]]
  /\ Shows("state", states)
  /\ UNCHANGED <<clocks, stores, notified, steamvr, video>>

StateWakes == Wakes("state", states)
StateWaits == WaitsAgain("state", states)

\* Mutant: an empty slot is not sent on.
StateSendsScenes ==
  LET got == sock["state"].got
  IN  /\ sock["state"].pc = "woken"
      /\ sock' = [sock EXCEPT !["state"] = [pc |-> "wait", cursor |-> got.gen, got |-> Empty]]
      /\ IF got.latest = None THEN UNCHANGED shown ELSE Shows("state", got)
      /\ UNCHANGED <<clocks, stores, notified, steamvr, video>>
\* A cleared slot is sent as a stale, empty state.
StateSends ==
  LET got == sock["state"].got
  IN  /\ sock["state"].pc = "woken"
      /\ sock' = [sock EXCEPT !["state"] = [pc |-> "wait", cursor |-> got.gen, got |-> Empty]]
      /\ Shows("state", got)
      /\ UNCHANGED <<clocks, stores, notified, steamvr, video>>

\* _bundle_is_stale: a future timestamp counts as age 0.
BundleStale(scene) == Wall - scene.at > StaleAfter

\* The task answers for the pair it read: it encodes a fresh bundle, or says
\* "stale" unless the last message already did.
Answers(pair, label) ==
  /\ IF pair.latest # None /\ ~BundleStale(pair.latest)
     THEN /\ sock' = [sock EXCEPT !["bundle"] = [pc |-> label, cursor |-> pair.gen, got |-> pair]]
          /\ UNCHANGED <<notified, shown>>
     ELSE /\ sock' = [sock EXCEPT !["bundle"] = [pc |-> "wait", cursor |-> pair.gen, got |-> Empty]]
          /\ notified' = TRUE
          /\ GoesDark("bundle", pair.gen)
  /\ UNCHANGED <<clocks, stores, steamvr, video>>

\* /ws/bundle, connecting: stale_notified starts FALSE.
BundleConnects ==
  /\ who = "bundle"
  /\ sock["bundle"].pc = "closed"
  /\ Answers(bundles, "greet")

BundleWakes == Wakes("bundle", bundles)

BundleWaits == notified /\ WaitsAgain("bundle", bundles)

\* Mutant: a wait without a newer generation sends nothing.
BundleWaitsOn == FALSE
\* The wait ended at its timeout: one "stale" message until the next bundle.
BundleTimesOut ==
  /\ OwesStale
  /\ notified' = TRUE
  /\ GoesDark("bundle", shown["bundle"].gen)
  /\ UNCHANGED <<clocks, stores, sock, steamvr, video>>

\* The minimum period has passed: the pair of the wait is answered as it is.
BundleAnswers ==
  /\ sock["bundle"].pc = "woken"
  /\ Answers(sock["bundle"].got, "encode")

\* The task sleeps out the minimum period ...
BundleThrottles ==
  /\ sock["bundle"].pc = "woken"
  /\ sock' = [sock EXCEPT !["bundle"] = Goto("bundle", "delay")]
  /\ UNCHANGED <<clocks, stores, notified, shown, steamvr, video>>

\* ... and reads the store again.
BundleRereads ==
  /\ sock["bundle"].pc = "delay"
  /\ Answers(bundles, "encode")

\* Mutant: the JPEG and the state are read when they are sent.
BundleSendsNewest ==
  /\ sock["bundle"].pc \in {"greet", "encode"}
  /\ sock' = [sock EXCEPT !["bundle"] = [Goto("bundle", "wait") EXCEPT !.got = Empty]]
  /\ Shows("bundle", [gen |-> sock["bundle"].got.gen, latest |-> bundles.latest])
  /\ notified' = FALSE
  /\ UNCHANGED <<clocks, stores, steamvr, video>>
\* send_bundle: the JSON message and the JPEG of its frame, one logical unit.
BundleSends ==
  /\ sock["bundle"].pc \in {"greet", "encode"}
  /\ sock' = [sock EXCEPT !["bundle"] = [Goto("bundle", "wait") EXCEPT !.got = Empty]]
  /\ Shows("bundle", sock["bundle"].got)
  /\ notified' = FALSE
  /\ UNCHANGED <<clocks, stores, steamvr, video>>

-----------------------------------------------------------------------------
(* /stream.mjpg: a generator over the frame store, whose reads are by      *)
(* frame id (video/latest_frame.py).  0 is no frame.                       *)

PublishFrame ==
  /\ who = "mjpeg" /\ frames.id < MaxGen
  /\ frames' = [id |-> frames.id + 1, latest |-> frames.id + 1]
  /\ UNCHANGED <<clocks, stores, sockets, steamvr, stream>>

\* LatestFrameStore.clear: no id goes with it, and no reader learns of it.
ClearFrames ==
  /\ who = "mjpeg"
  /\ frames' = [frames EXCEPT !.latest = 0]
  /\ UNCHANGED <<clocks, stores, sockets, steamvr, stream>>

StreamOpens ==
  /\ who = "mjpeg" /\ stream.pc = "closed"
  /\ stream' = [stream EXCEPT !.pc = "wait", !.after = 0]
  /\ UNCHANGED <<clocks, stores, sockets, steamvr, frames>>

\* wait_for_newer; at its timeout it returns nothing, and is called again.
StreamWakes ==
  /\ stream.pc = "wait" /\ frames.latest > stream.after
  /\ stream' = [stream EXCEPT !.pc = "woken", !.got = frames.latest]
  /\ UNCHANGED <<clocks, stores, sockets, steamvr, frames>>

\* Mutant: whatever the store holds after the wait is taken.
NewestAnyway == frames.latest
\* After the minimum period: the newest frame, if it is newer.
Newest == IF frames.latest > stream.got THEN frames.latest ELSE stream.got

\* The frame of the wait, or after a sleep the newest, is encoded.
StreamPicks ==
  /\ stream.pc = "woken"
  /\ \E id \in {stream.got, Newest} :
       stream' = [stream EXCEPT !.pc = "encode", !.got = id, !.after = id]
  /\ UNCHANGED <<clocks, stores, sockets, steamvr, frames>>

StreamSends ==
  /\ stream.pc = "encode"
  /\ stream' = [stream EXCEPT !.pc = "wait", !.shown = stream.got, !.lit = TRUE]
  /\ UNCHANGED <<clocks, stores, sockets, steamvr, frames>>

\* The response is cancelled wherever the generator is.
StreamCloses ==
  /\ stream.pc # "closed"
  /\ stream' = [stream EXCEPT !.pc = "closed", !.lit = FALSE]
  /\ UNCHANGED <<clocks, stores, sockets, steamvr, frames>>

-----------------------------------------------------------------------------
(* SteamVRController, every operation under its lock.                      *)

InAge(scene) == scene # None /\ Wall - scene.at \in 0 .. StaleAfter
Monus(a, b) == IF a > b THEN a - b ELSE 0

\* Mutants: freshness from the wall clock alone; from the clock of the first
\* poll alone; expiry not remembered.
ObservedWallOnly ==
  LET expired == (states.gen = observed.gen /\ observed.expired) \/ ~InAge(states.latest)
  IN  [gen |-> states.gen, deadline |-> 0, expired |-> expired,
       since |-> IF states.gen # observed.gen THEN now ELSE observed.since]
ObservedFromFirstPoll ==
  LET first    == states.gen # observed.gen
      deadline == IF first THEN now + StaleAfter ELSE observed.deadline
  IN  [gen |-> states.gen, deadline |-> deadline,
       expired |-> (~first /\ observed.expired) \/ now > deadline \/ states.latest = None,
       since |-> IF first THEN now ELSE observed.since]
ObservedAnew ==
  LET first    == states.gen # observed.gen
      age      == IF states.latest = None THEN 0 ELSE Wall - states.latest.at
      deadline == IF first THEN now + Monus(StaleAfter, age) ELSE observed.deadline
  IN  [gen |-> states.gen, deadline |-> deadline,
       expired |-> now > deadline \/ ~InAge(states.latest),
       since |-> IF first THEN now ELSE observed.since]
\* _scene: a new generation gets a monotonic deadline from its wall-clock age;
\* once expired, a generation stays expired.
Observed ==
  LET first    == states.gen # observed.gen
      age      == IF states.latest = None THEN 0 ELSE Wall - states.latest.at
      deadline == IF first THEN now + Monus(StaleAfter, age) ELSE observed.deadline
  IN  [gen |-> states.gen, deadline |-> deadline,
       expired |-> (~first /\ observed.expired) \/ now > deadline \/ ~InAge(states.latest),
       since |-> IF first THEN now ELSE observed.since]

OverlayFresh == ~Observed.expired /\ states.latest.usable

\* Mutant: the cache is keyed by freshness only.
RenderedByFreshness ==
  IF cache.image # None /\ cache.fresh = OverlayFresh THEN cache
  ELSE [gen |-> states.gen, fresh |-> OverlayFresh, image |-> IF OverlayFresh THEN states.latest ELSE None]
\* render: the cached image, or a new one, with highlights only when fresh.
Rendered ==
  IF cache.gen = states.gen /\ cache.fresh = OverlayFresh THEN cache
  ELSE [gen |-> states.gen, fresh |-> OverlayFresh, image |-> IF OverlayFresh THEN states.latest ELSE None]

\* status(), for the web page: latches, renders nothing.
ServesStatus ==
  /\ who = "steamvr"
  /\ observed' = Observed
  /\ UNCHANGED <<clocks, stores, sockets, cache, vrFrame, video>>

\* preview(): renders into the cache the bridge reads from.
ServesPreview ==
  /\ who = "steamvr"
  /\ observed' = Observed
  /\ cache' = Rendered
  /\ UNCHANGED <<clocks, stores, sockets, vrFrame, video>>

\* frame(), polled by the bridge: the pixels are blank unless fresh.
ServesFrame ==
  /\ who = "steamvr"
  /\ observed' = Observed
  /\ cache' = Rendered
  /\ vrFrame' = [polled |-> TRUE, gen |-> states.gen, fresh |-> OverlayFresh,
                 image |-> IF OverlayFresh THEN Rendered.image ELSE None,
                 at |-> IF OverlayFresh THEN now ELSE 0,
                 since |-> IF OverlayFresh THEN Observed.since ELSE 0]
  /\ UNCHANGED <<clocks, stores, sockets, video>>

-----------------------------------------------------------------------------
Publishing == PublishState \/ PublishBundle \/ ClearStates \/ ClearBundles
StateTask  == StateWakes \/ StateSends
BundleTask == BundleWakes \/ BundleTimesOut \/ BundleAnswers \/ BundleThrottles \/ BundleRereads \/ BundleSends

Video == PublishFrame \/ ClearFrames \/ StreamOpens \/ StreamWakes \/ StreamPicks \/ StreamSends \/ StreamCloses

Next ==
  \/ Publishing \/ Tick \/ WallClockSteps
  \/ StateConnects \/ BundleConnects \/ (\E s \in Sockets : Disconnects(s))
  \/ StateTask \/ BundleTask \/ StateWaits \/ BundleWaits
  \/ ServesStatus \/ ServesPreview \/ ServesFrame \/ Video

\* The event loop runs its tasks, a wait ends at its timeout, the bridge polls.
Fairness == WF_vars(StateTask) /\ WF_vars(BundleTask) /\ WF_vars(ServesFrame)

Spec == Init /\ [][Next]_vars /\ Fairness

-----------------------------------------------------------------------------
(* Properties.                                                             *)

\* Stores, sockets, latch and histories have their types.
TypeOK ==
  /\ now \in 0 .. MaxNow /\ skew \in Skews /\ stepped \in Nat \cup {None}
  /\ states \in Store /\ bundles \in Store /\ producer \in {"idle", "publish", "clear"}
  /\ captured \in 0 .. now
  /\ sock \in [Sockets -> [pc : {"closed", "wait", "woken", "delay", "greet", "encode"}, cursor : Nat, got : Store]]
  /\ notified \in BOOLEAN
  /\ frames \in [id : Nat, latest : Nat]
  /\ stream \in [pc : {"closed", "wait", "woken", "encode"}, after : Nat, got : Nat,
                shown : Nat, lit : BOOLEAN]
  /\ observed \in [gen : Int, deadline : Nat, expired : BOOLEAN, since : Nat]
  /\ cache \in [gen : Int, fresh : BOOLEAN, image : Slot]
  /\ log \in Seq(Slot) /\ Len(log) = states.gen /\ who \in Consumers
  /\ shown \in [Sockets -> [gen : Nat, view : Slot]]
  /\ vrFrame \in [polled : BOOLEAN, gen : Nat, fresh : BOOLEAN, image : Slot, at : Nat, since : Nat]

\* A frame that claims to be fresh was served at most StaleAfter after the
\* controller first saw its generation, however the wall clock was stepped;
\* and if it never was, at most StaleAfter after the camera captured it
\* (steamvr/service.py:143-153).
FreshFrameIsRecent ==
  vrFrame.fresh =>
    /\ vrFrame.at <= vrFrame.since + StaleAfter
    /\ stepped = None => vrFrame.at + skew <= log[vrFrame.gen].at + StaleAfter

\* The highlights a frame carries are those of the generation it was served
\* for, although pages, bridge and renders share one cached image
\* (steamvr/service.py:197-199).
FrameShowsItsGeneration ==
  vrFrame.fresh => vrFrame.image = log[vrFrame.gen]

Scenes == [at : {t + s : t \in 0 .. MaxNow, s \in Skews}, usable : BOOLEAN]

\* The consumers of the state store, seen through the abstract feed: no
\* reader goes back, none lights up again without a later publication, all
\* catch up (state/store.py:67-86, web/app.py:352-370).
StateReaders == {"state", "steamvr"}
StateJoined == [r \in StateReaders |-> IF r = "state" THEN sock["state"].pc # "closed" ELSE vrFrame.polled]
StateCursor == [r \in StateReaders |-> IF r = "state" THEN shown["state"].gen ELSE vrFrame.gen]
StateView   == [r \in StateReaders |-> IF r = "state" THEN shown["state"].view ELSE vrFrame.image]
StateFeed ==
  INSTANCE LatestFeed WITH
    Readers <- StateReaders, Contents <- Scenes, Dark <- None, published <- log,
    joined <- StateJoined, cursor <- StateCursor, view <- StateView

\* The same for the bundle socket, with its throttle and its stale messages
\* (state/bundle.py:84-107, web/app.py:411-469).
BundleLog == SubSeq(log, 1, bundles.gen)
BundleJoined == [r \in {"bundle"} |-> sock["bundle"].pc \notin {"closed", "greet"}]
BundleCursor == [r \in {"bundle"} |-> shown["bundle"].gen]
BundleView   == [r \in {"bundle"} |-> shown["bundle"].view]
BundleFeed ==
  INSTANCE LatestFeed WITH
    Readers <- {"bundle"}, Contents <- Scenes, Dark <- None, published <- BundleLog,
    joined <- BundleJoined, cursor <- BundleCursor, view <- BundleView

\* The video stream never goes back to an older frame, nor does one that is
\* opened after it.  It goes dark only when it is closed: a cleared store
\* leaves the last picture standing, and nothing to catch up with
\* (web/app.py:304-332, video/latest_frame.py:53-76).
VideoLog == [id \in 1 .. frames.id |-> id]
VideoJoined == [r \in {"mjpeg"} |-> stream.lit]
VideoCursor == [r \in {"mjpeg"} |-> stream.shown]
VideoView   == [r \in {"mjpeg"} |-> IF stream.lit THEN stream.shown ELSE 0]
VideoFeed ==
  INSTANCE LatestFeed WITH
    Readers <- {"mjpeg"}, Contents <- 1 .. MaxGen, Dark <- 0, published <- VideoLog,
    joined <- VideoJoined, cursor <- VideoCursor, view <- VideoView

\* Every stream is a LatestFeed of its own store.
StreamsAreFeeds == StateFeed!Spec /\ BundleFeed!Spec /\ VideoFeed!Safety

\* When the producers fall silent, the bundle socket does not leave its last
\* picture standing, unless its page keeps reconnecting (web/app.py:436-445).
SilenceGoesDark == <>[](shown["bundle"].view = None) \/ []<>(sock["bundle"].pc = "closed")
=============================================================================
