------------------------- MODULE StateStreamsProofs -------------------------
(***************************************************************************)
(* What the stores' consumers do for any number of publications, clears    *)
(* and reconnections, any staleness limit and any step of the wall clock.  *)
(***************************************************************************)
EXTENDS StateStreams, TLAPS

-----------------------------------------------------------------------------
(* The inductive invariant.                                                *)

\* Whatever was read of a store is one publication, or what it began with.
Backed(pair) ==
  /\ pair.gen \in 0 .. states.gen
  /\ pair.latest = IF pair.gen = 0 THEN None ELSE log[pair.gen]

StoresBacked ==
  /\ log \in Seq(Scenes \cup {None})
  /\ Backed(states) /\ Backed(bundles)
  /\ producer = "idle" /\ who = "bundle" => states.gen = bundles.gen
  /\ producer # "idle" => states.gen = bundles.gen + 1
  /\ producer = "clear" => states.latest = None

\* A display is blank, or shows the publication it answers for.
Showing(gen, view) ==
  gen \in 0 .. states.gen /\ (view # None => gen > 0 /\ view = log[gen])

\* A socket's cursor is what it showed last, until it has something newer.
StateSocket ==
  LET task == sock["state"]  seen == shown["state"]
  IN  /\ task.pc \in {"closed", "wait", "woken"} /\ Backed(task.got)
      /\ Showing(seen.gen, seen.view)
      /\ task.pc = "closed" => seen.view = None
      /\ task.pc # "closed" => task.cursor = seen.gen
      /\ task.pc = "woken" => task.got.gen > seen.gen

BundleSocket ==
  LET task == sock["bundle"]  seen == shown["bundle"]
  IN  /\ Backed(task.got) /\ task.got.gen <= bundles.gen
      /\ Showing(seen.gen, seen.view) /\ seen.gen <= bundles.gen
      /\ task.pc \in {"closed", "greet"} => seen.view = None
      /\ task.pc \in {"wait", "woken", "delay"} => task.cursor = seen.gen
      /\ task.pc \in {"woken", "delay", "encode"} => task.got.gen > seen.gen
      /\ task.pc \in {"greet", "encode"} => task.cursor = task.got.gen
      /\ task.pc = "greet" => task.got.gen > 0 /\ task.got.gen >= seen.gen

\* The latch: a deadline that counts is near the first poll of its generation.
Latched ==
  /\ observed.gen <= states.gen
  /\ observed.expired \/ observed.deadline <= observed.since + StaleAfter

CacheBacked ==
  cache.fresh => cache.gen \in 1 .. states.gen /\ cache.image = log[cache.gen]

\* The overlay served last; dark once, it stays so for its generation.
FrameBacked ==
  /\ vrFrame.gen \in 0 .. states.gen
  /\ vrFrame.fresh => vrFrame.gen > 0
  /\ ~vrFrame.fresh => vrFrame.image = None
  /\ vrFrame.polled /\ vrFrame.gen = states.gen /\ ~vrFrame.fresh =>
       observed.gen = states.gen /\ (observed.expired \/ ~states.latest.usable)

\* A stream's next frame is newer than what it shows, and no older than what
\* any stream before it has shown.
StreamInOrder ==
  /\ frames.latest \in {0, frames.id} /\ frames.id <= MaxGen
  /\ stream.shown <= frames.id
  /\ stream.lit => stream.shown > 0 /\ stream.pc # "closed"
  /\ stream.lit /\ stream.pc \in {"wait", "woken"} => stream.shown = stream.after
  /\ stream.pc \in {"woken", "encode"} =>
       /\ stream.got \in 1 .. frames.id /\ stream.shown <= stream.got
       /\ stream.lit => stream.shown < stream.got
  /\ stream.pc = "encode" => stream.after = stream.got

Fed == StoresBacked /\ StateSocket /\ BundleSocket
Overlaid == Latched /\ CacheBacked /\ FrameBacked
Honest == FreshFrameIsRecent /\ FrameShowsItsGeneration

IInv == TypeOK /\ Fed /\ Overlaid /\ Honest /\ StreamInOrder

-----------------------------------------------------------------------------
(* Types.                                                                  *)

\* What the controller computes has its types.
LEMMA ControllerTypes ==
  ASSUME TypeOK
  PROVE  /\ Observed \in [gen : Int, deadline : Nat, expired : BOOLEAN, since : Nat]
         /\ Rendered \in [gen : Int, fresh : BOOLEAN, image : Slot]
         /\ OverlayFresh \in BOOLEAN
<1>1. /\ now \in Nat /\ skew \in Nat /\ StaleAfter \in Nat
      /\ states.gen \in Nat /\ states.latest \in Slot
      /\ observed \in [gen : Int, deadline : Nat, expired : BOOLEAN, since : Nat]
      /\ cache \in [gen : Int, fresh : BOOLEAN, image : Slot]
  BY StreamsAssumption DEF TypeOK, Store
<1>2. Observed.gen = states.gen /\ Observed.expired \in BOOLEAN
  BY DEF Observed
<1>3. Observed.since \in Nat /\ Observed.deadline \in Nat
  <2>1. states.latest # None => states.latest.at \in Nat
    BY <1>1 DEF Slot, Scene
  <2>2. Observed.since \in Nat
    BY <1>1 DEF Observed
  <2>3. Observed.deadline \in Nat
    BY <1>1, <2>1 DEF Observed, Monus, Wall
  <2> QED BY <2>2, <2>3
<1>4. Observed \in [gen : Int, deadline : Nat, expired : BOOLEAN, since : Nat]
  BY <1>1, <1>2, <1>3 DEF Observed
<1>5. OverlayFresh \in BOOLEAN
  BY Zenon DEF OverlayFresh
<1>6. Rendered \in [gen : Int, fresh : BOOLEAN, image : Slot]
  <2>1. None \in Slot
    BY DEF Slot
  <2> QED BY <1>1, <1>5, <2>1 DEF Rendered
<1> QED BY <1>4, <1>5, <1>6

LEMMA InitTypes == ASSUME Init PROVE TypeOK
<1>1. 0 \in 0 .. MaxNow /\ 0 \in Nat /\ -1 \in Int /\ FirstSkew \in Skews /\ <<>> \in Seq(Slot) /\ None \in Slot
  BY StreamsAssumption DEF Slot
<1>2. notified \in BOOLEAN
  BY Zenon DEF Init
<1>3. now = 0 /\ captured = 0 /\ 0 \in 0 .. now /\ stepped \in Nat \cup {None}
  BY DEF Init
<1> QED
  BY <1>1, <1>2, <1>3 DEF Init, TypeOK, Empty, Store, Consumers, Sockets

Task == [pc : {"closed", "wait", "woken", "delay", "greet", "encode"}, cursor : Nat, got : Store]
Display == [gen : Nat, view : Slot]
Latch   == [gen : Int, deadline : Nat, expired : BOOLEAN, since : Nat]
Cache   == [gen : Int, fresh : BOOLEAN, image : Slot]
Overlay == [polled : BOOLEAN, gen : Nat, fresh : BOOLEAN, image : Slot, at : Nat, since : Nat]

\* The types of the parts that move one at a time.
ClocksTyped  == now \in 0 .. MaxNow /\ skew \in Skews /\ stepped \in Nat \cup {None}
StoresTyped  == /\ states \in Store /\ bundles \in Store /\ producer \in {"idle", "publish", "clear"}
                /\ captured \in 0 .. now
                /\ log \in Seq(Slot) /\ Len(log) = states.gen /\ who \in Consumers
SocketsTyped == sock \in [Sockets -> Task] /\ notified \in BOOLEAN /\ shown \in [Sockets -> Display]
VideoTyped   == /\ frames \in [id : Nat, latest : Nat]
                /\ stream \in [pc : {"closed", "wait", "woken", "encode"}, after : Nat, got : Nat,
                               shown : Nat, lit : BOOLEAN]
SteamTyped   == observed \in Latch /\ cache \in Cache /\ vrFrame \in Overlay

LEMMA TypesByPart ==
  /\ TypeOK <=> ClocksTyped /\ StoresTyped /\ SocketsTyped /\ VideoTyped /\ SteamTyped
  /\ TypeOK' <=> ClocksTyped' /\ StoresTyped' /\ SocketsTyped' /\ VideoTyped' /\ SteamTyped'
BY Zenon DEF TypeOK, ClocksTyped, StoresTyped, SocketsTyped, VideoTyped, SteamTyped,
             Task, Display, Latch, Cache, Overlay

LEMMA PartsStay ==
  /\ ClocksTyped /\ UNCHANGED clocks => ClocksTyped'
  /\ StoresTyped /\ UNCHANGED <<clocks, stores>> => StoresTyped'
  /\ SocketsTyped /\ UNCHANGED sockets => SocketsTyped'
  /\ VideoTyped /\ UNCHANGED video => VideoTyped'
  /\ SteamTyped /\ UNCHANGED steamvr => SteamTyped'
<1>1. ClocksTyped /\ UNCHANGED clocks => ClocksTyped'
  BY DEF clocks, ClocksTyped
<1>2. StoresTyped /\ UNCHANGED <<clocks, stores>> => StoresTyped'
  BY DEF clocks, stores, StoresTyped
<1>3. SocketsTyped /\ UNCHANGED sockets => SocketsTyped'
  BY DEF sockets, SocketsTyped
<1>4. VideoTyped /\ UNCHANGED video => VideoTyped'
  BY DEF video, VideoTyped
<1>5. SteamTyped /\ UNCHANGED steamvr => SteamTyped'
  BY DEF steamvr, SteamTyped
<1> QED BY <1>1, <1>2, <1>3, <1>4, <1>5

\* A step of socket s that leaves it with a task and what it displays.
LEMMA SocketStepTypes ==
  ASSUME TypeOK, NEW s \in Sockets, NEW task \in Task, NEW display \in Display,
         sock' = sock \/ sock' = [sock EXCEPT ![s] = task],
         shown' = shown \/ shown' = [shown EXCEPT ![s] = display],
         notified' \in BOOLEAN,
         UNCHANGED <<clocks, stores, video, steamvr>>
  PROVE  TypeOK'
<1>1. SocketsTyped
  BY TypesByPart
<1>2. SocketsTyped'
  BY <1>1 DEF SocketsTyped
<1> QED BY <1>2, TypesByPart, PartsStay

\* The pairs, tasks and displays a socket step is made of.
LEMMA SocketParts ==
  ASSUME TypeOK, NEW s \in Sockets
  PROVE  /\ sock[s] \in Task /\ shown[s] \in Display /\ sock[s].got \in Store
         /\ states \in Store /\ bundles \in Store /\ Empty \in Store
         /\ \A g \in Nat : [gen |-> g, view |-> None] \in Display
         /\ \A pair \in Store : [gen |-> pair.gen, view |-> pair.latest] \in Display
BY DEF TypeOK, Task, Display, Store, Slot, Empty

LEMMA AnswersTypes ==
  ASSUME TypeOK, NEW pair \in Store, NEW label \in {"greet", "encode"}, Answers(pair, label)
  PROVE  TypeOK'
<1>1. "bundle" \in Sockets /\ Empty \in Store /\ pair.gen \in Nat
  BY DEF Sockets, Empty, Store, Slot
<1>2. CASE pair.latest # None /\ ~BundleStale(pair.latest)
  <2>1. [pc |-> label, cursor |-> pair.gen, got |-> pair] \in Task
    BY <1>1 DEF Task
  <2>2. notified' \in BOOLEAN
    BY <1>2, Zenon DEF Answers, TypeOK
  <2> QED BY <1>1, <1>2, <2>1, <2>2, SocketStepTypes, SocketParts DEF Answers
<1>3. CASE ~(pair.latest # None /\ ~BundleStale(pair.latest))
  <2>1. [pc |-> "wait", cursor |-> pair.gen, got |-> Empty] \in Task
    BY <1>1 DEF Task
  <2>2. shown' = [shown EXCEPT !["bundle"] = [gen |-> pair.gen, view |-> None]]
    BY <1>3 DEF Answers, GoesDark
  <2>3. [gen |-> pair.gen, view |-> None] \in Display
    BY <1>1, SocketParts
  <2> QED BY <1>1, <1>3, <2>1, <2>2, <2>3, SocketStepTypes DEF Answers
<1> QED BY <1>2, <1>3

LEMMA SocketTypes ==
  ASSUME TypeOK, StateConnects \/ BundleConnects \/ StateTask \/ BundleTask
                 \/ \E s \in Sockets : Disconnects(s)
  PROVE  TypeOK'
<1>1. /\ "state" \in Sockets /\ "bundle" \in Sockets
      /\ notified \in BOOLEAN /\ TRUE \in BOOLEAN /\ FALSE \in BOOLEAN
  BY Zenon DEF Sockets, TypeOK
<1>2. CASE StateConnects
  <2>1. [pc |-> "wait", cursor |-> states.gen, got |-> Empty] \in Task
    BY <1>1, SocketParts DEF Task, Store
  <2> QED BY <1>1, <1>2, <2>1, SocketStepTypes, SocketParts DEF StateConnects, Shows
<1>3. CASE BundleConnects
  BY <1>1, <1>3, SocketParts, AnswersTypes DEF BundleConnects
<1>4. CASE StateWakes
  <2>1. [Goto("state", "woken") EXCEPT !.got = states] \in Task
    BY <1>1, SocketParts DEF Goto, Task
  <2> QED BY <1>1, <1>4, <2>1, SocketStepTypes, SocketParts DEF StateWakes, Wakes
<1>5. CASE StateSends
  <2>1. [pc |-> "wait", cursor |-> sock["state"].got.gen, got |-> Empty] \in Task
    BY <1>1, SocketParts DEF Task, Store
  <2> QED BY <1>1, <1>5, <2>1, SocketStepTypes, SocketParts DEF StateSends, Shows
<1>6. CASE BundleWakes
  <2>1. [Goto("bundle", "woken") EXCEPT !.got = bundles] \in Task
    BY <1>1, SocketParts DEF Goto, Task
  <2> QED BY <1>1, <1>6, <2>1, SocketStepTypes, SocketParts DEF BundleWakes, Wakes
<1>7. CASE BundleTimesOut
  <2>1. /\ notified' \in BOOLEAN /\ sock' = sock /\ UNCHANGED <<clocks, stores, video, steamvr>>
        /\ shown' = [shown EXCEPT !["bundle"] = [gen |-> shown["bundle"].gen, view |-> None]]
    BY <1>1, <1>7 DEF BundleTimesOut, GoesDark
  <2>2. [gen |-> shown["bundle"].gen, view |-> None] \in Display
    BY <1>1, SocketParts DEF Display
  <2>3. sock["bundle"] \in Task
    BY <1>1, SocketParts
  <2> QED BY <1>1, <2>1, <2>2, <2>3, SocketStepTypes
<1>8. CASE BundleAnswers
  BY <1>1, <1>8, SocketParts, AnswersTypes DEF BundleAnswers
<1>9. CASE BundleThrottles
  <2>1. Goto("bundle", "delay") \in Task
    BY <1>1, SocketParts DEF Goto, Task
  <2> QED BY <1>1, <1>9, <2>1, SocketStepTypes, SocketParts DEF BundleThrottles
<1>10. CASE BundleRereads
  BY <1>1, <1>10, SocketParts, AnswersTypes DEF BundleRereads
<1>11. CASE BundleSends
  <2>1. [Goto("bundle", "wait") EXCEPT !.got = Empty] \in Task
    BY <1>1, SocketParts DEF Goto, Task
  <2> QED BY <1>1, <1>11, <2>1, SocketStepTypes, SocketParts DEF BundleSends, Shows
<1>12. ASSUME NEW s \in Sockets, Disconnects(s) PROVE TypeOK'
  <2>1. [pc |-> "closed", cursor |-> 0, got |-> Empty] \in Task
    BY SocketParts DEF Task
  <2>2. [gen |-> shown[s].gen, view |-> None] \in Display
    BY SocketParts DEF Display
  <2> QED BY <1>1, <1>12, <2>1, <2>2, SocketStepTypes DEF Disconnects, GoesDark
<1> QED
  BY <1>2, <1>3, <1>4, <1>5, <1>6, <1>7, <1>8, <1>9, <1>10, <1>11, <1>12 DEF StateTask, BundleTask

\* What a published scene can be.
LEMMA ScenesPublished ==
  ASSUME TypeOK, PublishState
  PROVE  /\ captured' \in 0 .. now
         /\ \E scene \in Scene \cap Scenes :
              states' = Published(states, scene) /\ log' = Append(log, scene)
<1>1. /\ now \in 0 .. MaxNow /\ skew \in Skews /\ captured \in 0 .. now /\ MaxNow \in Nat
      /\ FirstSkew \in Skews /\ Skews \subseteq Nat
  BY StreamsAssumption DEF TypeOK
<1> DEFINE Times(t) == IF who = "steamvr" THEN WallAt(t) ELSE {Wall}
<1>0. PICK t \in IF who = "steamvr" THEN captured .. now ELSE {now}, usable \in BOOLEAN :
        \E at \in Times(t) :
          /\ states' = Published(states, [at |-> at, usable |-> usable])
          /\ log' = Append(log, [at |-> at, usable |-> usable])
          /\ captured' = t
  BY DEF PublishState
<1>2. PICK at \in Times(t) :
        /\ states' = Published(states, [at |-> at, usable |-> usable])
        /\ log' = Append(log, [at |-> at, usable |-> usable])
        /\ captured' = t
  BY <1>0
<1>3. t \in 0 .. now /\ t \in 0 .. MaxNow
  BY <1>1, <1>0
<1>4. \E s \in Skews : at = t + s
  BY <1>1, <1>2 DEF WallAt, Wall
<1>5. at \in {u + s : u \in 0 .. MaxNow, s \in Skews} /\ at \in Nat
  BY <1>1, <1>3, <1>4
<1>6. [at |-> at, usable |-> usable] \in Scene \cap Scenes
  BY <1>2, <1>5 DEF Scene, Scenes
<1> QED BY <1>2, <1>3, <1>6

LEMMA PublishingTypes ==
  ASSUME TypeOK, Publishing
  PROVE  TypeOK'
<1>0. ClocksTyped /\ StoresTyped
  BY TypesByPart
<1>1. /\ states.gen \in Nat /\ bundles.gen \in Nat /\ states.latest \in Slot /\ None \in Slot
      /\ log \in Seq(Slot) /\ Len(log) = states.gen
      /\ Scene \subseteq Slot /\ captured \in 0 .. now /\ now \in 0 .. now
  BY <1>0, StreamsAssumption DEF ClocksTyped, StoresTyped, Store, Slot
<1>2. \A x \in Slot : Append(log, x) \in Seq(Slot) /\ Len(Append(log, x)) = states.gen + 1
  BY <1>1
<1>3. \A x \in Slot : Published(states, x) \in Store /\ Published(bundles, x) \in Store
  BY <1>1 DEF Published, Store
<1>4. Cleared(states) \in Store /\ Cleared(bundles) \in Store
  BY <1>1 DEF Cleared, Store
<1>5. UNCHANGED <<clocks, sockets, video, steamvr>> /\ who' = who /\ now' = now
  BY DEF Publishing, PublishState, PublishBundle, ClearStates, ClearBundles, clocks
<1>6. StoresTyped'
  <2>1. CASE PublishState
    <3>1. PICK scene \in Scene : states' = Published(states, scene) /\ log' = Append(log, scene)
      BY <2>1, ScenesPublished
    <3>2. states'.gen = states.gen + 1
      BY <3>1 DEF Published
    <3>3. states' \in Store /\ log' \in Seq(Slot) /\ Len(log') = states'.gen
      BY <1>1, <1>2, <1>3, <3>1, <3>2
    <3>4. bundles' = bundles /\ producer' \in {"publish", "idle"} /\ captured' \in 0 .. now
      BY <2>1, ScenesPublished DEF PublishState, Then
    <3> QED BY <1>0, <1>5, <3>3, <3>4 DEF StoresTyped
  <2>2. CASE PublishBundle
    BY <1>0, <1>1, <1>3, <1>5, <2>2 DEF PublishBundle, StoresTyped
  <2>3. CASE ClearStates
    <3>1. states'.gen = states.gen + 1
      BY <2>3 DEF ClearStates, Cleared
    <3>2. states' \in Store /\ log' \in Seq(Slot) /\ Len(log') = states'.gen
      BY <1>1, <1>2, <1>4, <2>3, <3>1 DEF ClearStates
    <3>3. bundles' = bundles /\ producer' \in {"clear", "idle"} /\ captured' = now
      BY <2>3 DEF ClearStates, Then
    <3> QED BY <1>0, <1>1, <1>5, <3>2, <3>3 DEF StoresTyped
  <2>4. CASE ClearBundles
    BY <1>0, <1>4, <1>5, <2>4 DEF ClearBundles, StoresTyped
  <2> QED BY <2>1, <2>2, <2>3, <2>4 DEF Publishing
<1> QED BY <1>5, <1>6, TypesByPart, PartsStay

LEMMA ControllerStepTypes ==
  ASSUME TypeOK, ServesStatus \/ ServesPreview \/ ServesFrame
  PROVE  TypeOK'
<1>0. ClocksTyped /\ StoresTyped /\ SteamTyped
  BY TypesByPart
<1>1. Observed \in Latch /\ Rendered \in Cache /\ OverlayFresh \in BOOLEAN
  BY ControllerTypes DEF Latch, Cache
<1>2. observed' \in Latch /\ cache' \in Cache
  BY <1>0, <1>1 DEF ServesStatus, ServesPreview, ServesFrame, SteamTyped
<1>3. vrFrame' \in Overlay
  <2>1. CASE ServesFrame
    <3>1. now \in Nat /\ states.gen \in Nat
      BY <1>0, StreamsAssumption DEF ClocksTyped, StoresTyped, Store
    <3>2. Observed.since \in Nat
      BY <1>1 DEF Latch
    <3>3. (IF OverlayFresh THEN Rendered.image ELSE None) \in Slot
      BY <1>1 DEF Cache, Slot
    <3> QED BY <1>1, <2>1, <3>1, <3>2, <3>3 DEF ServesFrame, Overlay
  <2>2. CASE ServesStatus \/ ServesPreview
    BY <1>0, <2>2 DEF ServesStatus, ServesPreview, SteamTyped
  <2> QED BY <2>1, <2>2
<1>4. UNCHANGED <<clocks, stores, sockets, video>>
  BY DEF ServesStatus, ServesPreview, ServesFrame
<1>5. SteamTyped'
  BY <1>2, <1>3 DEF SteamTyped
<1> QED BY <1>4, <1>5, TypesByPart, PartsStay

LEMMA VideoTypes ==
  ASSUME TypeOK, Video
  PROVE  TypeOK'
<1>1. VideoTyped
  BY TypesByPart
<1>2. Newest \in Nat /\ frames.id + 1 \in Nat /\ stream.got \in Nat
  BY <1>1 DEF Newest, VideoTyped
<1>3. VideoTyped'
  <2> USE DEF VideoTyped
  <2>1. CASE PublishFrame \/ ClearFrames
    BY <1>1, <1>2, <2>1 DEF PublishFrame, ClearFrames
  <2>2. CASE StreamOpens
    BY <1>1, <2>2 DEF StreamOpens
  <2>3. CASE StreamWakes
    BY <1>1, <2>3 DEF StreamWakes
  <2>4. CASE StreamPicks
    <3>1. PICK id \in Nat : stream' = [stream EXCEPT !.pc = "encode", !.got = id, !.after = id]
      BY <1>2, <2>4, Zenon DEF StreamPicks
    <3>2. frames' = frames
      BY <2>4 DEF StreamPicks
    <3> QED BY <1>1, <3>1, <3>2
  <2>5. CASE StreamSends
    BY <1>1, <2>5 DEF StreamSends
  <2>6. CASE StreamCloses
    BY <1>1, <2>6 DEF StreamCloses
  <2> QED BY <2>1, <2>2, <2>3, <2>4, <2>5, <2>6 DEF Video
<1>4. UNCHANGED <<clocks, stores, sockets, steamvr>>
  BY DEF Video, PublishFrame, ClearFrames, StreamOpens, StreamWakes, StreamPicks, StreamSends,
     StreamCloses
<1> QED BY <1>3, <1>4, TypesByPart, PartsStay

LEMMA StepTypes ==
  ASSUME TypeOK, [Next]_vars
  PROVE  TypeOK'
<1>0. ClocksTyped /\ StoresTyped
  BY TypesByPart
<1>1. CASE Tick
  <2>1. ClocksTyped' /\ StoresTyped'
    BY <1>0, <1>1, StreamsAssumption DEF Tick, stores, ClocksTyped, StoresTyped
  <2> QED BY <1>1, <2>1, TypesByPart, PartsStay DEF Tick
<1>2. CASE WallClockSteps
  <2>1. ClocksTyped' /\ StoresTyped'
    BY <1>0, <1>2 DEF WallClockSteps, stores, ClocksTyped, StoresTyped
  <2> QED BY <1>2, <2>1, TypesByPart, PartsStay DEF WallClockSteps
<1>3. CASE UNCHANGED vars
  BY <1>3, TypesByPart, PartsStay DEF vars
<1>4. CASE StateWaits \/ BundleWaits
  BY <1>3, <1>4 DEF StateWaits, BundleWaits, WaitsAgain
<1> QED
  BY <1>1, <1>2, <1>3, <1>4, SocketTypes, PublishingTypes, ControllerStepTypes, VideoTypes DEF Next

-----------------------------------------------------------------------------
(* The stores only grow, and what was backed stays backed.                 *)

Grows ==
  /\ states.gen <= states'.gen /\ bundles.gen <= bundles'.gen
  /\ \A g \in 1 .. states.gen : log'[g] = log[g]

StateMoves  == StateConnects \/ StateTask \/ Disconnects("state")
BundleMoves == BundleConnects \/ BundleTask \/ Disconnects("bundle")
Polls       == ServesStatus \/ ServesPreview \/ ServesFrame

\* One part of the system moves at a time, and leaves the others as they are.
LEMMA OnePartMoves ==
  ASSUME TypeOK, [Next]_vars
  PROVE  \/ Publishing /\ UNCHANGED <<clocks, sockets, video, steamvr>>
         \/ /\ UNCHANGED <<stores, sockets, video, steamvr>>
            /\ UNCHANGED <<skew, stepped>> \/ stepped' # None
         \/ (StateMoves \/ BundleMoves) /\ UNCHANGED <<clocks, stores, video, steamvr>>
         \/ Polls /\ UNCHANGED <<clocks, stores, sockets, video>>
         \/ Video /\ UNCHANGED <<clocks, stores, sockets, steamvr>>
<1>1. CASE Publishing
  BY <1>1 DEF Publishing, PublishState, PublishBundle, ClearStates, ClearBundles
<1>2. CASE Tick
  BY <1>2 DEF Tick
<1>8. CASE WallClockSteps
  <2>1. now \in Nat /\ None \notin Nat
    BY StreamsAssumption DEF TypeOK
  <2>2. stepped' # None /\ UNCHANGED <<stores, sockets, video, steamvr>>
    BY <1>8, <2>1 DEF WallClockSteps
  <2> QED BY <2>2
<1>3. CASE StateWaits \/ BundleWaits \/ UNCHANGED vars
  BY <1>3 DEF StateWaits, BundleWaits, WaitsAgain, vars, clocks
<1>4. CASE StateMoves \/ BundleMoves
  <2>1. UNCHANGED <<clocks, stores, video, steamvr>>
    BY <1>4 DEF StateMoves, StateConnects, StateTask, StateWakes, Wakes, StateSends, BundleMoves,
      BundleConnects, BundleTask, BundleWakes, BundleTimesOut, BundleAnswers, BundleThrottles,
      BundleRereads, BundleSends, Answers, Disconnects
  <2> QED BY <1>4, <2>1
<1>5. CASE Polls
  BY <1>5 DEF Polls, ServesStatus, ServesPreview, ServesFrame
<1>6. CASE Video
  BY <1>6
  DEF Video, PublishFrame, ClearFrames, StreamOpens, StreamWakes, StreamPicks, StreamSends,
      StreamCloses
<1>7. (\E s \in Sockets : Disconnects(s)) => Disconnects("state") \/ Disconnects("bundle")
  BY DEF Sockets
<1> QED
  BY <1>1, <1>2, <1>8, <1>3, <1>4, <1>5, <1>6, <1>7 DEF Next, StateMoves, BundleMoves, Polls

LEMMA StoresGrow ==
  ASSUME TypeOK, StoresBacked, [Next]_vars
  PROVE  Grows /\ StoresBacked'
<1>1. /\ log \in Seq(Scenes \cup {None}) /\ Len(log) = states.gen /\ states.gen \in Nat
      /\ bundles.gen \in Nat
  BY DEF TypeOK, StoresBacked, Store
<1>2. ASSUME NEW x \in Scenes \cup {None}
      PROVE  LET l == Append(log, x)
             IN  /\ l \in Seq(Scenes \cup {None}) /\ l[states.gen + 1] = x
                 /\ \A g \in 1 .. states.gen : l[g] = log[g]
  BY <1>1
<1>3. CASE UNCHANGED stores
  BY <1>1, <1>3 DEF stores, Grows, StoresBacked, Backed
<1>4. CASE PublishState
  <2>1. PICK scene \in Scenes : states' = Published(states, scene) /\ log' = Append(log, scene)
    BY <1>4, ScenesPublished
  <2>2. /\ bundles' = bundles /\ producer = "idle" /\ who' = who
        /\ producer' = IF who = "bundle" THEN "publish" ELSE "idle"
        /\ states'.gen = states.gen + 1 /\ states'.latest = scene
    BY <1>4, <2>1 DEF PublishState, Published, Then
  <2> QED BY <1>1, <1>2, <2>1, <2>2 DEF Grows, StoresBacked, Backed
<1>5. CASE ClearStates
  <2>1. /\ bundles' = bundles /\ producer = "idle" /\ who' = who
        /\ producer' = IF who = "bundle" THEN "clear" ELSE "idle"
        /\ states'.gen = states.gen + 1 /\ states'.latest = None /\ log' = Append(log, None)
    BY <1>5 DEF ClearStates, Cleared, Then
  <2> QED BY <1>1, <1>2, <2>1 DEF Grows, StoresBacked, Backed
<1>6. CASE PublishBundle
  <2>1. /\ states' = states /\ log' = log /\ producer = "publish" /\ producer' = "idle"
        /\ bundles'.gen = bundles.gen + 1 /\ bundles'.latest = states.latest
    BY <1>6 DEF PublishBundle, Published
  <2> QED BY <1>1, <2>1 DEF Grows, StoresBacked, Backed
<1>7. CASE ClearBundles
  <2>1. /\ states' = states /\ log' = log /\ producer = "clear" /\ producer' = "idle"
        /\ bundles'.gen = bundles.gen + 1 /\ bundles'.latest = None
    BY <1>7 DEF ClearBundles, Cleared
  <2> QED BY <1>1, <2>1 DEF Grows, StoresBacked, Backed
<1> QED BY <1>3, <1>4, <1>5, <1>6, <1>7, OnePartMoves DEF Publishing

-----------------------------------------------------------------------------
(* The sockets.                                                            *)

LEMMA InitHolds == ASSUME Init PROVE IInv
<1>1. TypeOK
  BY InitTypes
<1>2. FirstSkew \in Nat /\ MaxGen \in Nat
  BY StreamsAssumption
<1>3. Fed
  <2>1. StoresBacked
    BY DEF Init, StoresBacked, Backed, Empty
  <2>2. StateSocket
    BY DEF Init, StateSocket, Backed, Showing, Empty, Sockets
  <2>3. BundleSocket
    BY DEF Init, BundleSocket, Backed, Showing, Empty, Sockets
  <2> QED BY <2>1, <2>2, <2>3 DEF Fed
<1>4. Overlaid /\ Honest
  BY DEF Init, Overlaid, Latched, CacheBacked, FrameBacked, Honest, FreshFrameIsRecent,
         FrameShowsItsGeneration, Empty
<1>5. StreamInOrder
  BY <1>2 DEF Init, StreamInOrder
<1> QED BY <1>1, <1>3, <1>4, <1>5 DEF IInv

\* What the sockets have read and show outlives a publication.
LEMMA PublishingSparesSockets ==
  ASSUME TypeOK, TypeOK', Fed, Grows, UNCHANGED <<sock, shown>>
  PROVE  StateSocket' /\ BundleSocket'
<1>1. /\ states.gen \in Nat /\ states'.gen \in Nat /\ bundles.gen \in Nat /\ bundles'.gen \in Nat
      /\ states.gen <= states'.gen /\ bundles.gen <= bundles'.gen
      /\ \A g \in 1 .. states.gen : log'[g] = log[g]
  BY DEF TypeOK, Store, Grows
<1>2. StateSocket'
  BY <1>1 DEF Fed, StateSocket, Backed, Showing
<1>3. BundleSocket'
  BY <1>1 DEF Fed, BundleSocket, Backed, Showing
<1> QED BY <1>2, <1>3

\* What a step of one socket leaves alone.
LEMMA OneSocketMoves ==
  ASSUME TypeOK, Fed, UNCHANGED stores, NEW s \in Sockets, NEW t \in Sockets, s # t,
         sock'[t] = sock[t], shown'[t] = shown[t],
         s = "state" => StateSocket', s = "bundle" => BundleSocket'
  PROVE  StateSocket' /\ BundleSocket'
<1>1. states' = states /\ bundles' = bundles /\ log' = log
  BY DEF stores
<1>2. CASE s = "state"
  BY <1>1, <1>2 DEF Sockets, Fed, BundleSocket, Backed, Showing
<1>3. CASE s = "bundle"
  BY <1>1, <1>3 DEF Sockets, Fed, StateSocket, Backed, Showing
<1> QED BY <1>2, <1>3 DEF Sockets

\* /ws/state: connecting shows the slot, and every wake a newer generation.
LEMMA StateTaskKeepsOrder ==
  ASSUME TypeOK, Fed, StateConnects \/ StateWakes \/ StateSends \/ Disconnects("state")
  PROVE  StateSocket' /\ BundleSocket'
<1>1. /\ "state" \in Sockets /\ "bundle" \in Sockets /\ "state" # "bundle"
      /\ states.gen \in Nat /\ sock["state"] \in Task /\ shown["state"] \in Display
      /\ Backed(states) /\ Backed(Empty) /\ Empty.gen = 0
      /\ sock \in [Sockets -> Task] /\ shown \in [Sockets -> Display]
  BY SocketParts DEF Sockets, Fed, StoresBacked, TypeOK, Store, Backed, Empty, Task, Display
<1>2. /\ states' = states /\ log' = log /\ UNCHANGED stores
      /\ sock'["bundle"] = sock["bundle"] /\ shown'["bundle"] = shown["bundle"]
  BY <1>1 DEF StateConnects, StateWakes, Wakes, StateSends, Disconnects, Shows, GoesDark, stores
<1>3. StateSocket'
  <2>1. CASE StateConnects
    <3>1. /\ sock'["state"] = [pc |-> "wait", cursor |-> states.gen, got |-> Empty]
          /\ shown'["state"] = [gen |-> states.gen, view |-> states.latest]
      BY <1>1, <2>1 DEF StateConnects, Shows
    <3> QED BY <1>1, <1>2, <3>1 DEF StateSocket, Backed, Showing
  <2>2. CASE StateWakes
    <3>1. /\ sock["state"].pc = "wait" /\ states.gen > sock["state"].cursor
          /\ sock'["state"] = [pc |-> "woken", cursor |-> sock["state"].cursor, got |-> states]
          /\ shown'["state"] = shown["state"]
      BY <1>1, <2>2 DEF StateWakes, Wakes, Goto, Task
    <3> QED BY <1>1, <1>2, <3>1 DEF Fed, StateSocket, Backed, Showing
  <2>3. CASE StateSends
    <3> DEFINE got == sock["state"].got
    <3>1. /\ sock["state"].pc = "woken"
          /\ sock'["state"] = [pc |-> "wait", cursor |-> got.gen, got |-> Empty]
          /\ shown'["state"] = [gen |-> got.gen, view |-> got.latest]
      BY <1>1, <2>3 DEF StateSends, Shows
    <3> QED BY <1>1, <1>2, <3>1 DEF Fed, StateSocket, Backed, Showing
  <2>4. CASE Disconnects("state")
    <3>1. /\ sock'["state"] = [pc |-> "closed", cursor |-> 0, got |-> Empty]
          /\ shown'["state"] = [gen |-> shown["state"].gen, view |-> None]
      BY <1>1, <2>4 DEF Disconnects, GoesDark
    <3> QED BY <1>1, <1>2, <3>1 DEF Fed, StateSocket, Backed, Showing
  <2> QED BY <2>1, <2>2, <2>3, <2>4
<1> QED BY <1>1, <1>2, <1>3, OneSocketMoves

\* Whichever pair the bundle task answers, it answers no older one after it.
LEMMA AnswersKeepOrder ==
  ASSUME TypeOK, Fed, NEW pair \in Store, NEW label \in {"greet", "encode"},
         Answers(pair, label), Backed(pair), pair.gen <= bundles.gen,
         shown["bundle"].gen <= pair.gen,
         label = "greet" => shown["bundle"].view = None,
         label = "encode" => shown["bundle"].gen < pair.gen
  PROVE  BundleSocket'
<1>1. /\ "bundle" \in Sockets /\ pair.gen \in Nat /\ shown["bundle"].gen \in Nat
      /\ sock \in [Sockets -> Task] /\ shown \in [Sockets -> Display]
      /\ bundles.gen \in Nat /\ states.gen \in Nat
  BY DEF Sockets, TypeOK, Store, Task, Display
<1>2. bundles.gen <= states.gen /\ Backed(Empty) /\ Empty.gen = 0
  BY <1>1 DEF Fed, StoresBacked, Backed, Empty
<1>3. states' = states /\ bundles' = bundles /\ log' = log
  BY DEF Answers, stores
<1>4. CASE pair.latest # None /\ ~BundleStale(pair.latest)
  <2>1. /\ sock'["bundle"] = [pc |-> label, cursor |-> pair.gen, got |-> pair]
        /\ shown'["bundle"] = shown["bundle"]
    BY <1>1, <1>2, <1>4 DEF Answers
  <2>2. pair.gen > 0
    BY <1>1, <1>4 DEF Backed
  <2> QED BY <1>1, <1>2, <1>3, <2>1, <2>2 DEF Fed, BundleSocket, Backed, Showing
<1>5. CASE ~(pair.latest # None /\ ~BundleStale(pair.latest))
  <2>1. /\ sock'["bundle"] = [pc |-> "wait", cursor |-> pair.gen, got |-> Empty]
        /\ shown'["bundle"] = [gen |-> pair.gen, view |-> None]
    BY <1>1, <1>5 DEF Answers, GoesDark
  <2> QED BY <1>1, <1>2, <1>3, <2>1 DEF Fed, BundleSocket, Backed, Showing
<1> QED BY <1>4, <1>5

\* /ws/bundle: connecting, throttling and timing out keep the order too.
LEMMA BundleTaskKeepsOrder ==
  ASSUME TypeOK, Fed, BundleConnects \/ BundleTask \/ Disconnects("bundle")
  PROVE  StateSocket' /\ BundleSocket'
<1>1. /\ "state" \in Sockets /\ "bundle" \in Sockets /\ "state" # "bundle"
      /\ sock["bundle"] \in Task /\ shown["bundle"] \in Display
      /\ sock \in [Sockets -> Task] /\ shown \in [Sockets -> Display]
      /\ sock["bundle"].got \in Store /\ bundles \in Store
      /\ bundles.gen \in Nat /\ states.gen \in Nat
  BY SocketParts DEF Sockets, TypeOK, Store, Task, Display
<1>2. /\ Backed(states) /\ Backed(bundles) /\ Backed(Empty) /\ Empty.gen = 0
      /\ BundleSocket /\ shown["bundle"].gen \in Nat /\ sock["bundle"].got.gen \in Nat
  BY <1>1 DEF Fed, StoresBacked, Backed, Empty, Store, Display
<1>3. /\ states' = states /\ bundles' = bundles /\ log' = log /\ UNCHANGED stores
      /\ sock'["state"] = sock["state"] /\ shown'["state"] = shown["state"]
  BY <1>1 DEF BundleConnects, BundleTask, BundleWakes, Wakes, BundleTimesOut, BundleAnswers,
    BundleThrottles, BundleRereads, BundleSends, Answers, Disconnects, Shows, GoesDark, stores
<1>4. BundleSocket'
  <2>1. CASE BundleConnects
    BY <1>1, <1>2, <2>1, AnswersKeepOrder DEF BundleConnects, BundleSocket
  <2>2. CASE BundleWakes
    <3>1. /\ sock["bundle"].pc = "wait" /\ bundles.gen > sock["bundle"].cursor
          /\ sock'["bundle"] = [pc |-> "woken", cursor |-> sock["bundle"].cursor, got |-> bundles]
          /\ shown'["bundle"] = shown["bundle"]
      BY <1>1, <2>2 DEF BundleWakes, Wakes, Goto, Task
    <3> QED BY <1>1, <1>2, <1>3, <3>1 DEF BundleSocket, Backed, Showing
  <2>3. CASE BundleTimesOut
    <3>1. /\ sock'["bundle"] = sock["bundle"] /\ OwesStale
          /\ shown'["bundle"] = [gen |-> shown["bundle"].gen, view |-> None]
      BY <1>1, <2>3 DEF BundleTimesOut, GoesDark
    <3> QED BY <1>1, <1>2, <1>3, <3>1 DEF BundleSocket, Backed, Showing, OwesStale
  <2>4. CASE BundleAnswers
    BY <1>1, <1>2, <2>4, AnswersKeepOrder DEF BundleAnswers, BundleSocket
  <2>5. CASE BundleThrottles
    <3>1. /\ sock["bundle"].pc = "woken" /\ shown'["bundle"] = shown["bundle"]
          /\ sock'["bundle"] = [pc |-> "delay", cursor |-> sock["bundle"].cursor, got |-> sock["bundle"].got]
      BY <1>1, <2>5 DEF BundleThrottles, Goto, Task
    <3> QED BY <1>1, <1>2, <1>3, <3>1 DEF BundleSocket, Backed, Showing
  <2>6. CASE BundleRereads
    <3>1. sock["bundle"].pc = "delay" /\ shown["bundle"].gen < bundles.gen
      BY <1>1, <1>2, <2>6 DEF BundleRereads, BundleSocket
    <3> QED BY <1>1, <1>2, <2>6, <3>1, AnswersKeepOrder DEF BundleRereads
  <2>7. CASE BundleSends
    <3> DEFINE got == sock["bundle"].got
    <3>1. /\ sock["bundle"].pc \in {"greet", "encode"}
          /\ sock'["bundle"] = [pc |-> "wait", cursor |-> sock["bundle"].cursor, got |-> Empty]
          /\ shown'["bundle"] = [gen |-> got.gen, view |-> got.latest]
      BY <1>1, <2>7 DEF BundleSends, Goto, Shows, Task
    <3> QED BY <1>1, <1>2, <1>3, <3>1 DEF BundleSocket, Backed, Showing
  <2>8. CASE Disconnects("bundle")
    <3>1. /\ sock'["bundle"] = [pc |-> "closed", cursor |-> 0, got |-> Empty]
          /\ shown'["bundle"] = [gen |-> shown["bundle"].gen, view |-> None]
      BY <1>1, <2>8 DEF Disconnects, GoesDark
    <3> QED BY <1>1, <1>2, <1>3, <3>1 DEF BundleSocket, Backed, Showing
  <2> QED BY <2>1, <2>2, <2>3, <2>4, <2>5, <2>6, <2>7, <2>8 DEF BundleTask
<1> QED BY <1>1, <1>3, <1>4, OneSocketMoves

-----------------------------------------------------------------------------
(* The overlay.                                                            *)

\* What a poll concludes: a fresh overlay is of the publication in the slot,
\* seen in time and captured in time; a latch that expired stays expired.
LEMMA PollConcludes ==
  ASSUME TypeOK, StoresBacked, Latched
  PROVE  /\ Observed.gen = states.gen
         /\ Observed.expired \/ Observed.deadline <= Observed.since + StaleAfter
         /\ observed.gen = states.gen /\ observed.expired => Observed.expired
         /\ OverlayFresh =>
              /\ states.gen > 0 /\ states.latest = log[states.gen] /\ states.latest # None
              /\ now <= Observed.since + StaleAfter
              /\ now + skew <= states.latest.at + StaleAfter
         /\ ~OverlayFresh => Observed.expired \/ ~states.latest.usable
<1>1. /\ now \in Nat /\ skew \in Nat /\ StaleAfter \in Nat /\ states.gen \in Nat
      /\ states.latest # None => states.latest.at \in Nat
      /\ observed.gen \in Int /\ observed.deadline \in Nat /\ observed.since \in Nat
  BY StreamsAssumption DEF TypeOK, Store, Slot, Scene
<1>2. Observed.gen = states.gen
  BY DEF Observed
<1>3. observed.gen = states.gen /\ observed.expired => Observed.expired
  BY DEF Observed
<1>4. ~Observed.expired => now <= Observed.deadline /\ InAge(states.latest)
  <2>1. Observed.deadline \in Nat
    BY ControllerTypes
  <2>2. Observed.expired <=>
          \/ ~(states.gen # observed.gen) /\ observed.expired
          \/ now > Observed.deadline \/ ~InAge(states.latest)
    BY Zenon DEF Observed
  <2> QED BY <1>1, <2>1, <2>2
<1>5. InAge(states.latest) =>
        states.latest # None /\ now + skew - states.latest.at \in 0 .. StaleAfter
  BY <1>1 DEF InAge, Wall
<1>6. Observed.expired \/ Observed.deadline <= Observed.since + StaleAfter
  <2> SUFFICES ASSUME ~Observed.expired
               PROVE  Observed.deadline <= Observed.since + StaleAfter
    OBVIOUS
  <2>1. CASE states.gen # observed.gen
    <3>1. Observed.deadline = now + Monus(StaleAfter, now + skew - states.latest.at) /\ Observed.since = now
      BY <1>1, <1>4, <1>5, <2>1 DEF Observed, Wall
    <3> QED BY <1>1, <1>4, <1>5, <3>1 DEF Monus
  <2>2. CASE states.gen = observed.gen
    <3>1. ~observed.expired /\ Observed.deadline = observed.deadline /\ Observed.since = observed.since
      BY <2>2 DEF Observed
    <3> QED BY <3>1 DEF Latched
  <2> QED BY <2>1, <2>2
<1>7. ASSUME OverlayFresh
      PROVE  /\ states.gen > 0 /\ states.latest = log[states.gen] /\ states.latest # None
             /\ now <= Observed.since + StaleAfter
             /\ now + skew <= states.latest.at + StaleAfter
  <2>1. ~Observed.expired
    BY <1>7 DEF OverlayFresh
  <2>2. states.gen > 0 /\ states.latest = log[states.gen] /\ states.latest # None
    BY <1>1, <1>4, <1>5, <2>1 DEF StoresBacked, Backed
  <2>3. Observed.since \in Nat /\ Observed.deadline \in Nat
    BY ControllerTypes
  <2> QED BY <1>1, <1>4, <1>5, <1>6, <2>1, <2>2, <2>3
<1>8. ~OverlayFresh => Observed.expired \/ ~states.latest.usable
  BY DEF OverlayFresh
<1> QED BY <1>2, <1>3, <1>6, <1>7, <1>8

\* A render is dark, or carries the publication in the slot.
LEMMA RenderShowsTheSlot ==
  ASSUME TypeOK, StoresBacked, Latched, CacheBacked
  PROVE  /\ Rendered.fresh => Rendered.gen \in 1 .. states.gen /\ Rendered.image = log[Rendered.gen]
         /\ OverlayFresh => Rendered.image = log[states.gen]
<1> DEFINE fresh == OverlayFresh
<1>1. fresh \in BOOLEAN /\ cache.fresh \in BOOLEAN /\ states.gen \in Nat
  BY ControllerTypes DEF TypeOK, Store
<1>2. fresh => states.gen > 0 /\ states.latest = log[states.gen]
  BY PollConcludes
<1>3. Rendered = IF cache.gen = states.gen /\ cache.fresh = fresh THEN cache
                 ELSE [gen |-> states.gen, fresh |-> fresh, image |-> IF fresh THEN states.latest ELSE None]
  BY DEF Rendered
<1> HIDE DEF fresh
<1>4. /\ Rendered.fresh => Rendered.gen \in 1 .. states.gen /\ Rendered.image = log[Rendered.gen]
      /\ fresh => Rendered.image = log[states.gen]
  <2>1. CASE cache.gen = states.gen /\ cache.fresh = fresh
    BY <1>1, <1>3, <2>1 DEF CacheBacked
  <2>2. CASE ~(cache.gen = states.gen /\ cache.fresh = fresh)
    BY <1>1, <1>2, <1>3, <2>2
  <2> QED BY <2>1, <2>2
<1> QED BY <1>4 DEF fresh

LEMMA PollKeepsOverlay ==
  ASSUME TypeOK, StoresBacked, Overlaid, Honest, ServesStatus \/ ServesPreview \/ ServesFrame
  PROVE  Overlaid' /\ Honest'
<1>1. /\ Latched /\ CacheBacked /\ FrameBacked /\ states.gen \in Nat
      /\ observed' = Observed /\ cache' \in {cache, Rendered}
      /\ UNCHANGED <<states, log, now, skew, stepped>>
  BY DEF Overlaid, TypeOK, Store, ServesStatus, ServesPreview, ServesFrame, stores, clocks
<1>2. Latched'
  BY <1>1, PollConcludes DEF Latched
<1>3. CacheBacked'
  BY <1>1, RenderShowsTheSlot DEF CacheBacked
<1>4. CASE ~ServesFrame
  <2>1. vrFrame' = vrFrame
    BY <1>4 DEF ServesStatus, ServesPreview
  <2>2. FrameBacked'
    BY <1>1, <2>1, PollConcludes DEF FrameBacked
  <2>3. Honest'
    BY <1>1, <2>1 DEF Honest, FreshFrameIsRecent, FrameShowsItsGeneration
  <2> QED BY <1>2, <1>3, <2>2, <2>3 DEF Overlaid
<1>5. CASE ServesFrame
  <2> DEFINE fresh == OverlayFresh
  <2>1. /\ vrFrame' = [polled |-> TRUE, gen |-> states.gen, fresh |-> fresh,
                       image |-> IF fresh THEN Rendered.image ELSE None,
                       at |-> IF fresh THEN now ELSE 0,
                       since |-> IF fresh THEN Observed.since ELSE 0]
    BY <1>5 DEF ServesFrame
  <2>2. /\ fresh \in BOOLEAN
        /\ fresh => states.gen > 0 /\ now <= Observed.since + StaleAfter
                    /\ now + skew <= log[states.gen].at + StaleAfter
                    /\ Rendered.image = log[states.gen]
        /\ ~fresh => Observed.expired \/ ~states.latest.usable
        /\ Observed.gen = states.gen
    BY <1>1, ControllerTypes, PollConcludes, RenderShowsTheSlot
  <2> HIDE DEF fresh
  <2>3. FrameBacked'
    BY <1>1, <2>1, <2>2 DEF FrameBacked
  <2>4. Honest'
    BY <1>1, <2>1, <2>2 DEF Honest, FreshFrameIsRecent, FrameShowsItsGeneration
  <2> QED BY <1>2, <1>3, <2>3, <2>4 DEF Overlaid
<1> QED BY <1>4, <1>5

\* The overlay outlives publications and the steps of both clocks.
LEMMA OverlayOutlives ==
  ASSUME TypeOK, TypeOK', StoresBacked, StoresBacked', Overlaid, Honest, Grows, UNCHANGED steamvr,
         UNCHANGED <<skew, stepped>> \/ stepped' # None
  PROVE  Overlaid' /\ Honest'
<1>1. /\ states.gen \in Nat /\ states'.gen \in Nat /\ states.gen <= states'.gen
      /\ \A g \in 1 .. states.gen : log'[g] = log[g]
  BY DEF TypeOK, Store, Grows
<1>2. /\ observed' = observed /\ cache' = cache /\ vrFrame' = vrFrame /\ observed.gen \in Int
  BY DEF TypeOK, steamvr
<1>3. states'.gen = states.gen => states'.latest = states.latest
  BY <1>1 DEF StoresBacked, Backed
<1>4. Overlaid'
  BY <1>1, <1>2, <1>3 DEF Overlaid, Latched, CacheBacked, FrameBacked
<1>5. Honest'
  BY <1>1, <1>2 DEF Overlaid, FrameBacked, Honest, FreshFrameIsRecent, FrameShowsItsGeneration
<1> QED BY <1>4, <1>5

-----------------------------------------------------------------------------
(* The video stream.                                                       *)

LEMMA VideoKeepsOrder ==
  ASSUME TypeOK, StreamInOrder, Video
  PROVE  StreamInOrder'
<1>1. /\ frames.id \in Nat /\ frames.latest \in Nat /\ MaxGen \in Nat
      /\ frames \in [id : Nat, latest : Nat]
      /\ stream \in [pc : {"closed", "wait", "woken", "encode"}, after : Nat, got : Nat,
                     shown : Nat, lit : BOOLEAN]
  BY StreamsAssumption DEF TypeOK
<1>2. CASE PublishFrame
  <2>1. stream' = stream /\ frames'.id = frames.id + 1 /\ frames'.latest = frames.id + 1 /\ frames.id < MaxGen
    BY <1>1, <1>2 DEF PublishFrame
  <2> QED BY <1>1, <2>1 DEF StreamInOrder
<1>3. CASE ClearFrames
  <2>1. stream' = stream /\ frames'.id = frames.id /\ frames'.latest = 0
    BY <1>1, <1>3 DEF ClearFrames
  <2> QED BY <1>1, <2>1 DEF StreamInOrder
<1>4. CASE StreamOpens
  <2>1. /\ frames' = frames /\ stream'.pc = "wait" /\ stream'.shown = stream.shown /\ stream'.lit = stream.lit
        /\ stream.pc = "closed"
    BY <1>1, <1>4 DEF StreamOpens
  <2> QED BY <1>1, <2>1 DEF StreamInOrder
<1>5. CASE StreamWakes
  <2>1. /\ frames' = frames /\ stream'.pc = "woken" /\ stream'.shown = stream.shown /\ stream'.lit = stream.lit
        /\ stream.pc = "wait" /\ stream'.got = frames.latest /\ stream'.after = stream.after
        /\ frames.latest > stream.after
    BY <1>1, <1>5 DEF StreamWakes
  <2> QED BY <1>1, <2>1 DEF StreamInOrder
<1>6. CASE StreamPicks
  <2>1. PICK id \in {stream.got, Newest} : stream' = [stream EXCEPT !.pc = "encode", !.got = id, !.after = id]
    BY <1>6 DEF StreamPicks
  <2>2. /\ frames' = frames /\ stream'.pc = "encode" /\ stream'.shown = stream.shown /\ stream'.lit = stream.lit
        /\ stream.pc = "woken" /\ stream'.got = id /\ stream'.after = id
    BY <1>1, <1>6, <2>1 DEF StreamPicks
  <2>3. stream.got <= id /\ id \in {stream.got, frames.latest}
    BY <1>1 DEF Newest
  <2> QED BY <1>1, <2>2, <2>3 DEF StreamInOrder
<1>7. CASE StreamSends
  <2>1. /\ frames' = frames /\ stream'.pc = "wait" /\ stream'.shown = stream.got /\ stream'.lit = TRUE
        /\ stream.pc = "encode" /\ stream'.got = stream.got /\ stream'.after = stream.after
    BY <1>1, <1>7 DEF StreamSends
  <2> QED BY <1>1, <2>1 DEF StreamInOrder
<1>8. CASE StreamCloses
  <2>1. frames' = frames /\ stream'.pc = "closed" /\ stream'.shown = stream.shown /\ stream'.lit = FALSE
    BY <1>1, <1>8 DEF StreamCloses
  <2> QED BY <1>1, <2>1 DEF StreamInOrder
<1> QED BY <1>2, <1>3, <1>4, <1>5, <1>6, <1>7, <1>8 DEF Video

-----------------------------------------------------------------------------
(* Theorems.                                                               *)

LEMMA StepKeepsIInv ==
  ASSUME IInv, [Next]_vars
  PROVE  IInv'
<1>1. TypeOK /\ TypeOK' /\ StoresBacked /\ StoresBacked' /\ Grows /\ Fed
      /\ Overlaid /\ Honest /\ StreamInOrder
  BY StepTypes, StoresGrow DEF IInv, Fed
<1>2. UNCHANGED sockets => StateSocket' /\ BundleSocket'
  BY <1>1, PublishingSparesSockets DEF sockets
<1>3. UNCHANGED steamvr /\ (UNCHANGED <<skew, stepped>> \/ stepped' # None) => Overlaid' /\ Honest'
  BY <1>1, OverlayOutlives
<1>4. UNCHANGED clocks => UNCHANGED <<skew, stepped>>
  BY DEF clocks
<1>5. UNCHANGED video => StreamInOrder'
  BY <1>1 DEF video, StreamInOrder
<1>6. StateMoves => StateSocket' /\ BundleSocket'
  BY <1>1, StateTaskKeepsOrder DEF StateMoves, StateTask
<1>7. BundleMoves => StateSocket' /\ BundleSocket'
  BY <1>1, BundleTaskKeepsOrder DEF BundleMoves
<1>8. Polls => Overlaid' /\ Honest'
  BY <1>1, PollKeepsOverlay DEF Polls
<1>9. Video => StreamInOrder'
  BY <1>1, VideoKeepsOrder
<1>10. StateSocket' /\ BundleSocket' /\ Overlaid' /\ Honest' /\ StreamInOrder'
  BY <1>1, <1>2, <1>3, <1>4, <1>5, <1>6, <1>7, <1>8, <1>9, OnePartMoves
<1> QED BY <1>1, <1>10 DEF IInv, Fed

LEMMA IInvHolds == Spec => []IInv
<1>1. Init => IInv
  BY InitHolds
<1>2. IInv /\ [Next]_vars => IInv'
  BY StepKeepsIInv
<1> QED BY <1>1, <1>2, PTL DEF Spec

\* Stores, sockets, stream, latch, cache and histories keep their types
\* (state/store.py, state/bundle.py, steamvr/service.py).
THEOREM StreamsTypeCorrect == Spec => []TypeOK
<1>1. IInv => TypeOK
  BY DEF IInv
<1> QED BY <1>1, IInvHolds, PTL

\* An overlay served as fresh was first seen at most the staleness limit
\* before, whatever was done to the wall clock; and if nothing was, it was
\* captured no longer ago than that (steamvr/service.py:120-153).
THEOREM FreshOverlayIsRecent == Spec => []FreshFrameIsRecent
<1>1. IInv => FreshFrameIsRecent
  BY DEF IInv, Honest
<1> QED BY <1>1, IInvHolds, PTL

\* The highlights in a fresh overlay are those of the generation it names,
\* whoever rendered the shared image (steamvr/service.py:183-213).
THEOREM OverlayShowsItsGeneration == Spec => []FrameShowsItsGeneration
<1>1. IInv => FrameShowsItsGeneration
  BY DEF IInv, Honest
<1> QED BY <1>1, IInvHolds, PTL

-----------------------------------------------------------------------------
(* Every stream implements the safety half of LatestFeed: its first state  *)
(* is an initial state of the feed, and each step a step of it or none.    *)

LEMMA FeedsBegin ==
  ASSUME Init
  PROVE  StateFeed!Init /\ BundleFeed!Init /\ VideoFeed!Init
<1>1. StateFeed!Init
  BY DEF Init, StateFeed!Init, Sockets, StateReaders, StateJoined, StateCursor, StateView
<1>2. BundleFeed!Init
  <2>1. BundleLog = <<>>
    BY DEF Init, Empty, BundleLog
  <2> QED BY <2>1 DEF Init, BundleFeed!Init, Sockets, BundleJoined, BundleCursor, BundleView
<1>3. VideoFeed!Init
  BY DEF Init, VideoFeed!Init, VideoLog, VideoJoined, VideoCursor, VideoView
<1> QED BY <1>1, <1>2, <1>3

\* How a step of the socket, or of the overlay, shows in the state feed.
LEMMA StateReaderMoves ==
  ASSUME TypeOK, TypeOK'
  PROVE  /\ UNCHANGED <<sock, shown, vrFrame>> => UNCHANGED <<StateJoined, StateCursor, StateView>>
         /\ UNCHANGED vrFrame =>
              /\ StateJoined' = [StateJoined EXCEPT !["state"] = sock'["state"].pc # "closed"]
              /\ StateCursor' = [StateCursor EXCEPT !["state"] = shown'["state"].gen]
              /\ StateView'   = [StateView   EXCEPT !["state"] = shown'["state"].view]
         /\ UNCHANGED <<sock, shown>> =>
              /\ StateJoined' = [StateJoined EXCEPT !["steamvr"] = vrFrame'.polled]
              /\ StateCursor' = [StateCursor EXCEPT !["steamvr"] = vrFrame'.gen]
              /\ StateView'   = [StateView   EXCEPT !["steamvr"] = vrFrame'.image]
<1> USE DEF StateReaders
<1>1. vrFrame.polled \in BOOLEAN /\ vrFrame'.polled \in BOOLEAN
  BY DEF TypeOK
<1>2. UNCHANGED <<sock, shown, vrFrame>> => UNCHANGED <<StateJoined, StateCursor, StateView>>
  BY DEF StateJoined, StateCursor, StateView
<1>3. UNCHANGED vrFrame => /\ StateCursor' = [StateCursor EXCEPT !["state"] = shown'["state"].gen]
                           /\ StateView'   = [StateView   EXCEPT !["state"] = shown'["state"].view]
  BY DEF StateCursor, StateView
<1>4. UNCHANGED vrFrame => StateJoined' = [StateJoined EXCEPT !["state"] = sock'["state"].pc # "closed"]
  BY <1>1 DEF StateJoined
<1>5. UNCHANGED <<sock, shown>> => /\ StateCursor' = [StateCursor EXCEPT !["steamvr"] = vrFrame'.gen]
                                   /\ StateView'   = [StateView   EXCEPT !["steamvr"] = vrFrame'.image]
  BY DEF StateCursor, StateView
<1>6. UNCHANGED <<sock, shown>> => StateJoined' = [StateJoined EXCEPT !["steamvr"] = vrFrame'.polled]
  BY <1>1 DEF StateJoined
<1> QED BY <1>2, <1>3, <1>4, <1>5, <1>6

\* The state store's publications and clears are those of its feed.
LEMMA StateFeedPublishes ==
  ASSUME IInv, IInv', Publishing, UNCHANGED <<clocks, sockets, video, steamvr>>
  PROVE  [StateFeed!Next]_StateFeed!vars
<1>1. UNCHANGED <<StateJoined, StateCursor, StateView>>
  BY StateReaderMoves DEF IInv, sockets, steamvr
<1>2. CASE PublishState
  <2>1. PICK scene \in Scenes : log' = Append(log, scene)
    BY <1>2, ScenesPublished DEF IInv
  <2>2. StateFeed!Publish(scene)
    BY <1>1, <2>1 DEF StateFeed!Publish
  <2> QED BY <2>1, <2>2 DEF StateFeed!Next
<1>3. CASE ClearStates
  <2>1. StateFeed!Publish(None)
    BY <1>1, <1>3 DEF ClearStates, StateFeed!Publish
  <2> QED BY <2>1 DEF StateFeed!Next
<1>4. CASE PublishBundle \/ ClearBundles
  <2>1. log' = log
    BY <1>4 DEF PublishBundle, ClearBundles
  <2> QED BY <1>1, <2>1 DEF StateFeed!vars
<1> QED BY <1>2, <1>3, <1>4 DEF Publishing

\* The state socket joins, catches up and leaves.
LEMMA StateFeedFollowsSocket ==
  ASSUME IInv, IInv', StateMoves \/ BundleMoves, UNCHANGED <<clocks, stores, video, steamvr>>
  PROVE  [StateFeed!Next]_StateFeed!vars
<1>1. /\ log' = log /\ vrFrame' = vrFrame /\ Len(log) = states.gen /\ states.gen \in Nat
      /\ StateSocket /\ Backed(states) /\ TypeOK /\ TypeOK'
  BY DEF stores, steamvr, IInv, TypeOK, Fed, StoresBacked, Store
<1>2. /\ "state" \in Sockets /\ sock \in [Sockets -> Task] /\ shown \in [Sockets -> Display]
      /\ shown["state"].gen \in Nat /\ sock["state"].got.gen \in Nat
  BY <1>1 DEF TypeOK, Task, Display, Store, Sockets
<1>3. /\ StateJoined["state"] <=> sock["state"].pc # "closed"
      /\ StateCursor["state"] = shown["state"].gen
  BY DEF StateReaders, StateJoined, StateCursor
<1>4. /\ StateJoined' = [StateJoined EXCEPT !["state"] = sock'["state"].pc # "closed"]
      /\ StateCursor' = [StateCursor EXCEPT !["state"] = shown'["state"].gen]
      /\ StateView'   = [StateView   EXCEPT !["state"] = shown'["state"].view]
  BY <1>1, StateReaderMoves
<1>5. "state" \in StateReaders
  BY DEF StateReaders
<1>6. CASE StateConnects
  <2>1. /\ sock["state"].pc = "closed" /\ sock'["state"].pc # "closed"
        /\ shown'["state"].gen = states.gen /\ shown'["state"].view = states.latest
    BY <1>2, <1>6 DEF StateConnects, Shows
  <2>2. states.gen \in shown["state"].gen .. Len(log)
    BY <1>1, <1>2 DEF StateSocket, Showing
  <2>3. StateFeed!Shows("state", states.gen)
    <3>1. states.latest \in {None} \cup {log[h] : h \in {states.gen} \ {0}}
      BY <1>1 DEF Backed
    <3> QED BY <1>4, <2>1, <3>1 DEF StateFeed!Shows
  <2>4. StateFeed!Join("state")
    BY <1>1, <1>3, <1>4, <2>1, <2>2, <2>3 DEF StateFeed!Join
  <2> QED BY <1>5, <2>4 DEF StateFeed!Next
<1>7. CASE StateWakes \/ BundleMoves
  <2>1. (sock'["state"].pc # "closed") = (sock["state"].pc # "closed") /\ shown'["state"] = shown["state"]
    <3>1. CASE StateWakes
      BY <1>2, <3>1 DEF StateWakes, Wakes, Goto, Task
    <3>2. CASE BundleMoves
      BY <1>2, <3>2 DEF BundleMoves, BundleConnects, BundleTask, BundleWakes, Wakes, BundleTimesOut,
        BundleAnswers, BundleThrottles, BundleRereads, BundleSends, Answers, Disconnects, Shows, GoesDark
    <3> QED BY <1>7, <3>1, <3>2
  <2>2. UNCHANGED <<StateJoined, StateCursor, StateView>>
    BY <1>1, <2>1 DEF StateJoined, StateCursor, StateView
  <2> QED BY <1>1, <2>2 DEF StateFeed!vars
<1>8. CASE StateSends
  <2> DEFINE got == sock["state"].got
  <2>1. /\ sock["state"].pc = "woken" /\ sock'["state"].pc # "closed"
        /\ shown'["state"].gen = got.gen /\ shown'["state"].view = got.latest
    BY <1>2, <1>8 DEF StateSends, Shows
  <2>2. got.gen \in shown["state"].gen + 1 .. Len(log) /\ Backed(got)
    BY <1>1, <1>2, <2>1 DEF StateSocket, Backed
  <2>3. StateFeed!Shows("state", got.gen)
    <3>1. got.latest \in {None} \cup {log[h] : h \in {got.gen} \ {0}}
      BY <1>2, <2>2 DEF Backed
    <3> QED BY <1>4, <2>1, <3>1 DEF StateFeed!Shows
  <2>4. UNCHANGED StateJoined
    BY <1>1, <2>1 DEF StateJoined
  <2>5. StateFeed!CatchUp("state")
    BY <1>1, <1>3, <2>1, <2>2, <2>3, <2>4 DEF StateFeed!CatchUp
  <2> QED BY <1>5, <2>5 DEF StateFeed!Next
<1>9. CASE Disconnects("state")
  <2>1. /\ ~(sock'["state"].pc # "closed")
        /\ shown'["state"].gen = shown["state"].gen /\ shown'["state"].view = None
    BY <1>2, <1>9 DEF Disconnects, GoesDark
  <2>2. UNCHANGED StateCursor
    BY <1>1, <2>1 DEF StateCursor
  <2>3. StateJoined' = [StateJoined EXCEPT !["state"] = FALSE]
    BY <1>1, <2>1 DEF StateJoined, StateReaders
  <2>4. StateFeed!Leave("state")
    BY <1>1, <1>4, <2>1, <2>2, <2>3 DEF StateFeed!Leave
  <2> QED BY <1>5, <2>4 DEF StateFeed!Next
<1> QED BY <1>6, <1>7, <1>8, <1>9 DEF StateMoves, StateTask

\* The overlay the bridge polls joins, catches up and goes dark.
LEMMA StateFeedFollowsOverlay ==
  ASSUME IInv, IInv', Polls, UNCHANGED <<clocks, stores, sockets, video>>
  PROVE  [StateFeed!Next]_StateFeed!vars
<1>1. /\ log' = log /\ sock' = sock /\ shown' = shown /\ Len(log) = states.gen /\ states.gen \in Nat
      /\ FrameBacked /\ FrameShowsItsGeneration /\ StoresBacked /\ Latched /\ CacheBacked
      /\ TypeOK /\ TypeOK' /\ vrFrame.gen \in Nat
  BY DEF stores, sockets, IInv, TypeOK, Fed, Overlaid, Honest, Store
<1>2. CASE ~ServesFrame
  <2>1. vrFrame' = vrFrame
    BY <1>2 DEF Polls, ServesStatus, ServesPreview
  <2>2. UNCHANGED <<StateJoined, StateCursor, StateView>>
    BY <1>1, <2>1, StateReaderMoves
  <2> QED BY <1>1, <2>2 DEF StateFeed!vars
<1>3. CASE ServesFrame
  <2> DEFINE fresh == OverlayFresh
             image == IF fresh THEN Rendered.image ELSE None
  <2>1. vrFrame'.polled = TRUE /\ vrFrame'.gen = states.gen /\ vrFrame'.image = image
    BY <1>3 DEF ServesFrame
  <2>2. image = None \/ (states.gen > 0 /\ image = log[states.gen])
    BY <1>1, PollConcludes, RenderShowsTheSlot
  <2>3. vrFrame.gen <= states.gen
    BY <1>1 DEF FrameBacked
  <2>4. /\ StateJoined' = [StateJoined EXCEPT !["steamvr"] = TRUE]
        /\ StateCursor' = [StateCursor EXCEPT !["steamvr"] = states.gen]
        /\ StateView'   = [StateView   EXCEPT !["steamvr"] = image]
    BY <1>1, <2>1, StateReaderMoves
  <2>5. /\ "steamvr" \in StateReaders /\ StateCursor["steamvr"] = vrFrame.gen
        /\ StateJoined["steamvr"] = vrFrame.polled
    BY DEF StateReaders, StateJoined, StateCursor
  <2> HIDE DEF fresh, image
  <2>6. StateFeed!Shows("steamvr", states.gen)
    <3>1. image \in {None} \cup {log[h] : h \in {states.gen} \ {0}}
      BY <1>1, <2>2
    <3> QED BY <2>4, <3>1 DEF StateFeed!Shows
  <2>7. CASE ~vrFrame.polled
    <3>1. StateFeed!Join("steamvr")
      BY <1>1, <2>3, <2>4, <2>5, <2>6, <2>7 DEF StateFeed!Join
    <3> QED BY <2>5, <3>1 DEF StateFeed!Next
  <2>8. CASE vrFrame.polled /\ vrFrame.gen < states.gen
    <3>1. StateFeed!CatchUp("steamvr")
      <4>1. UNCHANGED StateJoined
        BY <1>1, <2>1, <2>8 DEF StateJoined
      <4> QED BY <1>1, <2>5, <2>6, <2>8, <4>1 DEF StateFeed!CatchUp
    <3> QED BY <2>5, <3>1 DEF StateFeed!Next
  <2>9. CASE vrFrame.polled /\ vrFrame.gen = states.gen
    <3>1. UNCHANGED <<StateJoined, StateCursor>>
      BY <1>1, <2>1, <2>9 DEF StateJoined, StateCursor
    <3>2. CASE image = None
      <4>1. StateFeed!Dim("steamvr")
        BY <1>1, <2>4, <2>5, <2>9, <3>1, <3>2 DEF StateFeed!Dim
      <4> QED BY <2>5, <4>1 DEF StateFeed!Next
    <3>3. CASE image # None
      <4>1. OverlayFresh
        BY <3>3 DEF image, fresh
      <4>2. vrFrame.fresh
        BY <1>1, <2>9, <4>1, PollConcludes DEF FrameBacked, OverlayFresh
      <4>3. vrFrame.image = image
        BY <1>1, <2>2, <2>9, <3>3, <4>2 DEF FrameShowsItsGeneration
      <4>4. UNCHANGED StateView
        BY <1>1, <2>1, <4>3 DEF StateView
      <4> QED BY <1>1, <3>1, <4>4 DEF StateFeed!vars
    <3> QED BY <3>2, <3>3
  <2> QED BY <1>1, <2>3, <2>7, <2>8, <2>9
<1> QED BY <1>2, <1>3

\* The bundle store's publications are a prefix of the state store's.
LEMMA BundleLogIsPrefix ==
  ASSUME TypeOK, StoresBacked
  PROVE  /\ Len(BundleLog) = bundles.gen /\ bundles.gen \in Nat
         /\ \A h \in 1 .. bundles.gen : BundleLog[h] = log[h]
<1>1. log \in Seq(Scenes \cup {None}) /\ bundles.gen \in 0 .. Len(log)
  BY DEF TypeOK, StoresBacked, Backed
<1> QED BY <1>1 DEF BundleLog

\* How a step of the socket shows in the bundle feed.
LEMMA BundleReaderMoves ==
  /\ UNCHANGED sock => UNCHANGED BundleJoined
  /\ UNCHANGED shown => UNCHANGED <<BundleCursor, BundleView>>
  /\ BundleJoined' = [BundleJoined EXCEPT !["bundle"] = sock'["bundle"].pc \notin {"closed", "greet"}]
  /\ BundleCursor' = [BundleCursor EXCEPT !["bundle"] = shown'["bundle"].gen]
  /\ BundleView'   = [BundleView   EXCEPT !["bundle"] = shown'["bundle"].view]
  /\ BundleJoined["bundle"] <=> sock["bundle"].pc \notin {"closed", "greet"}
  /\ BundleCursor["bundle"] = shown["bundle"].gen
BY DEF BundleJoined, BundleCursor, BundleView

LEMMA BundleFeedPublishes ==
  ASSUME IInv, Publishing, UNCHANGED <<clocks, sockets, video, steamvr>>
  PROVE  [BundleFeed!Next]_BundleFeed!vars
<1>1. UNCHANGED <<BundleJoined, BundleCursor, BundleView>>
  BY BundleReaderMoves DEF sockets
<1>2. /\ log \in Seq(Scenes \cup {None}) /\ Len(log) = states.gen /\ bundles.gen \in 0 .. Len(log)
      /\ producer # "idle" => states.gen = bundles.gen + 1
      /\ Backed(states) /\ (producer = "clear" => states.latest = None)
  BY DEF IInv, Fed, TypeOK, StoresBacked, Backed
<1>3. CASE PublishState \/ ClearStates
  <2>1. PICK x : log' = Append(log, x) /\ bundles' = bundles
    BY <1>3 DEF PublishState, ClearStates
  <2>2. BundleLog' = BundleLog
    BY <1>2, <2>1 DEF BundleLog
  <2> QED BY <1>1, <2>2 DEF BundleFeed!vars
<1>4. CASE PublishBundle \/ ClearBundles
  <2>1. /\ log' = log /\ bundles'.gen = bundles.gen + 1 /\ producer # "idle"
    BY <1>4 DEF PublishBundle, ClearBundles, Published, Cleared
  <2>2. log[bundles.gen + 1] \in Scenes \cup {None} /\ bundles.gen + 1 = Len(log)
    BY <1>2, <2>1
  <2>3. BundleLog' = Append(BundleLog, log[bundles.gen + 1])
    BY <1>2, <2>1, <2>2 DEF BundleLog
  <2>4. BundleFeed!Publish(log[bundles.gen + 1])
    BY <1>1, <2>3 DEF BundleFeed!Publish
  <2> QED BY <2>2, <2>4 DEF BundleFeed!Next
<1> QED BY <1>3, <1>4 DEF Publishing

\* A message of the task: it joins with its first and catches up with others.
LEMMA BundleFeedShows ==
  ASSUME IInv, UNCHANGED stores, NEW pair, Backed(pair), pair.gen <= bundles.gen,
         NEW view \in {None, pair.latest},
         shown'["bundle"].gen = pair.gen, shown'["bundle"].view = view,
         shown["bundle"].gen <= pair.gen,
         sock["bundle"].pc \notin {"closed", "greet"} => shown["bundle"].gen < pair.gen,
         sock'["bundle"].pc \notin {"closed", "greet"}
  PROVE  BundleFeed!Next
<1>1. /\ Len(BundleLog) = bundles.gen /\ bundles.gen \in Nat /\ states.gen \in Nat
      /\ \A h \in 1 .. bundles.gen : BundleLog[h] = log[h]
  BY BundleLogIsPrefix DEF IInv, Fed, TypeOK, Store
<1>2. pair.gen \in Nat /\ shown["bundle"].gen \in Nat
  BY <1>1 DEF Backed, IInv, TypeOK, Sockets
<1>3. UNCHANGED BundleLog
  BY DEF BundleLog, stores
<1>4. BundleFeed!Shows("bundle", pair.gen)
  <2>1. view \in {None} \cup {BundleLog[h] : h \in {pair.gen} \ {0}}
    BY <1>1, <1>2 DEF Backed
  <2> QED BY <2>1, BundleReaderMoves DEF BundleFeed!Shows
<1>5. CASE sock["bundle"].pc \in {"closed", "greet"}
  <2>1. BundleJoined' = [BundleJoined EXCEPT !["bundle"] = TRUE]
    BY DEF BundleJoined
  <2>2. BundleFeed!Join("bundle")
    BY <1>1, <1>2, <1>3, <1>4, <1>5, <2>1, BundleReaderMoves DEF BundleFeed!Join
  <2> QED BY <2>2 DEF BundleFeed!Next
<1>6. CASE sock["bundle"].pc \notin {"closed", "greet"}
  <2>1. UNCHANGED BundleJoined
    BY <1>6 DEF BundleJoined
  <2>2. BundleFeed!CatchUp("bundle")
    BY <1>1, <1>2, <1>3, <1>4, <1>6, <2>1, BundleReaderMoves DEF BundleFeed!CatchUp
  <2> QED BY <2>2 DEF BundleFeed!Next
<1> QED BY <1>5, <1>6

\* Encoding, sleeping and waking show nothing.
LEMMA BundleFeedStutters ==
  ASSUME UNCHANGED stores, shown'["bundle"] = shown["bundle"],
         sock'["bundle"].pc \in {"closed", "greet"} <=> sock["bundle"].pc \in {"closed", "greet"}
  PROVE  UNCHANGED BundleFeed!vars
<1>1. UNCHANGED <<BundleLog, BundleJoined, BundleCursor, BundleView>>
  BY DEF stores, BundleLog, BundleJoined, BundleCursor, BundleView
<1> QED BY <1>1 DEF BundleFeed!vars

LEMMA BundleFeedAnswers ==
  ASSUME IInv, NEW pair \in Store, NEW label \in {"greet", "encode"}, Answers(pair, label),
         Backed(pair), pair.gen <= bundles.gen, shown["bundle"].gen <= pair.gen,
         label = "greet" => sock["bundle"].pc = "closed",
         label = "encode" => sock["bundle"].pc \notin {"closed", "greet"} /\ shown["bundle"].gen < pair.gen
  PROVE  [BundleFeed!Next]_BundleFeed!vars
<1>1. /\ "bundle" \in Sockets /\ sock \in [Sockets -> Task] /\ shown \in [Sockets -> Display]
      /\ UNCHANGED stores
  BY DEF IInv, TypeOK, Sockets, Task, Display, Answers
<1>2. CASE pair.latest # None /\ ~BundleStale(pair.latest)
  <2>1. sock'["bundle"].pc = label /\ shown' = shown
    BY <1>1, <1>2 DEF Answers
  <2> QED BY <1>1, <2>1, BundleFeedStutters
<1>3. CASE ~(pair.latest # None /\ ~BundleStale(pair.latest))
  <2>1. sock'["bundle"].pc = "wait" /\ shown'["bundle"].gen = pair.gen /\ shown'["bundle"].view = None
    BY <1>1, <1>3 DEF Answers, GoesDark
  <2> QED BY <1>1, <2>1, BundleFeedShows
<1> QED BY <1>2, <1>3

\* The bundle socket joins, catches up, goes dark and leaves.
LEMMA BundleFeedFollowsSocket ==
  ASSUME IInv, StateMoves \/ BundleMoves, UNCHANGED <<clocks, stores, video, steamvr>>
  PROVE  [BundleFeed!Next]_BundleFeed!vars
<1>1. /\ "bundle" \in Sockets /\ sock \in [Sockets -> Task] /\ shown \in [Sockets -> Display]
      /\ bundles \in Store /\ sock["bundle"] \in Task /\ sock["bundle"].got \in Store
      /\ bundles.gen \in Nat /\ shown["bundle"].gen \in Nat /\ sock["bundle"].got.gen \in Nat
  BY DEF IInv, TypeOK, Sockets, Task, Display, Store
<1>2. BundleSocket /\ Backed(bundles) /\ UNCHANGED stores /\ UNCHANGED BundleLog
  BY DEF IInv, Fed, StoresBacked, stores, BundleLog
<1>3. CASE StateMoves
  <2>1. sock'["bundle"] = sock["bundle"] /\ shown'["bundle"] = shown["bundle"]
    BY <1>1, <1>3
    DEF StateMoves, StateConnects, StateTask, StateWakes, Wakes, StateSends, Disconnects,
      Shows, GoesDark
  <2> QED BY <1>2, <2>1, BundleFeedStutters
<1>4. CASE BundleConnects
  BY <1>1, <1>2, <1>4, BundleFeedAnswers DEF BundleConnects, BundleSocket
<1>5. CASE BundleWakes
  <2>1. sock["bundle"].pc = "wait" /\ sock'["bundle"].pc = "woken" /\ shown' = shown
    BY <1>1, <1>5 DEF BundleWakes, Wakes, Goto, Task
  <2> QED BY <1>2, <2>1, BundleFeedStutters
<1>6. CASE BundleThrottles
  <2>1. sock["bundle"].pc = "woken" /\ sock'["bundle"].pc = "delay" /\ shown' = shown
    BY <1>1, <1>6 DEF BundleThrottles, Goto, Task
  <2> QED BY <1>2, <2>1, BundleFeedStutters
<1>7. CASE BundleTimesOut
  <2>1. /\ sock' = sock /\ sock["bundle"].pc = "wait" /\ shown'["bundle"].gen = shown["bundle"].gen
        /\ shown'["bundle"].view = None
    BY <1>1, <1>7 DEF BundleTimesOut, GoesDark, OwesStale
  <2>2. UNCHANGED <<BundleJoined, BundleCursor>>
    BY <2>1 DEF BundleJoined, BundleCursor
  <2>3. BundleFeed!Dim("bundle")
    BY <1>2, <2>1, <2>2, BundleReaderMoves DEF BundleFeed!Dim
  <2> QED BY <2>3 DEF BundleFeed!Next
<1>8. CASE BundleAnswers
  BY <1>1, <1>2, <1>8, BundleFeedAnswers DEF BundleAnswers, BundleSocket
<1>9. CASE BundleRereads
  <2>1. sock["bundle"].pc = "delay" /\ shown["bundle"].gen < bundles.gen /\ Answers(bundles, "encode")
    BY <1>1, <1>2, <1>9 DEF BundleRereads, BundleSocket
  <2> QED BY <1>1, <1>2, <2>1, BundleFeedAnswers
<1>10. CASE BundleSends
  <2> DEFINE got == sock["bundle"].got
  <2>1. /\ sock["bundle"].pc \in {"greet", "encode"} /\ sock'["bundle"].pc = "wait"
        /\ shown'["bundle"].gen = got.gen /\ shown'["bundle"].view = got.latest
    BY <1>1, <1>10 DEF BundleSends, Goto, Shows, Task
  <2>2. /\ Backed(got) /\ got.gen <= bundles.gen /\ shown["bundle"].gen <= got.gen
        /\ sock["bundle"].pc = "encode" => shown["bundle"].gen < got.gen
    BY <1>1, <1>2, <2>1 DEF BundleSocket
  <2> QED BY <1>2, <2>1, <2>2, BundleFeedShows
<1>11. CASE Disconnects("bundle")
  <2>1. /\ sock'["bundle"].pc = "closed" /\ shown'["bundle"].gen = shown["bundle"].gen
        /\ shown'["bundle"].view = None
    BY <1>1, <1>11 DEF Disconnects, GoesDark
  <2>2. UNCHANGED BundleCursor
    BY <2>1 DEF BundleCursor
  <2>3. BundleJoined' = [BundleJoined EXCEPT !["bundle"] = FALSE]
    BY <2>1 DEF BundleJoined
  <2>4. BundleFeed!Leave("bundle")
    BY <1>2, <2>1, <2>2, <2>3, BundleReaderMoves DEF BundleFeed!Leave
  <2> QED BY <2>4 DEF BundleFeed!Next
<1> QED BY <1>3, <1>4, <1>5, <1>6, <1>7, <1>8, <1>9, <1>10, <1>11 DEF BundleMoves, BundleTask

\* A picture that was sent is the next one; every new frame is published.
LEMMA VideoFeedFollows ==
  ASSUME IInv, Video
  PROVE  [VideoFeed!Next]_VideoFeed!vars
<1>1. /\ frames.id \in Nat /\ frames.id <= MaxGen /\ stream.shown \in Nat /\ stream.got \in Nat
      /\ stream.lit \in BOOLEAN /\ MaxGen \in Nat /\ StreamInOrder
      /\ frames \in [id : Nat, latest : Nat]
      /\ stream \in [pc : {"closed", "wait", "woken", "encode"}, after : Nat, got : Nat,
                     shown : Nat, lit : BOOLEAN]
  BY StreamsAssumption DEF IInv, TypeOK, StreamInOrder
<1>2. Len(VideoLog) = frames.id /\ \A h \in 1 .. frames.id : VideoLog[h] = h
  BY <1>1 DEF VideoLog
<1>3. CASE PublishFrame
  <2>1. frames'.id = frames.id + 1 /\ stream' = stream /\ frames.id + 1 \in 1 .. MaxGen
    BY <1>1, <1>3, StreamsAssumption DEF PublishFrame
  <2>2. VideoLog' = Append(VideoLog, frames.id + 1)
    BY <1>1, <2>1 DEF VideoLog
  <2>3. VideoFeed!Publish(frames.id + 1)
    BY <2>1, <2>2 DEF VideoFeed!Publish, VideoJoined, VideoCursor, VideoView
  <2> QED BY <2>1, <2>3 DEF VideoFeed!Next
<1>4. ASSUME stream'.shown = stream.shown, stream'.lit = stream.lit, frames'.id = frames.id
      PROVE  UNCHANGED VideoFeed!vars
  BY <1>4 DEF VideoFeed!vars, VideoLog, VideoJoined, VideoCursor, VideoView
<1>5. CASE ClearFrames
  <2>1. stream' = stream /\ frames'.id = frames.id
    BY <1>1, <1>5 DEF ClearFrames
  <2> QED BY <1>4, <2>1
<1>6. CASE StreamOpens
  <2>1. stream'.shown = stream.shown /\ stream'.lit = stream.lit /\ frames'.id = frames.id
    BY <1>1, <1>6 DEF StreamOpens
  <2> QED BY <1>4, <2>1
<1>7. CASE StreamWakes
  <2>1. stream'.shown = stream.shown /\ stream'.lit = stream.lit /\ frames'.id = frames.id
    BY <1>1, <1>7 DEF StreamWakes
  <2> QED BY <1>4, <2>1
<1>8. CASE StreamPicks
  <2>1. stream'.shown = stream.shown /\ stream'.lit = stream.lit /\ frames'.id = frames.id
    BY <1>1, <1>8 DEF StreamPicks
  <2> QED BY <1>4, <2>1
<1>9. CASE StreamSends
  <2> DEFINE got == stream.got
  <2>1. /\ frames' = frames /\ stream'.shown = got /\ stream'.lit = TRUE
        /\ got \in 1 .. frames.id /\ stream.shown <= got /\ (stream.lit => stream.shown < got)
    BY <1>1, <1>9 DEF StreamSends, StreamInOrder
  <2>2. /\ VideoCursor' = [VideoCursor EXCEPT !["mjpeg"] = got]
        /\ VideoView'   = [VideoView   EXCEPT !["mjpeg"] = got]
        /\ VideoJoined' = [VideoJoined EXCEPT !["mjpeg"] = TRUE]
        /\ VideoCursor["mjpeg"] = stream.shown /\ VideoJoined["mjpeg"] = stream.lit
    BY <2>1 DEF VideoCursor, VideoView, VideoJoined
  <2>3. UNCHANGED VideoLog
    BY <2>1 DEF VideoLog
  <2>4. VideoFeed!Shows("mjpeg", got)
    <3>1. got \in {0} \cup {VideoLog[h] : h \in {got} \ {0}}
      BY <1>1, <1>2, <2>1
    <3> QED BY <2>2, <3>1 DEF VideoFeed!Shows
  <2>5. CASE stream.lit
    <3>1. UNCHANGED VideoJoined
      BY <2>1, <2>5 DEF VideoJoined
    <3>2. VideoFeed!CatchUp("mjpeg")
      BY <1>1, <1>2, <2>1, <2>2, <2>3, <2>4, <2>5, <3>1 DEF VideoFeed!CatchUp
    <3> QED BY <3>2 DEF VideoFeed!Next
  <2>6. CASE ~stream.lit
    <3>1. VideoFeed!Join("mjpeg")
      BY <1>1, <1>2, <2>1, <2>2, <2>3, <2>4, <2>6 DEF VideoFeed!Join
    <3> QED BY <3>1 DEF VideoFeed!Next
  <2> QED BY <2>5, <2>6
<1>10. CASE StreamCloses
  <2>1. frames' = frames /\ stream'.shown = stream.shown /\ stream'.lit = FALSE
    BY <1>1, <1>10 DEF StreamCloses
  <2>2. /\ VideoView'   = [VideoView   EXCEPT !["mjpeg"] = 0]
        /\ VideoJoined' = [VideoJoined EXCEPT !["mjpeg"] = FALSE]
        /\ UNCHANGED <<VideoCursor, VideoLog>>
    BY <2>1 DEF VideoCursor, VideoView, VideoJoined, VideoLog
  <2>3. VideoFeed!Leave("mjpeg")
    BY <2>2 DEF VideoFeed!Leave
  <2> QED BY <2>3 DEF VideoFeed!Next
<1> QED BY <1>3, <1>5, <1>6, <1>7, <1>8, <1>9, <1>10 DEF Video

\* Every step of the streams is one of each feed, or none of it.
LEMMA StepFollowsFeeds ==
  ASSUME IInv, IInv', [Next]_vars
  PROVE  /\ [StateFeed!Next]_StateFeed!vars
         /\ [BundleFeed!Next]_BundleFeed!vars
         /\ [VideoFeed!Next]_VideoFeed!vars
<1>1. UNCHANGED <<stores, sockets, steamvr>> => UNCHANGED StateFeed!vars
  <2>1. UNCHANGED <<stores, sockets, steamvr>> =>
          UNCHANGED <<log, StateJoined, StateCursor, StateView>>
    BY StateReaderMoves DEF IInv, stores, sockets, steamvr
  <2> QED BY <2>1 DEF StateFeed!vars
<1>2. UNCHANGED <<stores, sockets>> => UNCHANGED BundleFeed!vars
  BY BundleFeedStutters DEF sockets
<1>3. UNCHANGED video => UNCHANGED VideoFeed!vars
  BY DEF video, VideoFeed!vars, VideoLog, VideoJoined, VideoCursor, VideoView
<1>0. TypeOK
  BY DEF IInv
<1>4. [StateFeed!Next]_StateFeed!vars
  BY <1>0, <1>1, StateFeedPublishes, StateFeedFollowsSocket, StateFeedFollowsOverlay, OnePartMoves
<1>5. [BundleFeed!Next]_BundleFeed!vars
  BY <1>0, <1>2, BundleFeedPublishes, BundleFeedFollowsSocket, OnePartMoves
<1>6. [VideoFeed!Next]_VideoFeed!vars
  BY <1>0, <1>3, VideoFeedFollows, OnePartMoves
<1> QED BY <1>4, <1>5, <1>6

\* No reader of a store shows an older publication after a newer one, or
\* lights up again without a later one: state socket and overlay, bundle
\* socket, and video stream, each against the feed of its own store
\* (state/store.py:67-86, state/bundle.py:84-107, video/latest_frame.py:53-76).
THEOREM StreamsImplementFeeds ==
  Spec => StateFeed!Safety /\ BundleFeed!Safety /\ VideoFeed!Safety
<1>1. Init => StateFeed!Init /\ BundleFeed!Init /\ VideoFeed!Init
  BY FeedsBegin
<1>2. IInv /\ IInv' /\ [Next]_vars =>
        /\ [StateFeed!Next]_StateFeed!vars
        /\ [BundleFeed!Next]_BundleFeed!vars
        /\ [VideoFeed!Next]_VideoFeed!vars
  BY StepFollowsFeeds
<1> QED
  BY <1>1, <1>2, IInvHolds, PTL DEF Spec, StateFeed!Safety, BundleFeed!Safety, VideoFeed!Safety
=============================================================================
