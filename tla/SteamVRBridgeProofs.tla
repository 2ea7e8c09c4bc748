------------------------ MODULE SteamVRBridgeProofs ------------------------
(***************************************************************************)
(* What SteamVR shows, for every request budget, every freshness limit and *)
(* every number of deaths and restarts of the bridge, the service and the  *)
(* driver; and what the bridge reports, for every limit of its queue.      *)
(***************************************************************************)
EXTENDS MCSteamVRBridge, TLAPS

-----------------------------------------------------------------------------
(* How old the consent can be behind each copy of it, from the service to   *)
(* the driver: every hop adds the limit it was accepted under, and while a  *)
(* copy lies there its own age grows with the consent's.                    *)

ServiceConsents == Consents(service) => consentAge = 0

FetchConsents ==
  fetch.pc = "answered" /\ Consents(fetch.level) /\ fetch.age <= Budget =>
    consentAge <= fetch.age

LatestConsents ==
  Consents(latest.level) /\ latest.age <= Recent => consentAge <= Budget + latest.age

\* The loop has been back at its gate since it last ticked.
GateConsents == Consents(gate) /\ main # "gate" => consentAge <= Budget + Recent

OverlayConsents ==
  /\ overlay /\ main = "rest" => gate = "live"
  /\ overlay /\ main = "gate" => consentAge <= Budget + Recent + 1

\* A record that one Publish wrote, in the channel or in the driver.
Vouched(rec) ==
  rec.whole /\ rec.valid /\ Fresh(rec) => consentAge <= Budget + Recent + rec.age

Hops ==
  /\ ServiceConsents /\ FetchConsents /\ LatestConsents /\ GateConsents
  /\ OverlayConsents /\ Vouched(record) /\ Vouched(cached)

-----------------------------------------------------------------------------
\* Nobody writes for a dead bridge: what it left ages with it.
DeadLeavesAge ==
  ~Alive =>
    /\ ~overlay /\ gate = "blocked"
    /\ deadAge <= record.age /\ deadAge <= cached.age

\* A record in two halves is behind the lock, unless its writer died.
TornBehindLock ==
  /\ lock = "abandoned" => torn
  /\ lock # "bridge" => record.whole \/ torn
  /\ cached.whole \/ torn

IInv == TypeOK /\ Hops /\ DeadLeavesAge /\ TornBehindLock

-----------------------------------------------------------------------------
\* An age below its cap grows by one, and none shrinks (Older).
LEMMA OlderGrows ==
  ASSUME NEW limit \in Nat, NEW age \in Age(limit)
  PROVE  /\ Older(age, limit) \in Age(limit)
         /\ Older(age, limit) <= age + 1 /\ age <= Older(age, limit)
         /\ Older(age, limit) <= limit => Older(age, limit) = age + 1
BY DEF Age, Older

LEMMA InitHolds == ASSUME Init PROVE IInv
<1>1. Longest \in Nat
  BY BridgeAssumption DEF Longest
<1> USE BridgeAssumption DEF Init, Idle, Nothing, NoRecord, Record, Age, Levels, Consents, Fresh
<1>2. TypeOK
  <2>1. overlay \in BOOLEAN /\ drove \in BOOLEAN /\ torn \in BOOLEAN
    BY Zenon DEF Init
  <2> QED BY <1>1, <2>1 DEF TypeOK
<1>3. Hops
  BY DEF Hops, ServiceConsents, FetchConsents, LatestConsents, GateConsents,
         OverlayConsents, Vouched
<1>4. DeadLeavesAge /\ TornBehindLock
  BY DEF DeadLeavesAge, TornBehindLock, Alive
<1> QED BY <1>2, <1>3, <1>4 DEF IInv

\* Every step keeps the types: first the flags, then the rest.
FlagsOK == overlay \in BOOLEAN /\ drove \in BOOLEAN /\ torn \in BOOLEAN

ShapesOK ==
  /\ service \in Levels \cup {"gone"} /\ consentAge \in Age(Longest)
  /\ fetch \in [pc : {"idle", "sent", "answered"}, age : Age(Budget), level : Levels]
  /\ latest \in [age : Age(Recent), level : Levels]
  /\ main \in {"gate", "publish", "render", "rest", "closing", "closed", "dead"}
  /\ gate \in Levels
  /\ record \in Record /\ cached \in Record
  /\ lock \in {"free", "bridge", "abandoned"}
  /\ (lock = "bridge") => main \in {"publish", "closing"}
  /\ deadAge \in Age(PoseFresh)

LEMMA TypesSplit == TypeOK <=> ShapesOK /\ FlagsOK
BY Zenon DEF TypeOK, ShapesOK, FlagsOK

\* What a Publish writes, and what it may leave half-done, are records.
LEMMA PublishWritesRecords ==
  ASSUME record \in Record
  PROVE  Written \in Record /\ Partial(record, Written) \subseteq Record
<1>1. 0 \in Age(PoseFresh)
  BY BridgeAssumption DEF Age
<1>2. Consents(gate) \in BOOLEAN
  BY DEF Consents
<1>3. Written \in Record
  BY <1>1, <1>2 DEF Written, Record
<1>4. Partial(record, Written) \subseteq Record
  BY <1>3 DEF Partial, Record
<1> QED BY <1>3, <1>4

LEMMA ShapesKept ==
  ASSUME ShapesOK, [Next]_vars
  PROVE  ShapesOK'
<1>0. Longest \in Nat /\ Age(Budget) \subseteq Nat /\ 0 \in Age(Budget)
      /\ 0 \in Age(Recent) /\ Recent + 1 \in Age(Recent)
      /\ 0 \in Age(PoseFresh) /\ PoseFresh + 1 \in Age(PoseFresh)
      /\ 0 \in Age(Longest)
  BY BridgeAssumption DEF Longest, Age
<1> USE <1>0, BridgeAssumption DEF ShapesOK, Levels
<1>1. CASE ServiceChanges
  BY <1>1 DEF ServiceChanges
<1>2. CASE Requests
  BY <1>2 DEF Requests, Idle
<1>3. CASE ServiceAnswers
  BY <1>3 DEF ServiceAnswers
<1>4. CASE RequestFails
  BY <1>4 DEF RequestFails, Idle
<1>5. CASE RefusesFrame
  BY <1>5 DEF RefusesFrame, Idle
<1>6. CASE Receives
  BY <1>6 DEF Receives, Idle
<1>7. CASE Gates
  BY <1>7 DEF Gates
<1>8. CASE PublishBegins
  BY <1>8, PublishWritesRecords DEF PublishBegins
<1>9. CASE PublishEnds
  BY <1>9, PublishWritesRecords DEF PublishEnds, AfterPublish
<1>10. CASE PublishMisses
  BY <1>10 DEF PublishMisses, AfterPublish
<1>11. CASE Renders
  BY <1>11 DEF Renders
<1>12. CASE Exits
  BY <1>12 DEF Exits, GoesDown, Idle, Nothing
<1>13. CASE Quits
  BY <1>13 DEF Quits
<1>14. CASE Dies
  BY <1>14 DEF Dies, GoesDown, Idle, Nothing
<1>15. CASE Restarts
  BY <1>15 DEF Restarts
<1>16. CASE RunFrame
  BY <1>16 DEF RunFrame, Reads
<1>17. CASE DriverReloads
  BY <1>17 DEF DriverReloads, NoRecord, Record
<1>18. CASE Tick
  <2>1. /\ consentAge' \in Age(Longest)
        /\ fetch' \in [pc : {"idle", "sent", "answered"}, age : Age(Budget), level : Levels]
    BY <1>18, OlderGrows DEF Tick
  <2>2. latest' \in [age : Age(Recent), level : Levels] /\ deadAge' \in Age(PoseFresh)
    BY <1>18, OlderGrows DEF Tick
  <2>3. record' \in Record /\ cached' \in Record
    BY <1>18, OlderGrows DEF Tick, Record
  <2> QED BY <1>18, <2>1, <2>2, <2>3 DEF Tick
<1>19. CASE UNCHANGED vars
  BY <1>19 DEF vars
<1> QED
  BY <1>1, <1>2, <1>3, <1>4, <1>5, <1>6, <1>7, <1>8, <1>9, <1>10, <1>11, <1>12, <1>13, <1>14, <1>15,
     <1>16, <1>17, <1>18, <1>19
  DEF Next, Transport, MainLoop

LEMMA FlagsKept ==
  ASSUME FlagsOK, [Next]_vars
  PROVE  FlagsOK'
<1> USE DEF FlagsOK
<1>1. CASE ServiceChanges
  BY <1>1, Zenon DEF ServiceChanges
<1>2. CASE Requests
  BY <1>2, Zenon DEF Requests
<1>3. CASE ServiceAnswers
  BY <1>3, Zenon DEF ServiceAnswers
<1>4. CASE RequestFails
  BY <1>4, Zenon DEF RequestFails
<1>5. CASE RefusesFrame
  BY <1>5, Zenon DEF RefusesFrame
<1>6. CASE Receives
  BY <1>6, Zenon DEF Receives
<1>7. CASE Gates
  BY <1>7, Zenon DEF Gates
<1>8. CASE PublishBegins
  BY <1>8, Zenon DEF PublishBegins
<1>9. CASE PublishEnds
  BY <1>9, Zenon DEF PublishEnds
<1>10. CASE PublishMisses
  BY <1>10, Zenon DEF PublishMisses
<1>11. CASE Renders
  BY <1>11, Zenon DEF Renders
<1>12. CASE Exits
  BY <1>12, Zenon DEF Exits, GoesDown
<1>13. CASE Quits
  BY <1>13, Zenon DEF Quits
<1>14. CASE Dies
  BY <1>14, Zenon DEF Dies, GoesDown
<1>15. CASE Restarts
  BY <1>15, Zenon DEF Restarts
<1>16. CASE RunFrame
  BY <1>16, Zenon DEF RunFrame
<1>17. CASE DriverReloads
  BY <1>17, Zenon DEF DriverReloads
<1>18. CASE Tick
  BY <1>18, Zenon DEF Tick
<1>19. CASE UNCHANGED vars
  BY <1>19, Zenon DEF vars
<1> QED
  BY <1>1, <1>2, <1>3, <1>4, <1>5, <1>6, <1>7, <1>8, <1>9, <1>10, <1>11, <1>12, <1>13, <1>14, <1>15,
     <1>16, <1>17, <1>18, <1>19
  DEF Next, Transport, MainLoop

\* A half-written record stays behind the lock, or its writer is dead.
LEMMA TornKept ==
  ASSUME ShapesOK, FlagsOK, TornBehindLock, [Next]_vars
  PROVE  TornBehindLock'
<1> USE DEF TornBehindLock
<1>1. CASE ServiceChanges
  BY <1>1 DEF ServiceChanges
<1>2. CASE Requests
  BY <1>2 DEF Requests, Idle
<1>3. CASE ServiceAnswers
  BY <1>3 DEF ServiceAnswers
<1>4. CASE RequestFails
  BY <1>4 DEF RequestFails, Idle
<1>5. CASE RefusesFrame
  BY <1>5 DEF RefusesFrame, Idle
<1>6. CASE Receives
  BY <1>6 DEF Receives, Idle
<1>7. CASE Gates
  BY <1>7 DEF Gates
<1>8. CASE PublishBegins
  BY <1>8 DEF PublishBegins, Partial
<1>9. CASE PublishEnds
  BY <1>9 DEF PublishEnds, Written, AfterPublish
<1>10. CASE PublishMisses
  BY <1>10 DEF PublishMisses, AfterPublish
<1>11. CASE Renders
  BY <1>11 DEF Renders
<1>12. CASE Exits
  BY <1>12 DEF Exits, GoesDown, Idle, Nothing
<1>13. CASE Quits
  BY <1>13 DEF Quits
<1>14. CASE Dies
  BY <1>14 DEF Dies, GoesDown, Idle, Nothing
<1>15. CASE Restarts
  BY <1>15 DEF Restarts
<1>16. CASE RunFrame
  BY <1>16 DEF RunFrame, Reads
<1>17. CASE DriverReloads
  BY <1>17 DEF DriverReloads, NoRecord
<1>18. CASE Tick
  BY <1>18 DEF Tick
<1>19. CASE UNCHANGED vars
  BY <1>19 DEF vars
<1> QED
  BY <1>1, <1>2, <1>3, <1>4, <1>5, <1>6, <1>7, <1>8, <1>9, <1>10, <1>11, <1>12, <1>13, <1>14, <1>15,
     <1>16, <1>17, <1>18, <1>19
  DEF Next, Transport, MainLoop

\* A dead bridge's records age with its death.
LEMMA DeadKept ==
  ASSUME ShapesOK, FlagsOK, DeadLeavesAge, [Next]_vars
  PROVE  DeadLeavesAge'
<1> USE BridgeAssumption DEF ShapesOK, Record, Age, DeadLeavesAge, Alive
<1>1. CASE ServiceChanges
  BY <1>1 DEF ServiceChanges
<1>2. CASE Requests
  BY <1>2 DEF Requests, Idle
<1>3. CASE ServiceAnswers
  BY <1>3 DEF ServiceAnswers
<1>4. CASE RequestFails
  BY <1>4 DEF RequestFails, Idle
<1>5. CASE RefusesFrame
  BY <1>5 DEF RefusesFrame, Idle
<1>6. CASE Receives
  BY <1>6 DEF Receives, Idle
<1>7. CASE Gates
  BY <1>7 DEF Gates
<1>8. CASE PublishBegins
  BY <1>8 DEF PublishBegins, Partial
<1>9. CASE PublishEnds
  BY <1>9 DEF PublishEnds, Written, AfterPublish
<1>10. CASE PublishMisses
  BY <1>10 DEF PublishMisses, AfterPublish
<1>11. CASE Renders
  BY <1>11 DEF Renders
<1>12. CASE Exits
  BY <1>12 DEF Exits, GoesDown, Idle, Nothing
<1>13. CASE Quits
  BY <1>13 DEF Quits
<1>14. CASE Dies
  BY <1>14 DEF Dies, GoesDown, Idle, Nothing
<1>15. CASE Restarts
  BY <1>15 DEF Restarts
<1>16. CASE RunFrame
  BY <1>16 DEF RunFrame, Reads
<1>17. CASE DriverReloads
  BY <1>17 DEF DriverReloads, NoRecord
<1>18. CASE Tick
  <2>1. /\ record'.age = Older(record.age, PoseFresh)
        /\ cached'.age = Older(cached.age, PoseFresh)
    BY <1>18 DEF Tick
  <2>2. ~Alive' => ~Alive /\ deadAge' = Older(deadAge, PoseFresh)
    BY <1>18 DEF Tick
  <2> QED BY <1>18, <2>1, <2>2 DEF Tick, Older
<1>19. CASE UNCHANGED vars
  BY <1>19 DEF vars
<1> QED
  BY <1>1, <1>2, <1>3, <1>4, <1>5, <1>6, <1>7, <1>8, <1>9, <1>10, <1>11, <1>12, <1>13, <1>14, <1>15,
     <1>16, <1>17, <1>18, <1>19
  DEF Next, Transport, MainLoop

\* Every hop adds its limit, and no more.
LEMMA HopsKept ==
  ASSUME ShapesOK, FlagsOK, DeadLeavesAge, Hops, [Next]_vars
  PROVE  Hops'
<1> USE BridgeAssumption
DEF Hops, ShapesOK, Age, Record, Consents, Levels, ServiceConsents, FetchConsents, LatestConsents,
    GateConsents, OverlayConsents, Vouched, Fresh
<1>1. CASE ServiceChanges
  BY <1>1 DEF ServiceChanges
<1>2. CASE Requests
  BY <1>2 DEF Requests, Idle
<1>3. CASE ServiceAnswers
  BY <1>3 DEF ServiceAnswers
<1>4. CASE RequestFails
  BY <1>4 DEF RequestFails, Idle
<1>5. CASE RefusesFrame
  BY <1>5 DEF RefusesFrame, Idle
<1>6. CASE Receives
  BY <1>6 DEF Receives, Idle
<1>7. CASE Gates
  BY <1>7 DEF Gates
<1>8. CASE PublishBegins
  <2>1. record' = record \/ ~record'.whole
    BY <1>8 DEF PublishBegins, Partial
  <2>2. Vouched(record)'
    BY <1>8, <2>1 DEF PublishBegins
  <2> QED BY <1>8, <2>2 DEF PublishBegins
<1>9. CASE PublishEnds
  <2>1. record'.valid => Consents(gate)
    BY <1>9, Zenon DEF PublishEnds, Written
  <2>2. record'.age = 0 /\ Vouched(record)'
    BY <1>9, <2>1 DEF PublishEnds, Written
  <2> QED BY <1>9, <2>2 DEF PublishEnds, AfterPublish
<1>10. CASE PublishMisses
  BY <1>10 DEF PublishMisses, AfterPublish
<1>11. CASE Renders
  <2>1. overlay' => gate = "live"
    BY <1>11, Zenon DEF Renders
  <2>2. OverlayConsents' /\ GateConsents'
    BY <1>11, <2>1 DEF Renders
  <2> QED BY <1>11, <2>2 DEF Renders
<1>12. CASE Exits
  BY <1>12 DEF Exits, GoesDown, Idle, Nothing
<1>13. CASE Quits
  BY <1>13 DEF Quits
<1>14. CASE Dies
  BY <1>14 DEF Dies, GoesDown, Idle, Nothing
<1>15. CASE Restarts
  BY <1>15 DEF Restarts, DeadLeavesAge, Alive
<1>16. CASE RunFrame
  BY <1>16 DEF RunFrame, Reads
<1>17. CASE DriverReloads
  BY <1>17 DEF DriverReloads, NoRecord
<1>18. CASE Tick
  <2>1. /\ consentAge' \in Nat /\ consentAge' <= consentAge + 1
        /\ Consents(service) => consentAge' = 0
    BY <1>18 DEF Tick, Longest, Older
  <2>2. ServiceConsents' /\ FetchConsents'
    BY <1>18, <2>1, OlderGrows DEF Tick
  <2>3. LatestConsents'
    BY <1>18, <2>1, OlderGrows DEF Tick
  <2>4. GateConsents' /\ OverlayConsents'
    BY <1>18, <2>1 DEF Tick, DeadLeavesAge, Alive
  <2>5. Vouched(record)' /\ Vouched(cached)'
    BY <1>18, <2>1, OlderGrows DEF Tick
  <2> QED BY <2>2, <2>3, <2>4, <2>5
<1>19. CASE UNCHANGED vars
  BY <1>19 DEF vars
<1> QED
  BY <1>1, <1>2, <1>3, <1>4, <1>5, <1>6, <1>7, <1>8, <1>9, <1>10, <1>11, <1>12, <1>13, <1>14, <1>15,
     <1>16, <1>17, <1>18, <1>19
  DEF Next, Transport, MainLoop

LEMMA StepKeeps == ASSUME IInv, [Next]_vars PROVE IInv'
<1>1. ShapesOK /\ FlagsOK
  BY TypesSplit DEF IInv
<1>2. ShapesOK' /\ FlagsOK'
  BY <1>1, ShapesKept, FlagsKept
<1>3. TypeOK'
  BY <1>2, Zenon DEF TypeOK, ShapesOK, FlagsOK
<1> QED BY <1>1, <1>3, HopsKept, DeadKept, TornKept DEF IInv

LEMMA Invariance == Spec => []IInv
<1>1. Init => IInv
  BY InitHolds
<1>2. IInv /\ [Next]_vars => IInv'
  BY StepKeeps
<1> QED BY <1>1, <1>2, PTL DEF Spec

\* The bridge, the channel and the driver keep their types, and only a bridge
\* that is publishing holds the channel's mutex (common/pose_channel.h:56-73).
THEOREM BridgeTypeCorrect == Spec => []TypeOK
<1>1. IInv => TypeOK
  BY DEF IInv
<1> QED BY <1>1, Invariance, PTL

\* A keyboard pose is shown at most the three freshness limits after consent
\* ended, and the overlay at most the first two and one turn of the loop:
\* for every value of the limits, so a limit can be changed without another
\* (bridge/src/main.cpp:176, 360-364, 394, 418; common/pose_channel.h:78).
THEOREM ConsentBoundsDisplay == Spec => []ShownWithConsent
<1>1. IInv => ShownWithConsent
  <2> SUFFICES ASSUME IInv PROVE ShownWithConsent
    OBVIOUS
  <2>1. DriverShows /\ cached.whole => consentAge <= Longest
    <3>1. cached.age \in Nat /\ consentAge \in Nat
      BY BridgeAssumption DEF IInv, TypeOK, Record, Age, Longest
    <3> QED BY <3>1, BridgeAssumption DEF IInv, Hops, Vouched, DriverShows, Fresh, Longest
  <2>2. overlay /\ main \in {"gate", "rest"} => consentAge <= Budget + Recent + 1
    <3>1. consentAge \in Nat
      BY BridgeAssumption DEF IInv, TypeOK, Age, Longest
    <3>2. overlay /\ main = "rest" => Consents(gate)
      BY DEF IInv, Hops, OverlayConsents, Consents
    <3> QED BY <3>1, <3>2, BridgeAssumption DEF IInv, Hops, OverlayConsents, GateConsents
  <2> QED BY <2>1, <2>2 DEF ShownWithConsent
<1> QED BY <1>1, Invariance, PTL

\* Whatever a dead bridge left in the channel or in the driver is dropped one
\* freshness limit later (common/pose_channel.h:52-54, 75-81).
THEOREM DeadBridgeIsDropped == Spec => []DeadBridgeExpires
<1>1. IInv => DeadBridgeExpires
  <2> SUFFICES ASSUME IInv, ~Alive, deadAge > PoseFresh PROVE ~DriverShows
    BY DEF DeadBridgeExpires
  <2>1. cached.age \in Nat /\ deadAge \in Nat
    BY BridgeAssumption DEF IInv, TypeOK, Record, Age
  <2>2. deadAge <= cached.age
    BY DEF IInv, DeadLeavesAge
  <2> QED BY <2>1, <2>2, BridgeAssumption DEF DriverShows, Fresh
<1> QED BY <1>1, Invariance, PTL

\* Unless a bridge died while it wrote, the driver's record is from one
\* Publish (driver/src/driver.cpp:45-46, common/pose_channel.h:65-73).
THEOREM PoseIsOfOnePublish == Spec => []PoseIsWhole
<1>1. IInv => PoseIsWhole
  BY DEF IInv, TornBehindLock, PoseIsWhole
<1> QED BY <1>1, Invariance, PTL

-----------------------------------------------------------------------------
(* The queue of reports.                                                   *)

Plain(e) == e # "urgent"

\* At most one ordinary event before an urgent one; and none.
OneAhead(q) ==
  \A i, j, k \in DOMAIN q :
    i < j /\ j < k /\ Plain(q[i]) /\ Plain(q[j]) => Plain(q[k])
NoneAhead(q) ==
  \A i, j \in DOMAIN q : i < j /\ Plain(q[i]) => Plain(q[j])

\* The order of the two marked events, and where they can be at all.
EarlyFirst(q) ==
  \A i, j \in DOMAIN q : q[i] = "late" /\ q[j] = "early" => j < i
Free(q, kind) == \A i \in DOMAIN q : q[i] # kind

\* While an ordinary event is out for posting none is ahead of an urgent one:
\* so that there is one again at most when it comes back.  A marked event is
\* in the queue or out only once it is reported.
QueueInv ==
  /\ Events!TypeOK /\ Events!QueueBounded
  /\ OneAhead(queue)
  /\ flight \notin {"none", "urgent"} => NoneAhead(queue)
  /\ EarlyFirst(queue)
  /\ flight = "late" => Free(queue, "early")
  /\ marked = 0 => Free(queue, "early") /\ flight # "early"
  /\ marked < 2 => Free(queue, "late") /\ flight # "late"

LEMMA RestOfQueue ==
  ASSUME NEW q \in Seq(Events!Kinds), q # <<>>, OneAhead(q)
  PROVE  /\ Tail(q) \in Seq(Events!Kinds) /\ Len(Tail(q)) = Len(q) - 1
         /\ OneAhead(Tail(q))
         /\ NoneAhead(q) => NoneAhead(Tail(q))
         /\ Plain(Head(q)) => NoneAhead(Tail(q))
         /\ EarlyFirst(q) => EarlyFirst(Tail(q))
         /\ EarlyFirst(q) /\ Head(q) = "late" => Free(Tail(q), "early")
         /\ \A kind \in {"early", "late"} :
              Free(q, kind) => Head(q) # kind /\ Free(Tail(q), kind)
<1>1. /\ Len(q) \in Nat \ {0} /\ DOMAIN q = 1 .. Len(q)
      /\ Tail(q) \in Seq(Events!Kinds) /\ Len(Tail(q)) = Len(q) - 1
      /\ DOMAIN Tail(q) = 1 .. Len(q) - 1
      /\ \A i \in 1 .. Len(q) - 1 : Tail(q)[i] = q[i + 1]
      /\ Head(q) = q[1]
  OBVIOUS
<1>2. PICK t : t = Tail(q)
  OBVIOUS
<1>3. OneAhead(t)
  <2> SUFFICES ASSUME NEW i \in DOMAIN t, NEW j \in DOMAIN t, NEW k \in DOMAIN t,
                      i < j, j < k, Plain(t[i]), Plain(t[j])
               PROVE  Plain(t[k])
    BY DEF OneAhead
  <2>1. /\ i + 1 \in DOMAIN q /\ j + 1 \in DOMAIN q /\ k + 1 \in DOMAIN q
        /\ i + 1 < j + 1 /\ j + 1 < k + 1
        /\ t[i] = q[i + 1] /\ t[j] = q[j + 1] /\ t[k] = q[k + 1]
    BY <1>1, <1>2
  <2> QED BY <2>1 DEF OneAhead
<1>4. NoneAhead(q) => NoneAhead(t)
  BY <1>1, <1>2 DEF NoneAhead
<1>5. Plain(Head(q)) => NoneAhead(t)
  BY <1>1, <1>2 DEF OneAhead, NoneAhead
<1>6. EarlyFirst(q) => EarlyFirst(t)
  BY <1>1, <1>2 DEF EarlyFirst
<1>7. EarlyFirst(q) /\ Head(q) = "late" => Free(t, "early")
  BY <1>1, <1>2 DEF EarlyFirst, Free
<1>8. \A kind \in {"early", "late"} : Free(q, kind) => Head(q) # kind /\ Free(t, kind)
  BY <1>1, <1>2 DEF Free
<1> QED BY <1>1, <1>2, <1>3, <1>4, <1>5, <1>6, <1>7, <1>8

LEMMA FrontOfQueue ==
  ASSUME NEW q \in Seq(Events!Kinds), NEW e \in Events!Kinds, NEW r, r = <<e>> \o q
  PROVE  /\ r \in Seq(Events!Kinds) /\ Len(r) = Len(q) + 1
         /\ e = "urgent" /\ OneAhead(q) => OneAhead(r)
         /\ e = "urgent" /\ NoneAhead(q) => NoneAhead(r)
         /\ NoneAhead(q) => OneAhead(r)
         /\ EarlyFirst(q) /\ (e = "late" => Free(q, "early")) => EarlyFirst(r)
         /\ \A kind \in {"early", "late"} : Free(q, kind) /\ e # kind => Free(r, kind)
<1>1. /\ Len(q) \in Nat /\ DOMAIN q = 1 .. Len(q)
      /\ r \in Seq(Events!Kinds) /\ Len(r) = Len(q) + 1 /\ DOMAIN r = 1 .. Len(q) + 1
      /\ r[1] = e
      /\ \A i \in 2 .. Len(q) + 1 : i - 1 \in 1 .. Len(q) /\ r[i] = q[i - 1]
  OBVIOUS
<1>2. ASSUME e = "urgent", OneAhead(q),
             NEW i \in DOMAIN r, NEW j \in DOMAIN r, NEW k \in DOMAIN r,
             i < j, j < k, Plain(r[i]), Plain(r[j])
      PROVE  Plain(r[k])
  <2>1. i # 1 /\ i \in 2 .. Len(q) + 1 /\ j \in 2 .. Len(q) + 1 /\ k \in 2 .. Len(q) + 1
    BY <1>1, <1>2 DEF Plain
  <2>2. /\ i - 1 \in DOMAIN q /\ j - 1 \in DOMAIN q /\ k - 1 \in DOMAIN q
        /\ Plain(q[i - 1]) /\ Plain(q[j - 1]) /\ r[k] = q[k - 1]
    BY <1>1, <1>2, <2>1
  <2>3. i - 1 < j - 1 /\ j - 1 < k - 1
    BY <1>1, <1>2
  <2> QED BY <1>2, <2>2, <2>3 DEF OneAhead
<1>3. e = "urgent" /\ NoneAhead(q) => NoneAhead(r)
  BY <1>1 DEF NoneAhead, Plain
<1>4. NoneAhead(q) => OneAhead(r)
  BY <1>1 DEF OneAhead, NoneAhead
<1>5. e = "urgent" /\ OneAhead(q) => OneAhead(r)
  BY <1>2 DEF OneAhead
<1>6. EarlyFirst(q) /\ (e = "late" => Free(q, "early")) => EarlyFirst(r)
  BY <1>1 DEF EarlyFirst, Free
<1>7. \A kind \in {"early", "late"} : Free(q, kind) /\ e # kind => Free(r, kind)
  BY <1>1 DEF Free
<1> QED BY <1>1, <1>3, <1>4, <1>5, <1>6, <1>7

LEMMA EndOfQueue ==
  ASSUME NEW q \in Seq(Events!Kinds), NEW e \in Events!Kinds, Plain(e),
         NEW r, r = Append(q, e)
  PROVE  /\ r \in Seq(Events!Kinds) /\ Len(r) = Len(q) + 1
         /\ OneAhead(q) => OneAhead(r)
         /\ NoneAhead(q) => NoneAhead(r)
         /\ EarlyFirst(q) /\ (e = "early" => Free(q, "late")) => EarlyFirst(r)
         /\ \A kind \in {"early", "late"} : Free(q, kind) /\ e # kind => Free(r, kind)
<1>1. /\ Len(q) \in Nat /\ DOMAIN q = 1 .. Len(q)
      /\ r \in Seq(Events!Kinds) /\ Len(r) = Len(q) + 1 /\ DOMAIN r = 1 .. Len(q) + 1
      /\ r[Len(q) + 1] = e
      /\ \A i \in 1 .. Len(q) : r[i] = q[i]
  OBVIOUS
<1>2. OneAhead(q) => OneAhead(r)
  BY <1>1 DEF OneAhead
<1>3. NoneAhead(q) => NoneAhead(r)
  BY <1>1 DEF NoneAhead
<1>4. EarlyFirst(q) /\ (e = "early" => Free(q, "late")) => EarlyFirst(r)
  BY <1>1 DEF EarlyFirst, Free
<1>5. \A kind \in {"early", "late"} : Free(q, kind) /\ e # kind => Free(r, kind)
  BY <1>1 DEF Free
<1> QED BY <1>1, <1>2, <1>3, <1>4, <1>5

\* Reporting something keeps the limit and the order.
LEMMA QueuedKeeps ==
  ASSUME QueueInv, NEW kind \in Events!Kinds, NEW r, r = Events!Queued(kind),
         kind = "early" => Free(queue, "late")
  PROVE  /\ r \in Seq(Events!Kinds) /\ Len(r) <= MaxEvents
         /\ OneAhead(r) /\ (NoneAhead(queue) => NoneAhead(r)) /\ EarlyFirst(r)
         /\ \A mark \in {"early", "late"} : Free(queue, mark) /\ kind # mark => Free(r, mark)
<1>1. /\ queue \in Seq(Events!Kinds) /\ Len(queue) <= MaxEvents
      /\ OneAhead(queue) /\ EarlyFirst(queue)
  BY DEF QueueInv, Events!TypeOK, Events!QueueBounded
<1>2. PICK q : q = IF Len(queue) = MaxEvents THEN Tail(queue) ELSE queue
  OBVIOUS
<1>3. /\ q \in Seq(Events!Kinds) /\ Len(q) \in Nat /\ Len(q) + 1 <= MaxEvents
      /\ OneAhead(q) /\ (NoneAhead(queue) => NoneAhead(q)) /\ EarlyFirst(q)
      /\ \A mark \in {"early", "late"} : Free(queue, mark) => Free(q, mark)
  <2>1. CASE Len(queue) = MaxEvents
    <3>1. queue # <<>>
      BY <1>1, <2>1, QueueAssumption
    <3>2. /\ Tail(queue) \in Seq(Events!Kinds) /\ Len(Tail(queue)) = Len(queue) - 1
          /\ OneAhead(Tail(queue)) /\ (NoneAhead(queue) => NoneAhead(Tail(queue)))
          /\ EarlyFirst(Tail(queue))
          /\ \A mark \in {"early", "late"} : Free(queue, mark) => Free(Tail(queue), mark)
      BY <1>1, <3>1, RestOfQueue
    <3>3. q = Tail(queue)
      BY <1>2, <2>1
    <3> QED BY <2>1, <3>2, <3>3, QueueAssumption
  <2>2. CASE Len(queue) # MaxEvents
    BY <1>1, <1>2, <2>2, QueueAssumption
  <2> QED BY <2>1, <2>2
<1>4. r = IF kind = "urgent" THEN <<kind>> \o q ELSE Append(q, kind)
  BY <1>2 DEF Events!Queued, Events!Pushed
<1>5. CASE kind = "urgent"
  BY <1>3, <1>4, <1>5, FrontOfQueue
<1>6. CASE kind # "urgent"
  BY <1>3, <1>4, <1>6, EndOfQueue DEF Plain
<1> QED BY <1>5, <1>6

\* A failed post that finds room puts its event first again.
LEMMA PutBackKeeps ==
  ASSUME QueueInv, flight \in Events!Kinds, Len(queue) < MaxEvents,
         NEW r, r = Events!PutBack
  PROVE  /\ r \in Seq(Events!Kinds) /\ Len(r) <= MaxEvents
         /\ OneAhead(r) /\ EarlyFirst(r)
         /\ \A mark \in {"early", "late"} : Free(queue, mark) /\ flight # mark => Free(r, mark)
<1>1. r = <<flight>> \o queue
  BY DEF Events!PutBack
<1>2. queue \in Seq(Events!Kinds) /\ Len(queue) \in Nat
  BY DEF QueueInv, Events!TypeOK
<1>3. /\ (flight = "urgent" /\ OneAhead(queue)) \/ NoneAhead(queue)
      /\ EarlyFirst(queue) /\ (flight = "late" => Free(queue, "early"))
  BY DEF QueueInv, Events!Kinds
<1>4. /\ r \in Seq(Events!Kinds) /\ Len(r) = Len(queue) + 1
      /\ flight = "urgent" /\ OneAhead(queue) => OneAhead(r)
      /\ NoneAhead(queue) => OneAhead(r)
      /\ EarlyFirst(queue) /\ (flight = "late" => Free(queue, "early")) => EarlyFirst(r)
      /\ \A mark \in {"early", "late"} : Free(queue, mark) /\ flight # mark => Free(r, mark)
  BY <1>1, <1>2, FrontOfQueue
<1>5. Len(queue) + 1 <= MaxEvents
  BY <1>2, QueueAssumption
<1> QED BY <1>3, <1>4, <1>5

LEMMA QueueStarts == ASSUME Events!Init PROVE QueueInv
<1>1. /\ queue = <<>> /\ marked = 0 /\ flight = "none" /\ work \in {"request", "dead"}
      /\ connected = FALSE /\ running = TRUE /\ stopping = FALSE
  BY DEF Events!Init
<1>2. connected \in BOOLEAN /\ running \in BOOLEAN /\ stopping \in BOOLEAN /\ running
  BY <1>1, Zenon
<1>3. /\ queue \in Seq(Events!Kinds) /\ Len(queue) <= MaxEvents
      /\ OneAhead(queue) /\ NoneAhead(queue) /\ EarlyFirst(queue)
      /\ Free(queue, "early") /\ Free(queue, "late")
  BY <1>1, QueueAssumption DEF OneAhead, NoneAhead, EarlyFirst, Free
<1>4. (flight = "none") <=> work \notin {"post", "lastpost"}
  BY <1>1
<1>5. /\ flight \in Events!Kinds \cup {"none"} /\ marked \in 0 .. 2
      /\ flight # "early" /\ flight # "late"
      /\ work \in {"request", "flush", "post", "sleep", "last", "lastpost", "dead"}
  BY <1>1
<1> QED BY <1>2, <1>3, <1>4, <1>5, Zenon DEF QueueInv, Events!TypeOK, Events!QueueBounded

\* The flags of the two threads, and what the transport thread is doing.
LEMMA ThreadsKeep ==
  ASSUME Events!TypeOK, Events!Next
  PROVE  /\ connected' \in BOOLEAN /\ running' \in BOOLEAN /\ stopping' \in BOOLEAN
         /\ ~running' => stopping'
<1> USE DEF Events!MainReports, Events!MainStops, Events!StopsTransport, Events!FrameArrives,
            Events!FrameFails, Events!FlushBegins, Events!FlushNothing, Events!PostArrives,
            Events!Report, Events!PostFails, Events!Wakes, Events!Rests, Events!Main, Events!Transport,
            Events!Next, Events!vars
<1>1. connected' \in {connected, TRUE, FALSE}
  OBVIOUS
<1>2. running' \in {running, FALSE} /\ stopping' \in {stopping, TRUE}
  OBVIOUS
<1>3. ~running' => stopping'
  BY DEF Events!TypeOK
<1>4. connected' \in BOOLEAN /\ running' \in BOOLEAN /\ stopping' \in BOOLEAN
  BY <1>1, <1>2, Zenon DEF Events!TypeOK
<1> QED BY <1>3, <1>4

LEMMA QueueStep ==
  ASSUME QueueInv, Events!Next
  PROVE  QueueInv'
<1> USE DEF Events!Kinds
<1>0. /\ queue \in Seq(Events!Kinds) /\ Len(queue) \in Nat /\ Len(queue) <= MaxEvents
      /\ OneAhead(queue) /\ (flight \notin {"none", "urgent"} => NoneAhead(queue))
      /\ flight \in Events!Kinds \cup {"none"}
      /\ work \in {"request", "flush", "post", "sleep", "last", "lastpost", "dead"}
      /\ flight = "none" <=> work \notin {"post", "lastpost"}
      /\ EarlyFirst(queue) /\ (flight = "late" => Free(queue, "early"))
      /\ marked \in 0 .. 2
      /\ marked = 0 => Free(queue, "early") /\ flight # "early"
      /\ marked < 2 => Free(queue, "late") /\ flight # "late"
  BY DEF QueueInv, Events!TypeOK, Events!QueueBounded
<1> DEFINE Sound ==
      /\ queue' \in Seq(Events!Kinds) /\ Len(queue') <= MaxEvents
      /\ OneAhead(queue') /\ (flight' \notin {"none", "urgent"} => NoneAhead(queue'))
      /\ flight' \in Events!Kinds \cup {"none"}
      /\ work' \in {"request", "flush", "post", "sleep", "last", "lastpost", "dead"}
      /\ flight' = "none" <=> work' \notin {"post", "lastpost"}
      /\ EarlyFirst(queue') /\ (flight' = "late" => Free(queue', "early"))
      /\ marked' \in 0 .. 2
      /\ marked' = 0 => Free(queue', "early") /\ flight' # "early"
      /\ marked' < 2 => Free(queue', "late") /\ flight' # "late"
<1>a. /\ connected' \in BOOLEAN /\ running' \in BOOLEAN /\ stopping' \in BOOLEAN
      /\ ~running' => stopping'
  BY ThreadsKeep DEF QueueInv
<1> SUFFICES Sound
  BY <1>a, Zenon DEF QueueInv, Events!TypeOK, Events!QueueBounded, OneAhead, NoneAhead,
                     EarlyFirst, Free
<1>1. ASSUME NEW kind, Events!Report(kind), UNCHANGED flight
      PROVE  /\ queue' \in Seq(Events!Kinds) /\ Len(queue') <= MaxEvents
             /\ OneAhead(queue') /\ (flight' \notin {"none", "urgent"} => NoneAhead(queue'))
             /\ EarlyFirst(queue') /\ (flight' = "late" => Free(queue', "early"))
             /\ marked' \in 0 .. 2
             /\ marked' = 0 => Free(queue', "early") /\ flight' # "early"
             /\ marked' < 2 => Free(queue', "late") /\ flight' # "late"
  <2>1. /\ kind \in Events!Kinds /\ queue' = Events!Queued(kind) /\ flight' = flight
        /\ marked' = IF kind \in {"early", "late"} THEN marked + 1 ELSE marked
        /\ kind = "early" => marked = 0
        /\ kind = "late" => marked = 1
    BY <1>0, <1>1 DEF Events!Report, Events!Reports
  <2>2. kind = "early" => Free(queue, "late")
    BY <1>0, <2>1
  <2>3. /\ queue' \in Seq(Events!Kinds) /\ Len(queue') <= MaxEvents
        /\ OneAhead(queue') /\ (NoneAhead(queue) => NoneAhead(queue')) /\ EarlyFirst(queue')
    BY <2>1, <2>2, QueuedKeeps
  <2>4. \A mark \in {"early", "late"} : Free(queue, mark) /\ kind # mark => Free(queue', mark)
    BY <2>1, <2>2, QueuedKeeps
  <2>5. flight = "late" => marked = 2 /\ kind # "early"
    BY <1>0, <2>1
  <2> QED BY <1>0, <2>1, <2>3, <2>4, <2>5
<1>2. CASE Events!MainReports \/ Events!MainStops
  <2>1. UNCHANGED <<flight, work>> /\ \E kind : Events!Report(kind)
    BY <1>2 DEF Events!MainReports, Events!MainStops
  <2> QED BY <1>0, <1>1, <2>1
<1>3. CASE Events!StopsTransport \/ Events!Rests
  BY <1>0, <1>3 DEF Events!StopsTransport, Events!Rests, Events!vars
<1>4. CASE Events!FrameArrives \/ Events!FrameFails
  <2>1. /\ UNCHANGED <<queue, marked>> \/ \E kind : Events!Report(kind)
        /\ flight' = flight /\ flight = "none" /\ work' = "flush"
    BY <1>0, <1>4 DEF Events!FrameArrives, Events!FrameFails
  <2> QED BY <1>0, <1>1, <2>1
<1>5. CASE Events!FlushBegins
  <2>1. /\ queue # <<>> /\ queue' = Tail(queue) /\ flight' = Head(queue)
        /\ work' \in {"post", "lastpost"} /\ marked' = marked
    BY <1>5 DEF Events!FlushBegins
  <2>2. /\ Tail(queue) \in Seq(Events!Kinds) /\ Len(Tail(queue)) = Len(queue) - 1
        /\ OneAhead(Tail(queue)) /\ (Plain(Head(queue)) => NoneAhead(Tail(queue)))
        /\ EarlyFirst(Tail(queue)) /\ (Head(queue) = "late" => Free(Tail(queue), "early"))
        /\ \A mark \in {"early", "late"} :
             Free(queue, mark) => Head(queue) # mark /\ Free(Tail(queue), mark)
    BY <1>0, <2>1, RestOfQueue
  <2>3. Head(queue) \in Events!Kinds
    BY <1>0, <2>1
  <2> QED BY <1>0, <2>1, <2>2, <2>3, QueueAssumption DEF Plain
<1>6. CASE Events!FlushNothing \/ Events!PostArrives \/ Events!Wakes
  BY <1>0, <1>6 DEF Events!FlushNothing, Events!PostArrives, Events!Wakes, Events!AfterPost
<1>7. CASE Events!PostFails
  <2>1. /\ queue' = Events!PutBack /\ flight' = "none" /\ work' \in {"sleep", "dead"}
        /\ flight \in Events!Kinds /\ marked' = marked
    BY <1>0, <1>7 DEF Events!PostFails, Events!AfterPost
  <2>2. CASE Len(queue) < MaxEvents
    BY <1>0, <2>1, <2>2, PutBackKeeps
  <2>3. CASE ~(Len(queue) < MaxEvents)
    BY <1>0, <2>1, <2>3 DEF Events!PutBack
  <2> QED BY <2>2, <2>3
<1> QED
  BY <1>2, <1>3, <1>4, <1>5, <1>6, <1>7 DEF Events!Next, Events!Main, Events!Transport

-----------------------------------------------------------------------------
(* The bridge's two jobs together.                                         *)

LEMMA BothInvariant == MCSpec => [](IInv /\ QueueInv)
<1>1. MCInit => IInv /\ QueueInv
  BY InitHolds, QueueStarts DEF MCInit
<1>2. IInv /\ QueueInv /\ [MCNext]_<<vars, follows, reports>> => (IInv /\ QueueInv)'
  <2> SUFFICES ASSUME IInv, QueueInv, [MCNext]_<<vars, follows, reports>>
               PROVE  IInv' /\ QueueInv'
    OBVIOUS
  <2>1. ASSUME UNCHANGED reports PROVE QueueInv'
    BY <2>1
       DEF reports, QueueInv, Events!TypeOK, Events!QueueBounded, OneAhead, NoneAhead,
           EarlyFirst, Free
  <2>2. ASSUME [Next]_vars PROVE IInv'
    BY <2>2, StepKeeps
  <2> QED BY <2>1, <2>2, QueueStep DEF MCNext
<1> QED BY <1>1, <1>2, PTL DEF MCSpec

\* The queue stays within its limit while an event is out for posting and may
\* come back, and at most one ordinary event stands before an urgent one, for
\* every limit (bridge/src/main.cpp:128-132, 201).
THEOREM QueueStaysInOrder == MCSpec => []QueueKeepsOrder
<1>1. ASSUME QueueInv PROVE QueueKeepsOrder
  <2>1. queue \in Seq(Events!Kinds) /\ \A i \in DOMAIN queue : queue[i] \in Events!Kinds
    BY <1>1 DEF QueueInv, Events!TypeOK
  <2> QED
    BY <1>1, <2>1
       DEF QueueInv, QueueKeepsOrder, Events!UrgentNearFront, OneAhead, Plain, Events!Ordinary
<1> QED BY <1>1, BothInvariant, PTL

\* Of two ordinary events the one reported first is posted first, or dropped:
\* a later one never stands before it or is out for posting while it waits,
\* whichever posts fail and come back, however full the queue, for every limit
\* (bridge/src/main.cpp:128-133, 194, 201).
THEOREM ReportsKeepTheirOrder == MCSpec => []ReportsInOrder
<1>1. QueueInv => ReportsInOrder
  BY DEF QueueInv, ReportsInOrder, Events!InReportedOrder, EarlyFirst, Free
<1> QED BY <1>1, BothInvariant, PTL

\* Every variable of the bridge keeps its type; an event is out of the queue
\* exactly while it is posted, and the transport thread stops only after the
\* last event is queued (bridge/src/main.cpp:117-134, 189-240).
THEOREM BothTypesCorrect == MCSpec => []AllTypesOK
<1>1. IInv /\ QueueInv => AllTypesOK
  BY DEF IInv, QueueInv, AllTypesOK
<1> QED BY <1>1, BothInvariant, PTL

\* Once told to stop, the transport thread is nearer to its end after each step
\* of either thread, whichever posts fail, whatever is queued and whatever the
\* limit: at most six steps are left (bridge/src/main.cpp:218-239).
LEMMA StopStep ==
  ASSUME Events!TypeOK, ~running, Events!Next, ~UNCHANGED Events!vars
  PROVE  Events!StepsLeft(work') < Events!StepsLeft(work)
<1>1. stopping
  BY DEF Events!TypeOK
<1>2. ~Events!Main /\ ~Events!Rests
  BY <1>1 DEF Events!Main, Events!MainReports, Events!MainStops, Events!StopsTransport,
              Events!Rests
<1>3. CASE Events!FrameArrives \/ Events!FrameFails
  <2>1. work = "request" /\ work' = "flush"
    BY <1>3 DEF Events!FrameArrives, Events!FrameFails
  <2> QED BY <2>1 DEF Events!StepsLeft
<1>4. CASE Events!FlushBegins \/ Events!FlushNothing
  <2>1. \/ work = "flush" /\ work' \in {"post", "sleep"}
        \/ work = "last" /\ work' \in {"lastpost", "dead"}
    BY <1>4 DEF Events!FlushBegins, Events!FlushNothing
  <2> QED BY <2>1 DEF Events!StepsLeft
<1>5. CASE Events!PostArrives \/ Events!PostFails
  <2>1. \/ work = "post" /\ work' = "sleep"
        \/ work = "lastpost" /\ work' = "dead"
    BY <1>5 DEF Events!PostArrives, Events!PostFails, Events!AfterPost
  <2> QED BY <2>1 DEF Events!StepsLeft
<1>6. CASE Events!Wakes
  <2>1. work = "sleep" /\ work' = "last"
    BY <1>6 DEF Events!Wakes
  <2> QED BY <2>1 DEF Events!StepsLeft
<1> QED BY <1>2, <1>3, <1>4, <1>5, <1>6 DEF Events!Next, Events!Transport

\* The shutdown of the bridge is near once it is under way: the transport
\* thread is never drawn back into its loop, for every limit of the queue
\* (bridge/src/main.cpp:218-239).
THEOREM ShutdownIsNear == MCSpec => StopIsNear
<1>1. QueueInv /\ [MCNext]_<<vars, follows, reports>>
        => [~running => Events!StepsLeft(work') < Events!StepsLeft(work)]_Events!vars
  <2> SUFFICES ASSUME QueueInv, [MCNext]_<<vars, follows, reports>>, ~running,
                      ~UNCHANGED Events!vars
               PROVE  Events!StepsLeft(work') < Events!StepsLeft(work)
    OBVIOUS
  <2>1. Events!Next
    BY DEF MCNext, Events!vars, reports
  <2> QED BY <2>1, StopStep DEF QueueInv
<1> QED BY <1>1, BothInvariant, PTL DEF MCSpec, StopIsNear, Events!StopIsNear
=============================================================================
