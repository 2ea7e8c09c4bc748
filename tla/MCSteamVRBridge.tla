-------------------------- MODULE MCSteamVRBridge --------------------------
(***************************************************************************)
(* The two things the Windows bridge does, in one run.  They share only    *)
(* the transport thread's turn, which either may delay at will; so a       *)
(* behaviour follows one of them, and the other rests as it began.         *)
(***************************************************************************)
EXTENDS SteamVRBridge, Sequences

CONSTANT MaxEvents

ASSUME QueueAssumption == MaxEvents \in Nat \ {0}

VARIABLES follows, queue, marked, flight, work, connected, running, stopping

Events == INSTANCE BridgeEvents

reports == <<queue, marked, flight, work, connected, running, stopping>>

MCInit ==
  /\ Init /\ Events!Init
  /\ follows \in {"pose", "reports"}
  /\ (follows = "pose") => work = "dead"

MCNext ==
  \/ follows = "pose" /\ Next /\ UNCHANGED <<follows, reports>>
  \/ follows = "reports" /\ Events!Next /\ UNCHANGED <<follows, vars>>

MCSpec ==
  MCInit /\ [][MCNext]_<<vars, follows, reports>> /\ Events!Fairness

\* What BridgeEvents states, here of the composition: its type invariant, the
\* queue's limit while an event is out for posting, the urgent events' place,
\* the order of the ordinary ones, and that the process ends once it stops,
\* each step bringing it nearer (bridge/src/main.cpp:117-134, 189-240).
AllTypesOK == TypeOK /\ Events!TypeOK
QueueKeepsOrder == Events!QueueBounded /\ Events!UrgentNearFront
ReportsInOrder == Events!InReportedOrder
StopIsNear == Events!StopIsNear
StopEnds == StopIsNear /\ Events!StopEnds
=============================================================================
