---------------------------- MODULE BridgeEvents ----------------------------
(***************************************************************************)
(* How the Windows bridge reports to the local service (Transport in       *)
(* bridge/src/main.cpp): its main thread and its transport thread put      *)
(* events into one bounded queue, errors and the final "bridge_stopped" at *)
(* the front; after every frame request the transport thread posts the     *)
(* first event and puts it back when that fails; at shutdown the main      *)
(* thread waits for one last post.  Two ordinary events are told apart,    *)
(* "early" and "late", each reported at most once and in this order: they  *)
(* stand for any two, since nothing the code does depends on an event's    *)
(* text.                                                                   *)
(***************************************************************************)
EXTENDS Naturals, Sequences

CONSTANT MaxEvents   \* the queue's limit (64)

VARIABLES
  queue,      \* events_: "urgent" (error, bridge_stopped) or ordinary events
  marked,     \* how many of "early" and "late" have been reported
  flight,     \* the event FlushOne is posting, or "none"
  work,       \* label of the transport thread
  connected,  \* Work's local: the last frame request succeeded
  running,    \* running_
  stopping    \* the main thread has put its last event and waits in join()

vars == <<queue, marked, flight, work, connected, running, stopping>>

Kinds == {"urgent", "info", "early", "late"}
Ordinary == Kinds \ {"urgent"}

Init ==
  /\ queue = <<>> /\ marked = 0 /\ flight = "none"
  /\ work \in {"request", "dead"}     \* "dead": WinHTTP could not be set up
  /\ connected = FALSE /\ running = TRUE /\ stopping = FALSE

-----------------------------------------------------------------------------
Pushed(kind, q) == IF kind = "urgent" THEN <<kind>> \o q ELSE Append(q, kind)

\* Mutant: an urgent event waits its turn.
QueuedInOrder(kind) == Append(IF Len(queue) = MaxEvents THEN Tail(queue) ELSE queue, kind)
\* Event: a full queue drops its first event, whatever it is.
Queued(kind) == Pushed(kind, IF Len(queue) = MaxEvents THEN Tail(queue) ELSE queue)

\* What may be reported next, and the report itself.
Reports ==
  {"urgent", "info"} \cup (CASE marked = 0 -> {"early"} [] marked = 1 -> {"late"} [] OTHER -> {})
Report(kind) ==
  /\ kind \in Reports
  /\ queue' = Queued(kind)
  /\ marked' = IF kind \in {"early", "late"} THEN marked + 1 ELSE marked

\* The main thread reports something, at any time until it stops.
MainReports ==
  /\ ~stopping
  /\ \E kind \in Reports : Report(kind)
  /\ UNCHANGED <<flight, work, connected, running, stopping>>

\* bridge_stopped, or the error that ends Run; then Transport::Stop.
MainStops ==
  /\ ~stopping
  /\ Report("urgent")
  /\ stopping' = TRUE
  /\ UNCHANGED <<flight, work, connected, running>>

\* Mutant: the thread is told to stop before the last event is queued.
StopsEarly ==
  /\ running
  /\ running' = FALSE
  /\ UNCHANGED <<queue, marked, flight, work, connected, stopping>>
StopsTransport ==
  /\ stopping /\ running
  /\ running' = FALSE
  /\ UNCHANGED <<queue, marked, flight, work, connected, stopping>>

-----------------------------------------------------------------------------
\* The frame request succeeded; the first success is reported.
FrameArrives ==
  /\ work = "request"
  /\ IF connected THEN UNCHANGED <<queue, marked>>
                  ELSE \E kind \in Reports \cap Ordinary : Report(kind)
  /\ connected' = TRUE /\ work' = "flush"
  /\ UNCHANGED <<flight, running, stopping>>

\* It failed; reported when the error text is not the previous one's.
FrameFails ==
  /\ work = "request"
  /\ \/ ~connected /\ UNCHANGED <<queue, marked>>
     \/ \E kind \in Reports \cap Ordinary : Report(kind)
  /\ connected' = FALSE /\ work' = "flush"
  /\ UNCHANGED <<flight, running, stopping>>

\* FlushOne takes the first event out of the queue to post it.
FlushBegins ==
  /\ work \in {"flush", "last"} /\ queue # <<>>
  /\ flight' = Head(queue) /\ queue' = Tail(queue)
  /\ work' = IF work = "flush" THEN "post" ELSE "lastpost"
  /\ UNCHANGED <<marked, connected, running, stopping>>

FlushNothing ==
  /\ work \in {"flush", "last"} /\ queue = <<>>
  /\ work' = IF work = "flush" THEN "sleep" ELSE "dead"
  /\ UNCHANGED <<queue, marked, flight, connected, running, stopping>>

AfterPost == IF work = "post" THEN "sleep" ELSE "dead"

PostArrives ==
  /\ work \in {"post", "lastpost"}
  /\ flight' = "none" /\ work' = AfterPost
  /\ UNCHANGED <<queue, marked, connected, running, stopping>>

\* Mutant: the event goes back whether or not there is room.
PutBackAlways == <<flight>> \o queue
\* Mutant: the event goes back to the end of the queue.
PutBackLast == IF Len(queue) < MaxEvents THEN Append(queue, flight) ELSE queue
PutBack == IF Len(queue) < MaxEvents THEN <<flight>> \o queue ELSE queue

\* The request threw: refused, or timed out after the service accepted it.
PostFails ==
  /\ work \in {"post", "lastpost"}
  /\ queue' = PutBack
  /\ flight' = "none" /\ work' = AfterPost
  /\ UNCHANGED <<marked, connected, running, stopping>>

\* Mutant: the transport thread drains the queue before it ends.
WakesToDrain ==
  /\ work = "sleep"
  /\ work' = IF running THEN "request" ELSE IF queue # <<>> THEN "flush" ELSE "last"
  /\ UNCHANGED <<queue, marked, flight, connected, running, stopping>>
\* 33 or 250 ms later: the loop goes on, or one last event is posted.
Wakes ==
  /\ work = "sleep"
  /\ work' = IF running THEN "request" ELSE "last"
  /\ UNCHANGED <<queue, marked, flight, connected, running, stopping>>

\* join() has returned: the process ends.
Ended == stopping /\ ~running /\ work = "dead"
Rests ==
  /\ Ended
  /\ UNCHANGED vars

Main == MainReports \/ MainStops \/ StopsTransport
Transport ==
  FrameArrives \/ FrameFails \/ FlushBegins \/ FlushNothing \/ PostArrives \/ PostFails \/ Wakes

Next == Main \/ Transport \/ Rests

\* Every request and every sleep is bounded; Stop follows the last event.
Fairness == WF_vars(Transport) /\ WF_vars(StopsTransport)

Spec == Init /\ [][Next]_vars /\ Fairness

-----------------------------------------------------------------------------
\* The type invariant: the thread ends its loop only after the last event is
\* queued, and an event is out of the queue exactly while it is posted.
TypeOK ==
  /\ queue \in Seq(Kinds) /\ marked \in 0 .. 2 /\ flight \in Kinds \cup {"none"}
  /\ work \in {"request", "flush", "post", "sleep", "last", "lastpost", "dead"}
  /\ (flight = "none") <=> work \notin {"post", "lastpost"}
  /\ connected \in BOOLEAN /\ running \in BOOLEAN /\ stopping \in BOOLEAN
  /\ ~running => stopping

\* The queue stays within its limit, with an event taken out and put back
\* while the other thread fills it (bridge/src/main.cpp:128, 201).
QueueBounded == Len(queue) <= MaxEvents

\* At most one ordinary event stands before an urgent one: the one whose
\* post failed (bridge/src/main.cpp:132, 201).
UrgentNearFront ==
  \A i, j, k \in DOMAIN queue :
    i < j /\ j < k /\ queue[i] \in Ordinary /\ queue[j] \in Ordinary => queue[k] \in Ordinary

\* Ordinary events are posted in the order in which they were reported, full
\* queues, failed posts and the other thread's reports included: a later one
\* never stands, or is posted, before an earlier one that is still to be
\* posted (bridge/src/main.cpp:128-133, 194, 201).
InReportedOrder ==
  /\ \A i, j \in DOMAIN queue : queue[i] = "late" /\ queue[j] = "early" => j < i
  /\ flight = "late" => \A j \in DOMAIN queue : queue[j] # "early"

\* Once told to stop, the transport thread comes nearer to its end with each
\* step, whichever posts fail and whatever is queued: it is never drawn back
\* into its loop (bridge/src/main.cpp:218-239).
StepsLeft(label) ==
  CASE label = "request" -> 6 [] label = "flush" -> 5 [] label = "post" -> 4
    [] label = "sleep" -> 3 [] label = "last" -> 2 [] label = "lastpost" -> 1
    [] label = "dead" -> 0
StopIsNear == [][~running => StepsLeft(work') < StepsLeft(work)]_vars

\* Once the main thread stops, the process ends (bridge/src/main.cpp:117,
\* 218-239): the shutdown posts one event and never drains the queue.
StopEnds == stopping ~> Ended
=============================================================================
