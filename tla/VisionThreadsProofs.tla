------------------------- MODULE VisionThreadsProofs -------------------------
(***************************************************************************)
(* Who runs when, and what that means for the stores: of every behaviour,  *)
(* up to the moment a shutdown overtakes a camera request (`overtaken'),   *)
(* and to its end where none does.  The run vision_overlap shows what can  *)
(* happen beyond that moment.                                              *)
(***************************************************************************)
EXTENDS VisionRuntimeProofs

-----------------------------------------------------------------------------
(* The invariant, first half: callers and threads.                         *)

CStop == {"c_set", "c_snap", "c_join", "c_close", "c_join2", "c_done"}
PStop == {"p_set", "p_snap", "p_join", "p_done"}
Tail  == {"ask_tracker", "close_tracker", "verdict"}
Clearing == {"clear_frames", "clear_states", "clear_bundles", "configure"}
Launching == {"start", "open", "spawn_c"}

\* One caller is at work: a request runs only while the main thread serves.
OneCaller ==
  /\ pc["main"] # "serving" => pc["http"] = "idle"
  /\ ctx["http"] # "shutdown"

\* Only the threads the two holders refer to are alive.
Referenced ==
  \A t \in Threads : (CapAlive(t) => t = capThread) /\ (PercAlive(t) => t = percThread)

\* What a caller that stops a holder knows of its thread.
StopsItsThread(c) ==
  /\ pc[c] \in {"c_join", "c_close", "c_join2", "c_done"} => snapCap[c] = capThread
  /\ pc[c] \in {"c_join", "c_join2"} => capThread # None
  /\ pc[c] = "c_done" => ~CapRunning
  /\ pc[c] \in {"p_join", "p_done"} => snapPerc[c] = percThread
  /\ pc[c] = "p_join" => percThread # None
  /\ pc[c] = "p_done" => ~PercRunning

\* Behind the stops of a switch, and until a start, nobody runs.
FindsRest(c) ==
  /\ pc[c] \in PStop /\ ctx[c] = "switch" => capThread = None
  /\ pc[c] \in Clearing \cup Launching => capThread = None /\ percThread = None
  /\ pc[c] = "spawn_p" => percThread = None

\* The end of a stop: an error is remembered, or the tracker is closed.
Concludes(c) ==
  /\ pc[c] \in Tail => ctx[c] \in {"cleanup", "shutdown"}
  /\ pc[c] = "close_tracker" => ~PercRunning
  /\ pc[c] = "verdict" => errs[c] \/ trackerClosed

\* A cleanup follows a thread that was never started, whose stop fails.
CaptureRefused == capThread # None /\ capPc[capThread] = "unstarted"
WorkerRefused  == percThread # None /\ percPc[percThread] = "unstarted"
CleansUp(c) ==
  ctx[c] = "cleanup" =>
    /\ pc[c] # "open"
    /\ pc[c] \in {"p_set", "p_snap", "p_join"} /\ ~WorkerRefused =>
         CaptureRefused /\ percThread = None
    /\ pc[c] = "p_done" => CaptureRefused /\ percThread = None
    /\ pc[c] \in {"c_set", "c_snap", "c_join"} /\ ~CaptureRefused => errs[c]
    /\ pc[c] \in {"c_close", "c_join2", "c_done"} \cup Tail => errs[c]

Position(c) == StopsItsThread(c) /\ FindsRest(c) /\ Concludes(c) /\ CleansUp(c)

ClosedIsQuiet ==
  closed => pc["main"] = "exited" /\ trackerClosed /\ ~CapRunning /\ ~PercRunning

ThreadInv ==
  OneCaller /\ Referenced /\ ClosedIsQuiet /\ \A c \in Callers : Position(c)

-----------------------------------------------------------------------------
(* Second half: what lies in the stores and in the threads' hands.         *)

\* Nobody leaves anything behind: a thread holds a frame only at work.
NoLeftovers ==
  \A t \in Threads : /\ capPc[t] # "publish" => capFrame[t] = None
                     /\ percPc[t] \in {"unborn", "unstarted", "dead"} => work[t] = NoLocal

OfCamera(frame) == frame # None => frame.cam = camera
Current ==
  /\ OfCamera(frames)
  /\ states # None => OfCamera(states.frame)
  /\ bundles # None => OfCamera(bundles.frame)
  /\ \A t \in Threads : /\ OfCamera(capFrame[t]) /\ OfCamera(work[t].last)
                        /\ work[t].item # None => OfCamera(work[t].item.frame)

\* A scene goes to the bundle store last, an empty state to the state store.
Agreed ==
  /\ \A t \in Threads :
       /\ percPc[t] \in {"relay", "bundle"} => states = work[t].item
       /\ percPc[t] = "relay" /\ work[t].kind # "scene" => bundles = work[t].item
  /\ (\A t \in Threads : percPc[t] \notin {"relay", "bundle"}) /\ pc["http"] # "clear_bundles"
       => states = bundles

\* What a switch has cleared stays clear until a thread runs again.
Emptied ==
  /\ pc["http"] \in {"clear_states", "clear_bundles", "configure"} => frames = None
  /\ pc["http"] \in {"clear_bundles", "configure"} => states = None
  /\ \A c \in Callers : pc[c] \in Launching => frames = None

Unseen(frame) == frame # None => frame.id > newest
\* Frames go from hand to hand in the order of their numbers.
CaptureInOrder ==
  /\ newest < nextId /\ (frames # None => frames.id < nextId)
  /\ \A t \in Threads : capFrame[t] # None =>
       /\ capFrame[t].id < nextId /\ capFrame[t].id > newest
       /\ frames # None => frames.id < capFrame[t].id
  /\ \A c \in Callers : pc[c] = "spawn_p" => Unseen(frames)

Handling == {"track", "infer", "map", "recheck"}
Publishing == {"relay", "bundle"}
\* A worker takes what is newer than all it has published.
WorkerInOrder ==
  \A t \in Threads :
    /\ percPc[t] \in Working =>
         /\ work[t].item.frame.id < nextId
         /\ \A u \in Threads : capFrame[u] # None => work[t].item.frame.id < capFrame[u].id
    /\ percPc[t] \in {"loop", "wait"} /\ work[t].last = None => Unseen(frames)
    /\ work[t].last # None /\ percPc[t] \notin Publishing => work[t].last.id = newest
    /\ percPc[t] \in Handling => work[t].item.frame.id > newest
    /\ percPc[t] = "state" =>
         work[t].item.frame.id > newest \/ (work[t].item.frame.id = newest /\ ~work[t].item.hl)
    /\ percPc[t] \in Publishing => work[t].item.frame.id = newest
    /\ percPc[t] \in Publishing \cup {"state"} /\ work[t].kind = "stale" =>
         work[t].last # None /\ work[t].item.frame = work[t].last

StoreInv ==
  NoLeftovers /\ Current /\ Agreed /\ Emptied /\ CaptureInOrder /\ WorkerInOrder

-----------------------------------------------------------------------------
(* The camera's names.                                                     *)

\* The request is past the source's configuration.
Configured ==
  \/ pc["http"] \in Launching \cup {"spawn_p", "started", "applied"}
  \/ pc["http"] \in CStop \cup PStop \cup Tail /\ ctx["http"] # "switch"
RequestInv ==
  /\ pc["http"] \notin {"idle", "bind", "fail"} => setupCam = goal
  /\ Configured => camera = goal
  /\ CamerasAgree

-----------------------------------------------------------------------------
(* Callers and threads.                                                    *)

\* The labels of the runtime's operations, and those the invariant speaks of.
Busy == CStop \cup PStop \cup Tail \cup Launching \cup {"spawn_p", "started"}
Tied == CStop \cup PStop \cup Tail \cup Clearing \cup Launching \cup {"spawn_p"}

\* Nothing is alive that its holder does not see running.
LEMMA OnlyReferenced ==
  ASSUME TypeInv, Referenced
  PROVE  /\ ~CapRunning => \A t \in Threads : ~CapAlive(t)
         /\ ~PercRunning => \A t \in Threads : ~PercAlive(t)
  BY NoneAssumption
  DEF Referenced, CapRunning, PercRunning, TypeInv, TypeOK, CaptureTyped, WorkerTyped

\* The invariant holds at first.
LEMMA InitThreads == Init => ThreadInv
  BY DEF Init, ThreadInv, OneCaller, Referenced, ClosedIsQuiet, Position, StopsItsThread, FindsRest,
         Concludes, CleansUp, CStop, PStop, Tail, Clearing, Launching, Callers, CapAlive, PercAlive

\* A thread on its own may only end: it starts nobody and moves no caller.
LEMMA ThreadsOnlyDie ==
  ASSUME TypeInv, NEW t \in Threads,
         CaptureLoop(t) \/ ReadReturns(t) \/ WorkerLoop(t) \/ WorkGoesStale(t) \/ InferReturns(t)
  PROVE  /\ UNCHANGED <<pc, callVars, capThread, percThread, trackerClosed, closed>>
         /\ UNCHANGED <<camera, setupVars, requestVars>>
         /\ CapAlive(t) \/ PercAlive(t)
         /\ \A u \in Threads : /\ CapAlive(u)' => CapAlive(u)
                               /\ PercAlive(u)' => PercAlive(u)
                               /\ capPc[u] = "unstarted" => capPc'[u] = "unstarted"
                               /\ percPc[u] = "unstarted" => percPc'[u] = "unstarted"
  <1> USE DEF TypeInv, TypeOK, CaptureTyped, WorkerTyped, CapAlive, PercAlive, runtimeVars,
              sourceVars,
              captureVars, workerVars, storeVars, setupVars, requestVars, callVars
  <1>1. CASE CaptureLoop(t) \/ ReadReturns(t)
    BY <1>1 DEF CaptureLoop, ReadReturns, CapLeavesLoop, CapBeginsRead, CapReadFails, CapReadsFrame,
            CapPublishes, CapReleases
  <1>2. CASE WorkLoops(t) \/ WorkTakes(t) \/ WorkTimesOut(t) \/ WorkGoesStale(t)
    BY <1>2 DEF WorkLoops, WorkTakes, WorkTimesOut, WorkGoesStale
  <1>3. CASE WorkTracks(t) \/ WorkInfers(t) \/ WorkMaps(t) \/ WorkFails(t) \/ WorkRechecks(t)
    BY <1>3 DEF WorkTracks, WorkInfers, WorkMaps, WorkFails, WorkRechecks
  <1>4. CASE WorkPublishesState(t) \/ WorkRelays(t) \/ WorkPublishesBundle(t)
    BY <1>4 DEF WorkPublishesState, WorkRelays, WorkPublishesBundle, AfterState
  <1> QED
    BY <1>1, <1>2, <1>3, <1>4 DEF WorkerLoop, InferReturns

LEMMA ThreadsKeepThreadInv ==
  ASSUME TypeInv, ThreadInv, NEW t \in Threads,
         CaptureLoop(t) \/ ReadReturns(t) \/ WorkerLoop(t) \/ WorkGoesStale(t) \/ InferReturns(t)
  PROVE  ThreadInv'
  <1>1. /\ UNCHANGED <<pc, ctx, snapCap, snapPerc, errs, capThread, percThread, trackerClosed, closed>>
        /\ \A u \in Threads : /\ CapAlive(u)' => CapAlive(u)
                              /\ PercAlive(u)' => PercAlive(u)
                              /\ capPc[u] = "unstarted" => capPc'[u] = "unstarted"
                              /\ percPc[u] = "unstarted" => percPc'[u] = "unstarted"
    BY ThreadsOnlyDie DEF callVars
  <1>2. (CapRunning' => CapRunning) /\ (PercRunning' => PercRunning)
    BY <1>1 DEF CapRunning, PercRunning, TypeInv, TypeOK, CaptureTyped, WorkerTyped
  <1>3. OneCaller' /\ Referenced' /\ ClosedIsQuiet'
    BY <1>1, <1>2 DEF ThreadInv, OneCaller, Referenced, ClosedIsQuiet
  <1>4. ASSUME NEW c \in Callers PROVE Position(c)'
    <2>1. Position(c)
      BY DEF ThreadInv
    <2>2. StopsItsThread(c)' /\ FindsRest(c)' /\ Concludes(c)'
      BY <1>1, <1>2, <2>1 DEF Position, StopsItsThread, FindsRest, Concludes
    <2>3. CleansUp(c)'
      BY <1>1, <2>1
      DEF Position, CleansUp, CaptureRefused, WorkerRefused, TypeInv, TypeOK, CaptureTyped,
          WorkerTyped
    <2> QED
      BY <2>2, <2>3 DEF Position
  <1> QED
    BY <1>3, <1>4 DEF ThreadInv

\* What the steps of a caller have in common.
LEMMA CallerMoves ==
  ASSUME TypeInv, NEW c \in Callers, CallerStep(c)
  PROVE  /\ pc[c] \in Busy /\ pc'[c] \notin {"clear_states", "clear_bundles", "configure"}
         /\ \A d \in Callers : d # c => pc'[d] = pc[d]
         /\ \A d \in Callers : ctx'[d] \in {ctx[d], "start", "cleanup"}
         /\ closed' => closed \/ StopVerdict(c)
  <1> USE DEF TypeInv, TypeOK, CallerTyped, Goto, Busy, CStop, PStop, Tail, Launching, runtimeVars,
              callVars
  <1>1. CASE CaptureStop(c)
    <2>1. CASE CStopSets(c)
      BY <2>1 DEF CStopSets
    <2>2. CASE CStopSnapshots(c)
      BY <2>2 DEF CStopSnapshots
    <2>3. CASE CStopJoins(c)
      BY <2>3 DEF CStopJoins
    <2>4. CASE CStopJoinExpires(c)
      BY <2>4 DEF CStopJoinExpires
    <2>5. CASE CStopCloses(c)
      BY <2>5 DEF CStopCloses
    <2>6. CASE CStopCloseRaises(c)
      BY <2>6 DEF CStopCloseRaises, CaptureStopReturns, StartReturns, SwitchGoesOn
    <2>7. CASE CStopJoinExpiresAgain(c)
      BY <2>7 DEF CStopJoinExpiresAgain, CaptureStopReturns, StartReturns, SwitchGoesOn
    <2>8. CASE CStopForgetsThread(c)
      BY <2>8 DEF CStopForgetsThread, CaptureStopReturns, StartReturns, SwitchGoesOn
    <2>9. CASE CStopJoinRaises(c)
      BY <2>9 DEF CStopJoinRaises, CaptureStopReturns, StartReturns, SwitchGoesOn
    <2> QED
      BY <1>1, <2>1, <2>2, <2>3, <2>4, <2>5, <2>6, <2>7, <2>8, <2>9 DEF CaptureStop
  <1>2. CASE PerceptionStop(c)
    <2>1. CASE PStopSets(c)
      BY <2>1 DEF PStopSets
    <2>2. CASE PStopSnapshots(c)
      BY <2>2 DEF PStopSnapshots
    <2>3. CASE PStopJoins(c)
      BY <2>3 DEF PStopJoins
    <2>4. CASE PStopRaises(c)
      BY <2>4 DEF PStopRaises, PerceptionStopReturns, SwitchGoesOn
    <2>5. CASE PStopForgetsThread(c)
      BY <2>5 DEF PStopForgetsThread, PerceptionStopReturns, SwitchGoesOn
    <2> QED
      BY <1>2, <2>1, <2>2, <2>3, <2>4, <2>5 DEF PerceptionStop
  <1>3. CASE Start(c)
    <2>1. CASE StartChecks(c)
      BY <2>1 DEF StartChecks, StartReturns
    <2>2. CASE StartOpens(c)
      BY <2>2 DEF StartOpens
    <2>3. CASE StartOpenFails(c)
      BY <2>3 DEF StartOpenFails
    <2>4. CASE StartSpawnsCapture(c)
      BY <2>4 DEF StartSpawnsCapture
    <2>5. CASE StartSpawnsWorker(c)
      BY <2>5 DEF StartSpawnsWorker
    <2>6. CASE StartWorkerRefused(c)
      BY <2>6 DEF StartWorkerRefused
    <2>7. CASE StartSucceeds(c)
      BY <2>7 DEF StartSucceeds, StartReturns
    <2>8. CASE StartCaptureRefused(c)
      BY <2>8 DEF StartCaptureRefused
    <2> QED
      BY <1>3, <2>1, <2>2, <2>3, <2>4, <2>5, <2>6, <2>7, <2>8 DEF Start
  <1>4. CASE StopTail(c)
    <2>1. CASE TrackerAsks(c)
      BY <2>1 DEF TrackerAsks
    <2>2. CASE TrackerCloses(c)
      BY <2>2 DEF TrackerCloses
    <2>3. CASE TrackerCloseRaises(c)
      BY <2>3 DEF TrackerCloseRaises
    <2>4. CASE StopVerdict(c)
      BY <2>4 DEF StopVerdict, StartReturns
    <2> QED
      BY <1>4, <2>1, <2>2, <2>3, <2>4 DEF StopTail
  <1> QED
    BY <1>1, <1>2, <1>3, <1>4 DEF CallerStep

\* While one caller is in an operation the other one is not, and the runtime
\* is not closed.
LEMMA CallerAlone ==
  ASSUME ThreadInv, NEW c \in Callers, pc[c] \in Busy
  PROVE  /\ ~closed
         /\ \A d \in Callers : d # c => pc[d] \in {"idle", "serving"}
  BY DEF ThreadInv, OneCaller, ClosedIsQuiet, Busy, Callers, CStop, PStop, Tail, Launching

\* CaptureThread.stop forgets its thread only when that has ended.
LEMMA CaptureStopPosition ==
  ASSUME TypeInv, ThreadInv, NEW c \in Callers, CaptureStop(c)
  PROVE  Referenced' /\ Position(c)'
  <1> USE DEF runtimeVars, captureVars, workerVars, callVars, Goto
  <1> USE DEF CallerTyped, CaptureTyped, WorkerTyped, StopsItsThread, FindsRest, Concludes,
              CleansUp, CaptureRefused, WorkerRefused, CStop, PStop, Tail, Clearing, Launching
  <1>0. CallerTyped /\ CaptureTyped /\ WorkerTyped /\ Referenced /\ Position(c)
    BY DEF TypeInv, TypeOK, ThreadInv
  <1>1. CASE CStopSets(c)
    BY <1>0, <1>1 DEF CStopSets, Position, Referenced, CapRunning, PercRunning, CapAlive, PercAlive
  <1>2. CASE CStopSnapshots(c)
    <2>1. UNCHANGED <<capThread, capPc, percThread, percPc, trackerClosed, ctx, snapPerc, errs>>
      BY <1>2 DEF CStopSnapshots
    <2>2. /\ pc[c] = "c_snap" /\ snapCap'[c] = capThread
          /\ \/ capThread = None /\ pc'[c] = "c_close"
             \/ capThread # None /\ pc'[c] = "c_join"
      BY <1>0, <1>2 DEF CStopSnapshots
    <2>3. CleansUp(c)'
      BY <1>0, <2>1, <2>2 DEF Position
    <2>4. StopsItsThread(c)' /\ FindsRest(c)' /\ Concludes(c)'
      BY <2>1, <2>2
    <2> QED
      BY <1>0, <2>1, <2>3, <2>4 DEF Position, Referenced, CapAlive, PercAlive
  <1>3. CASE CStopJoins(c)
    <2>1. snapCap[c] = capThread /\ capPc[capThread] = "dead" /\ ~CapRunning
      BY <1>0, <1>3 DEF CStopJoins, CapJoined, CapRunning, CapAlive, Position
    <2>2. UNCHANGED <<capThread, capPc, percThread, percPc, trackerClosed, ctx, snapCap, snapPerc, errs>>
      BY <1>3 DEF CStopJoins
    <2>3. pc[c] \in {"c_join", "c_join2"} /\ pc'[c] = "c_done" /\ ~CapRunning'
      BY <1>0, <1>3, <2>1, <2>2 DEF CStopJoins, CapRunning, CapAlive
    <2>4. CleansUp(c)'
      BY <1>0, <2>1, <2>2, <2>3 DEF Position
    <2>5. StopsItsThread(c)' /\ FindsRest(c)' /\ Concludes(c)'
      BY <2>1, <2>2, <2>3
    <2> QED
      BY <1>0, <2>2, <2>4, <2>5 DEF Position, Referenced, CapAlive, PercAlive
  <1>4. CASE CStopJoinExpires(c)
    <2>1. UNCHANGED <<capThread, capPc, percThread, percPc, trackerClosed, ctx, snapCap, snapPerc, errs>>
      BY <1>4 DEF CStopJoinExpires
    <2>2. pc[c] = "c_join" /\ pc'[c] = "c_close" /\ capPc[snapCap[c]] = "reading"
      BY <1>0, <1>4 DEF CStopJoinExpires, CapStuck
    <2>3. snapCap[c] = capThread
      BY <1>0, <2>2 DEF Position
    <2>4. CleansUp(c)'
      BY <1>0, <2>1, <2>2, <2>3 DEF Position
    <2>5. StopsItsThread(c)' /\ FindsRest(c)' /\ Concludes(c)'
      BY <2>1, <2>2, <2>3
    <2> QED
      BY <1>0, <2>1, <2>4, <2>5 DEF Position, Referenced, CapAlive, PercAlive
  <1>5. CASE CStopCloses(c)
    BY <1>0, <1>5
    DEF CStopCloses, Position, Referenced, CapRunning, PercRunning, CapAlive, PercAlive
  <1>6. CASE CStopCloseRaises(c)
    BY <1>0, <1>6
    DEF CStopCloseRaises, CaptureStopReturns, StartReturns, SwitchGoesOn, Position, Referenced,
        CapRunning, PercRunning, CapAlive, PercAlive
  <1>7. CASE CStopJoinExpiresAgain(c)
    BY <1>0, <1>7
    DEF CStopJoinExpiresAgain, CaptureStopReturns, StartReturns, SwitchGoesOn, Position, Referenced,
        CapRunning, PercRunning, CapAlive, PercAlive
  <1>8. CASE CStopForgetsThread(c)
    BY <1>0, <1>8
    DEF CStopForgetsThread, CaptureStopReturns, StartReturns, SwitchGoesOn, Position, Referenced,
        CapRunning, PercRunning, CapAlive, PercAlive
  <1>9. CASE CStopJoinRaises(c)
    <2>1. /\ CaptureStopReturns(c, FALSE)
          /\ UNCHANGED <<capThread, capPc, percThread, percPc, trackerClosed, ctx, snapCap, snapPerc>>
      BY <1>9 DEF CStopJoinRaises
    <2>2. \/ ctx[c] = "switch" /\ pc'[c] = "fail"
          \/ ctx[c] = "start" /\ pc'[c] \in {"fail", "unwind"}
          \/ ctx[c] = "cleanup" /\ pc'[c] = "ask_tracker" /\ errs'[c]
          \/ ctx[c] = "shutdown" /\ pc'[c] = "p_set" /\ errs'[c]
      BY <1>0, <2>1 DEF CaptureStopReturns, StartReturns, SwitchGoesOn
    <2>3. CleansUp(c)'
      BY <2>1, <2>2
    <2>4. StopsItsThread(c)' /\ FindsRest(c)' /\ Concludes(c)'
      BY <2>1, <2>2
    <2> QED
      BY <1>0, <2>1, <2>3, <2>4 DEF Position, Referenced, CapAlive, PercAlive
  <1> QED
    BY <1>1, <1>2, <1>3, <1>4, <1>5, <1>6, <1>7, <1>8, <1>9 DEF CaptureStop

\* So does LatestFramePerceptionWorker.stop; a thread that was never started it
\* cannot join.
LEMMA PerceptionStopPosition ==
  ASSUME TypeInv, ThreadInv, NEW c \in Callers, PerceptionStop(c)
  PROVE  Referenced' /\ Position(c)'
  <1> USE DEF runtimeVars, captureVars, workerVars, callVars, Goto
  <1> USE DEF CallerTyped, CaptureTyped, WorkerTyped, StopsItsThread, FindsRest, Concludes,
              CleansUp, CaptureRefused, WorkerRefused, CStop, PStop, Tail, Clearing, Launching
  <1>0. CallerTyped /\ CaptureTyped /\ WorkerTyped /\ Referenced /\ Position(c)
    BY DEF TypeInv, TypeOK, ThreadInv
  <1>1. CASE PStopSets(c)
    BY <1>0, <1>1 DEF PStopSets, Position, Referenced, CapRunning, PercRunning, CapAlive, PercAlive
  <1>2. CASE PStopSnapshots(c)
    BY <1>0, <1>2
    DEF PStopSnapshots, Position, Referenced, CapRunning, PercRunning, CapAlive, PercAlive
  <1>3. CASE PStopJoins(c)
    <2>1. snapPerc[c] = percThread /\ percPc[percThread] = "dead"
      BY <1>0, <1>3 DEF PStopJoins, PercJoined, Position
    <2>2. ~PercRunning'
      BY <1>3, <2>1 DEF PStopJoins, PercRunning, PercAlive
    <2> QED
      BY <1>0, <1>3, <2>1, <2>2 DEF PStopJoins, Position, Referenced, CapAlive, PercAlive
  <1>4. CASE PStopRaises(c)
    <2>1. /\ pc[c] = "p_join" /\ PerceptionStopReturns(c, FALSE)
          /\ UNCHANGED <<capThread, capPc, percThread, percPc, trackerClosed, ctx, snapCap, snapPerc>>
      BY <1>4 DEF PStopRaises
    <2>2. \/ ctx[c] = "switch" /\ pc'[c] = "fail"
          \/ ctx[c] = "cleanup" /\ pc'[c] = "c_set" /\ errs'[c]
          \/ ctx[c] = "shutdown" /\ pc'[c] = "ask_tracker" /\ errs'[c]
      BY <1>0, <2>1 DEF PerceptionStopReturns, SwitchGoesOn
    <2>3. Referenced'
      BY <1>0, <2>1 DEF Referenced, CapAlive, PercAlive
    <2>4. StopsItsThread(c)' /\ FindsRest(c)' /\ Concludes(c)'
      BY <2>1, <2>2
    <2>5. CleansUp(c)'
      BY <1>0, <2>1, <2>2 DEF Position
    <2> QED
      BY <2>3, <2>4, <2>5 DEF Position
  <1>5. CASE PStopForgetsThread(c)
    BY <1>0, <1>5
    DEF PStopForgetsThread, PerceptionStopReturns, SwitchGoesOn, Position, Referenced, CapRunning,
        PercRunning, CapAlive, PercAlive
  <1> QED
    BY <1>1, <1>2, <1>3, <1>4, <1>5 DEF PerceptionStop

\* A start finds nobody running and starts at most one thread of each kind.
LEMMA StartPosition ==
  ASSUME TypeInv, ThreadInv, NEW c \in Callers, Start(c)
  PROVE  Referenced' /\ Position(c)'
  <1> USE DEF runtimeVars, captureVars, workerVars, callVars, Goto
  <1> USE DEF CallerTyped, CaptureTyped, WorkerTyped, StopsItsThread, FindsRest, Concludes,
              CleansUp, CaptureRefused, WorkerRefused, CStop, PStop, Tail, Clearing, Launching
  <1>0. CallerTyped /\ CaptureTyped /\ WorkerTyped /\ Referenced /\ Position(c)
    BY DEF TypeInv, TypeOK, ThreadInv
  <1>1. CASE StartChecks(c)
    BY <1>0, <1>1
    DEF StartChecks, StartReturns, Position, Referenced, CapRunning, PercRunning, CapAlive,
        PercAlive
  <1>2. CASE StartOpens(c)
    BY <1>0, <1>2 DEF StartOpens, Position, Referenced, CapRunning, PercRunning, CapAlive, PercAlive
  <1>3. CASE StartOpenFails(c)
    BY <1>0, <1>3
    DEF StartOpenFails, Position, Referenced, CapRunning, PercRunning, CapAlive, PercAlive
  <1>4. CASE StartSpawnsCapture(c)
    <2>1. PICK t \in Threads : capThread' = t /\ capPc' = [capPc EXCEPT ![t] = "check"]
      BY <1>4 DEF StartSpawnsCapture
    <2>2. capThread = None /\ percThread = None
      BY <1>0, <1>4 DEF StartSpawnsCapture, Position
    <2>3. \A u \in Threads : (CapAlive(u)' => u = t) /\ ~PercAlive(u)'
      BY <1>0, <1>4, <2>1, <2>2, NoneAssumption
      DEF StartSpawnsCapture, Referenced, CapAlive, PercAlive
    <2> QED
      BY <1>0, <1>4, <2>1, <2>2, <2>3 DEF StartSpawnsCapture, Position, Referenced
  <1>5. CASE StartSpawnsWorker(c)
    <2>1. percThread = None /\ ~PercRunning
      BY <1>0, <1>5 DEF StartSpawnsWorker, Position, PercRunning
    <2>2. PICK t \in Threads : percThread' = t /\ percPc' = [percPc EXCEPT ![t] = "loop"]
      BY <1>5, <2>1 DEF StartSpawnsWorker
    <2>3. \A u \in Threads : (CapAlive(u)' => u = capThread') /\ (PercAlive(u)' => u = t)
      BY <1>0, <1>5, <2>1, <2>2, NoneAssumption
      DEF StartSpawnsWorker, Referenced, CapAlive, PercAlive
    <2> QED
      BY <1>0, <1>5, <2>2, <2>3 DEF StartSpawnsWorker, Position, Referenced
  <1>6. CASE StartWorkerRefused(c)
    <2>1. percThread = None
      BY <1>0, <1>6 DEF StartWorkerRefused, Position
    <2>2. PICK t \in Threads : percThread' = t /\ percPc' = [percPc EXCEPT ![t] = "unstarted"]
      BY <1>6 DEF StartWorkerRefused
    <2>3. \A u \in Threads : (CapAlive(u)' => u = capThread') /\ ~PercAlive(u)'
      BY <1>0, <1>6, <2>1, <2>2, NoneAssumption
      DEF StartWorkerRefused, Referenced, CapAlive, PercAlive
    <2>4. percThread' # None /\ percPc'[percThread'] = "unstarted"
      BY <1>0, <2>2, NoneAssumption
    <2>5. Referenced'
      BY <1>6, <2>3 DEF StartWorkerRefused, Referenced
    <2>6. pc'[c] = "p_set" /\ ctx'[c] = "cleanup"
      BY <1>0, <1>6 DEF StartWorkerRefused
    <2>7. WorkerRefused'
      BY <2>4
    <2> HIDE DEF CaptureRefused, WorkerRefused
    <2>8. CleansUp(c)'
      BY <2>6, <2>7
    <2>9. StopsItsThread(c)' /\ FindsRest(c)' /\ Concludes(c)'
      BY <2>6
    <2> QED
      BY <2>5, <2>8, <2>9 DEF Position
  <1>7. CASE StartSucceeds(c)
    BY <1>0, <1>7
    DEF StartSucceeds, StartReturns, Position, Referenced, CapRunning, PercRunning, CapAlive,
        PercAlive
  <1>8. CASE StartCaptureRefused(c)
    <2>1. capThread = None /\ percThread = None
      BY <1>0, <1>8 DEF StartCaptureRefused, Position
    <2>2. PICK t \in Threads : capThread' = t /\ capPc' = [capPc EXCEPT ![t] = "unstarted"]
      BY <1>8 DEF StartCaptureRefused
    <2>3. \A u \in Threads : ~CapAlive(u)' /\ ~PercAlive(u)'
      BY <1>0, <1>8, <2>1, <2>2, NoneAssumption
      DEF StartCaptureRefused, Referenced, CapAlive, PercAlive
    <2>4. capThread' # None /\ capPc'[capThread'] = "unstarted" /\ percThread' = None
      BY <1>0, <1>8, <2>1, <2>2, NoneAssumption DEF StartCaptureRefused
    <2>5. Referenced'
      BY <2>3 DEF Referenced
    <2>6. pc'[c] = "p_set" /\ ctx'[c] = "cleanup"
      BY <1>0, <1>8 DEF StartCaptureRefused
    <2> QED
      BY <2>4, <2>5, <2>6 DEF Position
  <1> QED
    BY <1>1, <1>2, <1>3, <1>4, <1>5, <1>6, <1>7, <1>8 DEF Start

\* The tracker is closed behind the worker.
LEMMA StopTailPosition ==
  ASSUME TypeInv, ThreadInv, NEW c \in Callers, StopTail(c)
  PROVE  Referenced' /\ Position(c)'
  <1> USE DEF runtimeVars, captureVars, workerVars, callVars, Goto
  <1> USE DEF CallerTyped, CaptureTyped, WorkerTyped, StopsItsThread, FindsRest, Concludes,
              CleansUp, CaptureRefused, WorkerRefused, CStop, PStop, Tail, Clearing, Launching
  <1>0. CallerTyped /\ CaptureTyped /\ WorkerTyped /\ Referenced /\ Position(c)
    BY DEF TypeInv, TypeOK, ThreadInv
  <1>1. CASE TrackerAsks(c)
    <2>1. PercRunning' = PercRunning /\ (PercRunning => PercRunning')
      BY <1>1 DEF TrackerAsks, PercRunning, PercAlive
    <2>2. TrackerFree <=> ~PercRunning
      BY DEF TrackerFree
    <2>3. /\ pc'[c] \in {"close_tracker", "verdict"} /\ ctx[c] \in {"cleanup", "shutdown"}
          /\ pc'[c] = "close_tracker" => ~PercRunning'
          /\ pc'[c] = "verdict" => PercRunning
      BY <1>0, <1>1, <2>1, <2>2 DEF TrackerAsks, Position
    <2>4. /\ ctx[c] = "cleanup" => errs'[c]
          /\ ctx[c] = "shutdown" /\ PercRunning => errs'[c]
      BY <1>0, <1>1 DEF TrackerAsks, Position
    <2>5. UNCHANGED <<ctx, capPc, percPc, capThread, percThread>>
      BY <1>1 DEF TrackerAsks
    <2> QED
      BY <1>0, <2>3, <2>4, <2>5 DEF Position, Referenced, CapAlive, PercAlive
  <1>2. CASE TrackerCloses(c)
    BY <1>0, <1>2
    DEF TrackerCloses, Position, Referenced, CapRunning, PercRunning, CapAlive, PercAlive
  <1>3. CASE TrackerCloseRaises(c)
    BY <1>0, <1>3
    DEF TrackerCloseRaises, Position, Referenced, CapRunning, PercRunning, CapAlive, PercAlive
  <1>4. CASE StopVerdict(c)
    BY <1>0, <1>4
    DEF StopVerdict, StartReturns, Position, Referenced, CapRunning, PercRunning, CapAlive,
        PercAlive
  <1> QED
    BY <1>1, <1>2, <1>3, <1>4 DEF StopTail

\* A stop that ends closed has found no thread and no error.
LEMMA VerdictCloses ==
  ASSUME TypeInv, ThreadInv, NEW c \in Callers, StopVerdict(c), closed'
  PROVE  ClosedIsQuiet'
  <1> USE DEF TypeInv, TypeOK, CallerTyped, callVars, captureVars, workerVars
  <1>1. Position(c) /\ pc[c] = "verdict" /\ ~errs[c] /\ ~CapRunning /\ ~PercRunning
    BY DEF StopVerdict, ThreadInv
  <1>2. trackerClosed /\ ctx[c] = "shutdown"
    BY <1>1 DEF Position, Concludes, CleansUp, Tail
  <1>3. c = "main" /\ pc'["main"] = "exited"
    BY <1>2 DEF ThreadInv, OneCaller, StopVerdict, Goto, Callers
  <1>4. ~CapRunning' /\ ~PercRunning'
    BY <1>1 DEF StopVerdict, CapRunning, PercRunning, CapAlive, PercAlive
  <1> QED
    BY <1>2, <1>3, <1>4 DEF StopVerdict, ClosedIsQuiet

LEMMA CallersKeepThreadInv ==
  ASSUME TypeInv, ThreadInv, NEW c \in Callers, CallerStep(c)
  PROVE  ThreadInv'
  <1>1. Referenced' /\ Position(c)'
    BY CaptureStopPosition, PerceptionStopPosition, StartPosition, StopTailPosition DEF CallerStep
  <1>2. /\ pc[c] \in Busy
        /\ \A d \in Callers : d # c => pc'[d] = pc[d]
        /\ \A d \in Callers : ctx'[d] \in {ctx[d], "start", "cleanup"}
        /\ closed' => closed \/ StopVerdict(c)
    BY CallerMoves
  <1>3. /\ ~closed
        /\ \A d \in Callers : d # c => pc[d] \in {"idle", "serving"}
    BY <1>2, CallerAlone
  <1>4. ASSUME NEW d \in Callers, d # c PROVE Position(d)'
    <2>1. pc'[d] \notin Tied
      BY <1>2, <1>3, <1>4 DEF Tied, CStop, PStop, Tail, Clearing, Launching
    <2> QED
      BY <2>1
      DEF Tied, Position, StopsItsThread, FindsRest, Concludes, CleansUp, CStop, PStop, Tail,
                  Clearing, Launching
  <1>5. OneCaller'
    BY <1>2, <1>3 DEF ThreadInv, OneCaller, Busy, Callers, CStop, PStop, Tail, Launching
  <1>6. ClosedIsQuiet'
    BY <1>2, <1>3, VerdictCloses DEF ClosedIsQuiet
  <1> QED
    BY <1>1, <1>4, <1>5, <1>6 DEF ThreadInv

\* A request comes only to a serving process, and a shutdown that overtakes
\* none finds the main thread alone.
LEMMA RequestsKeepThreadInv ==
  ASSUME ~overtaken', TypeInv, ThreadInv, RequestArrives \/ Request \/ ShutdownBegins
  PROVE  ThreadInv'
  <1> USE DEF TypeInv, TypeOK, CallerTyped, Callers, Goto, runtimeVars, captureVars, workerVars,
              callVars
  <1> USE DEF Position, StopsItsThread, FindsRest, Concludes, CleansUp, CaptureRefused,
              WorkerRefused, CStop, PStop, Tail, Clearing, Launching
  <1>0. OneCaller /\ Referenced /\ ClosedIsQuiet /\ Position("main") /\ Position("http")
    BY DEF ThreadInv
  <1>1. CASE RequestArrives
    <2>1. OneCaller' /\ Position("main")' /\ Position("http")'
      BY <1>0, <1>1 DEF RequestArrives, OneCaller, CapRunning, PercRunning, CapAlive, PercAlive
    <2>2. Referenced' /\ ClosedIsQuiet'
      BY <1>0, <1>1
      DEF RequestArrives, OneCaller, Referenced, ClosedIsQuiet, CapRunning, PercRunning, CapAlive,
          PercAlive
    <2> QED
      BY <2>1, <2>2 DEF ThreadInv
  <1>2. CASE SetupAdopts
    <2>1. OneCaller' /\ Position("main")' /\ Position("http")'
      BY <1>0, <1>2 DEF SetupAdopts, OneCaller, CapRunning, PercRunning, CapAlive, PercAlive
    <2>2. Referenced' /\ ClosedIsQuiet'
      BY <1>0, <1>2
      DEF SetupAdopts, OneCaller, Referenced, ClosedIsQuiet, CapRunning, PercRunning, CapAlive,
          PercAlive
    <2> QED
      BY <2>1, <2>2 DEF ThreadInv
  <1>3. CASE SwitchBegins
    <2>1. OneCaller' /\ Position("main")' /\ Position("http")'
      BY <1>0, <1>3 DEF SwitchBegins, OneCaller, CapRunning, PercRunning, CapAlive, PercAlive
    <2>2. Referenced' /\ ClosedIsQuiet'
      BY <1>0, <1>3
      DEF SwitchBegins, OneCaller, Referenced, ClosedIsQuiet, CapRunning, PercRunning, CapAlive,
          PercAlive
    <2> QED
      BY <2>1, <2>2 DEF ThreadInv
  <1>4. CASE SwitchClearsFrames
    <2>1. OneCaller' /\ Position("main")' /\ Position("http")'
      BY <1>0, <1>4 DEF SwitchClearsFrames, OneCaller, CapRunning, PercRunning, CapAlive, PercAlive
    <2>2. Referenced' /\ ClosedIsQuiet'
      BY <1>0, <1>4
      DEF SwitchClearsFrames, OneCaller, Referenced, ClosedIsQuiet, CapRunning, PercRunning,
          CapAlive, PercAlive
    <2> QED
      BY <2>1, <2>2 DEF ThreadInv
  <1>5. CASE SwitchClearsStates
    <2>1. OneCaller' /\ Position("main")' /\ Position("http")'
      BY <1>0, <1>5 DEF SwitchClearsStates, OneCaller, CapRunning, PercRunning, CapAlive, PercAlive
    <2>2. Referenced' /\ ClosedIsQuiet'
      BY <1>0, <1>5
      DEF SwitchClearsStates, OneCaller, Referenced, ClosedIsQuiet, CapRunning, PercRunning,
          CapAlive, PercAlive
    <2> QED
      BY <2>1, <2>2 DEF ThreadInv
  <1>6. CASE SwitchClearsBundles
    <2>1. OneCaller' /\ Position("main")' /\ Position("http")'
      BY <1>0, <1>6 DEF SwitchClearsBundles, OneCaller, CapRunning, PercRunning, CapAlive, PercAlive
    <2>2. Referenced' /\ ClosedIsQuiet'
      BY <1>0, <1>6
      DEF SwitchClearsBundles, OneCaller, Referenced, ClosedIsQuiet, CapRunning, PercRunning,
          CapAlive, PercAlive
    <2> QED
      BY <2>1, <2>2 DEF ThreadInv
  <1>7. CASE SwitchConfigures
    <2>1. OneCaller' /\ Position("main")' /\ Position("http")'
      BY <1>0, <1>7 DEF SwitchConfigures, OneCaller, CapRunning, PercRunning, CapAlive, PercAlive
    <2>2. Referenced' /\ ClosedIsQuiet'
      BY <1>0, <1>7
      DEF SwitchConfigures, OneCaller, Referenced, ClosedIsQuiet, CapRunning, PercRunning, CapAlive,
          PercAlive
    <2> QED
      BY <2>1, <2>2 DEF ThreadInv
  <1>8. CASE RequestApplied
    <2>1. OneCaller' /\ Position("main")' /\ Position("http")'
      BY <1>0, <1>8 DEF RequestApplied, OneCaller, CapRunning, PercRunning, CapAlive, PercAlive
    <2>2. Referenced' /\ ClosedIsQuiet'
      BY <1>0, <1>8
      DEF RequestApplied, OneCaller, Referenced, ClosedIsQuiet, CapRunning, PercRunning, CapAlive,
          PercAlive
    <2> QED
      BY <2>1, <2>2 DEF ThreadInv
  <1>9. CASE RequestFails
    <2>1. OneCaller' /\ Position("main")' /\ Position("http")'
      BY <1>0, <1>9 DEF RequestFails, OneCaller, CapRunning, PercRunning, CapAlive, PercAlive
    <2>2. Referenced' /\ ClosedIsQuiet'
      BY <1>0, <1>9
      DEF RequestFails, OneCaller, Referenced, ClosedIsQuiet, CapRunning, PercRunning, CapAlive,
          PercAlive
    <2> QED
      BY <2>1, <2>2 DEF ThreadInv
  <1>10. CASE ShutdownBegins
    <2>0. ~closed /\ ctx'["main"] = "shutdown" /\ pc["http"] = "idle"
      BY <1>0, <1>10 DEF ShutdownBegins, ClosedIsQuiet
    <2>1. OneCaller' /\ Position("main")' /\ Position("http")'
      BY <1>0, <1>10, <2>0 DEF ShutdownBegins, OneCaller, CapRunning, PercRunning, CapAlive, PercAlive
    <2>2. Referenced' /\ ClosedIsQuiet'
      BY <1>0, <1>10, <2>0
      DEF ShutdownBegins, OneCaller, Referenced, ClosedIsQuiet, CapRunning, PercRunning, CapAlive,
          PercAlive
    <2> QED
      BY <2>1, <2>2 DEF ThreadInv
  <1> QED
    BY <1>1, <1>2, <1>3, <1>4, <1>5, <1>6, <1>7, <1>8, <1>9, <1>10 DEF Request

\* A caller's steps leave what the other caller is doing alone.
LEMMA CallerKeepsOther ==
  ASSUME TypeInv, NEW c \in Callers, CallerStep(c), NEW d \in Callers, d # c
  PROVE  ctx'[d] = ctx[d]
  <1> USE DEF TypeInv, TypeOK, CallerTyped, callVars
  <1>1. CASE CaptureStop(c)
    BY <1>1
    DEF CaptureStop, CStopSets, CStopSnapshots, CStopJoins, CStopJoinRaises, CStopJoinExpires,
        CStopCloses, CStopCloseRaises, CStopJoinExpiresAgain, CStopForgetsThread
  <1>2. CASE PerceptionStop(c)
    BY <1>2
    DEF PerceptionStop, PStopSets, PStopSnapshots, PStopJoins, PStopRaises, PStopForgetsThread
  <1>3. CASE Start(c)
    BY <1>3
    DEF Start, StartChecks, StartOpens, StartOpenFails, StartSpawnsCapture, StartCaptureRefused,
        StartSpawnsWorker,
        StartWorkerRefused, StartSucceeds
  <1>4. CASE StopTail(c)
    BY <1>4 DEF StopTail, TrackerAsks, TrackerCloses, TrackerCloseRaises, StopVerdict
  <1> QED
    BY <1>1, <1>2, <1>3, <1>4 DEF CallerStep

\* What a shutdown has overtaken stays so.
LEMMA OvertakenStays ==
  ASSUME TypeInv, [Next]_vars
  PROVE  overtaken => overtaken'
  <1>1. ASSUME NEW t \in Threads, CaptureLoop(t) \/ ReadReturns(t) PROVE UNCHANGED overtaken
    BY <1>1 DEF CaptureLoop, ReadReturns, CapLeavesLoop, CapBeginsRead, CapReadFails,
       CapReadsFrame, CapPublishes, CapReleases
  <1>2. ASSUME NEW t \in Threads, WorkerLoop(t) \/ WorkGoesStale(t) \/ InferReturns(t)
        PROVE  UNCHANGED overtaken
    BY <1>2 DEF WorkerLoop, InferReturns, WorkLoops, WorkTakes, WorkTimesOut, WorkGoesStale,
       WorkTracks, WorkInfers, WorkMaps, WorkFails, WorkRechecks, WorkPublishesState, WorkRelays,
       WorkPublishesBundle
  <1>3. ASSUME NEW c \in Callers, CallerStep(c) PROVE UNCHANGED overtaken
    BY <1>3, CallerQuiet
  <1>4. CASE RequestArrives \/ Request
    BY <1>4 DEF RequestArrives, Request, SetupAdopts, SwitchBegins, SwitchClearsFrames,
       SwitchClearsStates, SwitchClearsBundles, SwitchConfigures, RequestApplied, RequestFails
  <1>5. CASE ShutdownBegins
    BY <1>5 DEF ShutdownBegins
  <1>6. CASE Exited \/ UNCHANGED vars
    BY <1>6 DEF Exited, vars
  <1> QED
    BY <1>1, <1>2, <1>3, <1>4, <1>5, <1>6 DEF Next

LEMMA ThreadInvariant == Spec => [](~overtaken => ThreadInv)
  <1>1. TypeInv /\ (~overtaken => ThreadInv) /\ [Next]_vars => (~overtaken => ThreadInv)'
    <2> SUFFICES ASSUME TypeInv, ~overtaken => ThreadInv, [Next]_vars, ~overtaken'
                 PROVE  ThreadInv'
      OBVIOUS
    <2>0. ThreadInv
      BY OvertakenStays
    <2>1. ASSUME NEW t \in Threads, CaptureLoop(t) \/ ReadReturns(t) PROVE ThreadInv'
      BY <2>0, <2>1, ThreadsKeepThreadInv
    <2>2. ASSUME NEW t \in Threads, WorkerLoop(t) \/ WorkGoesStale(t) \/ InferReturns(t)
          PROVE  ThreadInv'
      BY <2>0, <2>2, ThreadsKeepThreadInv
    <2>3. ASSUME NEW c \in Callers, CallerStep(c) PROVE ThreadInv'
      BY <2>0, <2>3, CallersKeepThreadInv
    <2>4. CASE RequestArrives \/ Request \/ ShutdownBegins
      BY <2>0, <2>4, RequestsKeepThreadInv
    <2>5. CASE Exited \/ UNCHANGED vars
      BY <2>0, <2>5
      DEF Exited, vars, runtimeVars, captureVars, workerVars, callVars, ThreadInv, OneCaller,
          Referenced, ClosedIsQuiet, Position, StopsItsThread, FindsRest, Concludes, CleansUp,
          CaptureRefused, WorkerRefused, CapRunning, PercRunning, CapAlive, PercAlive
    <2> QED
      BY <2>1, <2>2, <2>3, <2>4, <2>5 DEF Next
  <1> QED
    BY <1>1, InitThreads, TypesInvariant, PTL DEF Spec

\* Until a shutdown overtakes a camera request: at most one live thread of
\* each kind, and none behind a runtime that reports itself closed.
THEOREM NobodyLeftBehind == Spec => []NoThreadLeftBehind
  <1>1. TypeInv /\ (~overtaken => ThreadInv) => NoThreadLeftBehind
    BY OnlyReferenced DEF ThreadInv, Referenced, ClosedIsQuiet, NoThreadLeftBehind
  <1> QED
    BY <1>1, ThreadInvariant, TypesInvariant, PTL

-----------------------------------------------------------------------------
(* What changes only at rest.                                              *)

RestStep ==
  /\ camera' # camera => \A t \in Threads : ~CapAlive(t) /\ ~PercAlive(t)
  /\ trackerClosed' /\ ~trackerClosed => \A t \in Threads : ~PercAlive(t)

\* Only a caller that has found the worker gone closes the tracker.
LEMMA TrackerChanges ==
  ASSUME NEW c \in Callers, CallerStep(c), trackerClosed' # trackerClosed
  PROVE  pc[c] = "close_tracker"
  <1> SUFFICES ASSUME ~TrackerCloses(c) PROVE trackerClosed' = trackerClosed
    BY DEF TrackerCloses
  <1>1. CASE CaptureStop(c)
    BY <1>1
    DEF CaptureStop, CStopSets, CStopSnapshots, CStopJoins, CStopJoinRaises, CStopJoinExpires,
        CStopCloses, CStopCloseRaises, CStopJoinExpiresAgain, CStopForgetsThread
  <1>2. CASE PerceptionStop(c)
    BY <1>2
    DEF PerceptionStop, PStopSets, PStopSnapshots, PStopJoins, PStopRaises, PStopForgetsThread
  <1>3. CASE Start(c)
    BY <1>3
    DEF Start, StartChecks, StartOpens, StartOpenFails, StartSpawnsCapture, StartCaptureRefused,
        StartSpawnsWorker,
        StartWorkerRefused, StartSucceeds
  <1>4. CASE StopTail(c)
    BY <1>4 DEF StopTail, TrackerAsks, TrackerCloseRaises, StopVerdict
  <1> QED
    BY <1>1, <1>2, <1>3, <1>4 DEF CallerStep

\* Only a request at "configure" gives the source another camera.
LEMMA RequestChanges ==
  ASSUME RequestArrives \/ Request \/ ShutdownBegins
  PROVE  /\ camera' # camera => pc["http"] = "configure"
         /\ UNCHANGED trackerClosed
  BY DEF sourceVars, Request, RequestArrives, SetupAdopts, SwitchBegins, SwitchClearsFrames,
     SwitchClearsStates, SwitchClearsBundles, SwitchConfigures, RequestApplied, RequestFails,
     ShutdownBegins

\* Until a shutdown overtakes a camera request, the source is reconfigured and
\* the tracker closed only while the threads that use them are gone.
THEOREM ChangesAtRest == Spec => ChangedAtRest
  <1>1. TypeInv /\ (~overtaken => ThreadInv) /\ [Next]_vars => [~overtaken => RestStep]_vars
    <2> SUFFICES ASSUME TypeInv, ThreadInv, Next PROVE RestStep
      OBVIOUS
    <2>1. ASSUME NEW t \in Threads,
                 CaptureLoop(t) \/ ReadReturns(t) \/ WorkerLoop(t) \/ WorkGoesStale(t) \/ InferReturns(t)
          PROVE  RestStep
      BY <2>1, ThreadsOnlyDie DEF RestStep
    <2>2. ASSUME NEW c \in Callers, CallerStep(c) PROVE RestStep
      <3>1. camera' = camera
        BY <2>2, CallerQuiet
      <3>2. trackerClosed' # trackerClosed => ~PercRunning
        BY <2>2, TrackerChanges DEF ThreadInv, Position, Concludes
      <3> QED
        BY <3>1, <3>2, OnlyReferenced DEF RestStep, ThreadInv, TypeInv, TypeOK, RuntimeTyped
    <2>3. CASE RequestArrives \/ Request \/ ShutdownBegins
      <3>1. camera' # camera => capThread = None /\ percThread = None
        BY <2>3, RequestChanges DEF ThreadInv, Position, FindsRest, Clearing, Callers
      <3> QED
        BY <2>3, <3>1, RequestChanges, OnlyReferenced
        DEF RestStep, ThreadInv, CapRunning, PercRunning
    <2>4. CASE Exited
      BY <2>4 DEF Exited, vars, sourceVars, RestStep
    <2> QED
      BY <2>1, <2>2, <2>3, <2>4 DEF Next
  <1>2. [][~overtaken => RestStep]_vars => ChangedAtRest
    BY PTL DEF RestStep, ChangedAtRest
  <1> QED
    BY <1>1, <1>2, ThreadInvariant, TypesInvariant, PTL DEF Spec

-----------------------------------------------------------------------------
(* The camera's names.                                                     *)

\* A caller never leaves the part of a request behind the configuration.
LEMMA CallerConfigured ==
  ASSUME TypeInv, NEW c \in Callers, CallerStep(c)
  PROVE  /\ Configured' => Configured
         /\ pc'["http"] # "idle" \/ pc["http"] = "idle"
         /\ pc'["http"] \in {"bind", "switch", "idle"} => pc'["http"] = pc["http"]
         /\ pc["http"] \in {"idle", "bind", "fail"} => pc'["http"] = pc["http"]
  <1> USE DEF TypeInv, TypeOK, CallerTyped, Callers, Goto, Configured, CStop, PStop, Tail,
              Launching,
              callVars
  <1>1. CASE CaptureStop(c)
    <2>1. CASE CStopSets(c)
      BY <2>1 DEF CStopSets
    <2>2. CASE CStopSnapshots(c)
      BY <2>2 DEF CStopSnapshots
    <2>3. CASE CStopJoins(c)
      BY <2>3 DEF CStopJoins
    <2>4. CASE CStopJoinExpires(c)
      BY <2>4 DEF CStopJoinExpires
    <2>5. CASE CStopCloses(c)
      BY <2>5 DEF CStopCloses
    <2>6. CASE CStopCloseRaises(c)
      BY <2>6 DEF CStopCloseRaises, CaptureStopReturns, StartReturns, SwitchGoesOn
    <2>7. CASE CStopJoinExpiresAgain(c)
      BY <2>7 DEF CStopJoinExpiresAgain, CaptureStopReturns, StartReturns, SwitchGoesOn
    <2>8. CASE CStopForgetsThread(c)
      BY <2>8 DEF CStopForgetsThread, CaptureStopReturns, StartReturns, SwitchGoesOn
    <2>9. CASE CStopJoinRaises(c)
      BY <2>9 DEF CStopJoinRaises, CaptureStopReturns, StartReturns, SwitchGoesOn
    <2> QED
      BY <1>1, <2>1, <2>2, <2>3, <2>4, <2>5, <2>6, <2>7, <2>8, <2>9 DEF CaptureStop
  <1>2. CASE PerceptionStop(c)
    <2>1. CASE PStopSets(c)
      BY <2>1 DEF PStopSets
    <2>2. CASE PStopSnapshots(c)
      BY <2>2 DEF PStopSnapshots
    <2>3. CASE PStopJoins(c)
      BY <2>3 DEF PStopJoins
    <2>4. CASE PStopRaises(c)
      BY <2>4 DEF PStopRaises, PerceptionStopReturns, SwitchGoesOn
    <2>5. CASE PStopForgetsThread(c)
      BY <2>5 DEF PStopForgetsThread, PerceptionStopReturns, SwitchGoesOn
    <2> QED
      BY <1>2, <2>1, <2>2, <2>3, <2>4, <2>5 DEF PerceptionStop
  <1>3. CASE Start(c)
    <2>1. CASE StartChecks(c)
      BY <2>1 DEF StartChecks, StartReturns
    <2>2. CASE StartOpens(c)
      BY <2>2 DEF StartOpens
    <2>3. CASE StartOpenFails(c)
      BY <2>3 DEF StartOpenFails
    <2>4. CASE StartSpawnsCapture(c)
      BY <2>4 DEF StartSpawnsCapture
    <2>5. CASE StartSpawnsWorker(c)
      BY <2>5 DEF StartSpawnsWorker
    <2>6. CASE StartWorkerRefused(c)
      BY <2>6 DEF StartWorkerRefused
    <2>7. CASE StartSucceeds(c)
      BY <2>7 DEF StartSucceeds, StartReturns
    <2>8. CASE StartCaptureRefused(c)
      BY <2>8 DEF StartCaptureRefused
    <2> QED
      BY <1>3, <2>1, <2>2, <2>3, <2>4, <2>5, <2>6, <2>7, <2>8 DEF Start
  <1>4. CASE StopTail(c)
    <2>1. CASE TrackerAsks(c)
      BY <2>1 DEF TrackerAsks
    <2>2. CASE TrackerCloses(c)
      BY <2>2 DEF TrackerCloses
    <2>3. CASE TrackerCloseRaises(c)
      BY <2>3 DEF TrackerCloseRaises
    <2>4. CASE StopVerdict(c)
      BY <2>4 DEF StopVerdict, StartReturns
    <2> QED
      BY <1>4, <2>1, <2>2, <2>3, <2>4 DEF StopTail
  <1> QED
    BY <1>1, <1>2, <1>3, <1>4 DEF CallerStep

LEMMA InitRequest == Init => RequestInv
  BY DEF Init, RequestInv, Configured, CamerasAgree, Callers, CStop, PStop, Tail, Launching

\* Steps that change no camera name and begin or end no request.
LEMMA QuietRequest ==
  ASSUME RequestInv, UNCHANGED <<camera, setupCam, goal, reply>>,
         Configured' => Configured,
         pc'["http"] = "idle" => pc["http"] = "idle",
         pc["http"] \in {"idle", "bind", "fail"} =>
           pc'["http"] = pc["http"] \/ pc'["http"] \in {"idle", "bind", "fail"}
  PROVE  RequestInv'
  BY DEF RequestInv, CamerasAgree

LEMMA RequestsKeepRequestInv ==
  ASSUME TypeInv, RequestInv, RequestArrives \/ Request \/ ShutdownBegins
  PROVE  RequestInv'
  <1> USE DEF TypeInv, TypeOK, CallerTyped, Callers, Goto, runtimeVars, sourceVars, setupVars,
              requestVars, callVars
  <1> USE DEF RequestInv, Configured, CamerasAgree, CStop, PStop, Tail, Launching
  <1>1. CASE RequestArrives
    BY <1>1 DEF RequestArrives
  <1>2. CASE SetupAdopts
    BY <1>2 DEF SetupAdopts, CameraChange, Outcomes
  <1>3. CASE SwitchBegins
    BY <1>3 DEF SwitchBegins
  <1>4. CASE SwitchClearsFrames
    BY <1>4 DEF SwitchClearsFrames
  <1>5. CASE SwitchClearsStates
    BY <1>5 DEF SwitchClearsStates
  <1>6. CASE SwitchClearsBundles
    BY <1>6 DEF SwitchClearsBundles
  <1>7. CASE SwitchConfigures
    BY <1>7 DEF SwitchConfigures
  <1>8. CASE RequestApplied
    BY <1>8 DEF RequestApplied
  <1>9. CASE RequestFails
    BY <1>9 DEF RequestFails, CameraChange, Outcomes
  <1>10. CASE ShutdownBegins
    BY <1>10 DEF ShutdownBegins
  <1> QED
    BY <1>1, <1>2, <1>3, <1>4, <1>5, <1>6, <1>7, <1>8, <1>9, <1>10 DEF Request

LEMMA RequestInvariant == Spec => []RequestInv
  <1>1. TypeInv /\ RequestInv /\ [Next]_vars => RequestInv'
    <2> SUFFICES ASSUME TypeInv, RequestInv, [Next]_vars PROVE RequestInv'
      OBVIOUS
    <2>1. ASSUME NEW t \in Threads,
                 CaptureLoop(t) \/ ReadReturns(t) \/ WorkerLoop(t) \/ WorkGoesStale(t) \/ InferReturns(t)
          PROVE  RequestInv'
      BY <2>1, ThreadsOnlyDie, QuietRequest DEF setupVars, requestVars, callVars, Configured
    <2>2. ASSUME NEW c \in Callers, CallerStep(c) PROVE RequestInv'
      BY <2>2, CallerQuiet, CallerConfigured, QuietRequest
    <2>3. CASE RequestArrives \/ Request \/ ShutdownBegins
      BY <2>3, RequestsKeepRequestInv
    <2>4. CASE Exited \/ UNCHANGED vars
      BY <2>4
      DEF Exited, vars, sourceVars, setupVars, requestVars, callVars, RequestInv, Configured,
                  CamerasAgree
    <2> QED
      BY <2>1, <2>2, <2>3, <2>4 DEF Next
  <1> QED
    BY <1>1, InitRequest, TypesInvariant, PTL DEF Spec

\* Whatever fails in a camera request, once it is answered the setup
\* controller and the source name the same camera, or the answer says that
\* the recovery failed too.
THEOREM CameraNamesAgree == Spec => []CamerasAgree
  <1>1. RequestInv => CamerasAgree
    BY DEF RequestInv
  <1> QED
    BY <1>1, RequestInvariant, PTL

-----------------------------------------------------------------------------
(* The stores.                                                             *)

LEMMA InitStores == Init => StoreInv
  <1> SUFFICES ASSUME Init PROVE StoreInv
    OBVIOUS
  <1> USE DEF Init, NoLocal
  <1>1. NoLeftovers /\ Current /\ Agreed /\ Emptied
    BY DEF NoLeftovers, Current, OfCamera, Agreed, Emptied, Callers, Launching
  <1>2. CaptureInOrder /\ WorkerInOrder
    BY DEF CaptureInOrder, Callers, WorkerInOrder, Unseen, Working, Handling, Publishing
  <1> QED
    BY <1>1, <1>2 DEF StoreInv

\* A frame in a thread's hands is in those of the thread that runs.
LEMMA OneHolder ==
  ASSUME TypeInv, Referenced, NoLeftovers, NEW t \in Threads, NEW u \in Threads,
         CapAlive(t) /\ capFrame[u] # None
  PROVE  u = t
  BY DEF TypeInv, TypeOK, CaptureTyped, Referenced, NoLeftovers, CapAlive

\* While a thread runs, no request is behind the stops of its switch.
LEMMA NoClearUnderThread ==
  ASSUME TypeInv, ThreadInv, NEW t \in Threads, CapAlive(t) \/ PercAlive(t)
  PROVE  /\ \A c \in Callers : pc[c] \notin Clearing \cup Launching
         /\ PercAlive(t) => \A c \in Callers : pc[c] # "spawn_p"
  BY NoneAssumption DEF ThreadInv, Referenced, Position, FindsRest

\* The capture thread reads frames of the configured camera, in order.
LEMMA CaptureKeepsStores ==
  ASSUME TypeInv, ThreadInv, StoreInv, NEW t \in Threads, CaptureLoop(t) \/ ReadReturns(t)
  PROVE  StoreInv'
  <1> USE DEF TypeInv, TypeOK, CaptureTyped, SourceTyped, StoreTyped, StoreInv, runtimeVars,
              sourceVars,
              captureVars, workerVars, storeVars, callVars
  <1> USE DEF NoLeftovers, Current, OfCamera, Agreed, Emptied, CaptureInOrder, Unseen, WorkerInOrder
  <1>1. CASE CapLeavesLoop(t) \/ CapBeginsRead(t) \/ CapReadFails(t) \/ CapReleases(t)
    BY <1>1 DEF CapLeavesLoop, CapBeginsRead, CapReadFails, CapReleases
  <1>2. CASE CapReadsFrame(t)
    <2>1. /\ capFrame' = [capFrame EXCEPT ![t] = [cam |-> camera, id |-> nextId]]
          /\ capPc' = [capPc EXCEPT ![t] = "publish"] /\ nextId' = nextId + 1 /\ nextId \in Nat
          /\ UNCHANGED <<camera, frames, states, bundles, newest, pc, percPc, work>>
      BY <1>2, VisionAssumption DEF CapReadsFrame
    <2>2. NoLeftovers' /\ Current'
      BY <2>1
    <2>3. Agreed' /\ Emptied'
      BY <2>1
    <2>4. CaptureInOrder'
      BY <2>1, VisionAssumption DEF Frame
    <2>5. WorkerInOrder'
      BY <2>1, VisionAssumption DEF Frame, WorkerTyped, HoldsScene, Scene
    <2> QED
      BY <2>2, <2>3, <2>4, <2>5
  <1>3. CASE CapPublishes(t)
    <2>1. /\ capFrame' = [capFrame EXCEPT ![t] = None] /\ frames' = capFrame[t]
          /\ capPc' = [capPc EXCEPT ![t] = "check"] /\ CapAlive(t)
          /\ UNCHANGED <<camera, nextId, states, bundles, newest, pc, percPc, work>>
      BY <1>3 DEF CapPublishes, CapAlive
    <2>2. NoLeftovers' /\ Current'
      BY <2>1
    <2>3. Agreed' /\ Emptied'
      BY <2>1, NoClearUnderThread DEF Clearing, Callers
    <2>4. \A u \in Threads : capFrame'[u] = None
      BY <2>1, OneHolder DEF ThreadInv
    <2>5. CaptureInOrder'
      BY <2>1, <2>4
    <2>6. WorkerInOrder'
      BY <2>1, <2>4
    <2> QED
      BY <2>2, <2>3, <2>5, <2>6
  <1> QED
    BY <1>1, <1>2, <1>3 DEF CaptureLoop, ReadReturns

\* The other workers have ended or never ran, with nothing in their hands.
LEMMA OneWorker ==
  ASSUME TypeInv, ThreadInv, StoreInv, NEW t \in Threads, PercAlive(t)
  PROVE  \A u \in Threads : u # t =>
            percPc[u] \in {"unborn", "unstarted", "dead"} /\ work[u] = NoLocal
  BY DEF TypeInv, TypeOK, WorkerTyped, ThreadInv, StoreInv, Referenced, NoLeftovers, PercAlive

\* What worker t must show of its new place and locals when it publishes
\* nothing.
WorkerFits(t, label, l) ==
  /\ label \in {"loop", "wait"} \cup Working \/ (label = "dead" /\ l = NoLocal)
  /\ OfCamera(l.last) /\ (l.item # None => OfCamera(l.item.frame))
  /\ label \in Working =>
       /\ l.item.frame.id < nextId
       /\ \A u \in Threads : capFrame[u] # None => l.item.frame.id < capFrame[u].id
  /\ label \in {"loop", "wait"} /\ l.last = None => Unseen(frames)
  /\ l.last # None /\ label \notin Publishing => l.last.id = newest
  /\ label \in Handling => l.item.frame.id > newest
  /\ label = "state" =>
       l.item.frame.id > newest \/ (l.item.frame.id = newest /\ ~l.item.hl)
  /\ label \in Publishing \cup {"state"} /\ l.kind = "stale" =>
       l.last # None /\ l.item.frame = l.last

\* A step of worker t before it publishes.
LEMMA WorkerMoves ==
  ASSUME TypeInv, ThreadInv, StoreInv, NEW t \in Threads, PercAlive(t),
         percPc[t] \notin Publishing, NEW label, NEW l \in Local,
         label \notin Publishing, WorkerFits(t, label, l),
         work' = [work EXCEPT ![t] = l], percPc' = [percPc EXCEPT ![t] = label],
         UNCHANGED <<camera, nextId, capPc, capFrame, frames, states, bundles, newest, pc>>
  PROVE  StoreInv'
  <1>1. \A u \in Threads : /\ work'[u] = IF u = t THEN l ELSE work[u]
                           /\ percPc'[u] = IF u = t THEN label ELSE percPc[u]
    BY DEF TypeInv, TypeOK, WorkerTyped
  <1>2. NoLeftovers'
    BY <1>1 DEF StoreInv, NoLeftovers, WorkerFits, Working
  <1>3. Current'
    BY <1>1 DEF StoreInv, Current, OfCamera, WorkerFits
  <1>4. Agreed' /\ Emptied'
    BY <1>1 DEF StoreInv, Agreed, Emptied, Publishing
  <1>5. CaptureInOrder'
    BY DEF StoreInv, CaptureInOrder, Unseen
  <1>6. WorkerInOrder'
    BY <1>1 DEF StoreInv, WorkerInOrder, WorkerFits, Unseen
  <1> QED
    BY <1>2, <1>3, <1>4, <1>5, <1>6 DEF StoreInv

\* What the invariant says of a running worker.
LEMMA WorkerStands ==
  ASSUME TypeInv, StoreInv, NEW t \in Threads, PercAlive(t)
  PROVE  /\ WorkerFits(t, percPc[t], work[t])
         /\ work[t] \in Local /\ work[t].last \in Frame \cup {None}
         /\ percPc[t] \in Working => /\ work[t].item \in Scene /\ work[t].item # None
                                     /\ work[t].item.frame \in Frame /\ work[t].item.frame # None
                                     /\ work[t].item.hl \in BOOLEAN
  <1> USE DEF TypeInv, TypeOK, WorkerTyped, HoldsScene
  <1>1. /\ work[t] \in Local /\ work[t].last \in Frame \cup {None}
        /\ percPc[t] \in {"loop", "wait"} \cup Working
    BY DEF Local, PercAlive, Working
  <1>2. ASSUME percPc[t] \in Working
        PROVE  /\ work[t].item \in Scene /\ work[t].item # None /\ work[t].item.frame \in Frame
               /\ work[t].item.frame # None /\ work[t].item.hl \in BOOLEAN
    BY <1>2, NoneAssumption DEF Scene
  <1>3. WorkerFits(t, percPc[t], work[t])
    BY <1>1 DEF StoreInv, Current, WorkerInOrder, WorkerFits
  <1> QED
    BY <1>1, <1>2, <1>3

\* What it says of the frame slot and the last publication.
LEMMA StoresStand ==
  ASSUME TypeInv, StoreInv
  PROVE  /\ newest \in Nat /\ nextId \in Nat /\ newest < nextId
         /\ frames \in Frame \cup {None} /\ OfCamera(frames)
         /\ frames # None => frames.id < nextId
         /\ \A u \in Threads : capFrame[u] # None =>
              newest < capFrame[u].id /\ (frames # None => frames.id < capFrame[u].id)
  BY VisionAssumption DEF TypeInv, TypeOK, StoreTyped, SourceTyped, CaptureTyped, StoreInv, Current,
     CaptureInOrder, Frame

\* Up to its publication the worker keeps the order.
LEMMA WorkerBeforePublishing ==
  ASSUME TypeInv, ThreadInv, StoreInv, NEW t \in Threads,
         \/ WorkLoops(t) \/ WorkTakes(t) \/ WorkTimesOut(t) \/ WorkGoesStale(t) \/ WorkTracks(t)
         \/ WorkInfers(t) \/ WorkMaps(t) \/ WorkFails(t) \/ WorkRechecks(t)
  PROVE  StoreInv'
  <1> USE DEF Working, Publishing, Handling, runtimeVars, sourceVars, captureVars, workerVars,
              storeVars, callVars
  <1>0. /\ WorkerTyped /\ PercAlive(t) /\ work = [work EXCEPT ![t] = work[t]]
        /\ percPc[t] \in {"loop", "wait", "track", "infer", "map", "recheck"}
    BY DEF TypeInv, TypeOK, WorkerTyped, PercAlive, WorkLoops, WorkTakes, WorkTimesOut,
       WorkGoesStale,
           WorkTracks, WorkInfers, WorkMaps, WorkFails, WorkRechecks
  <1>00. /\ WorkerFits(t, percPc[t], work[t])
         /\ work[t] \in Local /\ work[t].last \in Frame \cup {None}
         /\ percPc[t] \in Working => /\ work[t].item \in Scene /\ work[t].item # None
                                     /\ work[t].item.frame \in Frame /\ work[t].item.frame # None
                                     /\ work[t].item.hl \in BOOLEAN
    BY <1>0, WorkerStands
  <1>1. CASE WorkLoops(t)
    <2> DEFINE l == IF percStop THEN NoLocal ELSE work[t]
    <2>1. l \in Local
      BY <1>0, <1>00, <1>1, CarryingTypes, StoresStand
      DEF WorkLoops, Newer, GuardOpen, NoLocal, Local
    <2>2. WorkerFits(t, (IF percStop THEN "dead" ELSE "wait"), l)
      BY <1>00, <1>1, StoresStand, NoneAssumption
      DEF WorkLoops, Newer, WorkerFits, Carrying, NoLocal, OfCamera, Unseen, Frame
    <2>3. work' = [work EXCEPT ![t] = l] /\ percPc' = [percPc EXCEPT ![t] = (IF percStop THEN "dead" ELSE "wait")]
      BY <1>0, <1>1 DEF WorkLoops
    <2>4. UNCHANGED <<camera, nextId, capPc, capFrame, frames, states, bundles, newest, pc>>
      BY <1>1 DEF WorkLoops
    <2> HIDE DEF l
    <2> QED
      BY <1>0, <2>1, <2>2, <2>3, <2>4, WorkerMoves
  <1>2. CASE WorkTakes(t)
    <2> DEFINE l == Carrying(t, frames, FALSE, "scene")
    <2>1. l \in Local
      BY <1>0, <1>00, <1>2, CarryingTypes, StoresStand
      DEF WorkTakes, Newer, GuardOpen, NoLocal, Local
    <2>2. WorkerFits(t, "track", l)
      BY <1>00, <1>2, StoresStand, NoneAssumption
      DEF WorkTakes, Newer, WorkerFits, Carrying, NoLocal, OfCamera, Unseen, Frame
    <2>3. work' = [work EXCEPT ![t] = l] /\ percPc' = [percPc EXCEPT ![t] = "track"]
      BY <1>0, <1>2 DEF WorkTakes
    <2>4. UNCHANGED <<camera, nextId, capPc, capFrame, frames, states, bundles, newest, pc>>
      BY <1>2 DEF WorkTakes
    <2> HIDE DEF l
    <2> QED
      BY <1>0, <2>1, <2>2, <2>3, <2>4, WorkerMoves
  <1>3. CASE WorkTimesOut(t)
    <2> DEFINE l == work[t]
    <2>1. l \in Local
      BY <1>0, <1>00, <1>3, CarryingTypes, StoresStand
      DEF WorkTimesOut, Newer, GuardOpen, NoLocal, Local
    <2>2. WorkerFits(t, "loop", l)
      BY <1>00, <1>3, StoresStand, NoneAssumption
      DEF WorkTimesOut, Newer, WorkerFits, Carrying, NoLocal, OfCamera, Unseen, Frame
    <2>3. work' = [work EXCEPT ![t] = l] /\ percPc' = [percPc EXCEPT ![t] = "loop"]
      BY <1>0, <1>3 DEF WorkTimesOut
    <2>4. UNCHANGED <<camera, nextId, capPc, capFrame, frames, states, bundles, newest, pc>>
      BY <1>3 DEF WorkTimesOut
    <2> HIDE DEF l
    <2> QED
      BY <1>0, <2>1, <2>2, <2>3, <2>4, WorkerMoves
  <1>4. CASE WorkGoesStale(t)
    <2> DEFINE l == Carrying(t, work[t].last, FALSE, "stale")
    <2>1. l \in Local
      BY <1>0, <1>00, <1>4, CarryingTypes, StoresStand
      DEF WorkGoesStale, Newer, GuardOpen, NoLocal, Local
    <2>2. WorkerFits(t, "state", l)
      BY <1>00, <1>4, StoresStand, NoneAssumption
      DEF WorkGoesStale, Newer, WorkerFits, Carrying, NoLocal, OfCamera, Unseen, Frame
    <2>3. work' = [work EXCEPT ![t] = l] /\ percPc' = [percPc EXCEPT ![t] = "state"]
      BY <1>0, <1>4 DEF WorkGoesStale
    <2>4. UNCHANGED <<camera, nextId, capPc, capFrame, frames, states, bundles, newest, pc>>
      BY <1>4 DEF WorkGoesStale
    <2> HIDE DEF l
    <2> QED
      BY <1>0, <2>1, <2>2, <2>3, <2>4, WorkerMoves
  <1>5. CASE WorkTracks(t)
    <2> DEFINE l == work[t]
    <2>1. l \in Local
      BY <1>0, <1>00, <1>5, CarryingTypes, StoresStand
      DEF WorkTracks, Newer, GuardOpen, NoLocal, Local
    <2>2. WorkerFits(t, (IF trackerClosed THEN "recheck" ELSE "infer"), l)
      BY <1>00, <1>5, StoresStand, NoneAssumption
      DEF WorkTracks, Newer, WorkerFits, Carrying, NoLocal, OfCamera, Unseen, Frame
    <2>3. work' = [work EXCEPT ![t] = l] /\ percPc' = [percPc EXCEPT ![t] = (IF trackerClosed THEN "recheck" ELSE "infer")]
      BY <1>0, <1>5 DEF WorkTracks
    <2>4. UNCHANGED <<camera, nextId, capPc, capFrame, frames, states, bundles, newest, pc>>
      BY <1>5 DEF WorkTracks
    <2> HIDE DEF l
    <2> QED
      BY <1>0, <2>1, <2>2, <2>3, <2>4, WorkerMoves
  <1>6. CASE WorkInfers(t)
    <2> DEFINE l == work[t]
    <2>1. l \in Local
      BY <1>0, <1>00, <1>6, CarryingTypes, StoresStand
      DEF WorkInfers, Newer, GuardOpen, NoLocal, Local
    <2>2. WorkerFits(t, "map", l)
      BY <1>00, <1>6, StoresStand, NoneAssumption
      DEF WorkInfers, Newer, WorkerFits, Carrying, NoLocal, OfCamera, Unseen, Frame
    <2>3. work' = [work EXCEPT ![t] = l] /\ percPc' = [percPc EXCEPT ![t] = "map"]
      BY <1>0, <1>6 DEF WorkInfers
    <2>4. UNCHANGED <<camera, nextId, capPc, capFrame, frames, states, bundles, newest, pc>>
      BY <1>6 DEF WorkInfers
    <2> HIDE DEF l
    <2> QED
      BY <1>0, <2>1, <2>2, <2>3, <2>4, WorkerMoves
  <1>7. CASE WorkMaps(t)
    <2>0. PICK mapped \in BOOLEAN :
            work' = [work EXCEPT ![t] = Carrying(t, work[t].item.frame, mapped, "scene")]
      BY <1>7 DEF WorkMaps
    <2> DEFINE l == Carrying(t, work[t].item.frame, mapped, "scene")
    <2>1. l \in Local
      BY <1>0, <1>00, <1>7, <2>0, CarryingTypes, StoresStand
      DEF WorkMaps, Newer, GuardOpen, NoLocal, Local
    <2>2. WorkerFits(t, "recheck", l)
      BY <1>00, <1>7, <2>0, StoresStand, NoneAssumption
      DEF WorkMaps, Newer, WorkerFits, Carrying, NoLocal, OfCamera, Unseen, Frame
    <2>3. work' = [work EXCEPT ![t] = l] /\ percPc' = [percPc EXCEPT ![t] = "recheck"]
      BY <1>0, <1>7, <2>0 DEF WorkMaps
    <2>4. UNCHANGED <<camera, nextId, capPc, capFrame, frames, states, bundles, newest, pc>>
      BY <1>7 DEF WorkMaps
    <2> HIDE DEF l
    <2> QED
      BY <1>0, <2>1, <2>2, <2>3, <2>4, WorkerMoves
  <1>8. CASE WorkFails(t)
    <2> DEFINE l == Carrying(t, work[t].item.frame, FALSE, "failed")
    <2>1. l \in Local
      BY <1>0, <1>00, <1>8, CarryingTypes, StoresStand
      DEF WorkFails, Newer, GuardOpen, NoLocal, Local
    <2>2. WorkerFits(t, "state", l)
      BY <1>00, <1>8, StoresStand, NoneAssumption
      DEF WorkFails, Newer, WorkerFits, Carrying, NoLocal, OfCamera, Unseen, Frame
    <2>3. work' = [work EXCEPT ![t] = l] /\ percPc' = [percPc EXCEPT ![t] = "state"]
      BY <1>0, <1>8 DEF WorkFails
    <2>4. UNCHANGED <<camera, nextId, capPc, capFrame, frames, states, bundles, newest, pc>>
      BY <1>8 DEF WorkFails
    <2> HIDE DEF l
    <2> QED
      BY <1>0, <2>1, <2>2, <2>3, <2>4, WorkerMoves
  <1>9. CASE WorkRechecks(t)
    <2> DEFINE l == Carrying(t, work[t].item.frame, work[t].item.hl /\ GuardOpen, "scene")
    <2>1. l \in Local
      BY <1>0, <1>00, <1>9, CarryingTypes, StoresStand
      DEF WorkRechecks, Newer, GuardOpen, NoLocal, Local
    <2>2. WorkerFits(t, "state", l)
      BY <1>00, <1>9, StoresStand, NoneAssumption
      DEF WorkRechecks, Newer, WorkerFits, Carrying, NoLocal, OfCamera, Unseen, Frame
    <2>3. work' = [work EXCEPT ![t] = l] /\ percPc' = [percPc EXCEPT ![t] = "state"]
      BY <1>0, <1>9 DEF WorkRechecks
    <2>4. UNCHANGED <<camera, nextId, capPc, capFrame, frames, states, bundles, newest, pc>>
      BY <1>9 DEF WorkRechecks
    <2> HIDE DEF l
    <2> QED
      BY <1>0, <2>1, <2>2, <2>3, <2>4, WorkerMoves
  <1> QED
    BY <1>1, <1>2, <1>3, <1>4, <1>5, <1>6, <1>7, <1>8, <1>9

\* A publication is the newest one, and the last one makes the stores agree.
LEMMA WorkerPublishing ==
  ASSUME TypeInv, ThreadInv, StoreInv, NEW t \in Threads,
         WorkPublishesState(t) \/ WorkRelays(t) \/ WorkPublishesBundle(t)
  PROVE  StoreInv'
  <1> USE DEF Working, Publishing, Handling, runtimeVars, sourceVars, captureVars, workerVars,
              storeVars, callVars
  <1>0. /\ WorkerTyped /\ PercAlive(t) /\ percPc[t] \in {"state", "relay", "bundle"}
        /\ UNCHANGED <<camera, nextId, capPc, capFrame, frames, pc>>
    BY DEF TypeInv, TypeOK, PercAlive, WorkPublishesState, WorkRelays, WorkPublishesBundle
  <1>1. /\ WorkerFits(t, percPc[t], work[t])
        /\ work[t] \in Local /\ work[t].item \in Scene /\ work[t].item # None
        /\ work[t].item.frame \in Frame /\ work[t].item.frame # None /\ work[t].item.hl \in BOOLEAN
    BY <1>0, WorkerStands
  <1>2. \A u \in Threads : u # t =>
            percPc[u] \in {"unborn", "unstarted", "dead"} /\ work[u] = NoLocal
    BY <1>0, OneWorker
  <1>3. \A c \in Callers : pc[c] \notin Clearing \cup Launching \cup {"spawn_p"}
    BY <1>0, NoClearUnderThread
  <1>4. /\ percPc[t] \in Publishing => states = work[t].item /\ work[t].item.frame.id = newest
        /\ percPc[t] = "relay" /\ work[t].kind # "scene" => bundles = work[t].item
    BY DEF StoreInv, Agreed, WorkerInOrder
  <1>5. PICK l \in Local, label \in {"loop", "relay", "bundle"} :
          /\ work' = [work EXCEPT ![t] = l] /\ percPc' = [percPc EXCEPT ![t] = label]
          /\ states' = work[t].item /\ newest' = work[t].item.frame.id
          /\ label = "loop" => /\ l.item = None /\ l.last = work[t].item.frame
                               /\ bundles' = work[t].item
          /\ label # "loop" => l = work[t]
          /\ label = "relay" /\ l.kind # "scene" => bundles' = work[t].item
          /\ OfCamera(bundles'.frame) \/ bundles' = None
    <2>0. OfCamera(work[t].item.frame) /\ (bundles = None \/ OfCamera(bundles.frame))
      BY <1>1 DEF WorkerFits, StoreInv, Current
    <2>1. /\ Finished(t) \in Local /\ Finished(t).item = None
          /\ percPc[t] \in Publishing => Finished(t).last = work[t].item.frame
      BY <1>1 DEF Finished, Local, WorkerFits
    <2>2. CASE WorkPublishesState(t)
      <3> DEFINE label == AfterState(work[t].kind)
      <3>1. /\ label \in {"relay", "bundle"} /\ (label = "relay" => work[t].kind = "scene")
        BY DEF AfterState
      <3>2. /\ work' = [work EXCEPT ![t] = work[t]] /\ percPc' = [percPc EXCEPT ![t] = label]
            /\ states' = work[t].item /\ newest' = work[t].item.frame.id /\ bundles' = bundles
        BY <1>0, <2>2 DEF WorkPublishesState, WorkerTyped
      <3> QED
        BY <1>1, <2>0, <3>1, <3>2
    <2>3. CASE WorkRelays(t)
      <3> DEFINE label == IF work[t].kind = "scene" THEN "bundle" ELSE "loop"
                 l == IF work[t].kind = "scene" THEN work[t] ELSE Finished(t)
      <3>1. /\ work' = [work EXCEPT ![t] = l] /\ percPc' = [percPc EXCEPT ![t] = label]
            /\ states' = work[t].item /\ newest' = work[t].item.frame.id /\ bundles' = bundles
            /\ percPc[t] = "relay"
        BY <1>0, <2>3 DEF WorkRelays, WorkerTyped
      <3> QED
        BY <1>1, <1>4, <2>0, <2>1, <3>1
    <2>4. CASE WorkPublishesBundle(t)
      <3> DEFINE label == IF work[t].kind = "scene" THEN "loop" ELSE "relay"
                 l == IF work[t].kind = "scene" THEN Finished(t) ELSE work[t]
      <3>1. /\ work' = [work EXCEPT ![t] = l] /\ percPc' = [percPc EXCEPT ![t] = label]
            /\ bundles' = work[t].item /\ states' = states /\ newest' = newest
            /\ percPc[t] = "bundle"
        BY <1>0, <2>4 DEF WorkPublishesBundle, WorkerTyped
      <3> QED
        BY <1>1, <1>4, <2>0, <2>1, <3>1
    <2> QED
      BY <2>2, <2>3, <2>4
  <1>6. \A u \in Threads : /\ work'[u] = IF u = t THEN l ELSE NoLocal
                           /\ percPc'[u] = IF u = t THEN label ELSE percPc[u]
    BY <1>0, <1>2, <1>5 DEF WorkerTyped
  <1>7. NoLeftovers'
    BY <1>0, <1>2, <1>5, <1>6 DEF StoreInv, NoLeftovers
  <1>8. Current'
    BY <1>0, <1>1, <1>5, <1>6 DEF StoreInv, Current, OfCamera, WorkerFits, NoLocal
  <1>9. Agreed' /\ Emptied'
    BY <1>0, <1>2, <1>3, <1>5, <1>6 DEF StoreInv, Agreed, Emptied, Clearing, Callers
  <1>10. CaptureInOrder'
    BY <1>0, <1>1, <1>3, <1>5 DEF StoreInv, CaptureInOrder, WorkerFits
  <1>11. WorkerInOrder'
    BY <1>0, <1>1, <1>2, <1>5, <1>6 DEF WorkerInOrder, WorkerFits, NoLocal
  <1> QED
    BY <1>7, <1>8, <1>9, <1>10, <1>11 DEF StoreInv

LEMMA WorkerKeepsStores ==
  ASSUME TypeInv, ThreadInv, StoreInv, NEW t \in Threads,
         WorkerLoop(t) \/ WorkGoesStale(t) \/ InferReturns(t)
  PROVE  StoreInv'
  BY WorkerBeforePublishing, WorkerPublishing DEF WorkerLoop, InferReturns

\* A caller touches no store.  It spawns what was unborn, and the worker only
\* behind the capture thread.
LEMMA CallerSpawns ==
  ASSUME TypeInv, ThreadInv, NEW c \in Callers, CallerStep(c)
  PROVE  /\ pc'[c] = "spawn_p" => pc[c] = "spawn_c"
         /\ pc'[c] \in Launching => pc[c] \in Launching
         /\ pc[c] \notin Clearing /\ pc'[c] \notin Clearing \ {"clear_frames"}
         /\ \A t \in Threads :
              /\ \/ capPc'[t] = capPc[t]
                 \/ capPc[t] = "unborn" /\ capPc'[t] \in {"check", "unstarted"}
              /\ \/ percPc'[t] = percPc[t]
                 \/ /\ percPc[t] = "unborn" /\ percPc'[t] \in {"loop", "unstarted"}
                    /\ pc[c] = "spawn_p"
  <1> USE DEF Goto, Launching, Clearing, captureVars, workerVars, callVars
  <1>0. pc \in [Callers -> Labels] /\ CaptureTyped /\ WorkerTyped
    BY DEF TypeInv, TypeOK, CallerTyped
  <1> USE DEF CaptureTyped, WorkerTyped
  <1>1. CASE CaptureStop(c)
    <2>1. pc[c] \in CStop /\ UNCHANGED <<capPc, percPc>>
      BY <1>1 DEF CaptureStop, CStopSets, CStopSnapshots, CStopJoins, CStopJoinRaises, CStopJoinExpires,
            CStopCloses, CStopCloseRaises, CStopJoinExpiresAgain, CStopForgetsThread, CStop
    <2>2. ASSUME NEW ok \in BOOLEAN, CaptureStopReturns(c, ok)
          PROVE  pc'[c] \notin Launching \cup Clearing \cup {"spawn_p"}
      BY <1>0, <2>2 DEF CaptureStopReturns, StartReturns
    <2>3. pc'[c] \notin Launching \cup Clearing \cup {"spawn_p"}
      BY <1>0, <1>1, <2>2
      DEF CaptureStop, CStopSets, CStopSnapshots, CStopJoins, CStopJoinRaises, CStopJoinExpires,
            CStopCloses, CStopCloseRaises, CStopJoinExpiresAgain, CStopForgetsThread
    <2> QED
      BY <2>1, <2>3 DEF CStop
  <1>2. CASE PerceptionStop(c)
    <2>1. pc[c] \in PStop /\ UNCHANGED <<capPc, percPc>>
      BY <1>2 DEF PerceptionStop, PStopSets, PStopSnapshots, PStopJoins, PStopRaises,
            PStopForgetsThread, PStop
    <2>2. ASSUME NEW ok \in BOOLEAN, PerceptionStopReturns(c, ok)
          PROVE  pc'[c] \notin Launching \cup (Clearing \ {"clear_frames"}) \cup {"spawn_p"}
      BY <1>0, <2>2 DEF PerceptionStopReturns
    <2>3. pc'[c] \notin Launching \cup (Clearing \ {"clear_frames"}) \cup {"spawn_p"}
      BY <1>0, <1>2, <2>2
      DEF PerceptionStop, PStopSets, PStopSnapshots, PStopJoins, PStopRaises, PStopForgetsThread
    <2> QED
      BY <2>1, <2>3 DEF PStop
  <1>3. CASE StopTail(c)
    BY <1>0, <1>3 DEF StopTail, TrackerAsks, TrackerCloses, TrackerCloseRaises, StopVerdict, StartReturns
  <1>4. CASE StartChecks(c)
    <2>1. capThread = None
      BY <1>4 DEF StartChecks, ThreadInv, Position, FindsRest
    <2> QED
      BY <1>0, <1>4, <2>1 DEF StartChecks, CapRunning, StartReturns
  <1>5. CASE StartOpens(c) \/ StartOpenFails(c) \/ StartSucceeds(c)
    BY <1>0, <1>5 DEF StartOpens, StartOpenFails, StartSucceeds, StartReturns
  <1>6. CASE StartSpawnsCapture(c) \/ StartCaptureRefused(c)
    BY <1>0, <1>6 DEF StartSpawnsCapture, StartCaptureRefused, NextUnborn
  <1>7. CASE StartSpawnsWorker(c) \/ StartWorkerRefused(c)
    BY <1>0, <1>7 DEF StartSpawnsWorker, StartWorkerRefused, NextUnborn
  <1> QED
    BY <1>1, <1>2, <1>3, <1>4, <1>5, <1>6, <1>7 DEF CallerStep, Start

LEMMA CallersKeepStores ==
  ASSUME TypeInv, ThreadInv, StoreInv, NEW c \in Callers, CallerStep(c)
  PROVE  StoreInv'
  <1>1. /\ UNCHANGED <<camera, nextId, frames, capFrame, work, states, bundles, newest>>
        /\ \A d \in Callers : d # c => pc'[d] = pc[d]
    BY CallerQuiet, CallerMoves
  <1>2. /\ pc'[c] = "spawn_p" => pc[c] = "spawn_c"
        /\ pc'[c] \in Launching => pc[c] \in Launching
        /\ pc[c] \notin Clearing /\ pc'[c] \notin Clearing \ {"clear_frames"}
    BY CallerSpawns
  <1>3. \A t \in Threads :
          /\ \/ capPc'[t] = capPc[t]
             \/ capPc[t] = "unborn" /\ capPc'[t] \in {"check", "unstarted"}
          /\ \/ percPc'[t] = percPc[t]
             \/ /\ percPc[t] = "unborn" /\ percPc'[t] \in {"loop", "unstarted"}
                /\ pc[c] = "spawn_p"
    BY CallerSpawns
  <1>4. NoLeftovers' /\ Current'
    BY <1>1, <1>3 DEF StoreInv, NoLeftovers, Current, OfCamera
  <1>5. Agreed' /\ Emptied'
    BY <1>1, <1>2, <1>3 DEF StoreInv, Agreed, Emptied, Clearing, Callers
  <1>6. CaptureInOrder'
    BY <1>1, <1>2 DEF StoreInv, CaptureInOrder, Emptied, Launching, Unseen
  <1>7. WorkerInOrder'
    BY <1>1, <1>3
    DEF StoreInv, NoLeftovers, NoLocal, CaptureInOrder, WorkerInOrder, Unseen, Working, Handling,
       Publishing
  <1> QED
    BY <1>4, <1>5, <1>6, <1>7 DEF StoreInv

\* Behind the stops of a switch no thread holds anything.
LEMMA NothingHeld ==
  ASSUME TypeInv, ThreadInv, StoreInv, pc["http"] \in Clearing
  PROVE  \A t \in Threads : /\ capFrame[t] = None /\ work[t] = NoLocal
                            /\ percPc[t] \in {"unborn", "unstarted", "dead"}
  <1>1. capThread = None /\ percThread = None
    BY DEF ThreadInv, Position, FindsRest, Callers
  <1>2. \A t \in Threads : ~CapAlive(t) /\ ~PercAlive(t)
    BY <1>1, OnlyReferenced DEF ThreadInv, CapRunning, PercRunning
  <1> QED
    BY <1>2 DEF StoreInv, NoLeftovers, CapAlive, PercAlive, TypeInv, TypeOK, WorkerTyped

\* A request's steps that touch no store and stand at no clear.
LEMMA QuietStores ==
  ASSUME StoreInv, UNCHANGED <<camera, nextId, capPc, capFrame, percPc, work, storeVars>>,
         \A c \in Callers : pc'[c] # pc[c] =>
           /\ pc'[c] \notin Launching \cup {"spawn_p"}
           /\ pc'[c] \notin Clearing \ {"clear_frames"} /\ pc[c] # "clear_bundles"
  PROVE  StoreInv'
  <1> USE DEF storeVars, Callers, Clearing
  <1>1. NoLeftovers' /\ Current'
    BY DEF StoreInv, NoLeftovers, Current, OfCamera
  <1>2. Agreed' /\ Emptied'
    BY DEF StoreInv, Agreed, Emptied
  <1>3. CaptureInOrder' /\ WorkerInOrder'
    BY DEF StoreInv, CaptureInOrder, WorkerInOrder, Unseen
  <1> QED
    BY <1>1, <1>2, <1>3 DEF StoreInv

\* A switch clears the three stores before it gives the source another
\* camera.
LEMMA RequestsKeepStores ==
  ASSUME TypeInv, ThreadInv, StoreInv, RequestArrives \/ Request \/ ShutdownBegins
  PROVE  StoreInv'
  <1> USE DEF TypeInv, TypeOK, CallerTyped, Callers, Goto, Clearing, Launching, runtimeVars,
              sourceVars, captureVars, workerVars, storeVars, requestVars, callVars
  <1>1. CASE RequestArrives
    BY <1>1, QuietStores DEF RequestArrives
  <1>2. CASE SetupAdopts
    BY <1>2, QuietStores DEF SetupAdopts
  <1>3. CASE SwitchBegins
    BY <1>3, QuietStores DEF SwitchBegins
  <1>4. CASE RequestApplied
    BY <1>4, QuietStores DEF RequestApplied
  <1>5. CASE RequestFails
    BY <1>5, QuietStores DEF RequestFails
  <1>6. CASE ShutdownBegins
    BY <1>6, QuietStores DEF ShutdownBegins
  <1>7. ASSUME SwitchClearsFrames \/ SwitchClearsStates \/ SwitchClearsBundles \/ SwitchConfigures
        PROVE  StoreInv'
    <2>1. \A t \in Threads : /\ capFrame[t] = None /\ work[t] = NoLocal
                             /\ percPc[t] \in {"unborn", "unstarted", "dead"}
      BY <1>7, NothingHeld
      DEF SwitchClearsFrames, SwitchClearsStates, SwitchClearsBundles, SwitchConfigures
    <2>2. UNCHANGED <<nextId, capPc, capFrame, percPc, work, newest>>
      BY <1>7 DEF SwitchClearsFrames, SwitchClearsStates, SwitchClearsBundles, SwitchConfigures
    <2>3. NoLeftovers'
      BY <2>2 DEF StoreInv, NoLeftovers
    <2>4. WorkerInOrder'
      BY <2>1, <2>2 DEF WorkerInOrder, NoLocal, Working, Handling, Publishing
    <2>5. Agreed /\ Emptied /\ Current /\ CaptureInOrder
      BY DEF StoreInv
    <2>6. CASE SwitchClearsFrames
      BY <2>1, <2>2, <2>3, <2>4, <2>5, <2>6
      DEF SwitchClearsFrames, StoreInv, Current, OfCamera, Agreed,
         Emptied, CaptureInOrder, Unseen
    <2>7. CASE SwitchClearsStates
      BY <2>1, <2>2, <2>3, <2>4, <2>5, <2>7
      DEF SwitchClearsStates, StoreInv, Current, OfCamera, Agreed,
         Emptied, CaptureInOrder, Unseen
    <2>8. CASE SwitchClearsBundles
      BY <2>1, <2>2, <2>3, <2>4, <2>5, <2>8
      DEF SwitchClearsBundles, StoreInv, Current, OfCamera, Agreed,
         Emptied, CaptureInOrder, Unseen
    <2>9. CASE SwitchConfigures
      <3>1. frames = None /\ states = None /\ bundles = None
        BY <2>1, <2>5, <2>9 DEF SwitchConfigures, Agreed, Emptied
      <3>2. UNCHANGED <<frames, states, bundles>> /\ pc'["http"] \in {"fail", "start"}
            /\ pc'["main"] = pc["main"]
        BY <2>9 DEF SwitchConfigures
      <3>3. Current' /\ Agreed' /\ Emptied'
        BY <2>1, <2>2, <3>1, <3>2 DEF Current, OfCamera, Agreed, Emptied, NoLocal
      <3>4. CaptureInOrder'
        BY <2>1, <2>2, <2>5, <3>1, <3>2 DEF CaptureInOrder, Unseen
      <3> QED
        BY <2>3, <2>4, <3>3, <3>4 DEF StoreInv
    <2> QED
      BY <1>7, <2>6, <2>7, <2>8, <2>9
  <1> QED
    BY <1>1, <1>2, <1>3, <1>4, <1>5, <1>6, <1>7 DEF Request

LEMMA StoreInvariant == Spec => [](~overtaken => StoreInv)
  <1>1. TypeInv /\ ThreadInv /\ StoreInv /\ [Next]_vars => StoreInv'
    <2> SUFFICES ASSUME TypeInv, ThreadInv, StoreInv, [Next]_vars PROVE StoreInv'
      OBVIOUS
    <2>1. ASSUME NEW t \in Threads, CaptureLoop(t) \/ ReadReturns(t) PROVE StoreInv'
      BY <2>1, CaptureKeepsStores
    <2>2. ASSUME NEW t \in Threads, WorkerLoop(t) \/ WorkGoesStale(t) \/ InferReturns(t)
          PROVE  StoreInv'
      BY <2>2, WorkerKeepsStores
    <2>3. ASSUME NEW c \in Callers, CallerStep(c) PROVE StoreInv'
      BY <2>3, CallersKeepStores
    <2>4. CASE RequestArrives \/ Request \/ ShutdownBegins
      BY <2>4, RequestsKeepStores
    <2>5. CASE Exited \/ UNCHANGED vars
      <3>1. UNCHANGED vars
        BY <2>5 DEF Exited
      <3> QED
        BY <3>1, QuietStores DEF vars, sourceVars, captureVars, workerVars
    <2> QED
      BY <2>1, <2>2, <2>3, <2>4, <2>5 DEF Next
  <1>2. TypeInv /\ [Next]_vars => (overtaken => overtaken')
    BY OvertakenStays
  <1> QED
    BY <1>1, <1>2, InitStores, ThreadInvariant, TypesInvariant, PTL DEF Spec

LEMMA StoresTell == TypeInv /\ (~overtaken => StoreInv) => StoresAgree
  <1> SUFFICES ASSUME TypeInv, StoreInv PROVE StoresAgree
    BY DEF StoresAgree
  <1>1. /\ states # None => states.frame # None
        /\ bundles # None => bundles.frame # None
    BY NoneAssumption DEF TypeInv, TypeOK, StoreTyped, Scene
  <1> QED
    BY <1>1 DEF StoreInv, Current, OfCamera, Agreed, StoresAgree

\* Until a shutdown overtakes a camera request, the stores hold nothing of a
\* camera the source has left, and tell their consumers the same thing
\* whenever no publication or clear is under way.
THEOREM StoresTellTheSame == Spec => []StoresAgree
  BY StoresTell, StoreInvariant, TypesInvariant, PTL

-----------------------------------------------------------------------------
(* The order of the publications.                                          *)

ForwardStep ==
  states' # states /\ states' # None =>
    \/ states'.frame.id > newest
    \/ states'.frame.id = newest /\ ~states'.hl

LEMMA WorkerGoesForward ==
  ASSUME TypeInv, ThreadInv, StoreInv, NEW t \in Threads,
         WorkerLoop(t) \/ WorkGoesStale(t) \/ InferReturns(t)
  PROVE  ForwardStep
  <1> USE DEF ForwardStep, storeVars
  <1>1. CASE WorkPublishesState(t)
    BY <1>1 DEF WorkPublishesState, StoreInv, WorkerInOrder
  <1>2. CASE WorkRelays(t)
    BY <1>2 DEF WorkRelays, StoreInv, Agreed
  <1>3. ASSUME ~WorkPublishesState(t), ~WorkRelays(t) PROVE states' = states
    BY <1>3
    DEF WorkerLoop, InferReturns, WorkLoops, WorkTakes, WorkTimesOut, WorkGoesStale, WorkTracks,
       WorkInfers, WorkMaps, WorkFails, WorkRechecks, WorkPublishesBundle
  <1> QED
    BY <1>1, <1>2, <1>3

\* Across switches, stale frames and failures, and until a shutdown overtakes
\* a camera request, what is published is newer than everything published
\* before, or goes dark on the newest frame.
THEOREM PublicationsGoForward == Spec => PublishedNeverGoesBack
  <1>1. /\ TypeInv /\ (~overtaken => ThreadInv) /\ (~overtaken => StoreInv)
        /\ [Next]_vars
        => [~overtaken => ForwardStep]_vars
    <2> SUFFICES ASSUME TypeInv, ThreadInv, StoreInv, Next PROVE ForwardStep
      OBVIOUS
    <2>1. ASSUME NEW t \in Threads, CaptureLoop(t) \/ ReadReturns(t) PROVE states' = states
      BY <2>1 DEF storeVars, CaptureLoop, ReadReturns, CapLeavesLoop, CapBeginsRead, CapReadFails,
         CapReadsFrame, CapPublishes, CapReleases
    <2>2. ASSUME NEW t \in Threads, WorkerLoop(t) \/ WorkGoesStale(t) \/ InferReturns(t)
          PROVE  ForwardStep
      BY <2>2, WorkerGoesForward
    <2>3. ASSUME NEW c \in Callers, CallerStep(c) PROVE states' = states
      BY <2>3, CallerQuiet
    <2>4. ASSUME RequestArrives \/ Request \/ ShutdownBegins PROVE states' \in {states, None}
      BY <2>4 DEF storeVars, RequestArrives, Request, ShutdownBegins, SetupAdopts, SwitchBegins,
         SwitchClearsFrames, SwitchClearsStates, SwitchClearsBundles, SwitchConfigures, RequestApplied,
         RequestFails
    <2>5. CASE Exited
      BY <2>5 DEF Exited, vars, storeVars, ForwardStep
    <2> QED
      BY <2>1, <2>2, <2>3, <2>4, <2>5 DEF Next, ForwardStep
  <1>2. [][~overtaken => ForwardStep]_vars => PublishedNeverGoesBack
    BY PTL DEF ForwardStep, PublishedNeverGoesBack
  <1> QED
    BY <1>1, <1>2, StoreInvariant, ThreadInvariant, TypesInvariant, PTL DEF Spec

-----------------------------------------------------------------------------
(* Every call comes to its end in a bounded number of steps of its own.    *)

\* A device is opened, and threads are started, only by a start.
LaunchInv ==
  \A c \in Callers : pc[c] \in {"open", "spawn_c", "spawn_p", "started"} => ctx[c] = "start"

Nearer(c) == StepsLeft(pc'[c], ctx'[c]) < StepsLeft(pc[c], ctx[c])

LEMMA CaptureStopAdvances ==
  ASSUME TypeInv, NEW c \in Callers, CaptureStop(c)
  PROVE  Nearer(c)
  <1> USE DEF TypeInv, TypeOK, CallerTyped, Goto, callVars, Nearer, StepsLeft, StopLeft,
              CaptureStage
  <1>1. CASE CStopSets(c) \/ CStopSnapshots(c)
    BY <1>1 DEF CStopSets, CStopSnapshots
  <1>2. CASE CStopJoins(c) \/ CStopJoinExpires(c) \/ CStopCloses(c)
    BY <1>2 DEF CStopJoins, CStopJoinExpires, CStopCloses
  <1>3. ASSUME NEW ok \in BOOLEAN, pc[c] \in {"c_join", "c_close", "c_join2", "c_done"},
               CaptureStopReturns(c, ok), UNCHANGED ctx
        PROVE  Nearer(c)
    BY <1>3 DEF CaptureStopReturns, StartReturns, WorkerStage, TailStage, CallLeft
  <1>4. CASE CStopJoinRaises(c) \/ CStopCloseRaises(c)
    BY <1>3, <1>4 DEF CStopJoinRaises, CStopCloseRaises
  <1>5. CASE CStopJoinExpiresAgain(c) \/ CStopForgetsThread(c)
    BY <1>3, <1>5 DEF CStopJoinExpiresAgain, CStopForgetsThread
  <1> QED
    BY <1>1, <1>2, <1>4, <1>5 DEF CaptureStop

LEMMA PerceptionStopAdvances ==
  ASSUME TypeInv, NEW c \in Callers, PerceptionStop(c)
  PROVE  Nearer(c)
  <1> USE DEF TypeInv, TypeOK, CallerTyped, Goto, callVars, Nearer, StepsLeft, StopLeft,
              WorkerStage
  <1>1. CASE PStopSets(c) \/ PStopSnapshots(c) \/ PStopJoins(c)
    BY <1>1 DEF PStopSets, PStopSnapshots, PStopJoins
  <1>2. ASSUME NEW ok \in BOOLEAN, pc[c] \in {"p_join", "p_done"},
               PerceptionStopReturns(c, ok), UNCHANGED ctx
        PROVE  Nearer(c)
    BY <1>2 DEF PerceptionStopReturns, CaptureStage, TailStage, CallLeft
  <1>3. CASE PStopRaises(c) \/ PStopForgetsThread(c)
    BY <1>2, <1>3 DEF PStopRaises, PStopForgetsThread
  <1> QED
    BY <1>1, <1>3 DEF PerceptionStop

LEMMA StartAdvances ==
  ASSUME TypeInv, LaunchInv, NEW c \in Callers, Start(c)
  PROVE  Nearer(c)
  <1> USE DEF TypeInv, TypeOK, CallerTyped, Goto, callVars, Nearer, StepsLeft, CallLeft
  <1>1. CASE StartChecks(c)
    BY <1>1 DEF StartChecks, StartReturns
  <1>2. CASE StartOpens(c) \/ StartSpawnsCapture(c) \/ StartSpawnsWorker(c)
    BY <1>2 DEF StartOpens, StartSpawnsCapture, StartSpawnsWorker
  <1>3. CASE StartOpenFails(c)
    BY <1>3 DEF StartOpenFails, LaunchInv, CaptureStage, StopLeft
  <1>4. CASE StartCaptureRefused(c) \/ StartWorkerRefused(c)
    BY <1>4 DEF StartCaptureRefused, StartWorkerRefused, WorkerStage, StopLeft
  <1>5. CASE StartSucceeds(c)
    BY <1>5 DEF StartSucceeds, StartReturns
  <1> QED
    BY <1>1, <1>2, <1>3, <1>4, <1>5 DEF Start

LEMMA StopTailAdvances ==
  ASSUME TypeInv, NEW c \in Callers, StopTail(c)
  PROVE  Nearer(c)
  <1> USE DEF TypeInv, TypeOK, CallerTyped, Goto, callVars, Nearer, StepsLeft, StopLeft, TailStage
  <1>1. CASE TrackerAsks(c) \/ TrackerCloses(c) \/ TrackerCloseRaises(c)
    BY <1>1 DEF TrackerAsks, TrackerCloses, TrackerCloseRaises
  <1>2. CASE StopVerdict(c)
    BY <1>2 DEF StopVerdict, StartReturns, CallLeft
  <1> QED
    BY <1>1, <1>2 DEF StopTail

\* A request's own steps, and the beginning of a shutdown.
LEMMA RequestAdvances ==
  ASSUME TypeInv, NEW c \in Callers, RequestArrives \/ Request \/ ShutdownBegins
  PROVE  pc[c] # "idle" /\ pc'[c] # pc[c] => Nearer(c)
  <1> USE DEF TypeInv, TypeOK, CallerTyped, Callers, Goto, callVars, Nearer, StepsLeft, CallLeft
  <1>1. CASE RequestArrives \/ SetupAdopts \/ RequestApplied \/ RequestFails
    BY <1>1 DEF RequestArrives, SetupAdopts, RequestApplied, RequestFails
  <1>2. CASE SwitchBegins \/ ShutdownBegins
    BY <1>2 DEF SwitchBegins, ShutdownBegins, CaptureStage, StopLeft
  <1>3. CASE SwitchClearsFrames \/ SwitchClearsStates \/ SwitchClearsBundles \/ SwitchConfigures
    BY <1>3 DEF SwitchClearsFrames, SwitchClearsStates, SwitchClearsBundles, SwitchConfigures
  <1> QED
    BY <1>1, <1>2, <1>3 DEF Request

LEMMA LaunchStep ==
  ASSUME TypeInv, LaunchInv, [Next]_vars
  PROVE  LaunchInv'
  <1> USE DEF LaunchInv
  <1>1. ASSUME NEW t \in Threads,
               CaptureLoop(t) \/ ReadReturns(t) \/ WorkerLoop(t) \/ WorkGoesStale(t) \/ InferReturns(t)
        PROVE  LaunchInv'
    BY <1>1, ThreadsOnlyDie DEF callVars
  <1>2. ASSUME NEW c \in Callers, CallerStep(c) PROVE LaunchInv'
    <2> USE DEF TypeInv, TypeOK, CallerTyped, Goto, callVars
    <2>1. \A d \in Callers : d # c => pc'[d] = pc[d] /\ ctx'[d] = ctx[d]
      BY <1>2, CallerMoves, CallerKeepsOther
    <2>2. CASE CaptureStop(c)
      <3>1. pc'[c] \notin {"open", "spawn_c", "spawn_p", "started"}
        BY <2>2
        DEF CaptureStop, CStopSets, CStopSnapshots, CStopJoins, CStopJoinRaises, CStopJoinExpires,
            CStopCloses, CStopCloseRaises, CStopJoinExpiresAgain, CStopForgetsThread, CaptureStopReturns,
            StartReturns
      <3> QED
        BY <2>1, <3>1
    <2>3. CASE PerceptionStop(c)
      <3>1. pc'[c] \notin {"open", "spawn_c", "spawn_p", "started"}
        BY <2>3
        DEF PerceptionStop, PStopSets, PStopSnapshots, PStopJoins, PStopRaises, PStopForgetsThread,
            PerceptionStopReturns
      <3> QED
        BY <2>1, <3>1
    <2>4. CASE Start(c)
      <3>1. pc'[c] \in {"open", "spawn_c", "spawn_p", "started"} => ctx'[c] = "start"
        BY <2>4
        DEF Start, StartChecks, StartOpens, StartOpenFails, StartSpawnsCapture, StartCaptureRefused,
        StartSpawnsWorker,
            StartWorkerRefused, StartSucceeds, StartReturns
      <3> QED
        BY <2>1, <3>1
    <2>5. CASE StopTail(c)
      <3>1. pc'[c] \notin {"open", "spawn_c", "spawn_p", "started"}
        BY <2>5
        DEF StopTail, TrackerAsks, TrackerCloses, TrackerCloseRaises, StopVerdict, StartReturns
      <3> QED
        BY <2>1, <3>1
    <2> QED
      BY <1>2, <2>2, <2>3, <2>4, <2>5 DEF CallerStep
  <1>3. CASE RequestArrives \/ Request \/ ShutdownBegins
    <2>1. ASSUME NEW c \in Callers
          PROVE  \/ pc'[c] = pc[c] /\ ctx'[c] = ctx[c]
                 \/ pc'[c] \notin {"open", "spawn_c", "spawn_p", "started"}
      BY <1>3
      DEF TypeInv, TypeOK, CallerTyped, Callers, Goto, callVars, Request, RequestArrives,
          SetupAdopts, SwitchBegins, SwitchClearsFrames, SwitchClearsStates, SwitchClearsBundles,
          SwitchConfigures, RequestApplied, RequestFails, ShutdownBegins
    <2> QED
      BY <2>1
  <1>4. CASE Exited \/ UNCHANGED vars
    BY <1>4 DEF Exited, vars, callVars
  <1> QED
    BY <1>1, <1>2, <1>3, <1>4 DEF Next

LEMMA LaunchInvariant == Spec => []LaunchInv
  <1>1. Init => LaunchInv
    BY DEF Init, LaunchInv, Callers
  <1> QED
    BY <1>1, LaunchStep, TypesInvariant, PTL DEF Spec

AdvanceStep ==
  \A c \in Callers : pc[c] # "idle" /\ pc'[c] # pc[c] => Nearer(c)

\* Starts, stops, switches and requests repeat nothing, whatever fails and
\* whether or not a shutdown overtakes a request: what a caller has before it
\* only gets less.
THEOREM CallsEndInBoundedSteps == Spec => CallsAdvance
  <1>1. TypeInv /\ LaunchInv /\ [Next]_vars => [AdvanceStep]_vars
    <2> SUFFICES ASSUME TypeInv, LaunchInv, Next PROVE AdvanceStep
      OBVIOUS
    <2>1. ASSUME NEW t \in Threads,
                 CaptureLoop(t) \/ ReadReturns(t) \/ WorkerLoop(t) \/ WorkGoesStale(t)
                   \/ InferReturns(t)
          PROVE  AdvanceStep
      BY <2>1, ThreadsOnlyDie DEF AdvanceStep
    <2>2. ASSUME NEW c \in Callers, CallerStep(c) PROVE AdvanceStep
      <3>1. Nearer(c)
        BY <2>2, CaptureStopAdvances, PerceptionStopAdvances, StartAdvances, StopTailAdvances
        DEF CallerStep
      <3>2. \A d \in Callers : d # c => pc'[d] = pc[d]
        BY <2>2, CallerMoves
      <3> QED
        BY <3>1, <3>2 DEF AdvanceStep
    <2>3. CASE RequestArrives \/ Request \/ ShutdownBegins
      BY <2>3, RequestAdvances DEF AdvanceStep
    <2>4. CASE Exited
      BY <2>4 DEF Exited, vars, AdvanceStep
    <2> QED
      BY <2>1, <2>2, <2>3, <2>4 DEF Next
  <1>2. [][AdvanceStep]_vars => CallsAdvance
    BY PTL DEF AdvanceStep, Nearer, CallsAdvance
  <1> QED
    BY <1>1, <1>2, LaunchInvariant, TypesInvariant, PTL DEF Spec

-----------------------------------------------------------------------------
(* The refinement: the runtime is a LiveView.                              *)

\* What a LiveView consists of.
Seen == <<camera, states, bundles, newest, closed, overtaken>>

\* A thread at work means that the runtime has not reported its end.
LEMMA WorkersBeforeTheEnd ==
  ASSUME TypeInv, ThreadInv, NEW t \in Threads, PercAlive(t)
  PROVE  ~closed
  BY OnlyReferenced DEF ThreadInv, ClosedIsQuiet

\* So does a request that is clearing the stores.
LEMMA ClearingBeforeTheEnd ==
  ASSUME ThreadInv, pc["http"] # "idle"
  PROVE  ~closed
  BY DEF ThreadInv, OneCaller, ClosedIsQuiet

\* A worker's step shows a scene, lets the bundle store follow, or shows
\* nothing new.
LEMMA WorkerShows ==
  ASSUME TypeInv, ThreadInv, StoreInv, HighlightsOnlyCalibrated', NEW t \in Threads,
         WorkerLoop(t) \/ WorkGoesStale(t) \/ InferReturns(t)
  PROVE  (\E scene \in Scene : Live!Show(scene)) \/ Live!Follow \/ UNCHANGED Seen
  <1>1. CASE WorkPublishesState(t)
    <2> DEFINE scene == work[t].item
    <2>1. ~closed
      BY <1>1, WorkersBeforeTheEnd DEF WorkPublishesState, PercAlive
    <2>2. scene \in Scene /\ scene # None
      BY <1>1, NoneAssumption DEF TypeInv, HoldsScene, Working, WorkPublishesState
    <2>3. /\ states' = scene /\ newest' = scene.frame.id
          /\ UNCHANGED <<camera, bundles, closed, overtaken>>
      BY <1>1 DEF WorkPublishesState, runtimeVars, sourceVars
    <2>4. scene.frame \in Frame
      BY <2>2 DEF Scene
    <2>5. scene.frame.cam = camera
      BY <2>2, <2>4, NoneAssumption DEF StoreInv, Current, OfCamera
    <2>6. scene.hl => camera = CalibCamera
      BY <2>2, <2>3, <2>5 DEF HighlightsOnlyCalibrated, Lit
    <2>7. scene.frame.id > newest \/ (scene.frame.id = newest /\ ~scene.hl)
      BY <1>1 DEF StoreInv, WorkerInOrder, WorkPublishesState
    <2> HIDE DEF scene
    <2>8. Live!Show(scene)
      BY <2>1, <2>3, <2>5, <2>6, <2>7 DEF Live!Show
    <2> QED
      BY <2>2, <2>8
  <1>2. CASE WorkRelays(t)
    <2>1. work[t].item = states /\ work[t].item.frame.id = newest
      BY <1>2 DEF WorkRelays, StoreInv, Agreed, WorkerInOrder, Publishing
    <2> QED
      BY <1>2, <2>1 DEF WorkRelays, Seen, runtimeVars, sourceVars
  <1>3. CASE WorkPublishesBundle(t)
    <2>1. ~closed
      BY <1>3, WorkersBeforeTheEnd DEF WorkPublishesBundle, PercAlive
    <2>2. bundles' = states
      BY <1>3 DEF WorkPublishesBundle, StoreInv, Agreed
    <2>3. UNCHANGED <<camera, states, newest, closed, overtaken>>
      BY <1>3 DEF WorkPublishesBundle, runtimeVars, sourceVars
    <2> QED
      BY <2>1, <2>2, <2>3 DEF Live!Follow
  <1>4. ASSUME ~WorkPublishesState(t), ~WorkRelays(t), ~WorkPublishesBundle(t)
        PROVE  UNCHANGED Seen
    BY <1>4
    DEF WorkerLoop, InferReturns, WorkLoops, WorkTakes, WorkTimesOut, WorkGoesStale, WorkTracks,
        WorkInfers, WorkMaps, WorkFails, WorkRechecks, Seen, runtimeVars, sourceVars, storeVars
  <1> QED
    BY <1>1, <1>2, <1>3, <1>4

\* A caller shows nothing; the one that reports the end finds the stores in
\* agreement.
LEMMA CallerCloses ==
  ASSUME TypeInv, TypeInv', ThreadInv, StoreInv, NEW c \in Callers, CallerStep(c)
  PROVE  Live!Close \/ UNCHANGED Seen
  <1>1. UNCHANGED <<camera, states, bundles, newest, overtaken>>
    BY CallerQuiet
  <1>2. ~closed /\ \A d \in Callers : d # c => pc[d] \in {"idle", "serving"}
    BY CallerMoves, CallerAlone
  <1>3. CASE ~closed'
    BY <1>1, <1>2, <1>3 DEF Seen, TypeInv, TypeOK, RuntimeTyped
  <1>4. CASE closed'
    <2>1. StopVerdict(c)
      BY <1>2, <1>4, CallerMoves
    <2>2. pc[c] = "verdict" /\ ~PercRunning /\ closed' = TRUE
      BY <1>4, <2>1 DEF StopVerdict, TypeInv, TypeOK, RuntimeTyped
    <2>3. \A t \in Threads : percPc[t] \notin {"relay", "bundle"}
      BY <2>2, OnlyReferenced DEF ThreadInv, PercAlive
    <2>4. pc["http"] # "clear_bundles"
      BY <1>2, <2>2 DEF Callers
    <2>5. states = bundles
      BY <2>3, <2>4 DEF StoreInv, Agreed
    <2> QED
      BY <1>1, <1>2, <2>2, <2>5 DEF Live!Close
  <1> QED
    BY <1>3, <1>4

\* A switch empties the stores one after the other and changes the camera
\* behind both.
LEMMA RequestShows ==
  ASSUME TypeInv, TypeInv', ThreadInv, StoreInv, ~overtaken,
         RequestArrives \/ Request \/ ShutdownBegins
  PROVE  Live!Empty \/ Live!Follow \/ Live!Switch \/ Live!Overtake \/ UNCHANGED Seen
  <1> USE DEF runtimeVars, sourceVars, storeVars
  <1>1. CASE SwitchClearsStates
    <2>1. ~closed
      BY <1>1, ClearingBeforeTheEnd DEF SwitchClearsStates
    <2> QED
      BY <1>1, <2>1 DEF SwitchClearsStates, Live!Empty
  <1>2. CASE SwitchClearsBundles
    <2>1. ~closed
      BY <1>2, ClearingBeforeTheEnd DEF SwitchClearsBundles
    <2>2. states = None
      BY <1>2 DEF SwitchClearsBundles, StoreInv, Emptied
    <2> QED
      BY <1>2, <2>1, <2>2 DEF SwitchClearsBundles, Live!Follow
  <1>3. CASE SwitchConfigures
    <2>1. ~closed
      BY <1>3, ClearingBeforeTheEnd DEF SwitchConfigures
    <2>2. states = None
      BY <1>3 DEF SwitchConfigures, StoreInv, Emptied
    <2>3. \A t \in Threads : percPc[t] \in {"unborn", "unstarted", "dead"}
      BY <1>3, NothingHeld DEF SwitchConfigures, Clearing
    <2>4. bundles = None
      BY <1>3, <2>2, <2>3 DEF SwitchConfigures, StoreInv, Agreed
    <2>5. camera' \in Cameras
      BY DEF TypeInv, TypeOK, SourceTyped
    <2> QED
      BY <1>3, <2>1, <2>2, <2>4, <2>5 DEF SwitchConfigures, Live!Switch
  <1>4. CASE ShutdownBegins
    <2>1. UNCHANGED <<camera, states, bundles, newest, closed>>
      BY <1>4 DEF ShutdownBegins
    <2>2. overtaken' => ~closed
      BY <1>4 DEF ShutdownBegins
    <2>3. overtaken \in BOOLEAN /\ overtaken' \in BOOLEAN
      BY Zenon DEF TypeInv, TypeOK, CallerTyped
    <2> QED
      BY <2>1, <2>2, <2>3 DEF Live!Overtake, Seen
  <1>5. ASSUME ~SwitchClearsStates, ~SwitchClearsBundles, ~SwitchConfigures, ~ShutdownBegins
        PROVE  UNCHANGED Seen
    BY <1>5
    DEF Seen, RequestArrives, Request, SetupAdopts, SwitchBegins, SwitchClearsFrames,
        RequestApplied, RequestFails
  <1> QED
    BY <1>1, <1>2, <1>3, <1>4, <1>5

\* Once a shutdown has overtaken a request, all that is promised is that what
\* is lit is of the calibrated camera.
LEMMA Scrambles ==
  ASSUME TypeInv', HighlightsOnlyCalibrated', overtaken, overtaken'
  PROVE  Live!Scramble
  <1>1. /\ camera' \in Cameras /\ newest' \in Nat
        /\ states' \in Scene \cup {None} /\ bundles' \in Scene \cup {None}
    BY DEF TypeInv, TypeOK, SourceTyped, StoreTyped
  <1>2. closed' \in BOOLEAN /\ overtaken' = TRUE
    BY Zenon DEF TypeInv, TypeOK, RuntimeTyped, CallerTyped
  <1>3. Live!LitByRight(states)' /\ Live!LitByRight(bundles)'
    BY DEF HighlightsOnlyCalibrated, Lit, Live!LitByRight
  <1> QED
    BY <1>1, <1>2, <1>3 DEF Live!Scramble

\* The runtime with its threads, stores and switches implements LiveView: it
\* starts as one, and every step is a step of it or shows nothing new.
THEOREM RuntimeImplementsLiveView == Spec => ViewIsLive
  <1>1. Init => Live!Init
    BY DEF Init, Live!Init
  <1>2. /\ TypeInv /\ TypeInv' /\ HighlightsOnlyCalibrated'
        /\ (~overtaken => ThreadInv) /\ (~overtaken => StoreInv)
        /\ [Next]_vars
        => [Live!Next]_Live!vars
    <2> SUFFICES ASSUME TypeInv, TypeInv', ThreadInv, StoreInv, HighlightsOnlyCalibrated',
                        ~overtaken, [Next]_vars
                 PROVE  Live!Next \/ UNCHANGED Seen
      BY OvertakenStays, Scrambles DEF Live!vars, Live!Next, Seen
    <2>1. ASSUME NEW t \in Threads, CaptureLoop(t) \/ ReadReturns(t) PROVE UNCHANGED Seen
      BY <2>1
      DEF Seen, CaptureLoop, ReadReturns, CapLeavesLoop, CapBeginsRead, CapReadFails, CapReadsFrame,
          CapPublishes, CapReleases, runtimeVars, sourceVars, storeVars
    <2>2. ASSUME NEW t \in Threads, WorkerLoop(t) \/ WorkGoesStale(t) \/ InferReturns(t)
          PROVE  Live!Next \/ UNCHANGED Seen
      BY <2>2, WorkerShows DEF Live!Next
    <2>3. ASSUME NEW c \in Callers, CallerStep(c) PROVE Live!Next \/ UNCHANGED Seen
      BY <2>3, CallerCloses DEF Live!Next
    <2>4. CASE RequestArrives \/ Request \/ ShutdownBegins
      BY <2>4, RequestShows DEF Live!Next
    <2>5. CASE Exited \/ UNCHANGED vars
      BY <2>5 DEF Exited, vars, runtimeVars, sourceVars, storeVars, Seen
    <2> QED
      BY <2>1, <2>2, <2>3, <2>4, <2>5 DEF Next
  <1> QED
    BY <1>1, <1>2, HighlightsCalibrated, StoreInvariant, ThreadInvariant, TypesInvariant, PTL
    DEF Spec, ViewIsLive, Live!Spec

==============================================================================
