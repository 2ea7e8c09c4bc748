--------------------------- MODULE VisionRuntime ---------------------------
(***************************************************************************)
(* The live half of MikoType: one camera source, the capture thread, the   *)
(* perception worker, the three one-slot stores between them and their     *)
(* consumers, and the two callers that start, switch and stop them -- the  *)
(* process main thread and the HTTP worker thread that serves a camera     *)
(* request (RuntimeCameraSession over DeskVisionRuntime).                  *)
(*                                                                         *)
(* Every thread has a program counter.  A step is the code between two     *)
(* accesses to state that another thread can read or write.  A thread      *)
(* object is an element of Threads; a start spawns the next unborn one.    *)
(***************************************************************************)
EXTENDS Naturals

CONSTANTS
  Cameras,      \* camera configurations a request may ask for
  BootCamera,   \* the configuration the process starts with
  CalibCamera,  \* the configuration the loaded calibration was built for
  MaxSwitches,  \* bound: camera requests in a behaviour
  MaxFrames,    \* bound: successful reads in a behaviour
  MaxOvertakes, \* bound: how many of the requests, first ones first, a shutdown may overtake
  SlowCalls,    \* backend calls that may outlast a join deadline
  None

ASSUME VisionAssumption ==
  /\ BootCamera \in Cameras /\ CalibCamera \in Cameras
  /\ MaxSwitches \in Nat /\ MaxFrames \in Nat /\ MaxOvertakes \in Nat
  /\ SlowCalls \subseteq {"read", "infer"}
  /\ None \notin Cameras

VARIABLES
  status, started, closed,                 \* DeskVisionRuntime
  camera, sourceOpen, nextId,              \* OpenCVCameraSource
  capStop, capThread, capPc, capFrame,     \* CaptureThread
  percStop, percThread, percPc, work,      \* LatestFramePerceptionWorker
  trackerClosed,                           \* ProductionMappingPipeline
  frames, states, bundles,                 \* the one-slot stores
  setupCam, block,                         \* KeyboardSetupController
  goal, saved, reply, switches,            \* RuntimeCameraSession
  pc, ctx, snapCap, snapPerc, errs,        \* the callers' locals
  newest,                                  \* history: last published frame id
  overtaken                                \* history: stop() began beside a request

runtimeVars == <<status, started, closed>>
sourceVars  == <<camera, sourceOpen, nextId>>
captureVars == <<capStop, capThread, capPc, capFrame>>
workerVars  == <<percStop, percThread, percPc, work>>
storeVars   == <<frames, states, bundles, newest>>
setupVars   == <<setupCam, block>>
requestVars == <<goal, saved, reply, switches>>
callVars    == <<ctx, snapCap, snapPerc, errs>>

vars == <<runtimeVars, sourceVars, captureVars, workerVars, trackerClosed, overtaken,
          storeVars, setupVars, requestVars, pc, callVars>>

-----------------------------------------------------------------------------
(* Values.                                                                 *)

Threads == 1 .. (MaxSwitches + 1)
Callers == {"main", "http"}
Frame   == [cam : Cameras, id : 1 .. MaxFrames]
Scene   == [frame : Frame, hl : BOOLEAN]     \* hl: the state has highlights

ASSUME NoneAssumption == None \notin Threads \cup Frame \cup Scene  \* None is no value

Local   == [last : Frame \cup {None}, stale : BOOLEAN,
            item : Scene \cup {None}, kind : {"scene", "failed", "stale"}]
NoLocal == [last |-> None, stale |-> FALSE, item |-> None, kind |-> "scene"]

CapAlive(t)  == capPc[t] \notin {"unborn", "unstarted", "dead"}
PercAlive(t) == percPc[t] \notin {"unborn", "unstarted", "dead"}

\* capture.is_running and perception.is_running: only the thread referenced.
CapRunning  == capThread # None /\ CapAlive(capThread)
PercRunning == percThread # None /\ PercAlive(percThread)

NextUnborn(pcs, t) == pcs[t] = "unborn" /\ \A u \in 1 .. (t - 1) : pcs[u] # "unborn"

Goto(c, label) == pc' = [pc EXCEPT ![c] = label]

-----------------------------------------------------------------------------
Init ==
  /\ status = "created" /\ started = FALSE /\ closed = FALSE
  /\ camera = BootCamera /\ sourceOpen = FALSE /\ nextId = 1
  /\ capStop = FALSE /\ capThread = None
  /\ capPc = [t \in Threads |-> "unborn"] /\ capFrame = [t \in Threads |-> None]
  /\ percStop = FALSE /\ percThread = None
  /\ percPc = [t \in Threads |-> "unborn"] /\ work = [t \in Threads |-> NoLocal]
  /\ trackerClosed = FALSE
  /\ frames = None /\ states = None /\ bundles = None /\ newest = 0
  /\ setupCam = BootCamera
  /\ block \in BOOLEAN /\ (BootCamera # CalibCamera => block)
  /\ goal = BootCamera /\ saved = BootCamera /\ reply = "none" /\ switches = 0
  /\ pc = [c \in Callers |-> IF c = "main" THEN "start" ELSE "idle"]
  /\ ctx = [c \in Callers |-> "start"]
  /\ snapCap = [c \in Callers |-> None] /\ snapPerc = [c \in Callers |-> None]
  /\ errs = [c \in Callers |-> FALSE]
  /\ overtaken = FALSE

-----------------------------------------------------------------------------
(* The capture thread: CaptureThread._run over OpenCVCameraSource.         *)

CapLeavesLoop(t) ==
  /\ capPc[t] = "check" /\ capStop
  /\ capPc' = [capPc EXCEPT ![t] = "closing"]
  /\ UNCHANGED <<overtaken, runtimeVars, sourceVars, capStop, capThread, capFrame,
                 workerVars, trackerClosed, storeVars, setupVars, requestVars, pc,
                 callVars>>

\* A closed source raises at once: the thread counts a failure and loops.
CapBeginsRead(t) ==
  /\ capPc[t] = "check" /\ ~capStop /\ sourceOpen
  /\ capPc' = [capPc EXCEPT ![t] = "reading"]
  /\ UNCHANGED <<overtaken, runtimeVars, sourceVars, capStop, capThread, capFrame,
                 workerVars, trackerClosed, storeVars, setupVars, requestVars, pc,
                 callVars>>

CapReadFails(t) ==
  /\ capPc[t] = "reading"
  /\ capPc' = [capPc EXCEPT ![t] = "check"]
  /\ UNCHANGED <<overtaken, runtimeVars, sourceVars, capStop, capThread, capFrame,
                 workerVars, trackerClosed, storeVars, setupVars, requestVars, pc,
                 callVars>>

\* An in-flight read may still deliver after a concurrent close().
CapReadsFrame(t) ==
  /\ capPc[t] = "reading" /\ nextId <= MaxFrames
  /\ capFrame' = [capFrame EXCEPT ![t] = [cam |-> camera, id |-> nextId]]
  /\ nextId' = nextId + 1
  /\ capPc' = [capPc EXCEPT ![t] = "publish"]
  /\ UNCHANGED <<overtaken, runtimeVars, camera, sourceOpen, capStop, capThread, workerVars,
                 trackerClosed, storeVars, setupVars, requestVars, pc, callVars>>

CapPublishes(t) ==
  /\ capPc[t] = "publish"
  /\ frames' = capFrame[t]
  /\ capFrame' = [capFrame EXCEPT ![t] = None]
  /\ capPc' = [capPc EXCEPT ![t] = "check"]
  /\ UNCHANGED <<overtaken, runtimeVars, sourceVars, capStop, capThread, workerVars,
                 trackerClosed, states, bundles, newest, setupVars, requestVars, pc,
                 callVars>>

CapReleases(t) ==
  /\ capPc[t] = "closing"
  /\ sourceOpen' = FALSE
  /\ capPc' = [capPc EXCEPT ![t] = "dead"]
  /\ UNCHANGED <<overtaken, runtimeVars, camera, nextId, capStop, capThread, capFrame,
                 workerVars, trackerClosed, storeVars, setupVars, requestVars, pc,
                 callVars>>

ReadReturns(t) == CapReadFails(t) \/ CapReadsFrame(t)
CaptureLoop(t) == CapLeavesLoop(t) \/ CapBeginsRead(t) \/ CapPublishes(t) \/ CapReleases(t)

-----------------------------------------------------------------------------
(* The perception worker: LatestFramePerceptionWorker._run over            *)
(* ProductionMappingPipeline.process.  after_frame_id is last.id.          *)

\* Mutant: an empty slot counts as a newer frame.
NewerWithoutFrame(t) ==
  LET last == work[t].last
  IN  IF frames = None \/ last = None THEN TRUE ELSE frames.id > last.id
Newer(t) ==
  LET last == work[t].last
  IN  /\ frames # None
      /\ IF last = None THEN TRUE ELSE frames.id > last.id

\* Worker t carries a scene of this frame.
Carrying(t, frame, hl, kind) ==
  [last |-> work[t].last, stale |-> work[t].stale,
   item |-> [frame |-> frame, hl |-> hl], kind |-> kind]

WorkLoops(t) ==
  /\ percPc[t] = "loop"
  /\ percPc' = [percPc EXCEPT ![t] = IF percStop THEN "dead" ELSE "wait"]
  /\ work' = [work EXCEPT ![t] = IF percStop THEN NoLocal ELSE @]
  /\ UNCHANGED <<overtaken, runtimeVars, sourceVars, captureVars, percStop, percThread,
                 trackerClosed, storeVars, setupVars, requestVars, pc, callVars>>

\* wait_for_newer() hands over the newest frame, stop event or not.
WorkTakes(t) ==
  /\ percPc[t] = "wait" /\ Newer(t)
  /\ work' = [work EXCEPT ![t] = Carrying(t, frames, FALSE, "scene")]
  /\ percPc' = [percPc EXCEPT ![t] = "track"]
  /\ UNCHANGED <<overtaken, runtimeVars, sourceVars, captureVars, percStop, percThread,
                 trackerClosed, storeVars, setupVars, requestVars, pc, callVars>>

WorkTimesOut(t) ==
  /\ percPc[t] = "wait" /\ ~Newer(t)
  /\ percPc' = [percPc EXCEPT ![t] = "loop"]
  /\ UNCHANGED <<overtaken, runtimeVars, sourceVars, captureVars, percStop, percThread,
                 work, trackerClosed, storeVars, setupVars, requestVars, pc, callVars>>

\* Mutant: the worker is built without a freshness deadline.
NoFreshnessDeadline(t) == FALSE
\* The freshness deadline passed without a newer frame: once per frame.
WorkGoesStale(t) ==
  /\ percPc[t] = "wait" /\ ~Newer(t) /\ work[t].last # None /\ ~work[t].stale
  /\ work' = [work EXCEPT ![t] = Carrying(t, work[t].last, FALSE, "stale")]
  /\ percPc' = [percPc EXCEPT ![t] = "state"]
  /\ UNCHANGED <<overtaken, runtimeVars, sourceVars, captureVars, percStop, percThread,
                 trackerClosed, storeVars, setupVars, requestVars, pc, callVars>>

\* Mutant: no guard is wired to the pipeline.
GuardMissing == TRUE
\* The worker's callback reads a cached value and takes no lock.
GuardOpen == ~block

\* The hand tracker works under its own lock ("infer"); a closed one raises,
\* and the frame goes on without hands.
WorkTracks(t) ==
  /\ percPc[t] = "track"
  /\ percPc' = [percPc EXCEPT ![t] = IF trackerClosed THEN "recheck" ELSE "infer"]
  /\ UNCHANGED <<overtaken, runtimeVars, sourceVars, captureVars, percStop, percThread,
                 work, trackerClosed, storeVars, setupVars, requestVars, pc, callVars>>

WorkInfers(t) ==
  /\ percPc[t] = "infer"
  /\ percPc' = [percPc EXCEPT ![t] = "map"]
  /\ UNCHANGED <<overtaken, runtimeVars, sourceVars, captureVars, percStop, percThread,
                 work, trackerClosed, storeVars, setupVars, requestVars, pc, callVars>>

\* The mapping guard, then the contact mapper.
WorkMaps(t) ==
  /\ percPc[t] = "map"
  /\ \E mapped \in BOOLEAN :
       /\ mapped => GuardOpen
       /\ work' = [work EXCEPT ![t] = Carrying(t, work[t].item.frame, mapped, "scene")]
  /\ percPc' = [percPc EXCEPT ![t] = "recheck"]
  /\ UNCHANGED <<overtaken, runtimeVars, sourceVars, captureVars, percStop, percThread,
                 trackerClosed, storeVars, setupVars, requestVars, pc, callVars>>

\* process() raised: the same frame is published as an empty error state.
WorkFails(t) ==
  /\ percPc[t] \in {"track", "infer", "map", "recheck"}
  /\ work' = [work EXCEPT ![t] = Carrying(t, work[t].item.frame, FALSE, "failed")]
  /\ percPc' = [percPc EXCEPT ![t] = "state"]
  /\ UNCHANGED <<overtaken, runtimeVars, sourceVars, captureVars, percStop, percThread,
                 trackerClosed, storeVars, setupVars, requestVars, pc, callVars>>

\* The guard is read again; a block drops the candidates.
WorkRechecks(t) ==
  /\ percPc[t] = "recheck"
  /\ work' = [work EXCEPT ![t] =
                 Carrying(t, work[t].item.frame, work[t].item.hl /\ GuardOpen, "scene")]
  /\ percPc' = [percPc EXCEPT ![t] = "state"]
  /\ UNCHANGED <<overtaken, runtimeVars, sourceVars, captureVars, percStop, percThread,
                 trackerClosed, storeVars, setupVars, requestVars, pc, callVars>>

\* The stale state keeps last; a processed frame becomes last.
Finished(t) ==
  [last  |-> IF work[t].kind = "stale" THEN work[t].last ELSE work[t].item.frame,
   stale |-> work[t].kind = "stale",
   item  |-> None,
   kind  |-> work[t].kind]

\* Mutant: a stale or failed state never reaches the bundle store.
BundleForScenesOnly(kind) == "relay"
\* Scenes go to the publishers before the bundle, the empty states after it.
AfterState(kind) == IF kind = "scene" THEN "relay" ELSE "bundle"

WorkPublishesState(t) ==
  /\ percPc[t] = "state"
  /\ states' = work[t].item /\ newest' = work[t].item.frame.id
  /\ percPc' = [percPc EXCEPT ![t] = AfterState(work[t].kind)]
  /\ UNCHANGED <<overtaken, runtimeVars, sourceVars, captureVars, percStop, percThread,
                 work, trackerClosed, frames, bundles, setupVars, requestVars, pc,
                 callVars>>

\* LocalWebSocketPublisher shares the state store: it republishes only if
\* the store no longer holds this state.
WorkRelays(t) ==
  /\ percPc[t] = "relay"
  /\ states' = work[t].item /\ newest' = work[t].item.frame.id
  /\ percPc' = [percPc EXCEPT ![t] = IF work[t].kind = "scene" THEN "bundle" ELSE "loop"]
  /\ work' = [work EXCEPT ![t] = IF work[t].kind = "scene" THEN @ ELSE Finished(t)]
  /\ UNCHANGED <<overtaken, runtimeVars, sourceVars, captureVars, percStop, percThread,
                 trackerClosed, frames, bundles, setupVars, requestVars, pc, callVars>>

WorkPublishesBundle(t) ==
  /\ percPc[t] = "bundle"
  /\ bundles' = work[t].item
  /\ percPc' = [percPc EXCEPT ![t] = IF work[t].kind = "scene" THEN "loop" ELSE "relay"]
  /\ work' = [work EXCEPT ![t] = IF work[t].kind = "scene" THEN Finished(t) ELSE @]
  /\ UNCHANGED <<overtaken, runtimeVars, sourceVars, captureVars, percStop, percThread,
                 trackerClosed, frames, states, newest, setupVars, requestVars, pc,
                 callVars>>

InferReturns(t) == WorkInfers(t) \/ WorkFails(t)
WorkerLoop(t) ==
  \/ WorkLoops(t) \/ WorkTakes(t) \/ WorkTimesOut(t)
  \/ WorkTracks(t) \/ WorkMaps(t) \/ WorkRechecks(t)
  \/ WorkPublishesState(t) \/ WorkRelays(t) \/ WorkPublishesBundle(t)

-----------------------------------------------------------------------------

(* CaptureThread.stop, called by a switch, by a failed start, by the       *)
(* cleanup of a failed start and by a shutdown (ctx says which).           *)

\* Where a caller continues: after start() ...
StartReturns(c, how) ==
  Goto(c, IF c = "http" THEN IF how = "running" THEN "applied" ELSE "fail"
          ELSE IF how = "raised" THEN "unwind" ELSE "serving")

\* Mutant: the switch goes on when a stop raised.
SwitchGoesOnAnyway(ok) == TRUE
\* Never reconfigure a source while a worker is still alive.
SwitchGoesOn(ok) == ok

\* Mutant: a camera that does not open is tried again.
CaptureStopRetries(c, ok) ==
  /\ ctx[c] = "start" /\ ok /\ Goto(c, "open")
  /\ status' = "waiting_for_camera" /\ UNCHANGED errs
\* ... after capture.stop() ...
CaptureStopReturns(c, ok) ==
  \/ /\ ctx[c] = "switch" /\ SwitchGoesOn(ok) /\ Goto(c, "p_set") /\ UNCHANGED <<status, errs>>
  \/ /\ ctx[c] = "switch" /\ ~SwitchGoesOn(ok) /\ Goto(c, "fail")
     /\ status' = "camera_shutdown_failed" /\ UNCHANGED errs
  \/ /\ ctx[c] = "start" /\ ok /\ StartReturns(c, "waiting")
     /\ status' = "waiting_for_camera" /\ UNCHANGED errs
  \/ /\ ctx[c] = "start" /\ ~ok /\ StartReturns(c, "raised") /\ UNCHANGED <<status, errs>>
  \/ /\ ctx[c] = "cleanup" /\ Goto(c, "ask_tracker")
     /\ errs' = [errs EXCEPT ![c] = @ \/ ~ok] /\ UNCHANGED status
  \/ /\ ctx[c] = "shutdown" /\ Goto(c, "p_set")
     /\ errs' = [errs EXCEPT ![c] = @ \/ ~ok] /\ UNCHANGED status

\* ... and after perception.stop().
PerceptionStopReturns(c, ok) ==
  \/ /\ ctx[c] = "switch" /\ SwitchGoesOn(ok) /\ Goto(c, "clear_frames")
     /\ UNCHANGED <<status, errs>>
  \/ /\ ctx[c] = "switch" /\ ~SwitchGoesOn(ok) /\ Goto(c, "fail")
     /\ status' = "camera_shutdown_failed" /\ UNCHANGED errs
  \/ /\ ctx[c] = "cleanup" /\ Goto(c, "c_set")
     /\ errs' = [errs EXCEPT ![c] = @ \/ ~ok] /\ UNCHANGED status
  \/ /\ ctx[c] = "shutdown" /\ Goto(c, "ask_tracker")
     /\ errs' = [errs EXCEPT ![c] = @ \/ ~ok] /\ UNCHANGED status

CStopSets(c) ==
  /\ pc[c] = "c_set"
  /\ capStop' = TRUE
  /\ Goto(c, "c_snap")
  /\ UNCHANGED <<overtaken, runtimeVars, sourceVars, capThread, capPc, capFrame, workerVars,
                 trackerClosed, storeVars, setupVars, requestVars, callVars>>

CStopSnapshots(c) ==
  /\ pc[c] = "c_snap"
  /\ snapCap' = [snapCap EXCEPT ![c] = capThread]
  /\ Goto(c, IF capThread = None THEN "c_close" ELSE "c_join")
  /\ UNCHANGED <<overtaken, runtimeVars, sourceVars, captureVars, workerVars, trackerClosed,
                 storeVars, setupVars, requestVars, ctx, snapPerc, errs>>

\* Mutant: the return of join() is taken for the end of the thread.
CapJoinReturns(t) == TRUE
CapJoined(t) == capPc[t] = "dead"

CStopJoins(c) ==
  /\ pc[c] \in {"c_join", "c_join2"} /\ CapJoined(snapCap[c])
  /\ Goto(c, "c_done")
  /\ UNCHANGED <<overtaken, runtimeVars, sourceVars, captureVars, workerVars, trackerClosed,
                 storeVars, setupVars, requestVars, callVars>>

\* A thread that the operating system refused cannot be joined.
CStopJoinRaises(c) ==
  /\ pc[c] = "c_join" /\ capPc[snapCap[c]] = "unstarted"
  /\ CaptureStopReturns(c, FALSE)
  /\ UNCHANGED <<overtaken, started, closed, sourceVars, captureVars, workerVars,
                 trackerClosed, storeVars, setupVars, requestVars, ctx, snapCap, snapPerc>>

\* A deadline passes only while the thread sits in a backend call.
CapStuck(t) == capPc[t] = "reading" /\ "read" \in SlowCalls

\* Mutant: the first join has no timeout.
CStopJoinForever(c) == FALSE
CStopJoinExpires(c) ==
  /\ pc[c] = "c_join" /\ CapStuck(snapCap[c])
  /\ Goto(c, "c_close")
  /\ UNCHANGED <<overtaken, runtimeVars, sourceVars, captureVars, workerVars, trackerClosed,
                 storeVars, setupVars, requestVars, callVars>>

\* source.close(): no thread to do it, or one that outlived the grace period.
CStopCloses(c) ==
  /\ pc[c] = "c_close"
  /\ sourceOpen' = FALSE
  /\ Goto(c, IF snapCap[c] = None THEN "c_done" ELSE "c_join2")
  /\ UNCHANGED <<overtaken, runtimeVars, camera, nextId, captureVars, workerVars,
                 trackerClosed, storeVars, setupVars, requestVars, callVars>>

\* Releasing an open device may raise; it is forgotten all the same.
CStopCloseRaises(c) ==
  /\ pc[c] = "c_close" /\ sourceOpen
  /\ sourceOpen' = FALSE
  /\ CaptureStopReturns(c, FALSE)
  /\ UNCHANGED <<overtaken, started, closed, camera, nextId, captureVars, workerVars,
                 trackerClosed, storeVars, setupVars, requestVars, ctx, snapCap, snapPerc>>

CStopJoinExpiresAgain(c) ==
  /\ pc[c] = "c_join2" /\ CapStuck(snapCap[c])
  /\ CaptureStopReturns(c, FALSE)
  /\ UNCHANGED <<overtaken, started, closed, sourceVars, captureVars, workerVars,
                 trackerClosed, storeVars, setupVars, requestVars, ctx, snapCap, snapPerc>>

CStopForgetsThread(c) ==
  /\ pc[c] = "c_done"
  /\ capThread' = None
  /\ CaptureStopReturns(c, TRUE)
  /\ UNCHANGED <<overtaken, started, closed, sourceVars, capStop, capPc, capFrame,
                 workerVars, trackerClosed, storeVars, setupVars, requestVars, ctx, snapCap,
                 snapPerc>>

CaptureStop(c) ==
  \/ CStopSets(c) \/ CStopSnapshots(c) \/ CStopJoins(c) \/ CStopJoinRaises(c)
  \/ CStopJoinExpires(c) \/ CStopCloses(c) \/ CStopCloseRaises(c) \/ CStopJoinExpiresAgain(c)
  \/ CStopForgetsThread(c)

-----------------------------------------------------------------------------
(* LatestFramePerceptionWorker.stop.                                       *)

PStopSets(c) ==
  /\ pc[c] = "p_set"
  /\ percStop' = TRUE
  /\ Goto(c, "p_snap")
  /\ UNCHANGED <<overtaken, runtimeVars, sourceVars, captureVars, percThread, percPc, work,
                 trackerClosed, storeVars, setupVars, requestVars, callVars>>

PStopSnapshots(c) ==
  /\ pc[c] = "p_snap"
  /\ snapPerc' = [snapPerc EXCEPT ![c] = percThread]
  /\ Goto(c, IF percThread = None THEN "p_done" ELSE "p_join")
  /\ UNCHANGED <<overtaken, runtimeVars, sourceVars, captureVars, workerVars, trackerClosed,
                 storeVars, setupVars, requestVars, ctx, snapCap, errs>>

\* Mutant: is_alive() is not asked after join().
PercJoinReturns(t) == TRUE
PercJoined(t) == percPc[t] = "dead"

PStopJoins(c) ==
  /\ pc[c] = "p_join" /\ PercJoined(snapPerc[c])
  /\ Goto(c, "p_done")
  /\ UNCHANGED <<overtaken, runtimeVars, sourceVars, captureVars, workerVars, trackerClosed,
                 storeVars, setupVars, requestVars, callVars>>

\* The deadline passed in inference, or the thread was never started.
PStopRaises(c) ==
  /\ pc[c] = "p_join"
  /\ \/ percPc[snapPerc[c]] = "infer" /\ "infer" \in SlowCalls
     \/ percPc[snapPerc[c]] = "unstarted"
  /\ PerceptionStopReturns(c, FALSE)
  /\ UNCHANGED <<overtaken, started, closed, sourceVars, captureVars, workerVars,
                 trackerClosed, storeVars, setupVars, requestVars, ctx, snapCap, snapPerc>>

PStopForgetsThread(c) ==
  /\ pc[c] = "p_done"
  /\ percThread' = None
  /\ PerceptionStopReturns(c, TRUE)
  /\ UNCHANGED <<overtaken, started, closed, sourceVars, captureVars, percStop, percPc,
                 work, trackerClosed, storeVars, setupVars, requestVars, ctx, snapCap,
                 snapPerc>>

PerceptionStop(c) ==
  \/ PStopSets(c) \/ PStopSnapshots(c) \/ PStopJoins(c) \/ PStopRaises(c)
  \/ PStopForgetsThread(c)

-----------------------------------------------------------------------------
(* DeskVisionRuntime.start(allow_camera_failure=True), with the cleanup of *)
(* a start that failed for another reason than the camera.                 *)

StartChecks(c) ==
  /\ pc[c] = "start"
  /\ IF ~started /\ ~closed /\ status \in {"created", "waiting_for_camera"}
     THEN /\ status' = "starting"
          /\ ctx' = [ctx EXCEPT ![c] = "start"]
          /\ Goto(c, IF CapRunning THEN "spawn_p" ELSE "open")
     ELSE StartReturns(c, "raised") /\ UNCHANGED <<status, ctx>>
  /\ UNCHANGED <<overtaken, started, closed, sourceVars, captureVars, workerVars,
                 trackerClosed, storeVars, setupVars, requestVars, snapCap, snapPerc, errs>>

StartOpens(c) ==
  /\ pc[c] = "open"
  /\ sourceOpen' = TRUE
  /\ Goto(c, "spawn_c")
  /\ UNCHANGED <<overtaken, runtimeVars, camera, nextId, captureVars, workerVars,
                 trackerClosed, storeVars, setupVars, requestVars, callVars>>

\* The device does not open: the console stays up without a camera.
StartOpenFails(c) ==
  /\ pc[c] = "open" /\ ~sourceOpen
  /\ Goto(c, "c_set")
  /\ UNCHANGED <<overtaken, runtimeVars, sourceVars, captureVars, workerVars, trackerClosed,
                 storeVars, setupVars, requestVars, callVars>>

StartSpawnsCapture(c) ==
  /\ pc[c] = "spawn_c"
  /\ capStop' = FALSE
  /\ \E t \in Threads :
       /\ NextUnborn(capPc, t)
       /\ capThread' = t
       /\ capPc' = [capPc EXCEPT ![t] = "check"]
  /\ Goto(c, "spawn_p")
  /\ UNCHANGED <<overtaken, runtimeVars, sourceVars, capFrame, workerVars, trackerClosed,
                 storeVars, setupVars, requestVars, callVars>>

StartSpawnsWorker(c) ==
  /\ pc[c] = "spawn_p"
  /\ IF PercRunning
     THEN UNCHANGED <<percStop, percThread, percPc>>
     ELSE /\ percStop' = FALSE
          /\ \E t \in Threads :
               /\ NextUnborn(percPc, t)
               /\ percThread' = t
               /\ percPc' = [percPc EXCEPT ![t] = "loop"]
  /\ Goto(c, "started")
  /\ UNCHANGED <<overtaken, runtimeVars, sourceVars, captureVars, work, trackerClosed,
                 storeVars, setupVars, requestVars, callVars>>

\* The operating system refuses the capture thread: the device stays open.
StartCaptureRefused(c) ==
  /\ pc[c] = "spawn_c"
  /\ capStop' = FALSE
  /\ \E t \in Threads :
       /\ NextUnborn(capPc, t)
       /\ capThread' = t
       /\ capPc' = [capPc EXCEPT ![t] = "unstarted"]
  /\ ctx' = [ctx EXCEPT ![c] = "cleanup"]
  /\ errs' = [errs EXCEPT ![c] = FALSE]
  /\ Goto(c, "p_set")
  /\ UNCHANGED <<overtaken, runtimeVars, sourceVars, capFrame, workerVars, trackerClosed,
                 storeVars, setupVars, requestVars, snapCap, snapPerc>>

\* It refuses the worker's: the camera is already running.
StartWorkerRefused(c) ==
  /\ pc[c] = "spawn_p" /\ ~PercRunning
  /\ percStop' = FALSE
  /\ \E t \in Threads :
       /\ NextUnborn(percPc, t)
       /\ percThread' = t
       /\ percPc' = [percPc EXCEPT ![t] = "unstarted"]
  /\ ctx' = [ctx EXCEPT ![c] = "cleanup"]
  /\ errs' = [errs EXCEPT ![c] = FALSE]
  /\ Goto(c, "p_set")
  /\ UNCHANGED <<overtaken, runtimeVars, sourceVars, captureVars, work, trackerClosed,
                 storeVars, setupVars, requestVars, snapCap, snapPerc>>

StartSucceeds(c) ==
  /\ pc[c] = "started"
  /\ started' = TRUE /\ status' = "running"
  /\ StartReturns(c, "running")
  /\ UNCHANGED <<overtaken, closed, sourceVars, captureVars, workerVars, trackerClosed,
                 storeVars, setupVars, requestVars, callVars>>

Start(c) ==
  \/ StartChecks(c) \/ StartOpens(c) \/ StartOpenFails(c) \/ StartSpawnsCapture(c)
  \/ StartCaptureRefused(c) \/ StartSpawnsWorker(c) \/ StartWorkerRefused(c) \/ StartSucceeds(c)

-----------------------------------------------------------------------------
(* DeskVisionRuntime.stop, and the end of the startup cleanup.  The web    *)
(* server gives a request under way a grace period, which the request's    *)
(* own joins may outlast: then stop() runs beside it (`overtaken').        *)

ShutdownBegins ==
  /\ pc["main"] \in {"serving", "unwind"}
  /\ pc["http"] = "idle" \/ switches <= MaxOvertakes
  /\ IF closed
     THEN Goto("main", "exited") /\ UNCHANGED <<status, ctx, errs, overtaken>>
     ELSE /\ status' = "stopping"
          /\ ctx' = [ctx EXCEPT !["main"] = "shutdown"]
          /\ errs' = [errs EXCEPT !["main"] = FALSE]
          /\ overtaken' = (overtaken \/ pc["http"] # "idle")
          /\ Goto("main", "c_set")
  /\ UNCHANGED <<started, closed, sourceVars, captureVars, workerVars, trackerClosed,
                 storeVars, setupVars, requestVars, snapCap, snapPerc>>

\* Mutant: the tracker is closed whatever the worker does.
TrackerAlwaysFree == TRUE
TrackerFree == ~PercRunning

\* `if not self.perception.is_running` ...
TrackerAsks(c) ==
  /\ pc[c] = "ask_tracker"
  /\ Goto(c, IF TrackerFree THEN "close_tracker" ELSE "verdict")
  /\ errs' = [errs EXCEPT ![c] = @ \/ (PercRunning /\ ctx[c] = "shutdown")]
  /\ UNCHANGED <<overtaken, runtimeVars, sourceVars, captureVars, workerVars, trackerClosed,
                 storeVars, setupVars, requestVars, ctx, snapCap, snapPerc>>

\* ... `self.pipeline.close()`, which waits for the tracker's lock ...
TrackerCloses(c) ==
  /\ pc[c] = "close_tracker" /\ \A t \in Threads : percPc[t] # "infer"
  /\ trackerClosed' = TRUE
  /\ Goto(c, "verdict")
  /\ UNCHANGED <<overtaken, runtimeVars, sourceVars, captureVars, workerVars, storeVars,
                 setupVars, requestVars, callVars>>

\* ... and may raise: the tracker stays as it is.
TrackerCloseRaises(c) ==
  /\ pc[c] = "close_tracker" /\ ~trackerClosed
  /\ \A t \in Threads : percPc[t] # "infer"
  /\ errs' = [errs EXCEPT ![c] = TRUE]
  /\ Goto(c, "verdict")
  /\ UNCHANGED <<overtaken, runtimeVars, sourceVars, captureVars, workerVars, trackerClosed,
                 storeVars, setupVars, requestVars, ctx, snapCap, snapPerc>>

StopVerdict(c) ==
  /\ pc[c] = "verdict"
  /\ started' = (CapRunning \/ PercRunning)
  /\ closed' = (~started' /\ ~errs[c])
  /\ status' = IF closed' THEN "closed"
               ELSE IF ctx[c] = "shutdown" THEN "shutdown_failed" ELSE "startup_cleanup_failed"
  /\ IF ctx[c] = "shutdown" THEN Goto(c, "exited") ELSE StartReturns(c, "raised")
  /\ UNCHANGED <<overtaken, sourceVars, captureVars, workerVars, trackerClosed, storeVars,
                 setupVars, requestVars, callVars>>

StopTail(c) ==
  TrackerAsks(c) \/ TrackerCloses(c) \/ TrackerCloseRaises(c) \/ StopVerdict(c)

-----------------------------------------------------------------------------
(* RuntimeCameraSession._apply_camera on the HTTP worker thread; one       *)
(* request at a time.                                                      *)

RequestArrives ==
  /\ pc["http"] = "idle" /\ pc["main"] = "serving" /\ switches < MaxSwitches
  /\ \E cam \in Cameras : goal' = cam
  /\ switches' = switches + 1
  /\ Goto("http", "bind")
  /\ UNCHANGED <<overtaken, runtimeVars, sourceVars, captureVars, workerVars, trackerClosed,
                 storeVars, setupVars, saved, reply, callVars>>

\* Mutant: the mapping is blocked only once the change has gone through.
CameraChangeBlocksLate(cam, outcome) ==
  /\ outcome \in {"marking_fails", "rebinding_fails"} => cam # setupCam
  /\ block' = (block \/ (cam # setupCam /\ outcome = "yields"))
  /\ setupCam' = IF outcome \in {"rebinding_fails", "yields"} THEN cam ELSE setupCam
\* camera_change(cam) up to its yield.  A disk error may strike the first
\* binding check, the markers (after the cached block is set) or the new
\* binding (after the controller adopted the camera).
CameraChange(cam, outcome) ==
  /\ outcome \in {"marking_fails", "rebinding_fails"} => cam # setupCam
  /\ block' = (block \/ (cam # setupCam /\ outcome # "binding_fails"))
  /\ setupCam' = IF outcome \in {"rebinding_fails", "yields"} THEN cam ELSE setupCam

Outcomes == {"binding_fails", "marking_fails", "rebinding_fails", "yields"}

SetupAdopts ==
  /\ pc["http"] = "bind"
  /\ \E outcome \in Outcomes :
       /\ CameraChange(goal, outcome)
       /\ Goto("http", IF outcome = "yields" THEN "switch" ELSE "fail")
  /\ UNCHANGED <<overtaken, runtimeVars, sourceVars, captureVars, workerVars, trackerClosed,
                 storeVars, requestVars, callVars>>

SwitchBegins ==
  /\ pc["http"] = "switch"
  /\ IF closed
     THEN Goto("http", "fail") /\ UNCHANGED <<status, ctx>>
     ELSE /\ status' = "switching_camera"
          /\ ctx' = [ctx EXCEPT !["http"] = "switch"]
          /\ Goto("http", "c_set")
  /\ UNCHANGED <<overtaken, started, closed, sourceVars, captureVars, workerVars,
                 trackerClosed, storeVars, setupVars, requestVars, snapCap, snapPerc, errs>>

\* Mutant: the frame slot keeps the last frame of the old camera.
SwitchKeepsFrames ==
  /\ pc["http"] = "clear_frames"
  /\ started' = FALSE
  /\ Goto("http", "clear_states")
  /\ UNCHANGED <<overtaken, status, closed, sourceVars, captureVars, workerVars,
                 trackerClosed, storeVars, setupVars, requestVars, callVars>>

SwitchClearsFrames ==
  /\ pc["http"] = "clear_frames"
  /\ started' = FALSE
  /\ frames' = None
  /\ Goto("http", "clear_states")
  /\ UNCHANGED <<overtaken, status, closed, sourceVars, captureVars, workerVars,
                 trackerClosed, states, bundles, newest, setupVars, requestVars, callVars>>

SwitchClearsStates ==
  /\ pc["http"] = "clear_states"
  /\ states' = None
  /\ Goto("http", "clear_bundles")
  /\ UNCHANGED <<overtaken, runtimeVars, sourceVars, captureVars, workerVars, trackerClosed,
                 frames, bundles, newest, setupVars, requestVars, callVars>>

SwitchClearsBundles ==
  /\ pc["http"] = "clear_bundles"
  /\ bundles' = None
  /\ Goto("http", "configure")
  /\ UNCHANGED <<overtaken, runtimeVars, sourceVars, captureVars, workerVars, trackerClosed,
                 frames, states, newest, setupVars, requestVars, callVars>>

\* Mutant: the new camera numbers its frames from the start.
SwitchRestartsIds ==
  /\ pc["http"] = "configure"
  /\ status' = "waiting_for_camera"
  /\ camera' = goal /\ nextId' = 1
  /\ Goto("http", "start")
  /\ UNCHANGED <<overtaken, started, closed, sourceOpen, captureVars, workerVars,
                 trackerClosed, storeVars, setupVars, requestVars, callVars>>

\* source.configure refuses an open source.  The hand tracker is rebuilt; when
\* that fails, or it is closed, the camera is already the new one.
SwitchConfigures ==
  /\ pc["http"] = "configure"
  /\ status' = "waiting_for_camera"
  /\ camera' = IF sourceOpen THEN camera ELSE goal
  /\ \E rebuilt \in BOOLEAN :
       /\ rebuilt => ~trackerClosed
       /\ Goto("http", IF sourceOpen \/ ~rebuilt THEN "fail" ELSE "start")
  /\ UNCHANGED <<overtaken, started, closed, sourceOpen, nextId, captureVars, workerVars,
                 trackerClosed, storeVars, setupVars, requestVars, callVars>>

\* The new camera runs; its choice is saved, or the disk refuses.
RequestApplied ==
  /\ pc["http"] = "applied"
  /\ \/ saved' = camera /\ reply' = "applied"
     \/ reply' = "unsaved" /\ UNCHANGED saved
  /\ Goto("http", "idle")
  /\ UNCHANGED <<overtaken, runtimeVars, sourceVars, captureVars, workerVars, trackerClosed,
                 storeVars, setupVars, goal, switches, callVars>>

\* Mutant: a failed request leaves the setup controller as it is.
RequestForgetsSetup ==
  /\ pc["http"] = "fail"
  /\ reply' = "failed"
  /\ Goto("http", "idle")
  /\ UNCHANGED <<overtaken, runtimeVars, sourceVars, captureVars, workerVars, trackerClosed,
                 storeVars, setupVars, goal, saved, switches, callVars>>

\* The setup transaction recorded the requested camera: give it back the one
\* the runtime retained.
RequestFails ==
  /\ pc["http"] = "fail"
  /\ IF setupCam = camera
     THEN reply' = "failed" /\ UNCHANGED setupVars
     ELSE \E outcome \in Outcomes :
            /\ CameraChange(camera, outcome)
            /\ reply' = IF outcome = "yields" THEN "failed" ELSE "unreconciled"
  /\ Goto("http", "idle")
  /\ UNCHANGED <<overtaken, runtimeVars, sourceVars, captureVars, workerVars, trackerClosed,
                 storeVars, goal, saved, switches, callVars>>

Request ==
  \/ SetupAdopts \/ SwitchBegins \/ SwitchClearsFrames \/ SwitchClearsStates
  \/ SwitchClearsBundles \/ SwitchConfigures \/ RequestApplied \/ RequestFails

-----------------------------------------------------------------------------
CallerStep(c) == CaptureStop(c) \/ PerceptionStop(c) \/ Start(c) \/ StopTail(c)

\* The process has ended; only an abandoned thread may still run.
Exited ==
  /\ pc["main"] = "exited" /\ pc["http"] = "idle"
  /\ UNCHANGED vars

Next ==
  \/ \E t \in Threads : CaptureLoop(t) \/ ReadReturns(t)
  \/ \E t \in Threads : WorkerLoop(t) \/ WorkGoesStale(t) \/ InferReturns(t)
  \/ \E c \in Callers : CallerStep(c)
  \/ RequestArrives \/ Request \/ ShutdownBegins \/ Exited

Spec == Init /\ [][Next]_vars

(***************************************************************************)
(* Fairness.  Every thread that can step does, and time passes, so a join  *)
(* deadline is reached.  A worker whose timed waits keep ending without a  *)
(* newer frame notices the freshness deadline, hence SF.  Whether a        *)
(* backend call returns is an assumption of its own.  Requests and the     *)
(* shutdown are never obliged to come.                                     *)
(***************************************************************************)
Progress ==
  /\ \A t \in Threads : WF_vars(CaptureLoop(t)) /\ WF_vars(WorkerLoop(t))
  /\ \A t \in Threads : SF_vars(WorkGoesStale(t))
  /\ \A c \in Callers : WF_vars(CallerStep(c))
  /\ WF_vars(Request)

InferenceReturns == \A t \in Threads : WF_vars(InferReturns(t))

FairSpec == Spec /\ Progress /\ InferenceReturns

-----------------------------------------------------------------------------
(* Properties.                                                             *)

Labels == {"start", "open", "spawn_c", "spawn_p", "started", "serving", "unwind", "exited",
           "c_set", "c_snap", "c_join", "c_close", "c_join2", "c_done",
           "p_set", "p_snap", "p_join", "p_done", "ask_tracker", "close_tracker", "verdict",
           "idle", "bind", "switch", "clear_frames", "clear_states", "clear_bundles",
           "configure", "applied", "fail"}

RuntimeTyped ==
  /\ status \in {"created", "starting", "running", "waiting_for_camera", "switching_camera",
                 "camera_shutdown_failed", "startup_cleanup_failed", "stopping", "closed",
                 "shutdown_failed"}
  /\ started \in BOOLEAN /\ closed \in BOOLEAN /\ trackerClosed \in BOOLEAN

SourceTyped ==
  /\ camera \in Cameras /\ sourceOpen \in BOOLEAN /\ nextId \in 1 .. (MaxFrames + 1)

CaptureTyped ==
  /\ capStop \in BOOLEAN /\ capThread \in Threads \cup {None}
  /\ capPc \in [Threads -> {"unborn", "unstarted", "check", "reading", "publish", "closing",
                            "dead"}]
  /\ capFrame \in [Threads -> Frame \cup {None}]

WorkerTyped ==
  /\ percStop \in BOOLEAN /\ percThread \in Threads \cup {None}
  /\ percPc \in [Threads -> {"unborn", "unstarted", "loop", "wait", "track", "infer", "map",
                             "recheck", "state", "relay", "bundle", "dead"}]
  /\ work \in [Threads -> Local]

StoreTyped ==
  /\ frames \in Frame \cup {None}
  /\ states \in Scene \cup {None} /\ bundles \in Scene \cup {None}
  /\ newest \in 0 .. MaxFrames

RequestTyped ==
  /\ setupCam \in Cameras /\ block \in BOOLEAN
  /\ goal \in Cameras /\ saved \in Cameras
  /\ reply \in {"none", "applied", "unsaved", "failed", "unreconciled"}
  /\ switches \in 0 .. MaxSwitches

CallerTyped ==
  /\ pc \in [Callers -> Labels]
  /\ ctx \in [Callers -> {"start", "switch", "cleanup", "shutdown"}]
  /\ snapCap \in [Callers -> Threads \cup {None}]
  /\ snapPerc \in [Callers -> Threads \cup {None}]
  /\ errs \in [Callers -> BOOLEAN]
  /\ overtaken \in BOOLEAN

\* Every variable holds a value the program can give it; an item in a store
\* is a whole scene or frame, never a half-built one.
TypeOK ==
  /\ RuntimeTyped /\ SourceTyped /\ CaptureTyped /\ WorkerTyped
  /\ StoreTyped /\ RequestTyped /\ CallerTyped

Lit(item) == item # None /\ item.hl

\* Highlights shown to any consumer were mapped on a frame of the camera the
\* calibration was built for, whatever switches, failures and half-finished
\* frames came in between (the mapping guard, its cached block and the
\* recheck after inference).
HighlightsOnlyCalibrated ==
  /\ Lit(states) => states.frame.cam = CalibCamera
  /\ Lit(bundles) => bundles.frame.cam = CalibCamera

\* The reason why: while the mapping is open, the source, the setup controller
\* and a switch under way name the calibrated camera, and every frame still
\* alive anywhere -- in the slot, in the capture thread's hands, in the worker
\* -- was read from it.
InSwitch == pc["http"] \notin {"idle", "bind", "applied", "fail"}
Calibrated(frame) == frame # None => frame.cam = CalibCamera
MappingOpenMeansCalibrated ==
  ~block => /\ camera = CalibCamera /\ setupCam = CalibCamera
            /\ InSwitch => goal = CalibCamera
            /\ Calibrated(frames)
            /\ \A t \in Threads :
                 /\ Calibrated(capFrame[t]) /\ Calibrated(work[t].last)
                 /\ work[t].item # None => Calibrated(work[t].item.frame)

\* No store holds a frame, state or bundle of another camera than the one
\* the source is configured for: a switch empties all three after both
\* threads have ended and before it configures the source.  And whenever no
\* publication and no clear is under way, the state store and the bundle
\* store tell their consumers the same thing, also after a stale or a failed
\* frame.  (A shutdown that overtook a request is the exception here and
\* below: StoppedStaysStopped is about it.)
StoresAgree ==
  ~overtaken =>
    /\ frames # None => frames.cam = camera
    /\ states # None => states.frame.cam = camera
    /\ bundles # None => bundles.frame.cam = camera
    /\ (/\ \A t \in Threads : percPc[t] \notin {"relay", "bundle"}
        /\ pc["http"] # "clear_bundles")
       => states = bundles

\* There is never a second live capture thread or a second live worker, and
\* a runtime that reports "closed" left no thread behind and has closed the
\* hand tracker.
NoThreadLeftBehind ==
  ~overtaken =>
    /\ \A t, u \in Threads : CapAlive(t) /\ CapAlive(u) => t = u
    /\ \A t, u \in Threads : PercAlive(t) /\ PercAlive(u) => t = u
    /\ closed => /\ trackerClosed
                 /\ \A t \in Threads : ~CapAlive(t) /\ ~PercAlive(t)

\* After every answered camera request the setup controller and the runtime
\* name the same camera, unless the recovery itself hit a disk error.
CamerasAgree ==
  pc["http"] = "idle" /\ reply # "unreconciled" => setupCam = camera

\* The source is reconfigured only when no capture thread and no worker is
\* alive, and the hand tracker is never closed under a live worker.
ChangedAtRest ==
  [][~overtaken =>
       /\ camera' # camera => \A t \in Threads : ~CapAlive(t) /\ ~PercAlive(t)
       /\ trackerClosed' /\ ~trackerClosed => \A t \in Threads : ~PercAlive(t)]_vars

\* A published state is newer than everything published before it, or an
\* empty replacement for the newest frame: frame ids survive switches.
PublishedNeverGoesBack ==
  [][~overtaken /\ states' # states /\ states' # None =>
       \/ states'.frame.id > newest
       \/ states'.frame.id = newest /\ ~states'.hl]_vars

\* What a caller has before it at most: steps of the stop it is in, and the
\* stages that follow by what called it.
StopLeft(label) ==
  CASE label = "c_set" -> 5 [] label = "c_snap" -> 4 [] label = "c_join" -> 3
    [] label = "c_close" -> 2 [] label = "c_join2" -> 1 [] label = "c_done" -> 0
    [] label = "p_set" -> 3 [] label = "p_snap" -> 2 [] label = "p_join" -> 1
    [] label = "p_done" -> 0
    [] label = "ask_tracker" -> 2 [] label = "close_tracker" -> 1 [] label = "verdict" -> 0
CaptureStage(context) ==
  CASE context = "switch" -> 47 [] context = "cleanup" -> 25
    [] context = "start" -> 18 [] context = "shutdown" -> 8
WorkerStage(context) ==
  CASE context = "switch" -> 43 [] context = "shutdown" -> 4 [] OTHER -> 31
TailStage(context) == IF context = "shutdown" THEN 1 ELSE 22
CallLeft(label) ==
  CASE label = "bind" -> 54 [] label = "switch" -> 53
    [] label = "clear_frames" -> 42 [] label = "clear_states" -> 41
    [] label = "clear_bundles" -> 40 [] label = "configure" -> 39
    [] label = "start" -> 38 [] label = "open" -> 37 [] label = "spawn_c" -> 36
    [] label = "spawn_p" -> 35 [] label = "started" -> 34
    [] label = "unwind" -> 17 [] label = "serving" -> 16
    [] label \in {"applied", "fail"} -> 1 [] label \in {"idle", "exited"} -> 0
StepsLeft(label, context) ==
  CASE label \in {"c_set", "c_snap", "c_join", "c_close", "c_join2", "c_done"} ->
         CaptureStage(context) + StopLeft(label)
    [] label \in {"p_set", "p_snap", "p_join", "p_done"} ->
         WorkerStage(context) + StopLeft(label)
    [] label \in {"ask_tracker", "close_tracker", "verdict"} ->
         TailStage(context) + StopLeft(label)
    [] OTHER -> CallLeft(label)

\* No start, stop, switch or request repeats itself: whatever fails, raises
\* or times out on the way, each step leaves the caller with less to do, so
\* that 54 steps are the most a request makes once it has come, and 13 a
\* shutdown (runtime.py:193-306, runtime_camera.py:88-133).
CallsAdvance ==
  [][\A c \in Callers :
       pc[c] # "idle" /\ pc'[c] # pc[c]
         => StepsLeft(pc'[c], ctx'[c]) < StepsLeft(pc[c], ctx[c])]_vars

\* The threads, stores, switches and failures together are a LiveView: both
\* stores tell one story, in order, of one camera at a time, and a runtime
\* that is closed has said its last word (runtime.py:244-306).
Live ==
  INSTANCE LiveView WITH
    FirstCamera <- BootCamera, Scenes <- Scene, Blank <- None,
    state <- states, bundle <- bundles
ViewIsLive == Live!Spec

\* A camera request is always answered, in a bounded number of steps: no
\* lock, dead thread or hung camera keeps the HTTP thread for ever, and no
\* failure sends it round again (runtime_camera.py:88-133).
RequestEnds ==
  /\ CallsAdvance
  /\ pc["http"] # "idle" ~> pc["http"] = "idle"

\* Highlights do not outlive the frames that caused them: while a worker
\* runs, a lit state is replaced even if the camera delivers nothing more.
FrozenCameraGoesDark ==
  \A f \in Frame :
    states = [frame |-> f, hl |-> TRUE]
      ~> states # [frame |-> f, hl |-> TRUE] \/ ~PercRunning \/ percStop

\* As reconfigure_camera documents it: after a failed switch no old
\* highlights survive.  Here nobody is left who could clear them.
FailedSwitchGoesDark ==
  (/\ pc["http"] = "idle" /\ reply = "failed" /\ status = "camera_shutdown_failed"
   /\ \A t \in Threads : ~PercAlive(t))
  => ~Lit(states)

\* As start() asserts it: a stopped runtime cannot be restarted.
StoppedStaysStopped == [][closed => ~started']_vars

\* As the pipeline's recheck documents it: once a camera change has blocked
\* the mapping, a late result fails closed.
LateResultFailsClosed ==
  [][block /\ states' # states => ~Lit(states')]_vars
=============================================================================
