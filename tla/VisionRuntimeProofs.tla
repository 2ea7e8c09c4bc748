------------------------- MODULE VisionRuntimeProofs -------------------------
(***************************************************************************)
(* What holds of VisionRuntime for every set of cameras, every number of   *)
(* requests and frames, whichever calls hang, and also when a shutdown     *)
(* overtakes a camera request.                                             *)
(***************************************************************************)
EXTENDS VisionRuntime, TLAPS

\* A worker that is past the frame slot holds a whole scene.
Working == {"track", "infer", "map", "recheck", "state", "relay", "bundle"}
HoldsScene == \A t \in Threads : percPc[t] \in Working => work[t].item \in Scene

TypeInv == TypeOK /\ HoldsScene

-----------------------------------------------------------------------------
\* The types of the initial state.
LEMMA InitTypes == Init => TypeInv
  <1> SUFFICES ASSUME Init PROVE TypeInv
    OBVIOUS
  <1>1. /\ MaxSwitches \in Nat /\ MaxFrames \in Nat
        /\ BootCamera \in Cameras
    BY VisionAssumption
  <1>2. NoLocal \in Local
    BY DEF NoLocal, Local
  <1>3. /\ started \in BOOLEAN /\ closed \in BOOLEAN /\ trackerClosed \in BOOLEAN
        /\ sourceOpen \in BOOLEAN /\ capStop \in BOOLEAN /\ percStop \in BOOLEAN
    BY Zenon DEF Init
  <1>6. RuntimeTyped /\ SourceTyped /\ CaptureTyped /\ StoreTyped /\ RequestTyped
    BY <1>1, <1>3 DEF Init, RuntimeTyped, SourceTyped, CaptureTyped, StoreTyped, RequestTyped
  <1>4. WorkerTyped /\ HoldsScene
    BY <1>2, <1>3 DEF Init, WorkerTyped, HoldsScene, Working
  <1>5. CallerTyped
    BY DEF Init, CallerTyped, Callers, Labels
  <1> QED
    BY <1>4, <1>5, <1>6 DEF TypeInv, TypeOK

\* The capture thread keeps the types.
LEMMA CaptureTypes ==
  ASSUME TypeInv, NEW t \in Threads, CaptureLoop(t) \/ ReadReturns(t)
  PROVE  TypeInv'
  <1> USE DEF TypeInv, TypeOK, RuntimeTyped, SourceTyped, CaptureTyped, WorkerTyped,
              StoreTyped, RequestTyped, CallerTyped, HoldsScene
  <1> USE DEF runtimeVars, sourceVars, captureVars, workerVars, storeVars, setupVars,
              requestVars, callVars
  <1>1. CASE CapLeavesLoop(t)
    BY <1>1 DEF CapLeavesLoop
  <1>2. CASE CapBeginsRead(t)
    BY <1>2 DEF CapBeginsRead
  <1>3. CASE CapReadFails(t)
    BY <1>3 DEF CapReadFails
  <1>4. CASE CapReadsFrame(t)
    <2>1. [cam |-> camera, id |-> nextId] \in Frame /\ nextId + 1 \in 1 .. (MaxFrames + 1)
      BY <1>4, VisionAssumption DEF CapReadsFrame, Frame
    <2> QED
      BY <1>4, <2>1 DEF CapReadsFrame
  <1>5. CASE CapPublishes(t)
    BY <1>5 DEF CapPublishes
  <1>6. CASE CapReleases(t)
    <2>1. sourceOpen' \in BOOLEAN
      BY <1>6, Zenon DEF CapReleases
    <2> QED
      BY <1>6, <2>1 DEF CapReleases
  <1> QED
    BY <1>1, <1>2, <1>3, <1>4, <1>5, <1>6 DEF CaptureLoop, ReadReturns

\* A worker that carries a scene of a frame has well-formed locals.
LEMMA CarryingTypes ==
  ASSUME WorkerTyped, NEW t \in Threads, NEW frame \in Frame, NEW hl \in BOOLEAN,
         NEW kind \in {"scene", "failed", "stale"}
  PROVE  /\ Carrying(t, frame, hl, kind) \in Local
         /\ Carrying(t, frame, hl, kind).item \in Scene
  BY DEF WorkerTyped, Carrying, Local, Scene

\* A step of worker t that leaves it at label with locals l.
LEMMA WorkStep ==
  ASSUME WorkerTyped, HoldsScene, NEW t \in Threads, NEW l \in Local,
         NEW label \in {"wait", "dead", "loop"} \cup Working,
         label \in Working => l.item \in Scene,
         work' = [work EXCEPT ![t] = l], percPc' = [percPc EXCEPT ![t] = label],
         percStop' = percStop, percThread' = percThread
  PROVE  WorkerTyped' /\ HoldsScene'
  BY DEF WorkerTyped, HoldsScene, Working

\* The perception worker keeps the types.
LEMMA WorkerTypes ==
  ASSUME TypeInv, NEW t \in Threads,
         WorkerLoop(t) \/ WorkGoesStale(t) \/ InferReturns(t)
  PROVE  TypeInv'
  <1> USE DEF TypeInv, TypeOK, RuntimeTyped, SourceTyped, CaptureTyped,
              StoreTyped, RequestTyped, CallerTyped
  <1> USE DEF runtimeVars, sourceVars, captureVars, workerVars, storeVars, setupVars,
              requestVars, callVars
  <1>1. CASE WorkLoops(t)
    BY <1>1 DEF WorkLoops, NoLocal, WorkerTyped, HoldsScene, Working, Local, Scene, Frame
  <1>2. CASE WorkTakes(t)
    <2>1. frames \in Frame
      BY <1>2 DEF WorkTakes, Newer
    <2>2. /\ Carrying(t, frames, FALSE, "scene") \in Local
          /\ Carrying(t, frames, FALSE, "scene").item \in Scene
      BY <2>1, CarryingTypes
    <2>3. WorkerTyped' /\ HoldsScene'
      BY <1>2, <2>2, WorkStep DEF WorkTakes, Working
    <2> QED
      BY <1>2, <2>3 DEF WorkTakes
  <1>3. CASE WorkTimesOut(t)
    BY <1>3 DEF WorkTimesOut, WorkerTyped, HoldsScene, Working, Local, Scene, Frame
  <1>4. CASE WorkGoesStale(t)
    <2>1. work[t].last \in Frame
      BY <1>4 DEF WorkGoesStale, Local, WorkerTyped
    <2>2. /\ Carrying(t, work[t].last, FALSE, "stale") \in Local
          /\ Carrying(t, work[t].last, FALSE, "stale").item \in Scene
      BY <2>1, CarryingTypes
    <2>3. WorkerTyped' /\ HoldsScene'
      BY <1>4, <2>2, WorkStep DEF WorkGoesStale, Working
    <2> QED
      BY <1>4, <2>3 DEF WorkGoesStale
  <1>5. CASE WorkTracks(t)
    BY <1>5 DEF WorkTracks, WorkerTyped, HoldsScene, Working, Local, Scene, Frame
  <1>6. CASE WorkInfers(t)
    BY <1>6 DEF WorkInfers, WorkerTyped, HoldsScene, Working, Local, Scene, Frame
  <1>7. CASE WorkMaps(t)
    <2>1. PICK mapped \in BOOLEAN :
            work' = [work EXCEPT ![t] = Carrying(t, work[t].item.frame, mapped, "scene")]
      BY <1>7 DEF WorkMaps
    <2>2. /\ Carrying(t, work[t].item.frame, mapped, "scene") \in Local
          /\ Carrying(t, work[t].item.frame, mapped, "scene").item \in Scene
      BY <1>7, CarryingTypes DEF WorkMaps, Working, Scene, HoldsScene
    <2>3. WorkerTyped' /\ HoldsScene'
      BY <1>7, <2>1, <2>2, WorkStep DEF WorkMaps, Working
    <2> QED
      BY <1>7, <2>3 DEF WorkMaps
  <1>8. CASE WorkFails(t)
    <2>1. work[t].item.frame \in Frame
      BY <1>8 DEF WorkFails, Working, Scene, HoldsScene
    <2>2. /\ Carrying(t, work[t].item.frame, FALSE, "failed") \in Local
          /\ Carrying(t, work[t].item.frame, FALSE, "failed").item \in Scene
      BY <2>1, CarryingTypes
    <2>3. WorkerTyped' /\ HoldsScene'
      BY <1>8, <2>2, WorkStep DEF WorkFails, Working
    <2> QED
      BY <1>8, <2>3 DEF WorkFails
  <1>9. CASE WorkRechecks(t)
    <2>1. work[t].item.frame \in Frame /\ (work[t].item.hl /\ GuardOpen) \in BOOLEAN
      BY <1>9 DEF WorkRechecks, Working, GuardOpen, Scene, HoldsScene
    <2>2. /\ Carrying(t, work[t].item.frame, work[t].item.hl /\ GuardOpen, "scene") \in Local
          /\ Carrying(t, work[t].item.frame, work[t].item.hl /\ GuardOpen, "scene").item \in Scene
      BY <2>1, CarryingTypes
    <2>3. WorkerTyped' /\ HoldsScene'
      BY <1>9, <2>2, WorkStep DEF WorkRechecks, Working
    <2> QED
      BY <1>9, <2>3 DEF WorkRechecks
  <1>10. CASE WorkPublishesState(t)
    BY <1>10, VisionAssumption
    DEF WorkPublishesState, AfterState, WorkerTyped, HoldsScene, Working, Local, Scene, Frame
  <1>11. CASE WorkRelays(t)
    <2>1. Finished(t) \in Local /\ work[t] \in Local /\ work[t].item \in Scene
      BY <1>11 DEF Finished, WorkRelays, Working, Local, Scene, WorkerTyped, HoldsScene
    <2>2. ASSUME work[t].kind = "scene" PROVE WorkerTyped' /\ HoldsScene'
      <3>0. "bundle" \in Working => work[t].item \in Scene
        BY <2>1 DEF Working
      <3>1. /\ work' = [work EXCEPT ![t] = work[t]]
            /\ percPc' = [percPc EXCEPT ![t] = "bundle"]
            /\ percStop' = percStop /\ percThread' = percThread
        BY <1>11, <2>2 DEF WorkRelays
      <3> QED
        BY <2>1, <3>0, <3>1, WorkStep DEF Working
    <2>3. ASSUME work[t].kind # "scene" PROVE WorkerTyped' /\ HoldsScene'
      <3>0. "loop" \in Working => Finished(t).item \in Scene
        BY <2>1 DEF Working
      <3>1. /\ work' = [work EXCEPT ![t] = Finished(t)]
            /\ percPc' = [percPc EXCEPT ![t] = "loop"]
            /\ percStop' = percStop /\ percThread' = percThread
        BY <1>11, <2>3 DEF WorkRelays
      <3> QED
        BY <2>1, <3>0, <3>1, WorkStep DEF Working
    <2>4. StoreTyped'
      BY <1>11, <2>1, VisionAssumption DEF WorkRelays, Scene, Frame
    <2> QED
      BY <1>11, <2>2, <2>3, <2>4 DEF WorkRelays
  <1>12. CASE WorkPublishesBundle(t)
    <2>1. Finished(t) \in Local /\ work[t] \in Local /\ work[t].item \in Scene
      BY <1>12 DEF Finished, WorkPublishesBundle, Working, Local, Scene, WorkerTyped, HoldsScene
    <2>2. ASSUME work[t].kind = "scene" PROVE WorkerTyped' /\ HoldsScene'
      <3>0. "loop" \in Working => Finished(t).item \in Scene
        BY <2>1 DEF Working
      <3>1. /\ work' = [work EXCEPT ![t] = Finished(t)]
            /\ percPc' = [percPc EXCEPT ![t] = "loop"]
            /\ percStop' = percStop /\ percThread' = percThread
        BY <1>12, <2>2 DEF WorkPublishesBundle
      <3> QED
        BY <2>1, <3>0, <3>1, WorkStep DEF Working
    <2>3. ASSUME work[t].kind # "scene" PROVE WorkerTyped' /\ HoldsScene'
      <3>0. "relay" \in Working => work[t].item \in Scene
        BY <2>1 DEF Working
      <3>1. /\ work' = [work EXCEPT ![t] = work[t]]
            /\ percPc' = [percPc EXCEPT ![t] = "relay"]
            /\ percStop' = percStop /\ percThread' = percThread
        BY <1>12, <2>3 DEF WorkPublishesBundle
      <3> QED
        BY <2>1, <3>0, <3>1, WorkStep DEF Working
    <2>4. StoreTyped'
      BY <1>12, <2>1, VisionAssumption DEF WorkPublishesBundle, Scene, Frame
    <2> QED
      BY <1>12, <2>2, <2>3, <2>4 DEF WorkPublishesBundle
  <1> QED
    BY <1>1, <1>2, <1>3, <1>4, <1>5, <1>6, <1>7, <1>8, <1>9, <1>10, <1>11, <1>12
    DEF WorkerLoop, InferReturns

\* What the end of a stop leaves behind.
LEMMA StopReturnTypes ==
  ASSUME TypeInv, NEW c \in Callers, NEW ok \in BOOLEAN,
         CaptureStopReturns(c, ok) \/ PerceptionStopReturns(c, ok)
  PROVE  /\ pc' \in [Callers -> Labels] /\ errs' \in [Callers -> BOOLEAN]
         /\ status' \in {"created", "starting", "running", "waiting_for_camera",
                        "switching_camera", "camera_shutdown_failed",
                        "startup_cleanup_failed", "stopping", "closed", "shutdown_failed"}
  <1>0. /\ pc \in [Callers -> Labels] /\ errs \in [Callers -> BOOLEAN] /\ RuntimeTyped
        /\ (errs[c] \/ ~ok) \in BOOLEAN
    BY DEF TypeInv, TypeOK, CallerTyped
  <1>1. /\ errs' = errs \/ errs' = [errs EXCEPT ![c] = @ \/ ~ok]
        /\ status' \in {status, "camera_shutdown_failed", "waiting_for_camera"}
    BY Zenon DEF CaptureStopReturns, PerceptionStopReturns
  <1>2. PICK label \in Labels : pc' = [pc EXCEPT ![c] = label]
    BY DEF CaptureStopReturns, PerceptionStopReturns, StartReturns, Goto, Labels
  <1> QED
    BY <1>0, <1>1, <1>2 DEF RuntimeTyped

\* CaptureThread.stop keeps the types.
LEMMA CaptureStopTypes ==
  ASSUME TypeInv, NEW c \in Callers, CaptureStop(c)
  PROVE  TypeInv'
  <1> USE DEF TypeInv, TypeOK, RuntimeTyped, SourceTyped, CaptureTyped, WorkerTyped,
              StoreTyped, RequestTyped, CallerTyped, HoldsScene
  <1> USE DEF runtimeVars, sourceVars, captureVars, workerVars, storeVars, setupVars,
              requestVars, callVars
  <1>1. CASE CStopSets(c)
    BY <1>1 DEF CStopSets, Goto, Labels
  <1>2. CASE CStopSnapshots(c)
    BY <1>2 DEF CStopSnapshots, Goto, Labels
  <1>3. CASE CStopJoins(c)
    BY <1>3 DEF CStopJoins, Goto, Labels
  <1>4. CASE CStopJoinExpires(c)
    BY <1>4 DEF CStopJoinExpires, Goto, Labels
  <1>5. CASE CStopCloses(c)
    <2>1. sourceOpen' \in BOOLEAN
      BY <1>5, Zenon DEF CStopCloses
    <2> QED
      BY <1>5, <2>1 DEF CStopCloses, Goto, Labels
  <1>6. CASE CStopCloseRaises(c)
    <2>1. CaptureStopReturns(c, FALSE)
      BY <1>6 DEF CStopCloseRaises
    <2>2. /\ pc' \in [Callers -> Labels] /\ errs' \in [Callers -> BOOLEAN]
          /\ RuntimeTyped'
      BY <1>6, <2>1, StopReturnTypes DEF CStopCloseRaises
    <2>3. sourceOpen' \in BOOLEAN
      BY <1>6, Zenon DEF CStopCloseRaises
    <2> QED
      BY <1>6, <2>2, <2>3 DEF CStopCloseRaises
  <1>7. CASE CStopJoinExpiresAgain(c)
    <2>1. CaptureStopReturns(c, FALSE)
      BY <1>7 DEF CStopJoinExpiresAgain
    <2>2. /\ pc' \in [Callers -> Labels] /\ errs' \in [Callers -> BOOLEAN]
          /\ RuntimeTyped'
      BY <1>7, <2>1, StopReturnTypes DEF CStopJoinExpiresAgain
    <2> QED
      BY <1>7, <2>2 DEF CStopJoinExpiresAgain
  <1>8. CASE CStopForgetsThread(c)
    <2>1. CaptureStopReturns(c, TRUE)
      BY <1>8 DEF CStopForgetsThread
    <2>2. /\ pc' \in [Callers -> Labels] /\ errs' \in [Callers -> BOOLEAN]
          /\ RuntimeTyped'
      BY <1>8, <2>1, StopReturnTypes DEF CStopForgetsThread
    <2> QED
      BY <1>8, <2>2 DEF CStopForgetsThread
  <1>9. CASE CStopJoinRaises(c)
    <2>1. CaptureStopReturns(c, FALSE)
      BY <1>9 DEF CStopJoinRaises
    <2>2. /\ pc' \in [Callers -> Labels] /\ errs' \in [Callers -> BOOLEAN]
          /\ RuntimeTyped'
      BY <1>9, <2>1, StopReturnTypes DEF CStopJoinRaises
    <2> QED
      BY <1>9, <2>2 DEF CStopJoinRaises
  <1> QED
    BY <1>1, <1>2, <1>3, <1>4, <1>5, <1>6, <1>7, <1>8, <1>9 DEF CaptureStop

\* LatestFramePerceptionWorker.stop keeps the types.
LEMMA PerceptionStopTypes ==
  ASSUME TypeInv, NEW c \in Callers, PerceptionStop(c)
  PROVE  TypeInv'
  <1> USE DEF TypeInv, TypeOK, RuntimeTyped, SourceTyped, CaptureTyped, WorkerTyped,
              StoreTyped, RequestTyped, CallerTyped, HoldsScene
  <1> USE DEF runtimeVars, sourceVars, captureVars, workerVars, storeVars, setupVars,
              requestVars, callVars
  <1>1. CASE PStopSets(c)
    BY <1>1 DEF PStopSets, Goto, Labels
  <1>2. CASE PStopSnapshots(c)
    BY <1>2 DEF PStopSnapshots, Goto, Labels
  <1>3. CASE PStopJoins(c)
    BY <1>3 DEF PStopJoins, Goto, Labels
  <1>4. CASE PStopRaises(c)
    <2>1. PerceptionStopReturns(c, FALSE)
      BY <1>4 DEF PStopRaises
    <2>2. /\ pc' \in [Callers -> Labels] /\ errs' \in [Callers -> BOOLEAN]
          /\ RuntimeTyped'
      BY <1>4, <2>1, StopReturnTypes DEF PStopRaises
    <2> QED
      BY <1>4, <2>2 DEF PStopRaises
  <1>5. CASE PStopForgetsThread(c)
    <2>1. PerceptionStopReturns(c, TRUE)
      BY <1>5 DEF PStopForgetsThread
    <2>2. /\ pc' \in [Callers -> Labels] /\ errs' \in [Callers -> BOOLEAN]
          /\ RuntimeTyped'
      BY <1>5, <2>1, StopReturnTypes DEF PStopForgetsThread
    <2> QED
      BY <1>5, <2>2 DEF PStopForgetsThread
  <1> QED
    BY <1>1, <1>2, <1>3, <1>4, <1>5 DEF PerceptionStop

\* DeskVisionRuntime.start keeps the types.
LEMMA StartTypes ==
  ASSUME TypeInv, NEW c \in Callers, Start(c)
  PROVE  TypeInv'
  <1> USE DEF TypeInv, TypeOK, RuntimeTyped, SourceTyped, CaptureTyped, WorkerTyped,
              StoreTyped, RequestTyped, CallerTyped, HoldsScene
  <1> USE DEF runtimeVars, sourceVars, captureVars, workerVars, storeVars, setupVars,
              requestVars, callVars
  <1>1. CASE StartChecks(c)
    BY <1>1 DEF StartChecks, Goto, Labels, StartReturns
  <1>2. CASE StartOpens(c)
    BY <1>2 DEF StartOpens, Goto, Labels
  <1>3. CASE StartOpenFails(c)
    BY <1>3 DEF StartOpenFails, Goto, Labels
  <1>4. CASE StartSpawnsCapture(c)
    <2>1. capStop' \in BOOLEAN
      BY <1>4, Zenon DEF StartSpawnsCapture
    <2> QED
      BY <1>4, <2>1 DEF StartSpawnsCapture, NextUnborn, Working, Goto, Labels
  <1>5. CASE StartSpawnsWorker(c)
    <2>1. percStop' \in BOOLEAN
      BY <1>5, Zenon DEF StartSpawnsWorker
    <2> QED
      BY <1>5, <2>1 DEF StartSpawnsWorker, NextUnborn, Working, Goto, Labels
  <1>6. CASE StartWorkerRefused(c)
    <2>1. percStop' \in BOOLEAN
      BY <1>6, Zenon DEF StartWorkerRefused
    <2> QED
      BY <1>6, <2>1 DEF StartWorkerRefused, NextUnborn, Working, Goto, Labels
  <1>7. CASE StartSucceeds(c)
    BY <1>7 DEF StartSucceeds, Goto, Labels, StartReturns
  <1>8. CASE StartCaptureRefused(c)
    <2>1. capStop' \in BOOLEAN
      BY <1>8, Zenon DEF StartCaptureRefused
    <2> QED
      BY <1>8, <2>1 DEF StartCaptureRefused, NextUnborn, Working, Goto, Labels
  <1> QED
    BY <1>1, <1>2, <1>3, <1>4, <1>5, <1>6, <1>7, <1>8 DEF Start

\* The end of a stop keeps the types.
LEMMA StopTailTypes ==
  ASSUME TypeInv, NEW c \in Callers, StopTail(c)
  PROVE  TypeInv'
  <1> USE DEF TypeInv, TypeOK, RuntimeTyped, SourceTyped, CaptureTyped, WorkerTyped,
              StoreTyped, RequestTyped, CallerTyped, HoldsScene
  <1> USE DEF runtimeVars, sourceVars, captureVars, workerVars, storeVars, setupVars,
              requestVars, callVars
  <1>1. CASE TrackerAsks(c)
    BY <1>1 DEF TrackerAsks, Goto, Labels, PercRunning
  <1>2. CASE TrackerCloses(c)
    BY <1>2 DEF TrackerCloses, Goto, Labels
  <1>3. CASE TrackerCloseRaises(c)
    BY <1>3 DEF TrackerCloseRaises, Goto, Labels
  <1>4. CASE StopVerdict(c)
    BY <1>4 DEF StopVerdict, Goto, Labels, StartReturns, CapRunning, PercRunning
  <1> QED
    BY <1>1, <1>2, <1>3, <1>4 DEF StopTail

\* A camera request and the shutdown keep the types.
LEMMA RequestTypes ==
  ASSUME TypeInv, RequestArrives \/ Request \/ ShutdownBegins
  PROVE  TypeInv'
  <1> USE DEF TypeInv, TypeOK, RuntimeTyped, SourceTyped, CaptureTyped, WorkerTyped,
              StoreTyped, RequestTyped, CallerTyped, HoldsScene
  <1> USE DEF runtimeVars, sourceVars, captureVars, workerVars, storeVars, setupVars,
              requestVars, callVars
  <1>1. CASE RequestArrives
    BY <1>1, VisionAssumption DEF RequestArrives, Goto, Labels, Callers
  <1>2. CASE SetupAdopts
    BY <1>2 DEF SetupAdopts, Goto, Labels, Callers, CameraChange
  <1>3. CASE SwitchBegins
    BY <1>3 DEF SwitchBegins, Goto, Labels, Callers
  <1>4. CASE SwitchClearsFrames
    <2>1. started' \in BOOLEAN
      BY <1>4, Zenon DEF SwitchClearsFrames
    <2> QED
      BY <1>4, <2>1 DEF SwitchClearsFrames, Goto, Labels, Callers
  <1>5. CASE SwitchClearsStates
    BY <1>5 DEF SwitchClearsStates, Goto, Labels, Callers
  <1>6. CASE SwitchClearsBundles
    BY <1>6 DEF SwitchClearsBundles, Goto, Labels, Callers
  <1>7. CASE SwitchConfigures
    BY <1>7 DEF SwitchConfigures, Goto, Labels, Callers
  <1>8. CASE RequestApplied
    BY <1>8 DEF RequestApplied, Goto, Labels, Callers
  <1>9. CASE RequestFails
    <2>1. CASE setupCam = camera
      BY <1>9, <2>1 DEF RequestFails, Goto, Labels, Callers
    <2>2. CASE setupCam # camera
      <3>1. PICK outcome \in Outcomes :
              /\ CameraChange(camera, outcome)
              /\ reply' = IF outcome = "yields" THEN "failed" ELSE "unreconciled"
        BY <1>9, <2>2 DEF RequestFails
      <3>2. RequestTyped'
        BY <1>9, <3>1 DEF RequestFails, CameraChange
      <3> QED
        BY <1>9, <3>2 DEF RequestFails, Goto, Labels, Callers
    <2> QED
      BY <2>1, <2>2
  <1>10. CASE ShutdownBegins
    <2>1. CASE closed
      BY <1>10, <2>1 DEF ShutdownBegins, Goto, Labels, Callers
    <2>2. CASE ~closed
      <3>0. errs \in [Callers -> BOOLEAN] /\ FALSE \in BOOLEAN
        BY Zenon
      <3>1. errs' \in [Callers -> BOOLEAN]
        <4>1. errs' = [errs EXCEPT !["main"] = FALSE]
          BY <1>10, <2>2, Zenon DEF ShutdownBegins
        <4> HIDE DEF TypeInv
        <4> QED BY <3>0, <4>1
      <3> QED
        BY <1>10, <2>2, <3>1 DEF ShutdownBegins, Goto, Labels, Callers
    <2> QED
      BY <2>1, <2>2
  <1> QED
    BY <1>1, <1>2, <1>3, <1>4, <1>5, <1>6, <1>7, <1>8, <1>9, <1>10 DEF Request

\* An idle step keeps the types.
LEMMA StutterTypes == TypeInv /\ UNCHANGED vars => TypeInv'
  BY DEF TypeInv, TypeOK, RuntimeTyped, SourceTyped, CaptureTyped, WorkerTyped, StoreTyped,
         RequestTyped, CallerTyped, HoldsScene, vars, runtimeVars, sourceVars, captureVars,
         workerVars, storeVars, setupVars, requestVars, callVars

\* TypeInv is an invariant of the specification.
LEMMA TypesInvariant == Spec => []TypeInv
  <1>1. TypeInv /\ [Next]_vars => TypeInv'
    <2> SUFFICES ASSUME TypeInv, [Next]_vars PROVE TypeInv'
      OBVIOUS
    <2>1. ASSUME NEW t \in Threads, CaptureLoop(t) \/ ReadReturns(t) PROVE TypeInv'
      BY <2>1, CaptureTypes
    <2>2. ASSUME NEW t \in Threads, WorkerLoop(t) \/ WorkGoesStale(t) \/ InferReturns(t)
          PROVE  TypeInv'
      BY <2>2, WorkerTypes
    <2>3. ASSUME NEW c \in Callers, CallerStep(c) PROVE TypeInv'
      BY <2>3, CaptureStopTypes, PerceptionStopTypes, StartTypes, StopTailTypes
         DEF CallerStep
    <2>4. CASE RequestArrives \/ Request \/ ShutdownBegins
      BY <2>4, RequestTypes
    <2>5. CASE Exited \/ UNCHANGED vars
      BY <2>5, StutterTypes DEF Exited
    <2> QED
      BY <2>1, <2>2, <2>3, <2>4, <2>5 DEF Next
  <1> QED
    BY <1>1, InitTypes, PTL DEF Spec

\* Type correctness: no interleaving of the two threads, the two callers and
\* the failures leaves a half-built frame, scene or lifecycle status behind.
THEOREM TypeCorrect == Spec => []TypeOK
  <1>1. TypeInv => TypeOK
    BY DEF TypeInv
  <1> QED
    BY <1>1, TypesInvariant, PTL

-----------------------------------------------------------------------------
\* A lit scene in a worker's hands is of the calibrated camera too.
WorkCalibrated ==
  \A t \in Threads : Lit(work[t].item) => work[t].item.frame.cam = CalibCamera

CalibInv == MappingOpenMeansCalibrated /\ WorkCalibrated /\ HighlightsOnlyCalibrated

\* The mapping is open at first only for the calibrated camera.
LEMMA InitCalib == Init => CalibInv
  BY DEF Init, CalibInv, MappingOpenMeansCalibrated, WorkCalibrated, HighlightsOnlyCalibrated,
         InSwitch, Calibrated, Lit, NoLocal, Callers

\* A step that touches no frame, scene, camera or block keeps CalibInv, as
\* long as it begins no switch.
LEMMA QuietCalib ==
  ASSUME CalibInv, UNCHANGED <<camera, setupCam, block, goal, frames, capFrame, work, states, bundles>>,
         InSwitch' => InSwitch
  PROVE  CalibInv'
  BY DEF CalibInv, MappingOpenMeansCalibrated, WorkCalibrated, HighlightsOnlyCalibrated,
         Calibrated, Lit

\* A caller touches none of them, and only a request begins a switch.
LEMMA CallerQuiet ==
  ASSUME TypeInv, NEW c \in Callers, CallerStep(c)
  PROVE  /\ UNCHANGED <<camera, setupCam, block, goal, frames, capFrame, work, states, bundles>>
         /\ UNCHANGED <<nextId, newest, reply, overtaken>>
         /\ InSwitch' => InSwitch
  <1> USE DEF InSwitch, Callers, TypeInv, TypeOK, CallerTyped, runtimeVars, sourceVars,
              captureVars, workerVars, storeVars, setupVars, requestVars, callVars
  <1>1. CASE CStopSets(c)
    BY <1>1 DEF CStopSets, Goto
  <1>2. CASE CStopSnapshots(c)
    BY <1>2 DEF CStopSnapshots, Goto
  <1>3. CASE CStopJoins(c)
    BY <1>3 DEF CStopJoins, Goto
  <1>4. CASE CStopJoinExpires(c)
    BY <1>4 DEF CStopJoinExpires, Goto
  <1>5. CASE CStopCloses(c)
    BY <1>5 DEF CStopCloses, Goto
  <1>6. CASE CStopCloseRaises(c)
    BY <1>6 DEF CStopCloseRaises, Goto, CaptureStopReturns, StartReturns
  <1>7. CASE CStopJoinExpiresAgain(c)
    BY <1>7 DEF CStopJoinExpiresAgain, Goto, CaptureStopReturns, StartReturns
  <1>8. CASE CStopForgetsThread(c)
    BY <1>8 DEF CStopForgetsThread, Goto, CaptureStopReturns, StartReturns
  <1>9. CASE PStopSets(c)
    BY <1>9 DEF PStopSets, Goto
  <1>10. CASE PStopSnapshots(c)
    BY <1>10 DEF PStopSnapshots, Goto
  <1>11. CASE PStopJoins(c)
    BY <1>11 DEF PStopJoins, Goto
  <1>12. CASE PStopRaises(c)
    BY <1>12 DEF PStopRaises, Goto, PerceptionStopReturns
  <1>13. CASE PStopForgetsThread(c)
    BY <1>13 DEF PStopForgetsThread, Goto, PerceptionStopReturns
  <1>14. CASE StartChecks(c)
    BY <1>14 DEF StartChecks, Goto, StartReturns
  <1>15. CASE StartOpens(c)
    BY <1>15 DEF StartOpens, Goto
  <1>16. CASE StartOpenFails(c)
    BY <1>16 DEF StartOpenFails, Goto
  <1>17. CASE StartSpawnsCapture(c)
    BY <1>17 DEF StartSpawnsCapture, Goto
  <1>18. CASE StartSpawnsWorker(c)
    BY <1>18 DEF StartSpawnsWorker, Goto
  <1>19. CASE StartWorkerRefused(c)
    BY <1>19 DEF StartWorkerRefused, Goto
  <1>20. CASE StartSucceeds(c)
    BY <1>20 DEF StartSucceeds, Goto, StartReturns
  <1>21. CASE TrackerAsks(c)
    BY <1>21 DEF TrackerAsks, Goto
  <1>22. CASE TrackerCloses(c)
    BY <1>22 DEF TrackerCloses, Goto
  <1>23. CASE TrackerCloseRaises(c)
    BY <1>23 DEF TrackerCloseRaises, Goto
  <1>24. CASE StopVerdict(c)
    BY <1>24 DEF StopVerdict, Goto, StartReturns
  <1>25. CASE CStopJoinRaises(c)
    BY <1>25 DEF CStopJoinRaises, Goto, CaptureStopReturns, StartReturns
  <1>26. CASE StartCaptureRefused(c)
    BY <1>26 DEF StartCaptureRefused, Goto
  <1> QED
    BY <1>1, <1>2, <1>3, <1>4, <1>5, <1>6, <1>7, <1>8, <1>9, <1>10, <1>11, <1>12, <1>13,
       <1>14, <1>15, <1>16, <1>17, <1>18, <1>19, <1>20, <1>21, <1>22, <1>23, <1>24, <1>25,
       <1>26
    DEF CallerStep, CaptureStop, PerceptionStop, Start, StopTail

\* Everything the capture thread hands over was read from the calibrated
\* camera while the mapping is open.
LEMMA CaptureCalib ==
  ASSUME TypeInv, CalibInv, NEW t \in Threads, CaptureLoop(t) \/ ReadReturns(t)
  PROVE  CalibInv'
  <1> USE DEF TypeInv, TypeOK, CaptureTyped, runtimeVars, sourceVars, captureVars, workerVars,
              storeVars, setupVars, requestVars, callVars
  <1>1. CASE CapLeavesLoop(t)
    BY <1>1, QuietCalib DEF CapLeavesLoop, InSwitch
  <1>2. CASE CapBeginsRead(t)
    BY <1>2, QuietCalib DEF CapBeginsRead, InSwitch
  <1>3. CASE CapReadFails(t)
    BY <1>3, QuietCalib DEF CapReadFails, InSwitch
  <1>4. CASE CapReleases(t)
    BY <1>4, QuietCalib DEF CapReleases, InSwitch
  <1>5. CASE CapReadsFrame(t)
    <2>1. ~block => [cam |-> camera, id |-> nextId].cam = CalibCamera
      BY DEF CalibInv, MappingOpenMeansCalibrated
    <2>2. \A u \in Threads : ~block => Calibrated(capFrame'[u])
      BY <1>5, <2>1 DEF CapReadsFrame, CalibInv, MappingOpenMeansCalibrated, Calibrated
    <2> QED
      BY <1>5, <2>2
      DEF CapReadsFrame, InSwitch, CalibInv, MappingOpenMeansCalibrated, WorkCalibrated,
          HighlightsOnlyCalibrated, Calibrated, Lit
  <1>6. CASE CapPublishes(t)
    <2>1. \A u \in Threads : ~block => Calibrated(capFrame'[u])
      BY <1>6 DEF CapPublishes, CalibInv, MappingOpenMeansCalibrated, Calibrated
    <2>2. ~block => Calibrated(frames')
      BY <1>6 DEF CapPublishes, CalibInv, MappingOpenMeansCalibrated
    <2> QED
      BY <1>6, <2>1, <2>2
      DEF CapPublishes, InSwitch, CalibInv, MappingOpenMeansCalibrated, WorkCalibrated,
          HighlightsOnlyCalibrated, Calibrated, Lit
  <1> QED
    BY <1>1, <1>2, <1>3, <1>4, <1>5, <1>6 DEF CaptureLoop, ReadReturns

\* What a step of worker t must show of its new locals.
LEMMA WorkCalibStep ==
  ASSUME TypeInv, CalibInv, NEW t \in Threads, NEW l \in Local,
         work' = [work EXCEPT ![t] = l],
         UNCHANGED <<camera, setupCam, block, goal, frames, capFrame, pc>>,
         ~block => /\ Calibrated(l.last)
                   /\ l.item # None => Calibrated(l.item.frame),
         Lit(l.item) => l.item.frame.cam = CalibCamera
  PROVE  MappingOpenMeansCalibrated' /\ WorkCalibrated'
  <1>1. \A u \in Threads : work'[u] = IF u = t THEN l ELSE work[u]
    BY DEF TypeInv, TypeOK, WorkerTyped
  <1>2. WorkCalibrated'
    BY <1>1 DEF CalibInv, WorkCalibrated, Lit
  <1>3. MappingOpenMeansCalibrated'
    BY <1>1 DEF CalibInv, MappingOpenMeansCalibrated, Calibrated, InSwitch
  <1> QED
    BY <1>2, <1>3

\* The worker maps only behind an open guard, and what it carries, keeps or
\* publishes stays of the calibrated camera.
LEMMA WorkerCalib ==
  ASSUME TypeInv, CalibInv, NEW t \in Threads,
         WorkerLoop(t) \/ WorkGoesStale(t) \/ InferReturns(t)
  PROVE  CalibInv'
  <1> USE DEF runtimeVars, sourceVars, captureVars, workerVars, storeVars, setupVars,
              requestVars, callVars
  <1>0. /\ work[t] \in Local
        /\ percPc[t] \in Working => work[t].item \in Scene
        /\ ~block => /\ Calibrated(frames) /\ Calibrated(work[t].last)
                     /\ work[t].item # None => Calibrated(work[t].item.frame)
        /\ Lit(work[t].item) => work[t].item.frame.cam = CalibCamera
        /\ ~block => camera = CalibCamera
    BY DEF TypeInv, TypeOK, WorkerTyped, HoldsScene, CalibInv, MappingOpenMeansCalibrated,
           WorkCalibrated
  <1>1. CASE WorkTimesOut(t)
    BY <1>1, QuietCalib DEF WorkTimesOut, InSwitch
  <1>2. CASE WorkTracks(t)
    BY <1>2, QuietCalib DEF WorkTracks, InSwitch
  <1>3. CASE WorkInfers(t)
    BY <1>3, QuietCalib DEF WorkInfers, InSwitch
  <1>4. CASE WorkTakes(t)
    <2> DEFINE l == Carrying(t, frames, FALSE, "scene")
    <2>1. l \in Local /\ work' = [work EXCEPT ![t] = l]
      BY <1>4, <1>0, CarryingTypes DEF WorkTakes, Newer, TypeInv, TypeOK, WorkerTyped, StoreTyped
    <2>2. /\ ~block => /\ Calibrated(l.last)
                       /\ l.item # None => Calibrated(l.item.frame)
          /\ Lit(l.item) => l.item.frame.cam = CalibCamera
      BY <1>4, <1>0, NoneAssumption DEF WorkTakes, Carrying, Lit, Newer, Calibrated
    <2> HIDE DEF l
    <2>3. MappingOpenMeansCalibrated' /\ WorkCalibrated'
      BY <1>4, <2>1, <2>2, WorkCalibStep DEF WorkTakes
    <2> QED
      BY <1>4, <2>3 DEF WorkTakes, CalibInv, HighlightsOnlyCalibrated, Lit
  <1>5. CASE WorkGoesStale(t)
    <2> DEFINE l == Carrying(t, work[t].last, FALSE, "stale")
    <2>1. l \in Local /\ work' = [work EXCEPT ![t] = l]
      BY <1>5, <1>0, CarryingTypes
      DEF WorkGoesStale, Local, TypeInv, TypeOK, WorkerTyped, StoreTyped
    <2>2. /\ ~block => /\ Calibrated(l.last)
                       /\ l.item # None => Calibrated(l.item.frame)
          /\ Lit(l.item) => l.item.frame.cam = CalibCamera
      BY <1>5, <1>0, NoneAssumption DEF WorkGoesStale, Carrying, Lit, Calibrated
    <2> HIDE DEF l
    <2>3. MappingOpenMeansCalibrated' /\ WorkCalibrated'
      BY <1>5, <2>1, <2>2, WorkCalibStep DEF WorkGoesStale
    <2> QED
      BY <1>5, <2>3 DEF WorkGoesStale, CalibInv, HighlightsOnlyCalibrated, Lit
  <1>6. CASE WorkFails(t)
    <2> DEFINE l == Carrying(t, work[t].item.frame, FALSE, "failed")
    <2>1. l \in Local /\ work' = [work EXCEPT ![t] = l]
      BY <1>6, <1>0, CarryingTypes
      DEF WorkFails, Working, Scene, TypeInv, TypeOK, WorkerTyped, StoreTyped
    <2>2. /\ ~block => /\ Calibrated(l.last)
                       /\ l.item # None => Calibrated(l.item.frame)
          /\ Lit(l.item) => l.item.frame.cam = CalibCamera
      BY <1>6, <1>0, NoneAssumption DEF WorkFails, Carrying, Lit, Working, Scene, Calibrated
    <2> HIDE DEF l
    <2>3. MappingOpenMeansCalibrated' /\ WorkCalibrated'
      BY <1>6, <2>1, <2>2, WorkCalibStep DEF WorkFails
    <2> QED
      BY <1>6, <2>3 DEF WorkFails, CalibInv, HighlightsOnlyCalibrated, Lit
  <1>7. CASE WorkMaps(t)
    <2>0. PICK mapped \in BOOLEAN :
            /\ mapped => GuardOpen
            /\ work' = [work EXCEPT ![t] = Carrying(t, work[t].item.frame, mapped, "scene")]
      BY <1>7 DEF WorkMaps
    <2> DEFINE l == Carrying(t, work[t].item.frame, mapped, "scene")
    <2>a. work[t].item \in Scene /\ work[t].item.frame \in Frame
      BY <1>7, <1>0 DEF WorkMaps, Working, Scene
    <2>1. l \in Local /\ work' = [work EXCEPT ![t] = l]
      BY <2>0, <2>a, CarryingTypes DEF TypeInv, TypeOK, WorkerTyped, StoreTyped
    <2>2. /\ ~block => /\ Calibrated(l.last)
                       /\ l.item # None => Calibrated(l.item.frame)
          /\ Lit(l.item) => l.item.frame.cam = CalibCamera
      BY <2>0, <2>a, <1>0, NoneAssumption DEF GuardOpen, Carrying, Lit, Calibrated
    <2> HIDE DEF l
    <2>3. MappingOpenMeansCalibrated' /\ WorkCalibrated'
      BY <1>7, <2>1, <2>2, WorkCalibStep DEF WorkMaps
    <2> QED
      BY <1>7, <2>3 DEF WorkMaps, CalibInv, HighlightsOnlyCalibrated, Lit
  <1>8. CASE WorkRechecks(t)
    <2> DEFINE l == Carrying(t, work[t].item.frame, work[t].item.hl /\ GuardOpen, "scene")
    <2>a. work[t].item \in Scene /\ work[t].item.frame \in Frame /\ GuardOpen \in BOOLEAN
      BY <1>8, <1>0 DEF WorkRechecks, Working, Scene, GuardOpen
    <2>1. l \in Local /\ work' = [work EXCEPT ![t] = l]
      BY <1>8, <2>a, CarryingTypes DEF WorkRechecks, TypeInv, TypeOK, WorkerTyped, StoreTyped
    <2>2. /\ ~block => /\ Calibrated(l.last)
                       /\ l.item # None => Calibrated(l.item.frame)
          /\ Lit(l.item) => l.item.frame.cam = CalibCamera
      BY <2>a, <1>0, NoneAssumption DEF Carrying, Lit, Calibrated, GuardOpen
    <2> HIDE DEF l
    <2>3. MappingOpenMeansCalibrated' /\ WorkCalibrated'
      BY <1>8, <2>1, <2>2, WorkCalibStep DEF WorkRechecks
    <2> QED
      BY <1>8, <2>3 DEF WorkRechecks, CalibInv, HighlightsOnlyCalibrated, Lit
  <1>9. CASE WorkLoops(t)
    <2> DEFINE l == IF percStop THEN NoLocal ELSE work[t]
    <2>1. l \in Local /\ work' = [work EXCEPT ![t] = l]
      BY <1>9, <1>0
      DEF WorkLoops, NoLocal, Working, Local, Scene, TypeInv, TypeOK, WorkerTyped, StoreTyped
    <2>2. /\ ~block => /\ Calibrated(l.last)
                       /\ l.item # None => Calibrated(l.item.frame)
          /\ Lit(l.item) => l.item.frame.cam = CalibCamera
      BY <1>9, <1>0, NoneAssumption DEF WorkLoops, NoLocal, Working, Lit, Calibrated
    <2> HIDE DEF l
    <2>3. MappingOpenMeansCalibrated' /\ WorkCalibrated'
      BY <1>9, <2>1, <2>2, WorkCalibStep DEF WorkLoops
    <2>4. HighlightsOnlyCalibrated'
      BY <1>9, <1>0 DEF WorkLoops, CalibInv, HighlightsOnlyCalibrated, Lit
    <2> QED
      BY <2>3, <2>4 DEF CalibInv
  <1>10. CASE WorkPublishesState(t)
    <2> DEFINE l == work[t]
    <2>1. l \in Local /\ work' = [work EXCEPT ![t] = l]
      BY <1>10, <1>0
      DEF WorkPublishesState, AfterState, Working, Local, Scene, TypeInv, TypeOK, WorkerTyped,
          StoreTyped
    <2>2. /\ ~block => /\ Calibrated(l.last)
                       /\ l.item # None => Calibrated(l.item.frame)
          /\ Lit(l.item) => l.item.frame.cam = CalibCamera
      BY <1>10, <1>0, NoneAssumption DEF WorkPublishesState, AfterState, Working, Lit, Calibrated
    <2> HIDE DEF l
    <2>3. MappingOpenMeansCalibrated' /\ WorkCalibrated'
      BY <1>10, <2>1, <2>2, WorkCalibStep DEF WorkPublishesState
    <2>4. HighlightsOnlyCalibrated'
      BY <1>10, <1>0 DEF WorkPublishesState, CalibInv, HighlightsOnlyCalibrated, Lit
    <2> QED
      BY <2>3, <2>4 DEF CalibInv
  <1>11. CASE WorkRelays(t)
    <2> DEFINE l == IF work[t].kind = "scene" THEN work[t] ELSE Finished(t)
    <2>1. l \in Local /\ work' = [work EXCEPT ![t] = l]
      BY <1>11, <1>0
      DEF WorkRelays, Finished, Working, Local, Scene, TypeInv, TypeOK, WorkerTyped, StoreTyped
    <2>2. /\ ~block => /\ Calibrated(l.last)
                       /\ l.item # None => Calibrated(l.item.frame)
          /\ Lit(l.item) => l.item.frame.cam = CalibCamera
      BY <1>11, <1>0, NoneAssumption DEF WorkRelays, Finished, Working, Lit, Calibrated
    <2> HIDE DEF l
    <2>3. MappingOpenMeansCalibrated' /\ WorkCalibrated'
      BY <1>11, <2>1, <2>2, WorkCalibStep DEF WorkRelays
    <2>4. HighlightsOnlyCalibrated'
      BY <1>11, <1>0 DEF WorkRelays, CalibInv, HighlightsOnlyCalibrated, Lit
    <2> QED
      BY <2>3, <2>4 DEF CalibInv
  <1>12. CASE WorkPublishesBundle(t)
    <2> DEFINE l == IF work[t].kind = "scene" THEN Finished(t) ELSE work[t]
    <2>1. l \in Local /\ work' = [work EXCEPT ![t] = l]
      BY <1>12, <1>0
      DEF WorkPublishesBundle, Finished, Working, Local, Scene, TypeInv, TypeOK, WorkerTyped,
          StoreTyped
    <2>2. /\ ~block => /\ Calibrated(l.last)
                       /\ l.item # None => Calibrated(l.item.frame)
          /\ Lit(l.item) => l.item.frame.cam = CalibCamera
      BY <1>12, <1>0, NoneAssumption DEF WorkPublishesBundle, Finished, Working, Lit, Calibrated
    <2> HIDE DEF l
    <2>3. MappingOpenMeansCalibrated' /\ WorkCalibrated'
      BY <1>12, <2>1, <2>2, WorkCalibStep DEF WorkPublishesBundle
    <2>4. HighlightsOnlyCalibrated'
      BY <1>12, <1>0 DEF WorkPublishesBundle, CalibInv, HighlightsOnlyCalibrated, Lit
    <2> QED
      BY <2>3, <2>4 DEF CalibInv
  <1> QED
    BY <1>1, <1>2, <1>3, <1>4, <1>5, <1>6, <1>7, <1>8, <1>9, <1>10, <1>11, <1>12
    DEF WorkerLoop, InferReturns

\* A request blocks the mapping before it names another camera.
LEMMA RequestCalib ==
  ASSUME TypeInv, CalibInv, RequestArrives \/ Request \/ ShutdownBegins
  PROVE  CalibInv'
  <1> USE DEF TypeInv, TypeOK, CallerTyped, Callers, Goto, runtimeVars, sourceVars, captureVars,
              workerVars, storeVars, setupVars, requestVars, callVars
  <1>1. CASE SwitchBegins
    <2>1. InSwitch' => InSwitch
      BY <1>1 DEF SwitchBegins, InSwitch
    <2> QED
      BY <1>1, <2>1, QuietCalib DEF SwitchBegins
  <1>2. CASE RequestApplied
    <2>1. InSwitch' => InSwitch
      BY <1>2 DEF RequestApplied, InSwitch
    <2> QED
      BY <1>2, <2>1, QuietCalib DEF RequestApplied
  <1>3. CASE ShutdownBegins
    <2>1. InSwitch' => InSwitch
      BY <1>3 DEF ShutdownBegins, InSwitch
    <2> QED
      BY <1>3, <2>1, QuietCalib DEF ShutdownBegins
  <1>4. CASE RequestArrives
    <2>1. ~InSwitch'
      BY <1>4 DEF RequestArrives, InSwitch
    <2> QED
      BY <1>4, <2>1 DEF RequestArrives, CalibInv, MappingOpenMeansCalibrated, WorkCalibrated,
         HighlightsOnlyCalibrated, Calibrated, Lit
  <1>5. CASE SetupAdopts
    <2>1. PICK outcome \in Outcomes :
            /\ CameraChange(goal, outcome)
            /\ Goto("http", IF outcome = "yields" THEN "switch" ELSE "fail")
      BY <1>5 DEF SetupAdopts
    <2>2. ~block' => /\ ~block
                     /\ setupCam' = CalibCamera
                     /\ InSwitch' => goal = CalibCamera
      BY <1>5, <2>1 DEF SetupAdopts, CameraChange, CalibInv, MappingOpenMeansCalibrated, InSwitch
    <2> QED
      BY <1>5, <2>2 DEF SetupAdopts, CalibInv, MappingOpenMeansCalibrated, WorkCalibrated,
         HighlightsOnlyCalibrated, Calibrated, Lit
  <1>6. CASE SwitchClearsFrames
    <2>1. InSwitch' => InSwitch
      BY <1>6 DEF SwitchClearsFrames, InSwitch
    <2> QED
      BY <1>6, <2>1 DEF SwitchClearsFrames, CalibInv, MappingOpenMeansCalibrated, WorkCalibrated,
         HighlightsOnlyCalibrated, Calibrated, Lit
  <1>7. CASE SwitchClearsStates
    <2>1. InSwitch' => InSwitch
      BY <1>7 DEF SwitchClearsStates, InSwitch
    <2> QED
      BY <1>7, <2>1 DEF SwitchClearsStates, CalibInv, MappingOpenMeansCalibrated, WorkCalibrated,
         HighlightsOnlyCalibrated, Calibrated, Lit
  <1>8. CASE SwitchClearsBundles
    <2>1. InSwitch' => InSwitch
      BY <1>8 DEF SwitchClearsBundles, InSwitch
    <2> QED
      BY <1>8, <2>1 DEF SwitchClearsBundles, CalibInv, MappingOpenMeansCalibrated, WorkCalibrated,
         HighlightsOnlyCalibrated, Calibrated, Lit
  <1>9. CASE SwitchConfigures
    <2>1. ~block => goal = CalibCamera /\ camera' = CalibCamera
      BY <1>9 DEF SwitchConfigures, CalibInv, MappingOpenMeansCalibrated, InSwitch
    <2>2. InSwitch' => InSwitch
      BY <1>9 DEF SwitchConfigures, InSwitch
    <2> QED
      BY <1>9, <2>1, <2>2
      DEF SwitchConfigures, CalibInv, MappingOpenMeansCalibrated, WorkCalibrated,
         HighlightsOnlyCalibrated, Calibrated, Lit
  <1>10. CASE RequestFails
    <2>1. ~InSwitch'
      BY <1>10 DEF RequestFails, InSwitch
    <2>2. ~block' => ~block /\ setupCam' = CalibCamera
      BY <1>10 DEF RequestFails, CameraChange, CalibInv, MappingOpenMeansCalibrated
    <2> QED
      BY <1>10, <2>1, <2>2 DEF RequestFails, CalibInv, MappingOpenMeansCalibrated, WorkCalibrated,
         HighlightsOnlyCalibrated, Calibrated, Lit
  <1> QED
    BY <1>1, <1>2, <1>3, <1>4, <1>5, <1>6, <1>7, <1>8, <1>9, <1>10 DEF Request

\* CalibInv is inductive beside the types.
LEMMA CalibInvariant == Spec => []CalibInv
  <1>1. TypeInv /\ CalibInv /\ [Next]_vars => CalibInv'
    <2> SUFFICES ASSUME TypeInv, CalibInv, [Next]_vars PROVE CalibInv'
      OBVIOUS
    <2>1. ASSUME NEW t \in Threads, CaptureLoop(t) \/ ReadReturns(t) PROVE CalibInv'
      BY <2>1, CaptureCalib
    <2>2. ASSUME NEW t \in Threads, WorkerLoop(t) \/ WorkGoesStale(t) \/ InferReturns(t)
          PROVE  CalibInv'
      BY <2>2, WorkerCalib
    <2>3. ASSUME NEW c \in Callers, CallerStep(c) PROVE CalibInv'
      BY <2>3, CallerQuiet, QuietCalib
    <2>4. CASE RequestArrives \/ Request \/ ShutdownBegins
      BY <2>4, RequestCalib
    <2>5. CASE Exited \/ UNCHANGED vars
      <3>1. UNCHANGED vars
        BY <2>5 DEF Exited
      <3> QED
        BY <3>1, QuietCalib DEF vars, sourceVars, captureVars, workerVars, storeVars, setupVars,
           requestVars, InSwitch
    <2> QED
      BY <2>1, <2>2, <2>3, <2>4, <2>5 DEF Next
  <1> QED
    BY <1>1, InitCalib, TypesInvariant, PTL DEF Spec

\* While the mapping is open, every camera name and every live frame is the
\* calibrated one.
THEOREM OpenMeansCalibrated == Spec => []MappingOpenMeansCalibrated
  <1>1. CalibInv => MappingOpenMeansCalibrated
    BY DEF CalibInv
  <1> QED
    BY <1>1, CalibInvariant, PTL

\* The mapping guard works: no consumer is ever shown highlights mapped on a
\* frame of another camera than the calibrated one.
THEOREM HighlightsCalibrated == Spec => []HighlightsOnlyCalibrated
  <1>1. CalibInv => HighlightsOnlyCalibrated
    BY DEF CalibInv
  <1> QED
    BY <1>1, CalibInvariant, PTL

=============================================================================
