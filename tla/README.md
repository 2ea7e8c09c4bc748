# A verification project for MikoType

MikoType watches a keyboard and a hand with one camera, maps the fingertip to a
key and shows the key in a browser console and, through a bridge, in SteamVR.
This directory models the parts of it whose correctness depends on the order of
events: threads, requests, processes, crashes, clocks and refused disk
operations. The models are TLA+ modules, checked by TLC on small instances; the
theorems are proved by TLAPS for every value of the constants. Paths below are
relative to `src/deskvision/` in the repository unless they say otherwise.

## 1. Inventory

Legend: **M** modelled, **P** partly, **-** not modelled. `PROJECT.json` lists
every component with its files and says what a *partly* leaves out.

| | Component | State it keeps | Operations | What makes it correct |
|---|---|---|---|---|
| M | Runtime lifecycle, `runtime.py` | status, started, closed, config | start, stop, reconfigure_camera | a closed runtime left no thread behind; a camera is configured only at rest |
| M | Camera capture, `video/capture.py`, `opencv_camera.py`, `latest_frame.py` | thread, stop event, open device, frame ids, one-slot frame store | start, run, stop, read, close, configure, publish, clear | one capture thread; no frame of an old camera survives a switch |
| M | Perception worker and pipeline, `perception/worker.py`, `pipeline.py`, `mediapipe_hands.py` | thread, stop event, last frame, stale flag, tracker lock | run, stop, process, publish_stale | highlights only from the calibrated camera and a fresh frame; published frames never go back |
| M | State and bundle stores, `state/`, `transport/local_websocket.py` | newest item, generation counter | publish, clear, wait_for_newer | both stores agree; a consumer may skip but never goes back and sees every clear |
| P | Live camera requests, `runtime_camera.py`, `web/camera.py` | request lock, last error | apply, apply_orientation, apply_view, scan | setup, runtime and saved settings name one camera after every answer |
| P | Keyboard setup, `calibration/control_plane.py`, `_storage.py`, `artifacts.py`, `web/setup.py` | staging files, marker files, cached mapping block, registration, session, locator | save_layout, start/observe/finalize anchors, start/capture/undo/reset contact, apply, camera_change, overview | calibration of another camera never reaches the mapper; staged files belong together; what is offered works |
| M | Marker registration, `calibration/anchor_registration.py`, `anchor_reference.py` | sample windows, last frame, source epoch | observe, reset, build_reference | a frame counts once; few bad frames misplace no marker |
| M | Contact session, `calibration/session.py`, `contact_map.py` | samples per key, paused, draft, final map | resume_or_new, capture, undo, restart, pause, finalize | the draft on disk is the session; samples in calibration order; the map is the draft's |
| P | Keyboard bundle, `keyboard/bundle.py`, `adaptive_model.py` | active files, model, manifest | build_keyboard_bundle | the active files belong together |
| M | ArUco locator, `perception/aruco_keyboard.py` | last good pose, smoothed quad, pending jump, last frame | locate, reset | no pose older than the limits add up to; a jump needs confirmation |
| P | Key candidates, `perception/key_candidates.py`, `keyboard/interaction.py` | none between frames | evaluate, aggregate | what is lit comes from a fingertip; no frame is lost to what it emits |
| P | SteamVR controller, `steamvr/service.py` | latched generation, render cache, settings | status, preview, frame | an expired state never becomes fresh again; picture and flags agree |
| P | Windows bridge, `integrations/steamvr/bridge` | event queue of 64, latest frame, overlay | fetch, gate, render, publish, post events | overlay and pose follow consent; reports are posted in their order; shutdown ends |
| M | Pose channel and driver, `integrations/steamvr/common`, `driver` | shared record, mutex, cached record | publish, read, run frame | no pose is used that is too old or put together of two records (but for what a bridge leaves that dies while it writes, section 4) |
| P | Service start, `main.py`, `web/binding.py` | bound sockets, identity | discover, probe, reserve, serve, shutdown | a service that runs is reused; everything is stopped once |
| P | Settings, `web/settings.py`, `core/config.py` | override file, configured and active configuration | save, reset, accept_active_camera, accept_active_view | the restart flag tells the truth |
| P | Web application and streams, `web/app.py` | stream cursors, `stale_notified` | state and bundle sockets, MJPEG | skipping is allowed, going back or showing stale data is not |
| P | Remote inference transport, `transport/remote_inference.py` | none built in this version | validate, encode, decode | accepts what the pipeline emits |
| P | Demonstrations, `demo/steamvr_home_hybrid/` | active session, last sequence, latest state | ingest, snapshot | the newest state of the active session within its time to live, or nothing |
| P | Frame and platform records, `core/` | none | construction | - |
| - | Layout profiles, diagnostics, assets, devices, geometry, health, browser pages | - | - | one document's validation, input/output, pure floats or user interface |

How they interact. `build_runtime` loads the active calibration files and wires
one camera source, the capture thread, the frame store, the worker with its
pipeline, and the state and bundle stores. The capture thread overwrites the
frame slot; the worker waits for a newer frame, tracks the hand, locates the
keyboard, asks the *mapping guard*, maps, asks it again and publishes to the
state store, the WebSocket relay and the bundle store in that order. The guard
is a callback into keyboard setup that reads one cached value without a lock,
because setup holds its lock while a camera switch joins the worker. HTTP
handlers run in a thread pool: a camera request takes its own lock, then
setup's lock (`camera_change`), and inside it stops both threads, clears the
three stores, configures the source and starts again. Sockets are tasks of one
event loop that wait for a newer generation in other threads. The SteamVR
controller reads the state store under its own lock whenever the Windows bridge
or a page asks. The bridge's transport thread fetches frames and posts events;
its main loop gates the newest frame, shows or hides the overlay and writes the
pose into shared memory, which the driver reads inside `vrserver`. The
process's main thread looks for a running service, binds a port, starts the
runtime, serves, and stops it.

What is hard here: two threads and two callers over shared slots; joins with
deadlines over camera calls that may never return; a result computed before a
switch and published after it; a request that outlives the server's shutdown;
handlers of several file operations that may stop after any of them; a restart
on another camera; a wall clock that is stepped under freshness limits; a
process that dies while it writes shared memory; two processes that look for
each other. `PROJECT.json` lists each under `hazards` at the line where it
bites, with the properties that cover it.

## 2. Modules

| Module | Role |
|---|---|
| `VisionRuntime`, `MCVisionRuntime` | the live half: capture thread, worker, stores, start, stop, camera switch |
| `LiveView` | abstract: what the live half promises whoever looks at it; `VisionRuntime` implements it |
| `KeyboardSetup`, `MCKeyboardSetup` | the files of a calibration, crash by crash |
| `LatestFeed` | abstract: what a one-slot store promises its consumers |
| `StateStreams`, `MCStateStreams` | the stores with their sockets, the video stream and the SteamVR controller; implements `LatestFeed` |
| `SteamVRBridge` | the bridge's frames, overlay and pose record, and the driver |
| `BridgeEvents` | the bridge's event queue |
| `MCSteamVRBridge` | the two in one run |
| `ArucoLocator` | the keyboard's pose over the frames of one camera |
| `ContactSession` | the contact calibration, on a locator; extends `ArucoLocator` |
| `AnchorRegistration` | the markers' places, and the reference saved of them |
| `MCCalibration` | the three in one run |
| `ServiceStartup` | processes that find each other, take ports, save settings |
| `KeyMapping` | what one frame makes of the keyboard, and who accepts it |
| `SceneAdapter` | the renderer's end of the stream |
| `MCServe` | the three in one run |
| `VisionRuntimeProofs` | theorems: types and calibrated highlights of `VisionRuntime` |
| `VisionThreadsProofs` | theorems: its threads, stores and camera names, the bound on every call, and the refinement of `LiveView`; extends the former |
| `KeyboardSetupProofs` | theorems about `KeyboardSetup` |
| `StateStreamsProofs` | theorems about `StateStreams`, with the refinement of `LatestFeed` |
| `SteamVRBridgeProofs` | theorems about `SteamVRBridge` and `BridgeEvents` |
| `ArucoLocatorProofs` | theorems about `ArucoLocator` |
| `CalibrationProofs` | theorems about `ContactSession` and `AnchorRegistration`; extends the former |
| `ServeProofs` | theorems about `ServiceStartup`, `KeyMapping` and `SceneAdapter` |

Three runs hold several components that share no state (`MCSteamVRBridge`,
`MCCalibration`, `MCServe`), and `StateStreams` holds consumers that only read.
There a behaviour follows one of them, the value of `follows` or `who`, and the
others rest: interleaving actors that cannot affect each other would only
multiply states. Components that do interact are composed by actions of one
module: threads and callers in `VisionRuntime`, bridge and driver in
`SteamVRBridge`, session and locator in `ContactSession`, ports and settings in
`ServiceStartup`.

### VisionRuntime

Each thread has a program counter, and a step is the code between two accesses
to shared state. Thread objects are numbers; a start spawns the next one, so a
thread that outlives its join deadline is told from its successor.

| Code | Model |
|---|---|
| `CaptureThread._run` over `OpenCVCameraSource` | `CapBeginsRead`, `CapReadsFrame`, `CapReadFails`, `CapPublishes`, `CapLeavesLoop`, `CapReleases` |
| `LatestFramePerceptionWorker._run` over `ProductionMappingPipeline.process` | `WorkLoops`, `WorkTakes`, `WorkTimesOut`, `WorkGoesStale`, `WorkTracks`, `WorkInfers`, `WorkMaps`, `WorkRechecks`, `WorkFails`, then `WorkPublishesState`, `WorkRelays`, `WorkPublishesBundle` |
| `CaptureThread.stop` | `CStopSets` .. `CStopForgetsThread`: set the event, snapshot the thread, join (`CStopJoinRaises` when the operating system had refused to start it), close the device under a late reader, join again |
| `LatestFramePerceptionWorker.stop` | `PStopSets` .. `PStopForgetsThread` |
| `DeskVisionRuntime.start`, `.stop`, `.reconfigure_camera` | `Start*`, with `StartCaptureRefused`; `ShutdownBegins`, `Tracker*`, `StopVerdict`; `Switch*` |
| `RuntimeCameraSession._apply_camera` around `camera_change` | `RequestArrives`, `SetupAdopts`, `RequestApplied`, `RequestFails` (with the reconciliation of setup's camera) |

Abstractions. A frame is a camera and an id; what the hand and key mathematics
makes of it is a Boolean, "highlights or not". A camera is an element of
`Cameras`: the identity setup compares (device, backend, size, orientation). A
join deadline passes only while a thread sits in a backend call named in
`SlowCalls`: the code in between is short against the deadline. Any read, open,
close, inference, disk call, and the creation of either thread may fail.
`overtaken` is a history: the server's graceful shutdown ended before a camera
request did, and `stop()` began beside it (`main.py:388-400`). The safety
properties but for `HighlightsOnlyCalibrated`, `CamerasAgree` and the bound in
`RequestEnds` are stated up to that moment: afterwards a start may run beside a
stop, and `vision_overlap` shows what comes of it. `Init` is the state after
`build_runtime` and `bind_runtime_camera`; it assumes that a process that starts
on another camera than the calibrated one starts blocked, which is what
`KeyboardSetup` shows of the marker files.

`LiveView` is the same half without threads: a state store, a bundle store that
only copies it, scenes of one camera whose numbers grow, highlights on the
calibrated camera alone, a camera that changes behind two empty stores, and an
end after which nothing is written. A shutdown may overtake a request there too
(`Overtake`); all that is promised after it is that highlights are of the
calibrated camera (`Scramble`). `VisionRuntime` instantiates it with its own
`camera`, `newest`, `closed` and `overtaken`, `states` for `state` and `bundles`
for `bundle`. The two writes of a publication become `Show` and `Follow`, those
of a clear `Empty` and `Follow`, the switch's configuration of the source
`Switch` and the last step of `stop()` `Close`; everything else is a stutter.
`Close` asks that both stores agree, and no step is left after it.

### KeyboardSetup

Every handler holds one lock, so only three things see it half-way: the disk
after a crash, the memory after an exception, and the worker that reads the
cached block. A handler is therefore one step with a *cut*: the number of its
effects that took place. A cut before the last effect leaves `doing = "torn"`,
after which the exception returns (`Raises`) or the process dies (`Dies`). A
cut is only taken before an effect that touches the disk this time (a file
that is not there is not removed). One file is replaced atomically, as
`_storage.py` does it.

| Code | Model |
|---|---|
| `camera_binding.json`, `camera_revalidation_required.json`, `runtime_camera_revalidation_required.json`, `replacement_lineage.json` | `binding`, `marker`, `rtMarker`, `lineage` |
| staged and active layout, anchor reference, contact draft, contact map | `layout`, `anchor`, `draft`, `contact`; `activeLayout`, `activeAnchor`, `activeContact` |
| `_runtime_mapping_block`, `_registration`, `_contact_session`, `_contact_locator` | `block`, `reg`, `ses`, `loc` |
| `_bind_staging_camera` with `_mark_camera_revalidation` | `Binds`; the handlers that need it enter by `Enters`, which picks the handler, then run from `doing` |
| `__init__`, `bind_runtime_camera` | `Boots`, `BindsRuntime`; `BootRefused` when the active files do not belong together |
| `camera_change` around the switch, and the recovery | `ChangeArrives`, `Changes`, `RecoveryArrives`, `Recovers`: between a failed request and its recovery the lock is free and any handler may run |
| `save_layout`, `start_anchor_registration`, `observe_anchors`, `finalize_anchor` | `SavesLayout`, `StartsRegistration`, `Observes`, `Finalizes` |
| `start_contact_calibration`, `capture_contact`, `undo_contact`, `reset_contact_draft` | `StartsContact` / `ContactRefused`, `Captures`, `Undoes`, `Resets` |
| `apply_bundle` with `build_keyboard_bundle` | `Applies` / `ApplyRefused` |
| `overview_state` | `ContactOffered`, `ApplyOffered`, `ContactShownValid` (definitions, read by a property) |

Abstractions. A layout is a configuration with a key inventory and a marker
plan; an anchor reference is a revision; a draft is the number of its samples.
The `cams` of an anchor and of samples are ghosts: the cameras whose frames
they were measured on. No guard reads them. Contents that fail to parse are
left out: every file here was written by this program. The generated model and
its manifest have no variable, because a start repairs them
(`ensure_keyboard_model`). What the registration and the session do sample by
sample is in `AnchorRegistration` and `ContactSession`.

### LatestFeed and StateStreams

`LatestFeed` is the promise: publications are numbered; a reader may skip any,
never goes back, may go dark at any time, lights up again only with a later
publication, and catches up. A clear is a publication of nothing.

| Code | Model |
|---|---|
| `LatestSceneStateStore`, `LatestFrameSceneBundleStore`: publish, clear | `PublishState`, `PublishBundle`; `ClearStates`, `ClearBundles` (the worker and a switch write one store after the other) |
| `wait_for_newer`, `latest_with_generation` | `Wakes`, `WaitsAgain`: generation and item as one pair, which the task may resume with later |
| `/ws/state` | `StateConnects`, `StateSends`, `Disconnects` |
| `/ws/bundle` | `BundleConnects`, `BundleAnswers`, `BundleThrottles`, `BundleRereads`, `BundleTimesOut`, `BundleSends` |
| `SteamVRController._scene`, `render` | `Observed` (latch and deadline), `Rendered` (cache) |
| its `status`, `preview`, `frame` | `ServesStatus`, `ServesPreview`, `ServesFrame` |
| `LatestFrameStore` and the generator of `/stream.mjpg` | `PublishFrame`, `ClearFrames`; `StreamOpens`, `StreamWakes`, `StreamPicks` (the frame of the wait, or the newest after a sleep), `StreamSends`, `StreamCloses` |

A state is a wall-clock time and whether its pose is usable. The time is the one
its consumer reads: the capture of the frame for the controller, which lies any
number of ticks before the publication but not before the capture of the frame
published before it; the emission of the state for the bundle socket. There are
two clocks; the wall clock is stepped once, in either direction, and a frame
captured before the step keeps the old clock's time (`WallAt`). Only the
behaviours that follow the bundle socket write the bundle store. `log`,
`shown`, `vrFrame` and `stream.shown` are histories. A bundle socket that
connects is sent the bundle of its first read before it waits (`greet`). The
video stream reads by frame id, which a clear does not advance: nothing tells
it of a clear, so that its last picture stands until the next frame.

### SteamVRBridge and BridgeEvents

Time is kept as ages in ticks, capped one above the limit they are compared
with; a tick is long against a turn of the main loop (11 ms) and a driver frame,
so both run between two ticks, while a request takes as long as it likes.

| Code | Model |
|---|---|
| `Transport::Work`, `Request`, `DecodeFrame` | `Requests`, `ServiceAnswers`, `RequestFails`, `RefusesFrame`, `Receives` |
| `Run` | `Gates`, `PublishBegins`, `PublishEnds`, `PublishMisses`, `Renders`, `Quits`, `Exits` |
| killed, or an exception; started anew | `Dies`, `Restarts` |
| `PoseChannel::Publish`, `Read` | `Partial` (what `memcpy` leaves), `Reads`; the mutex is free, the bridge's, or abandoned |
| `Provider::RunFrame`, `Keyboard::GetPose` | `RunFrame`, `DriverShows`, `DriverReloads` |
| the local service with its consent | `ServiceChanges` (the environment: `SteamVRController`'s flags, a restart with a new token) |
| `Transport::Event`, `FlushOne`, `Stop` | `MainReports`, `MainStops`, `StopsTransport`; `FlushBegins`, `FlushNothing`, `PostArrives`, `PostFails`, `Wakes` |

The flags of a frame are one level: *blocked*, *pose* (enabled and confirmed),
*live* (and fresh). An event is urgent (put in front) or not. Two of the
ordinary ones are marked, "early" and the next, "late", so that `ReportsInOrder`
can tell which of two arbitrary reports came first; no step looks at the mark.

### ArucoLocator, ContactSession, AnchorRegistration

| Code | Model |
|---|---|
| `ArucoKeyboardLocator.locate` | `Refuses`; `Takes` with `FindsNothing`, `HoldsBack`, `Accepts`, `Singular`, `Raises` |
| `_coast_or_drop`, `_accept_or_gate`, `reset` | `CoastsOrDrops`, `Filtered` with `Confirms`; `Resets` |
| `start_contact_calibration` with `resume_or_new` | `Starts`: `StartsIncomplete`, `StartsComplete`, `StartRefused` |
| `capture_contact`, `undo_last`, `restart_current_key`, `pause`, `reset_contact_draft` | `CapturesContact`, `UndoLast`, `RestartsCurrentKey`, `Pauses`, `ResetsDraft` |
| `_persist`, `finalize` | `Persists` / `PersistRefused`, `Finalizes` |
| `observe_anchors` with `observe`, `_alignment_for_frame`, `_robust` | `Observes` with `Alignments`, `Ready`, `Stable`, `Window` |
| `start_anchor_registration`, `finalize_anchor` with `snapshot`, `build_reference` | `Restarts`, `Finalizes` with `Selections`, `Placed` |

A pose is a place on a line; detection yields some place or none, smoothing
ends somewhere between the old place and the new one. A sample carries the
frame it was seen on as a ghost. A marker's quad is right or wrong; all wrong
quads of a marker agree, the worst case for a median; the shape checks may fail
at will.

### ServiceStartup, KeyMapping, SceneAdapter

| Code | Model |
|---|---|
| `_serve` | `Starts`, `AllAnswered`, `Serves`, `Ends` |
| `discover_mikotype_services`, `probe_mikotype_service`, `reserve_loopback_endpoint` | `ProbesPort` (bind, then release: the prober itself holds the port meanwhile), `IsAnswered`, `IsNotAnswered`, `Reserves` |
| `RuntimeSettingsController._save_unlocked`, `accept_active_camera`, `accept_active_view` | `EditsSettings` by `Writes` or `WritesOnly` (the read-back failed), `Accepts` |
| `RuntimeCameraSession._apply_camera`, `apply_view` | `SwitchesCamera`, `SavesCamera`; `SwitchesView`, `AcceptsView` |
| `ContactMapEvaluator.evaluate` | `InReach`, `Ahead`, `Rank`, `Candidates`, `Predictions`, `Evaluate` |
| `process`, `_highlight_states`, `aggregate_key_highlights` | `Mapped`, `RawHighlights`, `Aggregate`, `Emitted`; `Scene` when the constructors took it, else `Blank` |
| `RemoteSceneStateEnvelope`, the adapter's `_adapt_state` | `RemoteAccepts`, `AdapterAccepts` |
| `SceneStateAdapter.ingest`, `snapshot` | `Calls` (reads the clock), `Ingests` (has the lock); `Asks`, `Answers` |

A configuration is three fields: the port and the two a request may change live.
A frame comes with what becomes of its mapping: it is done, the mapper raises,
or the guard objects, at once or at its recheck. The keyboard of `KeyMapping` is
a line, confidences count tenths, and products are exact. Fingertips, candidates
and highlights are sets: each names its key and its rank, and no reader looks at
their order. A state the adapter can show is known by its source, any other by
`None`.

## 3. Runs

| Run | Expectation | Question |
|---|---|---|
| `vision_switch` | pass, 4.7 million states | do the safety properties hold in every interleaving with two switches, two frames, any call failing or hanging, and a shutdown that overtakes a request? |
| `vision_live` | pass, 41 thousand states | is every camera request answered, and do highlights die with a frozen camera? |
| `vision_dark` | violation | do old highlights disappear after a failed switch, as documented? |
| `vision_late` | violation | does a result that arrives after a camera change fail closed? |
| `vision_overlap` | violation | does a stopped runtime stay stopped? |
| `setup_files` | pass, 4.4 million states | is the calibration that reaches the mapper of the running camera, and are the staged files consistent, with two disk operations refused or two crashes? |
| `setup_layout` | violation | does saving a changed layout always invalidate the staged anchor? |
| `setup_apply` | violation | is apply atomic, as documented? |
| `streams` | pass, 0.6 million states | do sockets, the video stream and the SteamVR controller implement the abstract feed, whatever the order of publications, clears, waits, throttles and clock steps? |
| `bridge` | pass, 1.9 million states | how long do pose and overlay outlive consent, whatever is slow, dead or restarted; and do event reports stay bounded, in order and end? |
| `calibrate` | pass, 1.2 million states | is a pose recent and a jump confirmed; is the contact map the draft's; do a few bad frames stay without effect? |
| `serve` | pass, 2.4 million states | is a running service reused, the restart flag honest, what is emitted accepted, and what is shown the newest? |

Properties, beside one type invariant per module:

| Run | Property | States |
|---|---|---|
| `vision_switch` | `HighlightsOnlyCalibrated` | highlights come from the calibrated camera |
| | `StoresAgree`, `CamerasAgree` | the stores, and the camera's names, agree when nobody is between two writes |
| | `NoThreadLeftBehind`, `ChangedAtRest` | one thread per role; a closed runtime is quiet; source and tracker change only without threads |
| | `ViewIsLive` | the whole implements `LiveView`: what is published is newer than all before, or empty, and of the running camera; the camera changes behind empty stores |
| `vision_live` | `RequestEnds`, `FrozenCameraGoesDark` | liveness; a request is answered, each step leaving it with less to do |
| `setup_files` | `OpenMapperIsCalibrated`, `UnmarkedDiskIsCalibrated` | no calibration of another camera reaches the mapper, now or at the next start |
| | `DraftIsSession`, `OneAnchorThroughout` | session, draft, locator and map belong together |
| | `OfferedStepsWork` | what the overview offers is accepted |
| `streams` | `StreamsAreFeeds` | each socket implements `LatestFeed` with its liveness, the video stream its safety |
| | `FreshFrameIsRecent`, `FrameShowsItsGeneration` | a fresh frame is recent under clock steps, and shows its own generation |
| | `SilenceGoesDark` | the bundle socket does not leave its last picture standing |
| `bridge` | `ShownWithConsent`, `DeadBridgeExpires`, `PoseIsWhole` | bounds on a shown pose; no pose of two records |
| | `QueueKeepsOrder`, `ReportsInOrder` | the queue's bound, and how near the front an urgent event stays; of two ordinary reports the later is never posted first |
| | `StopEnds` | shutdown ends, each step bringing the end nearer |
| `calibrate` | `PoseIsRecent`, `JumpNeedsTwo` | age of a usable pose; confirmation of a jump |
| | `SamplesInOrder`, `MapIsOfDraft` | samples in calibration order, no frame twice; the map beside a draft is its map |
| | `GlitchesDontWin` | fewer bad frames than a marker needs misplace none, not in the saved reference either |
| `serve` | `RunningServiceIsReused` | no second runtime beside a service that ran and answered all along |
| | `RestartFlagHonest` | the flag is up exactly when a restart would change something |
| | `EmittedIsAccepted`, `HighlightsFollowFingers` | no frame is lost to its own constructors, the adapter takes all, and remote inference refuses exactly those beyond its limits; what is lit is what fingers are nearest to |
| | `NewestOrNothing`, `SessionsNeverReturn` | the adapter shows the newest state in time, or nothing, and never goes back to a session |

Some properties of `KeyboardSetup` hold only until a handler raised half-way
(`refused = "none"`), because an exception leaves the old session in memory: what
a refused write or removal makes of a session in progress is not covered by
them. Crashes are, without that condition. `OpenMapperIsCalibrated` and
`UnmarkedDiskIsCalibrated` exclude one case, `refused = "camera"`: a camera
change is refused by the disk after setup adopted the new camera and before it
was bound, the old camera still runs, and the operator registers anchors before
the recovery ran (or after it was refused as well). The anchors are then those
of the old camera under the new camera's name. The program reports this error
and does not prevent it.

Each property has a mutant: a plausible bug in one definition, written next to
it and marked `Mutant:` in the module, that makes the property fail in the same
run.

Bounds, and why they suffice.

* Two cameras: the calibrated one and another. Properties compare a camera with
  the calibrated, bound or configured one; a third adds no comparison.
* `vision_switch`: two requests, so that a switch can undo another and a thread
  abandoned by the first can meet the second; two frames, so that a newer one is
  in the capture thread or the slot while the worker still has the other.
  `Threads` is one more than the requests, the number a behaviour can spawn for
  each role. `MaxOvertakes` is one: the shutdown may overtake the first of the
  two requests, not the second. Few properties say anything of what follows, and
  it is what multiplies states.
  `vision_live` has one of each: the hazard is a call that never returns, and
  more frames only repeat it. No shutdown overtakes the request there: a join may
  then wait for a thread that a start has told to go on, and the model lets a
  join's deadline pass only while the thread sits in a backend call.
* `setup_files`: four layouts (the first, one that moves keys, one with other
  keys, one with other marker positions); two samples, so that a session can be
  empty, started and complete; two new anchors besides the one found at the
  start; one layout save, one camera change and one restart (each restart may
  pick the other camera, so the camera can change and come back); two faults, so
  that a failed recovery or a failed handler after a crash is reached. The
  mirrored second camera makes the rule for a missing baseline ("reflected input
  needs revalidation") meaningful. The two violation runs need less.
* `streams`: three publications or clears (one shown, one skipped, one current),
  a freshness limit of one tick, two ticks, so that a state is fresh, at the
  limit and beyond it, and a wall clock a tick ahead or behind.
* `bridge`: limits of one tick each, so that an age is below, at and above each;
  the number of deaths, restarts, requests and reports is unbounded. Three
  events fill the queue, with one more in flight.
* `calibrate`: four places, of which two are one jitter apart, so that the
  filter can drift between measurements none of which is a jump from the next,
  two within the confirmation limit, and one far from all; five ticks against
  limits of one and two. Two keys of two samples, two starts, two refused
  operations; in a contact session the quad lies in one place and the clock is
  not set back (a pose there is usable or not). Three markers, three samples to
  be ready, a window of four, six frames, two of them bad: a marker can be
  outvoted, bridged by and trimmed.
* `serve`: two processes, three starts, two settings requests, four of both
  together; two automatic ports, one of which another program holds, and one
  outside the range. Three keys, a wide one among them, up to three hands (one
  more than remote inference takes) of one fingertip in four places, a hand below
  and one above the score limit: fingertips are told apart by hand and finger
  alike, so that three hands stand for several fingers as well. Two
  sessions, two sources, two threads, two numbers, three ticks against a time to
  live of two. Symmetry is used for the adapter's sessions, sources and threads;
  the run checks no liveness.

Deadlock is checked in every run but two. A process that has exited, or may not
start any more, stutters by an action of its own (`Exited`, `BootRefused`,
`NoMoreBoots`, `Rests`). `calibrate` and `serve` stop when their bounded clocks
and counters are spent, so that deadlock is not checked there.

Fairness. `vision_live`: every thread and caller that can take a step takes it
(weak fairness: operating-system threads; join deadlines pass). A worker whose
waits keep ending without a newer frame notices the freshness deadline (strong
fairness on `WorkGoesStale`: each wait is timed, and between waits the deadline
is compared again). Inference returns; a camera read need not. No request and
no shutdown is obliged to come. `streams`: the event loop runs a task that can
go on, a wait ends at its timeout, the bridge polls; publications, connections
and clock ticks are not obliged to come. `bridge`: every request and every sleep
of the transport thread is bounded (`WinHttpSetTimeouts`, the time budget), and
after its last event the main thread calls `Stop`; nobody is obliged to stop.

The refinement. `StateFeed`, `BundleFeed` and `VideoFeed` are instances of
`LatestFeed` under the mappings at the end of `StateStreams`: `published` is the
log of the store, `cursor` the generation a consumer last answered for, `view`
what it displays. The state and the bundle socket implement `LatestFeed!Spec`.
The video stream implements its safety only: a cleared frame store leaves the
last picture standing, with nothing newer to catch up with. One consumer per
behaviour is enough, because consumers only read the stores and each has its
own latch, cursor and cache.

## 4. Findings

Disagreements of the code with a line of its documentation, each shown by a run:

* `vision_dark`: `reconfigure_camera` clears the stores only after both stops
  succeeded. If the worker does not stop in time, its last lit state stays in
  the store, although the docstring says "no old highlights survive".
* `vision_late`: the recheck and the publication are two steps. A camera change
  between them lets one lit state out after the block. (A switch that succeeds
  clears it.)
* `vision_overlap`: a camera request that outlives the server's graceful
  shutdown starts the runtime again after `stop()` closed it.
* `setup_layout`: `save_layout` saves the layout before it writes the lineage
  marker and removes the old anchor. After a crash in between, saving again
  finds "nothing changed".
* `setup_apply`: the five active files are replaced one by one. A crash in
  between leaves a set that the next start refuses, before the setup console is
  there to repair it.

Behaviour met while modelling that no document contradicts outright; the models
contain it and the properties are stated around it:

* A bridge that dies inside `memcpy` leaves a half-written record. The driver's
  next read only releases the abandoned mutex; the one after it copies the
  record (`PoseIsWhole` excludes `torn`; the record still expires).
* The event queue drops its *first* event when full, so with an urgent event in
  front it is the urgent one that goes; and a post that fails puts its event in
  front of an urgent one that came meanwhile (`UrgentNearFront` allows one), so
  that "urgent first" (`main.cpp:129-131`) is not quite what happens; ordinary
  reports keep their order (`ReportsInOrder`).
* Nothing tells the video stream of a cleared frame store: after a camera switch
  the last picture of the old camera stands until the new one delivers
  (`ClearFrames`, and why `VideoFeed` is a feed without its liveness).
* The jump gate compares a measurement with the smoothed quad, which also moves on
  frames that yield no pose (a singular homography, an exception after the
  smoothing). Over several of them it can drift a jump away from the last good
  pose, measurement by measurement, and no jump was ever held back.
  `JumpNeedsTwo` asks for another measurement near the new pose since the last
  good one, which the drift provides as well.
* The overview judges the contact step by the contact map when there is one, and
  does not look at the draft beside it. Several handlers cut short one after the
  other can leave a draft of other keys there, which the step then refuses
  (`DraftShown` is the condition of `OfferedStepsWork`).
* Withdrawn consent reaches the driver after the request's time budget and last
  read, the frame's limit and the record's limit together, 4.5 s in the code's
  numbers; the bound of `ShownWithConsent` is attained.
* The coast limit is compared between frame stamps, so a pose may be as old as
  the frame limit, the coast and a clock set-back together (`PoseIsRecent`).
* A calibration that is started again may sample the frame it sampled before;
  within one start it cannot.
* A `finalize` that fails leaves a complete session without a contact map; the
  next start of the calibration writes it.
* Saving any setting writes all of them, a port given on the command line too. Two
  processes with one config file overwrite each other's settings and make each
  other's restart flag old (`behind`). A failed read-back is reported as "could
  not be saved", although it was.
* Two services start if a probe takes longer than its timeout or if both starts
  overlap; a service with other settings is not reused; an automatic start does
  not try a preferred port outside of the range; and one prober's temporary bind
  makes a port look occupied to another.
* Settings allow up to four hands (`web/settings.py:184`), a remote state two: a
  frame with more is refused by `RemoteSceneStateEnvelope`, which nothing in
  this version builds (`EmittedIsAccepted` says exactly which are). The
  neighbour glow may exceed one and is clamped.
* A first message of an older session that was never heard of, delayed, makes
  the adapter switch to it and retire the live one.

## 5. Proofs

Every theorem holds for all values of the constants, from the named assumptions
of its module alone, and for behaviours of any length: the bounds of the runs
are constants like the others. Every safety property of the passing runs is
proved. Each inductive invariant was checked by TLC on the run of its module
before it was proved.

`VisionRuntimeProofs` (from `VisionAssumption`, `NoneAssumption`):
`TypeCorrect`, `OpenMeansCalibrated`, `HighlightsCalibrated`. `TypeOK` is not
inductive: a worker that publishes must hold a scene, not `None`, so `TypeInv`
adds `HoldsScene`. `HighlightsOnlyCalibrated` is not inductive either. A
published state is lit because the worker's scene was; that scene is lit because
the guard was open after inference, and its frame is of the calibrated camera
because the guard was open then. So `CalibInv` is the conjunction of
`MappingOpenMeansCalibrated` (while the guard is open, every frame alive
anywhere is of the calibrated camera), `WorkCalibrated` (a lit scene in a
worker's hands has such a frame, whether or not the guard has closed since), and
the property itself. The important case is `SetupAdopts`: the guard closes
before the camera changes and never opens again in this process.

`VisionThreadsProofs` (the same assumptions): `CameraNamesAgree`,
`CallsEndInBoundedSteps`, `NobodyLeftBehind`, `ChangesAtRest`,
`StoresTellTheSame`, `PublicationsGoForward` and `RuntimeImplementsLiveView`,
each for every behaviour of `Spec`, shutdowns that overtake a request included.
The first two say the same before and after such a shutdown. The others are
about what happens until then, as their properties are: the server's graceful
shutdown has a time limit and a camera request has none, so that afterwards a
start may run beside a stop and they are false (`vision_overlap`).

Two invariants carry them, both of the form `~overtaken => ...`. `ThreadInv`: one
caller is at work (the main thread, once it shuts down, does nothing but end; so
as long as it has not overtaken the request, the request is alone or gone); only
the threads the holders refer to are alive (an abandoned one is still referred
to, because a stop that timed out keeps it, and so is one the operating system
refused to start); the thread a caller took a snapshot of is the holder's
(`StopsItsThread`); and between the stops of a switch and the next start there is
none (`FindsRest`). `StoreInv`, on top of it: everything in a store or a thread's
hands is of the running camera (`Current`), the stores differ only inside a
publication or a clear (`Agreed`), what was cleared stays clear until a start
(`Emptied`), and frames pass from capture thread to slot to worker to store in
the order of their numbers (`CaptureInOrder`, `WorkerInOrder`). `RequestInv`
follows the three names of the camera through a request and needs neither.

`CallsEndInBoundedSteps` is the first conjunct of `RequestEnds`. `StepsLeft`
counts what a caller has before it at most, from the step it is at and the call
it is in: a start that fails goes through both stops, a switch through two stops
and a start, so that a request takes 54 steps at most and a shutdown
13. A request cannot go round in circles, it can only wait.

`RuntimeImplementsLiveView`: every step is a step of `LiveView` or shows nothing
new. It contains what `PublicationsGoForward` says of each publication alone. A
worker's step needs `WorkerInOrder` and `WorkCalibrated` for `Show` and `Agreed`
for `Follow`; `Switch` needs `Emptied`; `Close` needs that no worker is between
two writes when the runtime reports its end, which is `ThreadInv`. From the step
that overtakes a request on, every step is a `Scramble`, whose promise is
`HighlightsOnlyCalibrated`.

`KeyboardSetupProofs` (from `SetupAssumption`, `SetupNoneAssumption`):
`SetupTypeCorrect`, `MapperIsOfItsCamera`, `DiskIsOfItsCamera`,
`OffersAreAccepted`, `DraftFollowsSession`, `SessionIsOfOneAnchor`. `CameraInv`
has six parts. `Bound`: whoever registers or samples has bound the camera
before. `Starting`: what a start has loaded. `NamesAgree`: where setup names
another camera than the source, the mapper is blocked and nothing was measured.
`Measured`: what is registered, sampled, staged, active and loaded is of the
camera it is kept for, each under its own marker file. `Lineage` and
`StagedOfAnchor`: which anchor staged files go back to. Every handler has one
lemma for all its cuts, so that a crash or an exception after any of its
effects is part of the same case. `SessionInv` needs the types and `CameraInv`.

`StateStreamsProofs` (from `StreamsAssumption`): `StreamsTypeCorrect`,
`FreshOverlayIsRecent`, `OverlayShowsItsGeneration`, and
`StreamsImplementFeeds`, the safety half of the refinement (initial states, and
every step a step of `LatestFeed` or a stutter, for each of the three streams).
What a task, a latch or a cache holds is a pair of generation and item as the
store once had it (`Backed`), the cursor is what was shown last, and the
overlay, once dark, stays dark for its generation (`FrameBacked`).
`StreamInOrder` says for the video stream that what it has in hand is newer
than what it shows.

`SteamVRBridgeProofs` (from `BridgeAssumption`, `QueueAssumption`):
`ConsentBoundsDisplay`, `DeadBridgeIsDropped`, `PoseIsOfOnePublish`,
`QueueStaysInOrder`, `ReportsKeepTheirOrder`, `ShutdownIsNear`, and the types.
`Hops` bounds, for each copy of a consent (the service's, the answer under way,
the latest frame, the gate, the record, the driver's copy), how old the consent
is behind it: every hop adds the limit it was accepted under, so that the sum of
the limits is the bound of `ShownWithConsent`. `DeadLeavesAge` and
`TornBehindLock` are about a dead bridge: its record ages with it, and a torn
one lies behind an abandoned mutex. `ReportsKeepTheirOrder` needs only itself
and the types: a post that fails puts its event back in front of everything,
where it was taken from (`PutBackKeeps`), and a full queue drops events but
swaps none. `QueueKeepsOrder` allows one ordinary event in front of an urgent
one, and is not inductive: a post that fails puts its event in front. `QueueInv`
adds that while an ordinary event is out for posting, none is in front of an
urgent one. `StopIsNear` is the first conjunct of `StopEnds`: six steps of the
transport thread are left at most once it is told to stop. It rests on the type
invariant, which says that the main thread tells it only after its own last
event.

`ArucoLocatorProofs` (from `LocatorAssumption`, `LocatorNoneAssumption`):
`LocatorTypeCorrect`, `UsablePoseIsRecent`, `JumpIsConfirmed`. A stamp is ahead
of its time by the set-back at most (`StampsAhead`); the filter lies between two
places no jump apart that were measured since the last good pose or are that
pose (`FilterBracketed`, kept by `DriftStaysBracketed`). An earlier form of
`JumpNeedsTwo` did not allow for drift and held only because the run's places
were too far apart: the proof attempt showed it, and the run has closer places
since.

`CalibrationProofs` (also from `SessionAssumption`, `AnchorsAssumption`,
`FewPlacesAssumption`): `FewGlitchesLose`, `SamplesStayInOrder`,
`MapFollowsDraft`, `CalibrationTypeCorrect`. `FewWrongSamples`: the wrong
samples in a marker's window, and the one a frame not yet observed may add, are
at most the frames with a wrong quad, as long as these are fewer than a marker
needs. The steps count cardinalities of index sets of the window before and
after it is extended and trimmed. From it a marker that is ready has more right
samples than wrong ones, and none is bridged by a wrong one. `SessionInv`:
samples are of no later frame than the locator took last (`Behind`), and a map
that no refused removal left behind is complete and the draft's (`MapAgrees`).

`ServeProofs` (from `ServicesAssumption`, `ReadersAssumption`,
`AdapterAssumption`), in four parts.

* The restart flag: `FlagTellsTheTruth`. `SettingsInv` relates, for each
  process, the file, the configuration it started with, what it told settings,
  and the flag, through the two steps of a live change.
* The search: `NoServiceIsMissed`. `SearchInv` says for a process that looks
  where it is on its list of candidates (`PlaceOf`), and that every service
  that has run all along is at a port still ahead on the list, being asked, or
  found to match (`FoundAt`), so that none is left when it goes on by itself
  (`MissesNone`). That the list has all automatic ports, the preferred one
  first, is a lemma (`PreferringIsWhole`).
* The mapping: `OnlyFingersLight`, and `ReadersAccept`, for any number of hands
  of at most five fingers (`MappingAssumption`: the fingertip landmarks). Its
  last part is an equivalence: remote inference refuses a frame for its hands or
  keys beyond the limits and for nothing else, since two hands have at most ten
  fingertips (`FingertipsAreFew`). One frame is processed at a time, so the
  invariant is that the scene is the one made of the frame; the rest is about
  the operators. A probability is a product of numbers up to one (`WorthTyped`);
  the key of rank one is the one no other is ahead of, and there is one nearest
  key (`FirstLeads`, `NearestIsOne`); the maxima that merging takes exist
  (`LargestExists`); and direct keys are mapped one to one to the fingertips
  they are nearest to (`DirectKeysAreFew`).
* The adapter: `ShownIsNewest`, `NoSessionReturns`. `Knows` relates what the
  adapter keeps to the history: the sessions heard of are the retired ones and
  the active one, which is not retired; the last number claimed is the newest
  state's; what is kept is the state of that number with its own receipt time.

`ServeTypesCorrect`, with `ServiceTypeCorrect` and `AdapterTypeCorrect`, are
the types of all.

Two more properties were corrected because a proof of them failed. An earlier
`OfferedStepsWork` held only because the run allows two faults: with four, a
draft of other keys can lie beside a contact map (section 4). And the properties
of the threads once held in the run only because no shutdown overtook a request
there; now one may, and they say where they end.

Only model-checked: liveness, which is out of the prover's reach (fairness and
ENABLED): `FrozenCameraGoesDark`, `SilenceGoesDark`, and the liveness halves of
`RequestEnds`, `StopEnds` and `StreamsAreFeeds` (their other halves are
`CallsEndInBoundedSteps`, `ShutdownIsNear` and `StreamsImplementFeeds`). No
module a theorem is about declares a recursive operator.

## 6. Plan

Every planned model is there, and every safety and action property of a passing
run is proved. What is left, in this order:

1. What else remains true once a shutdown has overtaken a request, beyond
   `HighlightsOnlyCalibrated`, `CamerasAgree` and `CallsAdvance`: how many
   threads such an end can leave behind, for one.
2. `FrozenCameraGoesDark` and `SilenceGoesDark` have no safety half yet, as
   `RequestEnds` and `StopEnds` have: that a deadline, once it has passed, cannot
   be put off.
3. Shorter proofs: `VisionThreadsProofs` repeats per caller what a lemma on
   program counters could say once.

## 7. Not modelled, and why

Floating-point geometry (homographies, the pose of one frame, the generated
model) is out of TLC's reach and enters as a nondeterministic result; so does
hand tracking. Layout profiles, configuration fields and message formats are
parsed and validated without state: a document is well-formed here, or refused
as a whole. Log collection, asset packaging, device enumeration and the browser
pages are input, output and user interface. The remote inference transport has
no entry point that builds it; only its state validators are used, as a reader.
Marker images and the choice of the physical
right hand change no file. In `interaction.py`, the functions that evaluate
bubbles over a keyboard plane are not called by the pipeline.
