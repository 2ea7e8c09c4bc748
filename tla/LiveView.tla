------------------------------ MODULE LiveView ------------------------------
(***************************************************************************)
(* What the live half promises whoever looks at it, without its threads:   *)
(* two stores, of which the bundle store only ever copies the state store, *)
(* scenes of one camera whose numbers only grow, highlights on the         *)
(* calibrated camera alone, a camera that changes behind two empty stores, *)
(* and an end after which nothing changes any more.  Of all this only the  *)
(* calibrated highlights are left once a shutdown has overtaken a request. *)
(***************************************************************************)
EXTENDS Naturals

CONSTANTS
  Cameras,      \* camera configurations
  FirstCamera,  \* the one the process starts with
  CalibCamera,  \* the one highlights are calibrated for
  Scenes,       \* what may be shown: [frame : [cam, id], hl]
  Blank         \* an empty store

VARIABLES
  camera,  \* the camera that is looked through
  state,   \* what the state store holds
  bundle,  \* what the bundle store holds
  newest,  \* the number of the newest frame shown so far
  closed,  \* the runtime has reported its end
  overtaken  \* the shutdown began beside a camera request

vars == <<camera, state, bundle, newest, closed, overtaken>>

Init ==
  /\ camera = FirstCamera
  /\ state = Blank /\ bundle = Blank
  /\ newest = 0
  /\ closed = FALSE /\ overtaken = FALSE

\* A scene of a newer frame, or an empty one for the newest frame.
Show(scene) ==
  /\ ~closed
  /\ scene.frame.cam = camera
  /\ scene.hl => camera = CalibCamera
  /\ \/ scene.frame.id > newest
     \/ scene.frame.id = newest /\ ~scene.hl
  /\ state' = scene /\ newest' = scene.frame.id
  /\ UNCHANGED <<camera, bundle, closed, overtaken>>

\* The bundle store shows what the state store holds.
Follow ==
  /\ ~closed
  /\ bundle' = state
  /\ UNCHANGED <<camera, state, newest, closed, overtaken>>

Empty ==
  /\ ~closed
  /\ state' = Blank
  /\ UNCHANGED <<camera, bundle, newest, closed, overtaken>>

Switch ==
  /\ ~closed /\ state = Blank /\ bundle = Blank
  /\ camera' \in Cameras
  /\ UNCHANGED <<state, bundle, newest, closed, overtaken>>

\* The last word: both stores agree and are never written again.
Close ==
  /\ ~closed /\ state = bundle
  /\ closed' = TRUE
  /\ UNCHANGED <<camera, state, bundle, newest, overtaken>>

Overtake ==
  /\ ~closed /\ ~overtaken
  /\ overtaken' = TRUE
  /\ UNCHANGED <<camera, state, bundle, newest, closed>>

\* Two callers start and stop the same threads: no order is left, but what
\* is lit is still of the calibrated camera.
LitByRight(item) == item # Blank /\ item.hl => item.frame.cam = CalibCamera
Scramble ==
  /\ overtaken /\ overtaken' = TRUE
  /\ camera' \in Cameras /\ newest' \in Nat /\ closed' \in BOOLEAN
  /\ state' \in Scenes \cup {Blank} /\ LitByRight(state')
  /\ bundle' \in Scenes \cup {Blank} /\ LitByRight(bundle')

Next ==
  \/ \E scene \in Scenes : Show(scene)
  \/ Follow \/ Empty \/ Switch \/ Close \/ Overtake \/ Scramble

Spec == Init /\ [][Next]_vars
=============================================================================
