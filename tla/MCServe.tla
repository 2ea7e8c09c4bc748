------------------------------ MODULE MCServe ------------------------------
(***************************************************************************)
(* Three parts around the running service, in one run: services that start *)
(* and save their settings, what a frame makes of the keyboard, and the    *)
(* renderer's end of the stream.  A behaviour follows one of them: no two  *)
(* share state.                                                            *)
(***************************************************************************)
EXTENDS SceneAdapter, TLC

CONSTANTS
  s1, s2, c1, c2, r1, r2,
  p1, p2,
  Procs, AutoPorts, OtherPorts, Commands, ForeignPorts, Values,
  MaxBoots, MaxRequests, MaxEvents, MaxFields, Foreign,
  Keys, Places, Fingers, Scores, MaxHands, TopN, MaxDistance, MinScore, MinPose,
  DirectWeight, DirectProbability, Glow, GlowScale, DirectMin

VARIABLES
  follows,
  override, held, phase, cmd, active, configured, restart, next, waiting,
  matching, strange, live, earlier, behind, boots, requests,
  input, scene

\* Three keys, the middle one a wide one, touched twice.
Samples == <<{1}, {3, 4}, {5}>>

Weight(d) == CASE d = 0 -> 10 [] d = 1 -> 6 [] d = 2 -> 2 [] OTHER -> 0

Services == INSTANCE ServiceStartup
Mapping == INSTANCE KeyMapping

ASSUME ServicesAssumption == Services!ServiceAssumption
ASSUME ReadersAssumption == Mapping!MappingAssumption

MCAutoPorts == <<1, 2>>
MCCommands ==
  {[port |-> None, strict |-> FALSE, workspace |-> 1],
   [port |-> None, strict |-> FALSE, workspace |-> 2],
   [port |-> 2,    strict |-> TRUE,  workspace |-> 1]}

\* Sound: the run checks no liveness.
MCSymmetry ==
  Permutations(Sessions) \cup Permutations(Sources) \cup Permutations(Receivers)

serviceVars ==
  <<override, held, phase, cmd, active, configured, restart, next, waiting,
    matching, strange, live, earlier, behind, boots, requests>>

MCInit ==
  /\ Init /\ Services!ServiceInit /\ Mapping!Init
  /\ follows \in {"ports", "mapping", "adapter"}

MCNext ==
  /\ UNCHANGED follows
  /\ \/ follows = "ports" /\ Services!ServiceNext /\ UNCHANGED <<input, scene, vars>>
     \/ follows = "mapping" /\ Mapping!Next /\ UNCHANGED <<serviceVars, vars>>
     \/ follows = "adapter" /\ Next /\ UNCHANGED <<serviceVars, input, scene>>

MCSpec == MCInit /\ [][MCNext]_<<follows, serviceVars, input, scene, vars>>

\* What ServiceStartup and KeyMapping state: a service that runs is reused
\* (README.md:260-262), the restart flag tells the truth (web/settings.py:453-460),
\* readers accept what the pipeline emits (remote_inference.py:439-462), and
\* highlights come from fingertips (perception/pipeline.py:262-301).
RunningServiceIsReused == Services!RunningServiceIsReused
RestartFlagHonest == Services!RestartFlagHonest
EmittedIsAccepted == Mapping!EmittedIsAccepted
HighlightsFollowFingers == Mapping!HighlightsFollowFingers

AllTypesOK ==
  /\ follows = "ports" => Services!ServiceTypeOK
  /\ follows = "mapping" => Mapping!TypeOK
  /\ follows = "adapter" => TypeOK
=============================================================================
