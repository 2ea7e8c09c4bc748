--------------------------- MODULE MCCalibration ---------------------------
(***************************************************************************)
(* The three parts of a keyboard calibration that read frames, in one run. *)
(* A behaviour follows the locator alone, the contact session on a locator *)
(* of its own, or the anchor registration: no two of them share state.     *)
(***************************************************************************)
EXTENDS ContactSession

CONSTANTS
  k1, k2,
  Markers, Reference, Required, MaxSamples, MinMarkers, MaxFrames, MaxGlitches,
  FewPlaces    \* bound: where a quad is measured in a contact session, whose
               \* wall clock is not set back

ASSUME FewPlacesAssumption == FewPlaces \subseteq Places

VARIABLES follows, shot, glitches, lastSeen, samples, saved

Anchors == INSTANCE AnchorRegistration

ASSUME AnchorsAssumption == Anchors!AnchorAssumption

registration == <<shot, glitches, lastSeen, samples, saved>>

MCOrder == <<k1, k2>>

MCInit ==
  /\ SessionInit /\ Anchors!Init
  /\ follows \in {"pose", "contact", "anchors"}

MCNext ==
  \/ follows = "pose" /\ Next /\ UNCHANGED <<session, registration, follows>>
  \/ /\ follows = "contact" /\ SessionNext /\ UNCHANGED <<registration, follows>>
     /\ pose'.place \in FewPlaces \cup {None} /\ behind' = 0
  \/ follows = "anchors" /\ Anchors!Next /\ UNCHANGED <<sessionVars, follows>>

MCSpec == MCInit /\ [][MCNext]_<<sessionVars, registration, follows>>

\* What AnchorRegistration states: few bad frames never put a marker that may
\* be locked in the wrong place (calibration/anchor_registration.py:182-189).
GlitchesDontWin == Anchors!GlitchesDontWin

AllTypesOK == SessionTypeOK /\ Anchors!TypeOK
=============================================================================
