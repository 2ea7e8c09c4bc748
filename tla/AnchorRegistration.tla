------------------------- MODULE AnchorRegistration -------------------------
(***************************************************************************)
(* AnchorRegistrationAccumulator (calibration/anchor_registration.py) with *)
(* the handlers that drive it (calibration/control_plane.py:444-485): from *)
(* partial frames it gathers where each marker lies relative to the        *)
(* reference marker, until enough of them can be saved as the keyboard's   *)
(* anchor reference.                                                       *)
(*                                                                         *)
(* A quad is right or wrong (TRUE): wrong when a frame shows its marker    *)
(* somewhere else, or when the frame was aligned wrongly.  Wrong quads of  *)
(* one marker agree, the worst case for a median.  The small noise of a    *)
(* right quad, and the shape checks a quad may fail at will, are left out. *)
(* Frame numbers of one process never decrease, so a frame seen before is  *)
(* the last one seen, and the source never changes.                        *)
(***************************************************************************)
EXTENDS Naturals, FiniteSets, Sequences

CONSTANTS
  Markers, Reference,   \* marker_key_ids, reference_marker_id
  Required,             \* required_samples
  MaxSamples,           \* max_samples_per_marker
  MinMarkers,           \* minimum_markers
  MaxFrames, MaxGlitches,  \* bounds: frames, and those with a wrong quad
  None

AnchorAssumption ==
  /\ IsFiniteSet(Markers) /\ Reference \in Markers
  /\ Required \in Nat \ {0, 1} /\ MaxSamples \in Nat /\ MaxSamples >= Required
  /\ MinMarkers \in 2 .. Cardinality(Markers)
  /\ MaxFrames \in Nat /\ MaxGlitches \in Nat

VARIABLES
  shot,      \* the latest frame: number, markers seen, of those the wrong ones
  glitches,  \* frames so far with a wrong quad, since the last reset
  lastSeen,  \* _last_frame_id, in _seen_frames
  samples,   \* _samples: the window of each marker
  saved      \* the anchor file: the markers in it, and which lie wrongly

vars == <<shot, glitches, lastSeen, samples, saved>>

-----------------------------------------------------------------------------
Shots ==
  {s \in [id : 1 .. MaxFrames, seen : SUBSET Markers, wrong : SUBSET Markers] :
     s.wrong \subseteq s.seen}

Nothing == [m \in Markers |-> <<>>]

Init ==
  /\ shot = None /\ glitches = 0
  /\ lastSeen = 0 /\ samples = Nothing /\ saved = None

-----------------------------------------------------------------------------
(* _robust: the median of the window, the samples near it, their spread.   *)

Count(m, value) == Cardinality({i \in DOMAIN samples[m] : samples[m][i] = value})

Aggregate(m) == Count(m, TRUE) > Count(m, FALSE)
Inliers(m) == IF Aggregate(m) THEN Count(m, TRUE) ELSE Count(m, FALSE)

\* With as many of either the median lies between them, and the spread is wide.
Stable(m) == Count(m, TRUE) # Count(m, FALSE)

\* A marker stable enough to align by, or to lock.
Ready(m) == Inliers(m) >= Required /\ Stable(m)

-----------------------------------------------------------------------------
(* _alignment_for_frame: right (FALSE) or wrong (TRUE), or refused ({}).   *)

\* Mutant: a marker bridges as soon as it has been seen.
BridgesEarly(s) ==
  IF Reference \in s.seen THEN {Reference} ELSE {m \in s.seen : Stable(m)}
Bridge(s) ==
  IF Reference \in s.seen THEN {Reference} ELSE {m \in s.seen : Ready(m)}

\* A bridge marker's quad and its aggregate disagree when one of them is wrong.
Misleads(s, m) == m \in s.wrong \/ (m # Reference /\ Aggregate(m))

\* Of several bridge markers 0.6 must agree with the alignment found.
Alignments(s) ==
  LET bridge == Bridge(s)
      misled == {m \in bridge : Misleads(s, m)}
      Agreed(S) == bridge # {} /\ 10 * Cardinality(S) >= 6 * Cardinality(bridge)
  IN {wrong \in BOOLEAN : Agreed(IF wrong THEN misled ELSE bridge \ misled)}

\* Mutant: the window is not trimmed.
WindowGrows(w) == w
Window(w) == IF Len(w) > MaxSamples THEN Tail(w) ELSE w

\* Every other marker whose projected quad is plausible gives a sample, and
\* the reference marker the unit square.
Contributes(s, wrong, prepared) ==
  samples' = [m \in Markers |->
    CASE m \in prepared                    -> Window(Append(samples[m], wrong \/ m \in s.wrong))
      [] m = Reference /\ m \in Bridge(s)  -> Window(Append(samples[m], FALSE))
      [] OTHER                              -> samples[m]]

Aligns(s) ==
  \E wrong \in Alignments(s), prepared \in SUBSET (s.seen \ Bridge(s)) :
    /\ s.seen # Bridge(s)
    /\ prepared # {} \/ Reference \in Bridge(s)
    /\ Contributes(s, wrong, prepared)

\* A bridge alignment may fail, and what is projected by it be implausible.
Skips == UNCHANGED samples

\* Mutant: a frame observed again counts again.
AgainToo(s) == TRUE
NotSeen(s) == s.id # lastSeen

\* observe_anchors, on the latest frame.
Observes ==
  /\ shot # None
  /\ lastSeen' = shot.id
  /\ IF NotSeen(shot) THEN Aligns(shot) \/ Skips ELSE UNCHANGED samples
  /\ UNCHANGED <<shot, glitches, saved>>

\* start_anchor_registration(reset), which removes the staged anchor.
Restarts ==
  /\ lastSeen' = 0 /\ samples' = Nothing /\ saved' = None
  /\ glitches' = IF shot # None /\ shot.wrong # {} THEN 1 ELSE 0
  /\ UNCHANGED shot

FrameArrives ==
  \E s \in Shots :
    /\ s.id = IF shot = None THEN 1 ELSE shot.id + 1
    /\ s.wrong # {} => glitches < MaxGlitches
    /\ glitches' = IF s.wrong # {} THEN glitches + 1 ELSE glitches
    /\ shot' = s
    /\ UNCHANGED <<lastSeen, samples, saved>>

\* snapshot: the largest choice of ready markers whose quads lie plausibly, as
\* any may or may not; none without the reference marker.
\* Mutant: markers are chosen that are not ready.
SelectsAny == {C \in SUBSET Markers : Reference \in C /\ Cardinality(C) >= MinMarkers}
Selections ==
  {C \in SUBSET {m \in Markers : Ready(m)} :
     Reference \in C /\ Cardinality(C) >= MinMarkers}

\* build_reference, create_anchor_reference: the aggregates, in the plane of
\* the reference marker's.
Placed(C) == [m \in C |-> Aggregate(m) # Aggregate(Reference)]

\* finalize_anchor.  The registration stays, and may be finalized again.
Finalizes ==
  /\ \E C \in Selections : saved' = Placed(C)
  /\ UNCHANGED <<shot, glitches, lastSeen, samples>>

Next == FrameArrives \/ Observes \/ Restarts \/ Finalizes

Spec == Init /\ [][Next]_vars

-----------------------------------------------------------------------------
TypeOK ==
  /\ shot \in Shots \cup {None} /\ glitches \in 0 .. MaxGlitches
  /\ lastSeen \in 0 .. MaxFrames
  /\ samples \in [Markers -> UNION {[1 .. n -> BOOLEAN] : n \in 0 .. MaxSamples}]
  /\ saved \in {None} \cup UNION {[C -> BOOLEAN] : C \in SUBSET Markers}

\* As long as fewer frames showed a wrong quad than a marker needs samples, no
\* marker that later frames are aligned by, and none in the reference that was
\* saved, is in the wrong place: neither a frame observed twice nor a chain of
\* bridges multiplies one bad frame
\* (calibration/anchor_registration.py:182-189, 276-281, 442-459).
GlitchesDontWin ==
  glitches < Required =>
    /\ \A m \in Markers : Ready(m) => ~Aggregate(m)
    /\ saved # None =>
         \A m \in DOMAIN saved : ~saved[m] /\ Len(samples[m]) >= Required
=============================================================================
