----------------------------- MODULE KeyMapping -----------------------------
(***************************************************************************)
(* What one frame makes of the keyboard: ProductionMappingPipeline.process *)
(* (perception/pipeline.py) with the ContactMapEvaluator it maps           *)
(* fingertips with (perception/key_candidates.py), and the two readers of  *)
(* the state it emits that check it: RemoteSceneStateEnvelope              *)
(* (transport/remote_inference.py) and the demo's SceneStateAdapter        *)
(* (demo/steamvr_home_hybrid/state_adapter.py).                            *)
(*                                                                         *)
(* Which hand it is, is left out.  The keyboard is a line.  Confidences    *)
(* and weights count tenths, products of them are exact, in units of       *)
(* 1/One.  A landmark has the score of its hand, as MediaPipe reports      *)
(* them.  Fingertips, candidates and highlights are sets: no reader tells  *)
(* their order.  Results of another frame than the one processed raise     *)
(* like a failed call, and are None like one; those of the mapper likewise.*)
(***************************************************************************)
EXTENDS Naturals, Sequences, FiniteSets, Functions

CONSTANTS
  Keys, Samples,     \* the keys, ordered, and where each was touched
  Places, Fingers,
  Scores,            \* confidences of hands and poses
  MaxHands,          \* num_hands
  TopN, MaxDistance, MinScore, MinPose, Weight(_),
  DirectWeight, DirectProbability,   \* ContactMapEvaluatorConfig
  Glow, GlowScale, DirectMin,        \* MappingPipelineConfig
  None

One == 10000

MappingAssumption ==
  /\ Keys \subseteq Nat /\ IsFiniteSet(Keys) /\ Places \subseteq Nat
  /\ IsFiniteSet(Fingers) /\ Cardinality(Fingers) <= 5   \* FINGERTIP_LANDMARKS
  /\ MaxHands \in Nat
  /\ TopN \in Nat \ {0} /\ MaxDistance \in Nat
  /\ \A d \in 0 .. MaxDistance : Weight(d) \in 0 .. 10
  /\ Scores \subseteq 0 .. 10 /\ {MinScore, MinPose, DirectWeight} \subseteq 0 .. 10
  /\ {DirectProbability, DirectMin} \subseteq 0 .. One
  /\ Glow \in BOOLEAN /\ GlowScale \in Nat
  /\ None \notin [usable : BOOLEAN, confidence : 0 .. 10]
  /\ \A k \in Keys : Samples[k] # {} /\ Samples[k] \subseteq Nat

VARIABLES
  input,   \* the frame: hands, pose, and what becomes of its mapping
  scene    \* the SceneState made of it

-----------------------------------------------------------------------------
Hand == [score : Scores, tip : [Fingers -> Places]]

\* A pose is usable when there is any confidence in it; the pose of another
\* anchor than the contact map's is not current.
Pose ==
  {p \in [usable : BOOLEAN, confidence : Scores \cup {0}, current : BOOLEAN] :
     p.usable <=> p.confidence > 0}

\* The guard objects at once, or "late", to the recheck only, whatever the
\* mapper made of the frame; or the mapper "raises", when it is called.
Inputs ==
  [hands : {None} \cup UNION {[1 .. n -> Hand] : n \in 0 .. MaxHands},
   pose  : {None} \cup Pose,
   mapping : {"done", "raises", "late", "objects"}]

-----------------------------------------------------------------------------
(* ContactMapEvaluator.evaluate.                                           *)

Apart(a, b) == IF a < b THEN b - a ELSE a - b

\* The nearest sample of the key.
Distance(k, x) ==
  LET distances == {Apart(s, x) : s \in Samples[k]}
  IN CHOOSE d \in distances : \A e \in distances : d <= e

InReach(x) == {k \in Keys : Distance(k, x) <= MaxDistance}

\* Mutant: by key, whatever the distance.
AheadByKey(j, k, x) == j < k
Ahead(j, k, x) ==
  \/ Distance(j, x) < Distance(k, x)
  \/ Distance(j, x) = Distance(k, x) /\ j < k

\* The place of a key among those in reach.
Rank(k, x) == 1 + Cardinality({j \in InReach(x) : Ahead(j, k, x)})

Candidate(k, rank, x, score, pose) ==
  LET weight == Weight(Distance(k, x))
      probability == 10 * weight * score * pose.confidence
  IN [key |-> k, rank |-> rank, probability |-> probability,
      direct |-> /\ rank = 1
                 /\ weight >= DirectWeight /\ probability >= DirectProbability]

Candidates(x, score, pose) ==
  {Candidate(k, Rank(k, x), x, score, pose) : k \in {k \in InReach(x) : Rank(k, x) <= TopN}}

\* bubble_id.
Bubble(h, f) == <<h, f>>

\* The fingertips that count, each a hand and a finger.
Tips(hands) == {t \in (DOMAIN hands) \X Fingers : hands[t[1]].score >= MinScore}

Predictions(hands, pose) ==
  {[bubble     |-> Bubble(t[1], t[2]),
    confidence |-> hands[t[1]].score,
    candidates |-> Candidates(hands[t[1]].tip[t[2]], hands[t[1]].score, pose)]
   : t \in Tips(hands)}

\* A result that is not usable; what was not mapped has none, read alike.
NoResult == [usable |-> FALSE, predictions |-> {}]

\* Not usable when the anchor changed, or the pose is not good enough.
Evaluate(hands, pose) ==
  IF pose.current /\ pose.usable /\ pose.confidence >= MinPose
    THEN [usable |-> TRUE, predictions |-> Predictions(hands, pose)] ELSE NoResult

-----------------------------------------------------------------------------
(* _highlight_states, aggregate_key_highlights.                            *)

\* Mutant: the intensity of a neighbour is not clamped.
Unclamped(v) == v
Clamp(v) == IF v > One THEN One ELSE v

Intensity(c) ==
  IF c.rank = 1 THEN Clamp(c.probability)
  ELSE Clamp((c.probability * GlowScale) \div 10)

Highlight(c, p) ==
  [key |-> c.key, intensity |-> Intensity(c), contributors |-> {p.bubble},
   direct |-> c.direct /\ Intensity(c) >= DirectMin]

RawHighlights(predictions) ==
  UNION {{Highlight(c, p) : c \in {c \in p.candidates : c.rank = 1 \/ Glow}}
         : p \in predictions}

\* Mutant: the first highlight of a key stands for all of them.
KeepsFirst(raw) == {CHOOSE h \in raw : h.key = k : k \in {h.key : h \in raw}}
\* One highlight for each key: the strongest intensity, direct when one of them
\* is, the contributors of all.
Merged(k, raw) ==
  LET same == {h \in raw : h.key = k}
  IN [key          |-> k,
      intensity    |-> CHOOSE v \in {h.intensity : h \in same} :
                         \A h \in same : h.intensity <= v,
      direct       |-> \E h \in same : h.direct,
      contributors |-> UNION {h.contributors : h \in same}]
Aggregate(raw) == {Merged(k, raw) : k \in {h.key : h \in raw}}

-----------------------------------------------------------------------------
(* process.                                                                *)

Usable(in) == in.hands # None /\ in.pose # None /\ in.pose.usable

\* Mutant: what was mapped before the guard objected is kept.
KeepsLate(in) ==
  IF Usable(in) /\ in.mapping \in {"done", "late"} THEN Evaluate(in.hands, in.pose) ELSE NoResult
Mapped(in) ==
  IF Usable(in) /\ in.mapping = "done" THEN Evaluate(in.hands, in.pose) ELSE NoResult

\* The pose that is told: none that is usable once the guard objects.
PoseState(in) ==
  IF in.pose = None \/ in.mapping \in {"late", "objects"} THEN [usable |-> FALSE, confidence |-> 0]
  ELSE [usable |-> in.pose.usable, confidence |-> in.pose.confidence]

\* _fingertip_states: none of a frame that was not mapped.
Fingertips(result) == IF result.usable THEN result.predictions ELSE {}

Emitted(in) ==
  LET predictions == Fingertips(Mapped(in))
      lit == Aggregate(RawHighlights(predictions))
  IN [hands      |-> IF in.hands = None THEN <<>> ELSE in.hands,
      pose       |-> PoseState(in),
      fingertips |-> predictions,
      highlights |-> lit,
      hovered    |-> lit]

\* KeyboardPoseState takes this pose; KeyCandidateState and FingertipState this
\* fingertip; KeyHighlight and KeyHighlightState this highlight.
PoseTaken(pose) == pose.confidence \in 0 .. 10

FingertipTaken(f) ==
  /\ f.confidence \in 0 .. 10
  /\ \A c \in f.candidates : c.rank > 0 /\ c.probability \in 0 .. One

HighlightTaken(h) == h.intensity \in 0 .. One

Taken(s) ==
  /\ PoseTaken(s.pose)
  /\ \A f \in s.fingertips : FingertipTaken(f)
  /\ \A h \in s.highlights : HighlightTaken(h)

\* SceneState.empty: no keyboard, nothing lit.
Blank ==
  [hands |-> <<>>, pose |-> None, fingertips |-> {}, highlights |-> {}, hovered |-> {}]

\* A constructor that takes no such value raises, and the worker publishes an
\* error in place of the frame.
Scene(in) == LET s == Emitted(in) IN IF Taken(s) THEN s ELSE Blank

Init == input = None /\ scene = None

FrameArrives ==
  /\ input = None
  /\ input' \in Inputs
  /\ UNCHANGED scene

Processes ==
  /\ input # None /\ scene = None
  /\ scene' = Scene(input)
  /\ UNCHANGED input

\* Nothing of a frame is kept for the next one, so that one frame will do.
Next == FrameArrives \/ Processes

Spec == Init /\ [][Next]_<<input, scene>>

-----------------------------------------------------------------------------
(* The readers.                                                            *)

ValidHand(h) == h.score \in 0 .. 10

ValidKeyboard(pose) == pose.usable \in BOOLEAN /\ pose.confidence \in 0 .. 10

\* _validate_highlight; a set of contributors has none twice.
ValidHighlight(h) == h.intensity \in 0 .. One

\* _validate_fingertip and _validate_candidate.
ValidFingertip(f) ==
  /\ f.confidence \in 0 .. 10
  /\ \A c \in f.candidates : c.rank > 0 /\ c.probability \in 0 .. One

\* The protocol's item limits.
WithinLimits(s) ==
  /\ Len(s.hands) <= 2
  /\ Cardinality(s.fingertips) <= 10 /\ Cardinality(s.highlights) <= 256

\* _validate_scene_state.
RemoteAccepts(s) ==
  /\ WithinLimits(s)
  /\ s.pose # None => ValidKeyboard(s.pose)
  /\ \A h \in Range(s.hands) : ValidHand(h)
  /\ \A f \in s.fingertips : ValidFingertip(f)
  /\ \A h \in s.highlights : ValidHighlight(h)
  /\ s.hovered = s.highlights

\* _adapt_state of the demo, for a model of the same revision.
AdapterAccepts(s) ==
  s.pose # None =>
    /\ s.hovered = s.highlights
    /\ s.pose.usable =>
         /\ \A h \in s.highlights : h.key \in Keys /\ ValidHighlight(h)
         /\ \A g, h \in s.highlights : g.key = h.key => g = h

-----------------------------------------------------------------------------
TypeOK ==
  /\ input \in Inputs \cup {None}
  /\ scene # None =>
       /\ scene.pose # None => ValidKeyboard(scene.pose)
       /\ \A h \in scene.highlights : h.key \in Keys /\ h.direct \in BOOLEAN

\* No frame, with any glow and as many hands as the settings allow, is lost to
\* a state that its own constructors refuse; the demo's adapter accepts all
\* that is emitted, no key twice and no intensity above one; and the protocol
\* of remote inference refuses exactly the frames with more than its two hands
\* or 256 keys (state/scene_state.py:146-149, web/settings.py:184,
\* remote_inference.py:439-462, state_adapter.py:465-508).
EmittedIsAccepted ==
  scene # None =>
    /\ scene # Blank /\ AdapterAccepts(scene)
    /\ RemoteAccepts(scene) <=>
         Len(scene.hands) <= 2 /\ Cardinality(scene.highlights) <= 256

Counting == IF input.hands = None THEN {} ELSE Tips(input.hands)

Tip(t) == input.hands[t[1]].tip[t[2]]

\* No other key is nearer to the fingertip, nor as near with a smaller id.
Nearest(k, t) ==
  \A j \in Keys \ {k} :
    \/ Distance(k, Tip(t)) < Distance(j, Tip(t))
    \/ Distance(k, Tip(t)) = Distance(j, Tip(t)) /\ k < j

\* Whatever is lit is lit by fingertips: a direct key by one it is the nearest
\* key of, so that there are no more direct keys than fingertips; every key
\* within reach that is nearest to a fingertip is lit by it, among others, as
\* brightly as it alone would; and nothing is lit without a usable pose of the
\* calibrated anchor, without the mapper's result, or once the guard has objected
\* (perception/pipeline.py:262-301, keyboard/interaction.py:220-253).
HighlightsFollowFingers ==
  scene # None =>
    LET lit == scene.highlights
        contributes(h, t) == Bubble(t[1], t[2]) \in h.contributors
        usable == /\ input.pose # None /\ input.pose.usable /\ input.pose.current
                  /\ input.pose.confidence >= MinPose /\ input.mapping = "done"
    IN /\ \A h \in lit : h.direct =>
            /\ h.intensity >= DirectMin
            /\ \E t \in Counting : contributes(h, t) /\ Nearest(h.key, t)
       /\ Cardinality({h \in lit : h.direct}) <= Cardinality(Counting)
       /\ usable =>
            \A t \in Counting, k \in Keys :
              Nearest(k, t) /\ Distance(k, Tip(t)) <= MaxDistance =>
                \E h \in lit :
                  /\ h.key = k /\ contributes(h, t)
                  /\ h.intensity >= 10 * Weight(Distance(k, Tip(t)))
                       * input.hands[t[1]].score * input.pose.confidence
       /\ ~usable => lit = {}
=============================================================================
