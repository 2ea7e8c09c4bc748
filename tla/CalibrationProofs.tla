-------------------------- MODULE CalibrationProofs --------------------------
(***************************************************************************)
(* What the anchor registration and the contact session promise for any    *)
(* markers and windows, any inventory of keys and number of samples, and   *)
(* any number of frames, starts and refused disk operations.               *)
(***************************************************************************)
EXTENDS MCCalibration, ArucoLocatorProofs, FiniteSetTheorems, WellFoundedInduction, TLAPS

-----------------------------------------------------------------------------
(* Counting in the window of a marker.                                     *)

\* The wrong samples of a window, and the right ones.
Wrongs(w) == Cardinality({i \in DOMAIN w : w[i] = TRUE})
Rights(w) == Cardinality({i \in DOMAIN w : w[i] = FALSE})

LEMMA SelectionIsFinite ==
  ASSUME NEW w \in Seq(BOOLEAN), NEW S \in SUBSET DOMAIN w
  PROVE  IsFiniteSet(S) /\ Cardinality(S) \in Nat /\ Cardinality(S) <= Len(w)
<1>1. Len(w) \in Nat /\ DOMAIN w = 1 .. Len(w)
  OBVIOUS
<1>2. IsFiniteSet(1 .. Len(w)) /\ Cardinality(1 .. Len(w)) = Len(w)
  <2>1. 1 \in Int /\ Len(w) \in Int
    BY <1>1
  <2>2. /\ IsFiniteSet(1 .. Len(w))
        /\ Cardinality(1 .. Len(w)) = IF 1 > Len(w) THEN 0 ELSE Len(w) - 1 + 1
    BY <2>1, FS_Interval
  <2> QED BY <1>1, <2>2
<1>3. IsFiniteSet(S) /\ Cardinality(S) <= Len(w)
  BY <1>1, <1>2, FS_Subset
<1> QED BY <1>3, FS_CardinalityType

LEMMA CountsAreNat ==
  ASSUME NEW w \in Seq(BOOLEAN)
  PROVE  Wrongs(w) \in Nat /\ Rights(w) \in Nat /\ Rights(w) <= Len(w)
<1>1. /\ {i \in DOMAIN w : w[i] = TRUE} \in SUBSET DOMAIN w
      /\ {i \in DOMAIN w : w[i] = FALSE} \in SUBSET DOMAIN w
  OBVIOUS
<1> QED BY <1>1, SelectionIsFinite DEF Wrongs, Rights

\* A sample more is one wrong sample more, or none.
LEMMA WrongsOfAppend ==
  ASSUME NEW w \in Seq(BOOLEAN), NEW v \in BOOLEAN
  PROVE  /\ Wrongs(Append(w, v)) \in {Wrongs(w), Wrongs(w) + 1}
         /\ ~v => Wrongs(Append(w, v)) = Wrongs(w)
<1> DEFINE S == {i \in DOMAIN w : w[i] = TRUE}
           T == {i \in DOMAIN Append(w, v) : Append(w, v)[i] = TRUE}
           n == Len(w) + 1
<1>1. /\ Len(w) \in Nat /\ DOMAIN w = 1 .. Len(w) /\ DOMAIN Append(w, v) = 1 .. n
      /\ Append(w, v)[n] = v
      /\ \A i \in 1 .. Len(w) : Append(w, v)[i] = w[i]
  OBVIOUS
<1>2. CASE v
  <2>1. T = S \cup {n}
    BY <1>1, <1>2
  <2>2. IsFiniteSet(S)
    <3>1. S \in SUBSET DOMAIN w
      OBVIOUS
    <3> QED BY <3>1, SelectionIsFinite
  <2> HIDE DEF S, T, n
  <2>3. Cardinality(T) \in {Cardinality(S), Cardinality(S) + 1}
    BY <2>1, <2>2, FS_AddElement
  <2> QED BY <1>2, <2>3 DEF S, T, Wrongs
<1>3. CASE ~v
  <2>1. T = S
    BY <1>1, <1>3
  <2> QED BY <2>1 DEF Wrongs
<1> QED BY <1>2, <1>3

\* The oldest sample leaves a full window.
LEMMA WrongsOfTail ==
  ASSUME NEW w \in Seq(BOOLEAN), w # <<>>
  PROVE  Wrongs(Tail(w)) <= Wrongs(w)
<1> DEFINE S == {i \in DOMAIN w : w[i] = TRUE}
           T == {i \in DOMAIN Tail(w) : Tail(w)[i] = TRUE}
           f == [i \in T |-> i + 1]
<1>1. /\ Len(w) \in Nat \ {0} /\ DOMAIN w = 1 .. Len(w) /\ DOMAIN Tail(w) = 1 .. Len(w) - 1
      /\ \A i \in 1 .. Len(w) - 1 : Tail(w)[i] = w[i + 1]
  OBVIOUS
<1>2. \A i \in T : f[i] \in S
  BY <1>1
<1>3. f \in [T -> S] /\ \A i, j \in T : f[i] = f[j] => i = j
  BY <1>1, <1>2
<1>4. f \in Injection(T, S)
  BY <1>3 DEF Injection, IsInjective
<1>5. IsFiniteSet(S)
  <2>1. S \in SUBSET DOMAIN w
    OBVIOUS
  <2> QED BY <2>1, SelectionIsFinite
<1> HIDE DEF f, S, T
<1>6. Cardinality(T) <= Cardinality(S)
  BY <1>4, <1>5, FS_Injection
<1> QED BY <1>6 DEF S, T, Wrongs

LEMMA NoWrongs == Wrongs(<<>>) = 0
<1>1. {i \in DOMAIN <<>> : <<>>[i] = TRUE} = {}
  OBVIOUS
<1> QED BY <1>1, FS_EmptySet DEF Wrongs
-----------------------------------------------------------------------------
(* The anchor registration.                                                *)

\* A frame with a wrong quad that has not been observed yet.
GlitchPending == shot # None /\ shot.wrong # {} /\ lastSeen # shot.id

\* A marker has at most one wrong sample per frame with a wrong quad, as long
\* as these are too few to make a marker ready; and what was saved meanwhile
\* is right, with the samples it was saved from.
FewWrongSamples ==
  glitches < Required =>
    /\ \A m \in Markers : Wrongs(samples[m]) + (IF GlitchPending THEN 1 ELSE 0) <= glitches
    /\ saved # None =>
         \A m \in DOMAIN saved : m \in Markers /\ ~saved[m] /\ Len(samples[m]) >= Required

RegistrationTyped ==
  /\ shot \in Anchors!Shots \cup {None} /\ glitches \in 0 .. MaxGlitches
  /\ lastSeen \in 0 .. MaxFrames
  /\ samples \in [Markers -> Seq(BOOLEAN)]
  /\ \A m \in Markers : Len(samples[m]) <= MaxSamples
  /\ saved \in {None} \cup UNION {[C -> BOOLEAN] : C \in SUBSET Markers}
  /\ shot # None /\ shot.wrong # {} => glitches > 0

RegistrationInv == RegistrationTyped /\ FewWrongSamples

\* The registration's cardinality is the library's.
LEMMA SameFinite == \A S : Anchors!IsFiniteSet(S) <=> IsFiniteSet(S)
  BY DEF Anchors!IsFiniteSet, IsFiniteSet

LEMMA SameCardinality == \A S : Anchors!Cardinality(S) = Cardinality(S)
  BY DEF Anchors!Cardinality, Cardinality

LEMMA AnchorFacts ==
  /\ IsFiniteSet(Markers) /\ Reference \in Markers
  /\ Required \in Nat /\ Required # 0 /\ MaxSamples \in Nat /\ MaxSamples >= Required
  /\ MaxFrames \in Nat /\ MaxGlitches \in Nat
  BY AnchorsAssumption, SameFinite DEF Anchors!AnchorAssumption

\* While glitches are few, a marker that is ready has its quad right.
LEMMA ReadyIsRight ==
  ASSUME RegistrationInv, glitches < Required, NEW m \in Markers, Anchors!Ready(m)
  PROVE  ~Anchors!Aggregate(m) /\ Len(samples[m]) >= Required
<1>1. /\ Anchors!Aggregate(m) <=> Wrongs(samples[m]) > Rights(samples[m])
      /\ Anchors!Inliers(m) = IF Anchors!Aggregate(m) THEN Wrongs(samples[m]) ELSE Rights(samples[m])
  <2>1. /\ Anchors!Count(m, TRUE) = Wrongs(samples[m])
        /\ Anchors!Count(m, FALSE) = Rights(samples[m])
    BY SameCardinality DEF Anchors!Count, Wrongs, Rights
  <2> QED BY <2>1, Zenon DEF Anchors!Aggregate, Anchors!Inliers
<1>2. samples[m] \in Seq(BOOLEAN) /\ glitches \in Nat
  BY AnchorFacts DEF RegistrationInv, RegistrationTyped
<1>3. /\ Wrongs(samples[m]) \in Nat /\ Rights(samples[m]) \in Nat
      /\ Rights(samples[m]) <= Len(samples[m])
  BY <1>2, CountsAreNat
<1>4. Wrongs(samples[m]) <= glitches
  BY <1>2, <1>3 DEF RegistrationInv, FewWrongSamples
<1>5. ~Anchors!Aggregate(m)
  BY <1>1, <1>2, <1>3, <1>4, AnchorFacts DEF Anchors!Ready
<1>6. Rights(samples[m]) >= Required
  BY <1>1, <1>5 DEF Anchors!Ready
<1> QED BY <1>2, <1>3, <1>5, <1>6, AnchorFacts

\* ... so a frame without a wrong quad is aligned rightly.
LEMMA CleanFrameAligns ==
  ASSUME RegistrationInv, glitches < Required, NEW s \in Anchors!Shots, s.wrong = {}
  PROVE  TRUE \notin Anchors!Alignments(s)
<1> DEFINE bridge == Anchors!Bridge(s)
           misled == {m \in bridge : Anchors!Misleads(s, m)}
<1>1. bridge \subseteq Markers
  BY DEF Anchors!Bridge, Anchors!Shots
<1>2. \A m \in bridge : m = Reference \/ Anchors!Ready(m)
  BY DEF Anchors!Bridge
<1>3. misled = {}
  BY <1>1, <1>2, ReadyIsRight DEF Anchors!Misleads
<1>4. IsFiniteSet(bridge)
  BY <1>1, FS_Subset, AnchorFacts
<1>5. Cardinality(misled) = 0
  BY <1>3, FS_EmptySet
<1>6. bridge # {} => Cardinality(bridge) \in Nat /\ Cardinality(bridge) # 0
  BY <1>4, FS_EmptySet, FS_CardinalityType
<1>7. ~(bridge # {} /\ 10 * Cardinality(misled) >= 6 * Cardinality(bridge))
  BY <1>5, <1>6
<1> QED BY <1>7, SameCardinality DEF Anchors!Alignments

\* One sample more for a marker, or none.
LEMMA OneSampleMore ==
  ASSUME RegistrationTyped, NEW m \in Markers, NEW v \in BOOLEAN,
         NEW w, w = Anchors!Window(Append(samples[m], v))
  PROVE  /\ w \in Seq(BOOLEAN) /\ Len(w) <= MaxSamples
         /\ Len(samples[m]) >= Required => Len(w) >= Required
         /\ Wrongs(w) \in Nat
         /\ Wrongs(w) <= Wrongs(samples[m]) + 1
         /\ ~v => Wrongs(w) <= Wrongs(samples[m])
<1> DEFINE a == Append(samples[m], v)
<1>1. samples[m] \in Seq(BOOLEAN) /\ Len(samples[m]) <= MaxSamples
  BY DEF RegistrationTyped
<1>2. a \in Seq(BOOLEAN) /\ Len(a) = Len(samples[m]) + 1 /\ Len(a) \in Nat \ {0}
  BY <1>1
<1>3. /\ Wrongs(a) \in {Wrongs(samples[m]), Wrongs(samples[m]) + 1}
      /\ ~v => Wrongs(a) = Wrongs(samples[m])
  BY <1>1, WrongsOfAppend
<1>4. Wrongs(samples[m]) \in Nat
  BY <1>1, CountsAreNat
<1> HIDE DEF a
<1>5. w = a \/ (w = Tail(a) /\ Len(a) > MaxSamples)
  BY DEF Anchors!Window, a
<1>6. w \in Seq(BOOLEAN) /\ Wrongs(w) <= Wrongs(a)
  <2>1. CASE w = a
    BY <1>2, <1>3, <1>4, <2>1
  <2>2. CASE w = Tail(a)
    <3>1. a # <<>>
      BY <1>2
    <3> QED BY <1>2, <2>2, <3>1, WrongsOfTail
  <2> QED BY <1>5, <2>1, <2>2
<1>7. Len(w) <= MaxSamples /\ (Len(samples[m]) >= Required => Len(w) >= Required)
  BY <1>1, <1>2, <1>5, AnchorFacts DEF Anchors!Window, a
<1>8. Wrongs(w) \in Nat
  BY <1>6, CountsAreNat
<1> QED BY <1>3, <1>4, <1>6, <1>7, <1>8

LEMMA RegistrationStarts == ASSUME Anchors!Init PROVE RegistrationInv
<1>1. \A m \in Markers : samples[m] = <<>>
  BY DEF Anchors!Init, Anchors!Nothing
<1>2. Wrongs(<<>>) = 0
  BY NoWrongs
<1>3. RegistrationTyped
  BY <1>1, AnchorFacts DEF RegistrationTyped, Anchors!Init, Anchors!Nothing
<1>4. FewWrongSamples
  BY <1>1, <1>2 DEF FewWrongSamples, GlitchPending, Anchors!Init
<1> QED BY <1>3, <1>4 DEF RegistrationInv

\* What observing the latest frame adds to a marker's window.
LEMMA ObservedWindow ==
  ASSUME RegistrationInv, Anchors!Observes, NEW m \in Markers
  PROVE  /\ samples' \in [Markers -> Seq(BOOLEAN)] /\ Len(samples'[m]) <= MaxSamples
         /\ Len(samples[m]) >= Required => Len(samples'[m]) >= Required
         /\ Wrongs(samples'[m]) \in Nat
         /\ Wrongs(samples'[m]) <=
              Wrongs(samples[m]) + (IF GlitchPending /\ glitches < Required THEN 1 ELSE 0)
            \/ glitches >= Required
<1>1. /\ shot # None /\ shot \in Anchors!Shots /\ lastSeen' = shot.id
      /\ RegistrationTyped /\ samples \in [Markers -> Seq(BOOLEAN)]
  BY DEF Anchors!Observes, RegistrationInv, RegistrationTyped
<1>2. Len(samples[m]) <= MaxSamples /\ Wrongs(samples[m]) \in Nat /\ glitches \in Nat
  BY <1>1, CountsAreNat, AnchorFacts DEF RegistrationTyped
<1>3. CASE UNCHANGED samples
  BY <1>1, <1>2, <1>3
<1>4. CASE ~UNCHANGED samples
  <2>1. Anchors!NotSeen(shot) /\ Anchors!Aligns(shot)
    BY <1>4 DEF Anchors!Observes, Anchors!Skips
  <2>2. PICK wrong \in Anchors!Alignments(shot), prepared \in SUBSET (shot.seen \ Anchors!Bridge(shot)) :
          Anchors!Contributes(shot, wrong, prepared)
    BY <2>1 DEF Anchors!Aligns
  <2>3. wrong \in BOOLEAN
    BY DEF Anchors!Alignments
  <2>4. samples' = [k \in Markers |->
          CASE k \in prepared -> Anchors!Window(Append(samples[k], wrong \/ k \in shot.wrong))
            [] k = Reference /\ k \in Anchors!Bridge(shot) -> Anchors!Window(Append(samples[k], FALSE))
            [] OTHER -> samples[k]]
    BY <2>2 DEF Anchors!Contributes
  <2>5. ASSUME NEW k \in Markers
        PROVE  \/ UNCHANGED samples[k]
               \/ \E v \in BOOLEAN : /\ samples'[k] = Anchors!Window(Append(samples[k], v))
                                     /\ v => wrong \/ k \in shot.wrong
    <3>1. CASE k \in prepared
      <4>1. samples'[k] = Anchors!Window(Append(samples[k], wrong \/ k \in shot.wrong))
        BY <2>4, <3>1
      <4>2. (wrong \/ k \in shot.wrong) \in BOOLEAN
        OBVIOUS
      <4> QED BY <4>1, <4>2, Zenon
    <3>2. CASE k \notin prepared /\ k = Reference /\ k \in Anchors!Bridge(shot)
      <4>1. samples'[k] = Anchors!Window(Append(samples[k], FALSE))
        BY <2>4, <3>2
      <4> QED BY <4>1, Zenon
    <3>3. CASE k \notin prepared /\ ~(k = Reference /\ k \in Anchors!Bridge(shot))
      BY <2>4, <3>3
    <3> QED BY <3>1, <3>2, <3>3
  <2>6. \A k \in Markers : samples'[k] \in Seq(BOOLEAN)
    <3> TAKE k \in Markers
    <3> QED BY <1>1, <2>5, OneSampleMore
  <2>7. samples' \in [Markers -> Seq(BOOLEAN)]
    BY <2>4, <2>6
  <2>8. glitches < Required /\ ~GlitchPending => ~wrong /\ shot.wrong = {}
    <3>1. shot.wrong # {} => GlitchPending
      BY <1>1, <2>1 DEF GlitchPending, Anchors!NotSeen
    <3> QED BY <1>1, <2>2, <2>3, <3>1, CleanFrameAligns
  <2>9. CASE UNCHANGED samples[m]
    BY <1>2, <2>7, <2>9
  <2>10. CASE ~UNCHANGED samples[m]
    <3>1. PICK v \in BOOLEAN : /\ samples'[m] = Anchors!Window(Append(samples[m], v))
                               /\ v => wrong \/ m \in shot.wrong
      BY <2>5, <2>10
    <3>2. glitches < Required /\ ~GlitchPending => ~v
      BY <2>8, <3>1
    <3>3. /\ Len(samples'[m]) <= MaxSamples
          /\ Len(samples[m]) >= Required => Len(samples'[m]) >= Required
          /\ Wrongs(samples'[m]) \in Nat
          /\ Wrongs(samples'[m]) <= Wrongs(samples[m]) + 1
          /\ ~v => Wrongs(samples'[m]) <= Wrongs(samples[m])
      BY <1>1, <3>1, OneSampleMore
    <3> QED BY <1>2, <2>7, <3>2, <3>3, AnchorFacts
  <2> QED BY <2>9, <2>10
<1> QED BY <1>3, <1>4

LEMMA RegistrationStep ==
  ASSUME RegistrationInv, Anchors!Next
  PROVE  RegistrationInv'
<1>0. RegistrationTyped /\ FewWrongSamples
  BY DEF RegistrationInv
<1>1. CASE Anchors!FrameArrives
  <2>1. PICK s \in Anchors!Shots :
          /\ s.wrong # {} => glitches < MaxGlitches
          /\ glitches' = IF s.wrong # {} THEN glitches + 1 ELSE glitches
          /\ shot' = s
          /\ UNCHANGED <<lastSeen, samples, saved>>
    BY <1>1 DEF Anchors!FrameArrives
  <2>2. glitches \in Nat /\ \A m \in Markers : Wrongs(samples[m]) \in Nat
    BY <1>0, CountsAreNat, AnchorFacts DEF RegistrationTyped
  <2>3. RegistrationTyped'
    BY <1>0, <2>1, AnchorFacts DEF RegistrationTyped, Anchors!Shots
  <2>4. FewWrongSamples'
    BY <1>0, <2>1, <2>2, AnchorFacts DEF FewWrongSamples, GlitchPending
  <2> QED BY <2>3, <2>4 DEF RegistrationInv
<1>2. CASE Anchors!Observes
  <2>1. shot # None /\ lastSeen' = shot.id /\ UNCHANGED <<shot, glitches, saved>>
    BY <1>2 DEF Anchors!Observes
  <2>2. ~GlitchPending' /\ shot \in Anchors!Shots
    BY <1>0, <2>1 DEF GlitchPending, RegistrationTyped
  <2>3. RegistrationTyped'
    <3>1. samples' \in [Markers -> Seq(BOOLEAN)] /\ \A m \in Markers : Len(samples'[m]) <= MaxSamples
      BY <1>2, ObservedWindow, AnchorFacts
    <3>2. lastSeen' \in 0 .. MaxFrames
      BY <2>1, <2>2, AnchorFacts DEF Anchors!Shots
    <3> QED BY <1>0, <2>1, <3>1, <3>2 DEF RegistrationTyped
  <2>4. FewWrongSamples'
    <3> SUFFICES ASSUME glitches < Required PROVE FewWrongSamples'
      BY <2>1 DEF FewWrongSamples
    <3>1. glitches \in Nat
      BY <1>0, AnchorFacts DEF RegistrationTyped
    <3>2. ASSUME NEW m \in Markers
          PROVE  Wrongs(samples'[m]) <= glitches
      <4>1. Wrongs(samples'[m]) \in Nat /\ Wrongs(samples[m]) \in Nat
        BY <1>0, <1>2, CountsAreNat, ObservedWindow DEF RegistrationTyped
      <4>2. Wrongs(samples[m]) + (IF GlitchPending THEN 1 ELSE 0) <= glitches
        BY <1>0 DEF FewWrongSamples
      <4>3. Wrongs(samples'[m]) <= Wrongs(samples[m]) + (IF GlitchPending THEN 1 ELSE 0)
        BY <1>2, <3>1, ObservedWindow, AnchorFacts
      <4> QED BY <3>1, <4>1, <4>2, <4>3
    <3>3. \A m \in Markers : Len(samples[m]) >= Required => Len(samples'[m]) >= Required
      BY <1>2, ObservedWindow
    <3> QED BY <1>0, <2>1, <2>2, <3>1, <3>2, <3>3, CountsAreNat, <2>3
            DEF FewWrongSamples, RegistrationTyped
  <2> QED BY <2>3, <2>4 DEF RegistrationInv
<1>3. CASE Anchors!Restarts
  <2>1. /\ lastSeen' = 0 /\ samples' = Anchors!Nothing /\ saved' = None /\ UNCHANGED shot
        /\ glitches' = IF shot # None /\ shot.wrong # {} THEN 1 ELSE 0
    BY <1>3 DEF Anchors!Restarts
  <2>2. \A m \in Markers : samples'[m] = <<>>
    BY <2>1 DEF Anchors!Nothing
  <2>3. Wrongs(<<>>) = 0
    BY NoWrongs
  <2>4. FewWrongSamples'
    BY <2>1, <2>2, <2>3 DEF FewWrongSamples, GlitchPending
  <2>5. RegistrationTyped'
    BY <1>0, <2>1, <2>2, AnchorFacts DEF RegistrationTyped, Anchors!Nothing
  <2> QED BY <2>4, <2>5 DEF RegistrationInv
<1>4. CASE Anchors!Finalizes
  <2>1. PICK C \in Anchors!Selections : saved' = Anchors!Placed(C)
    BY <1>4 DEF Anchors!Finalizes
  <2>2. UNCHANGED <<shot, glitches, lastSeen, samples>>
    BY <1>4 DEF Anchors!Finalizes
  <2>3. C \in SUBSET Markers /\ Reference \in C /\ \A m \in C : Anchors!Ready(m)
    BY DEF Anchors!Selections
  <2>4. saved' \in [C -> BOOLEAN] /\ \A m \in C : saved'[m] = (Anchors!Aggregate(m) # Anchors!Aggregate(Reference))
    BY <2>1 DEF Anchors!Placed
  <2>5. RegistrationTyped'
    BY <1>0, <2>2, <2>3, <2>4 DEF RegistrationTyped
  <2>6. glitches < Required =>
          \A m \in DOMAIN saved' : m \in Markers /\ ~saved'[m] /\ Len(samples[m]) >= Required
    <3> SUFFICES ASSUME glitches < Required, NEW m \in C
                 PROVE  m \in Markers /\ ~saved'[m] /\ Len(samples[m]) >= Required
      BY <2>4
    <3>1. /\ ~Anchors!Aggregate(m) /\ ~Anchors!Aggregate(Reference)
          /\ Len(samples[m]) >= Required
      BY <2>3, ReadyIsRight
    <3>2. ~saved'[m]
      <4>1. /\ Anchors!Aggregate(m) \in BOOLEAN
            /\ Anchors!Aggregate(Reference) \in BOOLEAN
        BY SMT DEF Anchors!Aggregate
      <4>2. Anchors!Aggregate(m) = Anchors!Aggregate(Reference)
        BY <3>1, <4>1, Zenon
      <4> QED BY <2>4, <4>2, Zenon
    <3> QED BY <2>3, <3>1, <3>2
  <2>7. FewWrongSamples'
    BY <1>0, <2>2, <2>6 DEF FewWrongSamples, GlitchPending
  <2> QED BY <2>5, <2>7 DEF RegistrationInv
<1> QED BY <1>1, <1>2, <1>3, <1>4 DEF Anchors!Next

-----------------------------------------------------------------------------
(* The keys in calibration order.                                          *)

LEMMA LeastExists ==
  ASSUME NEW S \in SUBSET Nat, S # {}
  PROVE  \E x \in S : \A y \in S : x <= y
<1> DEFINE R == {p \in Nat \X Nat : p[1] < p[2]}
<1>1. IsWellFoundedOn(R, Nat)
  BY NatLessThanWellFounded DEF OpToRel
<1>2. \A x, y \in Nat : x < y => <<x, y>> \in R
  OBVIOUS
<1> HIDE DEF R
<1>3. PICK x \in S : \A y \in S : ~(<<y, x>> \in R)
  BY <1>1, WFMin
<1>4. \A y \in S : x <= y
  <2> TAKE y \in S
  <2>1. x \in Nat /\ y \in Nat
    OBVIOUS
  <2>2. ~(y < x)
    BY <1>2, <1>3, <2>1
  <2> QED BY <2>1, <2>2
<1> QED BY <1>4

LEMMA GreatestExists ==
  ASSUME NEW n \in Nat, NEW S \in SUBSET (1 .. n), S # {}
  PROVE  \E x \in S : \A y \in S : x >= y
<1> DEFINE T == {k \in Nat : n - k \in S}
<1>1. T \in SUBSET Nat /\ T # {}
  <2>1. PICK x \in S : TRUE
    OBVIOUS
  <2>2. n - x \in Nat /\ n - (n - x) = x
    BY <2>1
  <2> QED BY <2>1, <2>2
<1>2. PICK k \in T : \A l \in T : k <= l
  <2> HIDE DEF T
  <2> QED BY <1>1, LeastExists
<1>3. \A y \in S : n - y \in T
  <2> TAKE y \in S
  <2>1. n - y \in Nat /\ n - (n - y) = y
    OBVIOUS
  <2> QED BY <2>1
<1>4. n - k \in S /\ k \in Nat
  OBVIOUS
<1>5. \A y \in S : n - k >= y
  <2> TAKE y \in S
  <2>1. k <= n - y
    BY <1>2, <1>3
  <2> QED BY <1>4, <2>1
<1> QED BY <1>4, <1>5

SamplesTyped(s) ==
  s \in [Keys -> Seq(Sample)] /\ \A k \in Keys : Len(s[k]) <= SamplesPerKey

LEMMA OrderFacts ==
  /\ Len(Order) \in Nat /\ DOMAIN Order = 1 .. Len(Order)
  /\ \A i \in DOMAIN Order : Order[i] \in Keys
  /\ \A i, j \in DOMAIN Order : Order[i] = Order[j] => i = j
  /\ \A k \in Keys : \E i \in DOMAIN Order : k = Order[i]
  /\ SamplesPerKey \in Nat /\ SamplesPerKey # 0 /\ MaxStarts \in Nat /\ MaxRefusals \in Nat
BY SessionAssumption DEF SessionAssumption, Keys, ToSet, IsInjective

\* The current key lacks samples, and every key before it has them all.
LEMMA CurrentKeyIsFirst ==
  ASSUME NEW s, SamplesTyped(s), ~Complete(s)
  PROVE  /\ CurrentKey(s) \in DOMAIN Order
         /\ Len(s[Order[CurrentKey(s)]]) < SamplesPerKey
         /\ \A i \in DOMAIN Order :
              i < CurrentKey(s) => Len(s[Order[i]]) = SamplesPerKey
<1> DEFINE I == {i \in 1 .. Len(Order) : Len(s[Order[i]]) < SamplesPerKey}
<1>1. \A i \in DOMAIN Order : Len(s[Order[i]]) \in Nat /\ Len(s[Order[i]]) <= SamplesPerKey
  BY OrderFacts DEF SamplesTyped
<1>2. I # {}
  BY <1>1, OrderFacts DEF Complete
<1>3. I \in SUBSET Nat /\ I \subseteq DOMAIN Order
  BY OrderFacts
<1>4. CurrentKey(s) = Min(I)
  BY <1>2 DEF CurrentKey, SelectInSeq
<1> HIDE DEF I
<1>5. PICK m \in I : m = Min(I) /\ \A i \in I : m <= i
  BY <1>2, <1>3, LeastExists DEF Min
<1>6. ASSUME NEW i \in DOMAIN Order, i < m PROVE i \notin I
  <2>1. i \in Int /\ m \in Int
    BY <1>3, OrderFacts
  <2> QED BY <1>5, <1>6, <2>1
<1> QED BY <1>1, <1>3, <1>4, <1>5, <1>6, OrderFacts DEF I

\* No key after the last one with samples has any.
LEMMA LastKeyIsLast ==
  ASSUME NEW s, LastWithSamples(s) # 0
  PROVE  /\ LastWithSamples(s) \in DOMAIN Order
         /\ s[Order[LastWithSamples(s)]] # <<>>
         /\ \A j \in DOMAIN Order : LastWithSamples(s) < j => s[Order[j]] = <<>>
<1> DEFINE I == {i \in 1 .. Len(Order) : s[Order[i]] # <<>>}
<1>1. I # {} /\ LastWithSamples(s) = Max(I)
  BY DEF LastWithSamples, SelectLastInSeq
<1>2. I \in SUBSET (1 .. Len(Order))
  OBVIOUS
<1> HIDE DEF I
<1>3. PICK m \in I : m = Max(I) /\ \A i \in I : m >= i
  BY <1>1, <1>2, GreatestExists, OrderFacts DEF Max
<1>4. ASSUME NEW j \in DOMAIN Order, m < j PROVE j \notin I
  <2>1. j \in Int /\ m \in Int
    BY <1>2, OrderFacts
  <2> QED BY <1>3, <1>4, <2>1
<1> QED BY <1>1, <1>2, <1>3, <1>4, OrderFacts DEF I

-----------------------------------------------------------------------------
(* What the handlers make of the samples.                                  *)

\* t is s with a sample more for its current key.
Lengthens(s, x, t) ==
  /\ t \in [Keys -> Seq(Sample)]
  /\ t[Order[CurrentKey(s)]] = Append(s[Order[CurrentKey(s)]], x)
  /\ \A k \in Keys : k # Order[CurrentKey(s)] => t[k] = s[k]

\* t is s with fewer samples for its last key that has any.
Shortens(s, c, t) ==
  /\ c \in DOMAIN Order /\ \A j \in DOMAIN Order : c < j => s[Order[j]] = <<>>
  /\ t \in [Keys -> Seq(Sample)] /\ Len(t[Order[c]]) <= Len(s[Order[c]])
  /\ \A p \in DOMAIN t[Order[c]] : t[Order[c]][p] = s[Order[c]][p]
  /\ \A k \in Keys : k # Order[c] => t[k] = s[k]

\* Every sample of t is one of s, or x.
FromOr(s, x, t) ==
  \A k \in Keys : \A p \in DOMAIN t[k] :
    t[k][p] = x \/ (p \in DOMAIN s[k] /\ t[k][p] = s[k][p])

\* A sample later than all others, for the current key, stays in order.
LEMMA AppendedInOrder ==
  ASSUME NEW s, SamplesTyped(s), InOrder(s), ~Complete(s), NEW x \in Sample,
         \A k \in Keys : \A p \in DOMAIN s[k] : Earlier(s[k][p], x),
         NEW t, Lengthens(s, x, t)
  PROVE  SamplesTyped(t) /\ InOrder(t) /\ FromOr(s, x, t)
<1> DEFINE c == CurrentKey(s)
           n == Len(s[Order[c]])
<1>1. /\ c \in DOMAIN Order /\ n < SamplesPerKey
      /\ \A i \in DOMAIN Order : i < c => Len(s[Order[i]]) = SamplesPerKey
  BY CurrentKeyIsFirst
<1> HIDE DEF c
<1>2. c \in Int /\ Order[c] \in Keys /\ \A i \in DOMAIN Order : i \in Int /\ Order[i] \in Keys
  BY <1>1, OrderFacts
<1>3. s[Order[c]] \in Seq(Sample) /\ n \in Nat
  BY <1>2 DEF SamplesTyped
<1>4. /\ t \in [Keys -> Seq(Sample)]
      /\ t[Order[c]] = Append(s[Order[c]], x)
      /\ \A i \in DOMAIN Order : i # c => t[Order[i]] = s[Order[i]]
      /\ \A k \in Keys : k # Order[c] => t[k] = s[k]
  <2>1. /\ t \in [Keys -> Seq(Sample)] /\ t[Order[c]] = Append(s[Order[c]], x)
        /\ \A k \in Keys : k # Order[c] => t[k] = s[k]
    BY DEF Lengthens, c
  <2>2. \A i \in DOMAIN Order : i # c => Order[i] \in Keys /\ Order[i] # Order[c]
    BY <1>1, OrderFacts
  <2> QED BY <2>1, <2>2
<1>5. /\ DOMAIN t[Order[c]] = 1 .. n + 1 /\ Len(t[Order[c]]) = n + 1
      /\ DOMAIN s[Order[c]] = 1 .. n
      /\ t[Order[c]][n + 1] = x
      /\ \A p \in 1 .. n : t[Order[c]][p] = s[Order[c]][p]
  BY <1>3, <1>4
<1>6. \A j \in DOMAIN Order : c < j => s[Order[j]] = <<>>
  BY <1>1, <1>3, OrderFacts DEF InOrder
<1> HIDE DEF n
<1>7. SamplesTyped(t)
  <2>1. n + 1 <= SamplesPerKey
    BY <1>1, <1>3, OrderFacts DEF n
  <2>2. \A k \in Keys : Len(t[k]) <= SamplesPerKey
    BY <1>4, <1>5, <2>1 DEF SamplesTyped
  <2> QED BY <1>4, <2>2 DEF SamplesTyped
<1>8. ASSUME NEW i \in DOMAIN Order, NEW j \in DOMAIN Order, i < j, t[Order[j]] # <<>>
      PROVE  Len(t[Order[i]]) = SamplesPerKey
  <2>1. ~(c < j)
    <3> SUFFICES ASSUME c < j PROVE FALSE
      OBVIOUS
    <3>1. j # c
      BY <1>2
    <3> QED BY <1>4, <1>6, <1>8, <3>1
  <2>2. i < c /\ i # c
    BY <1>2, <1>8, <2>1
  <2> QED BY <1>1, <1>4, <2>2
<1>9. ASSUME NEW i \in DOMAIN Order, NEW j \in DOMAIN Order,
             NEW p \in DOMAIN t[Order[i]], NEW q \in DOMAIN t[Order[j]],
             i < j \/ (i = j /\ p < q)
      PROVE  Earlier(t[Order[i]][p], t[Order[j]][q])
  <2>1. j <= c
    <3> SUFFICES ASSUME c < j PROVE FALSE
      BY <1>2
    <3>1. j # c
      BY <1>2
    <3>2. t[Order[j]] = <<>>
      BY <1>4, <1>6, <3>1
    <3> QED BY <3>2
  <2>2. p \in DOMAIN s[Order[i]] /\ t[Order[i]][p] = s[Order[i]][p]
    <3>1. CASE i = c
      <4>1. j = c /\ p < q
        BY <1>2, <1>9, <2>1, <3>1
      <4> QED BY <1>3, <1>5, <3>1, <4>1
    <3>2. CASE i # c
      BY <1>4, <3>2
    <3> QED BY <3>1, <3>2
  <2>3. CASE j = c /\ q = n + 1
    BY <1>2, <1>5, <2>2, <2>3
  <2>4. CASE ~(j = c /\ q = n + 1)
    <3>1. q \in DOMAIN s[Order[j]] /\ t[Order[j]][q] = s[Order[j]][q]
      <4>1. CASE j = c
        <5>1. q \in 1 .. n
          BY <1>3, <1>5, <2>4, <4>1
        <5> QED BY <1>5, <4>1, <5>1
      <4>2. CASE j # c
        BY <1>4, <4>2
      <4> QED BY <4>1, <4>2
    <3> QED BY <1>9, <2>2, <3>1 DEF InOrder
  <2> QED BY <2>3, <2>4
<1>10. InOrder(t)
  BY <1>8, <1>9 DEF InOrder
<1>11. FromOr(s, x, t)
  <2> SUFFICES ASSUME NEW k \in Keys, NEW p \in DOMAIN t[k]
               PROVE  t[k][p] = x \/ (p \in DOMAIN s[k] /\ t[k][p] = s[k][p])
    BY DEF FromOr
  <2>1. CASE k = Order[c]
    BY <1>3, <1>5, <2>1
  <2>2. CASE k # Order[c]
    BY <1>4, <2>2
  <2> QED BY <2>1, <2>2
<1> QED BY <1>7, <1>10, <1>11

\* Fewer samples for a key after which none has any stay in order.
LEMMA CutInOrder ==
  ASSUME NEW s, SamplesTyped(s), InOrder(s), NEW c, NEW t, Shortens(s, c, t)
  PROVE  /\ SamplesTyped(t) /\ InOrder(t)
         /\ \A k \in Keys : \A p \in DOMAIN t[k] : p \in DOMAIN s[k] /\ t[k][p] = s[k][p]
<1>w. PICK w : w = t[Order[c]]
  OBVIOUS
<1>0. /\ c \in DOMAIN Order /\ \A j \in DOMAIN Order : c < j => s[Order[j]] = <<>>
      /\ t \in [Keys -> Seq(Sample)] /\ Len(w) <= Len(s[Order[c]])
      /\ \A p \in DOMAIN w : w[p] = s[Order[c]][p]
      /\ \A k \in Keys : k # Order[c] => t[k] = s[k]
  BY <1>w DEF Shortens
<1>1. c \in Int /\ Order[c] \in Keys /\ \A i \in DOMAIN Order : i \in Int /\ Order[i] \in Keys
  BY <1>0, OrderFacts
<1>2. /\ t \in [Keys -> Seq(Sample)]
      /\ t[Order[c]] = w /\ w \in Seq(Sample)
      /\ \A i \in DOMAIN Order : i # c => t[Order[i]] = s[Order[i]]
      /\ \A k \in Keys : k # Order[c] => t[k] = s[k]
  <2>1. \A i \in DOMAIN Order : i # c => Order[i] \in Keys /\ Order[i] # Order[c]
    BY <1>0, OrderFacts
  <2> QED BY <1>0, <1>1, <1>w, <2>1
<1>3. s[Order[c]] \in Seq(Sample) /\ Len(s[Order[c]]) <= SamplesPerKey
  BY <1>1 DEF SamplesTyped
<1>4. DOMAIN w \subseteq DOMAIN s[Order[c]]
  BY <1>0, <1>2, <1>3
<1>5. \A k \in Keys : \A p \in DOMAIN t[k] : p \in DOMAIN s[k] /\ t[k][p] = s[k][p]
  <2> TAKE k \in Keys
  <2> TAKE p \in DOMAIN t[k]
  <2>1. CASE k = Order[c]
    BY <1>0, <1>2, <1>4, <2>1
  <2>2. CASE k # Order[c]
    BY <1>0, <2>2
  <2> QED BY <2>1, <2>2
<1>6. SamplesTyped(t)
  <2>1. Len(w) <= SamplesPerKey
    BY <1>0, <1>2, <1>3, OrderFacts
  <2>2. \A k \in Keys : Len(t[k]) <= SamplesPerKey
    BY <1>2, <2>1 DEF SamplesTyped
  <2> QED BY <1>2, <2>2 DEF SamplesTyped
<1>7. ASSUME NEW i \in DOMAIN Order, NEW j \in DOMAIN Order, i < j, t[Order[j]] # <<>>
      PROVE  Len(t[Order[i]]) = SamplesPerKey
  <2>1. s[Order[j]] # <<>>
    <3>1. CASE j = c
      <4>1. w # <<>>
        BY <1>2, <1>7, <3>1
      <4> QED BY <1>0, <1>2, <1>3, <3>1, <4>1
    <3> QED BY <1>2, <1>7, <3>1
  <2>2. j <= c
    BY <1>0, <1>1, <2>1
  <2>3. Len(s[Order[i]]) = SamplesPerKey
    BY <1>7, <2>1 DEF InOrder
  <2> QED BY <1>1, <1>2, <1>7, <2>2, <2>3
<1>8. InOrder(t)
  BY <1>1, <1>5, <1>7 DEF InOrder
<1> QED BY <1>5, <1>6, <1>8

-----------------------------------------------------------------------------
(* The contact session.                                                    *)

\* A sample is of no later frame than the newest, and of no later than the last
\* the locator took if it is of the session that runs.
Behind(x) ==
  /\ x.at <= now /\ (frame # None => x.at <= frame.at)
  /\ x.start <= starts
  /\ x.start = starts /\ locating => last # None /\ x.at <= last.at

Sound(s) ==
  /\ SamplesTyped(s) /\ InOrder(s)
  /\ \A k \in Keys : \A p \in DOMAIN s[k] : Behind(s[k][p])

\* A map on disk that no refused removal has left there is complete, and of the
\* draft and the session there are.
MapAgrees ==
  contact # None /\ ~leftover =>
    /\ Complete(contact)
    /\ draft # None => draft = contact
    /\ ses # None => ses.samples = contact

Sessions == [samples : [Keys -> Seq(Sample)], paused : BOOLEAN]

SessionTyped ==
  /\ ses # None => ses \in Sessions /\ starts # 0
  /\ contact # None => SamplesTyped(contact)
  /\ locating \in BOOLEAN /\ leftover \in BOOLEAN
  /\ starts \in 0 .. MaxStarts /\ refusals \in 0 .. MaxRefusals

SamplesSound == (draft # None => Sound(draft)) /\ (ses # None => Sound(ses.samples))

SessionInv == IInv /\ SessionTyped /\ SamplesSound /\ MapAgrees

\* Samples t that are sound after a step.
Fits(t) ==
  /\ SamplesTyped(t) /\ InOrder(t)
  /\ \A k \in Keys : \A p \in DOMAIN t[k] : Behind(t[k][p])'

LEMMA LocatorFacts ==
  ASSUME IInv
  PROVE  /\ now \in 0 .. MaxNow /\ MaxNow \in Nat
         /\ frame # None => frame.at \in 0 .. MaxNow /\ frame.at <= now
         /\ last # None => last.at \in 0 .. MaxNow
BY LocatorAssumption DEF IInv, TypeOK, Frame, StampsAhead, Ahead, LocatorAssumption

\* A sample that was behind stays behind.
LEMMA BehindStays ==
  ASSUME SessionInv, SessionNext, NEW x \in Sample, Behind(x)
  PROVE  Behind(x)'
<1> USE DEF Behind, vars, world, locator, session
<1>0. /\ IInv /\ x.at \in Nat /\ x.start \in Nat /\ starts \in Nat /\ now \in Nat
      /\ frame # None => frame.at \in Nat
      /\ last # None => last.at \in Nat
  BY LocatorFacts, OrderFacts DEF SessionInv, SessionTyped, Sample
<1>1. CASE Environment /\ UNCHANGED session
  BY <1>0, <1>1 DEF Environment, Tick, WallClockSetBack, FrameArrives
<1>2. CASE Starts
  <2>1. starts' = starts + 1 /\ UNCHANGED world
    BY <1>2 DEF Starts, StartsIncomplete, StartsComplete, StartRefused, NewLocator, Resets
  <2> QED BY <1>0, <2>1
<1>3. CASE CapturesContact
  <2>1. /\ frame # None /\ UNCHANGED <<now, frame, locating, starts>>
        /\ last' = last \/ (last' = frame /\ ~OutOfOrder(frame))
    BY <1>3 DEF CapturesContact, Locates, Refuses, Takes
  <2> QED BY <1>0, <2>1 DEF OutOfOrder
<1>4. CASE UndoLast \/ RestartsCurrentKey \/ Pauses
  BY <1>4 DEF UndoLast, RestartsCurrentKey, Pauses
<1>5. CASE ResetsDraft
  <2>1. UNCHANGED <<now, frame, last, starts>> /\ (locating' = FALSE \/ UNCHANGED locating)
    BY <1>5 DEF ResetsDraft, Forgets
  <2> QED BY <2>1
<1>6. CASE Dies
  BY <1>6 DEF Dies, Forgets
<1> QED BY <1>1, <1>2, <1>3, <1>4, <1>5, <1>6 DEF SessionNext

LEMMA SoundFits ==
  ASSUME SessionInv, SessionNext, NEW s, Sound(s)
  PROVE  Fits(s)
<1>1. \A k \in Keys : \A p \in DOMAIN s[k] : s[k][p] \in Sample /\ Behind(s[k][p])
  BY DEF Sound, SamplesTyped
<1>2. ASSUME NEW k \in Keys, NEW p \in DOMAIN s[k] PROVE Behind(s[k][p])'
  <2>1. PICK x \in Sample : x = s[k][p] /\ Behind(x)
    BY <1>1
  <2>2. Behind(x)'
    BY <2>1, BehindStays
  <2> QED BY <2>1, <2>2
<1> QED BY <1>2 DEF Fits, Sound

\* What a capture appends is later than every sample there is.
LEMMA CaptureFits ==
  ASSUME SessionInv, CapturesContact, pose'.usable, NEW s, Sound(s), ~Complete(s),
         starts # 0, NEW t, Lengthens(s, [at |-> frame.at, start |-> starts], t)
  PROVE  Fits(t)
<1> DEFINE x == [at |-> frame.at, start |-> starts]
<1>1. /\ frame # None /\ locating /\ UNCHANGED <<now, frame, locating, starts>>
      /\ Locates(frame)
  BY DEF CapturesContact, world
<1>2. last' = frame /\ ~OutOfOrder(frame)
  BY <1>1 DEF Locates, Refuses, Takes, Unusable
<1>3. /\ IInv /\ starts \in Nat /\ now \in Nat /\ frame.at \in Nat /\ frame.at <= now
      /\ last # None => last.at \in Nat
  BY <1>1, LocatorFacts, OrderFacts DEF SessionInv, SessionTyped
<1>4. x \in Sample
  BY <1>1, LocatorFacts, OrderFacts DEF SessionInv, SessionTyped, Sample
<1>5. SamplesTyped(s) /\ InOrder(s)
  BY DEF Sound
<1>6. ASSUME NEW k \in Keys, NEW p \in DOMAIN s[k] PROVE Earlier(s[k][p], x)
  <2>1. s[k][p] \in Sample /\ Behind(s[k][p])
    BY DEF Sound, SamplesTyped
  <2>2. PICK y \in Sample : y = s[k][p] /\ Behind(y)
    BY <2>1
  <2>3. y.at \in Nat /\ y.start \in Nat
    BY DEF Sample
  <2>4. y.start = starts => y.at < frame.at
    BY <1>1, <1>2, <1>3, <2>2, <2>3 DEF Behind, OutOfOrder
  <2>5. y.at <= frame.at /\ y.start <= starts
    BY <1>1, <2>2 DEF Behind
  <2> QED BY <1>3, <2>2, <2>3, <2>4, <2>5 DEF Earlier
<1>7. Behind(x)'
  BY <1>1, <1>2, <1>3 DEF Behind
<1> HIDE DEF x
<1>8. Lengthens(s, x, t)
  BY DEF x
<1>9. SamplesTyped(t) /\ InOrder(t) /\ FromOr(s, x, t)
  BY <1>4, <1>5, <1>6, <1>8, AppendedInOrder
<1>10. Fits(s)
  BY SoundFits DEF SessionNext
<1>11. ASSUME NEW k \in Keys, NEW p \in DOMAIN t[k] PROVE Behind(t[k][p])'
  <2>1. CASE t[k][p] = x
    BY <1>1, <1>3, <1>7, <2>1 DEF Behind, x
  <2>2. CASE p \in DOMAIN s[k] /\ t[k][p] = s[k][p]
    BY <1>10, <2>2 DEF Fits, Behind
  <2> QED BY <1>9, <2>1, <2>2 DEF FromOr
<1> QED BY <1>9, <1>11 DEF Fits

\* What undo and the restart of a key leave.
LEMMA CutFits ==
  ASSUME SessionInv, SessionNext, NEW s, Sound(s), NEW c, NEW t, Shortens(s, c, t)
  PROVE  Fits(t)
<1>1. /\ SamplesTyped(t) /\ InOrder(t)
      /\ \A k \in Keys : \A p \in DOMAIN t[k] : p \in DOMAIN s[k] /\ t[k][p] = s[k][p]
  <2>1. SamplesTyped(s) /\ InOrder(s)
    BY DEF Sound
  <2>2. SamplesTyped(t)
    BY <2>1, CutInOrder
  <2>3. InOrder(t)
    BY <2>1, CutInOrder
  <2>4. ASSUME NEW k \in Keys, NEW p \in DOMAIN t[k]
        PROVE  p \in DOMAIN s[k] /\ t[k][p] = s[k][p]
    BY <2>1, CutInOrder
  <2> QED BY <2>2, <2>3, <2>4
<1>2. Fits(s)
  BY SoundFits
<1>3. ASSUME NEW k \in Keys, NEW p \in DOMAIN t[k] PROVE Behind(t[k][p])'
  BY <1>1, <1>2 DEF Fits, Behind
<1> QED BY <1>1, <1>3 DEF Fits

LEMMA BlankIsSound == Sound(Blank) /\ ~Complete(Blank)
BY OrderFacts, SessionAssumption
   DEF Sound, SamplesTyped, InOrder, Blank, Complete, SessionAssumption

\* What is kept after a step is sound.
KeptSound ==
  /\ draft' # None => \E t : draft' = t /\ Fits(t)
  /\ ses' # None => /\ ses' \in Sessions /\ starts' # 0
                    /\ \E t : ses'.samples = t /\ Fits(t)
  /\ contact' # None => SamplesTyped(contact')

LEMMA Unkept ==
  ASSUME SessionInv, SessionNext, draft' \in {draft, None}, contact' \in {contact, None},
         \/ ses' = None
         \/ ses # None /\ ses' \in Sessions /\ ses'.samples = ses.samples,
         starts' # starts => starts' # 0
  PROVE  KeptSound
<1>1. ASSUME draft # None PROVE \E t : draft = t /\ Fits(t)
  <2>1. PICK t : t = draft
    OBVIOUS
  <2>2. Sound(t)
    BY <1>1, <2>1 DEF SessionInv, SamplesSound, Sound
  <2> QED BY <2>1, <2>2, SoundFits
<1>2. ASSUME ses # None PROVE \E t : ses.samples = t /\ Fits(t)
  <2>1. PICK t : t = ses.samples
    OBVIOUS
  <2>2. Sound(t)
    BY <1>2, <2>1 DEF SessionInv, SamplesSound, Sound
  <2> QED BY <2>1, <2>2, SoundFits
<1>3. ses # None => starts # 0
  BY DEF SessionInv, SessionTyped
<1>4. contact' # None => SamplesTyped(contact')
  BY DEF SessionInv, SessionTyped
<1> QED BY <1>1, <1>2, <1>3, <1>4 DEF KeptSound

LEMMA PersistKeeps ==
  ASSUME SessionInv, ses # None, NEW t, Fits(t), Persists(t), starts' = starts,
         contact' \in {contact, t}
  PROVE  KeptSound
<1>1. /\ draft' = t /\ ses' = [ses EXCEPT !.samples = t]
      /\ ses \in Sessions /\ starts # 0 /\ t \in [Keys -> Seq(Sample)]
  BY DEF Persists, SessionInv, SessionTyped, Fits, SamplesTyped
<1>2. ses' \in Sessions /\ ses'.samples = t
  BY <1>1 DEF Sessions
<1>3. contact' # None => SamplesTyped(contact')
  BY DEF SessionInv, SessionTyped, Fits
<1> QED BY <1>1, <1>2, <1>3 DEF KeptSound

\* start_contact_calibration.
LEMMA StartKeeps ==
  ASSUME SessionInv, Starts
  PROVE  KeptSound
<1>0. SessionNext
  BY DEF SessionNext
<1>1. PICK f : f = Found
  OBVIOUS
<1>2. Sound(f)
  <2>1. CASE draft = None
    BY <1>1, <2>1, BlankIsSound DEF Found
  <2>2. CASE draft # None
    BY <1>1, <2>2 DEF Found, SessionInv, SamplesSound
  <2> QED BY <2>1, <2>2
<1>3. Fits(f)
  BY <1>0, <1>2, SoundFits
<1>4. starts \in Nat /\ starts' = starts + 1
  BY OrderFacts DEF Starts, SessionInv, SessionTyped
<1>5. CASE StartRefused(f)
  <2>1. UNCHANGED <<ses, draft, contact>>
    BY <1>5 DEF StartRefused
  <2> QED BY <1>0, <1>4, <2>1, Unkept DEF SessionInv, SessionTyped
<1>6. CASE StartsIncomplete(f) \/ StartsComplete(f)
  <2>1. draft' = f /\ ses' = [samples |-> f, paused |-> FALSE] /\ contact' \in {contact, None, f}
    BY <1>6
       DEF StartsIncomplete, StartsComplete, TakesOver, Finalizes, RemovesMap, MapStays
  <2>2. f \in [Keys -> Seq(Sample)] /\ SamplesTyped(f)
    BY <1>3 DEF Fits, SamplesTyped
  <2>3. ses' \in Sessions /\ ses'.samples = f
    BY <2>1, <2>2 DEF Sessions
  <2>4. contact' # None => SamplesTyped(contact')
    BY <2>1, <2>2 DEF SessionInv, SessionTyped
  <2> QED BY <1>3, <1>4, <2>1, <2>3, <2>4 DEF KeptSound
<1> QED BY <1>1, <1>5, <1>6 DEF Starts

\* The capture of a fingertip.
LEMMA CaptureKeeps ==
  ASSUME SessionInv, CapturesContact
  PROVE  KeptSound
<1>0. SessionNext /\ ses # None /\ starts' = starts
  BY DEF SessionNext, CapturesContact
<1>1. CASE UNCHANGED <<ses, draft, contact>>
  BY <1>0, <1>1, Unkept DEF SessionInv, SessionTyped
<1>2. CASE ~UNCHANGED <<ses, draft, contact>>
  <2>1. PICK s : s = ses.samples
    OBVIOUS
  <2>2. pose'.usable /\ ~Complete(s) /\ TakesSample(frame)
    BY <1>2, <2>1 DEF CapturesContact, NoSample, Blocked
  <2>3. Sound(s) /\ starts # 0
    BY <1>0, <2>1 DEF SessionInv, SamplesSound, SessionTyped
  <2>4. s \in [Keys -> Seq(Sample)] /\ Order[CurrentKey(s)] \in Keys
    BY <2>2, <2>3, CurrentKeyIsFirst, OrderFacts DEF Sound, SamplesTyped
  <2>5. PICK t : t = [s EXCEPT ![Order[CurrentKey(s)]] =
                        Append(@, [at |-> frame.at, start |-> starts])]
    OBVIOUS
  <2>6. [at |-> frame.at, start |-> starts] \in Sample
    <3>1. frame # None
      BY DEF CapturesContact
    <3> QED BY <2>3, <3>1, LocatorFacts, OrderFacts DEF SessionInv, SessionTyped, Sample
  <2>7. /\ t \in [Keys -> Seq(Sample)]
        /\ t[Order[CurrentKey(s)]] =
             Append(s[Order[CurrentKey(s)]], [at |-> frame.at, start |-> starts])
        /\ \A k \in Keys : k # Order[CurrentKey(s)] => t[k] = s[k]
    BY <2>4, <2>5, <2>6
  <2>8. Fits(t)
    <3>1. Lengthens(s, [at |-> frame.at, start |-> starts], t)
      BY <2>7 DEF Lengthens
    <3> QED BY <2>2, <2>3, <3>1, CaptureFits
  <2>9. Appends(t)
    BY <2>1, <2>2, <2>5 DEF TakesSample
  <2>10. Persists(t) /\ contact' \in {contact, t}
    BY <1>2, <2>9 DEF Appends, PersistRefused, Finalizes
  <2> QED BY <1>0, <2>8, <2>10, PersistKeeps
<1> QED BY <1>1, <1>2

LEMMA RewriteKeeps ==
  ASSUME SessionInv, SessionNext, ses # None, starts' = starts, NEW s, Sound(s),
         NEW c, NEW t, Shortens(s, c, t), Rewrites(t)
  PROVE  KeptSound
<1>1. Fits(t)
  BY CutFits
<1>2. CASE Persists(t) /\ UNCHANGED contact
  BY <1>1, <1>2, PersistKeeps
<1>3. CASE UNCHANGED <<ses, draft, contact>>
  BY <1>3, Unkept DEF SessionInv, SessionTyped
<1> QED BY <1>2, <1>3 DEF Rewrites, PersistRefused

\* Undo and the restart of a key.
LEMMA CutKeeps ==
  ASSUME SessionInv, UndoLast \/ RestartsCurrentKey
  PROVE  KeptSound
<1>0. SessionNext /\ ses # None /\ starts' = starts /\ ~Blocked
  BY DEF SessionNext, UndoLast, RestartsCurrentKey
<1>1. PICK s : s = ses.samples
  OBVIOUS
<1>2. Sound(s) /\ ~Complete(s)
  BY <1>0, <1>1 DEF SessionInv, SamplesSound, Blocked
<1>3. s \in [Keys -> Seq(Sample)]
  BY <1>2 DEF Sound, SamplesTyped
<1>4. CASE UndoLast
  <2>1. PICK c : c = LastWithSamples(s)
    OBVIOUS
  <2>2. c # 0 /\ Rewrites([s EXCEPT ![Order[c]] = Front(s[Order[c]])])
    BY <1>1, <1>4, <2>1 DEF UndoLast
  <2>3. /\ c \in DOMAIN Order /\ s[Order[c]] # <<>>
        /\ \A j \in DOMAIN Order : c < j => s[Order[j]] = <<>>
    BY <2>1, <2>2, LastKeyIsLast
  <2>4. s[Order[c]] \in Seq(Sample)
    BY <1>3, <2>3, OrderFacts
  <2>5. PICK w : w = Front(s[Order[c]])
    OBVIOUS
  <2>6. /\ w \in Seq(Sample) /\ Len(w) <= Len(s[Order[c]])
        /\ \A p \in DOMAIN w : w[p] = s[Order[c]][p]
    BY <2>3, <2>4, <2>5 DEF Front
  <2>7. PICK t : t = [s EXCEPT ![Order[c]] = w]
    OBVIOUS
  <2>8. /\ t \in [Keys -> Seq(Sample)] /\ t[Order[c]] = w
        /\ \A k \in Keys : k # Order[c] => t[k] = s[k]
    BY <1>3, <2>3, <2>6, <2>7, OrderFacts
  <2>9. Rewrites(t)
    BY <2>2, <2>5, <2>7
  <2>10. Shortens(s, c, t)
    BY <2>3, <2>6, <2>8 DEF Shortens
  <2> QED BY <1>0, <1>2, <2>9, <2>10, RewriteKeeps
<1>5. CASE RestartsCurrentKey
  <2>1. PICK c : c = CurrentKey(s)
    OBVIOUS
  <2>2. Rewrites([s EXCEPT ![Order[c]] = <<>>])
    BY <1>1, <1>5, <2>1 DEF RestartsCurrentKey
  <2>3. c \in DOMAIN Order /\ Len(s[Order[c]]) < SamplesPerKey
    BY <1>2, <2>1, CurrentKeyIsFirst DEF Sound
  <2>4. Len(s[Order[c]]) \in Nat
    BY <1>3, <2>3, OrderFacts
  <2>5. \A j \in DOMAIN Order : c < j => s[Order[j]] = <<>>
    BY <1>2, <2>3, <2>4, OrderFacts DEF Sound, InOrder
  <2>6. PICK w : w = <<>>
    OBVIOUS
  <2>7. /\ w \in Seq(Sample) /\ Len(w) <= Len(s[Order[c]])
        /\ \A p \in DOMAIN w : w[p] = s[Order[c]][p]
    BY <2>4, <2>6
  <2>8. PICK t : t = [s EXCEPT ![Order[c]] = w]
    OBVIOUS
  <2>9. /\ t \in [Keys -> Seq(Sample)] /\ t[Order[c]] = w
        /\ \A k \in Keys : k # Order[c] => t[k] = s[k]
    BY <1>3, <2>3, <2>7, <2>8, OrderFacts
  <2>10. Rewrites(t)
    BY <2>2, <2>6, <2>8
  <2>11. Shortens(s, c, t)
    BY <2>3, <2>5, <2>7, <2>9 DEF Shortens
  <2> QED BY <1>0, <1>2, <2>10, <2>11, RewriteKeeps
<1> QED BY <1>4, <1>5

LEMMA StepKeepsSamples ==
  ASSUME SessionInv, SessionNext
  PROVE  KeptSound
<1>0. ses # None => ses \in Sessions
  BY DEF SessionInv, SessionTyped
<1>1. CASE Environment /\ UNCHANGED session
  BY <1>0, <1>1, Unkept DEF session
<1>2. CASE Pauses
  <2>1. /\ ses # None /\ ses' = [ses EXCEPT !.paused = ~@]
        /\ UNCHANGED <<draft, contact, starts>>
    BY <1>2 DEF Pauses
  <2>2. ses' \in Sessions /\ ses'.samples = ses.samples
    BY <1>0, <2>1 DEF Sessions
  <2> QED BY <2>1, <2>2, Unkept
<1>3. CASE ResetsDraft
  <2>1. /\ draft' \in {draft, None} /\ contact' \in {contact, None} /\ ses' \in {ses, None}
        /\ UNCHANGED starts
    BY <1>3 DEF ResetsDraft, RemovesMap, MapStays, Forgets
  <2> QED BY <1>0, <2>1, Unkept
<1>4. CASE Dies
  <2>1. ses' = None /\ UNCHANGED <<draft, contact, starts>>
    BY <1>4 DEF Dies, Forgets
  <2> QED BY <2>1, Unkept
<1> QED BY <1>1, <1>2, <1>3, <1>4, StartKeeps, CaptureKeeps, CutKeeps DEF SessionNext

LEMMA StepKeepsMap ==
  ASSUME SessionInv, SessionNext
  PROVE  MapAgrees'
<1>0. MapAgrees /\ (ses # None => ses \in Sessions)
  BY DEF SessionInv, SessionTyped
<1>1. CASE (Environment /\ UNCHANGED session) \/ Pauses \/ Dies
  <2>1. /\ UNCHANGED <<contact, leftover, draft>>
        /\ ses' # None => ses # None /\ ses'.samples = ses.samples
    BY <1>0, <1>1 DEF session, Pauses, Dies, Forgets, Sessions
  <2> QED BY <1>0, <2>1 DEF MapAgrees, Complete
<1>2. CASE Starts
  <2>1. PICK f : f = Found
    OBVIOUS
  <2>2. CASE StartRefused(f)
    BY <1>0, <2>2 DEF StartRefused, MapAgrees, Complete
  <2>3. CASE StartsIncomplete(f)
    BY <2>3 DEF StartsIncomplete, RemovesMap, MapStays, MapAgrees
  <2>4. CASE StartsComplete(f)
    <3>1. /\ Complete(f) /\ contact' = f /\ draft' = f
          /\ ses' = [samples |-> f, paused |-> FALSE]
      BY <2>4 DEF StartsComplete, Finalizes, TakesOver
    <3>2. ses'.samples = f
      BY <3>1
    <3> QED BY <3>1, <3>2 DEF MapAgrees, Complete
  <2> QED BY <1>2, <2>1, <2>2, <2>3, <2>4 DEF Starts
<1>3. CASE ses # None /\ ~Blocked /\ UNCHANGED <<contact, leftover>>
  <2>1. contact = None \/ leftover
    BY <1>0, <1>3 DEF MapAgrees, Blocked
  <2> QED BY <1>3, <2>1 DEF MapAgrees
<1>4. CASE CapturesContact
  <2>1. CASE UNCHANGED <<ses, draft, contact, leftover>>
    BY <1>0, <2>1 DEF MapAgrees, Complete
  <2>2. CASE ~UNCHANGED <<ses, draft, contact, leftover>>
    <3>1. ses # None /\ ~Blocked /\ TakesSample(frame)
      BY <1>4, <2>2 DEF CapturesContact, NoSample
    <3>2. PICK t : Appends(t)
      BY <3>1 DEF TakesSample
    <3>3. CASE UNCHANGED <<contact, leftover>>
      BY <1>3, <3>1, <3>3
    <3>4. CASE Persists(t) /\ Complete(t) /\ Finalizes(t)
      <4>1. contact' = t /\ draft' = t /\ ses' = [ses EXCEPT !.samples = t]
        BY <3>4 DEF Persists, Finalizes
      <4>2. ses'.samples = t
        BY <1>0, <3>1, <4>1 DEF Sessions
      <4> QED BY <3>4, <4>1, <4>2 DEF MapAgrees, Complete
    <3> QED BY <2>2, <3>2, <3>3, <3>4 DEF Appends, PersistRefused
  <2> QED BY <2>1, <2>2
<1>5. CASE UndoLast \/ RestartsCurrentKey
  <2>1. ses # None /\ ~Blocked /\ UNCHANGED <<contact, leftover>>
    BY <1>5 DEF UndoLast, RestartsCurrentKey, Rewrites, PersistRefused
  <2> QED BY <1>3, <2>1
<1>6. CASE ResetsDraft
  BY <1>0, <1>6 DEF ResetsDraft, RemovesMap, MapStays, MapAgrees, Complete
<1> QED BY <1>1, <1>2, <1>4, <1>5, <1>6 DEF SessionNext

LEMMA StepKeepsLocator ==
  ASSUME SessionInv, SessionNext
  PROVE  IInv'
<1>0. IInv
  BY DEF SessionInv
<1>1. CASE [Next]_vars
  BY <1>0, <1>1, StepKeeps
<1>2. CASE Environment
  BY <1>1, <1>2 DEF Next
<1>3. CASE Starts
  <2>1. Resets \/ UNCHANGED vars
    BY <1>3 DEF Starts, StartsIncomplete, StartsComplete, StartRefused, NewLocator, vars
  <2> QED BY <1>1, <2>1 DEF Next
<1>4. CASE CapturesContact
  BY <1>1, <1>4 DEF CapturesContact, LocatesLatest, Next
<1>5. CASE UndoLast \/ RestartsCurrentKey \/ Pauses \/ ResetsDraft
  BY <1>1, <1>5 DEF UndoLast, RestartsCurrentKey, Pauses, ResetsDraft
<1>6. CASE Dies
  BY <1>0, <1>6, LocatorAssumption
     DEF Dies, IInv, TypeOK, StampsAhead, Ahead, PoseIsRecent, FilterBracketed,
         Unusable, Pose, LocatorAssumption
<1> QED BY <1>2, <1>3, <1>4, <1>5, <1>6 DEF SessionNext

\* The flags and the counters of the session keep their types.
LEMMA StepKeepsCounters ==
  ASSUME SessionInv, SessionNext
  PROVE  /\ locating' \in BOOLEAN /\ leftover' \in BOOLEAN
         /\ starts' \in 0 .. MaxStarts /\ refusals' \in 0 .. MaxRefusals
<1> USE DEF DiskRefuses, Finalizes, RemovesMap, MapStays, Forgets, session, vars
<1>0. /\ locating \in BOOLEAN /\ leftover \in BOOLEAN
      /\ starts \in 0 .. MaxStarts /\ refusals \in 0 .. MaxRefusals
      /\ MaxStarts \in Nat /\ MaxRefusals \in Nat
  BY OrderFacts DEF SessionInv, SessionTyped
<1>1. locating' \in {locating, TRUE, FALSE} /\ leftover' \in {leftover, TRUE, FALSE}
  <2>1. CASE Starts
    BY <2>1 DEF Starts, StartsIncomplete, StartsComplete, StartRefused, NewLocator
  <2>2. CASE CapturesContact
    BY <2>2 DEF CapturesContact, NoSample, TakesSample, Appends, PersistRefused
  <2>3. CASE UndoLast \/ RestartsCurrentKey \/ Pauses
    BY <2>3 DEF UndoLast, RestartsCurrentKey, Pauses, Rewrites, PersistRefused
  <2>4. CASE ResetsDraft \/ Dies \/ (Environment /\ UNCHANGED session)
    BY <2>4 DEF ResetsDraft, Dies
  <2> QED BY <2>1, <2>2, <2>3, <2>4 DEF SessionNext
<1>2. starts' = starts \/ (starts < MaxStarts /\ starts' = starts + 1)
  BY DEF SessionNext, Starts, CapturesContact, UndoLast, RestartsCurrentKey, Pauses,
         ResetsDraft, Dies
<1>3. refusals' = refusals \/ (refusals < MaxRefusals /\ refusals' = refusals + 1)
  <2>1. CASE Starts
    BY <2>1 DEF Starts, StartsIncomplete, StartsComplete, StartRefused
  <2>2. CASE CapturesContact
    BY <2>2 DEF CapturesContact, NoSample, TakesSample, Appends, PersistRefused
  <2>3. CASE UndoLast \/ RestartsCurrentKey \/ Pauses
    BY <2>3 DEF UndoLast, RestartsCurrentKey, Pauses, Rewrites, PersistRefused
  <2>4. CASE ResetsDraft \/ Dies \/ (Environment /\ UNCHANGED session)
    BY <2>4 DEF ResetsDraft, Dies
  <2> QED BY <2>1, <2>2, <2>3, <2>4 DEF SessionNext
<1>4. locating' \in BOOLEAN /\ leftover' \in BOOLEAN
  BY <1>0, <1>1, Zenon
<1>5. starts' \in 0 .. MaxStarts /\ refusals' \in 0 .. MaxRefusals
  BY <1>0, <1>2, <1>3
<1> QED BY <1>4, <1>5

LEMMA SessionStep ==
  ASSUME SessionInv, SessionNext
  PROVE  SessionInv'
<1>1. IInv' /\ MapAgrees' /\ KeptSound
  BY StepKeepsLocator, StepKeepsMap, StepKeepsSamples
<1>2. SamplesSound'
  <2>1. ASSUME draft' # None PROVE Sound(draft)'
    <3>1. PICK t : draft' = t /\ Fits(t)
      BY <1>1, <2>1 DEF KeptSound
    <3> QED BY <3>1 DEF Fits, Sound, SamplesTyped, InOrder, Behind
  <2>2. ASSUME ses' # None PROVE Sound(ses.samples)'
    <3>1. PICK t : ses'.samples = t /\ Fits(t)
      BY <1>1, <2>2 DEF KeptSound
    <3> QED BY <3>1 DEF Fits, Sound, SamplesTyped, InOrder, Behind
  <2> QED BY <2>1, <2>2 DEF SamplesSound
<1>3. SessionTyped'
  BY <1>1, StepKeepsCounters DEF SessionTyped, KeptSound, SamplesTyped
<1> QED BY <1>1, <1>2, <1>3 DEF SessionInv

-----------------------------------------------------------------------------
(* The three parts together.  Where the locator is followed alone there is *)
(* no session.                                                             *)

NoSession == ses = None /\ draft = None /\ contact = None

CalibrationInv ==
  /\ SessionInv /\ RegistrationInv
  /\ follows = "pose" => NoSession

LEMMA CalibrationStarts == ASSUME MCInit PROVE CalibrationInv
<1>1. SessionInit /\ Anchors!Init
  BY DEF MCInit
<1>2. IInv
  BY <1>1, InitHolds DEF SessionInit
<1>3. SessionTyped /\ SamplesSound /\ MapAgrees /\ NoSession
  <2>1. /\ ses = None /\ draft = None /\ contact = None /\ starts = 0 /\ refusals = 0
        /\ locating = FALSE /\ leftover = FALSE
    BY <1>1 DEF SessionInit
  <2>2. locating \in BOOLEAN /\ leftover \in BOOLEAN
    BY <2>1, Zenon
  <2>3. SamplesSound /\ MapAgrees /\ NoSession
    BY <2>1 DEF SamplesSound, MapAgrees, NoSession
  <2>4. starts \in 0 .. MaxStarts /\ refusals \in 0 .. MaxRefusals
    BY <2>1, OrderFacts
  <2> QED BY <2>1, <2>2, <2>3, <2>4, Zenon DEF SessionTyped
<1> QED BY <1>1, <1>2, <1>3, RegistrationStarts DEF CalibrationInv, SessionInv

LEMMA CalibrationStep ==
  ASSUME CalibrationInv, [MCNext]_<<sessionVars, registration, follows>>
  PROVE  CalibrationInv'
<1>0. SessionInv /\ RegistrationInv /\ IInv
  BY DEF CalibrationInv, SessionInv
<1>1. ASSUME UNCHANGED registration PROVE RegistrationInv'
  BY <1>0, <1>1 DEF registration, RegistrationInv, RegistrationTyped, FewWrongSamples, GlitchPending
<1>2. ASSUME UNCHANGED sessionVars PROVE SessionInv' /\ (NoSession => NoSession')
  <2>1. IInv'
    BY <1>0, <1>2, StepKeeps DEF sessionVars
  <2>2. SessionTyped' /\ SamplesSound' /\ MapAgrees' /\ (NoSession => NoSession')
    BY <1>0, <1>2
       DEF sessionVars, session, vars, world, locator, SessionInv, SessionTyped, SamplesSound,
           MapAgrees, Sound, Behind, InOrder, SamplesTyped, Complete, NoSession
  <2> QED BY <2>1, <2>2 DEF SessionInv
<1>3. CASE follows = "pose" /\ Next /\ UNCHANGED <<session, registration, follows>>
  <2>1. IInv' /\ NoSession
    BY <1>0, <1>3, StepKeeps DEF CalibrationInv
  <2>2. NoSession' /\ SessionTyped'
    BY <1>0, <1>3, <2>1 DEF session, NoSession, SessionInv, SessionTyped
  <2>3. SamplesSound' /\ MapAgrees'
    BY <2>2 DEF NoSession, SamplesSound, MapAgrees
  <2> QED BY <1>1, <1>3, <2>1, <2>2, <2>3 DEF CalibrationInv, SessionInv
<1>4. CASE follows = "contact" /\ SessionNext /\ UNCHANGED <<registration, follows>>
  BY <1>0, <1>1, <1>4, SessionStep DEF CalibrationInv
<1>5. CASE follows = "anchors" /\ Anchors!Next /\ UNCHANGED <<sessionVars, follows>>
  BY <1>0, <1>2, <1>5, RegistrationStep DEF CalibrationInv
<1>6. CASE UNCHANGED <<sessionVars, registration, follows>>
  BY <1>1, <1>2, <1>6 DEF CalibrationInv
<1> QED BY <1>3, <1>4, <1>5, <1>6 DEF MCNext

LEMMA CalibrationInvariant == MCSpec => []CalibrationInv
<1>1. MCInit => CalibrationInv
  BY CalibrationStarts
<1>2. CalibrationInv /\ [MCNext]_<<sessionVars, registration, follows>> => CalibrationInv'
  BY CalibrationStep
<1> QED BY <1>1, <1>2, PTL DEF MCSpec

\* Fewer bad frames than a marker needs samples put no marker that may be
\* locked, aligned by or saved in the wrong place (anchor_registration.py:182-189):
\* no window, bridge or repeated observation multiplies one of them.
THEOREM FewGlitchesLose == MCSpec => []GlitchesDontWin
<1>1. CalibrationInv => GlitchesDontWin
  BY ReadyIsRight
     DEF CalibrationInv, GlitchesDontWin, Anchors!GlitchesDontWin, RegistrationInv, FewWrongSamples
<1> QED BY <1>1, CalibrationInvariant, PTL

\* Through any captures, undos, restarted keys, refused writes, crashes and
\* resumed drafts the samples stay in the order of the keys and of time
\* (calibration/session.py:228-274, calibration/control_plane.py:541).
THEOREM SamplesStayInOrder == MCSpec => []SamplesInOrder
<1>1. CalibrationInv => SamplesInOrder
  BY DEF CalibrationInv, SessionInv, SamplesSound, Sound, SamplesInOrder
<1> QED BY <1>1, CalibrationInvariant, PTL

\* A contact map is the one of the draft beside it, unless its own removal was
\* refused (calibration/session.py:233-239, calibration/control_plane.py:518-521).
THEOREM MapFollowsDraft == MCSpec => []MapIsOfDraft
<1>1. CalibrationInv => MapIsOfDraft
  BY DEF CalibrationInv, SessionInv, MapAgrees, MapIsOfDraft
<1> QED BY <1>1, CalibrationInvariant, PTL

LEMMA BoundedSamples ==
  ASSUME NEW s, SamplesTyped(s)
  PROVE  s \in Samples
<1>1. ASSUME NEW k \in Keys PROVE s[k] \in BoundedSeq(Sample, SamplesPerKey)
  <2>1. /\ s[k] \in Seq(Sample) /\ Len(s[k]) \in 0 .. SamplesPerKey
        /\ s[k] \in [1 .. Len(s[k]) -> Sample]
    BY OrderFacts DEF SamplesTyped
  <2> QED BY <2>1 DEF BoundedSeq, SeqOf
<1> QED BY <1>1 DEF Samples, SamplesTyped

\* Every variable of the three parts keeps its type.
THEOREM CalibrationTypeCorrect == MCSpec => []AllTypesOK
<1>1. CalibrationInv => SessionTypeOK
  <2> SUFFICES ASSUME CalibrationInv PROVE SessionTypeOK
    OBVIOUS
  <2>1. IInv /\ SessionTyped /\ SamplesSound
    BY DEF CalibrationInv, SessionInv
  <2>2. draft # None => draft \in Samples
    BY <2>1, BoundedSamples DEF SamplesSound, Sound
  <2>3. contact # None => contact \in Samples
    BY <2>1, BoundedSamples DEF SessionTyped
  <2>4. ses # None => ses.samples \in Samples /\ ses.paused \in BOOLEAN
    <3> SUFFICES ASSUME ses # None PROVE ses.samples \in Samples /\ ses.paused \in BOOLEAN
      OBVIOUS
    <3>1. SamplesTyped(ses.samples)
      BY <2>1 DEF SamplesSound, Sound
    <3>2. ses.samples \in Samples
      BY <3>1, BoundedSamples
    <3>3. ses.paused \in BOOLEAN
      BY <2>1 DEF SessionTyped, Sessions
    <3> QED BY <3>2, <3>3
  <2>5. TypeOK
    BY <2>1 DEF IInv
  <2>6. /\ locating \in BOOLEAN /\ leftover \in BOOLEAN
        /\ starts \in 0 .. MaxStarts /\ refusals \in 0 .. MaxRefusals
    BY <2>1, Zenon DEF SessionTyped
  <2> QED BY <2>2, <2>3, <2>4, <2>5, <2>6, Zenon DEF SessionTypeOK
<1>2. CalibrationInv => Anchors!TypeOK
  <2> SUFFICES ASSUME CalibrationInv PROVE Anchors!TypeOK
    OBVIOUS
  <2>1. RegistrationTyped
    BY DEF CalibrationInv, RegistrationInv
  <2>2. ASSUME NEW m \in Markers
        PROVE  samples[m] \in UNION {[1 .. n -> BOOLEAN] : n \in 0 .. MaxSamples}
    <3>1. /\ samples[m] \in Seq(BOOLEAN) /\ Len(samples[m]) \in 0 .. MaxSamples
          /\ samples[m] \in [1 .. Len(samples[m]) -> BOOLEAN]
      BY <2>1, AnchorFacts DEF RegistrationTyped
    <3> QED BY <3>1
  <2>3. samples \in [Markers -> UNION {[1 .. n -> BOOLEAN] : n \in 0 .. MaxSamples}]
    BY <2>1, <2>2 DEF RegistrationTyped
  <2> QED BY <2>1, <2>3 DEF RegistrationTyped, Anchors!TypeOK
<1>3. CalibrationInv => AllTypesOK
  BY <1>1, <1>2 DEF AllTypesOK
<1> QED BY <1>3, CalibrationInvariant, PTL
=============================================================================
