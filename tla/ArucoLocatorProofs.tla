------------------------- MODULE ArucoLocatorProofs -------------------------
(***************************************************************************)
(* What the keyboard's locator promises for any places a quad may be       *)
(* measured at, any limits on jumps, coasting and staleness, and any       *)
(* single set-back of the wall clock.                                      *)
(***************************************************************************)
EXTENDS ArucoLocator, TLAPS

\* A stamp is ahead of the time it was taken at by no more than the set-back.
Ahead(f) == f # None => f.stamp <= f.at + SetBack /\ f.at <= now
StampsAhead == Ahead(frame) /\ Ahead(lastGood)

\* The filter is between two places no jump apart, each measured since the
\* last good pose, or its place: it may drift from that place, measurement by
\* measurement, but never past what has been measured.
Bracket(a, b, s) == a <= s /\ s <= b /\ b - a <= Jitter
FilterBracketed ==
  lastGood # None =>
    /\ \E a, b \in before \cup {lastGood.place} : Bracket(a, b, smoothed)
    /\ pending # None => pending \in before

IInv == TypeOK /\ StampsAhead /\ PoseIsRecent /\ FilterBracketed

-----------------------------------------------------------------------------
\* A filter that moves towards a measurement p that is no jump stays bracketed,
\* p helping, and has moved no jump away from the old bracket.
LEMMA DriftStaysBracketed ==
  ASSUME NEW a \in Places, NEW b \in Places, NEW s \in Places, NEW p \in Places,
         NEW q \in Between(s, p), Bracket(a, b, s), ~Far(p, s)
  PROVE  /\ ~Far(a, q) \/ ~Far(b, q)
         /\ \E c, d \in {a, b, p} : Bracket(c, d, q)
<1>1. a \in Int /\ b \in Int /\ s \in Int /\ p \in Int /\ q \in Int /\ Jitter \in Nat
  BY LocatorAssumption DEF LocatorAssumption, Between
<1>2. (s <= q /\ q <= p) \/ (p <= q /\ q <= s)
  BY <1>1 DEF Between
<1>3. p - s <= Jitter /\ s - p <= Jitter
  BY <1>1 DEF Far, Distance
<1>4. CASE a <= q /\ q <= b
  BY <1>1, <1>4 DEF Bracket, Far, Distance
<1>5. CASE b < q
  <2>1. Bracket(b, p, q)
    BY <1>1, <1>2, <1>3, <1>5 DEF Bracket
  <2> QED BY <1>1, <1>3, <1>5, <2>1 DEF Bracket, Far, Distance
<1>6. CASE q < a
  <2>1. Bracket(p, a, q)
    BY <1>1, <1>2, <1>3, <1>6 DEF Bracket
  <2> QED BY <1>1, <1>3, <1>6, <2>1 DEF Bracket, Far, Distance
<1> QED BY <1>1, <1>4, <1>5, <1>6

\* Wherever a measurement moves the filter, something measured since the last
\* good pose was no jump away, or its place was.
LEMMA FilterMoves ==
  ASSUME TypeOK, FilterBracketed, NEW p \in Places, NEW q \in Filtered(p)
  PROVE  /\ q \in Places
         /\ lastGood # None =>
              /\ \E m \in before \cup {lastGood.place} : ~Far(m, q)
              /\ \E c, d \in before \cup {p, lastGood.place} : Bracket(c, d, q)
<1>0. Places \subseteq Int /\ Jitter \in Nat /\ Confirm \in 0 .. Jitter /\ None \notin Places
  BY LocatorAssumption, LocatorNoneAssumption DEF LocatorAssumption
<1>1. CASE smoothed = None
  BY <1>1 DEF Filtered, TypeOK
<1>2. CASE smoothed # None /\ ~Far(p, smoothed)
  <2>1. q \in Between(smoothed, p) /\ smoothed \in Places
    BY <1>2 DEF Filtered, TypeOK
  <2>2. ASSUME lastGood # None
        PROVE  /\ \E m \in before \cup {lastGood.place} : ~Far(m, q)
               /\ \E c, d \in before \cup {p, lastGood.place} : Bracket(c, d, q)
    <3>1. PICK a, b \in before \cup {lastGood.place} : Bracket(a, b, smoothed)
      BY <2>2 DEF FilterBracketed
    <3>2. a \in Places /\ b \in Places
      BY <2>2 DEF TypeOK, Good
    <3>3. ~Far(a, q) \/ ~Far(b, q)
      BY <1>2, <2>1, <3>1, <3>2, DriftStaysBracketed
    <3>4. \E c, d \in {a, b, p} : Bracket(c, d, q)
      BY <1>2, <2>1, <3>1, <3>2, DriftStaysBracketed
    <3> QED BY <3>3, <3>4
  <2> QED BY <2>1, <2>2 DEF Between
<1>3. CASE smoothed # None /\ Far(p, smoothed)
  <2>1. Confirms(p) /\ q = p
    BY <1>3 DEF Filtered
  <2>2. pending \in Places /\ ~Far(pending, p)
    BY <1>0, <2>1 DEF Confirms, TypeOK, Far, Distance
  <2>3. Bracket(p, p, p)
    BY <1>0 DEF Bracket
  <2> QED BY <2>1, <2>2, <2>3 DEF FilterBracketed, Confirms
<1> QED BY <1>1, <1>2, <1>3

-----------------------------------------------------------------------------
LEMMA InitHolds == ASSUME Init PROVE IInv
BY LocatorAssumption
   DEF LocatorAssumption, Init, IInv, TypeOK, StampsAhead, Ahead, PoseIsRecent,
       FilterBracketed, Unusable, Pose

\* What a call leaves of the filter and of the last good pose is sound.
Settled ==
  /\ lastGood' \in Good \cup {None}
  /\ smoothed' \in Places \cup {None} /\ pending' \in Places \cup {None}
  /\ pose' \in Pose /\ before' \in SUBSET Places
  /\ (smoothed' = None) => (lastGood' = None /\ pending' = None)
  /\ Ahead(lastGood)' /\ PoseIsRecent' /\ FilterBracketed'

\* A frame that is not stale was taken lately, by its stamp and by the clock.
LEMMA FreshFrameIsLate ==
  ASSUME IInv, NEW f \in Frame, Ahead(f), f # None, ~Stale(f)
  PROVE  /\ now - f.at \in 0 .. MaxNow
         /\ now - f.at <= MaxFrameAge + SetBack
         /\ now <= MaxFrameAge + f.stamp
<1>1. now \in 0 .. MaxNow /\ behind \in {0, SetBack} /\ f.at \in 0 .. MaxNow /\ f.stamp \in Int
  BY LocatorAssumption DEF IInv, TypeOK, Frame, LocatorAssumption
<1> QED BY <1>1, LocatorAssumption DEF LocatorAssumption, Stale, Wall, Ahead

\* Coasting or dropping keeps what was sound, for a filter left at quad.
LEMMA CoastSettles ==
  ASSUME IInv, NEW f \in Frame, Ahead(f), f # None, ~Stale(f), now' = now,
         NEW quad \in Places \cup {None}, NEW jump \in Places \cup {None},
         NEW ps \in SUBSET Places,
         CoastsOrDrops(f, quad, jump), before' = Noted(ps),
         quad = None => lastGood = None /\ jump = None,
         lastGood # None =>
           /\ \E a, b \in before \cup ps \cup {lastGood.place} : Bracket(a, b, quad)
           /\ jump # None => jump \in before \cup ps
  PROVE  Settled
<1>1. CASE Coasts(f)
  <2>1. lastGood # None /\ lastGood' = lastGood /\ lastGood \in Good
    BY <1>1 DEF Coasts, CoastsOrDrops, IInv, TypeOK
  <2>2. /\ smoothed' = quad /\ pending' = jump /\ before' = before \cup ps
        /\ pose' = [status |-> "coasting", usable |-> CoastAge(f) # MaxCoast,
                    place |-> lastGood.place, age |-> now - lastGood.at]
    BY <1>1, <2>1 DEF CoastsOrDrops, Noted
  <2>3. /\ lastGood.at \in 0 .. MaxNow /\ lastGood.stamp \in Int /\ f.stamp \in Int
        /\ now \in 0 .. MaxNow /\ lastGood.place \in Places
    BY <2>1, LocatorAssumption DEF LocatorAssumption, Good, Frame, IInv, TypeOK
  <2>4. now - lastGood.at \in 0 .. MaxNow
    BY <2>1, <2>3, LocatorAssumption DEF LocatorAssumption, IInv, StampsAhead, Ahead
  <2>5. pose' \in Pose
    BY <2>2, <2>3, <2>4 DEF Pose
  <2>6. PoseIsRecent'
    <3>1. CoastAge(f) # MaxCoast => now - lastGood.at < MaxFrameAge + SetBack + MaxCoast
      BY <1>1, <2>1, <2>3, LocatorAssumption, FreshFrameIsLate
         DEF LocatorAssumption, Coasts, CoastAge, IInv, StampsAhead, Ahead
    <3> QED BY <2>2, <3>1 DEF PoseIsRecent
  <2>7. FilterBracketed'
    BY <2>1, <2>2 DEF FilterBracketed
  <2>8. Ahead(lastGood)'
    BY <2>1 DEF IInv, StampsAhead, Ahead
  <2> QED BY <2>1, <2>2, <2>5, <2>6, <2>7, <2>8 DEF Settled, IInv, TypeOK
<1>2. CASE ~Coasts(f)
  <2>1. /\ pose' = Unusable("not_found")
        /\ lastGood' = None /\ smoothed' = None /\ pending' = None /\ before' = {}
    BY <1>2 DEF CoastsOrDrops, Noted
  <2> QED
    BY <2>1, LocatorAssumption
       DEF LocatorAssumption, Settled, Unusable, Pose, PoseIsRecent, Ahead, FilterBracketed
<1> QED BY <1>1, <1>2

\* A good pose that is far from the last one has a second measurement near it.
Vouches ==
  lastGood # None /\ lastGood' # None /\ Far(lastGood.place, lastGood'.place) =>
    \E p \in before : ~Far(p, lastGood'.place)

LEMMA UnmovedVouches ==
  ASSUME TypeOK, lastGood' = lastGood \/ lastGood' = None
  PROVE  Vouches
<1>1. ASSUME lastGood # None PROVE ~Far(lastGood.place, lastGood.place)
  <2>1. lastGood.place \in Int /\ Jitter \in Nat
    BY <1>1, LocatorAssumption DEF LocatorAssumption, TypeOK, Good
  <2> QED BY <2>1 DEF Far, Distance
<1> QED BY <1>1 DEF Vouches

\* One call of locate leaves the filter sound, and vouches for a jump.
LEMMA LocateSettles ==
  ASSUME IInv, NEW f \in Frame, Ahead(f), f # None, Locates(f), UNCHANGED world
  PROVE  Settled /\ Vouches /\ last' \in Frame \cup {None}
<1> USE DEF world
<1>0. TypeOK /\ FilterBracketed /\ Places \subseteq Int /\ Jitter \in Nat
  BY LocatorAssumption DEF LocatorAssumption, IInv
<1>1. CASE Refuses(f)
  <2>1. pose' \in Pose /\ PoseIsRecent'
    BY <1>1, LocatorAssumption
       DEF LocatorAssumption, Refuses, Unusable, Pose, PoseIsRecent
  <2> QED
    BY <1>1, <2>1, UnmovedVouches
       DEF Refuses, Settled, IInv, TypeOK, StampsAhead, Ahead, FilterBracketed
<1>2. CASE Takes(f) /\ FindsNothing(f)
  <2>1. /\ smoothed \in Places \cup {None} /\ pending \in Places \cup {None}
        /\ smoothed = None => lastGood = None /\ pending = None
        /\ lastGood # None =>
             /\ \E a, b \in before \cup {} \cup {lastGood.place} : Bracket(a, b, smoothed)
             /\ pending # None => pending \in before \cup {}
    BY DEF IInv, TypeOK, FilterBracketed
  <2>2. Settled
    BY <1>2, <2>1, CoastSettles DEF Takes, FindsNothing
  <2>3. lastGood' = lastGood \/ lastGood' = None
    BY <1>2 DEF FindsNothing, CoastsOrDrops
  <2> QED BY <1>0, <1>2, <2>2, <2>3, UnmovedVouches DEF Takes
<1>3. ASSUME Takes(f), NEW p \in Places, HoldsBack(f, p) PROVE Settled /\ Vouches
  <2>1. smoothed \in Places
    BY <1>3 DEF HoldsBack, Filtered, IInv, TypeOK
  <2>2. lastGood # None =>
          \E a, b \in before \cup {p} \cup {lastGood.place} : Bracket(a, b, smoothed)
    BY <1>0 DEF FilterBracketed
  <2>3. Settled
    BY <1>3, <2>1, <2>2, CoastSettles, LocatorNoneAssumption DEF Takes, HoldsBack
  <2>4. lastGood' = lastGood \/ lastGood' = None
    BY <1>3 DEF HoldsBack, CoastsOrDrops
  <2> QED BY <1>0, <2>3, <2>4, UnmovedVouches
<1>4. ASSUME Takes(f), NEW p \in Places, Accepts(f, p) PROVE Settled /\ Vouches
  <2>1. PICK q \in Filtered(p) :
          /\ smoothed' = q /\ pending' = None
          /\ lastGood' = [place |-> q, at |-> f.at, stamp |-> f.stamp]
          /\ pose' = [status |-> "tracking", usable |-> TRUE, place |-> q, age |-> now - f.at]
          /\ before' = {}
    BY <1>4 DEF Accepts
  <2>2. q \in Places /\ q # None
    BY <1>0, FilterMoves, LocatorNoneAssumption
  <2>3. now - f.at \in 0 .. MaxNow /\ now - f.at <= MaxFrameAge + SetBack
    BY <1>4, FreshFrameIsLate DEF Takes
  <2>4. lastGood' \in Good /\ pose' \in Pose /\ PoseIsRecent'
    BY <2>1, <2>2, <2>3 DEF Good, Frame, Pose, PoseIsRecent
  <2>5. Ahead(lastGood)'
    BY <2>1 DEF Ahead
  <2>6. FilterBracketed'
    <3>1. Bracket(q, q, q)
      BY <1>0, <2>2 DEF Bracket
    <3> QED BY <2>1, <3>1 DEF FilterBracketed
  <2>7. Vouches
    BY <1>0, <2>1, FilterMoves DEF Vouches
  <2> QED BY <2>1, <2>2, <2>4, <2>5, <2>6, <2>7 DEF Settled
<1>5. ASSUME Takes(f), NEW p \in Places, Singular(f, p) PROVE Settled /\ Vouches
  <2>1. PICK q \in Filtered(p) : CoastsOrDrops(f, q, None) /\ before' = Noted({p})
    BY <1>5 DEF Singular
  <2>2. /\ q \in Places
        /\ lastGood # None =>
             \E a, b \in before \cup {p} \cup {lastGood.place} : Bracket(a, b, q)
    BY <1>0, FilterMoves
  <2>3. Settled
    BY <1>5, <2>1, <2>2, CoastSettles, LocatorNoneAssumption DEF Takes
  <2>4. lastGood' = lastGood \/ lastGood' = None
    BY <2>1 DEF CoastsOrDrops
  <2> QED BY <1>0, <2>3, <2>4, UnmovedVouches
<1>6. ASSUME Takes(f), NEW p \in Places, Raises(p) PROVE Settled /\ Vouches
  <2>1. pose' \in Pose /\ PoseIsRecent' /\ lastGood' = lastGood
    BY <1>6, LocatorAssumption
       DEF LocatorAssumption, Raises, Unusable, Pose, PoseIsRecent
  <2>2. ASSUME UNCHANGED <<smoothed, pending, before>> PROVE Settled
    <3>1. Ahead(lastGood)' /\ FilterBracketed'
      BY <2>1, <2>2 DEF IInv, StampsAhead, Ahead, FilterBracketed
    <3> QED BY <2>1, <2>2, <3>1 DEF Settled, IInv, TypeOK
  <2>3. ASSUME NEW q \in Filtered(p), smoothed' = q, pending' = None, before' = Noted({p})
        PROVE  Settled
    <3>1. /\ q \in Places
          /\ lastGood # None =>
               \E a, b \in before \cup {p} \cup {lastGood.place} : Bracket(a, b, q)
      BY <1>0, FilterMoves
    <3>2. FilterBracketed'
      BY <2>1, <2>3, <3>1 DEF FilterBracketed, Noted
    <3>3. before' \in SUBSET Places
      BY <1>0, <2>3 DEF Noted, TypeOK
    <3> QED
      BY <2>1, <2>3, <3>1, <3>2, <3>3, LocatorNoneAssumption
         DEF Settled, IInv, TypeOK, StampsAhead, Ahead
  <2>4. Settled
    BY <1>6, <2>2, <2>3 DEF Raises
  <2> QED BY <1>0, <2>1, <2>4, UnmovedVouches
<1>7. last' \in Frame \cup {None}
  BY DEF Locates, Refuses, Takes, IInv, TypeOK
<1> QED BY <1>1, <1>2, <1>3, <1>4, <1>5, <1>6, <1>7 DEF Locates, Measures

-----------------------------------------------------------------------------
LEMMA StepKeeps ==
  ASSUME IInv, [Next]_vars
  PROVE  IInv' /\ Vouches
<1> USE DEF IInv, TypeOK, world, locator
<1>0. TypeOK /\ MaxNow \in Nat /\ SetBack \in Nat
  BY LocatorAssumption DEF LocatorAssumption
<1>1. CASE Tick
  <2>1. now' \in 0 .. MaxNow /\ now <= now'
    BY <1>0, <1>1 DEF Tick
  <2>2. StampsAhead'
    BY <1>0, <1>1, <2>1 DEF Tick, StampsAhead, Ahead, Frame, Good
  <2> QED
    BY <1>0, <1>1, <2>1, <2>2, UnmovedVouches DEF Tick, PoseIsRecent, FilterBracketed
<1>2. CASE WallClockSetBack
  BY <1>0, <1>2, UnmovedVouches
     DEF WallClockSetBack, StampsAhead, Ahead, PoseIsRecent, FilterBracketed
<1>3. CASE FrameArrives
  <2>1. frame' \in Frame /\ Ahead(frame)'
    BY <1>0, <1>3 DEF FrameArrives, Frame, Wall, Ahead
  <2> QED
    BY <1>0, <1>3, <2>1, UnmovedVouches
       DEF FrameArrives, StampsAhead, Ahead, PoseIsRecent, FilterBracketed
<1>4. CASE LocatesLatest
  <2>1. Settled /\ Vouches /\ last' \in Frame \cup {None}
    BY <1>4, LocateSettles DEF LocatesLatest, StampsAhead
  <2> QED BY <1>4, <2>1 DEF LocatesLatest, Settled, StampsAhead, Ahead
<1>5. CASE Resets
  BY <1>0, <1>5, UnmovedVouches
     DEF Resets, StampsAhead, Ahead, PoseIsRecent, FilterBracketed
<1>6. CASE UNCHANGED vars
  BY <1>0, <1>6, UnmovedVouches
     DEF vars, StampsAhead, Ahead, PoseIsRecent, FilterBracketed
<1> QED BY <1>1, <1>2, <1>3, <1>4, <1>5, <1>6 DEF Next, Environment

LEMMA Invariance == Spec => []IInv
<1>1. Init => IInv
  BY InitHolds
<1>2. IInv /\ [Next]_vars => IInv'
  BY StepKeeps
<1> QED BY <1>1, <1>2, PTL DEF Spec

\* The locator keeps its types, and a filter that is off is off entirely
\* (perception/aruco_keyboard.py:577-584, 770-772).
THEOREM LocatorTypeCorrect == Spec => []TypeOK
<1>1. IInv => TypeOK
  BY DEF IInv
<1> QED BY <1>1, Invariance, PTL

\* A usable pose is no older than a stale frame, a coasting one no older than
\* that and a coast, set-back included (perception/aruco_keyboard.py:596, 747-750).
THEOREM UsablePoseIsRecent == Spec => []PoseIsRecent
<1>1. IInv => PoseIsRecent
  BY DEF IInv
<1> QED BY <1>1, Invariance, PTL

\* No single measurement moves the keyboard a jump away, however often the
\* filter has drifted without a pose since the last good one (perception/
\* aruco_keyboard.py:665-723).
THEOREM JumpIsConfirmed == Spec => JumpNeedsTwo
<1>1. IInv /\ [Next]_vars =>
        [lastGood # None /\ lastGood' # None /\ Far(lastGood.place, lastGood'.place)
           => \E p \in before : ~Far(p, lastGood'.place)]_vars
  BY StepKeeps DEF Vouches
<1> QED BY <1>1, Invariance, PTL DEF Spec, JumpNeedsTwo
=============================================================================
