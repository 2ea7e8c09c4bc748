---------------------------- MODULE ArucoLocator ----------------------------
(***************************************************************************)
(* ArucoKeyboardLocator (perception/aruco_keyboard.py): from the frames of *)
(* one camera it keeps a smoothed pose of the keyboard, holds back a pose  *)
(* that jumps until a second one confirms it, and coasts on the last good  *)
(* pose while the markers are not found.                                   *)
(*                                                                         *)
(* A pose is a place on a line; detection and the homography yield some    *)
(* place or none.  Frames are stamped with the wall clock (time.time_ns),  *)
(* which may be set back once.  One process has one source_id and one      *)
(* frame counter (core/config.py:41, video/opencv_camera.py:233), so the   *)
(* branches for frames of another source cannot be taken.                  *)
(***************************************************************************)
EXTENDS Integers

CONSTANTS
  Places,        \* where a quad may be measured
  Jitter,        \* a pose further from the smoothed one is a jump
  Confirm,       \* a second pose this close to the first confirms a jump
  MaxCoast,      \* ticks a pose may be coasted on
  MaxFrameAge,   \* ticks after which a frame is stale
  SetBack,       \* ticks the wall clock is set back
  MaxNow,        \* bound: ticks of a behaviour
  None

\* The ratios 0.12 and 0.9 are set nowhere else; a setting may forbid coasting.
LocatorAssumption ==
  /\ Places \subseteq Int /\ Jitter \in Nat /\ Confirm \in 0 .. Jitter
  /\ MaxCoast \in Nat /\ MaxFrameAge \in Nat /\ SetBack \in Nat /\ MaxNow \in Nat

ASSUME LocatorAssumption
ASSUME LocatorNoneAssumption == None \notin Places

VARIABLES
  now, behind,     \* time, and how far the wall clock has been set back
  frame,           \* the newest processed frame: its number and its stamp
  last,            \* the last frame taken: _last_frame_id, _last_acquired_at_ns
  lastGood,        \* _last_good
  smoothed,        \* _smoothed_quad
  pending,         \* _pending_jump_quad
  pose,            \* what the last call returned
  before           \* history: what was measured since lastGood

world == <<now, behind, frame>>
locator == <<last, lastGood, smoothed, pending, pose, before>>
vars == <<world, locator>>

-----------------------------------------------------------------------------
Wall == now + SetBack - behind

Distance(p, q) == IF p < q THEN q - p ELSE p - q
Far(p, q) == Distance(p, q) > Jitter
Between(p, q) == {r \in Places : (p <= r /\ r <= q) \/ (q <= r /\ r <= p)}

Frame == [at : 0 .. MaxNow, stamp : 0 .. MaxNow + SetBack]
Good == [place : Places, at : 0 .. MaxNow, stamp : 0 .. MaxNow + SetBack]

\* KeyboardPoseEstimate.  age (history): true time since it was measured.
Unusable(status) == [status |-> status, usable |-> FALSE, place |-> None, age |-> 0]
Pose ==
  [status : {"tracking", "coasting", "not_found", "stale_frame", "raised"},
   usable : BOOLEAN, place : Places \cup {None}, age : 0 .. MaxNow]

Init ==
  /\ now = 0 /\ behind = 0
  /\ frame = None
  /\ last = None /\ lastGood = None /\ smoothed = None /\ pending = None
  /\ pose = Unusable("not_found")
  /\ before = {}

-----------------------------------------------------------------------------
Tick ==
  /\ now < MaxNow
  /\ now' = now + 1
  /\ UNCHANGED <<behind, frame, locator>>

WallClockSetBack ==
  /\ behind = 0 /\ SetBack > 0
  /\ behind' = SetBack
  /\ UNCHANGED <<now, frame, locator>>

\* At most one frame a tick, numbered by it.
FrameArrives ==
  /\ (frame # None) => frame.at < now
  /\ frame' = [at |-> now, stamp |-> Wall]
  /\ UNCHANGED <<now, behind, locator>>

-----------------------------------------------------------------------------
Stale(f) == Wall - f.stamp > MaxFrameAge
OutOfOrder(f) == last # None /\ (f.at <= last.at \/ f.stamp <= last.stamp)

Refuses(f) ==
  /\ Stale(f) \/ OutOfOrder(f)
  /\ pose' = Unusable("stale_frame")
  /\ UNCHANGED <<last, lastGood, smoothed, pending, before>>

Takes(f) ==
  /\ ~Stale(f) /\ ~OutOfOrder(f)
  /\ last' = f

CoastAge(f) == f.stamp - lastGood.stamp
\* Mutant: a pose is coasted on while there is one.
CoastsAnyAge(f) == lastGood # None
Coasts(f) == lastGood # None /\ 0 <= CoastAge(f) /\ CoastAge(f) <= MaxCoast

\* _coast_or_drop, with the filter at (quad, jump).  At the very end of the
\* coast the confidence has decayed to nothing.
CoastsOrDrops(f, quad, jump) ==
  IF Coasts(f)
  THEN /\ pose' = [status |-> "coasting", usable |-> CoastAge(f) # MaxCoast,
                   place |-> lastGood.place, age |-> now - lastGood.at]
       /\ smoothed' = quad /\ pending' = jump
       /\ UNCHANGED lastGood
  ELSE /\ pose' = Unusable("not_found")
       /\ lastGood' = None /\ smoothed' = None /\ pending' = None

\* The history, with a measurement that gave no good pose (or none).
Noted(ps) == IF lastGood' = None THEN {} ELSE before \cup ps

\* Mutant: any second jump confirms the first.
ConfirmsAny(p) == pending # None
Confirms(p) == pending # None /\ Distance(p, pending) <= Confirm

\* Where the filter moves for the measurement p, or nowhere: p is a jump that
\* nothing confirms.  Smoothing ends somewhere between.
Filtered(p) ==
  CASE smoothed = None                      -> {p}
    [] smoothed # None /\ ~Far(p, smoothed) -> Between(smoothed, p)
    [] OTHER                                -> IF Confirms(p) THEN {p} ELSE {}

HoldsBack(f, p) ==
  /\ Filtered(p) = {}
  /\ CoastsOrDrops(f, smoothed, p)
  /\ before' = Noted({p})

Accepts(f, p) ==
  \E q \in Filtered(p) :
    /\ smoothed' = q /\ pending' = None
    /\ lastGood' = [place |-> q, at |-> f.at, stamp |-> f.stamp]
    /\ pose' = [status |-> "tracking", usable |-> TRUE, place |-> q, age |-> now - f.at]
    /\ before' = {}

\* The filter moved, but its matrix has no inverse.
Singular(f, p) ==
  \E q \in Filtered(p) :
    /\ CoastsOrDrops(f, q, None)
    /\ before' = Noted({p})

\* Detection failed, or too few markers, or no homography.
FindsNothing(f) ==
  /\ CoastsOrDrops(f, smoothed, pending)
  /\ before' = Noted({})

\* A point projected to infinity, or a matrix that cannot be normalized,
\* raises out of locate: before or after the filter has moved.
Raises(p) ==
  /\ pose' = Unusable("raised")
  /\ UNCHANGED lastGood
  /\ \/ UNCHANGED <<smoothed, pending, before>>
     \/ \E q \in Filtered(p) : smoothed' = q /\ pending' = None /\ before' = Noted({p})

Measures(f, p) == HoldsBack(f, p) \/ Accepts(f, p) \/ Singular(f, p) \/ Raises(p)

\* locate, under the lock.
Locates(f) ==
  \/ Refuses(f)
  \/ Takes(f) /\ (FindsNothing(f) \/ \E p \in Places : Measures(f, p))

LocatesLatest ==
  /\ frame # None
  /\ Locates(frame)
  /\ UNCHANGED world

\* reconfigure_camera, with no worker running.
Resets ==
  /\ last' = None /\ lastGood' = None /\ smoothed' = None /\ pending' = None
  /\ before' = {}
  /\ UNCHANGED <<world, pose>>

Environment == Tick \/ WallClockSetBack \/ FrameArrives

Next == Environment \/ LocatesLatest \/ Resets

Spec == Init /\ [][Next]_vars

-----------------------------------------------------------------------------
\* The type invariant; a filter that is off is off entirely.
TypeOK ==
  /\ now \in 0 .. MaxNow /\ behind \in {0, SetBack}
  /\ frame \in Frame \cup {None}
  /\ last \in Frame \cup {None}
  /\ lastGood \in Good \cup {None}
  /\ smoothed \in Places \cup {None} /\ pending \in Places \cup {None}
  /\ pose \in Pose /\ before \in SUBSET Places
  /\ (smoothed = None) => (lastGood = None /\ pending = None)

\* A usable pose was measured no longer ago than a stale frame and the clock's
\* set-back allow, and a coasting one not a whole coast longer: coasting never
\* feeds on coasting (perception/aruco_keyboard.py:596, 747-750).
PoseIsRecent ==
  pose.usable =>
    \/ pose.age <= MaxFrameAge + SetBack
    \/ pose.status = "coasting" /\ pose.age < MaxFrameAge + SetBack + MaxCoast

\* The keyboard is not moved across the image on the word of one measurement:
\* another one, since the last good pose, was no jump away from it, also when
\* the filter has moved in between without a pose (perception/
\* aruco_keyboard.py:665-685, 703-723).
JumpNeedsTwo ==
  [][ (lastGood # None /\ lastGood' # None /\ Far(lastGood.place, lastGood'.place))
      => \E p \in before : ~Far(p, lastGood'.place) ]_vars
=============================================================================
