--------------------------- MODULE ContactSession ---------------------------
(***************************************************************************)
(* ContactCalibrationSession (calibration/session.py) with the handlers    *)
(* that drive it (calibration/control_plane.py:506-605): the fingertip is  *)
(* captured on the latest processed frame, through a locator of the        *)
(* session's own, key by key; each change is persisted in the draft, and   *)
(* the last sample makes the contact map.                                  *)
(*                                                                         *)
(* The handlers run under one lock.  Each file is replaced or removed      *)
(* atomically, or the disk refuses and the handler raises there; a crash   *)
(* within a handler leaves the disk as a refusal followed by Dies does.    *)
(* The layout and the anchor stay: KeyboardSetup has them change.          *)
(***************************************************************************)
EXTENDS ArucoLocator, SequencesExt

CONSTANTS
  Order,           \* the inventory's keys, in calibration order
  SamplesPerKey,
  MaxStarts,       \* bound: times the calibration is started
  MaxRefusals      \* bound: disk operations refused

ASSUME SessionAssumption ==
  /\ Order \in Seq(ToSet(Order)) /\ IsInjective(Order) /\ Order # <<>>
  /\ SamplesPerKey \in Nat \ {0} /\ MaxStarts \in Nat /\ MaxRefusals \in Nat

VARIABLES
  ses,        \* _contact_session: its samples, and paused
  locating,   \* _contact_locator is there
  draft,      \* samples in the draft file
  contact,    \* samples in the contact map file
  starts, refusals,
  leftover    \* history: the removal of a contact map was refused

session == <<ses, locating, draft, contact, starts, refusals, leftover>>
sessionVars == <<vars, session>>

-----------------------------------------------------------------------------
Keys == ToSet(Order)

\* A point: the frame it was seen on and the start of the session (ghosts).
Sample == [at : 0 .. MaxNow, start : 1 .. MaxStarts]
Samples == [Keys -> BoundedSeq(Sample, SamplesPerKey)]
Blank == [k \in Keys |-> <<>>]

Complete(s) == \A k \in Keys : Len(s[k]) = SamplesPerKey
CurrentKey(s) == SelectInSeq(Order, LAMBDA k : Len(s[k]) < SamplesPerKey)
\* Mutant: undo goes through the keys in calibration order.
FirstWithSamples(s) == SelectInSeq(Order, LAMBDA k : s[k] # <<>>)
LastWithSamples(s) == SelectLastInSeq(Order, LAMBDA k : s[k] # <<>>)

Blocked == ses.paused \/ Complete(ses.samples)

SessionInit ==
  /\ Init
  /\ ses = None /\ locating = FALSE
  /\ draft = None /\ contact = None
  /\ starts = 0 /\ refusals = 0 /\ leftover = FALSE

-----------------------------------------------------------------------------
\* The disk refuses, and the handler raises.
DiskRefuses ==
  /\ refusals < MaxRefusals
  /\ refusals' = refusals + 1

Finalizes(s) ==
  /\ contact' = s /\ leftover' = FALSE
  /\ UNCHANGED refusals

RemovesMap ==
  /\ contact' = None /\ leftover' = FALSE
  /\ UNCHANGED refusals

MapStays ==
  /\ DiskRefuses
  /\ contact # None
  /\ leftover' = TRUE
  /\ UNCHANGED contact

Persists(s) ==
  /\ draft' = s
  /\ ses' = [ses EXCEPT !.samples = s]

\* _persist raises: the samples are rolled back.
PersistRefused ==
  /\ DiskRefuses
  /\ UNCHANGED <<ses, draft, contact, leftover>>

-----------------------------------------------------------------------------
\* start_contact_calibration, where `s` was found in the draft or is new.  A
\* complete session writes its map before it is taken over, an incomplete one
\* is taken over before an old map goes.
TakesOver(s) ==
  /\ draft' = s
  /\ ses' = [samples |-> s, paused |-> FALSE]
NewLocator ==
  /\ locating' = TRUE
  /\ Resets

StartsIncomplete(s) ==
  /\ ~Complete(s)
  /\ TakesOver(s)
  /\ \/ RemovesMap /\ NewLocator
     \/ MapStays /\ UNCHANGED <<locating, vars>>

StartsComplete(s) ==
  /\ Complete(s)
  /\ Finalizes(s) /\ TakesOver(s) /\ NewLocator

StartRefused(s) ==
  /\ draft = None \/ Complete(s)
  /\ DiskRefuses
  /\ UNCHANGED <<ses, draft, contact, leftover, locating, vars>>

\* The draft is of this layout and anchor, or it would not have been kept.
Found == IF draft = None THEN Blank ELSE draft

Starts ==
  /\ starts < MaxStarts
  /\ starts' = starts + 1
  /\ StartsIncomplete(Found) \/ StartsComplete(Found) \/ StartRefused(Found)

\* Mutant: the map is built before the sample is persisted.
AppendsMapFirst(s) ==
  \/ /\ IF Complete(s) THEN Finalizes(s) ELSE UNCHANGED <<contact, leftover, refusals>>
     /\ Persists(s)
  \/ /\ DiskRefuses /\ UNCHANGED <<ses, draft>>
     /\ IF Complete(s) THEN contact' = s /\ leftover' = FALSE ELSE UNCHANGED <<contact, leftover>>
\* The sample is persisted before the map is built of it.
Appends(s) ==
  \/ /\ Persists(s)
     /\ IF Complete(s)
        THEN Finalizes(s) \/ (DiskRefuses /\ UNCHANGED <<contact, leftover>>)
        ELSE UNCHANGED <<contact, leftover, refusals>>
  \/ PersistRefused

TakesSample(f) ==
  LET s == ses.samples
      k == Order[CurrentKey(s)]
  IN Appends([s EXCEPT ![k] = Append(@, [at |-> f.at, start |-> starts])])

\* No sample: the pose is not usable, no right hand is seen, the point is not
\* finite, another key was asked for, or the session is paused or complete.
NoSample == UNCHANGED <<ses, draft, contact, leftover, refusals>>

CapturesContact ==
  /\ ses # None /\ locating /\ frame # None
  /\ Locates(frame)
  /\ NoSample \/ (pose'.usable /\ ~Blocked /\ TakesSample(frame))
  /\ UNCHANGED <<world, locating, starts>>

Rewrites(s) ==
  \/ Persists(s) /\ UNCHANGED <<contact, leftover, refusals>>
  \/ PersistRefused

UndoLast ==
  /\ ses # None /\ ~Blocked
  /\ LET s == ses.samples
         i == LastWithSamples(s)
     IN i # 0 /\ Rewrites([s EXCEPT ![Order[i]] = Front(@)])
  /\ UNCHANGED <<vars, locating, starts>>

RestartsCurrentKey ==
  /\ ses # None /\ ~Blocked
  /\ LET s == ses.samples
     IN Rewrites([s EXCEPT ![Order[CurrentKey(s)]] = <<>>])
  /\ UNCHANGED <<vars, locating, starts>>

Pauses ==
  /\ ses # None
  /\ ses' = [ses EXCEPT !.paused = ~@]
  /\ UNCHANGED <<vars, locating, draft, contact, starts, refusals, leftover>>

Forgets == ses' = None /\ locating' = FALSE

\* reset_contact_draft: the draft, the map, the session.
ResetsDraft ==
  /\ \/ draft' = None /\ RemovesMap /\ Forgets
     \/ draft' = None /\ MapStays /\ UNCHANGED <<ses, locating>>
     \/ draft # None /\ DiskRefuses /\ UNCHANGED <<ses, locating, draft, contact, leftover>>
  /\ UNCHANGED <<vars, starts>>

\* The process dies; the next one has seen no frame.
Dies ==
  /\ Forgets
  /\ frame' = None /\ pose' = Unusable("not_found")
  /\ last' = None /\ lastGood' = None /\ smoothed' = None /\ pending' = None /\ before' = {}
  /\ UNCHANGED <<now, behind, draft, contact, starts, refusals, leftover>>

SessionNext ==
  \/ Environment /\ UNCHANGED session
  \/ Starts \/ CapturesContact \/ UndoLast \/ RestartsCurrentKey \/ Pauses
  \/ ResetsDraft \/ Dies

-----------------------------------------------------------------------------
SessionTypeOK ==
  /\ TypeOK
  /\ ses = None \/ (ses.samples \in Samples /\ ses.paused \in BOOLEAN)
  /\ locating \in BOOLEAN /\ leftover \in BOOLEAN
  /\ draft \in Samples \cup {None} /\ contact \in Samples \cup {None}
  /\ starts \in 0 .. MaxStarts /\ refusals \in 0 .. MaxRefusals

Earlier(a, b) == a.at < b.at \/ (a.at = b.at /\ a.start < b.start)

InOrder(s) ==
  \A i, j \in DOMAIN Order :
    /\ i < j /\ s[Order[j]] # <<>> => Len(s[Order[i]]) = SamplesPerKey
    /\ \A p \in DOMAIN s[Order[i]], q \in DOMAIN s[Order[j]] :
         i < j \/ (i = j /\ p < q) => Earlier(s[Order[i]][p], s[Order[j]][q])

\* A key has samples only when every key before it has all of its own, and in
\* that order the samples were taken one after the other, two of one start
\* never on one frame: a repeated capture of a frame is refused, undo removes
\* the newest sample, and a draft read back after a crash is continued where
\* it stood (calibration/session.py:228-274, calibration/control_plane.py:541).
SamplesInOrder ==
  /\ draft # None => InOrder(draft)
  /\ ses # None => InOrder(ses.samples)

\* A contact map that is on disk beside a draft is the one of that draft's
\* samples, whatever was refused in between, unless its own removal was
\* (calibration/session.py:233-239, calibration/control_plane.py:518-521).
MapIsOfDraft ==
  contact # None /\ draft # None /\ ~leftover => contact = draft
=============================================================================
