------------------------- MODULE KeyboardSetupProofs -------------------------
(***************************************************************************)
(* What holds of KeyboardSetup for every set of cameras and layouts and    *)
(* every number of handlers, faults and restarts: whose camera the files,  *)
(* the session and the mapper were measured on, and which anchor.          *)
(***************************************************************************)
EXTENDS KeyboardSetup, TLAPS

\* A handler that has bound the camera and goes on.
Entered == {"save", "register", "contact", "apply", "change", "recover"}

-----------------------------------------------------------------------------
(* The invariant.                                                          *)

\* What is registered or sampled belongs to the bound camera; before the first
\* binding nothing was staged or applied.
Bound ==
  /\ doing \in Entered => binding = cam
  /\ reg # None \/ ses # None => binding = cam
  /\ binding = None => /\ activeAnchor = FirstAnchor /\ activeContact = FirstContact
                       /\ anchor = None /\ draft = None /\ contact = None
                       /\ up => cam = FirstCamera \/ cam \in Reflected

\* A process that is down or starting has measured nothing yet.
Starting ==
  /\ ~up => doing = "idle" /\ ~live
  /\ ~up \/ doing = "boot" => reg = None /\ ses = None /\ loc = None
  /\ doing = "boot" => /\ cam = source /\ (~block => ~BlockAtStart(cam))
                       /\ loaded.anchor = activeAnchor /\ loaded.contact = activeContact

\* Where setup names another camera than the source, the mapper is blocked and
\* nothing can be registered or sampled, unless the camera went on running.
NamesAgree ==
  /\ live /\ cam # source => refused = "camera" \/ doing = "torn"
  /\ up /\ cam # source => block
  /\ up /\ cam # source /\ refused # "camera" =>
       marker /\ ses = None /\ (reg # None => reg.cams = {})
  /\ doing = "recover" => goal = source

Of(item, c) == item # None => item.cams \subseteq {c}

\* What was measured, staged and applied is of the camera it is kept for.
Measured ==
  refused # "camera" =>
    /\ Of(reg, cam) /\ Of(ses, cam)
    /\ binding # None /\ ~marker =>
         Of(anchor, binding) /\ Of(draft, binding) /\ Of(contact, binding)
    /\ binding # None /\ ~rtMarker =>
         Of(activeAnchor, binding) /\ Of(activeContact, binding)
    /\ up /\ doing # "boot" /\ ~block => Of(loaded.anchor, cam) /\ Of(loaded.contact, cam)

\* A staging area without an anchor has lost one, or was never used: then the
\* active anchor may be taken over.
Lineage ==
  /\ ~marker /\ rtMarker => lineage \/ anchor # None
  /\ anchor = None /\ (draft # None \/ contact # None \/ ses # None) => lineage

\* Without a pending recalibration everything staged is of the staged anchor.
StagedOfAnchor ==
  ~marker /\ anchor # None =>
    /\ draft # None => draft.anchor = anchor
    /\ contact # None => contact.anchor = anchor
    /\ ses # None => ses.anchor = anchor

CameraInv == Bound /\ Starting /\ NamesAgree /\ Measured /\ Lineage /\ StagedOfAnchor

-----------------------------------------------------------------------------
(* Types.                                                                  *)

FlagsTyped ==
  /\ marker \in BOOLEAN /\ rtMarker \in BOOLEAN /\ lineage \in BOOLEAN
  /\ up \in BOOLEAN /\ block \in BOOLEAN /\ live \in BOOLEAN
FilesTyped ==
  /\ binding \in Cameras \cup {None}
  /\ layout \in Layouts \cup {None} /\ activeLayout \in Layouts
  /\ anchor \in Anchor \cup {None} /\ activeAnchor \in Anchor
  /\ draft \in Draft \cup {None}
  /\ contact \in Contact \cup {None} /\ activeContact \in Contact
MemoryTyped ==
  /\ reg # None => reg \in [layout : Layouts, cams : SUBSET Cameras]
  /\ ses \in Draft \cup {None} /\ loc \in Anchor \cup {None}
  /\ cam \in Cameras /\ source \in Cameras /\ goal \in Cameras
  /\ loaded \in [anchor : Anchor, contact : Contact]
ProgressTyped ==
  /\ refused \in {"none", "write", "camera"}
  /\ doing \in {"idle", "boot", "torn"} \cup Entered
  /\ request \in {"none", "change", "recover"}
  /\ doing = "save" => saves < MaxSaves
CountersTyped ==
  /\ faults \in 0 .. MaxFaults /\ anchors \in 0 .. MaxAnchors /\ saves \in 0 .. MaxSaves
  /\ switches \in 0 .. MaxSwitches /\ boots \in 0 .. MaxBoots

TypeInv == FlagsTyped /\ FilesTyped /\ MemoryTyped /\ ProgressTyped /\ CountersTyped

LEMMA TypeOKIsPart == TypeInv => TypeOK
  BY Zenon
  DEF TypeInv, TypeOK, FlagsTyped, FilesTyped, MemoryTyped, ProgressTyped, CountersTyped, Entered

LEMMA InitTypes == Init => TypeInv
  <1> SUFFICES ASSUME Init PROVE TypeInv
    OBVIOUS
  <1>1. /\ FirstCamera \in Cameras /\ FirstLayout \in Layouts
        /\ 0 \in 0 .. MaxAnchors /\ 0 \in 0 .. MaxSaves /\ 0 \in 0 .. MaxSwitches
        /\ 0 \in 0 .. MaxBoots /\ 0 \in 0 .. MaxFaults
    BY SetupAssumption
  <1>2. FirstAnchor \in Anchor
    BY <1>1 DEF FirstAnchor, Anchor
  <1>3. FirstContact \in Contact
    BY <1>1, <1>2 DEF FirstContact, Contact
  <1>4. FlagsTyped
    BY Zenon DEF Init, FlagsTyped
  <1>5. FilesTyped
    BY <1>1, <1>2, <1>3 DEF Init, FilesTyped
  <1>6. MemoryTyped /\ ProgressTyped /\ CountersTyped
    BY <1>1, <1>2, <1>3 DEF Init, MemoryTyped, ProgressTyped, CountersTyped, Entered
  <1> QED
    BY <1>4, <1>5, <1>6 DEF TypeInv

\* A cut is the number of effects that took place; short of the last one, the
\* next effect is one that touches the disk this time.
LEMMA CutIsCount ==
  ASSUME NEW n \in Nat, NEW real \in SUBSET (1 .. n), NEW cut \in Cuts(n, real)
  PROVE  cut \in 0 .. n /\ (cut < n => cut + 1 \in real)
  BY DEF Cuts

LEMMA BindCut ==
  ASSUME NEW cut \in BindCuts
  PROVE  cut \in 0 .. 3
  BY CutIsCount DEF BindCuts, At

LEMMA AdoptCut ==
  ASSUME NEW cut \in AdoptCuts
  PROVE  cut \in 0 .. 3
  BY CutIsCount DEF AdoptCuts, At

\* A cut handler counts a fault.
LEMMA CutTypes ==
  ASSUME ProgressTyped, CountersTyped, NEW n \in Nat, NEW cut \in 0 .. n, NEW next, Took(cut, n, next)
  PROVE  faults' \in 0 .. MaxFaults /\ doing' \in {"torn", next}
  BY SetupAssumption DEF CountersTyped, Took

\* Both camera bindings keep the types.
LEMMA BindTypes ==
  ASSUME FilesTyped, MemoryTyped, NEW cut \in 0 .. 3, Binds(cut), cam' = cam
  PROVE  /\ binding' \in Cameras \cup {None} /\ block' \in BOOLEAN
         /\ marker' \in BOOLEAN /\ rtMarker' \in BOOLEAN
         /\ ses' \in Draft \cup {None} /\ loc' \in Anchor \cup {None}
         /\ reg' # None => reg' \in [layout : Layouts, cams : SUBSET Cameras]
  <1>1. block' \in BOOLEAN /\ marker' \in BOOLEAN /\ rtMarker' \in BOOLEAN
    BY Zenon DEF Binds
  <1> QED
    BY <1>1 DEF Binds, FilesTyped, MemoryTyped, memory

LEMMA AdoptTypes ==
  ASSUME FilesTyped, MemoryTyped, NEW cut \in 0 .. 3, Adopts(cut)
  PROVE  /\ binding' \in Cameras \cup {None} /\ block' \in BOOLEAN
         /\ marker' \in BOOLEAN /\ rtMarker' \in BOOLEAN /\ cam' \in Cameras
         /\ ses' \in Draft \cup {None} /\ loc' \in Anchor \cup {None}
         /\ reg' # None => reg' \in [layout : Layouts, cams : SUBSET Cameras]
  <1>1. block' \in BOOLEAN /\ marker' \in BOOLEAN /\ rtMarker' \in BOOLEAN
    BY Zenon DEF Adopts
  <1> QED
    BY <1>1 DEF Adopts, FilesTyped, MemoryTyped, memory

\* The start of the process and its end keep the types.
LEMMA ProcessTypes ==
  ASSUME TypeInv, Boots \/ BindsRuntime \/ Dies \/ Raises
  PROVE  TypeInv'
  <1> USE DEF markers, staging, active, memory, runtime, counters
  <1>0. FlagsTyped /\ FilesTyped /\ MemoryTyped /\ ProgressTyped /\ CountersTyped
    BY DEF TypeInv
  <1>1. CASE Boots
    <2>1. FlagsTyped'
      <3>1. block' \in BOOLEAN
        BY <1>1, Zenon DEF Boots, BlockAtStart, Pending
      <3> QED
        BY <1>0, <1>1, <3>1 DEF Boots, FlagsTyped
    <2>2. FilesTyped' /\ MemoryTyped' /\ ProgressTyped' /\ CountersTyped'
      BY <1>0, <1>1, SetupAssumption
      DEF Boots, FilesTyped, MemoryTyped, ProgressTyped, CountersTyped
    <2> QED
      BY <2>1, <2>2 DEF TypeInv
  <1>2. CASE BindsRuntime
    <2>1. /\ marker' \in BOOLEAN /\ rtMarker' \in BOOLEAN /\ block' \in BOOLEAN
          /\ live' \in BOOLEAN
      BY <1>2, Zenon DEF BindsRuntime
    <2>2. FlagsTyped'
      BY <1>0, <1>2, <2>1 DEF BindsRuntime, FlagsTyped
    <2>3. FilesTyped' /\ MemoryTyped' /\ ProgressTyped'
      BY <1>0, <1>2 DEF BindsRuntime, FilesTyped, MemoryTyped, ProgressTyped
    <2>4. CountersTyped'
      BY <1>0, <1>2, SetupAssumption DEF BindsRuntime, CountersTyped
    <2> QED
      BY <2>2, <2>3, <2>4 DEF TypeInv
  <1>3. CASE Dies
    <2>1. FALSE \in BOOLEAN /\ UNCHANGED <<binding, marker, rtMarker, lineage, staging, active, cam>>
      BY <1>3, Zenon DEF Dies
    <2>2. FlagsTyped'
      BY <1>0, <1>3, <2>1 DEF Dies, FlagsTyped
    <2>3. FilesTyped' /\ MemoryTyped'
      BY <1>0, <1>3, <2>1 DEF Dies, FilesTyped, MemoryTyped
    <2>4. ProgressTyped' /\ CountersTyped'
      BY <1>0, <1>3 DEF Dies, ProgressTyped, CountersTyped
    <2> QED
      BY <2>2, <2>3, <2>4 DEF TypeInv
  <1>4. CASE Raises
    <2>1. FlagsTyped' /\ FilesTyped' /\ MemoryTyped' /\ ProgressTyped' /\ CountersTyped'
      BY <1>0, <1>4 DEF Raises, FlagsTyped, FilesTyped, MemoryTyped, ProgressTyped, CountersTyped
    <2> QED
      BY <2>1 DEF TypeInv
  <1> QED
    BY <1>1, <1>2, <1>3, <1>4

\* Entering a handler and the camera requests keep the types.
LEMMA CameraTypes ==
  ASSUME TypeInv, Enters \/ ChangeArrives \/ RecoveryArrives \/ Changes \/ Recovers
  PROVE  TypeInv'
  <1> USE DEF staging, active, runtime
  <1>0. FlagsTyped /\ FilesTyped /\ MemoryTyped /\ ProgressTyped /\ CountersTyped
    BY DEF TypeInv
  <1>1. CASE Enters
    <2>1. PICK op \in {"save", "register", "contact", "apply"}, cut \in BindCuts :
            (op = "save" => saves < MaxSaves) /\ Binds(cut) /\ Took(cut, 3, op)
      BY <1>1 DEF Enters
    <2>2. cut \in 0 .. 3 /\ cam' = cam
      BY <1>1, <2>1, BindCut DEF Enters
    <2>3. FlagsTyped' /\ FilesTyped' /\ MemoryTyped'
      BY <1>0, <1>1, <2>1, <2>2, BindTypes DEF Enters, FlagsTyped, FilesTyped, MemoryTyped
    <2>4. ProgressTyped' /\ CountersTyped'
      BY <1>0, <1>1, <2>1, <2>2, CutTypes, SetupAssumption
      DEF Enters, ProgressTyped, CountersTyped, Entered, Owes
    <2> QED
      BY <2>3, <2>4 DEF TypeInv
  <1>2. CASE ChangeArrives
    <2>1. PICK cut \in BindCuts : /\ Binds(cut) /\ Took(cut, 3, "change")
                               /\ request' = IF cut < 3 THEN Owes(cam) ELSE "change"
      BY <1>2 DEF ChangeArrives
    <2>2. cut \in 0 .. 3 /\ cam' = cam
      BY <1>2, <2>1, BindCut DEF ChangeArrives
    <2>3. FlagsTyped' /\ FilesTyped' /\ MemoryTyped'
      BY <1>0, <1>2, <2>1, <2>2, BindTypes DEF ChangeArrives, FlagsTyped, FilesTyped, MemoryTyped
    <2>4. ProgressTyped' /\ CountersTyped'
      BY <1>0, <1>2, <2>1, <2>2, CutTypes, SetupAssumption
      DEF ChangeArrives, ProgressTyped, CountersTyped, Entered, Owes
    <2> QED
      BY <2>3, <2>4 DEF TypeInv
  <1>3. CASE RecoveryArrives
    <2>1. PICK cut \in BindCuts : /\ Binds(cut) /\ Took(cut, 3, "recover")
                               /\ request' = IF cut < 3 THEN "none" ELSE "recover"
      BY <1>3 DEF RecoveryArrives
    <2>2. cut \in 0 .. 3 /\ cam' = cam
      BY <1>3, <2>1, BindCut DEF RecoveryArrives
    <2>3. FlagsTyped' /\ FilesTyped' /\ MemoryTyped'
      BY <1>0, <1>3, <2>1, <2>2, BindTypes DEF RecoveryArrives, FlagsTyped, FilesTyped, MemoryTyped
    <2>4. ProgressTyped' /\ CountersTyped'
      BY <1>0, <1>3, <2>1, <2>2, CutTypes, SetupAssumption
      DEF RecoveryArrives, ProgressTyped, CountersTyped, Entered, Owes
    <2> QED
      BY <2>3, <2>4 DEF TypeInv
  <1>4. CASE Changes
    <2>1. PICK cut \in AdoptCuts : Adopts(cut) /\ Took(cut, 3, "idle")
      BY <1>4 DEF Changes
    <2>2. cut \in 0 .. 3
      BY <2>1, AdoptCut
    <2>3. live' \in BOOLEAN /\ source' \in Cameras
      BY <1>0, <1>4 DEF Changes, FlagsTyped, MemoryTyped
    <2>4. FlagsTyped' /\ FilesTyped' /\ MemoryTyped'
      BY <1>0, <1>4, <2>1, <2>2, <2>3, AdoptTypes DEF Changes, FlagsTyped, FilesTyped, MemoryTyped
    <2>5. ProgressTyped' /\ CountersTyped'
      BY <1>0, <1>4, <2>1, <2>2, CutTypes, SetupAssumption
      DEF Changes, ProgressTyped, CountersTyped, Entered, Owes
    <2> QED
      BY <2>4, <2>5 DEF TypeInv
  <1>5. CASE Recovers
    <2>1. PICK cut \in AdoptCuts : Adopts(cut) /\ Took(cut, 3, "idle")
      BY <1>5 DEF Recovers
    <2>2. cut \in 0 .. 3
      BY <2>1, AdoptCut
    <2>3. live' \in BOOLEAN /\ source' \in Cameras
      BY <1>0, <1>5 DEF Recovers, FlagsTyped, MemoryTyped
    <2>4. FlagsTyped' /\ FilesTyped' /\ MemoryTyped'
      BY <1>0, <1>5, <2>1, <2>2, <2>3, AdoptTypes DEF Recovers, FlagsTyped, FilesTyped, MemoryTyped
    <2>5. ProgressTyped' /\ CountersTyped'
      BY <1>0, <1>5, <2>1, <2>2, CutTypes, SetupAssumption
      DEF Recovers, ProgressTyped, CountersTyped, Entered, Owes
    <2> QED
      BY <2>4, <2>5 DEF TypeInv
  <1> QED
    BY <1>1, <1>2, <1>3, <1>4, <1>5

\* The operators of the handlers return what they should.
LEMMA StagedTypes ==
  ASSUME FilesTyped
  PROVE  StagedLayout \in Layouts /\ SampledAnchor \in Anchor /\ Resumed \in Draft
  <1>1. StagedLayout \in Layouts /\ SampledAnchor \in Anchor
    BY DEF FilesTyped, StagedLayout, SampledAnchor
  <1>2. [anchor |-> SampledAnchor, keys |-> Keys[StagedLayout], cams |-> {}, n |-> 0] \in Draft
    BY <1>1, SetupAssumption DEF Draft
  <1> QED
    BY <1>1, <1>2 DEF Resumed, FilesTyped

LEMMA MapTypes ==
  ASSUME NEW d \in Draft
  PROVE  MapOf(d) \in Contact
  BY DEF MapOf, Draft, Contact

LEMMA EndedTypes ==
  ASSUME MemoryTyped, NEW ended, SessionEnds(ended)
  PROVE  ses' \in Draft \cup {None} /\ loc' \in Anchor \cup {None}
  BY DEF MemoryTyped, SessionEnds

LEMMA InvalidatedTypes ==
  ASSUME FlagsTyped, FilesTyped, MemoryTyped, NEW cut \in 0 .. 6, Invalidates(cut)
  PROVE  /\ lineage' \in BOOLEAN /\ anchor' \in Anchor \cup {None}
         /\ draft' \in Draft \cup {None} /\ contact' \in Contact \cup {None}
         /\ ses' \in Draft \cup {None} /\ loc' \in Anchor \cup {None}
  <1>1. lineage' \in BOOLEAN
    BY Zenon DEF Invalidates
  <1> QED
    BY <1>1, EndedTypes DEF Invalidates, FilesTyped

\* Layout, registration and anchor keep the types.
LEMMA AnchorTypes ==
  ASSUME TypeInv, SavesLayout \/ StartsRegistration \/ Observes \/ Finalizes
  PROVE  TypeInv'
  <1> USE DEF staging, active, runtime, memory, markers
  <1>0. FlagsTyped /\ FilesTyped /\ MemoryTyped /\ ProgressTyped /\ CountersTyped
    BY DEF TypeInv
  <1>a. StagedLayout \in Layouts
    BY <1>0, StagedTypes
  <1>1. CASE SavesLayout
    <2>1. PICK l \in Layouts, cut \in 0 .. 6 :
            /\ layout' = IF cut >= 2 THEN l ELSE IF cut >= 1 THEN StagedLayout ELSE layout
            /\ \/ Invalidates(cut) /\ reg' = IF cut >= 6 THEN None ELSE reg
               \/ UNCHANGED <<lineage, anchor, draft, contact, memory>>
            /\ Took(cut, 6, "idle")
      BY <1>1 DEF SavesLayout, Invalidated, At, Cuts
    <2>2. cut \in 0 .. 6
      OBVIOUS
    <2>3. FlagsTyped' /\ FilesTyped' /\ MemoryTyped'
      BY <1>0, <1>1, <1>a, <2>1, <2>2, InvalidatedTypes
      DEF SavesLayout, FlagsTyped, FilesTyped, MemoryTyped
    <2>4. ProgressTyped' /\ CountersTyped'
      BY <1>0, <1>1, <2>1, <2>2, CutTypes, SetupAssumption
      DEF SavesLayout, ProgressTyped, CountersTyped, Entered
    <2> QED
      BY <2>3, <2>4 DEF TypeInv
  <1>2. CASE StartsRegistration
    <2>1. PICK cut \in 0 .. 6 :
            /\ layout' = IF cut >= 1 THEN StagedLayout ELSE layout
            /\ \/ /\ Invalidates(cut)
                  /\ reg' = IF cut >= 6 THEN [layout |-> StagedLayout, cams |-> {}] ELSE reg
               \/ UNCHANGED <<lineage, anchor, draft, contact, memory>>
            /\ Took(cut, 6, "idle")
      BY <1>2 DEF StartsRegistration, Invalidated, At, Cuts
    <2>2. cut \in 0 .. 6
      OBVIOUS
    <2>3. FlagsTyped' /\ FilesTyped' /\ MemoryTyped'
      BY <1>0, <1>2, <1>a, <2>1, <2>2, InvalidatedTypes
      DEF StartsRegistration, FlagsTyped, FilesTyped, MemoryTyped
    <2>4. faults' \in 0 .. MaxFaults /\ doing' \in {"torn", "idle"}
      BY <1>0, <2>1, <2>2, CutTypes
    <2>5. ProgressTyped' /\ CountersTyped'
      BY <1>0, <1>2, <2>4 DEF StartsRegistration, ProgressTyped, CountersTyped
    <2> QED
      BY <2>3, <2>5 DEF TypeInv
  <1>3. CASE Observes
    <2>1. FlagsTyped' /\ FilesTyped' /\ MemoryTyped' /\ ProgressTyped' /\ CountersTyped'
      BY <1>0, <1>3
      DEF Observes, counters, FlagsTyped, FilesTyped, MemoryTyped, ProgressTyped, CountersTyped
    <2> QED
      BY <2>1 DEF TypeInv
  <1>4. CASE Finalizes
    <2>1. PICK cut \in Cuts(4, At(1, draft # None) \cup At(2, contact # None) \cup {3} \cup At(4, marker)) :
            /\ draft' = IF cut >= 1 THEN None ELSE draft
            /\ contact' = IF cut >= 2 THEN None ELSE contact
            /\ anchor' = IF cut >= 3 THEN NewAnchor ELSE anchor
            /\ marker' = (marker /\ cut < 4)
            /\ SessionEnds(cut >= 4)
            /\ Took(cut, 4, "idle")
      BY <1>4 DEF Finalizes
    <2>2. cut \in 0 .. 4
      BY CutIsCount DEF At
    <2>3. anchors + 1 \in 0 .. MaxAnchors
      BY <1>0, <1>4, SetupAssumption DEF Finalizes, CountersTyped
    <2>4. NewAnchor \in Anchor
      BY <1>0, <1>4, <2>3 DEF Finalizes, NewAnchor, Anchor, MemoryTyped
    <2>5. marker' \in BOOLEAN
      BY <2>1, Zenon
    <2>6. FlagsTyped' /\ FilesTyped' /\ MemoryTyped'
      BY <1>0, <1>4, <2>1, <2>4, <2>5, EndedTypes DEF Finalizes, FlagsTyped, FilesTyped, MemoryTyped
    <2>7. ProgressTyped' /\ CountersTyped'
      BY <1>0, <1>4, <2>1, <2>2, <2>3, CutTypes DEF Finalizes, ProgressTyped, CountersTyped, Entered
    <2> QED
      BY <2>6, <2>7 DEF TypeInv
  <1> QED
    BY <1>1, <1>2, <1>3, <1>4

\* The contact session keeps the types: no sample beyond the last one.
LEMMA ContactTypes ==
  ASSUME TypeInv, StartsContact \/ ContactRefused \/ Captures \/ Undoes \/ Resets
  PROVE  TypeInv'
  <1> USE DEF staging, active, runtime, memory, markers
  <1>0. FlagsTyped /\ FilesTyped /\ MemoryTyped /\ ProgressTyped /\ CountersTyped
    BY DEF TypeInv
  <1>a. StagedLayout \in Layouts /\ SampledAnchor \in Anchor /\ Resumed \in Draft
    BY <1>0, StagedTypes
  <1>1. CASE StartsContact
    <2>1. PICK cut \in 0 .. 5 :
            /\ layout' = IF cut >= 1 THEN StagedLayout ELSE layout
            /\ anchor' = IF cut >= 2 THEN SampledAnchor ELSE anchor
            /\ draft' = IF cut >= 3 THEN Resumed ELSE draft
            /\ ContactBegins(cut, Resumed)
            /\ Took(cut, 5, "idle")
      BY <1>1 DEF StartsContact, At, Cuts
    <2>2. cut \in 0 .. 5
      OBVIOUS
    <2>3. MapOf(Resumed) \in Contact /\ Resumed.anchor \in Anchor
      BY <1>a, MapTypes DEF Draft
    <2>4. FlagsTyped' /\ FilesTyped' /\ MemoryTyped'
      BY <1>0, <1>1, <1>a, <2>1, <2>3
      DEF StartsContact, ContactBegins, FlagsTyped, FilesTyped, MemoryTyped
    <2>5. ProgressTyped' /\ CountersTyped'
      BY <1>0, <1>1, <2>1, <2>2, CutTypes DEF StartsContact, ProgressTyped, CountersTyped, Entered
    <2> QED
      BY <2>4, <2>5 DEF TypeInv
  <1>2. CASE ContactRefused
    <2>1. FlagsTyped' /\ FilesTyped' /\ MemoryTyped' /\ ProgressTyped' /\ CountersTyped'
      BY <1>0, <1>2, <1>a
      DEF ContactRefused, counters, FlagsTyped, FilesTyped, MemoryTyped, ProgressTyped,
          CountersTyped, Entered
    <2> QED
      BY <2>1 DEF TypeInv
  <1>3. CASE Captures
    <2> DEFINE more == [ses EXCEPT !.n = @ + 1, !.cams = @ \cup {source}]
    <2>1. PICK cut \in Cuts(2, {1} \cup At(2, Complete(more))) :
            /\ draft' = IF cut >= 1 THEN more ELSE draft
            /\ ses' = IF cut >= 1 THEN more ELSE ses
            /\ contact' = IF cut >= 2 /\ Complete(more) THEN MapOf(more) ELSE contact
            /\ Took(cut, 2, "idle")
      BY <1>3 DEF Captures
    <2>2. cut \in 0 .. 2
      BY CutIsCount DEF At
    <2>3. ses \in Draft /\ ses.n + 1 \in 0 .. Samples
      BY <1>0, <1>3, SetupAssumption DEF Captures, Collecting, Complete, MemoryTyped, Draft
    <2>4. more \in Draft
      BY <1>0, <2>3 DEF Draft, MemoryTyped
    <2>5. MapOf(more) \in Contact
      BY <2>4, MapTypes
    <2> HIDE DEF more
    <2>6. FlagsTyped' /\ FilesTyped' /\ MemoryTyped'
      BY <1>0, <1>3, <2>1, <2>4, <2>5 DEF Captures, FlagsTyped, FilesTyped, MemoryTyped
    <2>7. ProgressTyped' /\ CountersTyped'
      BY <1>0, <1>3, <2>1, <2>2, CutTypes DEF Captures, ProgressTyped, CountersTyped, Entered
    <2> QED
      BY <2>6, <2>7 DEF TypeInv
  <1>4. CASE Undoes
    <2> DEFINE less == [ses EXCEPT !.n = @ - 1]
    <2>1. PICK cut \in {0, 1} :
            /\ draft' = IF cut = 1 THEN less ELSE draft
            /\ ses' = IF cut = 1 THEN less ELSE ses
            /\ Took(cut, 1, "idle")
      BY <1>4 DEF Undoes
    <2>2. ses \in Draft /\ ses.n - 1 \in 0 .. Samples
      BY <1>0, <1>4, SetupAssumption DEF Undoes, Collecting, MemoryTyped, Draft
    <2>3. less \in Draft
      BY <2>2 DEF Draft
    <2> HIDE DEF less
    <2>4. FlagsTyped' /\ FilesTyped' /\ MemoryTyped'
      BY <1>0, <1>4, <2>1, <2>3 DEF Undoes, FlagsTyped, FilesTyped, MemoryTyped
    <2>5. ProgressTyped' /\ CountersTyped'
      BY <1>0, <1>4, <2>1, CutTypes DEF Undoes, ProgressTyped, CountersTyped, Entered
    <2> QED
      BY <2>4, <2>5 DEF TypeInv
  <1>5. CASE Resets
    <2>1. PICK cut \in Cuts(2, At(1, draft # None) \cup At(2, contact # None)) :
            /\ draft' = IF cut >= 1 THEN None ELSE draft
            /\ contact' = IF cut >= 2 THEN None ELSE contact
            /\ SessionEnds(cut >= 2)
            /\ Took(cut, 2, "idle")
      BY <1>5 DEF Resets
    <2>2. cut \in 0 .. 2
      BY CutIsCount DEF At
    <2>3. FlagsTyped' /\ FilesTyped' /\ MemoryTyped'
      BY <1>0, <1>5, <2>1, EndedTypes DEF Resets, FlagsTyped, FilesTyped, MemoryTyped
    <2>4. ProgressTyped' /\ CountersTyped'
      BY <1>0, <1>5, <2>1, <2>2, CutTypes DEF Resets, ProgressTyped, CountersTyped, Entered
    <2> QED
      BY <2>3, <2>4 DEF TypeInv
  <1> QED
    BY <1>1, <1>2, <1>3, <1>4, <1>5

\* Applying keeps the types.
LEMMA ApplyTypes ==
  ASSUME TypeInv, Applies \/ ApplyRefused
  PROVE  TypeInv'
  <1> USE DEF staging, active, runtime, memory, markers
  <1>0. FlagsTyped /\ FilesTyped /\ MemoryTyped /\ ProgressTyped /\ CountersTyped
    BY DEF TypeInv
  <1>a. StagedLayout \in Layouts
    BY <1>0, StagedTypes
  <1>1. CASE Applies
    <2>1. PICK cut \in Cuts(6, At(1, layout = None) \cup {2, 3, 4, 5} \cup At(6, lineage)) :
            /\ layout' = IF cut >= 1 THEN StagedLayout ELSE layout
            /\ AppliesFiles(cut)
            /\ Took(cut, 6, "idle")
      BY <1>1 DEF Applies
    <2>2. cut \in 0 .. 6
      BY CutIsCount DEF At
    <2>3. anchor \in Anchor /\ contact \in Contact
      BY <1>0, <1>1 DEF Applies, ApplyAccepted, Loads, FilesTyped
    <2>4. rtMarker' \in BOOLEAN /\ lineage' \in BOOLEAN
      BY <2>1, Zenon DEF AppliesFiles
    <2>5. FlagsTyped' /\ FilesTyped' /\ MemoryTyped'
      BY <1>0, <1>1, <1>a, <2>1, <2>3, <2>4
      DEF Applies, AppliesFiles, FlagsTyped, FilesTyped, MemoryTyped
    <2>6. ProgressTyped' /\ CountersTyped'
      BY <1>0, <1>1, <2>1, <2>2, CutTypes DEF Applies, ProgressTyped, CountersTyped, Entered
    <2> QED
      BY <2>5, <2>6 DEF TypeInv
  <1>2. CASE ApplyRefused
    <2>1. FlagsTyped' /\ FilesTyped' /\ MemoryTyped' /\ ProgressTyped' /\ CountersTyped'
      BY <1>0, <1>2, <1>a
      DEF ApplyRefused, counters, FlagsTyped, FilesTyped, MemoryTyped, ProgressTyped, CountersTyped,
          Entered
    <2> QED
      BY <2>1 DEF TypeInv
  <1> QED
    BY <1>1, <1>2

LEMMA TypesInvariant == Spec => []TypeInv
  <1>1. TypeInv /\ [Next]_vars => TypeInv'
    <2> SUFFICES ASSUME TypeInv, [Next]_vars PROVE TypeInv'
      OBVIOUS
    <2>1. CASE UNCHANGED vars
      BY <2>1
      DEF vars, markers, staging, active, runtime, memory, counters, TypeInv, FlagsTyped,
          FilesTyped,
                  MemoryTyped, ProgressTyped, CountersTyped
    <2>2. CASE Next
      BY <2>1, <2>2, ProcessTypes, CameraTypes, AnchorTypes, ContactTypes, ApplyTypes
      DEF Next, BootRefused, NoMoreBoots
    <2> QED
      BY <2>1, <2>2
  <1> QED
    BY <1>1, InitTypes, PTL DEF Spec

\* Type correctness: whatever is refused, cut off or resumed, no draft or
\* session goes beyond its samples and no file is half of one thing.
THEOREM SetupTypeCorrect == Spec => []TypeOK
  BY TypesInvariant, TypeOKIsPart, PTL

-----------------------------------------------------------------------------
(* The invariant is inductive.                                             *)

LEMMA NotNone ==
  ASSUME NEW x \in Cameras \cup Layouts \cup Anchor \cup Draft \cup Contact
  PROVE  x # None
  BY SetupNoneAssumption

LEMMA InitCamera == Init => CameraInv
  <1> SUFFICES ASSUME Init PROVE CameraInv
    OBVIOUS
  <1>1. FirstCamera \in Cameras /\ FirstCamera # None
    BY SetupAssumption, NotNone
  <1>2. Bound /\ Starting /\ NamesAgree
    BY <1>1 DEF Init, Bound, Starting, NamesAgree, Entered
  <1>3. Measured
    BY <1>1 DEF Init, Measured, Of, FirstAnchor, FirstContact
  <1>4. Lineage /\ StagedOfAnchor
    BY DEF Init, Lineage, StagedOfAnchor
  <1> QED
    BY <1>2, <1>3, <1>4 DEF CameraInv

\* A handler binds the camera of setup.  The markers are on disk before the
\* binding names another camera, and what was measured is forgotten.
LEMMA BindKeeps ==
  ASSUME TypeInv, CameraInv, up, doing = "idle",
         NEW cut \in BindCuts, NEW next \in Entered, Binds(cut), Took(cut, 3, next),
         next = "recover" => goal' = source,
         UNCHANGED <<lineage, staging, active, up, cam, runtime, refused>>
  PROVE  CameraInv'
  <1> USE DEF staging, active, runtime, memory
  <1>1. /\ cut \in 0 .. 3
        /\ cut = 0 => NeedsMark
        /\ cut = 1 => NeedsMark
        /\ cut = 2 => binding # cam
    BY DEF BindCuts, Cuts, At
  <1>2. /\ doing' = "torn" \/ (doing' = next /\ cut = 3)
        /\ doing' # "boot"
    BY <1>1 DEF Took, Entered
  <1>3. binding \in Cameras \cup {None} /\ cam \in Cameras /\ cam # None
    BY NotNone DEF TypeInv, FilesTyped, MemoryTyped
  <1>4. /\ marker' <=> (marker \/ (NeedsMark /\ cut >= 1))
        /\ rtMarker' <=> (rtMarker \/ (NeedsMark /\ cut >= 2))
        /\ binding' = IF cut >= 3 THEN cam ELSE binding
        /\ block' <=> (block \/ NeedsMark)
        /\ \/ reg' = None /\ ses' = None /\ loc' = None
           \/ UNCHANGED <<reg, ses, loc>>
    BY DEF Binds
  <1>5. NeedsMark <=> IF binding = None THEN marker \/ cam \in Reflected ELSE binding # cam
    BY DEF NeedsMark, Pending
  <1>a. Bound'
    BY <1>1, <1>2, <1>3, <1>4, <1>5 DEF CameraInv, Bound, Entered
  <1>b. Starting'
    BY <1>2 DEF CameraInv, Starting
  <1>c. NamesAgree'
    BY <1>1, <1>2, <1>4 DEF CameraInv, NamesAgree, Entered
  <1>d. Measured'
    BY <1>1, <1>2, <1>3, <1>4, <1>5 DEF CameraInv, Bound, Measured, Of, FirstAnchor, FirstContact
  <1>e. Lineage'
    BY <1>1, <1>4 DEF CameraInv, Lineage
  <1>f. StagedOfAnchor'
    BY <1>4 DEF CameraInv, StagedOfAnchor
  <1> QED
    BY <1>a, <1>b, <1>c, <1>d, <1>e, <1>f DEF CameraInv

\* Setup adopts the camera of a request.
LEMMA AdoptKeeps ==
  ASSUME TypeInv, CameraInv, doing \in {"change", "recover"},
         NEW cut \in AdoptCuts, Adopts(cut), Took(cut, 3, "idle"),
         \/ UNCHANGED <<source, live>> /\ (cut = 3 => goal = source)
         \/ cut = 3 /\ source' = goal
         \/ cut = 3 /\ ~live' /\ UNCHANGED source,
         UNCHANGED <<lineage, staging, active, up, loaded, refused>>
  PROVE  CameraInv'
  <1> USE DEF staging, active, memory
  <1>1. /\ cut \in 0 .. 3
        /\ cut < 3 => goal # cam
    BY DEF AdoptCuts, Cuts, At
  <1>2. (doing' = "torn" /\ cut < 3) \/ (doing' = "idle" /\ cut = 3)
    BY <1>1 DEF Took
  <1>3. binding = cam /\ goal \in Cameras /\ goal # None /\ cam # None
    BY NotNone DEF TypeInv, MemoryTyped, CameraInv, Bound, Entered
  <1>4. /\ marker' <=> (marker \/ (goal # cam /\ cut >= 1))
        /\ rtMarker' <=> (rtMarker \/ (goal # cam /\ cut >= 2))
        /\ binding' = IF cut >= 3 THEN goal ELSE binding
        /\ cam' = IF cut >= 2 THEN goal ELSE cam
        /\ block' <=> (block \/ goal # cam)
        /\ IF goal # cam /\ cut >= 2 THEN reg' = None /\ ses' = None /\ loc' = None
                                     ELSE UNCHANGED <<reg, ses, loc>>
    BY DEF Adopts
  <1>5. up
    BY DEF CameraInv, Starting
  <1>a. Bound'
    BY <1>1, <1>2, <1>3, <1>4 DEF CameraInv, Bound, Entered
  <1>b. Starting'
    BY <1>2, <1>5 DEF CameraInv, Starting
  <1>c. NamesAgree'
    BY <1>1, <1>2, <1>4, <1>5 DEF CameraInv, NamesAgree, Entered
  <1>d. Measured'
    BY <1>1, <1>2, <1>3, <1>4 DEF CameraInv, Measured, Of
  <1>e. Lineage'
    BY <1>1, <1>4 DEF CameraInv, Lineage
  <1>f. StagedOfAnchor'
    BY <1>4 DEF CameraInv, StagedOfAnchor
  <1> QED
    BY <1>a, <1>b, <1>c, <1>d, <1>e, <1>f DEF CameraInv

\* The camera requests, and entering a handler.
LEMMA CameraKeeps ==
  ASSUME TypeInv, CameraInv, Enters \/ ChangeArrives \/ RecoveryArrives \/ Changes \/ Recovers
  PROVE  CameraInv'
  <1> USE DEF staging, active, runtime
  <1>1. CASE Enters
    <2>1. PICK op \in {"save", "register", "contact", "apply"}, cut \in BindCuts :
            Binds(cut) /\ Took(cut, 3, op)
      BY <1>1 DEF Enters
    <2>2. op \in Entered /\ op # "recover"
      BY DEF Entered
    <2> QED
      BY <1>1, <2>1, <2>2, BindKeeps DEF Enters
  <1>2. CASE ChangeArrives
    <2>1. PICK cut \in BindCuts : Binds(cut) /\ Took(cut, 3, "change")
      BY <1>2 DEF ChangeArrives
    <2> QED
      BY <1>2, <2>1, BindKeeps DEF ChangeArrives, Entered
  <1>3. CASE RecoveryArrives
    <2>1. PICK cut \in BindCuts : Binds(cut) /\ Took(cut, 3, "recover")
      BY <1>3 DEF RecoveryArrives
    <2> QED
      BY <1>3, <2>1, BindKeeps DEF RecoveryArrives, Entered
  <1>4. CASE Changes
    <2>1. PICK cut \in AdoptCuts :
            /\ Adopts(cut) /\ Took(cut, 3, "idle")
            /\ \/ cut < 3 /\ UNCHANGED <<source, live>>
               \/ cut = 3 /\ source' = goal
               \/ cut = 3 /\ live' = FALSE /\ UNCHANGED source
      BY <1>4 DEF Changes
    <2>2. cut \in 0 .. 3
      BY AdoptCut
    <2> QED
      BY <1>4, <2>1, <2>2, AdoptKeeps DEF Changes
  <1>5. CASE Recovers
    <2>1. PICK cut \in AdoptCuts : Adopts(cut) /\ Took(cut, 3, "idle")
      BY <1>5 DEF Recovers
    <2>2. doing = "recover" /\ goal = source
      BY <1>5 DEF Recovers, CameraInv, NamesAgree
    <2> QED
      BY <1>5, <2>1, <2>2, AdoptKeeps DEF Recovers
  <1> QED
    BY <1>1, <1>2, <1>3, <1>4, <1>5

\* The start of the process: with neither marker nor block the files it loads
\* are of the camera it starts with.
LEMMA StartKeeps ==
  ASSUME TypeInv, CameraInv, Boots \/ BindsRuntime
  PROVE  CameraInv'
  <1> USE DEF markers, staging, active, memory, runtime
  <1>1. CASE Boots
    <2>1. /\ ~up /\ doing = "idle" /\ ~live /\ reg = None /\ ses = None /\ loc = None
          /\ up' /\ doing' = "boot" /\ cam' = source' /\ cam' \in Cameras
          /\ binding = None => cam' = FirstCamera \/ cam' \in Reflected
          /\ block' = BlockAtStart(cam')
          /\ loaded' = [anchor |-> activeAnchor, contact |-> activeContact]
          /\ UNCHANGED <<markers, staging, active, memory, live, refused>>
      BY <1>1 DEF Boots, CameraInv, Starting
    <2>a. Bound'
      BY <2>1 DEF CameraInv, Bound, Entered
    <2>b. Starting'
      <3>1. ~block' => ~BlockAtStart(cam)'
        BY <2>1 DEF BlockAtStart, Pending
      <3> QED
        BY <2>1, <3>1 DEF Starting
    <2>c. NamesAgree' /\ Measured'
      BY <2>1 DEF CameraInv, NamesAgree, Measured, Of
    <2>d. Lineage' /\ StagedOfAnchor'
      BY <2>1 DEF CameraInv, Lineage, StagedOfAnchor
    <2> QED
      BY <2>a, <2>b, <2>c, <2>d DEF CameraInv
  <1>2. CASE BindsRuntime
    <2> DEFINE late == block /\ ~rtMarker /\ ~NeedsMark
    <2>1. PICK cut \in Cuts(5, At(1, NeedsMark) \cup At(2, NeedsMark) \cup At(3, binding # cam)
                               \cup At(4, late) \cup At(5, late)) :
            /\ refused' = IF cut < 5 /\ refused = "none" THEN "write" ELSE refused
            /\ block' <=> (block \/ NeedsMark \/ cut < 5)
            /\ marker' <=> (marker \/ (NeedsMark /\ cut >= 1) \/ (late /\ cut >= 4))
            /\ rtMarker' <=> (rtMarker \/ (NeedsMark /\ cut >= 2) \/ (late /\ cut >= 5))
            /\ binding' = IF cut >= 3 THEN cam ELSE binding
      BY <1>2 DEF BindsRuntime
    <2>2. /\ cut \in 0 .. 5
          /\ cut = 0 => NeedsMark
          /\ cut = 1 => NeedsMark
          /\ cut = 2 => binding # cam
          /\ cut \in {3, 4} => late
      BY DEF Cuts, At
    <2>3. NeedsMark <=> IF binding = None THEN marker \/ cam \in Reflected ELSE binding # cam
      BY DEF NeedsMark, Pending
    <2>4. /\ up /\ reg = None /\ ses = None /\ loc = None /\ cam = source
          /\ ~block => ~rtMarker /\ ~marker /\ ~NeedsMark
          /\ loaded.anchor = activeAnchor /\ loaded.contact = activeContact
      BY <1>2, <2>3 DEF BindsRuntime, CameraInv, Starting, BlockAtStart, Pending
    <2>5. /\ doing = "boot" /\ doing' = "idle"
          /\ UNCHANGED <<lineage, staging, active, up, cam, memory, loaded, source>>
      BY <1>2 DEF BindsRuntime
    <2>6. binding \in Cameras \cup {None} /\ cam \in Cameras /\ cam # None
      BY NotNone DEF TypeInv, FilesTyped, MemoryTyped
    <2>a. Bound'
      BY <2>1, <2>2, <2>4, <2>5, <2>6 DEF CameraInv, Bound, Entered
    <2>b. Starting' /\ NamesAgree'
      BY <2>4, <2>5 DEF Starting, NamesAgree
    <2>c. Measured'
      BY <2>1, <2>2, <2>3, <2>4, <2>5, <2>6
      DEF CameraInv, Bound, Measured, Of, FirstAnchor, FirstContact
    <2>d. Lineage'
      BY <2>1, <2>2, <2>5 DEF CameraInv, Lineage
    <2>e. StagedOfAnchor'
      BY <2>1, <2>5 DEF CameraInv, StagedOfAnchor
    <2> QED
      BY <2>a, <2>b, <2>c, <2>d, <2>e DEF CameraInv
  <1> QED
    BY <1>1, <1>2

\* A raised exception and the end of the process.
LEMMA EndKeeps ==
  ASSUME TypeInv, CameraInv, Raises \/ Dies
  PROVE  CameraInv'
  <1> USE DEF markers, staging, active, memory, runtime
  <1>1. CASE Raises
    <2>1. /\ doing = "torn" /\ doing' = "idle"
          /\ refused' = IF refused = "camera" \/ (live /\ cam # source) THEN "camera" ELSE "write"
          /\ UNCHANGED <<markers, staging, active, up, cam, block, memory, runtime, goal>>
      BY <1>1 DEF Raises
    <2>2. Bound' /\ Starting'
      BY <2>1 DEF CameraInv, Bound, Starting, Entered
    <2>3. NamesAgree' /\ Measured'
      BY <2>1 DEF CameraInv, NamesAgree, Measured, Of
    <2>4. Lineage' /\ StagedOfAnchor'
      BY <2>1 DEF CameraInv, Lineage, StagedOfAnchor
    <2> QED
      BY <2>2, <2>3, <2>4 DEF CameraInv
  <1>2. CASE Dies
    <2>1. /\ ~up' /\ ~block' /\ ~live' /\ reg' = None /\ ses' = None /\ loc' = None /\ doing' = "idle"
          /\ UNCHANGED <<markers, staging, active, cam, loaded, source, refused>>
      BY <1>2 DEF Dies
    <2>2. Bound' /\ Starting'
      BY <2>1 DEF CameraInv, Bound, Starting, Entered
    <2>3. NamesAgree' /\ Measured'
      BY <2>1 DEF CameraInv, NamesAgree, Measured, Of
    <2>4. Lineage' /\ StagedOfAnchor'
      BY <2>1 DEF CameraInv, Lineage, StagedOfAnchor
    <2> QED
      BY <2>2, <2>3, <2>4 DEF CameraInv
  <1> QED
    BY <1>1, <1>2

\* save_layout and start_anchor_registration: the lineage marker is on disk
\* before the first staged file goes.
LEMMA RemovalKeeps ==
  ASSUME TypeInv, CameraInv, doing \in Entered, doing' \in {"torn", "idle"},
         NEW cut \in 0 .. 6,
         \/ /\ Invalidates(cut)
            /\ reg' = IF cut >= 6 THEN None ELSE reg
         \/ /\ Invalidates(cut)
            /\ reg' = IF cut >= 6 THEN [layout |-> StagedLayout, cams |-> {}] ELSE reg
         \/ UNCHANGED <<lineage, anchor, draft, contact, memory>>,
         UNCHANGED <<binding, marker, rtMarker, active, up, cam, block, runtime, refused>>
  PROVE  CameraInv'
  <1> USE DEF active, memory, runtime
  <1>1. /\ lineage => lineage'
        /\ cut >= 3 /\ (anchor' # anchor \/ draft' # draft \/ contact' # contact \/ ses' # ses) => lineage'
        /\ anchor' = anchor \/ (anchor' = None /\ lineage')
        /\ draft' \in {draft, None} /\ contact' \in {contact, None} /\ ses' \in {ses, None}
        /\ reg' = reg \/ reg' = None \/ reg'.cams = {}
    <2>1. CASE Invalidates(cut)
      <3>1. lineage' <=> lineage \/ cut >= 3
        BY <2>1, Zenon DEF Invalidates
      <3>2. reg' = reg \/ reg' = None \/ reg' = [layout |-> StagedLayout, cams |-> {}]
        OBVIOUS
      <3> QED
        BY <2>1, <3>1, <3>2 DEF Invalidates, SessionEnds
    <2>2. CASE UNCHANGED <<lineage, anchor, draft, contact, memory>>
      BY <2>2
    <2> QED
      BY <2>1, <2>2
  <1>2. up /\ binding = cam
    BY DEF CameraInv, Bound, Starting, Entered
  <1>3. cam # None
    BY NotNone DEF TypeInv, MemoryTyped
  <1>a. Bound'
    BY <1>1, <1>2, <1>3 DEF CameraInv, Bound, Entered
  <1>b. Starting' /\ NamesAgree'
    BY <1>1, <1>2 DEF CameraInv, Starting, NamesAgree, Entered
  <1>c. Measured'
    BY <1>1, <1>2 DEF CameraInv, Measured, Of, Entered
  <1>d. Lineage' /\ StagedOfAnchor'
    BY <1>1 DEF CameraInv, Lineage, StagedOfAnchor
  <1> QED
    BY <1>a, <1>b, <1>c, <1>d DEF CameraInv

\* The anchor: registered on frames of the source, saved after the samples of
\* the old one are gone and before the marker is lifted.
LEMMA AnchorKeeps ==
  ASSUME TypeInv, CameraInv, SavesLayout \/ StartsRegistration \/ Observes \/ Finalizes
  PROVE  CameraInv'
  <1> USE DEF staging, active, runtime, memory, markers
  <1>1. CASE SavesLayout
    <2>1. PICK cut \in 0 .. 6 :
            /\ \/ Invalidates(cut) /\ reg' = IF cut >= 6 THEN None ELSE reg
               \/ UNCHANGED <<lineage, anchor, draft, contact, memory>>
            /\ Took(cut, 6, "idle")
      BY <1>1 DEF SavesLayout, Invalidated, At, Cuts
    <2>2. doing' \in {"torn", "idle"} /\ doing \in Entered
      BY <1>1, <2>1 DEF Took, SavesLayout, Entered
    <2> QED
      BY <1>1, <2>1, <2>2, RemovalKeeps DEF SavesLayout
  <1>2. CASE StartsRegistration
    <2>1. PICK cut \in 0 .. 6 :
            /\ \/ /\ Invalidates(cut)
                  /\ reg' = IF cut >= 6 THEN [layout |-> StagedLayout, cams |-> {}] ELSE reg
               \/ UNCHANGED <<lineage, anchor, draft, contact, memory>>
            /\ Took(cut, 6, "idle")
      BY <1>2 DEF StartsRegistration, Invalidated, At, Cuts
    <2>2. doing' \in {"torn", "idle"} /\ doing \in Entered
      BY <1>2, <2>1 DEF Took, StartsRegistration, Entered
    <2> QED
      BY <1>2, <2>1, <2>2, RemovalKeeps DEF StartsRegistration
  <1>3. CASE Observes
    <2>1. /\ up /\ doing = "idle" /\ reg # None /\ live /\ binding = cam
          /\ reg \in [layout : Layouts, cams : SUBSET Cameras]
      BY <1>3 DEF Observes, TypeInv, MemoryTyped, CameraInv, Bound
    <2>2. reg'.cams = reg.cams \cup {source} /\ (refused # "camera" => source = cam)
      BY <1>3, <2>1 DEF Observes, CameraInv, NamesAgree
    <2>3. UNCHANGED <<markers, staging, active, up, cam, block, ses, loc, runtime, doing, goal, refused>>
      BY <1>3 DEF Observes
    <2>a. Bound' /\ Starting' /\ NamesAgree'
      BY <2>1, <2>2, <2>3 DEF CameraInv, Bound, Starting, NamesAgree
    <2>b. Measured'
      BY <2>1, <2>2, <2>3 DEF CameraInv, Measured, Of
    <2>c. Lineage' /\ StagedOfAnchor'
      BY <2>3 DEF CameraInv, Lineage, StagedOfAnchor
    <2> QED
      BY <2>a, <2>b, <2>c DEF CameraInv
  <1>4. CASE Finalizes
    <2>1. PICK cut \in Cuts(4, At(1, draft # None) \cup At(2, contact # None) \cup {3} \cup At(4, marker)) :
            /\ draft' = IF cut >= 1 THEN None ELSE draft
            /\ contact' = IF cut >= 2 THEN None ELSE contact
            /\ anchor' = IF cut >= 3 THEN NewAnchor ELSE anchor
            /\ marker' <=> (marker /\ cut < 4)
            /\ SessionEnds(cut >= 4)
            /\ Took(cut, 4, "idle")
      BY <1>4 DEF Finalizes
    <2>2. cut \in 0 .. 4 /\ (cut = 3 => marker) /\ doing' \in {"torn", "idle"}
      BY <2>1 DEF Cuts, At, Took
    <2>3. /\ NewAnchor \in Anchor /\ NewAnchor.cams = reg.cams
      <3>1. anchors + 1 \in 0 .. MaxAnchors
        BY <1>4, SetupAssumption DEF Finalizes, TypeInv, CountersTyped
      <3> QED
        BY <1>4, <3>1 DEF Finalizes, NewAnchor, Anchor, TypeInv, MemoryTyped
    <2>4. NewAnchor # None
      BY <2>3, NotNone
    <2>5. ses' \in {ses, None} /\ (cut = 4 => ses' = None /\ loc' = None) /\ loc' \in {loc, None}
      BY <2>1, <2>2 DEF SessionEnds
    <2>6. /\ up /\ doing = "idle" /\ reg # None /\ reg.cams # {}
          /\ UNCHANGED <<binding, rtMarker, lineage, active, up, cam, block, reg, runtime, goal, refused>>
      BY <1>4 DEF Finalizes
    <2>7. binding = cam /\ cam # None
      BY <2>6, NotNone DEF CameraInv, Bound, TypeInv, MemoryTyped
    <2>a. Bound' /\ Starting'
      BY <2>2, <2>5, <2>6, <2>7 DEF CameraInv, Bound, Starting, Entered
    <2>b. NamesAgree'
      BY <2>2, <2>5, <2>6 DEF CameraInv, NamesAgree
    <2>c. Measured'
      <3>1. refused # "camera" => Of(NewAnchor, binding)
        BY <2>3, <2>6, <2>7 DEF CameraInv, Measured, Of
      <3>2. ~marker' => (cut < 3 /\ ~marker) \/ cut = 4
        BY <2>1, <2>2
      <3>3. refused # "camera" /\ ~marker' =>
              Of(anchor', binding) /\ Of(draft', binding) /\ Of(contact', binding)
        BY <2>1, <2>6, <2>7, <3>1, <3>2 DEF CameraInv, Measured, Of
      <3> QED
        BY <2>1, <2>2, <2>5, <2>6, <3>3 DEF CameraInv, Measured, Of
    <2>d. Lineage'
      BY <2>1, <2>2, <2>4, <2>5, <2>6 DEF CameraInv, Lineage
    <2>e. StagedOfAnchor'
      BY <2>1, <2>2, <2>5 DEF CameraInv, StagedOfAnchor
    <2> QED
      BY <2>a, <2>b, <2>c, <2>d, <2>e DEF CameraInv
  <1> QED
    BY <1>1, <1>2, <1>3, <1>4

\* What a contact session starts with.
LEMMA ResumedOfAnchor ==
  ASSUME TypeInv, CameraInv, ContactAccepted
  PROVE  /\ Resumed.anchor = SampledAnchor
         /\ Resumed \in Draft /\ SampledAnchor \in Anchor
         /\ Resumed = draft \/ Resumed.cams = {}
         /\ anchor = None => draft = None /\ contact = None /\ ses = None /\ ~rtMarker
  <1>1. Resumed \in Draft /\ SampledAnchor \in Anchor
    BY StagedTypes DEF TypeInv
  <1>2. anchor = None => draft = None /\ contact = None /\ ses = None /\ ~rtMarker
    BY DEF ContactAccepted, CameraInv, Lineage
  <1> QED
    BY <1>1, <1>2 DEF Resumed, ContactAccepted

\* The contact session: the active anchor is taken over only where nothing was
\* staged or removed, so it is the bound camera's own.
LEMMA ContactKeeps ==
  ASSUME TypeInv, CameraInv, StartsContact \/ ContactRefused \/ Captures \/ Undoes \/ Resets
  PROVE  CameraInv'
  <1> USE DEF staging, active, runtime, memory, markers
  <1>1. CASE StartsContact
    <2>1. PICK cut \in 0 .. 5 :
            /\ anchor' = IF cut >= 2 THEN SampledAnchor ELSE anchor
            /\ draft' = IF cut >= 3 THEN Resumed ELSE draft
            /\ ContactBegins(cut, Resumed)
            /\ Took(cut, 5, "idle")
      BY <1>1 DEF StartsContact, At, Cuts
    <2>2. doing' \in {"torn", "idle"}
      BY <2>1 DEF Took
    <2>3. /\ contact' \in {contact, None, MapOf(Resumed)} /\ ses' \in {ses, Resumed}
          /\ contact' # contact => cut >= 4
          /\ ses' # ses => cut >= 4
      BY <2>1 DEF ContactBegins
    <2>4. /\ doing = "contact" /\ ContactAccepted /\ ~marker
          /\ UNCHANGED <<markers, active, up, cam, block, reg, runtime, goal, refused>>
      BY <1>1 DEF StartsContact, ContactAccepted
    <2>5. up /\ binding = cam /\ cam # None
      BY <2>4, NotNone DEF CameraInv, Bound, Starting, Entered, TypeInv, MemoryTyped
    <2>6. /\ Resumed.anchor = SampledAnchor
          /\ Resumed \in Draft /\ SampledAnchor \in Anchor
          /\ Resumed = draft \/ Resumed.cams = {}
          /\ anchor = None => draft = None /\ contact = None /\ ses = None /\ ~rtMarker
      BY <2>4, ResumedOfAnchor
    <2>7. Resumed # None /\ SampledAnchor # None /\ MapOf(Resumed) # None
      BY <2>6, MapTypes, NotNone
    <2>8. MapOf(Resumed).anchor = SampledAnchor /\ MapOf(Resumed).cams = Resumed.cams
      BY <2>6 DEF MapOf
    <2>9. loc' # loc => cut = 5
      BY <2>1 DEF ContactBegins
    <2>a. Bound' /\ Starting'
      BY <2>2, <2>4, <2>5 DEF CameraInv, Bound, Starting, Entered
    <2>b. NamesAgree'
      BY <2>2, <2>4, <2>5 DEF CameraInv, NamesAgree
    <2>c. Measured'
      <3>1. refused # "camera" => /\ Of(anchor, binding) /\ Of(draft, binding) /\ Of(contact, binding)
                                 /\ Of(SampledAnchor, binding) /\ Of(Resumed, binding)
                                 /\ Of(MapOf(Resumed), binding)
        <4>1. refused # "camera" => Of(anchor, binding) /\ Of(draft, binding) /\ Of(contact, binding)
          BY <2>4, <2>5 DEF CameraInv, Measured
        <4>2. refused # "camera" => Of(SampledAnchor, binding)
          BY <2>4, <2>5, <2>6, <4>1 DEF CameraInv, Measured, SampledAnchor
        <4>3. refused # "camera" => Resumed.cams \subseteq {binding}
          BY <2>6, <2>7, <4>1 DEF Of
        <4> QED
          BY <2>8, <4>1, <4>2, <4>3 DEF Of
      <3>2. refused # "camera" => Of(ses', cam)
        BY <2>3, <2>5, <3>1 DEF CameraInv, Measured
      <3>3. refused # "camera" => Of(anchor', binding) /\ Of(draft', binding) /\ Of(contact', binding)
        BY <2>1, <2>3, <3>1 DEF Of
      <3> QED
        BY <2>2, <2>4, <2>5, <3>2, <3>3 DEF CameraInv, Measured, Of
    <2>d. Lineage'
      BY <2>1, <2>2, <2>3, <2>4, <2>6, <2>7 DEF CameraInv, Lineage
    <2>e. StagedOfAnchor'
      <3>1. SampledAnchor = anchor \/ anchor = None
        BY DEF SampledAnchor
      <3> QED
        BY <2>1, <2>3, <2>4, <2>6, <2>7, <2>8, <3>1 DEF CameraInv, StagedOfAnchor
    <2> QED
      BY <2>a, <2>b, <2>c, <2>d, <2>e DEF CameraInv
  <1>2. CASE ContactRefused
    <2>1. /\ doing = "contact" /\ doing' = "idle"
          /\ UNCHANGED <<markers, anchor, draft, contact, active, up, cam, block, memory, runtime, goal, refused>>
      BY <1>2 DEF ContactRefused
    <2>2. Bound' /\ Starting' /\ NamesAgree'
      BY <2>1 DEF CameraInv, Bound, Starting, NamesAgree, Entered
    <2>3. Measured' /\ Lineage' /\ StagedOfAnchor'
      BY <2>1 DEF CameraInv, Measured, Of, Lineage, StagedOfAnchor
    <2> QED
      BY <2>2, <2>3 DEF CameraInv
  <1>3. CASE Captures
    <2> DEFINE more == [ses EXCEPT !.n = @ + 1, !.cams = @ \cup {source}]
    <2>1. PICK cut \in Cuts(2, {1} \cup At(2, Complete(more))) :
            /\ draft' = IF cut >= 1 THEN more ELSE draft
            /\ ses' = IF cut >= 1 THEN more ELSE ses
            /\ contact' = IF cut >= 2 /\ Complete(more) THEN MapOf(more) ELSE contact
            /\ Took(cut, 2, "idle")
      BY <1>3 DEF Captures
    <2>2. /\ up /\ doing = "idle" /\ ses # None /\ ses \in Draft
          /\ UNCHANGED <<markers, anchor, active, up, cam, block, reg, loc, runtime, goal, refused>>
      BY <1>3 DEF Captures, Collecting, TypeInv, MemoryTyped
    <2>3. ses.n + 1 \in 0 .. Samples /\ source \in Cameras
      BY <1>3, <2>2, SetupAssumption DEF Captures, Collecting, Complete, TypeInv, MemoryTyped, Draft
    <2>4. more \in Draft /\ more.anchor = ses.anchor /\ more.cams = ses.cams \cup {source}
      BY <2>2, <2>3 DEF Draft
    <2>5. MapOf(more) \in Contact /\ MapOf(more).anchor = more.anchor /\ MapOf(more).cams = more.cams
      BY <2>4, MapTypes DEF MapOf
    <2> HIDE DEF more
    <2>6. more # None /\ MapOf(more) # None /\ cam # None
      BY <2>4, <2>5, NotNone DEF TypeInv, MemoryTyped
    <2>7. doing' \in {"torn", "idle"} /\ binding = cam
      BY <2>1, <2>2 DEF Took, CameraInv, Bound
    <2>8. refused # "camera" => source = cam /\ Of(more, cam) /\ Of(MapOf(more), cam)
      BY <2>2, <2>4, <2>5 DEF CameraInv, NamesAgree, Measured, Of
    <2>a. Bound' /\ Starting' /\ NamesAgree'
      BY <2>2, <2>6, <2>7, <2>8 DEF CameraInv, Bound, Starting, NamesAgree, Entered
    <2>b. Measured'
      BY <2>1, <2>2, <2>7, <2>8 DEF CameraInv, Measured, Of
    <2>c. Lineage' /\ StagedOfAnchor'
      BY <2>1, <2>2, <2>4, <2>5 DEF CameraInv, Lineage, StagedOfAnchor
    <2> QED
      BY <2>a, <2>b, <2>c DEF CameraInv
  <1>4. CASE Undoes
    <2> DEFINE less == [ses EXCEPT !.n = @ - 1]
    <2>1. PICK cut \in {0, 1} :
            /\ draft' = IF cut = 1 THEN less ELSE draft
            /\ ses' = IF cut = 1 THEN less ELSE ses
            /\ Took(cut, 1, "idle")
      BY <1>4 DEF Undoes
    <2>2. /\ up /\ doing = "idle" /\ ses # None /\ ses \in Draft /\ ses.n > 0
          /\ UNCHANGED <<markers, anchor, contact, active, up, cam, block, reg, loc, runtime, goal, refused>>
      BY <1>4 DEF Undoes, Collecting, TypeInv, MemoryTyped
    <2>3. less \in Draft /\ less.anchor = ses.anchor /\ less.cams = ses.cams
      <3>1. ses.n - 1 \in 0 .. Samples
        BY <2>2, SetupAssumption DEF Draft
      <3> QED
        BY <2>2, <3>1 DEF Draft
    <2> HIDE DEF less
    <2>4. less # None /\ cam # None
      BY <2>3, NotNone DEF TypeInv, MemoryTyped
    <2>5. doing' \in {"torn", "idle"} /\ binding = cam
      BY <2>1, <2>2 DEF Took, CameraInv, Bound
    <2>6. up /\ cam # source => refused = "camera"
      BY <2>2 DEF CameraInv, NamesAgree
    <2>a. Bound' /\ Starting' /\ NamesAgree'
      BY <2>2, <2>4, <2>5, <2>6 DEF CameraInv, Bound, Starting, NamesAgree, Entered
    <2>b. Measured'
      BY <2>1, <2>2, <2>3, <2>5 DEF CameraInv, Measured, Of
    <2>c. Lineage' /\ StagedOfAnchor'
      BY <2>1, <2>2, <2>3 DEF CameraInv, Lineage, StagedOfAnchor
    <2> QED
      BY <2>a, <2>b, <2>c DEF CameraInv
  <1>5. CASE Resets
    <2>1. PICK cut \in Cuts(2, At(1, draft # None) \cup At(2, contact # None)) :
            /\ draft' = IF cut >= 1 THEN None ELSE draft
            /\ contact' = IF cut >= 2 THEN None ELSE contact
            /\ SessionEnds(cut >= 2)
            /\ Took(cut, 2, "idle")
      BY <1>5 DEF Resets
    <2>2. ses' \in {ses, None} /\ loc' \in {loc, None} /\ doing' \in {"torn", "idle"}
      BY <2>1 DEF SessionEnds, Took
    <2>3. /\ up /\ doing = "idle"
          /\ UNCHANGED <<markers, anchor, active, up, cam, block, reg, runtime, goal, refused>>
      BY <1>5 DEF Resets
    <2>a. Bound' /\ Starting' /\ NamesAgree'
      BY <2>1, <2>2, <2>3 DEF CameraInv, Bound, Starting, NamesAgree, Entered
    <2>b. Measured'
      BY <2>1, <2>2, <2>3 DEF CameraInv, Measured, Of
    <2>c. Lineage' /\ StagedOfAnchor'
      BY <2>1, <2>2, <2>3 DEF CameraInv, Lineage, StagedOfAnchor
    <2> QED
      BY <2>a, <2>b, <2>c DEF CameraInv
  <1> QED
    BY <1>1, <1>2, <1>3, <1>4, <1>5

\* Applying: the marker of the runtime camera is lifted when every active file
\* is the staged one.
LEMMA ApplyKeeps ==
  ASSUME TypeInv, CameraInv, Applies \/ ApplyRefused
  PROVE  CameraInv'
  <1> USE DEF staging, active, runtime, memory, markers
  <1>1. CASE Applies
    <2>1. PICK cut \in Cuts(6, At(1, layout = None) \cup {2, 3, 4, 5} \cup At(6, lineage)) :
            AppliesFiles(cut) /\ Took(cut, 6, "idle")
      BY <1>1 DEF Applies
    <2>2. cut \in 0 .. 6 /\ doing' \in {"torn", "idle"}
      BY <2>1 DEF Cuts, At, Took
    <2>3. /\ activeAnchor' = IF cut >= 3 THEN anchor ELSE activeAnchor
          /\ activeContact' = IF cut >= 4 THEN contact ELSE activeContact
          /\ rtMarker' <=> (rtMarker /\ cut < 5)
          /\ lineage' <=> (lineage /\ cut < 6)
      BY <2>1 DEF AppliesFiles
    <2>4. /\ doing = "apply" /\ ~marker /\ anchor # None /\ contact # None
          /\ UNCHANGED <<binding, marker, anchor, draft, contact, up, cam, block, memory, runtime, goal, refused>>
      BY <1>1 DEF Applies, ApplyAccepted, Loads
    <2>5. up /\ binding = cam /\ cam # None
      BY <2>4, NotNone DEF CameraInv, Bound, Starting, Entered, TypeInv, MemoryTyped
    <2>a. Bound' /\ Starting' /\ NamesAgree'
      BY <2>2, <2>4, <2>5 DEF CameraInv, Bound, Starting, NamesAgree, Entered
    <2>b. Measured'
      BY <2>2, <2>3, <2>4, <2>5 DEF CameraInv, Measured, Of
    <2>c. Lineage' /\ StagedOfAnchor'
      BY <2>3, <2>4 DEF CameraInv, Lineage, StagedOfAnchor
    <2> QED
      BY <2>a, <2>b, <2>c DEF CameraInv
  <1>2. CASE ApplyRefused
    <2>1. /\ doing = "apply" /\ doing' = "idle"
          /\ UNCHANGED <<markers, anchor, draft, contact, active, up, cam, block, memory, runtime, goal, refused>>
      BY <1>2 DEF ApplyRefused
    <2>2. Bound' /\ Starting' /\ NamesAgree'
      BY <2>1 DEF CameraInv, Bound, Starting, NamesAgree, Entered
    <2>3. Measured' /\ Lineage' /\ StagedOfAnchor'
      BY <2>1 DEF CameraInv, Measured, Of, Lineage, StagedOfAnchor
    <2> QED
      BY <2>2, <2>3 DEF CameraInv
  <1> QED
    BY <1>1, <1>2

LEMMA CameraInvariant == Spec => []CameraInv
  <1>1. TypeInv /\ CameraInv /\ [Next]_vars => CameraInv'
    <2> SUFFICES ASSUME TypeInv, CameraInv, [Next]_vars PROVE CameraInv'
      OBVIOUS
    <2>1. CASE UNCHANGED vars
      BY <2>1
      DEF vars, markers, staging, active, runtime, memory, CameraInv, Bound, Starting, BlockAtStart,
                  Pending, NamesAgree, Measured, Of, Lineage, StagedOfAnchor
    <2>2. CASE Next
      BY <2>1, <2>2, CameraKeeps, StartKeeps, EndKeeps, AnchorKeeps, ContactKeeps, ApplyKeeps
      DEF Next, BootRefused, NoMoreBoots
    <2> QED
      BY <2>1, <2>2
  <1> QED
    BY <1>1, InitCamera, TypesInvariant, PTL DEF Spec

-----------------------------------------------------------------------------
(* What follows of the camera.                                             *)

\* While the worker may map and the camera runs, the calibration in memory was
\* measured on that camera alone (runtime_mapping_block_reason), whatever was
\* cut, refused, recovered or restarted, but for the named case.
THEOREM MapperIsOfItsCamera == Spec => []OpenMapperIsCalibrated
  <1>1. TypeInv /\ CameraInv => OpenMapperIsCalibrated
    <2> SUFFICES ASSUME TypeInv, CameraInv, refused # "camera", up, doing # "boot", ~block, live
                 PROVE  loaded.anchor.cams \cup loaded.contact.cams \subseteq {source}
      BY DEF OpenMapperIsCalibrated
    <2>1. loaded.anchor # None /\ loaded.contact # None
      BY NotNone DEF TypeInv, MemoryTyped
    <2>2. cam = source
      BY DEF CameraInv, NamesAgree
    <2>3. loaded.anchor.cams \subseteq {cam} /\ loaded.contact.cams \subseteq {cam}
      BY <2>1 DEF CameraInv, Measured, Of
    <2> QED
      BY <2>2, <2>3
  <1> QED
    BY <1>1, TypesInvariant, CameraInvariant, PTL

\* With both markers lifted the active calibration is one of the bound camera,
\* after any crash between two files (_bind_staging_camera, apply_bundle).
THEOREM DiskIsOfItsCamera == Spec => []UnmarkedDiskIsCalibrated
  <1>1. TypeInv /\ CameraInv => UnmarkedDiskIsCalibrated
    <2> SUFFICES ASSUME TypeInv, CameraInv, refused # "camera", binding # None, ~marker, ~rtMarker
                 PROVE  activeAnchor.cams \cup activeContact.cams \subseteq {binding}
      BY DEF UnmarkedDiskIsCalibrated
    <2>1. activeAnchor # None /\ activeContact # None
      BY NotNone DEF TypeInv, FilesTyped
    <2> QED
      BY <2>1 DEF CameraInv, Measured, Of
  <1> QED
    BY <1>1, TypesInvariant, CameraInvariant, PTL

\* A step the page offers without a warning is accepted (overview_state against
\* start_contact_calibration and apply_bundle), for any number of cut handlers.
THEOREM OffersAreAccepted == Spec => []OfferedStepsWork
  <1>1. TypeInv /\ CameraInv => OfferedStepsWork
    <2> SUFFICES ASSUME TypeInv, CameraInv PROVE OfferedStepsWork
      OBVIOUS
    <2>1. /\ anchor \in Anchor \cup {None} /\ layout \in Layouts \cup {None}
          /\ activeLayout \in Layouts
      BY DEF TypeInv, FilesTyped
    <2>2. ASSUME ContactOffered, ContactShownValid, DraftShown
          PROVE  ContactAccepted
      <3>1. ~marker
        BY <2>2 DEF ContactOffered, Pending
      <3>2. CASE Replacement
        <4>1. /\ anchor # None /\ layout # None
              /\ InInventory(anchor, layout) /\ AsPlanned(anchor, layout)
          BY <2>2, <3>2 DEF ContactOffered
        <4>2. SampledAnchor = anchor /\ StagedLayout = layout
          BY <4>1 DEF SampledAnchor, StagedLayout
        <4>3. draft # None => draft.anchor = anchor
          BY <3>1, <4>1 DEF CameraInv, StagedOfAnchor
        <4>4. draft # None => draft.keys = Keys[layout]
          BY <2>2, <4>2 DEF ContactShownValid, DraftShown
        <4> QED
          BY <3>1, <4>1, <4>2, <4>3, <4>4 DEF ContactAccepted
      <3>3. CASE ~Replacement
        <4>1. anchor = None /\ draft = None /\ ~lineage /\ (layout = None \/ layout = activeLayout)
          BY <3>3 DEF Replacement
        <4>2. SampledAnchor = activeAnchor /\ StagedLayout = activeLayout
          BY <4>1 DEF SampledAnchor, StagedLayout
        <4>3. InInventory(activeAnchor, activeLayout) /\ AsPlanned(activeAnchor, activeLayout)
          BY <2>2, <3>3 DEF ContactOffered
        <4> QED
          BY <3>1, <4>1, <4>2, <4>3 DEF ContactAccepted
      <3> QED
        BY <3>2, <3>3
    <2>3. ASSUME ApplyOffered
          PROVE  ApplyAccepted
      BY <2>3 DEF ApplyOffered, ApplyAccepted, Pending, StagedLayout
    <2> QED
      BY <2>2, <2>3 DEF OfferedStepsWork
  <1> QED
    BY <1>1, TypesInvariant, CameraInvariant, PTL

-----------------------------------------------------------------------------
(* Until a write is refused: the session, its files and its anchor.        *)

SessionInv == DraftIsSession /\ OneAnchorThroughout

LEMMA InitSession == Init => SessionInv
  BY DEF Init, SessionInv, DraftIsSession, OneAnchorThroughout

\* Cut short, a handler leaves the draft and the map of the staged anchor;
\* done, it leaves the session and its files alone or none of them.
LEMMA LayoutKeepsSession ==
  ASSUME TypeInv, CameraInv, SessionInv, doing # "torn",
         NEW cut \in 0 .. 6, Took(cut, 6, "idle"),
         Invalidates(cut) \/ UNCHANGED <<lineage, anchor, draft, contact, memory>>,
         UNCHANGED refused
  PROVE  SessionInv'
  <1> USE DEF memory
  <1>1. cut < 6 => doing' = "torn"
    BY DEF Took
  <1>2. CASE Invalidates(cut)
    BY <1>1, <1>2 DEF Invalidates, SessionEnds, SessionInv, DraftIsSession, OneAnchorThroughout
  <1>3. CASE UNCHANGED <<lineage, anchor, draft, contact, memory>>
    BY <1>3 DEF SessionInv, DraftIsSession, OneAnchorThroughout, Complete
  <1> QED
    BY <1>2, <1>3

LEMMA SessionStarts ==
  ASSUME TypeInv, CameraInv, SessionInv, StartsContact
  PROVE  SessionInv'
  <1>1. PICK cut \in 0 .. 5 :
          /\ anchor' = IF cut >= 2 THEN SampledAnchor ELSE anchor
          /\ draft' = IF cut >= 3 THEN Resumed ELSE draft
          /\ contact' = IF cut >= 4 /\ Complete(Resumed) THEN MapOf(Resumed)
                        ELSE IF cut >= 5 THEN None ELSE contact
          /\ ses' = IF cut >= 4 THEN Resumed ELSE ses
          /\ loc' = IF cut >= 5 THEN Resumed.anchor ELSE loc
          /\ Took(cut, 5, "idle")
    BY DEF StartsContact, ContactBegins, At, Cuts
  <1>2. cut < 5 => doing' = "torn"
    BY <1>1 DEF Took
  <1>3. ContactAccepted /\ UNCHANGED refused
    BY DEF StartsContact
  <1>4. /\ Resumed.anchor = SampledAnchor
        /\ Resumed \in Draft /\ SampledAnchor \in Anchor
        /\ anchor = None => draft = None /\ contact = None /\ ses = None
    BY <1>3, ResumedOfAnchor
  <1>5. Resumed # None /\ SampledAnchor # None /\ (anchor = None \/ SampledAnchor = anchor)
    BY <1>4, NotNone DEF SampledAnchor
  <1>6. MapOf(Resumed).anchor = SampledAnchor
    BY <1>4 DEF MapOf
  <1>7. DraftIsSession'
    BY <1>1, <1>2, <1>5 DEF DraftIsSession, Complete
  <1>8. OneAnchorThroughout'
    <2>1. doing' # "torn" => cut = 5
      BY <1>2
    <2>2. doing' # "torn" => loc' # None /\ ses'.anchor = loc' /\ anchor' = loc'
      BY <1>1, <1>4, <1>5, <2>1
    <2>3. refused' = "none" /\ anchor' # None /\ draft' # None => draft'.anchor = anchor'
      BY <1>1, <1>3, <1>4, <1>5 DEF SessionInv, OneAnchorThroughout
    <2>4. refused' = "none" /\ anchor' # None /\ contact' # None => contact'.anchor = anchor'
      BY <1>1, <1>3, <1>4, <1>5, <1>6 DEF SessionInv, OneAnchorThroughout
    <2> QED
      BY <2>2, <2>3, <2>4 DEF OneAnchorThroughout
  <1> QED
    BY <1>7, <1>8 DEF SessionInv

\* capture_contact and undo_contact change the session and its draft together.
LEMMA SamplesKeepSession ==
  ASSUME TypeInv, CameraInv, SessionInv, Captures \/ Undoes
  PROVE  SessionInv'
  <1>0. /\ doing = "idle" /\ ses # None /\ loc # None /\ ~Complete(ses) /\ ses \in Draft
        /\ UNCHANGED <<anchor, loc, refused>>
    BY DEF Captures, Undoes, Collecting, TypeInv, MemoryTyped
  <1>1. refused = "none" => contact = None /\ ses.anchor = loc /\ anchor = loc
    BY <1>0 DEF SessionInv, DraftIsSession, OneAnchorThroughout
  <1>2. CASE Captures
    <2> DEFINE more == [ses EXCEPT !.n = @ + 1, !.cams = @ \cup {source}]
    <2>1. PICK cut \in 0 .. 2 :
            /\ draft' = IF cut >= 1 THEN more ELSE draft
            /\ ses' = IF cut >= 1 THEN more ELSE ses
            /\ contact' = IF cut >= 2 /\ Complete(more) THEN MapOf(more) ELSE contact
            /\ Took(cut, 2, "idle")
            /\ cut = 1 => Complete(more)
      BY <1>2 DEF Captures, Cuts, At
    <2>2. cut < 2 => doing' = "torn"
      BY <2>1 DEF Took
    <2>3. more.anchor = ses.anchor /\ MapOf(more).anchor = ses.anchor
      BY <1>0 DEF MapOf, Draft
    <2> HIDE DEF more
    <2>4. DraftIsSession'
      BY <1>0, <1>1, <2>1, <2>2 DEF DraftIsSession, Complete
    <2>5. OneAnchorThroughout'
      BY <1>0, <1>1, <2>1, <2>2, <2>3 DEF SessionInv, OneAnchorThroughout
    <2> QED
      BY <2>4, <2>5 DEF SessionInv
  <1>3. CASE Undoes
    <2> DEFINE less == [ses EXCEPT !.n = @ - 1]
    <2>1. PICK cut \in {0, 1} :
            /\ draft' = IF cut = 1 THEN less ELSE draft
            /\ ses' = IF cut = 1 THEN less ELSE ses
            /\ Took(cut, 1, "idle")
      BY <1>3 DEF Undoes
    <2>2. (cut = 0 => doing' = "torn") /\ UNCHANGED contact
      BY <1>3, <2>1 DEF Took, Undoes
    <2>3. less.anchor = ses.anchor
      BY <1>0 DEF Draft
    <2> HIDE DEF less
    <2>4. DraftIsSession'
      BY <1>0, <1>1, <2>1, <2>2 DEF DraftIsSession
    <2>5. OneAnchorThroughout'
      BY <1>0, <1>1, <2>1, <2>2, <2>3 DEF SessionInv, OneAnchorThroughout
    <2> QED
      BY <2>4, <2>5 DEF SessionInv
  <1> QED
    BY <1>2, <1>3

\* reset_contact_draft and finalize_anchor remove the draft and the map first.
LEMMA RemovalsKeepSession ==
  ASSUME TypeInv, CameraInv, SessionInv, Resets \/ Finalizes
  PROVE  SessionInv'
  <1>1. CASE Resets
    <2>1. PICK cut \in 0 .. 2 :
            /\ draft' = IF cut >= 1 THEN None ELSE draft
            /\ contact' = IF cut >= 2 THEN None ELSE contact
            /\ SessionEnds(cut >= 2)
            /\ Took(cut, 2, "idle")
      BY <1>1 DEF Resets, Cuts, At
    <2>2. (cut < 2 => doing' = "torn") /\ (cut >= 2 => ses' = None) /\ UNCHANGED <<anchor, refused>>
      BY <1>1, <2>1 DEF Took, SessionEnds, Resets
    <2> QED
      BY <2>1, <2>2 DEF SessionInv, DraftIsSession, OneAnchorThroughout
  <1>2. CASE Finalizes
    <2>1. PICK cut \in 0 .. 4 :
            /\ draft' = IF cut >= 1 THEN None ELSE draft
            /\ contact' = IF cut >= 2 THEN None ELSE contact
            /\ anchor' = IF cut >= 3 THEN NewAnchor ELSE anchor
            /\ SessionEnds(cut >= 4)
            /\ Took(cut, 4, "idle")
      BY <1>2 DEF Finalizes, Cuts, At
    <2>2. (cut < 4 => doing' = "torn") /\ (cut >= 4 => ses' = None) /\ UNCHANGED refused
      BY <1>2, <2>1 DEF Took, SessionEnds, Finalizes
    <2> QED
      BY <2>1, <2>2 DEF SessionInv, DraftIsSession, OneAnchorThroughout
  <1> QED
    BY <1>1, <1>2

\* The handlers that bind or adopt a camera leave the staged files alone, and
\* keep the session or end it.
LEMMA CamerasKeepSession ==
  ASSUME SessionInv, UNCHANGED <<staging, refused>>, doing # "torn",
         UNCHANGED <<ses, loc>> \/ (ses' = None /\ loc' = None)
  PROVE  SessionInv'
  BY DEF staging, SessionInv, DraftIsSession, OneAnchorThroughout, Complete

LEMMA OthersKeepSession ==
  ASSUME TypeInv, CameraInv, SessionInv,
         \/ Boots \/ BindsRuntime \/ Dies \/ Raises \/ Enters \/ ChangeArrives \/ Changes
         \/ RecoveryArrives \/ Recovers \/ Observes \/ ContactRefused \/ Applies \/ ApplyRefused
  PROVE  SessionInv'
  <1> USE DEF memory, staging
  <1>1. CASE Enters \/ ChangeArrives \/ RecoveryArrives
    <2>1. doing # "torn" /\ UNCHANGED <<staging, refused>> /\ \E cut \in BindCuts : Binds(cut)
      BY <1>1 DEF Enters, ChangeArrives, RecoveryArrives
    <2> QED
      BY <2>1, CamerasKeepSession DEF Binds
  <1>2. CASE Changes \/ Recovers
    <2>1. doing # "torn" /\ UNCHANGED <<staging, refused>> /\ \E cut \in AdoptCuts : Adopts(cut)
      BY <1>2 DEF Changes, Recovers
    <2> QED
      BY <2>1, CamerasKeepSession DEF Adopts
  <1>3. CASE Boots \/ Observes
    <2>1. doing # "torn" /\ UNCHANGED <<staging, refused, ses, loc>>
      BY <1>3 DEF Boots, Observes, CameraInv, Starting
    <2> QED
      BY <2>1, CamerasKeepSession
  <1>4. CASE ContactRefused \/ Applies \/ ApplyRefused
    <2>1. doing # "torn" /\ UNCHANGED <<anchor, draft, contact, refused, ses, loc>>
      BY <1>4 DEF ContactRefused, Applies, ApplyRefused
    <2> QED
      BY <2>1 DEF SessionInv, DraftIsSession, OneAnchorThroughout, Complete
  <1>5. CASE BindsRuntime \/ Dies
    <2>1. ses' = None /\ UNCHANGED staging /\ (refused' = "none" => refused = "none")
      BY <1>5 DEF BindsRuntime, Dies, CameraInv, Starting
    <2> QED
      BY <2>1 DEF SessionInv, DraftIsSession, OneAnchorThroughout
  <1>6. CASE Raises
    BY <1>6 DEF Raises, SessionInv, DraftIsSession, OneAnchorThroughout
  <1> QED
    BY <1>1, <1>2, <1>3, <1>4, <1>5, <1>6

LEMMA SessionInvariant == Spec => []SessionInv
  <1>1. TypeInv /\ CameraInv /\ SessionInv /\ [Next]_vars => SessionInv'
    <2> SUFFICES ASSUME TypeInv, CameraInv, SessionInv, [Next]_vars PROVE SessionInv'
      OBVIOUS
    <2>1. CASE UNCHANGED vars
      BY <2>1 DEF vars, staging, memory, SessionInv, DraftIsSession, OneAnchorThroughout, Complete
    <2>2. CASE SavesLayout
      <3>1. PICK cut \in 0 .. 6 :
              /\ Invalidates(cut) \/ UNCHANGED <<lineage, anchor, draft, contact, memory>>
              /\ Took(cut, 6, "idle")
        BY <2>2 DEF SavesLayout, Invalidated, At, Cuts
      <3> QED
        BY <2>2, <3>1, LayoutKeepsSession DEF SavesLayout
    <2>3. CASE StartsRegistration
      <3>1. PICK cut \in 0 .. 6 :
              /\ Invalidates(cut) \/ UNCHANGED <<lineage, anchor, draft, contact, memory>>
              /\ Took(cut, 6, "idle")
        BY <2>3 DEF StartsRegistration, Invalidated, At, Cuts
      <3> QED
        BY <2>3, <3>1, LayoutKeepsSession DEF StartsRegistration
    <2>4. CASE BootRefused \/ NoMoreBoots
      BY <2>1, <2>4 DEF BootRefused, NoMoreBoots
    <2> QED
      BY <2>1, <2>2, <2>3, <2>4, SessionStarts, SamplesKeepSession, RemovalsKeepSession,
         OthersKeepSession DEF Next
  <1> QED
    BY <1>1, InitSession, TypesInvariant, CameraInvariant, PTL DEF Spec

\* The draft a restart resumes holds the samples of the session, and no map lies
\* beside a session that still collects (ContactCalibrationSession._persist).
THEOREM DraftFollowsSession == Spec => []DraftIsSession
  BY SessionInvariant, PTL DEF SessionInv

\* Session, locator, draft and map are of one anchor, the staged one
\* (finalize_anchor, save_layout, start_contact_calibration), after any crash.
THEOREM SessionIsOfOneAnchor == Spec => []OneAnchorThroughout
  BY SessionInvariant, PTL DEF SessionInv

==============================================================================
