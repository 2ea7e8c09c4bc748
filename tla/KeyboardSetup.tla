--------------------------- MODULE KeyboardSetup ---------------------------
(***************************************************************************)
(* KeyboardSetupController: the files of a keyboard calibration, staged    *)
(* and active, the markers that block a calibration of another camera, and *)
(* what a crash or a refused disk operation leaves of them.                *)
(*                                                                         *)
(* Every handler runs under one lock, so nothing observes it half-way but  *)
(* the disk after a crash, the memory after an exception, and the worker   *)
(* that reads the cached block.  A handler is therefore one step with a    *)
(* cut: the number of its effects that took place.  A cut short of the     *)
(* last one leaves doing = "torn"; then the exception returns or the       *)
(* process dies.  A single file is written atomically (os.replace).        *)
(*                                                                         *)
(* Ghosts: the cams of an anchor or of samples are the cameras whose       *)
(* frames they were measured on, the layout of an anchor is the staged one *)
(* it was registered for.  No guard reads cams.                            *)
(***************************************************************************)
EXTENDS Naturals

CONSTANTS
  Cameras,      \* camera identities
  Layouts,      \* layout configurations
  Keys, Plan,   \* a layout's key inventory and its marker plan
  FirstCamera,  \* the camera of the calibration found at the first start
  FirstLayout,  \* and its layout
  Reflected,    \* cameras with mirrored, flipped or rotated pixels
  Samples,      \* samples of a complete contact draft
  MaxAnchors, MaxSaves, MaxSwitches, MaxBoots,  \* bounds of a behaviour
  MaxFaults,    \* bound: handlers cut short
  None

ASSUME SetupAssumption ==
  /\ FirstCamera \in Cameras /\ FirstLayout \in Layouts /\ Reflected \subseteq Cameras
  /\ Samples \in Nat \ {0}
  /\ MaxAnchors \in Nat /\ MaxSaves \in Nat /\ MaxSwitches \in Nat
  /\ MaxBoots \in Nat /\ MaxFaults \in Nat

VARIABLES
  binding, marker, rtMarker, lineage,         \* marker files
  layout, anchor, draft, contact,             \* staging files
  activeLayout, activeAnchor, activeContact,  \* active files
  up, cam, block,                             \* process; camera_config; cached block
  reg, ses, loc,                              \* registration, session, locator
  loaded, source, live,                       \* what the runtime maps with
  doing, goal, request,                       \* holder of the lock; camera request
  refused,                                    \* history: the worst refused write
  faults, anchors, saves, switches, boots     \* counters of the bounds

markers  == <<binding, marker, rtMarker, lineage>>
staging  == <<layout, anchor, draft, contact>>
active   == <<activeLayout, activeAnchor, activeContact>>
memory   == <<reg, ses, loc>>
runtime  == <<loaded, source, live>>
counters == <<faults, anchors, saves, switches, boots>>

vars == <<markers, staging, active, up, cam, block, memory, runtime, doing, goal,
          request, refused, counters>>

-----------------------------------------------------------------------------
(* Values.                                                                 *)

Anchor  == [rev : 0 .. MaxAnchors, layout : Layouts, cams : SUBSET Cameras]
Draft   == [anchor : Anchor, keys : {Keys[l] : l \in Layouts}, cams : SUBSET Cameras,
            n : 0 .. Samples]
Contact == [anchor : Anchor, keys : {Keys[l] : l \in Layouts}, cams : SUBSET Cameras]

ASSUME SetupNoneAssumption ==
  None \notin Cameras \cup Layouts \cup Anchor \cup Draft \cup Contact

Complete(d) == d.n = Samples
MapOf(d)    == [anchor |-> d.anchor, keys |-> d.keys, cams |-> d.cams]

\* Every marker sits on a key of the inventory ...
InInventory(a, l) == Keys[a.layout] = Keys[l] \/ Plan[a.layout] = Plan[l]
\* ... and on the one the layout plans for it.
AsPlanned(a, l) == Plan[a.layout] = Plan[l]

\* load_keyboard_calibration_artifacts: three files that belong together.
Loads(l, a, c) ==
  /\ a # None /\ c # None
  /\ InInventory(a, l) /\ AsPlanned(a, l)
  /\ c.keys = Keys[l] /\ c.anchor = a

StagedLayout == IF layout = None THEN activeLayout ELSE layout

FirstAnchor  == [rev |-> 0, layout |-> FirstLayout, cams |-> {FirstCamera}]
FirstContact == [anchor |-> FirstAnchor, keys |-> Keys[FirstLayout], cams |-> {FirstCamera}]

-----------------------------------------------------------------------------
Init ==
  /\ binding \in {None, FirstCamera}
  /\ marker = FALSE /\ rtMarker = FALSE /\ lineage = FALSE
  /\ layout = None /\ anchor = None /\ draft = None /\ contact = None
  /\ activeLayout = FirstLayout /\ activeAnchor = FirstAnchor /\ activeContact = FirstContact
  /\ up = FALSE /\ cam = FirstCamera /\ block = FALSE
  /\ reg = None /\ ses = None /\ loc = None
  /\ loaded = [anchor |-> FirstAnchor, contact |-> FirstContact]
  /\ source = FirstCamera /\ live = FALSE
  /\ doing = "idle" /\ goal = FirstCamera /\ request = "none" /\ refused = "none"
  /\ faults = 0 /\ anchors = 0 /\ saves = 0 /\ switches = 0 /\ boots = 0

-----------------------------------------------------------------------------
(* Cuts.                                                                   *)

At(i, happens) == IF happens THEN {i} ELSE {}

\* A handler has n effects, of which `real` touch the disk this time.  It
\* takes place up to one of those, which is refused, or to the end.
Cuts(n, real) == {i - 1 : i \in real} \cup {n}

\* With all effects done the lock holder goes on to `next`.
Took(cut, n, next) ==
  /\ cut < n => faults < MaxFaults
  /\ faults' = IF cut < n THEN faults + 1 ELSE faults
  /\ doing' = IF cut < n THEN "torn" ELSE next

\* The exception reaches the caller; the process lives on.  The worst case is
\* a camera change refused after setup adopted the camera: the other one runs.
Raises ==
  /\ doing = "torn"
  /\ doing' = "idle"
  /\ refused' = IF refused = "camera" \/ (live /\ cam # source) THEN "camera" ELSE "write"
  /\ UNCHANGED <<markers, staging, active, up, cam, block, memory, runtime, goal,
                 request, counters>>

\* The process is stopped or dies, between two handlers or within one.
Dies ==
  /\ up
  /\ up' = FALSE /\ block' = FALSE /\ live' = FALSE
  /\ reg' = None /\ ses' = None /\ loc' = None
  /\ doing' = "idle" /\ request' = "none"
  /\ UNCHANGED <<markers, staging, active, cam, loaded, source, goal, refused, counters>>

-----------------------------------------------------------------------------
(* _bind_staging_camera and _mark_camera_revalidation.                     *)

Pending(c) == marker \/ IF binding = None THEN c \in Reflected ELSE binding # c

NeedsMark == IF binding = None THEN Pending(cam) ELSE binding # cam

BindCuts == Cuts(3, At(1, NeedsMark) \cup At(2, NeedsMark) \cup At(3, binding # cam))

\* Mutant: the binding names the new camera before the markers are on disk.
BindsFirst(cut) ==
  /\ block' = (block \/ NeedsMark)
  /\ binding' = IF cut >= 1 THEN cam ELSE binding
  /\ marker' = (marker \/ (NeedsMark /\ cut >= 2))
  /\ rtMarker' = (rtMarker \/ (NeedsMark /\ cut >= 3))
  /\ IF NeedsMark /\ cut >= 3 THEN reg' = None /\ ses' = None /\ loc' = None
                              ELSE UNCHANGED memory
\* Another camera than the bound one: block, both markers, forget what was
\* measured; then the new binding.
Binds(cut) ==
  /\ block' = (block \/ NeedsMark)
  /\ marker' = (marker \/ (NeedsMark /\ cut >= 1))
  /\ rtMarker' = (rtMarker \/ (NeedsMark /\ cut >= 2))
  /\ IF NeedsMark /\ cut >= 2 THEN reg' = None /\ ses' = None /\ loc' = None
                              ELSE UNCHANGED memory
  /\ binding' = IF cut >= 3 THEN cam ELSE binding

\* The handlers that write staging first bind the camera.
Enters ==
  /\ up /\ doing = "idle"
  /\ \E op \in {"save", "register", "contact", "apply"}, cut \in BindCuts :
       /\ op = "save" => saves < MaxSaves
       /\ Binds(cut) /\ Took(cut, 3, op)
  /\ UNCHANGED <<lineage, staging, active, up, cam, runtime, goal, request, refused,
                 anchors, saves, switches, boots>>

-----------------------------------------------------------------------------
(* Start of the process: build_runtime, __init__, bind_runtime_camera.     *)

\* Mutant: the runtime marker is not looked at.
BlockWithoutMarker(c) == Pending(c)
BlockAtStart(c) == rtMarker \/ Pending(c)

\* Assumption of the code: with no baseline on disk, an unreflected camera is
\* the one the calibration was built for.
Boots ==
  /\ ~up /\ boots < MaxBoots /\ Loads(activeLayout, activeAnchor, activeContact)
  /\ \E c \in Cameras :
       /\ binding = None => c = FirstCamera \/ c \in Reflected
       /\ cam' = c /\ source' = c /\ block' = BlockAtStart(c)
  /\ loaded' = [anchor |-> activeAnchor, contact |-> activeContact]
  /\ up' = TRUE /\ doing' = "boot" /\ boots' = boots + 1
  /\ UNCHANGED <<markers, staging, active, memory, live, goal, request, refused,
                 faults, anchors, saves, switches>>

\* The active files do not belong together: RuntimeBuildError, no service.
BootRefused ==
  /\ ~up /\ ~Loads(activeLayout, activeAnchor, activeContact)
  /\ UNCHANGED vars

NoMoreBoots == ~up /\ boots = MaxBoots /\ UNCHANGED vars

\* bind_runtime_camera: a block without its runtime marker gets one (effects
\* 4 and 5); a disk error blocks the mapping and the service goes on.  Then
\* the camera starts, or does not open.
BindsRuntime ==
  LET late == block /\ ~rtMarker /\ ~NeedsMark
      real == At(1, NeedsMark) \cup At(2, NeedsMark) \cup At(3, binding # cam)
              \cup At(4, late) \cup At(5, late)
  IN  /\ doing = "boot"
      /\ \E cut \in Cuts(5, real) :
           /\ cut < 5 => faults < MaxFaults
           /\ faults' = IF cut < 5 THEN faults + 1 ELSE faults
           /\ refused' = IF cut < 5 /\ refused = "none" THEN "write" ELSE refused
           /\ block' = (block \/ NeedsMark \/ cut < 5)
           /\ marker' = (marker \/ (NeedsMark /\ cut >= 1) \/ (late /\ cut >= 4))
           /\ rtMarker' = (rtMarker \/ (NeedsMark /\ cut >= 2) \/ (late /\ cut >= 5))
           /\ binding' = IF cut >= 3 THEN cam ELSE binding
      /\ live' \in BOOLEAN /\ doing' = "idle"
      /\ UNCHANGED <<lineage, staging, active, up, cam, memory, loaded, source, goal,
                     request, anchors, saves, switches, boots>>

-----------------------------------------------------------------------------
(* A camera request: camera_change around the switch of the runtime, and   *)
(* the recovery when the runtime kept another camera than setup recorded.  *)

\* What a request still owes when it failed with setup on camera c.
Owes(c) == IF c # source THEN "recover" ELSE "none"

ChangeArrives ==
  /\ up /\ doing = "idle" /\ request = "none" /\ switches < MaxSwitches
  /\ goal' \in Cameras /\ switches' = switches + 1
  /\ \E cut \in BindCuts :
       /\ Binds(cut) /\ Took(cut, 3, "change")
       /\ request' = IF cut < 3 THEN Owes(cam) ELSE "change"
  /\ UNCHANGED <<lineage, staging, active, up, cam, runtime, refused, anchors, saves, boots>>

\* Others may have taken the lock since the request failed.
RecoveryArrives ==
  /\ up /\ doing = "idle" /\ request = "recover"
  /\ goal' = source
  /\ \E cut \in BindCuts :
       /\ Binds(cut) /\ Took(cut, 3, "recover")
       /\ request' = IF cut < 3 THEN "none" ELSE "recover"
  /\ UNCHANGED <<lineage, staging, active, up, cam, runtime, refused, anchors, saves,
                 switches, boots>>

\* The camera is adopted once both markers are on disk; then it is bound.
Adopts(cut) ==
  LET differs == goal # cam
  IN  /\ block' = (block \/ differs)
      /\ marker' = (marker \/ (differs /\ cut >= 1))
      /\ rtMarker' = (rtMarker \/ (differs /\ cut >= 2))
      /\ IF differs /\ cut >= 2 THEN reg' = None /\ ses' = None /\ loc' = None
                              ELSE UNCHANGED memory
      /\ cam' = IF cut >= 2 THEN goal ELSE cam
      /\ binding' = IF cut >= 3 THEN goal ELSE binding

AdoptCuts == Cuts(3, At(1, goal # cam) \cup At(2, goal # cam) \cup At(3, goal # cam))

\* reconfigure_camera runs within the lock: the new camera runs, or the source
\* was not touched, or it was configured and did not start.
Changes ==
  /\ doing = "change"
  /\ \E cut \in AdoptCuts :
       /\ Adopts(cut) /\ Took(cut, 3, "idle")
       /\ \/ /\ cut < 3 /\ request' = Owes(cam') /\ UNCHANGED <<source, live>>
          \/ /\ cut = 3 /\ source' = goal /\ live' \in BOOLEAN /\ request' = "none"
          \/ /\ cut = 3 /\ live' = FALSE /\ request' = Owes(cam') /\ UNCHANGED source
  /\ UNCHANGED <<lineage, staging, active, up, loaded, goal, refused, anchors, saves,
                 switches, boots>>

Recovers ==
  /\ doing = "recover"
  /\ \E cut \in AdoptCuts : Adopts(cut) /\ Took(cut, 3, "idle")
  /\ request' = "none"
  /\ UNCHANGED <<lineage, staging, active, up, runtime, goal, refused, anchors, saves,
                 switches, boots>>

-----------------------------------------------------------------------------
(* save_layout and start_anchor_registration.                              *)

\* Mutant: the session outlives the anchor it samples for.
SessionStays(ended) == UNCHANGED <<ses, loc>>
SessionEnds(ended) ==
  /\ ses' = IF ended THEN None ELSE ses
  /\ loc' = IF ended THEN None ELSE loc

\* Effects 3 .. 6: the lineage marker, then the staged files of the old
\* anchor; the session goes with the last.
Invalidates(cut) ==
  /\ lineage' = (lineage \/ cut >= 3)
  /\ anchor' = IF cut >= 4 THEN None ELSE anchor
  /\ draft' = IF cut >= 5 THEN None ELSE draft
  /\ contact' = IF cut >= 6 THEN None ELSE contact
  /\ SessionEnds(cut >= 6)

Invalidated == {3} \cup At(4, anchor # None) \cup At(5, draft # None) \cup At(6, contact # None)

\* Effect 1 copies the active layout into an empty workspace.
SavesLayout ==
  /\ doing = "save" /\ saves' = saves + 1
  /\ \E l \in Layouts :
       LET changed == l # StagedLayout
           real == At(1, layout = None) \cup {2} \cup IF changed THEN Invalidated ELSE {}
       IN  \E cut \in Cuts(6, real) :
             /\ layout' = IF cut >= 2 THEN l ELSE IF cut >= 1 THEN StagedLayout ELSE layout
             /\ IF changed
                THEN Invalidates(cut) /\ reg' = IF cut >= 6 THEN None ELSE reg
                ELSE UNCHANGED <<lineage, anchor, draft, contact, memory>>
             /\ Took(cut, 6, "idle")
  /\ UNCHANGED <<binding, marker, rtMarker, active, up, cam, block, runtime, goal, request,
                 refused, anchors, switches, boots>>

StartsRegistration ==
  /\ doing = "register"
  /\ \E reset \in BOOLEAN :
       LET new  == reg = None \/ reset
           real == At(1, layout = None) \cup IF new THEN Invalidated ELSE {}
       IN  \E cut \in Cuts(6, real) :
             /\ layout' = IF cut >= 1 THEN StagedLayout ELSE layout
             /\ IF new
                THEN /\ Invalidates(cut)
                     /\ reg' = IF cut >= 6 THEN [layout |-> StagedLayout, cams |-> {}] ELSE reg
                ELSE UNCHANGED <<lineage, anchor, draft, contact, memory>>
             /\ Took(cut, 6, "idle")
  /\ UNCHANGED <<binding, marker, rtMarker, active, up, cam, block, runtime, goal, request,
                 refused, anchors, saves, switches, boots>>

-----------------------------------------------------------------------------
(* observe_anchors and finalize_anchor.                                    *)

\* A registration needs several frames; a frame left over in the slot of a
\* stopped camera counts once and completes none.
Observes ==
  /\ up /\ doing = "idle" /\ reg # None /\ live
  /\ reg' = [reg EXCEPT !.cams = @ \cup {source}]
  /\ UNCHANGED <<markers, staging, active, up, cam, block, ses, loc, runtime, doing, goal,
                 request, refused, counters>>

NewAnchor == [rev |-> anchors + 1, layout |-> reg.layout, cams |-> reg.cams]

\* Mutant: the old samples are removed after the new anchor is saved.
FinalizesFirst ==
  /\ up /\ doing = "idle" /\ reg # None /\ reg.cams # {} /\ anchors < MaxAnchors
  /\ anchors' = anchors + 1
  /\ \E cut \in Cuts(4, {1} \cup At(2, draft # None) \cup At(3, contact # None) \cup At(4, marker)) :
       /\ anchor' = IF cut >= 1 THEN NewAnchor ELSE anchor
       /\ draft' = IF cut >= 2 THEN None ELSE draft
       /\ contact' = IF cut >= 3 THEN None ELSE contact
       /\ marker' = (marker /\ cut < 4)
       /\ SessionEnds(cut >= 4)
       /\ Took(cut, 4, "idle")
  /\ UNCHANGED <<binding, rtMarker, lineage, layout, active, up, cam, block, reg, runtime,
                 goal, request, refused, saves, switches, boots>>
\* Old samples go before the new anchor comes; the marker is lifted last.
Finalizes ==
  /\ up /\ doing = "idle" /\ reg # None /\ reg.cams # {} /\ anchors < MaxAnchors
  /\ anchors' = anchors + 1
  /\ \E cut \in Cuts(4, At(1, draft # None) \cup At(2, contact # None) \cup {3} \cup At(4, marker)) :
       /\ draft' = IF cut >= 1 THEN None ELSE draft
       /\ contact' = IF cut >= 2 THEN None ELSE contact
       /\ anchor' = IF cut >= 3 THEN NewAnchor ELSE anchor
       /\ marker' = (marker /\ cut < 4)
       /\ SessionEnds(cut >= 4)
       /\ Took(cut, 4, "idle")
  /\ UNCHANGED <<binding, rtMarker, lineage, layout, active, up, cam, block, reg, runtime,
                 goal, request, refused, saves, switches, boots>>

-----------------------------------------------------------------------------
(* start_contact_calibration.                                              *)

\* Without a staged anchor the active one may be taken over, if nothing of
\* the staging replaced it.
SampledAnchor == IF anchor = None THEN activeAnchor ELSE anchor

ContactAccepted ==
  LET l == StagedLayout
      a == SampledAnchor
  IN  /\ ~marker
      /\ anchor = None => ~lineage /\ l = activeLayout /\ AsPlanned(a, l)
      /\ InInventory(a, l)
      /\ draft # None => draft.anchor = a /\ draft.keys = Keys[l]

\* Mutant: a finalized map stays beside a session that is collecting.
ContactKeepsMap(cut, fresh) ==
  /\ contact' = IF cut >= 4 /\ Complete(fresh) THEN MapOf(fresh) ELSE contact
  /\ ses' = IF cut >= 4 THEN fresh ELSE ses
  /\ loc' = IF cut >= 5 THEN fresh.anchor ELSE loc
\* The resumed or new session; a complete draft is finalized again, the map
\* of another session goes.
ContactBegins(cut, fresh) ==
  /\ contact' = IF cut >= 4 /\ Complete(fresh) THEN MapOf(fresh)
                ELSE IF cut >= 5 THEN None ELSE contact
  /\ ses' = IF cut >= 4 THEN fresh ELSE ses
  /\ loc' = IF cut >= 5 THEN fresh.anchor ELSE loc

Resumed ==
  IF draft # None THEN draft
  ELSE [anchor |-> SampledAnchor, keys |-> Keys[StagedLayout], cams |-> {}, n |-> 0]

StartsContact ==
  LET fresh == Resumed
      real  == At(1, layout = None) \cup At(2, anchor = None) \cup At(3, draft = None)
               \cup At(4, Complete(fresh)) \cup At(5, ~Complete(fresh) /\ contact # None)
  IN  /\ doing = "contact" /\ ContactAccepted
      /\ \E cut \in Cuts(5, real) :
           /\ layout' = IF cut >= 1 THEN StagedLayout ELSE layout
           /\ anchor' = IF cut >= 2 THEN SampledAnchor ELSE anchor
           /\ draft' = IF cut >= 3 THEN fresh ELSE draft
           /\ ContactBegins(cut, fresh)
           /\ Took(cut, 5, "idle")
      /\ UNCHANGED <<markers, active, up, cam, block, reg, runtime, goal, request, refused,
                     anchors, saves, switches, boots>>

\* Refused before anything was written, or after the copy of the layout.
ContactRefused ==
  /\ doing = "contact" /\ ~ContactAccepted
  /\ doing' = "idle" /\ layout' = IF marker THEN layout ELSE StagedLayout
  /\ UNCHANGED <<markers, anchor, draft, contact, active, up, cam, block, memory, runtime,
                 goal, request, refused, counters>>

-----------------------------------------------------------------------------
(* The session: capture_contact, undo_contact, reset_contact_draft.        *)

Collecting == up /\ doing = "idle" /\ ses # None /\ loc # None /\ ~Complete(ses)

\* Mutant: a complete session takes another sample.
CapturesMore ==
  LET more == [ses EXCEPT !.n = @ + 1, !.cams = @ \cup {source}]
  IN  /\ up /\ doing = "idle" /\ ses # None /\ loc # None
      /\ draft' = more /\ ses' = more
      /\ UNCHANGED <<markers, layout, anchor, contact, active, up, cam, block, reg, loc,
                     runtime, doing, goal, request, refused, counters>>
\* The newest processed bundle is one of `source`.  The draft is saved
\* before the sample counts; the last one writes the contact map.
Captures ==
  LET more == [ses EXCEPT !.n = @ + 1, !.cams = @ \cup {source}]
  IN  /\ Collecting
      /\ \E cut \in Cuts(2, {1} \cup At(2, Complete(more))) :
           /\ draft' = IF cut >= 1 THEN more ELSE draft
           /\ ses' = IF cut >= 1 THEN more ELSE ses
           /\ contact' = IF cut >= 2 /\ Complete(more) THEN MapOf(more) ELSE contact
           /\ Took(cut, 2, "idle")
      /\ UNCHANGED <<markers, layout, anchor, active, up, cam, block, reg, loc, runtime,
                     goal, request, refused, anchors, saves, switches, boots>>

\* Mutant: the removed sample stays in the draft on disk.
UndoesInMemory ==
  /\ Collecting /\ ses.n > 0
  /\ ses' = [ses EXCEPT !.n = @ - 1]
  /\ UNCHANGED <<markers, staging, active, up, cam, block, reg, loc, runtime, doing, goal,
                 request, refused, counters>>
Undoes ==
  LET less == [ses EXCEPT !.n = @ - 1]
  IN  /\ Collecting /\ ses.n > 0
      /\ \E cut \in {0, 1} :
           /\ draft' = IF cut = 1 THEN less ELSE draft
           /\ ses' = IF cut = 1 THEN less ELSE ses
           /\ Took(cut, 1, "idle")
      /\ UNCHANGED <<markers, layout, anchor, contact, active, up, cam, block, reg, loc,
                     runtime, goal, request, refused, anchors, saves, switches, boots>>

Resets ==
  /\ up /\ doing = "idle"
  /\ \E cut \in Cuts(2, At(1, draft # None) \cup At(2, contact # None)) :
       /\ draft' = IF cut >= 1 THEN None ELSE draft
       /\ contact' = IF cut >= 2 THEN None ELSE contact
       /\ SessionEnds(cut >= 2)
       /\ Took(cut, 2, "idle")
  /\ UNCHANGED <<markers, layout, anchor, active, up, cam, block, reg, runtime, goal,
                 request, refused, anchors, saves, switches, boots>>

-----------------------------------------------------------------------------
(* apply_bundle and build_keyboard_bundle.                                 *)

ApplyAccepted == ~marker /\ Loads(StagedLayout, anchor, contact)

\* Mutant: the marker of the runtime camera goes first.
AppliesUnmarked(cut) ==
  /\ activeLayout' = IF cut >= 2 THEN StagedLayout ELSE activeLayout
  /\ rtMarker' = (rtMarker /\ cut < 3)
  /\ activeAnchor' = IF cut >= 4 THEN anchor ELSE activeAnchor
  /\ activeContact' = IF cut >= 5 THEN contact ELSE activeContact
  /\ lineage' = (lineage /\ cut < 6)
\* The active files one by one, then the markers.
AppliesFiles(cut) ==
  /\ activeLayout' = IF cut >= 2 THEN StagedLayout ELSE activeLayout
  /\ activeAnchor' = IF cut >= 3 THEN anchor ELSE activeAnchor
  /\ activeContact' = IF cut >= 4 THEN contact ELSE activeContact
  /\ rtMarker' = (rtMarker /\ cut < 5)
  /\ lineage' = (lineage /\ cut < 6)

\* Between effects 4 and 5 the model and its manifest, which a start repairs.
Applies ==
  /\ doing = "apply" /\ ApplyAccepted
  /\ \E cut \in Cuts(6, At(1, layout = None) \cup {2, 3, 4, 5} \cup At(6, lineage)) :
       /\ layout' = IF cut >= 1 THEN StagedLayout ELSE layout
       /\ AppliesFiles(cut)
       /\ Took(cut, 6, "idle")
  /\ UNCHANGED <<binding, marker, anchor, draft, contact, up, cam, block, memory, runtime,
                 goal, request, refused, anchors, saves, switches, boots>>

ApplyRefused ==
  /\ doing = "apply" /\ ~ApplyAccepted
  /\ doing' = "idle" /\ layout' = IF marker THEN layout ELSE StagedLayout
  /\ UNCHANGED <<markers, anchor, draft, contact, active, up, cam, block, memory, runtime,
                 goal, request, refused, counters>>

-----------------------------------------------------------------------------
Next ==
  \/ Boots \/ BootRefused \/ NoMoreBoots \/ BindsRuntime \/ Dies \/ Raises \/ Enters
  \/ ChangeArrives \/ Changes \/ RecoveryArrives \/ Recovers
  \/ SavesLayout \/ StartsRegistration \/ Observes \/ Finalizes
  \/ StartsContact \/ ContactRefused \/ Captures \/ Undoes \/ Resets
  \/ Applies \/ ApplyRefused

Spec == Init /\ [][Next]_vars

-----------------------------------------------------------------------------
(* overview_state: the steps the setup page offers.                        *)

Replacement ==
  \/ layout # None /\ layout # activeLayout
  \/ lineage \/ anchor # None \/ contact # None \/ draft # None

\* The page warns of a contact map or draft that does not fit.
ContactShownValid ==
  LET c == IF contact = None THEN draft ELSE contact
  IN  c # None => c.anchor = anchor /\ c.keys = Keys[StagedLayout]

\* Mutant: the pending recalibration is left out of the offer.
ContactOfferedAnyway ==
  /\ Replacement => layout # None /\ anchor # None /\ InInventory(anchor, layout) /\ AsPlanned(anchor, layout)
  /\ ~Replacement => InInventory(activeAnchor, activeLayout) /\ AsPlanned(activeAnchor, activeLayout)
ContactOffered ==
  LET a == IF Replacement THEN anchor ELSE activeAnchor
      l == IF Replacement THEN layout ELSE activeLayout
  IN  /\ a # None /\ l # None /\ InInventory(a, l) /\ AsPlanned(a, l)
      /\ ~Pending(cam)

ApplyOffered == layout # None /\ Loads(layout, anchor, contact) /\ ~Pending(cam)

-----------------------------------------------------------------------------
(* Properties.                                                             *)

\* Every variable has its type: no capture, undo or resumed draft takes a
\* session beyond its samples (session.py _blocked_result).
TypeOK ==
  /\ binding \in Cameras \cup {None} /\ marker \in BOOLEAN /\ rtMarker \in BOOLEAN
  /\ lineage \in BOOLEAN
  /\ layout \in Layouts \cup {None} /\ activeLayout \in Layouts
  /\ anchor \in Anchor \cup {None} /\ activeAnchor \in Anchor
  /\ draft \in Draft \cup {None} /\ ses \in Draft \cup {None}
  /\ contact \in Contact \cup {None} /\ activeContact \in Contact
  /\ loc \in Anchor \cup {None}
  /\ reg # None => reg \in [layout : Layouts, cams : SUBSET Cameras]
  /\ up \in BOOLEAN /\ block \in BOOLEAN /\ live \in BOOLEAN /\ refused \in {"none", "write", "camera"}
  /\ cam \in Cameras /\ source \in Cameras /\ goal \in Cameras
  /\ loaded \in [anchor : Anchor, contact : Contact]
  /\ doing \in {"idle", "boot", "torn", "save", "register", "contact", "apply", "change",
                 "recover"}
  /\ request \in {"none", "change", "recover"}
  /\ faults \in 0 .. MaxFaults /\ anchors \in 0 .. MaxAnchors /\ saves \in 0 .. MaxSaves
  /\ switches \in 0 .. MaxSwitches /\ boots \in 0 .. MaxBoots

\* While the worker may map (runtime_mapping_block_reason is empty) and the
\* camera runs, the calibration in memory was measured on this camera alone,
\* but for anchors registered while setup names a camera that does not run.
OpenMapperIsCalibrated ==
  refused # "camera" /\ up /\ doing # "boot" /\ ~block /\ live =>
    loaded.anchor.cams \cup loaded.contact.cams \subseteq {source}

\* With both markers lifted the calibration on disk is one of the bound
\* camera, whatever crash or refused write came between (_bind_staging_camera,
\* apply_bundle), but for the same case: the next start may map with it.
UnmarkedDiskIsCalibrated ==
  refused # "camera" /\ binding # None /\ ~marker /\ ~rtMarker =>
    activeAnchor.cams \cup activeContact.cams \subseteq {binding}

\* Unless a handler raised half-way: the draft a restart resumes holds the
\* samples of the session (ContactCalibrationSession._persist), and no finalized
\* map lies beside a session that is still collecting (start_contact_calibration),
\* so that apply cannot publish the map the new samples are to replace.
DraftIsSession ==
  refused = "none" /\ doing # "torn" /\ ses # None =>
    /\ draft = ses
    /\ loc # None /\ ~Complete(ses) => contact = None

\* Unless a handler raised half-way: the session and the locator that projects
\* its samples are of the staged anchor (finalize_anchor, save_layout).
\* Draft and contact map beside a staged anchor are measured with it, after
\* any crash: finalize_anchor removes them first.  (A refused removal of the
\* marker keeps the old session, which may go on; apply refuses its map.)
OneAnchorThroughout ==
  refused = "none" =>
    /\ doing # "torn" /\ ses # None => loc # None /\ ses.anchor = loc /\ anchor = loc
    /\ anchor # None /\ draft # None => draft.anchor = anchor
    /\ anchor # None /\ contact # None => contact.anchor = anchor

\* What the overview offers without a warning is not refused (overview_state
\* against start_contact_calibration and apply_bundle), after any crash, but
\* for a draft the page does not look at because a contact map lies beside it:
\* several handlers cut short can leave one of other keys there.
DraftShown == contact # None /\ draft # None => draft.keys = contact.keys
OfferedStepsWork ==
  up /\ doing = "idle" =>
    /\ ContactOffered /\ ContactShownValid /\ DraftShown => ContactAccepted
    /\ ApplyOffered => ApplyAccepted

\* Saving a changed layout invalidates the dependent staging files
\* (README.md:316): a staged anchor was registered for the staged layout.
StagedAnchorOfStagedLayout ==
  doing = "idle" /\ anchor # None => layout # None /\ anchor.layout = layout

\* "atomically apply calibrated bundle" (web/api.py:54, bundle.py:44): the next
\* start finds active files that belong together.
ActiveSetLoads == ~up => Loads(activeLayout, activeAnchor, activeContact)
=============================================================================
