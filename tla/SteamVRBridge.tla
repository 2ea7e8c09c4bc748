--------------------------- MODULE SteamVRBridge ---------------------------
(***************************************************************************)
(* The Windows bridge (bridge/src/main.cpp) between the local service and  *)
(* SteamVR: its transport thread fetches frames, its main loop gates them, *)
(* shows or hides the overlay and publishes the keyboard pose into a       *)
(* shared record (common/pose_channel.h), which the driver polls inside    *)
(* vrserver (driver/src/driver.cpp).  The bridge may die at any step.      *)
(*                                                                         *)
(* Time is kept as ages, in ticks, each capped one above the limit it is   *)
(* compared with.  What a frame's flags allow is one level: "blocked"      *)
(* (disabled, not confirmed, or another model), "pose" (enabled and        *)
(* confirmed), "live" (and its contact content is fresh).                  *)
(***************************************************************************)
EXTENDS Naturals

CONSTANTS
  Budget,     \* ticks a request may take: its time budget and its last read
  Recent,     \* ticks after which a received frame is service_stale
  PoseFresh   \* ticks after which the driver drops a record

ASSUME BridgeAssumption == Budget \in Nat /\ Recent \in Nat /\ PoseFresh \in Nat

VARIABLES
  service,             \* the local service, as the bridge sees it
  consentAge,          \* history: ticks since the service last had consent
  fetch,               \* the transport thread's request in flight
  latest,              \* Transport::latest_
  main,                \* label of the main loop
  gate,                \* what this iteration decided
  overlay,             \* the live texture is shown
  record, lock,        \* the shared pose record and its mutex
  cached,              \* the driver's last complete record
  drove,               \* the driver has run since the last tick
  deadAge,             \* history: ticks since the bridge died
  torn                 \* history: it died while it wrote the record

vars == <<service, consentAge, fetch, latest, main, gate, overlay, record, lock,
          cached, drove, deadAge, torn>>

-----------------------------------------------------------------------------
Longest == Budget + Recent + PoseFresh
Age(limit) == 0 .. limit + 1
Older(age, limit) == IF age <= limit THEN age + 1 ELSE age

Levels == {"blocked", "pose", "live"}
Consents(level) == level \in {"pose", "live"}
Idle == [pc |-> "idle", age |-> 0, level |-> "blocked"]
Nothing == [age |-> Recent + 1, level |-> "blocked"]

\* A pose record.  whole (history): its fields are from one Publish; the time
\* stamp and the valid flag of a record that is not may belong to others.
Record == [age : Age(PoseFresh), valid : BOOLEAN, whole : BOOLEAN]
NoRecord == [age |-> PoseFresh + 1, valid |-> FALSE, whole |-> TRUE]
Fresh(rec) == rec.age <= PoseFresh

\* What memcpy leaves in the record until it is done.
Partial(old, new) ==
  {old} \cup [age : {old.age, new.age}, valid : {old.valid, new.valid}, whole : {FALSE}]

\* Mutant: the driver shows what it last read.
ShowsCached == cached.valid
\* GetPose: connected and valid.
DriverShows == Fresh(cached) /\ cached.valid

Alive == main # "dead"

Init ==
  /\ service = "blocked"
  /\ consentAge = Longest + 1
  /\ fetch = Idle
  /\ latest = Nothing
  /\ main = "publish" /\ gate = "blocked" /\ overlay = FALSE
  /\ record = NoRecord /\ lock = "free"
  /\ cached = record
  /\ drove = FALSE
  /\ deadAge = 0 /\ torn = FALSE

-----------------------------------------------------------------------------
(* The service.  A restart forgets the consent and changes the token, which *)
(* the running bridge then fails to present: it is gone for good.           *)

ServiceChanges ==
  /\ service # "gone"
  /\ service' \in (Levels \cup {"gone"}) \ {service}
  /\ consentAge' = IF Consents(service') THEN 0 ELSE consentAge
  /\ UNCHANGED <<fetch, latest, main, gate, overlay, record, lock, cached, drove,
                 deadAge, torn>>

-----------------------------------------------------------------------------
(* The transport thread: one request after the other.                      *)

Requests ==
  /\ Alive /\ fetch.pc = "idle"
  /\ fetch' = [Idle EXCEPT !.pc = "sent"]
  /\ UNCHANGED <<service, consentAge, latest, main, gate, overlay, record, lock, cached,
                 drove, deadAge, torn>>

\* SteamVRController.frame: the flags as they are when the service answers.
ServiceAnswers ==
  /\ Alive /\ fetch.pc = "sent" /\ service # "gone"
  /\ fetch' = [fetch EXCEPT !.pc = "answered", !.level = service]
  /\ UNCHANGED <<service, consentAge, latest, main, gate, overlay, record, lock, cached,
                 drove, deadAge, torn>>

\* Request threw: no connection, wrong token, too large, out of its time budget.
RequestFails ==
  /\ Alive /\ fetch.pc \in {"sent", "answered"}
  /\ fetch' = Idle
  /\ UNCHANGED <<service, consentAge, latest, main, gate, overlay, record, lock, cached,
                 drove, deadAge, torn>>

\* DecodeFrame: not this protocol's header, size, dimensions or envelope.
RefusesFrame ==
  /\ Alive /\ fetch.pc = "answered"
  /\ fetch' = Idle
  /\ UNCHANGED <<service, consentAge, latest, main, gate, overlay, record, lock, cached,
                 drove, deadAge, torn>>

\* Mutant: a slow response is accepted.
ReceivesLate ==
  /\ Alive /\ fetch.pc = "answered"
  /\ latest' = [age |-> 0, level |-> fetch.level]
  /\ fetch' = Idle
  /\ UNCHANGED <<service, consentAge, main, gate, overlay, record, lock, cached, drove,
                 deadAge, torn>>
\* The body was read within the budget: `received' is the time of the end.
Receives ==
  /\ Alive /\ fetch.pc = "answered" /\ fetch.age <= Budget
  /\ latest' = [age |-> 0, level |-> fetch.level]
  /\ fetch' = Idle
  /\ UNCHANGED <<service, consentAge, main, gate, overlay, record, lock, cached, drove,
                 deadAge, torn>>

-----------------------------------------------------------------------------
(* The main loop: gate, publish, render.                                   *)

\* Mutant: without a recent frame the last flags stay in force.
GateKeepsLast ==
  /\ main \in {"gate", "rest"}
  /\ gate' = latest.level
  /\ main' = "publish"
  /\ UNCHANGED <<service, consentAge, fetch, latest, overlay, record, lock, cached, drove, deadAge, torn>>
\* recent, enabled and confirmed, fresh_content: each needs the one before.
Gates ==
  /\ main \in {"gate", "rest"}
  /\ gate' = IF latest.age <= Recent THEN latest.level ELSE "blocked"
  /\ main' = "publish"
  /\ UNCHANGED <<service, consentAge, fetch, latest, overlay, record, lock, cached, drove, deadAge, torn>>

Written == [age |-> 0, valid |-> Consents(gate), whole |-> TRUE]

AfterPublish == IF main = "closing" THEN "closed" ELSE "render"

\* PoseChannel::Publish with the mutex, free or abandoned: memcpy has begun.
PublishBegins ==
  /\ main \in {"publish", "closing"} /\ lock \in {"free", "abandoned"}
  /\ lock' = "bridge"
  /\ record' \in Partial(record, Written)
  /\ UNCHANGED <<service, consentAge, fetch, latest, main, gate, overlay, cached, drove,
                 deadAge, torn>>

PublishEnds ==
  /\ main \in {"publish", "closing"} /\ lock = "bridge"
  /\ record' = Written
  /\ lock' = "free"
  /\ main' = AfterPublish
  /\ UNCHANGED <<service, consentAge, fetch, latest, gate, overlay, cached, drove,
                 deadAge, torn>>

\* The driver owns the mutex at this instant: the record stays as it was.
PublishMisses ==
  /\ main \in {"publish", "closing"} /\ lock = "free"
  /\ main' = AfterPublish
  /\ UNCHANGED <<service, consentAge, fetch, latest, gate, overlay, record, lock, cached,
                 drove, deadAge, torn>>

\* Mutant: the overlay is hidden only when a new frame says so.
RenderKeepsOverlay ==
  /\ main = "render"
  /\ overlay' \in IF gate = "live" THEN BOOLEAN ELSE {overlay}
  /\ main' = "rest"
  /\ UNCHANGED <<service, consentAge, fetch, latest, gate, record, lock, cached, drove,
                 deadAge, torn>>
\* With fresh content and a tracker the new texture is uploaded, unless
\* OpenVR refuses it; in every other case the overlay is hidden.
Renders ==
  /\ main = "render"
  /\ overlay' \in {FALSE, gate = "live"}
  /\ main' = "rest"
  /\ UNCHANGED <<service, consentAge, fetch, latest, gate, record, lock, cached, drove,
                 deadAge, torn>>

\* Ctrl+C or VREvent_Quit: publish an invalid record, hide the overlay.
Quits ==
  /\ main \in {"gate", "rest"}
  /\ gate' = "blocked" /\ main' = "closing"
  /\ UNCHANGED <<service, consentAge, fetch, latest, overlay, record, lock, cached, drove, deadAge, torn>>

GoesDown ==
  /\ main' = "dead" /\ overlay' = FALSE
  /\ fetch' = Idle
  /\ latest' = Nothing /\ gate' = "blocked"
  /\ deadAge' = 0
  /\ UNCHANGED <<service, consentAge, record, cached, drove>>

Exits ==
  /\ main = "closed"
  /\ GoesDown
  /\ UNCHANGED <<lock, torn>>

\* Mutant: the lock is a flag in shared memory.
DiesHoldingLock ==
  /\ Alive /\ main # "closed"
  /\ GoesDown
  /\ torn' = (torn \/ lock = "bridge")
  /\ UNCHANGED lock
\* The process is killed, or an exception ends Run: its overlay goes, its mutex is abandoned.
Dies ==
  /\ Alive /\ main # "closed"
  /\ GoesDown
  /\ lock' = IF lock = "bridge" THEN "abandoned" ELSE lock
  /\ torn' = (torn \/ lock = "bridge")

\* A new bridge, given the token of the service that runs now.
Restarts ==
  /\ ~Alive
  /\ service' = IF service = "gone" THEN "blocked" ELSE service
  /\ main' = "publish"
  /\ UNCHANGED <<consentAge, fetch, latest, gate, overlay, record, lock, cached, drove, deadAge, torn>>

-----------------------------------------------------------------------------
(* The driver.                                                             *)

\* Mutant: the record is copied without the mutex.
ReadsUnlocked ==
  IF Fresh(record) THEN record ELSE cached
\* Read: never waits.  An abandoned mutex is released and this read fails;
\* GetPose keeps the cached record.
Reads ==
  IF lock = "free" /\ Fresh(record) THEN record ELSE cached

RunFrame ==
  /\ cached' = Reads
  /\ lock' = IF lock = "abandoned" THEN "free" ELSE lock
  /\ drove' = TRUE
  /\ UNCHANGED <<service, consentAge, fetch, latest, main, gate, overlay, record, deadAge, torn>>

\* vrserver restarts: a new driver has no record.
DriverReloads ==
  /\ cached' = NoRecord
  /\ UNCHANGED <<service, consentAge, fetch, latest, main, gate, overlay, record, lock, drove, deadAge, torn>>

-----------------------------------------------------------------------------
\* A tick is long against one turn of the main loop (11 ms) and one driver
\* frame: both have run since the last one.  The transport may be slow.
Tick ==
  /\ drove /\ main \in {"rest", "dead"}
  /\ drove' = FALSE /\ main' = IF Alive THEN "gate" ELSE main
  /\ consentAge' = IF Consents(service) THEN 0 ELSE Older(consentAge, Longest)
  /\ fetch' = [fetch EXCEPT !.age = IF fetch.pc = "idle" THEN 0 ELSE Older(@, Budget)]
  /\ latest' = [latest EXCEPT !.age = Older(@, Recent)]
  /\ record' = [record EXCEPT !.age = Older(@, PoseFresh)]
  /\ cached' = [cached EXCEPT !.age = Older(@, PoseFresh)]
  /\ deadAge' = IF Alive THEN 0 ELSE Older(deadAge, PoseFresh)
  /\ UNCHANGED <<service, gate, overlay, lock, torn>>

Transport == Requests \/ ServiceAnswers \/ RequestFails \/ RefusesFrame \/ Receives
MainLoop == Gates \/ PublishBegins \/ PublishEnds \/ PublishMisses \/ Renders \/ Exits

Next ==
  \/ ServiceChanges \/ Transport \/ MainLoop \/ Quits \/ Dies \/ Restarts
  \/ RunFrame \/ DriverReloads \/ Tick

Spec == Init /\ [][Next]_vars

-----------------------------------------------------------------------------
\* The type invariant, with the lock's: only a bridge that is writing holds it.
TypeOK ==
  /\ service \in Levels \cup {"gone"} /\ consentAge \in Age(Longest)
  /\ fetch \in [pc : {"idle", "sent", "answered"}, age : Age(Budget), level : Levels]
  /\ latest \in [age : Age(Recent), level : Levels]
  /\ main \in {"gate", "publish", "render", "rest", "closing", "closed", "dead"}
  /\ gate \in Levels /\ overlay \in BOOLEAN
  /\ record \in Record /\ cached \in Record
  /\ lock \in {"free", "bridge", "abandoned"}
  /\ (lock = "bridge") => main \in {"publish", "closing"}
  /\ drove \in BOOLEAN /\ deadAge \in Age(PoseFresh) /\ torn \in BOOLEAN

\* SteamVR is never shown a keyboard pose longer after the operator withdrew
\* consent than the three freshness limits add up to, whatever is slow, lost,
\* restarted or dead between the service and the driver; and the overlay no
\* longer than the request's and the frame's limits, one turn of the main
\* loop included (bridge/src/main.cpp:176, 360-364, 394, 418;
\* common/pose_channel.h:78).
ShownWithConsent ==
  /\ DriverShows /\ cached.whole => consentAge <= Longest
  /\ overlay /\ main \in {"gate", "rest"} => consentAge <= Budget + Recent + 1

\* A dead bridge's keyboard disappears, with no step of the bridge's own and
\* with its record half-written (common/pose_channel.h:52-54, 75-81).
DeadBridgeExpires == ~Alive /\ deadAge > PoseFresh => ~DriverShows

\* The driver shows no pose put together from two records, unless a bridge died
\* while it wrote (driver/src/driver.cpp:45-46, common/pose_channel.h:65-73).
PoseIsWhole == DriverShows => cached.whole \/ torn
=============================================================================
