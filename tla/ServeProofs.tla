---------------------------- MODULE ServeProofs ----------------------------
(***************************************************************************)
(* Around the running service, for any ports, processes, command lines and *)
(* numbers of starts and requests: the settings of a service and its       *)
(* restart flag, and the search for a service that runs already.  For any  *)
(* sessions, sources, threads and times to live: the renderer is shown the *)
(* newest state or nothing, and no session comes back.  And for any keys,  *)
(* samples, weights, frames and settings of the mapping: what is lit is    *)
(* lit by fingertips, and both readers take what is emitted.               *)
(***************************************************************************)
EXTENDS MCServe, Sequences, SequenceTheorems, FiniteSetTheorems, WellFoundedInduction, TLAPS

-----------------------------------------------------------------------------
(* SceneAdapter.                                                           *)

\* What the adapter knows agrees with what it was told: it has heard of the
\* sessions it left and of the one it follows, whose highest number is the
\* last one claimed, and what it would show is the state of that number.
Knows ==
  /\ session \notin retired
  /\ heard = retired \cup ({session} \ {None})
  /\ session # None => newest.sequence \in Nat /\ last = newest.sequence + 1
  /\ latest # None =>
       /\ newest.body \in Sources
       /\ newest.sequence = latest.sequence /\ newest.at = latest.at

IInv == TypeOK /\ Knows /\ NewestOrNothing

\* A latest state that has not expired is the latest state (_snapshot_locked).
LEMMA UnexpiredIsLatest ==
  ASSUME NEW at, Unexpired(at) # None
  PROVE  Unexpired(at) = latest /\ ~(at >= latest.at + Ttl)
BY DEF Unexpired

LEMMA InitHolds == ASSUME Init PROVE IInv
BY AdapterAssumption DEF Init, IInv, TypeOK, Knows, NewestOrNothing, Call, Latest, Bodies

\* One ingest, once it has the lock, keeps what the adapter knows: a late or
\* repeated state changes neither the number claimed nor the newest state.
LEMMA IngestKeeps ==
  ASSUME IInv, NEW r \in Receivers, Ingests(r)
  PROVE  IInv' /\ (session' # session => session' \notin heard)
<1> DEFINE c == calls[r]
<1> USE AdapterAssumption
<1>1. /\ c \in Call /\ c # None
      /\ Notes(c) /\ shown' = None /\ now' = now /\ asking' = asking
      /\ calls' = [calls EXCEPT ![r] = None]
  BY DEF Ingests, IInv, TypeOK
<1>2. /\ c.session \in Sessions \cup {None} /\ c.sequence \in 0 .. MaxSequence
      /\ c.body \in Bodies /\ c.at \in 0 .. MaxNow
  BY <1>1 DEF Call
<1>3. calls' \in [Receivers -> Call \cup {None}]
  BY <1>1 DEF IInv, TypeOK
<1>4. NewestOrNothing'
  BY <1>1 DEF NewestOrNothing
<1>5. CASE Invalid(c) \/ Retired(c) \/ Old(c)
  <2>1. UNCHANGED <<session, retired, last, source>>
    BY <1>5 DEF Invalid, Retired, Old
  <2>2. latest' = None \/ latest' = latest
    BY <1>5, UnexpiredIsLatest DEF Invalid, Retired, Old
  <2>3. newest' = newest
    BY <1>1, <1>2, <1>5, <2>1 DEF Invalid, Retired, Old, Notes, IInv, TypeOK, Knows
  <2>4. heard' = heard
    BY <1>1, <1>2, <1>5, <2>1 DEF Invalid, Retired, Old, Notes, IInv, TypeOK, Knows
  <2>5. Knows'
    BY <2>1, <2>2, <2>3, <2>4 DEF IInv, Knows
  <2>6. TypeOK'
    BY <1>1, <1>3, <2>1, <2>2, <2>3, <2>4 DEF IInv, TypeOK
  <2> QED BY <1>4, <2>1, <2>5, <2>6 DEF IInv
<1>6. CASE Clears(c) \/ Accepts(c)
  <2>1. Claims(c) /\ last' = c.sequence + 1
    BY <1>6 DEF Clears, Accepts, Advances
  <2>2. /\ c.session \in Sessions /\ session' = c.session /\ c.session \notin retired'
        /\ retired' \subseteq Sessions /\ retired' \cup {session'} = retired \cup ({session} \ {None}) \cup {c.session}
    BY <1>2, <2>1 DEF Claims, IInv, TypeOK, Knows
  <2>3. newest' = [sequence |-> c.sequence, body |-> c.body, at |-> c.at]
    <3>1. CASE session' = session
      <4>1. c.sequence >= last /\ last = newest.sequence + 1 /\ newest.sequence \in Nat
        BY <1>2, <2>1, <2>2, <3>1 DEF Claims, IInv, TypeOK, Knows
      <4> QED BY <1>1, <1>2, <2>2, <3>1, <4>1 DEF Notes
    <3>2. CASE session' # session
      BY <1>1, <2>2, <3>2 DEF Notes
    <3> QED BY <3>1, <3>2
  <2>4. heard' = retired' \cup ({session'} \ {None})
    BY <1>1, <2>2 DEF Notes, IInv, Knows
  <2>5. \/ latest' = None
        \/ latest' = [sequence |-> c.sequence, at |-> c.at] /\ c.body \in Sources
    BY <1>6 DEF Clears, Accepts
  <2>6. source' \in Sources \cup {None}
    BY <1>2, <1>6 DEF Clears, Accepts, SourceOf, IInv, TypeOK
  <2>7. Knows'
    BY <1>2, <2>1, <2>2, <2>3, <2>4, <2>5 DEF Knows
  <2>8. /\ latest' \in Latest \cup {None} /\ last' \in 0 .. MaxSequence + 1
        /\ newest' \in [sequence : 0 .. MaxSequence, body : Bodies, at : 0 .. MaxNow]
    BY <1>2, <2>1, <2>3, <2>5 DEF Latest
  <2>9. TypeOK'
    BY <1>1, <1>3, <2>2, <2>4, <2>6, <2>8 DEF IInv, TypeOK
  <2>10. session' # session => session' \notin heard
    BY <2>1 DEF Claims, IInv, Knows
  <2> QED BY <1>4, <2>7, <2>9, <2>10 DEF IInv
<1> QED BY <1>5, <1>6 DEF Ingests

\* A snapshot shows the latest state, or nothing once that has expired.
LEMMA AnswerKeeps ==
  ASSUME IInv, Answers
  PROVE  IInv'
<1> USE AdapterAssumption
<1>1. /\ asking \in 0 .. MaxNow /\ latest' = Unexpired(asking)
      /\ shown' = [at |-> asking, state |-> latest'] /\ asking' = None
      /\ UNCHANGED <<now, session, retired, last, source, calls, heard, newest>>
  BY DEF Answers, Shows, IInv, TypeOK
<1>2. latest' # None => latest' = latest /\ asking < latest.at + Ttl
  <2>1. CASE latest' = None
    BY <2>1
  <2>2. CASE latest' # None
    <3>1. latest' = latest /\ latest \in Latest /\ ~(asking >= latest.at + Ttl)
      BY <1>1, <2>2, UnexpiredIsLatest DEF IInv, TypeOK
    <3> QED BY <1>1, <3>1 DEF Latest
  <2> QED BY <2>1, <2>2
<1>3. Knows' /\ latest' \in Latest \cup {None}
  BY <1>1, <1>2 DEF IInv, Knows, TypeOK
<1>4. NewestOrNothing'
  BY <1>1, <1>2 DEF IInv, Knows, NewestOrNothing
<1>5. TypeOK'
  BY <1>1, <1>3 DEF IInv, TypeOK
<1> QED BY <1>3, <1>4, <1>5 DEF IInv

\* Every step keeps the invariant, and moves to no session heard of.
LEMMA StepKeeps ==
  ASSUME IInv, [Next]_vars
  PROVE  IInv' /\ (session' # session => session' \notin heard)
<1> USE AdapterAssumption
<1>1. CASE Ticks
  BY <1>1 DEF Ticks, adapter, IInv, TypeOK, Knows, NewestOrNothing
<1>2. CASE Asks
  BY <1>2 DEF Asks, adapter, IInv, TypeOK, Knows, NewestOrNothing
<1>3. CASE Answers
  BY <1>3, AnswerKeeps DEF Answers
<1>4. ASSUME NEW r \in Receivers, Calls(r)
      PROVE  IInv' /\ session' = session
  BY <1>4 DEF Calls, adapter, IInv, TypeOK, Knows, NewestOrNothing
<1>5. ASSUME NEW r \in Receivers, Ingests(r)
      PROVE  IInv' /\ (session' # session => session' \notin heard)
  BY <1>5, IngestKeeps
<1>6. CASE UNCHANGED vars
  BY <1>6 DEF vars, adapter, IInv, TypeOK, Knows, NewestOrNothing
<1> QED BY <1>1, <1>2, <1>3, <1>4, <1>5, <1>6 DEF Next

LEMMA Invariance == Spec => []IInv
<1>1. Init => IInv
  BY InitHolds
<1>2. IInv /\ [Next]_vars => IInv'
  BY StepKeeps
<1> QED BY <1>1, <1>2, PTL DEF Spec

\* The variables of the adapter and of its callers keep their types.
THEOREM AdapterTypeCorrect == Spec => []TypeOK
<1>1. IInv => TypeOK
  BY DEF IInv
<1> QED BY <1>1, Invariance, PTL

\* The renderer is shown the newest state of the active session within its
\* time to live, or nothing, in whatever order the calls get the lock
\* (state_adapter.py:248-257, 316-322).
THEOREM ShownIsNewest == Spec => []NewestOrNothing
<1>1. IInv => NewestOrNothing
  BY DEF IInv
<1> QED BY <1>1, Invariance, PTL

\* The adapter never goes back to a session it has heard of
\* (state_adapter.py:296-315).
THEOREM NoSessionReturns == Spec => SessionsNeverReturn
<1>1. IInv /\ [Next]_vars => [session' # session => session' \notin heard]_vars
  BY StepKeeps
<1> QED BY <1>1, Invariance, PTL DEF Spec, SessionsNeverReturn

-----------------------------------------------------------------------------
(* ServiceStartup: configurations.                                         *)

Fields == {"port", "camera", "view"}

\* A configuration is a value for each of the three fields.
LEMMA ConfigFields ==
  ASSUME NEW c
  PROVE  c \in Services!Config <=>
           /\ c = [f \in Fields |-> c[f]]
           /\ c["port"] \in Services!Ports
           /\ c["camera"] \in Values /\ c["view"] \in Values
BY DEF Services!Config, Fields

\* What an override file leaves out comes from the base configuration.
LEMMA BaseIsConfig == Services!Base \in Services!Config
<1>1. Head(AutoPorts) \in Services!Ports
  <2>1. AutoPorts \in Seq(Nat) /\ AutoPorts # <<>>
    BY ServicesAssumption DEF Services!ServiceAssumption
  <2>2. Head(AutoPorts) = AutoPorts[1] /\ 1 \in DOMAIN AutoPorts
    BY <2>1
  <2> QED BY <2>2 DEF Services!Ports, Services!Range
<1>2. (CHOOSE v \in Values : TRUE) \in Values
  BY ServicesAssumption DEF Services!ServiceAssumption
<1> QED BY <1>1, <1>2 DEF Services!Base, Services!Config

\* A whole configuration in the override file is the configuration loaded
\* (core/config.py:load_config).
LEMMA WholeFileLoads ==
  ASSUME NEW o, o = [f \in Fields |-> o[f]]
  PROVE  Services!Loaded(o) = o
BY BaseIsConfig, ConfigFields DEF Services!Loaded, Services!Over, Fields

LEMMA NoFileLoads == Services!Loaded(<<>>) = Services!Base
<1>1. DOMAIN <<>> = {}
  OBVIOUS
<1> QED BY <1>1, BaseIsConfig, ConfigFields DEF Services!Loaded, Services!Over

\* Some of the fields, with values they may have.
Fits(c) ==
  /\ DOMAIN c \subseteq Fields
  /\ "port" \in DOMAIN c => c["port"] \in Services!Ports
  /\ "camera" \in DOMAIN c => c["camera"] \in Values
  /\ "view" \in DOMAIN c => c["view"] \in Values

LEMMA LegalFits == ASSUME NEW c \in Services!LegalChanges PROVE Fits(c)
<1>1. PICK S \in SUBSET Fields : c \in [S -> Services!Ports \cup Values]
  BY DEF Services!LegalChanges, Services!Changes, Services!Changed, Fields
<1>2. DOMAIN c = S
  BY <1>1
<1>3. Services!Over(c, Services!Base) \in Services!Config
  BY DEF Services!LegalChanges
<1>4. DOMAIN Services!Base = Fields
  BY BaseIsConfig, ConfigFields
<1>5. \A f \in S : Services!Over(c, Services!Base)[f] = c[f]
  BY <1>2 DEF Services!Over
<1>6. /\ Services!Over(c, Services!Base)["port"] \in Services!Ports
      /\ Services!Over(c, Services!Base)["camera"] \in Values
      /\ Services!Over(c, Services!Base)["view"] \in Values
  BY <1>3, ConfigFields
<1> QED BY <1>2, <1>5, <1>6 DEF Fits

LEMMA OneFieldFits ==
  ASSUME NEW v \in Values
  PROVE  Fits(Services!Only("camera", v)) /\ Fits(Services!Only("view", v))
BY DEF Fits, Services!Only, Fields

\* Changes on top of a configuration are a configuration (settings.py:save),
\* and what is loaded of it is itself.
LEMMA MergedIsConfig ==
  ASSUME NEW c, Fits(c), NEW d \in Services!Config
  PROVE  /\ Services!Over(c, d) \in Services!Config
         /\ Services!Loaded(Services!Over(c, d)) = Services!Over(c, d)
<1> DEFINE o == Services!Over(c, d)
<1>1. DOMAIN d = Fields
  BY ConfigFields
<1>2. o = [f \in Fields |-> IF f \in DOMAIN c THEN c[f] ELSE d[f]]
  BY <1>1 DEF Fits, Services!Over
<1>3. d["port"] \in Services!Ports /\ d["camera"] \in Values /\ d["view"] \in Values
  BY ConfigFields
<1>4. o["port"] \in Services!Ports /\ o["camera"] \in Values /\ o["view"] \in Values
  BY <1>2, <1>3 DEF Fits, Fields
<1>5. o = [f \in Fields |-> o[f]]
  BY <1>2
<1> HIDE DEF o
<1>6. o \in Services!Config
  BY <1>4, <1>5, ConfigFields
<1> QED BY <1>5, <1>6, WholeFileLoads DEF o

LEMMA RequestedIsConfig ==
  ASSUME NEW o, Services!Loaded(o) \in Services!Config, NEW c \in Commands
  PROVE  /\ Services!Requested(c, o) \in Services!Config
         /\ c.port # None => Services!Requested(c, o).port = c.port
<1>1. c.port \in Services!Ports \cup {None}
  BY ServicesAssumption DEF Services!ServiceAssumption
<1> QED BY <1>1 DEF Services!Requested, Services!Config

-----------------------------------------------------------------------------
(* The restart flag.                                                       *)

Before == {"looking", "asking", "reserving", "building"}
Phases == Before \cup {"off", "serving", "reused", "refused"}

SettingsTyped ==
  /\ Services!Loaded(override) \in Services!Config
  /\ phase \in [Procs -> Phases]
  /\ cmd \in [Procs -> Commands \cup {None}]
  /\ active \in [Procs -> Services!Config \cup {None}]
  /\ configured \in [Procs -> Services!Config \cup {None}]
  /\ restart \in [Procs -> BOOLEAN]
  /\ live \in [Procs -> [field : {"camera", "view"}, value : Values] \cup {None}]
  /\ behind \subseteq Procs

\* A process that was started has a command line and a configuration, whose
\* port is the one of the command line if that has one.
HasSettings(p) ==
  phase[p] # "off" =>
    /\ cmd[p] \in Commands /\ active[p] \in Services!Config
    /\ cmd[p].port # None => active[p].port = cmd[p].port

\* What it will run with is what it would load now, unless another process has
\* written the file.
StartsCurrent(p) ==
  phase[p] \in Before /\ p \notin behind =>
    active[p] = Services!Requested(cmd[p], override)

\* While it serves, the flag compares what is configured with what it runs
\* with, and what is configured is the file, with or without the command
\* line's port.
FlagCompares(p) ==
  phase[p] = "serving" =>
    /\ configured[p] \in Services!Config
    /\ restart[p] <=> configured[p] # active[p]
    /\ p \notin behind =>
         configured[p] \in {Services!Loaded(override), Services!Requested(cmd[p], override)}

LiveServes(p) == live[p] # None => phase[p] = "serving"

SettingsOf(p) == HasSettings(p) /\ StartsCurrent(p) /\ FlagCompares(p) /\ LiveServes(p)

SettingsInv == SettingsTyped /\ \A p \in Procs : SettingsOf(p)

LEMMA SettingsInit == Services!ServiceInit => SettingsInv
<1> SUFFICES ASSUME Services!ServiceInit PROVE SettingsInv
  OBVIOUS
<1>1. Services!Loaded(override) \in Services!Config
  <2>1. CASE override = <<>>
    BY <2>1, NoFileLoads, BaseIsConfig
  <2>2. CASE override \in [{"port"} -> OtherPorts]
    <3>1. Fits(override)
      BY <2>2 DEF Fits, Fields, Services!Ports
    <3> QED BY <3>1, MergedIsConfig, BaseIsConfig DEF Services!Loaded
  <2> QED BY <2>1, <2>2 DEF Services!ServiceInit
<1>2. /\ phase = [p \in Procs |-> "off"] /\ cmd = [p \in Procs |-> None]
      /\ active = cmd /\ configured = cmd /\ live = cmd
      /\ restart = [p \in Procs |-> FALSE] /\ behind = {}
  BY DEF Services!ServiceInit
<1>3. SettingsTyped
  BY <1>1, <1>2 DEF SettingsTyped, Phases, Before
<1>4. \A p \in Procs : SettingsOf(p)
  BY <1>2 DEF SettingsOf, HasSettings, StartsCurrent, FlagCompares, LiveServes, Before
<1> QED BY <1>3, <1>4 DEF SettingsInv

\* A search changes no settings (main.py:_serve).
LEMMA SearchKeepsSettings ==
  ASSUME SettingsInv, UNCHANGED <<cmd, Services!settings>>,
         phase' \in [Procs -> Phases],
         \A q \in Procs : \/ phase'[q] = phase[q]
                          \/ phase[q] \in Before /\ phase'[q] \in Before \cup {"reused", "refused"}
  PROVE  SettingsInv'
<1>1. UNCHANGED <<override, cmd, active, configured, restart, live, behind>>
  BY DEF Services!settings
<1>2. SettingsTyped'
  BY <1>1 DEF SettingsInv, SettingsTyped
<1>3. ASSUME NEW q \in Procs PROVE SettingsOf(q)'
  <2>1. SettingsOf(q)
    BY DEF SettingsInv
  <2>2. HasSettings(q)' /\ StartsCurrent(q)'
    BY <1>1, <2>1 DEF SettingsOf, HasSettings, StartsCurrent, Before, Services!Requested, Services!Loaded
  <2>3. FlagCompares(q)' /\ LiveServes(q)'
    BY <1>1, <2>1 DEF SettingsOf, FlagCompares, LiveServes, Before, Services!Requested, Services!Loaded
  <2> QED BY <2>2, <2>3 DEF SettingsOf
<1> QED BY <1>2, <1>3 DEF SettingsInv

LEMMA StartKeepsSettings ==
  ASSUME SettingsInv, NEW p \in Procs, Services!Starts(p)
  PROVE  SettingsInv'
<1>1. PICK c \in Commands :
        /\ cmd' = [cmd EXCEPT ![p] = c]
        /\ active' = [active EXCEPT ![p] = Services!Requested(c, override)]
        /\ phase' = [phase EXCEPT ![p] = IF c.strict THEN "asking" ELSE "looking"]
  BY DEF Services!Starts, Services!Goes
<1>2. /\ UNCHANGED <<override, configured, restart, live>>
      /\ behind' = behind \ {p} /\ phase[p] = "off"
  BY DEF Services!Starts
<1>3. /\ Services!Requested(c, override) \in Services!Config
      /\ c.port # None => Services!Requested(c, override).port = c.port
  BY RequestedIsConfig DEF SettingsInv, SettingsTyped
<1>4. SettingsTyped'
  BY <1>1, <1>2, <1>3 DEF SettingsInv, SettingsTyped, Phases, Before
<1>5. ASSUME NEW q \in Procs PROVE SettingsOf(q)'
  <2>1. SettingsOf(q)
    BY DEF SettingsInv
  <2>2. CASE q = p
    <3>1. cmd'[q] = c /\ active'[q] = Services!Requested(c, override) /\ phase'[q] \in Before
      BY <1>1, <2>2 DEF SettingsInv, SettingsTyped, Before
    <3>2. live'[q] = None
      BY <1>2, <2>1, <2>2 DEF SettingsOf, LiveServes
    <3> QED
      BY <1>2, <1>3, <3>1, <3>2
      DEF SettingsOf, HasSettings, StartsCurrent, FlagCompares, LiveServes, Before,
          Services!Requested, Services!Loaded
  <2>3. CASE q # p
    <3>1. cmd'[q] = cmd[q] /\ active'[q] = active[q] /\ phase'[q] = phase[q]
      BY <1>1, <2>3 DEF SettingsInv, SettingsTyped
    <3> QED
      BY <1>2, <2>1, <2>3, <3>1
      DEF SettingsOf, HasSettings, StartsCurrent, FlagCompares, LiveServes,
          Services!Requested, Services!Loaded
  <2> QED BY <2>2, <2>3
<1> QED BY <1>4, <1>5 DEF SettingsInv

LEMMA ServeKeepsSettings ==
  ASSUME SettingsInv, NEW p \in Procs, Services!Serves(p)
  PROVE  SettingsInv'
<1>1. /\ phase' = [phase EXCEPT ![p] = "serving"]
      /\ configured' = [configured EXCEPT ![p] = active[p]]
      /\ restart' = [restart EXCEPT ![p] = FALSE]
      /\ UNCHANGED <<cmd, override, active, live, behind>> /\ phase[p] = "building"
  BY DEF Services!Serves, Services!Goes
<1>2. SettingsTyped'
  <2>1. active[p] \in Services!Config \cup {None}
    BY DEF SettingsInv, SettingsTyped
  <2>2. restart' \in [Procs -> BOOLEAN]
    BY <1>1, Zenon DEF SettingsInv, SettingsTyped
  <2> QED BY <1>1, <2>1, <2>2 DEF SettingsInv, SettingsTyped, Phases, Before
<1>3. ASSUME NEW q \in Procs PROVE SettingsOf(q)'
  <2>1. SettingsOf(q)
    BY DEF SettingsInv
  <2>2. CASE q = p
    <3>1. phase'[q] = "serving" /\ configured'[q] = active[q] /\ ~restart'[q]
      BY <1>1, <2>2 DEF SettingsInv, SettingsTyped
    <3>2. /\ cmd[q] \in Commands /\ active[q] \in Services!Config
          /\ cmd[q].port # None => active[q].port = cmd[q].port
          /\ q \notin behind => active[q] = Services!Requested(cmd[q], override)
      BY <1>1, <2>1, <2>2 DEF SettingsOf, HasSettings, StartsCurrent, Before
    <3> QED
      BY <1>1, <3>1, <3>2
      DEF SettingsOf, HasSettings, StartsCurrent, FlagCompares, LiveServes, Before,
          Services!Requested, Services!Loaded
  <2>3. CASE q # p
    <3>1. phase'[q] = phase[q] /\ configured'[q] = configured[q] /\ restart'[q] = restart[q]
      BY <1>1, <2>3 DEF SettingsInv, SettingsTyped
    <3> QED
      BY <1>1, <2>1, <3>1
      DEF SettingsOf, HasSettings, StartsCurrent, FlagCompares, LiveServes,
          Services!Requested, Services!Loaded
  <2> QED BY <2>2, <2>3
<1> QED BY <1>2, <1>3 DEF SettingsInv

LEMMA EndKeepsSettings ==
  ASSUME SettingsInv, NEW p \in Procs, Services!Ends(p)
  PROVE  SettingsInv'
<1>1. /\ phase' = [phase EXCEPT ![p] = "off"]
      /\ cmd' = [cmd EXCEPT ![p] = None] /\ active' = [active EXCEPT ![p] = None]
      /\ configured' = [configured EXCEPT ![p] = None] /\ live' = [live EXCEPT ![p] = None]
      /\ restart' = [restart EXCEPT ![p] = FALSE]
      /\ behind' = behind \ {p} /\ override' = override
  BY DEF Services!Ends, Services!Goes
<1>2. restart' \in [Procs -> BOOLEAN]
  BY <1>1, Zenon DEF SettingsInv, SettingsTyped
<1>3. SettingsTyped'
  BY <1>1, <1>2 DEF SettingsInv, SettingsTyped, Phases
<1>4. ASSUME NEW q \in Procs PROVE SettingsOf(q)'
  <2>1. SettingsOf(q)
    BY DEF SettingsInv
  <2>2. CASE q = p
    <3>1. phase'[q] = "off" /\ live'[q] = None
      BY <1>1, <2>2 DEF SettingsInv, SettingsTyped
    <3> QED
      BY <3>1 DEF SettingsOf, HasSettings, StartsCurrent, FlagCompares, LiveServes, Before
  <2>3. CASE q # p
    <3>1. /\ phase'[q] = phase[q] /\ configured'[q] = configured[q] /\ restart'[q] = restart[q]
          /\ cmd'[q] = cmd[q] /\ active'[q] = active[q] /\ live'[q] = live[q]
      BY <1>1, <2>3 DEF SettingsInv, SettingsTyped
    <3> QED
      BY <1>1, <2>1, <2>3, <3>1
      DEF SettingsOf, HasSettings, StartsCurrent, FlagCompares, LiveServes,
          Services!Requested, Services!Loaded
  <2> QED BY <2>2, <2>3
<1> QED BY <1>3, <1>4 DEF SettingsInv

\* A save replaces the file, which makes every other process's view of it old,
\* and its own when it cannot read it back (settings.py:_save_unlocked).
LEMMA WriteKeepsSettings ==
  ASSUME SettingsInv, NEW p \in Procs, phase[p] = "serving",
         NEW o, Services!Loaded(o) \in Services!Config,
         Services!Writes(p, o) \/ Services!WritesOnly(p, o),
         UNCHANGED <<phase, cmd, active>>,
         live' \in [Procs -> [field : {"camera", "view"}, value : Values] \cup {None}],
         \A q \in Procs : LiveServes(q)'
  PROVE  SettingsInv'
<1>1. override' = o /\ behind' \subseteq Procs
      /\ \A q \in Procs \ {p} : phase[q] # "off" => q \in behind'
  BY DEF Services!Writes, Services!WritesOnly
<1>2. \/ /\ configured' = [configured EXCEPT ![p] = Services!Loaded(o)]
         /\ restart' = [restart EXCEPT ![p] = Services!Loaded(o) # active[p]]
      \/ /\ UNCHANGED <<configured, restart>> /\ p \in behind'
  BY DEF Services!Writes, Services!WritesOnly, Services!ReadsBack
<1>3. restart' \in [Procs -> BOOLEAN]
  BY <1>2, Zenon DEF SettingsInv, SettingsTyped
<1>4. configured' \in [Procs -> Services!Config \cup {None}]
  BY <1>2 DEF SettingsInv, SettingsTyped
<1>5. SettingsTyped'
  <2>1. Services!Loaded(override)' \in Services!Config
    BY <1>1 DEF Services!Loaded
  <2>2. (Services!Loaded(override) \in Services!Config)'
    BY <2>1 DEF Services!Config
  <2> QED BY <1>1, <1>3, <1>4, <2>2 DEF SettingsInv, SettingsTyped
<1>6. ASSUME NEW q \in Procs PROVE SettingsOf(q)'
  <2>1. SettingsOf(q) /\ HasSettings(q)'
    BY DEF SettingsInv, SettingsOf, HasSettings
  <2>2. CASE q = p
    <3>1. StartsCurrent(q)'
      BY <2>2 DEF StartsCurrent, Before
    <3>2. FlagCompares(q)'
      <4>1. CASE UNCHANGED <<configured, restart>> /\ p \in behind'
        BY <2>1, <2>2, <4>1 DEF SettingsOf, FlagCompares
      <4>2. CASE /\ configured' = [configured EXCEPT ![p] = Services!Loaded(o)]
                 /\ restart' = [restart EXCEPT ![p] = Services!Loaded(o) # active[p]]
        <5>1. configured'[q] = Services!Loaded(o)
          BY <2>2, <4>2 DEF SettingsInv, SettingsTyped
        <5>2. restart'[q] = (Services!Loaded(o) # active[q])
          BY <2>2, <4>2, Zenon DEF SettingsInv, SettingsTyped
        <5>3. Services!Loaded(override)' = Services!Loaded(o)
          BY <1>1 DEF Services!Loaded
        <5> QED BY <5>1, <5>2, <5>3 DEF FlagCompares
      <4> QED BY <1>2, <4>1, <4>2
    <3> QED BY <2>1, <3>1, <3>2 DEF SettingsOf
  <2>3. CASE q # p
    <3>1. configured'[q] = configured[q]
      BY <1>2, <2>3 DEF SettingsInv, SettingsTyped
    <3>2. restart'[q] = restart[q]
      BY <1>2, <2>3, Zenon DEF SettingsInv, SettingsTyped
    <3>3. phase[q] # "off" => q \in behind'
      BY <1>1, <2>3
    <3>4. StartsCurrent(q)' /\ FlagCompares(q)'
      BY <2>1, <3>1, <3>2, <3>3 DEF SettingsOf, StartsCurrent, FlagCompares, Before
    <3> QED BY <2>1, <3>4 DEF SettingsOf
  <2> QED BY <2>2, <2>3
<1> QED BY <1>5, <1>6 DEF SettingsInv

\* A live change moves what the service runs with, and the flag with it
\* (settings.py:accept_active_camera, accept_active_view).
LEMMA AcceptKeepsSettings ==
  ASSUME SettingsInv, NEW p \in Procs, phase[p] = "serving",
         NEW field \in {"camera", "view"}, NEW value \in Values,
         Services!Accepts(p, field, value),
         UNCHANGED <<override, configured, behind, phase, cmd>>,
         live' \in [Procs -> [field : {"camera", "view"}, value : Values] \cup {None}],
         \A q \in Procs : LiveServes(q)'
  PROVE  SettingsInv'
<1>1. /\ active' = [active EXCEPT ![p][field] = value]
      /\ restart' = [restart EXCEPT ![p] = configured[p] # active'[p]]
  BY DEF Services!Accepts
<1>2. active[p] \in Services!Config
  BY DEF SettingsInv, SettingsOf, HasSettings
<1>3. /\ active'[p] = [active[p] EXCEPT ![field] = value]
      /\ \A q \in Procs \ {p} : active'[q] = active[q]
  BY <1>1 DEF SettingsInv, SettingsTyped
<1>4. active'[p] \in Services!Config /\ active'[p].port = active[p].port
  BY <1>2, <1>3 DEF Services!Config
<1>5. active' \in [Procs -> Services!Config \cup {None}]
  BY <1>1, <1>2, <1>4 DEF SettingsInv, SettingsTyped
<1>6. restart' \in [Procs -> BOOLEAN]
  BY <1>1, Zenon DEF SettingsInv, SettingsTyped
<1>7. restart'[p] = (configured[p] # active'[p])
  BY <1>1, Zenon DEF SettingsInv, SettingsTyped
<1>8. \A q \in Procs \ {p} : restart'[q] = restart[q]
  BY <1>1, Zenon DEF SettingsInv, SettingsTyped
<1>9. SettingsTyped'
  BY <1>5, <1>6 DEF SettingsInv, SettingsTyped, Services!Loaded
<1>10. ASSUME NEW q \in Procs PROVE SettingsOf(q)'
  <2>1. SettingsOf(q)
    BY DEF SettingsInv
  <2>2. CASE q = p
    BY <1>4, <1>7, <2>1, <2>2
    DEF SettingsOf, HasSettings, StartsCurrent, FlagCompares, Before,
        Services!Requested, Services!Loaded
  <2>3. CASE q # p
    <3>1. active'[q] = active[q] /\ restart'[q] = restart[q]
      BY <1>3, <1>8, <2>3
    <3> QED
      BY <2>1, <3>1
      DEF SettingsOf, HasSettings, StartsCurrent, FlagCompares,
          Services!Requested, Services!Loaded
  <2> QED BY <2>2, <2>3
<1> QED BY <1>9, <1>10 DEF SettingsInv

\* The requests of a serving process (web/settings.py, runtime_camera.py).
LEMMA RequestKeepsSettings ==
  ASSUME SettingsInv, NEW p \in Procs,
         \/ Services!EditsSettings(p) \/ Services!SwitchesCamera(p) \/ Services!SavesCamera(p)
         \/ Services!SwitchesView(p) \/ Services!AcceptsView(p)
  PROVE  SettingsInv'
<1>1. /\ phase[p] = "serving" /\ UNCHANGED <<phase, cmd>>
      /\ live \in [Procs -> [field : {"camera", "view"}, value : Values] \cup {None}]
      /\ \A q \in Procs : LiveServes(q)
  BY DEF Services!EditsSettings, Services!SwitchesCamera, Services!SavesCamera,
         Services!SwitchesView, Services!AcceptsView, SettingsInv, SettingsOf,
         SettingsTyped, LiveServes
<1>2. configured[p] \in Services!Config
  BY <1>1 DEF SettingsInv, SettingsOf, FlagCompares
<1>3. ASSUME NEW c, Fits(c)
      PROVE  Services!Loaded(Services!Merged(p, c)) \in Services!Config
  BY <1>2, <1>3, MergedIsConfig DEF Services!Merged
<1>4. ASSUME NEW v \in Values
      PROVE  /\ Services!Loaded(Services!Merged(p, Services!Only("camera", v))) \in Services!Config
             /\ Services!Loaded(Services!Merged(p, Services!Only("view", v))) \in Services!Config
  BY <1>3, OneFieldFits
<1>5. ASSUME \/ live' = live
             \/ live' = [live EXCEPT ![p] = None]
             \/ \E f \in {"camera", "view"}, v \in Values :
                  live' = [live EXCEPT ![p] = [field |-> f, value |-> v]]
      PROVE  /\ live' \in [Procs -> [field : {"camera", "view"}, value : Values] \cup {None}]
             /\ \A q \in Procs : LiveServes(q)'
  BY <1>1, <1>5 DEF LiveServes
<1>6. CASE Services!EditsSettings(p)
  <2>1. PICK o \in {Services!Merged(p, c) : c \in Services!LegalChanges} \cup {<<>>} :
          Services!Writes(p, o) \/ Services!WritesOnly(p, o)
    BY <1>6 DEF Services!EditsSettings
  <2>2. Services!Loaded(o) \in Services!Config
    BY <1>3, LegalFits, NoFileLoads, BaseIsConfig
  <2>3. UNCHANGED <<active, live>>
    BY <1>6 DEF Services!EditsSettings
  <2> QED BY <1>1, <1>5, <2>1, <2>2, <2>3, WriteKeepsSettings
<1>7. CASE Services!SwitchesCamera(p)
  <2>1. PICK v \in Values :
          /\ Services!Accepts(p, "camera", v)
          /\ live' = [live EXCEPT ![p] = [field |-> "camera", value |-> v]]
    BY <1>7 DEF Services!SwitchesCamera
  <2>2. UNCHANGED <<override, configured, behind>>
    BY <1>7 DEF Services!SwitchesCamera
  <2> QED BY <1>1, <1>5, <2>1, <2>2, AcceptKeepsSettings
<1>8. CASE Services!SavesCamera(p)
  <2>1. live[p].value \in Values
    BY <1>1, <1>8 DEF Services!SavesCamera
  <2>2. live' = [live EXCEPT ![p] = None] /\ active' = active
    BY <1>8 DEF Services!SavesCamera
  <2>3. CASE UNCHANGED <<override, configured, restart, behind>>
    BY <1>1, <1>5, <2>2, <2>3
    DEF SettingsInv, SettingsTyped, SettingsOf, HasSettings, StartsCurrent, FlagCompares,
        Services!Loaded, Services!Requested
  <2>4. DEFINE o == Services!Merged(p, Services!Only("camera", live[p].value))
  <2>5. CASE Services!Writes(p, o) \/ Services!WritesOnly(p, o)
    <3>1. Services!Loaded(o) \in Services!Config
      BY <1>4, <2>1
    <3> QED BY <1>1, <1>5, <2>2, <2>5, <3>1, WriteKeepsSettings
  <2> QED BY <1>8, <2>3, <2>5 DEF Services!SavesCamera
<1>9. CASE Services!SwitchesView(p)
  <2>1. PICK v \in Values :
          LET o == Services!Merged(p, Services!Only("view", v))
          IN \/ Services!Writes(p, o) /\ live' = [live EXCEPT ![p] = [field |-> "view", value |-> v]]
             \/ Services!WritesOnly(p, o) /\ UNCHANGED live
    BY <1>9 DEF Services!SwitchesView
  <2>2. active' = active
    BY <1>9 DEF Services!SwitchesView
  <2> QED BY <1>1, <1>4, <1>5, <2>1, <2>2, WriteKeepsSettings
<1>10. CASE Services!AcceptsView(p)
  <2>1. live[p].value \in Values /\ Services!Accepts(p, "view", live[p].value)
    BY <1>1, <1>10 DEF Services!AcceptsView
  <2>2. UNCHANGED <<override, configured, behind>> /\ live' = [live EXCEPT ![p] = None]
    BY <1>10 DEF Services!AcceptsView
  <2> QED BY <1>1, <1>5, <2>1, <2>2, AcceptKeepsSettings
<1> QED BY <1>6, <1>7, <1>8, <1>9, <1>10

\* The steps of a search and a reservation.
Searches(p) ==
  \/ Services!ProbesPort(p) \/ Services!AllAnswered(p) \/ Services!Reserves(p)
  \/ \E x \in Services!Ports : Services!IsAnswered(p, x) \/ Services!IsNotAnswered(p, x)

LEMMA SearchIsQuiet ==
  ASSUME phase \in [Procs -> Phases], NEW p \in Procs, Searches(p)
  PROVE  /\ UNCHANGED <<cmd, Services!settings, boots>>
         /\ phase' \in [Procs -> Phases]
         /\ phase[p] \in {"looking", "asking", "reserving"}
         /\ \A q \in Procs : \/ phase'[q] = phase[q]
                             \/ phase[q] \in Before /\ phase'[q] \in Before \cup {"reused", "refused"}
<1> USE DEF Phases, Before
<1>1. CASE Services!ProbesPort(p)
  BY <1>1 DEF Services!ProbesPort, Services!Advances, Services!Goes
<1>2. CASE Services!AllAnswered(p)
  BY <1>2 DEF Services!AllAnswered, Services!Goes
<1>3. CASE Services!Reserves(p)
  BY <1>3 DEF Services!Reserves, Services!Goes
<1>4. ASSUME NEW x \in Services!Ports, Services!IsAnswered(p, x)
      PROVE  UNCHANGED <<cmd, phase, Services!settings, boots>> /\ phase[p] = "asking"
  BY <1>4 DEF Services!IsAnswered
<1>5. ASSUME NEW x \in Services!Ports, Services!IsNotAnswered(p, x)
      PROVE  UNCHANGED <<cmd, phase, Services!settings, boots>> /\ phase[p] = "asking"
  BY <1>5 DEF Services!IsNotAnswered
<1> QED BY <1>1, <1>2, <1>3, <1>4, <1>5 DEF Searches

Requests(p) ==
  \/ Services!EditsSettings(p) \/ Services!SwitchesCamera(p) \/ Services!SavesCamera(p)
  \/ Services!SwitchesView(p) \/ Services!AcceptsView(p)

\* What a step of the services is.
LEMMA ServiceSteps ==
  ASSUME Services!ServiceNext
  PROVE  \/ \E p \in Procs :
              \/ Services!Starts(p) \/ Searches(p) \/ Services!Serves(p) \/ Services!Ends(p)
              \/ Requests(p)
         \/ Services!ForeignLeaves
BY DEF Services!ServiceNext, Searches, Requests

LEMMA SettingsUnchanged ==
  ASSUME SettingsInv, UNCHANGED <<phase, cmd, Services!settings>>
  PROVE  SettingsInv'
BY SearchKeepsSettings DEF SettingsInv, SettingsTyped

LEMMA StepKeepsSettings ==
  ASSUME SettingsInv, [MCNext]_<<follows, serviceVars, input, scene, vars>>
  PROVE  SettingsInv'
<1>1. CASE Services!ServiceNext
  <2>1. ASSUME NEW p \in Procs, Searches(p) PROVE SettingsInv'
    <3>1. phase \in [Procs -> Phases]
      BY DEF SettingsInv, SettingsTyped
    <3> QED BY <2>1, <3>1, SearchIsQuiet, SearchKeepsSettings
  <2>2. CASE Services!ForeignLeaves
    BY <2>2, SettingsUnchanged DEF Services!ForeignLeaves
  <2> QED
    BY <1>1, <2>1, <2>2, ServiceSteps, StartKeepsSettings, ServeKeepsSettings, EndKeepsSettings,
       RequestKeepsSettings DEF Requests
<1>2. CASE UNCHANGED serviceVars
  BY <1>2, SettingsUnchanged DEF serviceVars, Services!settings
<1> QED BY <1>1, <1>2 DEF MCNext

LEMMA SettingsInvariant == MCSpec => []SettingsInv
<1>1. MCInit => SettingsInv
  BY SettingsInit DEF MCInit
<1>2. SettingsInv /\ [MCNext]_<<follows, serviceVars, input, scene, vars>> => SettingsInv'
  BY StepKeepsSettings
<1> QED BY <1>1, <1>2, PTL DEF MCSpec

\* A service that asks for no restart would come up with just the settings it
\* runs with, and unless its command line overrides the port, one that asks for
\* a restart needs it (web/settings.py:453-460).
THEOREM FlagTellsTheTruth == MCSpec => []RestartFlagHonest
<1>1. SettingsInv => RestartFlagHonest
  <2> SUFFICES ASSUME SettingsInv, NEW p \in Procs, phase[p] = "serving", p \notin behind
               PROVE  LET needed == Services!Requested(cmd[p], override) # active[p]
                      IN (needed => restart[p]) /\ (restart[p] /\ cmd[p].port = None => needed)
    BY DEF RestartFlagHonest, Services!RestartFlagHonest
  <2>1. /\ cmd[p].port # None => active[p].port = cmd[p].port
        /\ active[p] \in Services!Config /\ configured[p] \in Services!Config
        /\ restart[p] <=> configured[p] # active[p]
        /\ configured[p] \in {Services!Loaded(override), Services!Requested(cmd[p], override)}
    BY DEF SettingsInv, SettingsOf, HasSettings, FlagCompares
  <2>2. cmd[p].port = None => Services!Requested(cmd[p], override) = Services!Loaded(override)
    BY DEF Services!Requested
  <2>3. Services!Loaded(override) = active[p] => Services!Requested(cmd[p], override) = active[p]
    BY <2>1 DEF Services!Requested, Services!Config
  <2> QED BY <2>1, <2>2, <2>3
<1> QED BY <1>1, SettingsInvariant, PTL

-----------------------------------------------------------------------------
(* The search for a running service.                                       *)

\* A preferred port of the range and the others: no port of it is left out
\* (binding.py:candidate_ports).
LEMMA PreferringIsWhole ==
  ASSUME NEW port \in Services!Range(AutoPorts)
  PROVE  /\ Services!Preferring(port) \in Seq(Services!Ports)
         /\ Len(Services!Preferring(port)) = Len(AutoPorts)
         /\ \A x \in Services!Range(AutoPorts) :
              \E j \in 1 .. Len(AutoPorts) : Services!Preferring(port)[j] = x
<1> DEFINE n == Len(AutoPorts)
           k == CHOOSE i \in DOMAIN AutoPorts : AutoPorts[i] = port
           front == SubSeq(AutoPorts, 1, k - 1)
           back == SubSeq(AutoPorts, k + 1, n)
           s == Services!Preferring(port)
<1>1. AutoPorts \in Seq(Nat)
  BY ServicesAssumption DEF Services!ServiceAssumption
<1>2. n \in Nat /\ DOMAIN AutoPorts = 1 .. n /\ k \in 1 .. n /\ AutoPorts[k] = port
  BY <1>1 DEF Services!Range
<1>3. \A i \in 1 .. n : AutoPorts[i] \in Services!Ports
  BY <1>2 DEF Services!Ports, Services!Range
<1> HIDE DEF n, k
<1>4. AutoPorts \in Seq(Services!Ports) /\ n = Len(AutoPorts)
  BY <1>1, <1>3 DEF n
<1>5. /\ front \in Seq(Services!Ports) /\ Len(front) = k - 1
      /\ \A i \in 1 .. k - 1 : front[i] = AutoPorts[i]
  BY <1>2, <1>4
<1>6. /\ back \in Seq(Services!Ports) /\ Len(back) = n - k
      /\ \A i \in 1 .. n - k : back[i] = AutoPorts[k + i]
  <2>1. k + 1 \in 1 .. n + 1 /\ n - (k + 1) + 1 = n - k /\ \A i \in 1 .. n - k : (k + 1) + i - 1 = k + i
    BY <1>2
  <2>2. \A i \in k + 1 .. n : AutoPorts[i] \in Services!Ports
    BY <1>2, <1>3
  <2>3. k + 1 <= n <=> n - k # 0
    BY <1>2
  <2>4. k + 1 \in Int /\ n \in Int
    BY <1>2
  <2>5. /\ back \in Seq(Services!Ports)
        /\ Len(back) = IF k + 1 <= n THEN n - (k + 1) + 1 ELSE 0
        /\ \A i \in 1 .. n - (k + 1) + 1 : back[i] = AutoPorts[(k + 1) + i - 1]
    BY <2>2, <2>4, SubSeqProperties
  <2> QED BY <1>2, <2>1, <2>3, <2>5
<1>7. s = <<port>> \o (front \o back)
  BY DEF Services!Preferring, Services!RemoveAt, k, n
<1> HIDE DEF front, back, s
<1>8. /\ front \o back \in Seq(Services!Ports) /\ Len(front \o back) = n - 1
      /\ \A i \in 1 .. k - 1 : (front \o back)[i] = AutoPorts[i]
      /\ \A i \in 1 .. n - k : (front \o back)[k - 1 + i] = AutoPorts[k + i]
  <2>1. /\ front \o back \in Seq(Services!Ports) /\ Len(front \o back) = (k - 1) + (n - k)
        /\ \A i \in 1 .. (k - 1) + (n - k) :
             (front \o back)[i] = IF i <= k - 1 THEN front[i] ELSE back[i - (k - 1)]
    <3> HIDE DEF front, back
    <3>1. /\ front \o back \in Seq(Services!Ports) /\ Len(front \o back) = Len(front) + Len(back)
          /\ \A i \in 1 .. Len(front) + Len(back) :
               (front \o back)[i] = IF i <= Len(front) THEN front[i] ELSE back[i - Len(front)]
      BY <1>5, <1>6, ConcatProperties
    <3> QED BY <1>5, <1>6, <3>1
  <2>2. \A i \in 1 .. k - 1 : i \in 1 .. (k - 1) + (n - k) /\ i <= k - 1
    BY <1>2
  <2>3. \A i \in 1 .. n - k :
          /\ k - 1 + i \in 1 .. (k - 1) + (n - k)
          /\ ~(k - 1 + i <= k - 1) /\ (k - 1 + i) - (k - 1) = i
    BY <1>2
  <2>4. (k - 1) + (n - k) = n - 1
    BY <1>2
  <2>5. front \o back \in Seq(Services!Ports) /\ Len(front \o back) = n - 1
    BY <2>1, <2>4
  <2>6. ASSUME NEW i \in 1 .. k - 1 PROVE (front \o back)[i] = AutoPorts[i]
    BY <1>5, <2>1, <2>2
  <2>7. ASSUME NEW i \in 1 .. n - k PROVE (front \o back)[k - 1 + i] = AutoPorts[k + i]
    <3>1. (front \o back)[k - 1 + i] = back[(k - 1 + i) - (k - 1)]
      BY <2>1, <2>3
    <3> QED BY <1>6, <2>3, <3>1
  <2> QED BY <2>5, <2>6, <2>7, Zenon
<1>9. <<port>> \in Seq(Services!Ports) /\ Len(<<port>>) = 1
  BY <1>2, <1>3
<1>10. /\ s \in Seq(Services!Ports) /\ Len(s) = n /\ s[1] = port
       /\ \A i \in 1 .. n - 1 : s[i + 1] = (front \o back)[i]
  BY <1>2, <1>7, <1>8, <1>9
<1>11. ASSUME NEW i \in 1 .. n PROVE \E j \in 1 .. n : s[j] = AutoPorts[i]
  <2>1. CASE i = k
    BY <1>2, <1>10, <2>1
  <2>2. CASE i < k
    <3>1. i \in 1 .. k - 1 /\ i \in 1 .. n - 1 /\ i + 1 \in 1 .. n
      BY <1>2, <2>2
    <3> QED BY <1>8, <1>10, <3>1
  <2>3. CASE i > k
    <3>1. i - k \in 1 .. n - k /\ i - 1 \in 1 .. n - 1 /\ k - 1 + (i - k) = i - 1
          /\ k + (i - k) = i /\ (i - 1) + 1 = i
      BY <1>2, <2>3
    <3>2. (front \o back)[i - 1] = AutoPorts[i]
      BY <1>8, <3>1
    <3> QED BY <1>10, <3>1, <3>2
  <2> QED BY <1>2, <2>1, <2>2, <2>3
<1>12. \A x \in Services!Range(AutoPorts) : \E i \in 1 .. n : AutoPorts[i] = x
  BY <1>2 DEF Services!Range
<1>13. \A x \in Services!Range(AutoPorts) : \E j \in 1 .. n : s[j] = x
  <2> TAKE x \in Services!Range(AutoPorts)
  <2>1. PICK i \in 1 .. n : AutoPorts[i] = x
    BY <1>12
  <2>2. PICK j \in 1 .. n : s[j] = AutoPorts[i]
    BY <1>11
  <2> QED BY <2>1, <2>2
<1>14. s = Services!Preferring(port)
  BY Zenon DEF s
<1> HIDE DEF s
<1> QED BY <1>4, <1>10, <1>13, <1>14, Zenon

\* s is the candidate list of a start of command c with this port in its settings.
Offers(c, port, s) ==
  /\ c.strict => s = <<port>>
  /\ ~c.strict /\ port \in Services!Range(AutoPorts) => s = Services!Preferring(port)
  /\ ~c.strict /\ port \notin Services!Range(AutoPorts) => s = AutoPorts

\* Candidates are ports, and an automatic start leaves out none of the range.
LEMMA CandidatesAreWhole ==
  ASSUME NEW c, NEW port \in Services!Ports, NEW s, Offers(c, port, s)
  PROVE  /\ s \in Seq(Services!Ports)
         /\ Len(s) \in 1 .. Len(AutoPorts)
         /\ ~c.strict => \A x \in Services!Range(AutoPorts) : \E j \in 1 .. Len(s) : s[j] = x
<1>1. AutoPorts \in Seq(Nat) /\ AutoPorts # <<>>
  BY ServicesAssumption DEF Services!ServiceAssumption
<1>2. Len(AutoPorts) \in Nat \ {0} /\ DOMAIN AutoPorts = 1 .. Len(AutoPorts)
  BY <1>1
<1>3. CASE c.strict
  <2>1. <<port>> \in Seq(Services!Ports) /\ Len(<<port>>) = 1
    OBVIOUS
  <2>2. 1 \in 1 .. Len(AutoPorts)
    BY <1>2
  <2>3. s = <<port>>
    BY <1>3 DEF Offers
  <2>4. s \in Seq(Services!Ports) /\ Len(s) \in 1 .. Len(AutoPorts)
    BY <2>1, <2>2, <2>3, Zenon
  <2> QED BY <1>3, <2>4
<1>4. CASE ~c.strict /\ port \in Services!Range(AutoPorts)
  <2>1. s = Services!Preferring(port)
    BY <1>4 DEF Offers
  <2> QED BY <1>2, <1>4, <2>1, PreferringIsWhole
<1>5. CASE ~c.strict /\ port \notin Services!Range(AutoPorts)
  <2>1. \A i \in 1 .. Len(AutoPorts) : AutoPorts[i] \in Services!Ports
    BY <1>2 DEF Services!Ports, Services!Range
  <2>2. AutoPorts \in Seq(Services!Ports)
    BY <1>1, <2>1
  <2>3. s = AutoPorts
    BY <1>5 DEF Offers
  <2> QED BY <1>2, <1>5, <2>2, <2>3 DEF Services!Range
<1> QED BY <1>3, <1>4, <1>5

SearchTyped ==
  /\ held \in [Services!Ports -> Procs \cup {Foreign, None}]
  /\ next \in [Procs -> 1 .. Len(AutoPorts)]
  /\ waiting \in [Procs -> SUBSET Services!Ports]
  /\ matching \in [Procs -> SUBSET Services!Ports]
  /\ strange \in [Procs -> SUBSET Services!Ports]
  /\ earlier \in [Procs -> SUBSET Procs]

\* Where a process is in its candidates; a strict start has no search.
PlaceOf(p) ==
  /\ phase[p] \in {"off", "asking", "building"} => next[p] = 1
  /\ phase[p] \in {"looking", "reserving"} => next[p] <= Len(Services!Candidates(p))
  /\ phase[p] = "looking" => ~cmd[p].strict

\* The service q at port x will be found, or has been: while p looks, x is a
\* candidate p has not come to yet or one whose answer is awaited; while p
\* asks, the answer is awaited, or has come.
FoundAt(p, q, x) ==
  /\ held[x] = q
  /\ phase[p] = "looking" =>
       \/ x \in waiting[p]
       \/ \E j \in next[p] .. Len(Services!Candidates(p)) : Services!Candidates(p)[j] = x
  /\ phase[p] = "asking" => x \in waiting[p] \cup matching[p]

\* A service that matched when p started, and has served ever since.
EarlierServes(p) ==
  \A q \in earlier[p] :
    /\ q # p /\ phase[q] = "serving" /\ Services!Matches(q, p)
    /\ \E x \in Services!Ports : FoundAt(p, q, x)

\* A process that goes on by itself, or is refused, missed no such service.
MissesNone(p) ==
  phase[p] \in {"reserving", "building", "serving", "refused"} => earlier[p] = {}

SearchOf(p) ==
  /\ PlaceOf(p) /\ MissesNone(p)
  /\ phase[p] \in {"looking", "asking"} => EarlierServes(p)

SearchInv == SearchTyped /\ \A p \in Procs : SearchOf(p)

LEMMA SearchInit == Services!ServiceInit => SearchInv
<1> SUFFICES ASSUME Services!ServiceInit PROVE SearchInv
  OBVIOUS
<1>1. /\ held = [x \in Services!Ports |-> IF x \in ForeignPorts THEN Foreign ELSE None]
      /\ phase = [p \in Procs |-> "off"] /\ next = [p \in Procs |-> 1]
      /\ waiting = [p \in Procs |-> {}]
      /\ matching = waiting /\ strange = waiting /\ earlier = waiting
  BY DEF Services!ServiceInit
<1>2. 1 \in 1 .. Len(AutoPorts)
  BY ServicesAssumption DEF Services!ServiceAssumption
<1>3. SearchTyped
  BY <1>1, <1>2 DEF SearchTyped
<1>4. \A p \in Procs : SearchOf(p)
  BY <1>1 DEF SearchOf, PlaceOf, MissesNone
<1> QED BY <1>3, <1>4 DEF SearchInv

\* A process stays where it is while the services it will find serve on.
LEMMA SearchStays ==
  ASSUME NEW q \in Procs, SearchOf(q),
         phase'[q] = phase[q], cmd'[q] = cmd[q], active'[q] = active[q],
         next'[q] = next[q], waiting'[q] = waiting[q], matching'[q] = matching[q],
         earlier'[q] \subseteq earlier[q],
         \A e \in earlier'[q] : phase[e] = "serving" =>
           /\ phase'[e] = phase[e] /\ cmd'[e] = cmd[e] /\ active'[e] = active[e]
           /\ \A x \in Services!Ports : held[x] = e => held'[x] = e
  PROVE  SearchOf(q)'
<1>1. Services!Candidates(q)' = Services!Candidates(q)
  BY DEF Services!Candidates
<1>2. PlaceOf(q)' /\ MissesNone(q)'
  BY <1>1 DEF SearchOf, PlaceOf, MissesNone
<1>3. ASSUME phase'[q] \in {"looking", "asking"}
      PROVE  EarlierServes(q)'
  <2> SUFFICES ASSUME NEW e \in earlier'[q]
               PROVE  /\ e # q /\ phase'[e] = "serving" /\ Services!Matches(e, q)'
                      /\ \E x \in Services!Ports : FoundAt(q, e, x)'
    BY DEF EarlierServes, Services!Ports
  <2>1. /\ e # q /\ phase[e] = "serving" /\ Services!Matches(e, q)
        /\ \E x \in Services!Ports : FoundAt(q, e, x)
    BY <1>3 DEF SearchOf, EarlierServes
  <2>2. PICK x \in Services!Ports : FoundAt(q, e, x)
    BY <2>1
  <2>3. Services!Matches(e, q)'
    BY <2>1 DEF Services!Matches
  <2>4. FoundAt(q, e, x)'
    BY <1>1, <2>1, <2>2 DEF FoundAt
  <2> QED BY <2>1, <2>3, <2>4
<1> QED BY <1>2, <1>3 DEF SearchOf

LEMMA StartKeepsSearch ==
  ASSUME SettingsInv, SearchInv, NEW p \in Procs, Services!Starts(p)
  PROVE  SearchInv'
<1>1. PICK c \in Commands :
        /\ cmd' = [cmd EXCEPT ![p] = c]
        /\ active' = [active EXCEPT ![p] = Services!Requested(c, override)]
        /\ phase' = [phase EXCEPT ![p] = IF c.strict THEN "asking" ELSE "looking"]
        /\ waiting' = [waiting EXCEPT ![p] = IF c.strict THEN {active'[p].port} ELSE {}]
  BY DEF Services!Starts, Services!Goes
<1>2. /\ UNCHANGED <<held, next, matching, strange>> /\ phase[p] = "off"
      /\ earlier' = [earlier EXCEPT ![p] =
           {q \in Procs \ {p} :
              /\ phase[q] = "serving" /\ Services!Matches(q, p)'
              /\ \E x \in Services!Ports :
                   /\ held[x] = q
                   /\ IF cmd'[p].strict THEN x = active'[p].port
                                        ELSE x \in Services!Range(AutoPorts)}]
  BY DEF Services!Starts
<1>3. /\ cmd'[p] = c /\ active'[p] = Services!Requested(c, override)
      /\ phase'[p] = (IF c.strict THEN "asking" ELSE "looking")
      /\ waiting'[p] = (IF c.strict THEN {active'[p].port} ELSE {})
      /\ \A q \in Procs \ {p} : /\ cmd'[q] = cmd[q] /\ active'[q] = active[q]
                                /\ phase'[q] = phase[q] /\ waiting'[q] = waiting[q]
                                /\ earlier'[q] = earlier[q]
  BY <1>1, <1>2 DEF SettingsInv, SettingsTyped, SearchInv, SearchTyped
<1>4. active'[p] \in Services!Config /\ active'[p].port \in Services!Ports
  BY <1>3, RequestedIsConfig DEF SettingsInv, SettingsTyped, Services!Config
<1>5. SearchTyped'
  BY <1>1, <1>2, <1>4 DEF SearchInv, SearchTyped
<1>6. ASSUME NEW q \in Procs \ {p} PROVE SearchOf(q)'
  <2>1. \A e \in earlier'[q] : phase[e] = "serving" => e \in Procs \ {p}
    BY <1>2, <1>3 DEF SearchInv, SearchTyped
  <2> QED BY <1>2, <1>3, <2>1, SearchStays DEF SearchInv
<1>7. SearchOf(p)'
  <2>1. next'[p] = 1
    BY <1>2 DEF SearchInv, SearchOf, PlaceOf
  <2>2. PICK s : s = Services!Candidates(p)'
    OBVIOUS
  <2> PICK port \in Services!Ports : port = active'[p].port
    BY <1>4
  <2>3. Offers(c, port, s)
    BY <1>3, <2>2 DEF Offers, Services!Candidates
  <2>4. /\ Len(s) \in Nat \ {0}
        /\ ~c.strict => \A x \in Services!Range(AutoPorts) : \E j \in 1 .. Len(s) : s[j] = x
    <3>1. /\ Len(s) \in 1 .. Len(AutoPorts)
          /\ ~c.strict => \A x \in Services!Range(AutoPorts) : \E j \in 1 .. Len(s) : s[j] = x
      BY <2>3, CandidatesAreWhole
    <3> QED BY <3>1
  <2>5. PlaceOf(p)' /\ MissesNone(p)'
    BY <1>3, <2>1, <2>2, <2>4 DEF PlaceOf, MissesNone
  <2>6. ASSUME NEW e \in earlier'[p]
        PROVE  /\ e # p /\ phase'[e] = "serving" /\ Services!Matches(e, p)'
               /\ \E x \in Services!Ports : FoundAt(p, e, x)'
    <3>1. /\ e \in Procs \ {p} /\ phase[e] = "serving" /\ Services!Matches(e, p)'
          /\ \E x \in Services!Ports :
               /\ held[x] = e
               /\ IF cmd'[p].strict THEN x = active'[p].port
                                    ELSE x \in Services!Range(AutoPorts)
      BY <1>2 DEF SearchInv, SearchTyped
    <3>2. PICK x \in Services!Ports :
            /\ held[x] = e
            /\ IF c.strict THEN x = active'[p].port ELSE x \in Services!Range(AutoPorts)
      BY <1>3, <3>1
    <3>3. phase'[p] = "looking" => \E j \in next'[p] .. Len(s) : s[j] = x
      BY <1>3, <2>1, <2>4, <3>2
    <3>4. phase'[p] = "asking" => x \in waiting'[p]
      BY <1>3, <3>2
    <3>5. FoundAt(p, e, x)'
      BY <1>2, <2>2, <3>2, <3>3, <3>4 DEF FoundAt
    <3> QED BY <1>3, <3>1, <3>5
  <2>7. EarlierServes(p)'
    BY <2>6 DEF EarlierServes, Services!Ports
  <2> QED BY <2>5, <2>7 DEF SearchOf
<1> QED BY <1>5, <1>6, <1>7 DEF SearchInv

\* A process that was started has candidates.
LEMMA CandidatesOfStarted ==
  ASSUME SettingsInv, NEW p \in Procs, phase[p] # "off"
  PROVE  /\ Services!Candidates(p) \in Seq(Services!Ports)
         /\ Len(Services!Candidates(p)) \in 1 .. Len(AutoPorts)
         /\ Len(Services!Candidates(p)) \in Nat \ {0}
<1>1. active[p] \in Services!Config
  BY DEF SettingsInv, SettingsOf, HasSettings
<1> PICK port \in Services!Ports : port = active[p].port
  BY <1>1 DEF Services!Config
<1> PICK s : s = Services!Candidates(p)
  OBVIOUS
<1>2. Offers(cmd[p], port, s)
  <2>1. s = IF cmd[p].strict THEN <<port>>
            ELSE IF port \in Services!Range(AutoPorts) THEN Services!Preferring(port)
                 ELSE AutoPorts
    BY Zenon DEF Services!Candidates
  <2> QED BY <2>1 DEF Offers
<1>3. s \in Seq(Services!Ports) /\ Len(s) \in 1 .. Len(AutoPorts)
  BY <1>2, CandidatesAreWhole
<1> QED BY <1>3

\* The port a search or a reservation is at is one of the candidates.
LEMMA PortIsCandidate ==
  ASSUME SettingsInv, SearchInv, NEW p \in Procs, phase[p] \in {"looking", "reserving"}
  PROVE  /\ Services!Candidates(p) \in Seq(Services!Ports)
         /\ Len(Services!Candidates(p)) \in 1 .. Len(AutoPorts)
         /\ next[p] \in 1 .. Len(Services!Candidates(p))
         /\ Services!Port(p) = Services!Candidates(p)[next[p]]
         /\ Services!Port(p) \in Services!Ports
<1>1. /\ Services!Candidates(p) \in Seq(Services!Ports)
      /\ Len(Services!Candidates(p)) \in 1 .. Len(AutoPorts)
  BY CandidatesOfStarted
<1>2. next[p] \in 1 .. Len(AutoPorts) /\ next[p] <= Len(Services!Candidates(p))
  BY DEF SearchInv, SearchTyped, SearchOf, PlaceOf
<1>3. next[p] \in 1 .. Len(Services!Candidates(p))
  BY <1>1, <1>2
<1> QED BY <1>1, <1>3 DEF Services!Port

\* While p binds and unbinds a port, what the others will find stays.
LEMMA BindLeavesOthers ==
  ASSUME SettingsInv, SearchInv, NEW p \in Procs, phase[p] # "serving",
         NEW y, held[y] \in {None, p} \/ held' = held,
         \A x \in Services!Ports \ {y} : held'[x] = held[x],
         UNCHANGED <<cmd, active>>,
         \A q \in Procs \ {p} :
           /\ phase'[q] = phase[q] /\ next'[q] = next[q] /\ waiting'[q] = waiting[q]
           /\ matching'[q] = matching[q] /\ earlier'[q] = earlier[q]
  PROVE  \A q \in Procs \ {p} : SearchOf(q)'
<1> SUFFICES ASSUME NEW q \in Procs \ {p} PROVE SearchOf(q)'
  OBVIOUS
<1>1. None \notin Procs
  BY ServicesAssumption DEF Services!ServiceAssumption
<1>2. ASSUME NEW e \in earlier'[q], phase[e] = "serving"
      PROVE  /\ phase'[e] = phase[e] /\ cmd'[e] = cmd[e] /\ active'[e] = active[e]
             /\ \A x \in Services!Ports : held[x] = e => held'[x] = e
  <2>1. e \in Procs \ {p}
    BY <1>2 DEF SearchInv, SearchTyped
  <2> QED BY <1>1, <2>1
<1>3. SearchOf(q) /\ earlier'[q] = earlier[q]
  BY DEF SearchInv
<1> QED BY <1>2, <1>3, SearchStays

\* A temporary bind fails where a service is: the port then waits for its
\* answer, or is still to be tried (binding.py:discover_mikotype_services).
LEMMA ProbeKeepsSearch ==
  ASSUME SettingsInv, SearchInv, NEW p \in Procs, Services!ProbesPort(p)
  PROVE  SearchInv'
<1> DEFINE c == Services!Candidates(p)
           y == Services!Port(p)
<1>1. /\ phase[p] = "looking" /\ UNCHANGED <<cmd, matching, strange, active, earlier>>
  BY DEF Services!ProbesPort, Services!settings
<1>2. /\ Len(c) \in 1 .. Len(AutoPorts) /\ next[p] \in 1 .. Len(c)
      /\ y = c[next[p]] /\ y \in Services!Ports
  BY <1>1, PortIsCandidate
<1>3. /\ phase \in [Procs -> Phases] /\ SearchTyped /\ SearchOf(p)
      /\ Len(AutoPorts) \in Nat
  BY <1>2 DEF SettingsInv, SettingsTyped, SearchInv
<1>4. c' = c
  BY <1>1 DEF Services!Candidates
<1> HIDE DEF c, y
<1>5. \/ /\ held[y] = None
         /\ held' = [held EXCEPT ![y] = p] /\ UNCHANGED <<phase, next, waiting>>
      \/ /\ held[y] = p
         /\ held' = [held EXCEPT ![y] = None] /\ Services!Advances(p) /\ UNCHANGED waiting
      \/ /\ held[y] # None /\ held[y] # p /\ held' = held /\ Services!Advances(p)
         /\ waiting' = [waiting EXCEPT ![p] = @ \cup {y}]
  BY DEF Services!ProbesPort, y
<1>6. ASSUME Services!Advances(p)
      PROVE  \/ /\ next[p] < Len(c)
                /\ next' = [next EXCEPT ![p] = @ + 1] /\ UNCHANGED phase
             \/ /\ next[p] = Len(c)
                /\ next' = [next EXCEPT ![p] = 1] /\ phase' = [phase EXCEPT ![p] = "asking"]
  BY <1>2, <1>6 DEF Services!Advances, Services!Goes, c
<1>7. SearchTyped'
  <2>1. next' \in [Procs -> 1 .. Len(AutoPorts)]
    BY <1>2, <1>3, <1>5, <1>6 DEF SearchTyped
  <2>2. held' \in [Services!Ports -> Procs \cup {Foreign, None}]
    BY <1>2, <1>3, <1>5 DEF SearchTyped
  <2>3. waiting' \in [Procs -> SUBSET Services!Ports]
    <3>1. waiting \in [Procs -> SUBSET Services!Ports]
      BY <1>3 DEF SearchTyped
    <3>2. waiting' = waiting \/ waiting' = [waiting EXCEPT ![p] = @ \cup {y}]
      BY <1>5
    <3>3. waiting[p] \cup {y} \in SUBSET Services!Ports
      BY <1>2, <3>1
    <3> QED BY <3>1, <3>2, <3>3
  <2> QED BY <1>1, <1>3, <2>1, <2>2, <2>3 DEF SearchTyped
<1>8. \A q \in Procs \ {p} : SearchOf(q)'
  <2>1. \A q \in Procs \ {p} :
          /\ phase'[q] = phase[q] /\ next'[q] = next[q] /\ waiting'[q] = waiting[q]
    BY <1>3, <1>5, <1>6 DEF SearchTyped
  <2>2. held[y] \in {None, p} \/ held' = held
    BY <1>5
  <2>3. \A x \in Services!Ports \ {y} : held'[x] = held[x]
    BY <1>3, <1>5 DEF SearchTyped
  <2> QED BY <1>1, <2>1, <2>2, <2>3, BindLeavesOthers
<1>9. SearchOf(p)'
  <2>1. ~cmd[p].strict /\ EarlierServes(p)
    BY <1>1, <1>3 DEF SearchOf, PlaceOf
  <2>2. \/ phase'[p] = "looking" /\ next'[p] \in 1 .. Len(c)
        \/ phase'[p] = "asking" /\ next'[p] = 1
    BY <1>1, <1>2, <1>3, <1>5, <1>6 DEF SearchTyped
  <2>3. PlaceOf(p)' /\ MissesNone(p)'
    BY <1>1, <1>4, <2>1, <2>2 DEF PlaceOf, MissesNone, c
  <2>4. ASSUME NEW e \in earlier'[p]
        PROVE  /\ e # p /\ phase'[e] = "serving" /\ Services!Matches(e, p)'
               /\ \E x \in Services!Ports : FoundAt(p, e, x)'
    <3>1. /\ e # p /\ phase[e] = "serving" /\ Services!Matches(e, p) /\ e \in Procs
      BY <1>1, <1>3, <2>1 DEF EarlierServes, SearchTyped
    <3>2. PICK x \in Services!Ports : FoundAt(p, e, x)
      BY <1>1, <2>1 DEF EarlierServes
    <3>3. phase'[e] = "serving" /\ Services!Matches(e, p)'
      BY <1>1, <1>3, <1>5, <1>6, <3>1 DEF Services!Matches
    <3>4. /\ held[x] = e
          /\ x \in waiting[p] \/ \E j \in next[p] .. Len(c) : c[j] = x
      BY <1>1, <3>2 DEF FoundAt, c
    <3>5. held'[x] = e
      <4>1. None \notin Procs
        BY ServicesAssumption DEF Services!ServiceAssumption
      <4> QED BY <1>3, <1>5, <3>1, <3>4, <4>1 DEF SearchTyped
    <3>6. x = y => x \in waiting'[p]
      <4>1. None \notin Procs
        BY ServicesAssumption DEF Services!ServiceAssumption
      <4> QED BY <1>3, <1>5, <3>1, <3>4, <4>1 DEF SearchTyped
    <3>7. waiting[p] \subseteq waiting'[p]
      BY <1>3, <1>5 DEF SearchTyped
    <3>8. x \in waiting'[p] \/ \E j \in next[p] .. Len(c) : c[j] = x /\ j # next[p]
      BY <1>2, <3>4, <3>6, <3>7
    <3>9. phase'[p] = "looking" => x \in waiting'[p] \/ \E j \in next'[p] .. Len(c) : c[j] = x
      BY <1>2, <1>3, <1>5, <1>6, <3>4, <3>7, <3>8 DEF SearchTyped
    <3>10. phase'[p] = "asking" => x \in waiting'[p]
      BY <1>1, <1>2, <1>3, <1>5, <1>6, <3>8 DEF SearchTyped
    <3>11. FoundAt(p, e, x)'
      BY <1>4, <3>5, <3>9, <3>10 DEF FoundAt, c
    <3> QED BY <3>1, <3>3, <3>11
  <2>5. EarlierServes(p)'
    BY <2>4 DEF EarlierServes, Services!Ports
  <2> QED BY <2>3, <2>5 DEF SearchOf
<1> QED BY <1>7, <1>8, <1>9 DEF SearchInv

\* What serves at an asked port answers, or is given up
\* (binding.py:probe_mikotype_service).
LEMMA AnswerKeepsSearch ==
  ASSUME SettingsInv, SearchInv, NEW p \in Procs, NEW y \in Services!Ports,
         Services!IsAnswered(p, y) \/ Services!IsNotAnswered(p, y)
  PROVE  SearchInv'
<1>1. /\ phase[p] = "asking" /\ UNCHANGED <<held, phase, cmd, next, active>>
      /\ waiting' = [waiting EXCEPT ![p] = @ \ {y}]
  BY DEF Services!IsAnswered, Services!IsNotAnswered, Services!settings
<1>2. \/ /\ Services!Matches(held[y], p) /\ UNCHANGED <<earlier, strange>>
         /\ matching' = [matching EXCEPT ![p] = @ \cup {y}]
      \/ /\ ~Services!Matches(held[y], p) /\ UNCHANGED <<earlier, matching>>
         /\ strange' = [strange EXCEPT ![p] = @ \cup {y}]
      \/ /\ UNCHANGED <<matching, strange>>
         /\ earlier' = [earlier EXCEPT ![p] = @ \ {held[y]}]
  BY DEF Services!IsAnswered, Services!IsNotAnswered
<1>3. SearchTyped
  BY DEF SearchInv
<1>4. SearchTyped'
  <2>1. waiting' \in [Procs -> SUBSET Services!Ports]
    BY <1>1, <1>3 DEF SearchTyped
  <2>2. matching' \in [Procs -> SUBSET Services!Ports]
    BY <1>2, <1>3 DEF SearchTyped
  <2>3. strange' \in [Procs -> SUBSET Services!Ports]
    BY <1>2, <1>3 DEF SearchTyped
  <2>4. earlier' \in [Procs -> SUBSET Procs]
    BY <1>2, <1>3 DEF SearchTyped
  <2> QED BY <1>1, <1>3, <2>1, <2>2, <2>3, <2>4 DEF SearchTyped
<1>5. ASSUME NEW q \in Procs \ {p} PROVE SearchOf(q)'
  <2>1. waiting'[q] = waiting[q] /\ matching'[q] = matching[q] /\ earlier'[q] = earlier[q]
    BY <1>1, <1>2, <1>3 DEF SearchTyped
  <2>2. SearchOf(q)
    BY DEF SearchInv
  <2> QED BY <1>1, <2>1, <2>2, SearchStays
<1>6. SearchOf(p)'
  <2>1. PlaceOf(p)' /\ MissesNone(p)'
    BY <1>1 DEF SearchInv, SearchOf, PlaceOf, MissesNone
  <2>2. ASSUME NEW e \in earlier'[p]
        PROVE  /\ e # p /\ phase'[e] = "serving" /\ Services!Matches(e, p)'
               /\ \E x \in Services!Ports : FoundAt(p, e, x)'
    <3>1. e \in earlier[p]
      BY <1>2, <1>3 DEF SearchTyped
    <3>2. /\ e # p /\ phase[e] = "serving" /\ Services!Matches(e, p)
          /\ \E x \in Services!Ports : FoundAt(p, e, x)
      BY <1>1, <3>1 DEF SearchInv, SearchOf, EarlierServes
    <3>3. PICK x \in Services!Ports : FoundAt(p, e, x)
      BY <3>2
    <3>4. held[x] = e /\ x \in waiting[p] \cup matching[p]
      BY <1>1, <3>3 DEF FoundAt
    <3>5. matching[p] \subseteq matching'[p]
      BY <1>2, <1>3 DEF SearchTyped
    <3>6. x = y => x \in matching'[p]
      BY <1>2, <1>3, <3>2, <3>4 DEF SearchTyped
    <3>7. x # y /\ x \in waiting[p] => x \in waiting'[p]
      BY <1>1, <1>3 DEF SearchTyped
    <3>8. FoundAt(p, e, x)'
      BY <1>1, <3>4, <3>5, <3>6, <3>7 DEF FoundAt
    <3>9. Services!Matches(e, p)'
      BY <1>1, <3>2 DEF Services!Matches
    <3> QED BY <1>1, <3>2, <3>8, <3>9
  <2>3. EarlierServes(p)'
    BY <2>2 DEF EarlierServes, Services!Ports
  <2> QED BY <2>1, <2>3 DEF SearchOf
<1> QED BY <1>4, <1>5, <1>6 DEF SearchInv

\* Nobody goes on whose search found a matching service, and who found none
\* has missed none (main.py:_serve).
LEMMA VerdictKeepsSearch ==
  ASSUME SettingsInv, SearchInv, NEW p \in Procs, Services!AllAnswered(p)
  PROVE  SearchInv'
<1>1. /\ phase[p] = "asking" /\ waiting[p] = {}
      /\ UNCHANGED <<held, cmd, next, waiting, active, earlier>>
      /\ matching' = [matching EXCEPT ![p] = {}] /\ strange' = [strange EXCEPT ![p] = {}]
      /\ phase' = [phase EXCEPT ![p] =
           IF matching[p] # {} THEN "reused"
           ELSE IF cmd[p].strict /\ strange[p] # {} THEN "refused"
           ELSE "reserving"]
  BY DEF Services!AllAnswered, Services!Goes, Services!settings
<1>2. SearchTyped /\ SearchOf(p) /\ phase \in [Procs -> Phases]
  BY DEF SearchInv, SettingsInv, SettingsTyped
<1>3. SearchTyped'
  BY <1>1, <1>2 DEF SearchTyped
<1>4. \A q \in Procs \ {p} : SearchOf(q)'
  <2>1. \A q \in Procs \ {p} : phase'[q] = phase[q] /\ matching'[q] = matching[q]
    BY <1>1, <1>2 DEF SearchTyped
  <2>2. PICK y : y \notin Services!Ports
    <3>1. 0 \notin Services!Ports
      BY ServicesAssumption DEF Services!ServiceAssumption
    <3> QED BY <3>1
  <2> QED BY <1>1, <2>1, <2>2, BindLeavesOthers
<1>5. SearchOf(p)'
  <2>1. phase'[p] \in {"reused", "refused", "reserving"}
        /\ (phase'[p] # "reused" => matching[p] = {})
    BY <1>1, <1>2
  <2>2. matching[p] = {} => earlier[p] = {}
    BY <1>1, <1>2 DEF SearchOf, EarlierServes, FoundAt
  <2>3. next'[p] = 1 /\ next'[p] <= Len(Services!Candidates(p))'
    <3>1. next[p] = 1
      BY <1>1, <1>2 DEF SearchOf, PlaceOf
    <3>2. Len(Services!Candidates(p)) \in Nat \ {0}
      BY <1>1, CandidatesOfStarted
    <3>3. Services!Candidates(p)' = Services!Candidates(p)
      BY <1>1 DEF Services!Candidates
    <3> QED BY <1>1, <3>1, <3>2, <3>3
  <2>4. PlaceOf(p)' /\ MissesNone(p)'
    BY <1>1, <2>1, <2>2, <2>3 DEF PlaceOf, MissesNone
  <2> QED BY <2>1, <2>4 DEF SearchOf
<1> QED BY <1>3, <1>4, <1>5 DEF SearchInv

\* The listener is bound at the first candidate that is free
\* (binding.py:reserve_loopback_endpoint).
LEMMA ReserveKeepsSearch ==
  ASSUME SettingsInv, SearchInv, NEW p \in Procs, Services!Reserves(p)
  PROVE  SearchInv'
<1> DEFINE c == Services!Candidates(p)
           y == Services!Port(p)
<1>1. /\ phase[p] = "reserving"
      /\ UNCHANGED <<cmd, waiting, matching, strange, active, earlier>>
  BY DEF Services!Reserves, Services!settings
<1>2. /\ Len(c) \in 1 .. Len(AutoPorts) /\ next[p] \in 1 .. Len(c) /\ y \in Services!Ports
  BY <1>1, PortIsCandidate
<1>3. /\ phase \in [Procs -> Phases] /\ SearchTyped /\ SearchOf(p)
      /\ Len(AutoPorts) \in Nat
  BY <1>2 DEF SettingsInv, SettingsTyped, SearchInv
<1>4. c' = c
  BY <1>1 DEF Services!Candidates
<1>5. \/ /\ held[y] = None /\ held' = [held EXCEPT ![y] = p]
         /\ next' = [next EXCEPT ![p] = 1] /\ phase' = [phase EXCEPT ![p] = "building"]
      \/ /\ next[p] < Len(c)
         /\ next' = [next EXCEPT ![p] = @ + 1] /\ UNCHANGED <<held, phase>>
      \/ /\ phase' = [phase EXCEPT ![p] = "refused"] /\ UNCHANGED <<held, next>>
  BY DEF Services!Reserves, Services!Goes
<1> HIDE DEF c, y
<1>6. SearchTyped'
  <2>1. next' \in [Procs -> 1 .. Len(AutoPorts)]
    BY <1>2, <1>3, <1>5 DEF SearchTyped
  <2>2. held' \in [Services!Ports -> Procs \cup {Foreign, None}]
    BY <1>2, <1>3, <1>5 DEF SearchTyped
  <2> QED BY <1>1, <1>3, <2>1, <2>2 DEF SearchTyped
<1>7. \A q \in Procs \ {p} : SearchOf(q)'
  <2>1. \A q \in Procs \ {p} : phase'[q] = phase[q] /\ next'[q] = next[q]
    BY <1>3, <1>5 DEF SearchTyped
  <2>2. held[y] \in {None, p} \/ held' = held
    BY <1>5
  <2>3. \A x \in Services!Ports \ {y} : held'[x] = held[x]
    BY <1>3, <1>5 DEF SearchTyped
  <2> QED BY <1>1, <2>1, <2>2, <2>3, BindLeavesOthers
<1>8. SearchOf(p)'
  <2>1. earlier'[p] = {}
    BY <1>1, <1>3 DEF SearchOf, MissesNone
  <2>2. \/ phase'[p] = "building" /\ next'[p] = 1
        \/ phase'[p] = "reserving" /\ next'[p] <= Len(c)
        \/ phase'[p] = "refused"
    BY <1>1, <1>2, <1>3, <1>5 DEF SearchTyped
  <2> QED BY <1>4, <2>1, <2>2 DEF SearchOf, PlaceOf, MissesNone, c
<1> QED BY <1>6, <1>7, <1>8 DEF SearchInv

LEMMA ServeKeepsSearch ==
  ASSUME SettingsInv, SearchInv, NEW p \in Procs, Services!Serves(p)
  PROVE  SearchInv'
<1>1. /\ phase[p] = "building" /\ phase' = [phase EXCEPT ![p] = "serving"]
      /\ UNCHANGED <<held, cmd, next, waiting, matching, strange, active, earlier>>
  BY DEF Services!Serves, Services!Goes, Services!looking
<1>2. \A q \in Procs \ {p} : SearchOf(q)'
  <2>1. \A q \in Procs \ {p} : phase'[q] = phase[q]
    BY <1>1
  <2> QED BY <1>1, <2>1, BindLeavesOthers
<1>3. SearchOf(p)'
  BY <1>1 DEF SettingsInv, SettingsTyped, SearchInv, SearchOf, PlaceOf, MissesNone
<1> QED BY <1>1, <1>2, <1>3 DEF SearchInv, SearchTyped

\* The sockets of a process end with it; nobody counts on it any more.
LEMMA EndKeepsSearch ==
  ASSUME SettingsInv, SearchInv, NEW p \in Procs, Services!Ends(p)
  PROVE  SearchInv'
<1>1. /\ phase' = [phase EXCEPT ![p] = "off"]
      /\ held' = [x \in Services!Ports |-> IF held[x] = p THEN None ELSE held[x]]
      /\ cmd' = [cmd EXCEPT ![p] = None] /\ active' = [active EXCEPT ![p] = None]
      /\ next' = [next EXCEPT ![p] = 1] /\ waiting' = [waiting EXCEPT ![p] = {}]
      /\ matching' = [matching EXCEPT ![p] = {}] /\ strange' = [strange EXCEPT ![p] = {}]
      /\ earlier' = [q \in Procs |-> IF q = p THEN {} ELSE earlier[q] \ {p}]
  BY DEF Services!Ends, Services!Goes
<1>2. SearchTyped /\ phase \in [Procs -> Phases] /\ cmd \in [Procs -> Commands \cup {None}]
      /\ active \in [Procs -> Services!Config \cup {None}]
  BY DEF SearchInv, SettingsInv, SettingsTyped
<1>3. SearchTyped'
  <2>1. 1 \in 1 .. Len(AutoPorts)
    BY ServicesAssumption DEF Services!ServiceAssumption
  <2>2. next' \in [Procs -> 1 .. Len(AutoPorts)]
    BY <1>1, <1>2, <2>1 DEF SearchTyped
  <2>3. held' \in [Services!Ports -> Procs \cup {Foreign, None}]
    BY <1>1, <1>2 DEF SearchTyped
  <2>4. earlier' \in [Procs -> SUBSET Procs]
    BY <1>1, <1>2 DEF SearchTyped
  <2>5. /\ waiting' \in [Procs -> SUBSET Services!Ports]
        /\ matching' \in [Procs -> SUBSET Services!Ports]
        /\ strange' \in [Procs -> SUBSET Services!Ports]
    BY <1>1, <1>2 DEF SearchTyped
  <2> QED BY <2>2, <2>3, <2>4, <2>5 DEF SearchTyped
<1>4. ASSUME NEW q \in Procs \ {p} PROVE SearchOf(q)'
  <2>1. /\ phase'[q] = phase[q] /\ cmd'[q] = cmd[q] /\ active'[q] = active[q]
        /\ next'[q] = next[q] /\ waiting'[q] = waiting[q] /\ matching'[q] = matching[q]
        /\ earlier'[q] = earlier[q] \ {p}
    BY <1>1, <1>2 DEF SearchTyped
  <2>2. ASSUME NEW e \in earlier'[q]
        PROVE  /\ phase'[e] = phase[e] /\ cmd'[e] = cmd[e] /\ active'[e] = active[e]
               /\ \A x \in Services!Ports : held[x] = e => held'[x] = e
    <3>1. e \in Procs \ {p}
      BY <1>2, <2>1 DEF SearchTyped
    <3> QED BY <1>1, <1>2, <3>1
  <2>3. SearchOf(q)
    BY DEF SearchInv
  <2> QED BY <2>1, <2>2, <2>3, SearchStays
<1>5. SearchOf(p)'
  <2>1. phase'[p] = "off" /\ next'[p] = 1
    BY <1>1, <1>2 DEF SearchTyped
  <2> QED BY <2>1 DEF SearchOf, PlaceOf, MissesNone
<1> QED BY <1>3, <1>4, <1>5 DEF SearchInv

\* A service that changes its camera or its view is another service to those
\* who look for one; a saved setting changes nothing for them.
LEMMA RequestKeepsSearch ==
  ASSUME SettingsInv, SearchInv, NEW p \in Procs, Requests(p)
  PROVE  SearchInv'
<1>1. /\ phase[p] = "serving"
      /\ UNCHANGED <<phase, held, cmd, next, waiting, matching, strange>>
  BY DEF Requests, Services!EditsSettings, Services!SwitchesCamera, Services!SavesCamera,
         Services!SwitchesView, Services!AcceptsView, Services!looking,
         SettingsInv, SettingsOf, LiveServes
<1>2. \/ UNCHANGED <<active, earlier>>
      \/ /\ \A q \in Procs \ {p} : active'[q] = active[q]
         /\ earlier' = [q \in Procs |-> earlier[q] \ {p}]
  <2>1. ASSUME NEW field, NEW value, Services!Accepts(p, field, value)
        PROVE  /\ \A q \in Procs \ {p} : active'[q] = active[q]
               /\ earlier' = [q \in Procs |-> earlier[q] \ {p}]
    BY <2>1 DEF Services!Accepts, SettingsInv, SettingsTyped
  <2> QED
    BY <2>1 DEF Requests, Services!EditsSettings, Services!SwitchesCamera, Services!SavesCamera,
         Services!SwitchesView, Services!AcceptsView
<1>3. SearchTyped
  BY DEF SearchInv
<1>4. SearchTyped'
  BY <1>1, <1>2, <1>3 DEF SearchTyped
<1>5. ASSUME NEW q \in Procs \ {p} PROVE SearchOf(q)'
  <2>1. earlier'[q] \subseteq earlier[q] /\ active'[q] = active[q]
    BY <1>2
  <2>2. \A e \in earlier'[q] : active'[e] = active[e]
    BY <1>2, <1>3 DEF SearchTyped
  <2>3. SearchOf(q)
    BY DEF SearchInv
  <2> QED BY <1>1, <2>1, <2>2, <2>3, SearchStays
<1>6. SearchOf(p)'
  <2>1. earlier[p] = {}
    BY <1>1 DEF SearchInv, SearchOf, MissesNone
  <2>2. earlier'[p] = {}
    BY <1>2, <2>1
  <2> QED BY <1>1, <2>2 DEF SearchOf, PlaceOf, MissesNone
<1> QED BY <1>4, <1>5, <1>6 DEF SearchInv

\* A program of another kind leaves a port, or nothing happens.
LEMMA OthersKeepSearch ==
  ASSUME SettingsInv, SearchInv,
         \/ Services!ForeignLeaves
         \/ UNCHANGED <<phase, held, cmd, next, waiting, matching, strange, active, earlier>>
  PROVE  SearchInv'
<1>1. UNCHANGED <<phase, cmd, next, waiting, matching, strange, active, earlier>>
  BY DEF Services!ForeignLeaves, Services!settings, Services!looking
<1>2. /\ held' \in [Services!Ports -> Procs \cup {Foreign, None}]
      /\ \A e \in Procs, x \in Services!Ports : held[x] = e => held'[x] = e
  <2>1. Foreign \notin Procs
    BY ServicesAssumption DEF Services!ServiceAssumption
  <2> QED BY <2>1 DEF Services!ForeignLeaves, SearchInv, SearchTyped
<1>3. SearchTyped'
  BY <1>1, <1>2 DEF SearchInv, SearchTyped
<1>4. ASSUME NEW q \in Procs PROVE SearchOf(q)'
  <2>1. \A e \in earlier'[q] : e \in Procs
    BY <1>1 DEF SearchInv, SearchTyped
  <2>2. SearchOf(q)
    BY DEF SearchInv
  <2> QED BY <1>1, <1>2, <2>1, <2>2, SearchStays
<1> QED BY <1>3, <1>4 DEF SearchInv

LEMMA StepKeepsSearch ==
  ASSUME SettingsInv, SearchInv, [MCNext]_<<follows, serviceVars, input, scene, vars>>
  PROVE  SearchInv'
<1>1. CASE Services!ServiceNext
  BY <1>1, ServiceSteps, StartKeepsSearch, ProbeKeepsSearch, AnswerKeepsSearch,
     VerdictKeepsSearch, ReserveKeepsSearch, ServeKeepsSearch, EndKeepsSearch,
     RequestKeepsSearch, OthersKeepSearch DEF Searches
<1>2. CASE UNCHANGED serviceVars
  BY <1>2, OthersKeepSearch DEF serviceVars
<1> QED BY <1>1, <1>2 DEF MCNext

LEMMA SearchInvariant == MCSpec => [](SettingsInv /\ SearchInv)
<1>1. MCInit => SettingsInv /\ SearchInv
  BY SettingsInit, SearchInit DEF MCInit
<1>2. SettingsInv /\ SearchInv /\ [MCNext]_<<follows, serviceVars, input, scene, vars>>
        => (SettingsInv /\ SearchInv)'
  BY StepKeepsSettings, StepKeepsSearch
<1> QED BY <1>1, <1>2, PTL DEF MCSpec

\* The processes, their search and their settings keep their types.
THEOREM ServiceTypeCorrect == MCSpec => []Services!ServiceTypeOK
<1>1. SettingsInv /\ SearchInv => Services!ServiceTypeOK
  BY DEF SettingsInv, SettingsTyped, SearchInv, SearchTyped, Phases, Before, Services!ServiceTypeOK
<1> QED BY <1>1, SearchInvariant, PTL

\* A start neither opens a second runtime nor is refused when a matching
\* service ran on one of its candidate ports all the while it looked, and
\* answered in time (README.md:260-262, web/README.md:138-140).
THEOREM NoServiceIsMissed == MCSpec => []RunningServiceIsReused
<1>1. SearchInv => RunningServiceIsReused
  BY DEF SearchInv, SearchOf, MissesNone, RunningServiceIsReused, Services!RunningServiceIsReused
<1> QED BY <1>1, SearchInvariant, PTL
-----------------------------------------------------------------------------
(* What a frame makes of the keyboard.  A candidate's probability is a     *)
(* product of numbers up to one; of the keys in reach, the one no other is *)
(* ahead of has rank one; merging takes a maximum that there is.           *)

\* The mapping counts sets as FiniteSets does.
LEMMA FinitenessIsFiniteness == ASSUME NEW S PROVE Mapping!IsFiniteSet(S) <=> IsFiniteSet(S)
BY Zenon DEF IsFiniteSet, Mapping!IsFiniteSet

LEMMA CardinalityIsCardinality == ASSUME NEW S PROVE Mapping!Cardinality(S) = Cardinality(S)
BY Zenon DEF Cardinality, Mapping!Cardinality

LEMMA FiniteConstants == IsFiniteSet(Keys) /\ IsFiniteSet(Fingers)
BY ReadersAssumption, FinitenessIsFiniteness DEF Mapping!MappingAssumption

LEMMA SmallestExists ==
  ASSUME NEW S, S \subseteq Nat, S # {}
  PROVE  \E m \in S : \A n \in S : m <= n
<1>1. PICK m \in S : \A n \in S : ~(<<n, m>> \in OpToRel(<, Nat))
  <2> HIDE DEF OpToRel
  <2> QED BY NatLessThanWellFounded, WFMin
<1>2. \A n \in S : ~(n < m)
  BY <1>1 DEF OpToRel
<1> QED BY <1>2

LEMMA LargestExists ==
  ASSUME NEW N \in Nat, NEW S, S \subseteq 0 .. N, S # {}
  PROVE  \E m \in S : \A n \in S : n <= m
<1> DEFINE T == {n \in 0 .. N : N - n \in S}
<1>1. T \subseteq Nat /\ T # {}
  <2>1. PICK n \in S : TRUE
    OBVIOUS
  <2>2. N - n \in 0 .. N /\ N - (N - n) = n
    OBVIOUS
  <2> QED BY <2>1, <2>2
<1>2. PICK m \in T : \A n \in T : m <= n
  <2> HIDE DEF T
  <2> QED BY <1>1, SmallestExists
<1>3. \A n \in S : n <= N - m
  <2> TAKE n \in S
  <2>1. n \in 0 .. N /\ N - n \in 0 .. N /\ N - (N - n) = n
    OBVIOUS
  <2>2. N - n \in T
    BY <2>1
  <2>3. m <= N - n /\ m \in 0 .. N
    BY <1>2, <2>2
  <2> QED BY <2>1, <2>3
<1>4. N - m \in S
  BY <1>2
<1> QED BY <1>3, <1>4

Worth(weight, score, confidence) == 10 * weight * score * confidence

LEMMA OneIsNat == Mapping!One \in Nat
BY SMT DEF Mapping!One

LEMMA TimesUpToTen ==
  ASSUME NEW n \in Nat, NEW a \in 0 .. 10, NEW b \in 0 .. n
  PROVE  a * b \in 0 .. 10 * n
<1>1. CASE a = 0
  BY <1>1
<1>2. CASE a = 1 \/ a = 2 \/ a = 3
  BY <1>2
<1>3. CASE a = 4 \/ a = 5 \/ a = 6
  BY <1>3
<1>4. CASE a = 7 \/ a = 8 \/ a = 9 \/ a = 10
  BY <1>4
<1> QED BY <1>1, <1>2, <1>3, <1>4

LEMMA WorthTyped ==
  ASSUME NEW a \in 0 .. 10, NEW b \in 0 .. 10, NEW c \in 0 .. 10
  PROVE  Worth(a, b, c) \in 0 .. Mapping!One
<1>1. PICK p : p = a * b
  OBVIOUS
<1>2. p \in 0 .. 100
  <2>1. 10 \in Nat /\ 10 * 10 = 100
    OBVIOUS
  <2> QED BY <1>1, <2>1, TimesUpToTen
<1>3. PICK q : q = c * p
  OBVIOUS
<1>4. q \in 0 .. 1000
  <2>1. 100 \in Nat /\ 10 * 100 = 1000
    OBVIOUS
  <2> QED BY <1>2, <1>3, <2>1, TimesUpToTen
<1>5. Worth(a, b, c) = 10 * q
  <2>1. a \in Int /\ b \in Int /\ c \in Int
    OBVIOUS
  <2> QED BY <1>1, <1>3, <2>1 DEF Worth
<1> QED BY <1>4, <1>5 DEF Mapping!One

LEMMA ScoresTyped == Scores \subseteq 0 .. 10 /\ 0 \in 0 .. 10
BY ReadersAssumption DEF Mapping!MappingAssumption

LEMMA DistanceTyped ==
  ASSUME NEW k \in Keys, NEW x \in Nat
  PROVE  Mapping!Distance(k, x) \in Nat
<1> DEFINE distances == {Mapping!Apart(s, x) : s \in Samples[k]}
<1>1. distances \subseteq Nat /\ distances # {}
  BY ReadersAssumption DEF Mapping!MappingAssumption, Mapping!Apart
<1>2. \E d \in distances : \A e \in distances : d <= e
  <2> HIDE DEF distances
  <2> QED BY <1>1, SmallestExists
<1>3. Mapping!Distance(k, x) \in distances
  BY <1>2 DEF Mapping!Distance
<1> QED BY <1>1, <1>3

\* The rank of a key in reach; rank one says that no key is nearer, nor as near
\* with a smaller id.
LEMMA RankTyped ==
  ASSUME NEW k, NEW x
  PROVE  Mapping!Rank(k, x) \in Nat \ {0}
<1>1. {j \in Mapping!InReach(x) : Mapping!Ahead(j, k, x)} \subseteq Keys
  BY DEF Mapping!InReach
<1>2. Cardinality({j \in Mapping!InReach(x) : Mapping!Ahead(j, k, x)}) \in Nat
  BY <1>1, FiniteConstants, FS_Subset, FS_CardinalityType
<1> QED BY <1>2, CardinalityIsCardinality DEF Mapping!Rank

Leads(k, x) ==
  \A j \in Keys \ {k} :
    \/ Mapping!Distance(k, x) < Mapping!Distance(j, x)
    \/ Mapping!Distance(k, x) = Mapping!Distance(j, x) /\ k < j

LEMMA FirstLeads ==
  ASSUME NEW x \in Nat, NEW k \in Mapping!InReach(x)
  PROVE  Mapping!Rank(k, x) = 1 <=> Leads(k, x)
<1> DEFINE ahead == {j \in Mapping!InReach(x) : Mapping!Ahead(j, k, x)}
<1>1. IsFiniteSet(ahead) /\ Cardinality(ahead) \in Nat
  <2>1. ahead \subseteq Keys
    BY DEF Mapping!InReach
  <2> QED
    <3> HIDE DEF ahead
    <3> QED BY <2>1, FiniteConstants, FS_Subset, FS_CardinalityType
<1>2. Mapping!Rank(k, x) = 1 <=> ahead = {}
  <2>1. Mapping!Rank(k, x) = 1 + Cardinality(ahead)
    BY CardinalityIsCardinality DEF Mapping!Rank
  <2>2. Cardinality(ahead) = 0 <=> ahead = {}
    <3> HIDE DEF ahead
    <3> QED BY <1>1, FS_EmptySet
  <2> HIDE DEF ahead
  <2> QED BY <1>1, <2>1, <2>2
<1>3. k \in Keys /\ Mapping!Distance(k, x) <= MaxDistance
  BY DEF Mapping!InReach
<1>4. \A j \in Keys : Mapping!Distance(j, x) \in Nat /\ j \in Nat
  BY DistanceTyped, ReadersAssumption DEF Mapping!MappingAssumption
<1>5. ahead = {} <=> \A j \in Keys \ {k} : ~(j \in ahead)
  BY <1>3, <1>4 DEF Mapping!InReach, Mapping!Ahead
<1>6. MaxDistance \in Nat
  BY ReadersAssumption DEF Mapping!MappingAssumption
<1>7. ASSUME NEW j \in Keys \ {k}
      PROVE  ~(j \in ahead) <=>
               \/ Mapping!Distance(k, x) < Mapping!Distance(j, x)
               \/ Mapping!Distance(k, x) = Mapping!Distance(j, x) /\ k < j
  BY <1>3, <1>4, <1>6 DEF Mapping!InReach, Mapping!Ahead
<1> HIDE DEF ahead
<1> QED BY <1>2, <1>5, <1>7 DEF Leads

\* The frames that are mapped: fingers seen, a usable pose of the calibrated
\* anchor, a mapper that returns and a guard that agrees.
Maps(in) ==
  /\ in.hands # None /\ in.pose # None /\ in.mapping = "done"
  /\ in.pose.usable /\ in.pose.current /\ in.pose.confidence >= MinPose

ResultOf(in) == Mapping!Fingertips(Mapping!Mapped(in))

LEMMA ResultIs ==
  ASSUME NEW in
  PROVE  /\ Maps(in) => ResultOf(in) = Mapping!Predictions(in.hands, in.pose)
         /\ ~Maps(in) => ResultOf(in) = {}
BY DEF Maps, ResultOf, Mapping!Fingertips, Mapping!Mapped, Mapping!Usable, Mapping!Evaluate,
       Mapping!NoResult

TipOf(in, t) == in.hands[t[1]].tip[t[2]]

LEMMA HandsTyped ==
  ASSUME NEW in \in Mapping!Inputs, in.hands # None
  PROVE  \E n \in 0 .. MaxHands :
           in.hands \in [1 .. n -> [score : Scores, tip : [Fingers -> Places]]]
BY DEF Mapping!Inputs, Mapping!Hand

LEMMA TipTyped ==
  ASSUME NEW in \in Mapping!Inputs, in.hands # None, NEW t \in Mapping!Tips(in.hands)
  PROVE  TipOf(in, t) \in Nat /\ in.hands[t[1]].score \in 0 .. 10 /\ t = <<t[1], t[2]>>
<1>1. PICK n \in 0 .. MaxHands :
        in.hands \in [1 .. n -> [score : Scores, tip : [Fingers -> Places]]]
  BY HandsTyped
<1>2. t[1] \in 1 .. n /\ t[2] \in Fingers /\ t = <<t[1], t[2]>>
  BY <1>1 DEF Mapping!Tips
<1>3. in.hands[t[1]] \in [score : Scores, tip : [Fingers -> Places]]
  BY <1>1, <1>2
<1> QED
  BY <1>2, <1>3, ReadersAssumption DEF TipOf, Mapping!MappingAssumption

LEMMA TipsFinite ==
  ASSUME NEW in \in Mapping!Inputs, in.hands # None
  PROVE  /\ IsFiniteSet(Mapping!Tips(in.hands))
         /\ Len(in.hands) \in Nat
         /\ Cardinality(Mapping!Tips(in.hands)) <= Len(in.hands) * Cardinality(Fingers)
<1>1. PICK n \in 0 .. MaxHands :
        in.hands \in [1 .. n -> [score : Scores, tip : [Fingers -> Places]]]
  BY HandsTyped
<1>2. MaxHands \in Nat /\ n \in Nat /\ Len(in.hands) = n
  BY <1>1, ReadersAssumption DEF Mapping!MappingAssumption
<1>3. IsFiniteSet(1 .. n) /\ Cardinality(1 .. n) = n
  BY <1>2, FS_Interval
<1>4. /\ IsFiniteSet((1 .. n) \X Fingers)
      /\ Cardinality((1 .. n) \X Fingers) = n * Cardinality(Fingers)
  BY <1>3, FiniteConstants, FS_Product
<1>5. Mapping!Tips(in.hands) \in SUBSET ((1 .. n) \X Fingers)
  BY <1>1 DEF Mapping!Tips
<1>6. /\ IsFiniteSet(Mapping!Tips(in.hands))
      /\ Cardinality(Mapping!Tips(in.hands)) <= Cardinality((1 .. n) \X Fingers)
  BY <1>4, <1>5, FS_Subset
<1> QED BY <1>2, <1>4, <1>6

LEMMA PoseTyped ==
  ASSUME NEW in \in Mapping!Inputs, in.pose # None
  PROVE  in.pose.confidence \in 0 .. 10 /\ in.pose.usable \in BOOLEAN
<1>1. in.pose \in Mapping!Pose
  BY DEF Mapping!Inputs
<1>2. in.pose.confidence \in Scores \cup {0}
  BY <1>1 DEF Mapping!Pose
<1>3. in.pose.usable \in BOOLEAN
  BY <1>1, Zenon DEF Mapping!Pose
<1>4. in.pose.confidence \in 0 .. 10
  BY <1>2, ScoresTyped
<1> QED BY <1>3, <1>4, Zenon

\* A candidate of a fingertip: its key is in reach, and what it is worth.
Offered(in, t, c) ==
  \E k \in Mapping!InReach(TipOf(in, t)) :
    /\ Mapping!Rank(k, TipOf(in, t)) <= TopN
    /\ c = Mapping!Candidate(k, Mapping!Rank(k, TipOf(in, t)), TipOf(in, t),
                             in.hands[t[1]].score, in.pose)

LEMMA PredictionIs ==
  ASSUME NEW in, Maps(in), NEW p
  PROVE  p \in ResultOf(in) <=>
           \E t \in Mapping!Tips(in.hands) :
             p = [bubble     |-> Mapping!Bubble(t[1], t[2]),
                  confidence |-> in.hands[t[1]].score,
                  candidates |-> Mapping!Candidates(TipOf(in, t), in.hands[t[1]].score, in.pose)]
BY ResultIs DEF Mapping!Predictions, TipOf

LEMMA CandidateIs ==
  ASSUME NEW in, NEW t, NEW c
  PROVE  c \in Mapping!Candidates(TipOf(in, t), in.hands[t[1]].score, in.pose)
           <=> Offered(in, t, c)
BY DEF Mapping!Candidates, Offered

LEMMA OfferedTyped ==
  ASSUME NEW in \in Mapping!Inputs, Maps(in), NEW t \in Mapping!Tips(in.hands),
         NEW c, Offered(in, t, c)
  PROVE  /\ c.key \in Keys
         /\ c.rank \in Nat \ {0}
         /\ c.rank = 1 <=> Leads(c.key, TipOf(in, t))
         /\ c.probability \in 0 .. Mapping!One
         /\ c.direct \in BOOLEAN
         /\ c.direct => c.rank = 1
<1>1. PICK k \in Mapping!InReach(TipOf(in, t)) :
        c = Mapping!Candidate(k, Mapping!Rank(k, TipOf(in, t)), TipOf(in, t),
                              in.hands[t[1]].score, in.pose)
  BY DEF Offered
<1>2. TipOf(in, t) \in Nat
  BY TipTyped DEF Maps
<1>3. k \in Keys
  BY DEF Mapping!InReach
<1>4. /\ Mapping!Rank(k, TipOf(in, t)) \in Nat \ {0}
      /\ Mapping!Rank(k, TipOf(in, t)) = 1 <=> Leads(k, TipOf(in, t))
  BY <1>2, RankTyped, FirstLeads
<1>5. /\ c.key = k /\ c.rank = Mapping!Rank(k, TipOf(in, t))
      /\ c.direct => c.rank = 1
  BY <1>1 DEF Mapping!Candidate
<1>6. c.direct \in BOOLEAN
  BY <1>1, Zenon DEF Mapping!Candidate
<1>7. c.probability \in 0 .. Mapping!One
  <2> DEFINE d == Mapping!Distance(k, TipOf(in, t))
  <2>1. d \in Nat /\ d <= MaxDistance
    BY <1>2, <1>3, DistanceTyped DEF Mapping!InReach
  <2>2. PICK w \in 0 .. 10 : w = Weight(d)
    BY <2>1, ReadersAssumption DEF Mapping!MappingAssumption
  <2>3. PICK s \in 0 .. 10 : s = in.hands[t[1]].score
    BY TipTyped DEF Maps
  <2>4. PICK q \in 0 .. 10 : q = in.pose.confidence
    BY PoseTyped DEF Maps
  <2>5. c.probability = Worth(w, s, q)
    BY <1>1, <2>2, <2>3, <2>4 DEF Mapping!Candidate, Worth
  <2>6. Worth(w, s, q) \in 0 .. Mapping!One
    BY WorthTyped
  <2> QED BY <2>5, <2>6
<1>8. c.rank \in Nat \ {0}
  BY <1>4, <1>5
<1>9. c.rank = 1 <=> Leads(c.key, TipOf(in, t))
  BY <1>4, <1>5
<1> QED BY <1>3, <1>5, <1>6, <1>7, <1>8, <1>9, Zenon

LEMMA IntensityTyped ==
  ASSUME NEW c, c.probability \in 0 .. Mapping!One
  PROVE  /\ Mapping!Intensity(c) \in 0 .. Mapping!One
         /\ c.rank = 1 => Mapping!Intensity(c) = c.probability
<1>1. c.probability * GlowScale \in Nat
  <2>1. GlowScale \in Nat /\ c.probability \in Nat
    BY ReadersAssumption DEF Mapping!MappingAssumption
  <2> QED BY <2>1
<1>2. (c.probability * GlowScale) \div 10 \in Nat
  <2>1. PICK x \in Nat : x = c.probability * GlowScale
    BY <1>1, Zenon
  <2>2. x \div 10 \in Nat
    OBVIOUS
  <2> QED BY <2>1, <2>2, Zenon
<1>3. Mapping!One \in Nat
  BY OneIsNat
<1>4. \A v \in Nat : Mapping!Clamp(v) \in 0 .. Mapping!One
  BY <1>3 DEF Mapping!Clamp
<1>5. Mapping!Clamp(c.probability) = c.probability /\ c.probability \in Nat
  BY <1>3 DEF Mapping!Clamp
<1> QED BY <1>2, <1>4, <1>5 DEF Mapping!Intensity

\* What one candidate lights, before the fingertips are merged.
Lights(in, t, c, h) ==
  /\ Offered(in, t, c) /\ (c.rank = 1 \/ Glow)
  /\ h = [key |-> c.key, intensity |-> Mapping!Intensity(c),
          contributors |-> {Mapping!Bubble(t[1], t[2])},
          direct |-> c.direct /\ Mapping!Intensity(c) >= DirectMin]

RawOf(in) == Mapping!RawHighlights(ResultOf(in))

LEMMA RawIs ==
  ASSUME NEW in, Maps(in), NEW h
  PROVE  h \in RawOf(in) <=> \E t \in Mapping!Tips(in.hands) : \E c : Lights(in, t, c, h)
<1>1. h \in RawOf(in) <=>
        \E p \in ResultOf(in) : \E c \in p.candidates :
          (c.rank = 1 \/ Glow) /\ h = Mapping!Highlight(c, p)
  BY DEF RawOf, Mapping!RawHighlights
<1>2. ASSUME NEW p \in ResultOf(in), NEW c \in p.candidates, c.rank = 1 \/ Glow,
             h = Mapping!Highlight(c, p)
      PROVE  \E t \in Mapping!Tips(in.hands) : \E d : Lights(in, t, d, h)
  <2>1. PICK t \in Mapping!Tips(in.hands) :
          /\ p.bubble = Mapping!Bubble(t[1], t[2])
          /\ p.candidates = Mapping!Candidates(TipOf(in, t), in.hands[t[1]].score, in.pose)
    BY PredictionIs
  <2>2. Offered(in, t, c)
    BY <2>1, CandidateIs
  <2> QED BY <1>2, <2>1, <2>2 DEF Lights, Mapping!Highlight
<1>3. ASSUME NEW t \in Mapping!Tips(in.hands), NEW c, Lights(in, t, c, h)
      PROVE  \E p \in ResultOf(in) : \E d \in p.candidates :
               (d.rank = 1 \/ Glow) /\ h = Mapping!Highlight(d, p)
  <2> DEFINE p == [bubble     |-> Mapping!Bubble(t[1], t[2]),
                   confidence |-> in.hands[t[1]].score,
                   candidates |-> Mapping!Candidates(TipOf(in, t), in.hands[t[1]].score, in.pose)]
  <2>1. p \in ResultOf(in)
    BY PredictionIs
  <2>2. c \in p.candidates
    BY <1>3, CandidateIs DEF Lights
  <2> QED BY <1>3, <2>1, <2>2 DEF Lights, Mapping!Highlight
<1> QED BY <1>1, <1>2, <1>3

LEMMA RawTyped ==
  ASSUME NEW in \in Mapping!Inputs, Maps(in), NEW h \in RawOf(in)
  PROVE  h.key \in Keys /\ h.intensity \in 0 .. Mapping!One
<1>1. PICK t \in Mapping!Tips(in.hands) : \E c : Lights(in, t, c, h)
  BY RawIs
<1>2. PICK c : Lights(in, t, c, h)
  BY <1>1
<1>3. c.key \in Keys /\ c.probability \in 0 .. Mapping!One
  BY <1>2, OfferedTyped DEF Lights
<1> QED BY <1>2, <1>3, IntensityTyped DEF Lights

\* One highlight of the keys that are lit: as bright as the brightest.
Mergeable(k, raw) ==
  /\ \A h \in raw : h.intensity \in 0 .. Mapping!One
  /\ \E h \in raw : h.key = k

Joins(m, k, raw) ==
  /\ m.key = k
  /\ m.intensity \in 0 .. Mapping!One
  /\ m.direct \in BOOLEAN
  /\ m.direct <=> \E h \in raw : h.key = k /\ h.direct
  /\ \A h \in raw : h.key = k =>
       h.intensity <= m.intensity /\ h.contributors \subseteq m.contributors

LEMMA MergedIs ==
  ASSUME NEW raw, NEW k, Mergeable(k, raw)
  PROVE  Joins(Mapping!Merged(k, raw), k, raw)
<1> DEFINE m == Mapping!Merged(k, raw)
<1> USE DEF Mergeable
<1> DEFINE same == {h \in raw : h.key = k}
           lights == {h.intensity : h \in same}
<1>1. lights \subseteq 0 .. Mapping!One /\ lights # {}
  OBVIOUS
<1>2. \E v \in lights : \A w \in lights : w <= v
  <2> HIDE DEF lights
  <2> QED BY <1>1, OneIsNat, LargestExists
<1>3. m.intensity = CHOOSE v \in lights : \A h \in same : h.intensity <= v
  BY DEF Mapping!Merged
<1>4. m.intensity \in lights /\ \A h \in same : h.intensity <= m.intensity
  BY <1>2, <1>3
<1>5. m.direct \in BOOLEAN
  BY Zenon DEF Mapping!Merged
<1>6. /\ m.key = k
      /\ m.direct <=> \E h \in same : h.direct
      /\ m.contributors = UNION {h.contributors : h \in same}
  BY DEF Mapping!Merged
<1>7. \A h \in same : h.contributors \subseteq m.contributors
  BY <1>6
<1>8. m.intensity \in 0 .. Mapping!One
  BY <1>1, <1>4
<1>9. m.direct <=> \E h \in raw : h.key = k /\ h.direct
  BY <1>6
<1>10. \A h \in raw : h.key = k =>
         h.intensity <= m.intensity /\ h.contributors \subseteq m.contributors
  BY <1>4, <1>7
<1> HIDE DEF m
<1> QED BY <1>5, <1>6, <1>8, <1>9, <1>10, Zenon DEF m, Joins

Lit(in) == Mapping!Aggregate(RawOf(in))

LEMMA NothingLit ==
  ASSUME NEW in, ~Maps(in)
  PROVE  ResultOf(in) = {} /\ RawOf(in) = {} /\ Lit(in) = {}
BY ResultIs DEF RawOf, Lit, Mapping!RawHighlights, Mapping!Aggregate

\* A key that is lit: merged from what some candidates light.
LEMMA LitIs ==
  ASSUME NEW in \in Mapping!Inputs, NEW h \in Lit(in)
  PROVE  /\ Maps(in)
         /\ h.key \in Keys /\ h.intensity \in 0 .. Mapping!One /\ h.direct \in BOOLEAN
         /\ h = Mapping!Merged(h.key, RawOf(in))
         /\ h.direct <=> \E g \in RawOf(in) : g.key = h.key /\ g.direct
         /\ \A g \in RawOf(in) : g.key = h.key =>
              g.intensity <= h.intensity /\ g.contributors \subseteq h.contributors
<1>1. Maps(in)
  BY NothingLit
<1>2. PICK k \in {g.key : g \in RawOf(in)} : h = Mapping!Merged(k, RawOf(in))
  BY DEF Lit, Mapping!Aggregate
<1>3. k \in Keys /\ \A g \in RawOf(in) : g.intensity \in 0 .. Mapping!One
  BY <1>1, RawTyped
<1>4. \E g \in RawOf(in) : g.key = k
  OBVIOUS
<1>5. /\ h.key = k
      /\ h.intensity \in 0 .. Mapping!One
      /\ h.direct \in BOOLEAN
      /\ h.direct <=> \E g \in RawOf(in) : g.key = k /\ g.direct
      /\ \A g \in RawOf(in) : g.key = k =>
           g.intensity <= h.intensity /\ g.contributors \subseteq h.contributors
  <2>1. Mergeable(k, RawOf(in))
    BY <1>3, <1>4, Zenon DEF Mergeable
  <2> QED BY <1>2, <2>1, MergedIs, Zenon DEF Joins
<1> QED BY <1>1, <1>2, <1>3, <1>5, Zenon

\* Every key some candidate lights is lit.
LEMMA RawIsLit ==
  ASSUME NEW in \in Mapping!Inputs, NEW g \in RawOf(in)
  PROVE  \E h \in Lit(in) : h.key = g.key
<1> DEFINE h == Mapping!Merged(g.key, RawOf(in))
<1>1. h \in Lit(in)
  BY DEF Lit, Mapping!Aggregate
<1>2. h.key = g.key
  BY DEF Mapping!Merged
<1> QED BY <1>1, <1>2

LEMMA EmittedIs ==
  ASSUME NEW in
  PROVE  /\ Mapping!Emitted(in).hands = (IF in.hands = None THEN <<>> ELSE in.hands)
         /\ Mapping!Emitted(in).pose = Mapping!PoseState(in)
         /\ Mapping!Emitted(in).fingertips = ResultOf(in)
         /\ Mapping!Emitted(in).highlights = Lit(in)
         /\ Mapping!Emitted(in).hovered = Lit(in)
BY DEF Mapping!Emitted, ResultOf, RawOf, Lit

LEMMA PoseStateTyped ==
  ASSUME NEW in \in Mapping!Inputs
  PROVE  Mapping!PoseState(in) \in [usable : BOOLEAN, confidence : 0 .. 10]
<1>1. CASE in.pose = None \/ in.mapping \in {"late", "objects"}
  <2>1. Mapping!PoseState(in) = [usable |-> FALSE, confidence |-> 0]
    BY <1>1 DEF Mapping!PoseState
  <2> QED BY <2>1
<1>2. CASE ~(in.pose = None \/ in.mapping \in {"late", "objects"})
  <2>1. Mapping!PoseState(in) = [usable |-> in.pose.usable, confidence |-> in.pose.confidence]
    BY <1>2 DEF Mapping!PoseState
  <2>2. in.pose.confidence \in 0 .. 10 /\ in.pose.usable \in BOOLEAN
    BY <1>2, PoseTyped
  <2> QED BY <2>1, <2>2
<1> QED BY <1>1, <1>2

\* The constructors take every fingertip.
LEMMA FingertipsTyped ==
  ASSUME NEW in \in Mapping!Inputs, NEW p \in ResultOf(in)
  PROVE  /\ p.confidence \in 0 .. 10
         /\ \A c \in p.candidates : c.rank > 0 /\ c.probability \in 0 .. Mapping!One
<1>1. Maps(in)
  BY NothingLit
<1>2. PICK t \in Mapping!Tips(in.hands) :
        /\ p.confidence = in.hands[t[1]].score
        /\ p.candidates = Mapping!Candidates(TipOf(in, t), in.hands[t[1]].score, in.pose)
  BY <1>1, PredictionIs
<1>3. p.confidence \in 0 .. 10
  BY <1>1, <1>2, TipTyped DEF Maps
<1>4. ASSUME NEW c \in p.candidates
      PROVE  c.rank > 0 /\ c.probability \in 0 .. Mapping!One
  <2>1. Offered(in, t, c)
    BY <1>2, CandidateIs
  <2> QED BY <1>1, <2>1, OfferedTyped
<1> QED BY <1>3, <1>4

LEMMA EmittedIsTaken ==
  ASSUME NEW in \in Mapping!Inputs
  PROVE  Mapping!Scene(in) = Mapping!Emitted(in)
<1>1. Mapping!PoseTaken(Mapping!Emitted(in).pose)
  BY PoseStateTyped, EmittedIs DEF Mapping!PoseTaken
<1>2. \A f \in Mapping!Emitted(in).fingertips : Mapping!FingertipTaken(f)
  BY FingertipsTyped, EmittedIs DEF Mapping!FingertipTaken
<1>3. \A h \in Mapping!Emitted(in).highlights : Mapping!HighlightTaken(h)
  BY LitIs, EmittedIs DEF Mapping!HighlightTaken
<1> QED BY <1>1, <1>2, <1>3 DEF Mapping!Taken, Mapping!Scene

\* The scene is the one made of the frame.
SceneInv ==
  /\ input \in Mapping!Inputs \cup {None}
  /\ scene # None => input # None /\ input \in Mapping!Inputs /\ scene = Mapping!Emitted(input)

LEMMA SceneInvariant == MCSpec => []SceneInv
<1>1. MCInit => SceneInv
  BY DEF MCInit, Mapping!Init, SceneInv
<1>2. SceneInv /\ [MCNext]_<<follows, serviceVars, input, scene, vars>> => SceneInv'
  <2> SUFFICES ASSUME SceneInv, [MCNext]_<<follows, serviceVars, input, scene, vars>>
               PROVE  SceneInv'
    OBVIOUS
  <2>1. CASE Mapping!FrameArrives
    BY <2>1 DEF SceneInv, Mapping!FrameArrives
  <2>2. CASE Mapping!Processes
    BY <2>2, EmittedIsTaken DEF SceneInv, Mapping!Processes
  <2>3. CASE UNCHANGED <<input, scene>>
    BY <2>3 DEF SceneInv
  <2> QED BY <2>1, <2>2, <2>3 DEF MCNext, Mapping!Next
<1> QED BY <1>1, <1>2, PTL DEF MCSpec

\* A direct key is the nearest key of one of the fingertips that light it.
LEMMA DirectIsNearest ==
  ASSUME SceneInv, scene # None, NEW h \in scene.highlights, h.direct
  PROVE  /\ h.intensity >= DirectMin
         /\ \E t \in Mapping!Counting :
              Mapping!Bubble(t[1], t[2]) \in h.contributors /\ Mapping!Nearest(h.key, t)
<1>1. input \in Mapping!Inputs /\ h \in Lit(input)
  BY EmittedIs DEF SceneInv
<1>2. Maps(input)
  BY <1>1, LitIs
<1>3. PICK g \in RawOf(input) : g.key = h.key /\ g.direct
  BY <1>1, LitIs
<1>4. g.intensity <= h.intensity /\ g.contributors \subseteq h.contributors
  BY <1>1, <1>3, LitIs
<1>5. PICK t \in Mapping!Tips(input.hands) : \E c : Lights(input, t, c, g)
  BY <1>2, RawIs
<1>6. PICK c : Lights(input, t, c, g)
  BY <1>5
<1>7. /\ c.key = h.key /\ c.direct /\ g.intensity >= DirectMin
      /\ Mapping!Bubble(t[1], t[2]) \in g.contributors
  BY <1>3, <1>6 DEF Lights
<1>8. Leads(h.key, TipOf(input, t))
  BY <1>1, <1>2, <1>6, <1>7, OfferedTyped DEF Lights
<1>9. t \in Mapping!Counting /\ Mapping!Nearest(h.key, t)
  BY <1>2, <1>8 DEF Maps, Mapping!Counting, Leads, Mapping!Nearest, Mapping!Tip, TipOf
<1>10. g.intensity \in Nat /\ h.intensity \in Nat /\ DirectMin \in Nat
  <2>1. DirectMin \in 0 .. Mapping!One
    BY ReadersAssumption DEF Mapping!MappingAssumption
  <2>2. h.intensity \in 0 .. Mapping!One
    BY <1>1, LitIs
  <2>3. g.intensity \in 0 .. Mapping!One
    BY <1>1, <1>2, RawTyped
  <2> QED BY <2>1, <2>2, <2>3, OneIsNat
<1>11. h.intensity >= DirectMin
  BY <1>4, <1>7, <1>10
<1> QED BY <1>4, <1>7, <1>9, <1>11

LEMMA CountingFinite ==
  ASSUME SceneInv, scene # None
  PROVE  IsFiniteSet(Mapping!Counting)
<1>1. input \in Mapping!Inputs
  BY DEF SceneInv
<1> QED BY <1>1, TipsFinite, FS_EmptySet DEF Mapping!Counting

\* Two keys are not both the nearest to a fingertip.
LEMMA NearestIsOne ==
  ASSUME SceneInv, scene # None, NEW t \in Mapping!Counting,
         NEW j \in Keys, NEW k \in Keys, Mapping!Nearest(j, t), Mapping!Nearest(k, t)
  PROVE  j = k
<1>1. Mapping!Tip(t) \in Nat
  <2>1. input \in Mapping!Inputs /\ input.hands # None /\ t \in Mapping!Tips(input.hands)
    BY DEF SceneInv, Mapping!Counting
  <2> QED BY <2>1, TipTyped DEF TipOf, Mapping!Tip
<1>2. /\ Mapping!Distance(j, Mapping!Tip(t)) \in Nat /\ Mapping!Distance(k, Mapping!Tip(t)) \in Nat
      /\ j \in Nat /\ k \in Nat
  BY <1>1, DistanceTyped, ReadersAssumption DEF Mapping!MappingAssumption
<1> QED BY <1>2 DEF Mapping!Nearest

\* So that there are no more direct keys than fingertips.
LEMMA DirectKeysAreFew ==
  ASSUME SceneInv, scene # None
  PROVE  Cardinality({h \in scene.highlights : h.direct}) <= Cardinality(Mapping!Counting)
<1> DEFINE D == {h \in scene.highlights : h.direct}
           nearest(h) == CHOOSE t \in Mapping!Counting : Mapping!Nearest(h.key, t)
           f == [h \in D |-> nearest(h)]
<1>1. ASSUME NEW h \in D
      PROVE  nearest(h) \in Mapping!Counting /\ Mapping!Nearest(h.key, nearest(h))
  BY DirectIsNearest
<1>2. ASSUME NEW g \in D, NEW h \in D, nearest(g) = nearest(h)
      PROVE  g = h
  <2>1. input \in Mapping!Inputs /\ g \in Lit(input) /\ h \in Lit(input)
    BY EmittedIs DEF SceneInv
  <2>2. /\ g.key \in Keys /\ h.key \in Keys
        /\ g = Mapping!Merged(g.key, RawOf(input)) /\ h = Mapping!Merged(h.key, RawOf(input))
    BY <2>1, LitIs
  <2>3. Mapping!Nearest(g.key, nearest(g)) /\ Mapping!Nearest(h.key, nearest(g))
    BY <1>1, <1>2
  <2>4. g.key = h.key
    <3> HIDE DEF nearest
    <3> QED BY <1>1, <2>2, <2>3, NearestIsOne
  <2> QED BY <2>2, <2>4
<1> HIDE DEF nearest
<1> HIDE DEF D
<1>3. f \in Injection(D, Mapping!Counting)
  <2>1. f \in [D -> Mapping!Counting] /\ \A h \in D : f[h] = nearest(h)
    BY <1>1
  <2>2. \A g, h \in D : f[g] = f[h] => g = h
    BY <1>2, <2>1
  <2> HIDE DEF f
  <2> QED BY <2>1, <2>2 DEF Injection, IsInjective
<1> HIDE DEF f
<1>4. Cardinality(D) <= Cardinality(Mapping!Counting)
  BY <1>3, CountingFinite, FS_Injection
<1> QED BY <1>4 DEF D

\* The nearest key of a fingertip, when in reach, is lit by it.
LEMMA NearestIsLit ==
  ASSUME SceneInv, scene # None, Maps(input), NEW t \in Mapping!Counting, NEW k \in Keys,
         Mapping!Nearest(k, t), Mapping!Distance(k, Mapping!Tip(t)) <= MaxDistance
  PROVE  \E h \in scene.highlights :
           /\ h.key = k /\ Mapping!Bubble(t[1], t[2]) \in h.contributors
           /\ h.intensity >= 10 * Weight(Mapping!Distance(k, Mapping!Tip(t)))
                * input.hands[t[1]].score * input.pose.confidence
<1>1. /\ input \in Mapping!Inputs /\ t \in Mapping!Tips(input.hands)
      /\ scene.highlights = Lit(input) /\ Mapping!Tip(t) = TipOf(input, t)
  BY EmittedIs DEF SceneInv, Maps, Mapping!Counting, Mapping!Tip, TipOf
<1>2. k \in Mapping!InReach(TipOf(input, t))
  BY <1>1 DEF Mapping!InReach
<1>3. Mapping!Rank(k, TipOf(input, t)) = 1
  <2>1. TipOf(input, t) \in Nat
    BY <1>1, TipTyped DEF Maps
  <2>2. Leads(k, TipOf(input, t))
    BY <1>1 DEF Leads, Mapping!Nearest
  <2> QED BY <1>2, <2>1, <2>2, FirstLeads
<1> DEFINE c == Mapping!Candidate(k, 1, TipOf(input, t), input.hands[t[1]].score, input.pose)
           g == [key |-> c.key, intensity |-> Mapping!Intensity(c),
                 contributors |-> {Mapping!Bubble(t[1], t[2])},
                 direct |-> c.direct /\ Mapping!Intensity(c) >= DirectMin]
<1>4. c.key = k /\ c.rank = 1
      /\ c.probability = 10 * Weight(Mapping!Distance(k, TipOf(input, t)))
           * input.hands[t[1]].score * input.pose.confidence
  BY DEF Mapping!Candidate
<1>5. Offered(input, t, c)
  <2>1. TopN \in Nat \ {0}
    BY ReadersAssumption DEF Mapping!MappingAssumption
  <2>2. 1 <= TopN
    BY <2>1
  <2> HIDE DEF c
  <2> QED BY <1>2, <1>3, <2>2 DEF Offered, c
<1>6. g \in RawOf(input)
  <2>1. Lights(input, t, c, g)
    <3> HIDE DEF c
    <3> QED BY <1>4, <1>5 DEF Lights
  <2> HIDE DEF c, g
  <2> QED BY <1>1, <2>1, RawIs
<1>7. /\ g.key = k /\ g.intensity = c.probability
      /\ Mapping!Bubble(t[1], t[2]) \in g.contributors
  <2>1. c.probability \in 0 .. Mapping!One
    <3> HIDE DEF c
    <3> QED BY <1>1, <1>5, OfferedTyped
  <2>2. Mapping!Intensity(c) = c.probability
    <3> HIDE DEF c
    <3> QED BY <1>4, <2>1, IntensityTyped
  <2> HIDE DEF c
  <2> QED BY <1>4, <2>2
<1> HIDE DEF g
<1>8. PICK h \in Lit(input) : h.key = k
  BY <1>1, <1>6, <1>7, RawIsLit
<1>9. g.intensity <= h.intensity /\ g.contributors \subseteq h.contributors
  BY <1>1, <1>6, <1>7, <1>8, LitIs
<1>10. g.intensity \in Nat /\ h.intensity \in Nat
  <2>1. Mapping!One \in Nat
    BY OneIsNat
  <2> QED BY <1>1, <1>6, <1>8, <2>1, LitIs, RawTyped
<1>11. h.intensity >= g.intensity
  BY <1>9, <1>10
<1> HIDE DEF c
<1> QED BY <1>1, <1>4, <1>7, <1>8, <1>9, <1>11

\* Whatever is lit is lit by fingertips: a direct key by one it is the nearest
\* key of, no more direct keys than fingertips; the nearest key of a fingertip,
\* when in reach, at least as brightly as it alone would be; and nothing
\* without a usable pose of the calibrated anchor or a result of the mapper,
\* or once the guard has objected (perception/pipeline.py:262-301, keyboard/interaction.py:220-253).
THEOREM OnlyFingersLight == MCSpec => []HighlightsFollowFingers
<1>1. SceneInv => HighlightsFollowFingers
  <2> SUFFICES ASSUME SceneInv, scene # None
               PROVE  Mapping!HighlightsFollowFingers
    BY DEF HighlightsFollowFingers, Mapping!HighlightsFollowFingers
  <2> DEFINE usable == /\ input.pose # None /\ input.pose.usable /\ input.pose.current
                       /\ input.pose.confidence >= MinPose /\ input.mapping = "done"
  <2>1. \A h \in scene.highlights : h.direct =>
          /\ h.intensity >= DirectMin
          /\ \E t \in Mapping!Counting :
               Mapping!Bubble(t[1], t[2]) \in h.contributors /\ Mapping!Nearest(h.key, t)
    BY DirectIsNearest
  <2>2. Mapping!Cardinality({h \in scene.highlights : h.direct})
          <= Mapping!Cardinality(Mapping!Counting)
    BY DirectKeysAreFew, CardinalityIsCardinality
  <2>3. ASSUME usable, NEW t \in Mapping!Counting, NEW k \in Keys,
               Mapping!Nearest(k, t), Mapping!Distance(k, Mapping!Tip(t)) <= MaxDistance
        PROVE  \E h \in scene.highlights :
                 /\ h.key = k /\ Mapping!Bubble(t[1], t[2]) \in h.contributors
                 /\ h.intensity >= 10 * Weight(Mapping!Distance(k, Mapping!Tip(t)))
                      * input.hands[t[1]].score * input.pose.confidence
    <3>1. Maps(input)
      BY <2>3 DEF Maps, Mapping!Counting
    <3> QED BY <2>3, <3>1, NearestIsLit
  <2>4. ~usable => scene.highlights = {}
    <3>1. ~usable => ~Maps(input)
      BY DEF Maps
    <3> QED BY <3>1, NothingLit, EmittedIs DEF SceneInv
  <2> QED BY <2>1, <2>2, <2>3, <2>4 DEF Mapping!HighlightsFollowFingers
<1> QED BY <1>1, SceneInvariant, PTL

LEMMA AtMostTen ==
  ASSUME NEW n \in Nat, n <= 2, NEW f \in 0 .. 5, NEW c \in Nat, c <= n * f
  PROVE  c <= 10
<1>1. n \in {0, 1, 2}
  OBVIOUS
<1>2. n * f <= 10 /\ n * f \in Nat
  BY <1>1
<1> QED BY <1>2

\* Two hands have no more fingertips than the strict reader takes.
LEMMA FingertipsAreFew ==
  ASSUME SceneInv, scene # None, Len(scene.hands) <= 2
  PROVE  Cardinality(scene.fingertips) <= 10
<1>1. input \in Mapping!Inputs /\ scene = Mapping!Emitted(input)
  BY DEF SceneInv
<1>2. Cardinality(Fingers) \in 0 .. 5
  <2>1. Cardinality(Fingers) \in Nat
    BY FiniteConstants, FS_CardinalityType
  <2>2. Cardinality(Fingers) <= 5
    BY ReadersAssumption, CardinalityIsCardinality DEF Mapping!MappingAssumption
  <2> QED BY <2>1, <2>2
<1>3. CASE ~Maps(input)
  <2>1. scene.fingertips = {}
    BY <1>1, <1>3, EmittedIs, NothingLit
  <2>2. Cardinality({}) = 0
    BY FS_EmptySet
  <2> QED BY <2>1, <2>2
<1>4. CASE Maps(input)
  <2> DEFINE T == Mapping!Tips(input.hands)
             f == [t \in T |->
                     [bubble     |-> Mapping!Bubble(t[1], t[2]),
                      confidence |-> input.hands[t[1]].score,
                      candidates |-> Mapping!Candidates(TipOf(input, t),
                                       input.hands[t[1]].score, input.pose)]]
  <2>1. f \in Surjection(T, ResultOf(input))
    <3>1. f \in [T -> ResultOf(input)]
      BY <1>4, PredictionIs
    <3>2. \A p \in ResultOf(input) : \E t \in T : f[t] = p
      BY <1>4, PredictionIs
    <3> HIDE DEF f, T
    <3> QED BY <3>1, <3>2 DEF Surjection
  <2>2. IsFiniteSet(T) /\ Cardinality(T) \in Nat
    BY <1>1, <1>4, TipsFinite, FS_CardinalityType DEF Maps
  <2>3. Cardinality(T) <= 10
    <3>1. PICK n \in Nat : n = Len(input.hands) /\ Cardinality(T) <= n * Cardinality(Fingers)
      BY <1>1, <1>4, TipsFinite DEF Maps
    <3>2. n <= 2
      BY <1>1, <1>4, <3>1, EmittedIs DEF Maps
    <3> HIDE DEF T
    <3> QED BY <1>2, <2>2, <3>1, <3>2, AtMostTen
  <2> HIDE DEF T, f
  <2>4. /\ Cardinality(ResultOf(input)) <= Cardinality(T)
        /\ Cardinality(ResultOf(input)) \in Nat
    BY <2>1, <2>2, FS_Surjection, FS_CardinalityType
  <2>5. Cardinality(ResultOf(input)) <= 10
    BY <2>2, <2>3, <2>4
  <2> QED BY <1>1, <2>5, EmittedIs
<1> QED BY <1>3, <1>4

\* No frame, of however many hands and fingers, is lost to a state that its own
\* constructors refuse; the demo's adapter takes all that is emitted; and the
\* remote protocol refuses exactly the frames of more than two hands or 256 lit
\* keys (state/scene_state.py:146-149, web/settings.py:184,
\* remote_inference.py:439-462, state_adapter.py:465-508).
THEOREM ReadersAccept == MCSpec => []EmittedIsAccepted
<1>1. SceneInv => EmittedIsAccepted
  <2> SUFFICES ASSUME SceneInv, scene # None
               PROVE  Mapping!EmittedIsAccepted
    BY DEF EmittedIsAccepted, Mapping!EmittedIsAccepted
  <2>1. /\ input \in Mapping!Inputs
        /\ scene.hands = (IF input.hands = None THEN <<>> ELSE input.hands)
        /\ scene.pose = Mapping!PoseState(input)
        /\ scene.fingertips = ResultOf(input)
        /\ scene.highlights = Lit(input) /\ scene.hovered = Lit(input)
    BY EmittedIs DEF SceneInv
  <2>2. scene.pose \in [usable : BOOLEAN, confidence : 0 .. 10]
    BY <2>1, PoseStateTyped
  <2>3. scene # Mapping!Blank
    <3>1. scene.pose # None
      BY <2>2, ReadersAssumption DEF Mapping!MappingAssumption
    <3> QED BY <3>1 DEF Mapping!Blank
  <2>4. Mapping!ValidKeyboard(scene.pose)
    BY <2>2, Zenon DEF Mapping!ValidKeyboard
  <2>5. \A h \in Mapping!Range(scene.hands) : Mapping!ValidHand(h)
    <3>1. CASE input.hands = None
      BY <2>1, <3>1 DEF Mapping!Range
    <3>2. CASE input.hands # None
      <4>1. PICK n \in 0 .. MaxHands :
              input.hands \in [1 .. n -> [score : Scores, tip : [Fingers -> Places]]]
        BY <2>1, <3>2, HandsTyped
      <4>2. scene.hands = input.hands /\ DOMAIN input.hands = 1 .. n
        BY <2>1, <3>2, <4>1
      <4>3. \A i \in 1 .. n : input.hands[i].score \in 0 .. 10
        BY <4>1, ScoresTyped
      <4> QED BY <4>2, <4>3 DEF Mapping!Range, Mapping!ValidHand
    <3> QED BY <3>1, <3>2
  <2>6. \A f \in scene.fingertips : Mapping!ValidFingertip(f)
    BY <2>1, FingertipsTyped DEF Mapping!ValidFingertip
  <2>7. \A h \in scene.highlights : h.key \in Keys /\ Mapping!ValidHighlight(h)
    BY <2>1, LitIs DEF Mapping!ValidHighlight
  <2>8. \A g, h \in scene.highlights : g.key = h.key => g = h
    BY <2>1, LitIs
  <2>9. Mapping!RemoteAccepts(scene) <=>
          Len(scene.hands) <= 2 /\ Mapping!Cardinality(scene.highlights) <= 256
    <3>1. Mapping!RemoteAccepts(scene) <=> Mapping!WithinLimits(scene)
      BY <2>1, <2>4, <2>5, <2>6, <2>7 DEF Mapping!RemoteAccepts
    <3>2. Len(scene.hands) <= 2 => Mapping!Cardinality(scene.fingertips) <= 10
      BY FingertipsAreFew, CardinalityIsCardinality
    <3> QED BY <3>1, <3>2 DEF Mapping!WithinLimits
  <2>10. Mapping!AdapterAccepts(scene)
    BY <2>1, <2>7, <2>8 DEF Mapping!AdapterAccepts
  <2> QED BY <2>3, <2>9, <2>10 DEF Mapping!EmittedIsAccepted
<1> QED BY <1>1, SceneInvariant, PTL

LEMMA SceneTyped == SceneInv => Mapping!TypeOK
<1> SUFFICES ASSUME SceneInv
             PROVE  Mapping!TypeOK
  OBVIOUS
<1>1. input \in Mapping!Inputs \cup {None}
  BY DEF SceneInv
<1>2. ASSUME scene # None, scene.pose # None
      PROVE  Mapping!ValidKeyboard(scene.pose)
  <2>1. scene.pose \in [usable : BOOLEAN, confidence : 0 .. 10]
    BY <1>2, EmittedIs, PoseStateTyped DEF SceneInv
  <2> QED BY <2>1, Zenon DEF Mapping!ValidKeyboard
<1>3. ASSUME scene # None, NEW h \in scene.highlights
      PROVE  h.key \in Keys /\ h.direct \in BOOLEAN
  BY <1>3, EmittedIs, LitIs DEF SceneInv
<1> QED BY <1>1, <1>2, <1>3 DEF Mapping!TypeOK

LEMMA AdapterInvariant == MCSpec => []IInv
<1>1. MCInit => IInv
  BY InitHolds DEF MCInit
<1>2. IInv /\ [MCNext]_<<follows, serviceVars, input, scene, vars>> => IInv'
  <2>1. [MCNext]_<<follows, serviceVars, input, scene, vars>> => [Next]_vars
    BY DEF MCNext, vars
  <2> QED BY <2>1, StepKeeps
<1> QED BY <1>1, <1>2, PTL DEF MCSpec

\* Services, scenes and the adapter keep their types.
THEOREM ServeTypesCorrect == MCSpec => []AllTypesOK
<1>1. IInv => TypeOK
  BY DEF IInv
<1>2. Services!ServiceTypeOK /\ SceneInv /\ IInv => AllTypesOK
  BY <1>1, SceneTyped DEF AllTypesOK
<1> QED BY <1>2, ServiceTypeCorrect, SceneInvariant, AdapterInvariant, PTL
=============================================================================
