--------------------------- MODULE ServiceStartup ---------------------------
(***************************************************************************)
(* Several MikoType processes with one config file on one host: the search *)
(* for a running service and the reservation of a port (web/binding.py,    *)
(* main.py:_serve), and the settings each of them saves to the one local   *)
(* override file (web/settings.py, core/config.py, runtime_camera.py).     *)
(*                                                                         *)
(* A configuration is three fields: the preferred port, the camera, which  *)
(* a request may switch live, and the preview direction, likewise.  Two    *)
(* configurations have one revision when they are equal.  A port is held   *)
(* by whoever has a socket bound to it, for a probe as for a service.      *)
(***************************************************************************)
EXTENDS Naturals, Sequences, FiniteSets, SequencesExt

CONSTANTS
  Procs,
  AutoPorts,      \* AUTO_PORT_START to AUTO_PORT_END, in order
  OtherPorts,     \* ports outside of that range
  Commands,       \* what a process is started with: [port, strict, workspace]
  ForeignPorts,   \* what another program holds at first
  Values,         \* what a field other than the port may be
  MaxBoots,       \* bound: processes started
  MaxRequests,    \* bound: settings requests made
  MaxEvents,      \* bound: both together
  MaxFields,      \* bound: fields one request changes
  Foreign, None

Ports == Range(AutoPorts) \cup OtherPorts

Config == [port : Ports, camera : Values, view : Values]

ServiceAssumption ==
  /\ AutoPorts \in Seq(Nat) /\ AutoPorts # <<>> /\ IsInjective(AutoPorts)
  /\ Ports \subseteq Nat \ {0}
  /\ \A c \in Commands : c.port \in Ports \cup {None} /\ c.strict \in BOOLEAN
  /\ ForeignPorts \subseteq Ports
  /\ Foreign \notin Procs /\ None \notin Procs /\ Values # {}
  /\ MaxBoots \in Nat /\ MaxRequests \in Nat /\ MaxEvents \in Nat /\ MaxFields \in Nat

VARIABLES
  override,   \* the *.local.yaml beside the config file: some of the fields
  held,       \* who has bound each port
  phase,      \* per process: where _serve is
  cmd,        \* its command line
  active,     \* active_config, whose revision the service reports
  configured, \* _configured_config
  restart,    \* _restart_required
  next,       \* the candidate port it is at
  waiting,    \* occupied ports whose HTTP probe has not ended
  matching,   \* ports where a service without a mismatch answered
  strange,    \* ports where a service with a mismatch answered
  live,       \* the camera or view request under way
  earlier,    \* history: services it could have been answered by all along
  behind,     \* history: processes whose view of the override file is old
  boots, requests

looking == <<next, waiting, matching, strange>>
settings == <<override, active, configured, restart, live, behind, requests>>
serviceVars == <<held, phase, cmd, looking, settings, earlier, boots>>

-----------------------------------------------------------------------------
(* Configurations and commands.                                            *)

Base == [port |-> Head(AutoPorts), camera |-> CHOOSE v \in Values : TRUE,
         view |-> CHOOSE v \in Values : TRUE]

\* What f has, and for the rest what g has.
Over(f, g) ==
  [x \in DOMAIN f \cup DOMAIN g |-> IF x \in DOMAIN f THEN f[x] ELSE g[x]]

\* load_config, with the override file `o`.
Loaded(o) == Over(o, Base)

\* The requested configuration: what a command line has, it overrides.
Requested(c, o) ==
  IF c.port = None THEN Loaded(o) ELSE [Loaded(o) EXCEPT !.port = c.port]

\* A port of the range in front of the others.
Preferring(port) ==
  <<port>> \o RemoveAt(AutoPorts, CHOOSE i \in DOMAIN AutoPorts : AutoPorts[i] = port)

\* Mutant: a preferred port outside of the range is tried first, all the same.
CandidatesBeyond(p) ==
  IF active[p].port \in Range(AutoPorts) THEN Preferring(active[p].port)
  ELSE <<active[p].port>> \o AutoPorts
\* A preferred port outside of the range is not a candidate of an automatic start.
Candidates(p) ==
  IF cmd[p].strict THEN <<active[p].port>>
  ELSE IF active[p].port \in Range(AutoPorts) THEN Preferring(active[p].port)
  ELSE AutoPorts

Port(p) == Candidates(p)[next[p]]

\* service_identity_mismatch is None: the config file is the same anyway.
Matches(q, p) ==
  cmd[q].workspace = cmd[p].workspace /\ active[q] = active[p]

-----------------------------------------------------------------------------
ServiceInit ==
  /\ override \in {<<>>} \cup [{"port"} -> OtherPorts]
  /\ held = [x \in Ports |-> IF x \in ForeignPorts THEN Foreign ELSE None]
  /\ phase = [p \in Procs |-> "off"]
  /\ cmd = [p \in Procs |-> None]
  /\ active = cmd /\ configured = cmd /\ live = cmd
  /\ restart = [p \in Procs |-> FALSE]
  /\ next = [p \in Procs |-> 1]
  /\ waiting = [p \in Procs |-> {}]
  /\ matching = waiting /\ strange = waiting /\ earlier = waiting
  /\ behind = {}
  /\ boots = 0 /\ requests = 0

-----------------------------------------------------------------------------
(* _serve, up to the point where the service answers.                      *)

MayHappen == boots + requests < MaxEvents

Goes(p, to) == phase' = [phase EXCEPT ![p] = to]

\* The configuration is loaded; a strict start probes its one port over HTTP
\* without a bind check.
Starts(p) ==
  /\ phase[p] = "off" /\ boots < MaxBoots /\ MayHappen
  /\ boots' = boots + 1
  /\ \E c \in Commands :
       /\ cmd' = [cmd EXCEPT ![p] = c]
       /\ active' = [active EXCEPT ![p] = Requested(c, override)]
       /\ Goes(p, IF c.strict THEN "asking" ELSE "looking")
       /\ waiting' = [waiting EXCEPT ![p] = IF c.strict THEN {active'[p].port} ELSE {}]
  /\ behind' = behind \ {p}
  /\ UNCHANGED <<override, held, configured, restart, live, next, matching,
                 strange, requests>>
  /\ earlier' = [earlier EXCEPT ![p] =
       {q \in Procs \ {p} :
          /\ phase[q] = "serving" /\ Matches(q, p)'
          /\ \E x \in Ports :
               /\ held[x] = q
               /\ IF cmd'[p].strict THEN x = active'[p].port ELSE x \in Range(AutoPorts)}]

\* Mutant: the search ends at the first port that can be bound.
AdvancesToFree(p) ==
  IF next[p] < Len(Candidates(p)) /\ held[Port(p)] # p
    THEN next' = [next EXCEPT ![p] = @ + 1] /\ UNCHANGED phase
    ELSE next' = [next EXCEPT ![p] = 1] /\ Goes(p, "asking")
\* On to the next candidate; after the last one the occupied ones are asked.
Advances(p) ==
  IF next[p] < Len(Candidates(p))
    THEN next' = [next EXCEPT ![p] = @ + 1] /\ UNCHANGED phase
    ELSE next' = [next EXCEPT ![p] = 1] /\ Goes(p, "asking")

\* discover_mikotype_services: a temporary bind on each candidate in turn.
ProbesPort(p) ==
  /\ phase[p] = "looking"
  /\ CASE held[Port(p)] = None ->
            held' = [held EXCEPT ![Port(p)] = p] /\ UNCHANGED <<phase, next, waiting>>
       [] held[Port(p)] = p ->
            held' = [held EXCEPT ![Port(p)] = None] /\ Advances(p) /\ UNCHANGED waiting
       [] OTHER ->
            /\ waiting' = [waiting EXCEPT ![p] = @ \cup {Port(p)}]
            /\ Advances(p) /\ UNCHANGED held
  /\ UNCHANGED <<cmd, matching, strange, settings, earlier, boots>>

\* probe_mikotype_service: what serves there says which service it is.
IsAnswered(p, x) ==
  /\ phase[p] = "asking" /\ x \in waiting[p]
  /\ waiting' = [waiting EXCEPT ![p] = @ \ {x}]
  /\ held[x] \in Procs /\ phase[held[x]] = "serving"
  /\ IF Matches(held[x], p)
       THEN matching' = [matching EXCEPT ![p] = @ \cup {x}] /\ UNCHANGED strange
       ELSE strange' = [strange EXCEPT ![p] = @ \cup {x}] /\ UNCHANGED matching
  /\ UNCHANGED <<held, phase, cmd, next, settings, earlier, boots>>

\* Nobody listens, a program of another kind answers, a reserved port is not
\* served yet, or a service is too slow.
IsNotAnswered(p, x) ==
  /\ phase[p] = "asking" /\ x \in waiting[p]
  /\ waiting' = [waiting EXCEPT ![p] = @ \ {x}]
  /\ earlier' = [earlier EXCEPT ![p] = @ \ {held[x]}]
  /\ UNCHANGED <<held, phase, cmd, next, matching, strange, settings, boots>>

AllAnswered(p) ==
  /\ phase[p] = "asking" /\ waiting[p] = {}
  /\ Goes(p, IF matching[p] # {} THEN "reused"
             ELSE IF cmd[p].strict /\ strange[p] # {} THEN "refused"
             ELSE "reserving")
  /\ matching' = [matching EXCEPT ![p] = {}]
  /\ strange' = [strange EXCEPT ![p] = {}]
  /\ UNCHANGED <<held, cmd, next, waiting, settings, earlier, boots>>

\* reserve_loopback_endpoint: the first candidate that can be bound.
Reserves(p) ==
  /\ phase[p] = "reserving"
  /\ IF held[Port(p)] = None
       THEN /\ held' = [held EXCEPT ![Port(p)] = p]
            /\ next' = [next EXCEPT ![p] = 1] /\ Goes(p, "building")
     ELSE IF next[p] < Len(Candidates(p))
       THEN next' = [next EXCEPT ![p] = @ + 1] /\ UNCHANGED <<held, phase>>
     ELSE Goes(p, "refused") /\ UNCHANGED <<held, next>>
  /\ UNCHANGED <<cmd, waiting, matching, strange, settings, earlier, boots>>

\* build_runtime, the settings controller, the camera; then the server answers.
Serves(p) ==
  /\ phase[p] = "building"
  /\ Goes(p, "serving")
  /\ configured' = [configured EXCEPT ![p] = active[p]]
  /\ restart' = [restart EXCEPT ![p] = FALSE]
  /\ UNCHANGED <<held, cmd, looking, override, active, live, behind, requests,
                 earlier, boots>>

\* The process ends, after a stop or a failure, and its sockets and memory
\* with it.
Ends(p) ==
  LET Reset(f, value) == [f EXCEPT ![p] = value]
  IN /\ phase[p] # "off"
     /\ Goes(p, "off")
     /\ held' = [x \in Ports |-> IF held[x] = p THEN None ELSE held[x]]
     /\ cmd' = Reset(cmd, None) /\ active' = Reset(active, None)
     /\ configured' = Reset(configured, None) /\ live' = Reset(live, None)
     /\ restart' = Reset(restart, FALSE) /\ next' = Reset(next, 1)
     /\ waiting' = Reset(waiting, {})
     /\ matching' = Reset(matching, {}) /\ strange' = Reset(strange, {})
     /\ behind' = behind \ {p}
     /\ earlier' = [q \in Procs |-> IF q = p THEN {} ELSE earlier[q] \ {p}]
     /\ UNCHANGED <<override, boots, requests>>

ForeignLeaves ==
  \E x \in Ports :
    /\ held[x] = Foreign
    /\ held' = [held EXCEPT ![x] = None]
    /\ UNCHANGED <<phase, cmd, looking, settings, earlier, boots>>

-----------------------------------------------------------------------------
(* RuntimeSettingsController of a serving process.                         *)

\* A change of some fields to values that SettingField.normalize takes.
Changed == {S \in SUBSET {"port", "camera", "view"} : Cardinality(S) <= MaxFields}
Changes == UNION {[S -> Ports \cup Values] : S \in Changed}
LegalChanges == {c \in Changes : Over(c, Base) \in Config}

\* Mutant: the flag compares what was configured before.
FlagsBefore(p, o) ==
  /\ configured' = [configured EXCEPT ![p] = Loaded(o)]
  /\ restart' = [restart EXCEPT ![p] = configured[p] # active[p]]
\* The combined configuration is read again before the save is acknowledged.
ReadsBack(p, o) ==
  /\ configured' = [configured EXCEPT ![p] = Loaded(o)]
  /\ restart' = [restart EXCEPT ![p] = Loaded(o) # active[p]]

\* The override file is replaced, which makes every other process's view of it
\* old; reading it back may fail, which makes this one's old, too.
Writes(p, o) ==
  /\ override' = o
  /\ behind' = {q \in Procs \ {p} : phase[q] # "off"}
  /\ ReadsBack(p, o)
WritesOnly(p, o) ==
  /\ override' = o
  /\ behind' = {q \in Procs : phase[q] # "off"}
  /\ UNCHANGED <<configured, restart>>

\* save: every field of the configured configuration, with the changes.
Merged(p, changes) == Over(changes, configured[p])
Only(field, value) == [f \in {field} |-> value]

\* A settings request of the parameter editor: a save or a reset.
EditsSettings(p) ==
  /\ phase[p] = "serving" /\ requests < MaxRequests /\ MayHappen
  /\ requests' = requests + 1
  /\ \E o \in {Merged(p, c) : c \in LegalChanges} \cup {<<>>} :
       Writes(p, o) \/ WritesOnly(p, o)
  /\ UNCHANGED <<held, phase, cmd, looking, active, live, earlier, boots>>

\* accept_active_camera, accept_active_view: the revision changes, and with
\* it who this service is.
\* Mutant: the flag is left as it was.
AcceptsQuietly(p, field, value) ==
  /\ active' = [active EXCEPT ![p][field] = value]
  /\ UNCHANGED restart
  /\ earlier' = [q \in Procs |-> earlier[q] \ {p}]
Accepts(p, field, value) ==
  /\ active' = [active EXCEPT ![p][field] = value]
  /\ restart' = [restart EXCEPT ![p] = configured[p] # active'[p]]
  /\ earlier' = [q \in Procs |-> earlier[q] \ {p}]

\* _apply_camera: the camera is switched and accepted, and saved then.
SwitchesCamera(p) ==
  /\ phase[p] = "serving" /\ live[p] = None /\ requests < MaxRequests /\ MayHappen
  /\ requests' = requests + 1
  /\ \E v \in Values :
       /\ Accepts(p, "camera", v)
       /\ live' = [live EXCEPT ![p] = [field |-> "camera", value |-> v]]
  /\ UNCHANGED <<held, phase, cmd, looking, override, configured, behind, boots>>

SavesCamera(p) ==
  /\ live[p] # None /\ live[p].field = "camera"
  /\ LET o == Merged(p, Only("camera", live[p].value))
     IN \/ Writes(p, o) \/ WritesOnly(p, o)
        \/ UNCHANGED <<override, configured, restart, behind>>
  /\ live' = [live EXCEPT ![p] = None]
  /\ UNCHANGED <<held, phase, cmd, looking, active, requests, earlier, boots>>

\* apply_view: saved first, and accepted only when that was acknowledged.
SwitchesView(p) ==
  /\ phase[p] = "serving" /\ live[p] = None /\ requests < MaxRequests /\ MayHappen
  /\ requests' = requests + 1
  /\ \E v \in Values :
       \/ /\ Writes(p, Merged(p, Only("view", v)))
          /\ live' = [live EXCEPT ![p] = [field |-> "view", value |-> v]]
       \/ WritesOnly(p, Merged(p, Only("view", v))) /\ UNCHANGED live
  /\ UNCHANGED <<held, phase, cmd, looking, active, earlier, boots>>

AcceptsView(p) ==
  /\ live[p] # None /\ live[p].field = "view"
  /\ Accepts(p, "view", live[p].value)
  /\ live' = [live EXCEPT ![p] = None]
  /\ UNCHANGED <<held, phase, cmd, looking, override, configured, behind, requests, boots>>

ServiceNext ==
  \/ \E p \in Procs :
       \/ Starts(p) \/ ProbesPort(p) \/ AllAnswered(p)
       \/ \E x \in Ports : IsAnswered(p, x) \/ IsNotAnswered(p, x)
       \/ Reserves(p) \/ Serves(p) \/ Ends(p)
       \/ EditsSettings(p)
       \/ SwitchesCamera(p) \/ SavesCamera(p) \/ SwitchesView(p) \/ AcceptsView(p)
  \/ ForeignLeaves

-----------------------------------------------------------------------------
ServiceTypeOK ==
  /\ Loaded(override) \in Config
  /\ held \in [Ports -> Procs \cup {Foreign, None}]
  /\ phase \in [Procs -> {"off", "looking", "asking", "reserving", "building",
                          "serving", "reused", "refused"}]
  /\ cmd \in [Procs -> Commands \cup {None}]
  /\ active \in [Procs -> Config \cup {None}]
  /\ configured \in [Procs -> Config \cup {None}]
  /\ restart \in [Procs -> BOOLEAN]
  /\ next \in [Procs -> 1 .. Len(AutoPorts)]
  /\ waiting \in [Procs -> SUBSET Ports] /\ matching \in [Procs -> SUBSET Ports]
  /\ strange \in [Procs -> SUBSET Ports]
  /\ live \in [Procs -> [field : {"camera", "view"}, value : Values] \cup {None}]
  /\ earlier \in [Procs -> SUBSET Procs] /\ behind \subseteq Procs

\* A process opens no second runtime, and no start is turned away, when a
\* matching service ran on one of its candidate ports all the while it looked
\* and answered in time (README.md:260-262, web/README.md:138-140).  Two
\* starts that overlap are not covered: neither answers the other yet.
RunningServiceIsReused ==
  \A p \in Procs : phase[p] \in {"building", "serving", "refused"} => earlier[p] = {}

\* A service that asks for no restart would come up with just the settings it
\* runs with, also after saves that failed half way and live switches; and
\* unless its command line overrides the port, one that asks for a restart
\* needs it.  Of a file another process has written it cannot know.
RestartFlagHonest ==
  \A p \in Procs :
    phase[p] = "serving" /\ p \notin behind =>
      LET needed == Requested(cmd[p], override) # active[p]
      IN (needed => restart[p]) /\ (restart[p] /\ cmd[p].port = None => needed)
=============================================================================
