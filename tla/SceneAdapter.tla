---------------------------- MODULE SceneAdapter ----------------------------
(***************************************************************************)
(* SceneStateAdapter (demo/steamvr_home_hybrid/state_adapter.py): the      *)
(* renderer's end of a stream of numbered states.  States of several       *)
(* sessions arrive late, twice, out of order or not at all, on more than   *)
(* one thread, and a renderer asks for a snapshot.  Every caller reads the *)
(* clock before it has the lock.                                           *)
(*                                                                         *)
(* A state that can be shown is known by its source; the others, without a *)
(* keyboard or of the wrong revision or shape (_adapt_state raises), by    *)
(* None.  The session None stands for an invalid session or number.        *)
(***************************************************************************)
EXTENDS Naturals

CONSTANTS
  Sessions, Sources,
  Receivers,    \* threads that ingest
  Ttl,
  MaxSequence, MaxNow,   \* bounds
  None

ASSUME AdapterAssumption ==
  Ttl \in Nat \ {0} /\ MaxSequence \in Nat /\ MaxNow \in Nat
  /\ None \notin Sources \cup Sessions

VARIABLES
  now,      \* the monotonic clock
  session,  \* _active_session_id
  retired,  \* _retired_session_ids
  last,     \* _last_sequence + 1
  source,   \* _source_id
  latest,   \* _latest and _latest_received_at_ns
  calls,    \* per receiver: the ingest that waits for the lock
  asking,   \* when the renderer's call read the clock
  shown,    \* the snapshot it got just now
  heard,    \* history: the sessions of which a state was ingested
  newest    \* history: the highest numbered state of the active one

adapter == <<session, retired, last, source, latest>>
vars == <<now, adapter, calls, asking, shown, heard, newest>>

-----------------------------------------------------------------------------
Bodies == Sources \cup {None}

Call == [session : Sessions \cup {None}, sequence : 0 .. MaxSequence, body : Bodies, at : 0 .. MaxNow]
Latest == [sequence : 0 .. MaxSequence, at : 0 .. MaxNow]

Init ==
  /\ now = 0 /\ session = None /\ retired = {} /\ last = 0
  /\ source = None /\ latest = None
  /\ calls = [r \in Receivers |-> None] /\ asking = None
  /\ shown = None
  /\ heard = {} /\ newest = None

Ticks ==
  /\ now < MaxNow /\ now' = now + 1
  /\ shown' = None
  /\ UNCHANGED <<adapter, calls, asking, heard, newest>>

-----------------------------------------------------------------------------
\* _snapshot_locked, called with a clock reading: what is left of the latest.
Unexpired(at) ==
  IF latest # None /\ at >= latest.at + Ttl THEN None ELSE latest

Calls(r) ==
  /\ calls[r] = None
  /\ \E c \in Call :
       /\ c.at = now /\ (c.session = None => c.sequence = 0 /\ c.body = None)
       /\ calls' = [calls EXCEPT ![r] = c]
  /\ shown' = None
  /\ UNCHANGED <<now, adapter, asking, heard, newest>>

\* The history: a number seen before tells nothing new.
Notes(c) ==
  /\ heard' = heard \cup ({c.session} \ {None})
  /\ newest' = IF \/ c.session \notin {session'} \ {None}
                  \/ session' = session /\ newest.sequence >= c.sequence
                 THEN newest
                 ELSE [sequence |-> c.sequence, body |-> c.body, at |-> c.at]

\* No session or no number at all.
Invalid(c) ==
  /\ c.session = None
  /\ latest' = None
  /\ UNCHANGED <<session, retired, last, source>>

\* A session that was left.
Retired(c) ==
  /\ c.session \in retired
  /\ latest' = Unexpired(c.at)
  /\ UNCHANGED <<session, retired, last, source>>

\* A duplicate, or late.
Old(c) ==
  /\ c.session # None /\ session = c.session /\ c.sequence < last
  /\ latest' = Unexpired(c.at)
  /\ UNCHANGED <<session, retired, last, source>>

\* A new session clears the one before; what it knew of the source is gone.
SourceOf(c) == IF session = c.session THEN source ELSE None

\* Mutants: no session is retired for one; none is remembered when it is left.
ClaimsFirst(c) ==
  /\ c.session \notin retired \cup {None}
  /\ session = c.session => c.sequence >= last
  /\ session' = c.session
  /\ retired' = IF session = c.session THEN retired ELSE retired \cup {session}
ClaimsAnew(c) ==
  /\ c.session \notin retired \cup {None}
  /\ session = c.session => c.sequence >= last
  /\ session' = c.session
  /\ retired' = retired
\* A new session, or a number not seen yet: the one before is retired.
Claims(c) ==
  /\ c.session \notin retired \cup {None}
  /\ session = c.session => c.sequence >= last
  /\ session' = c.session
  /\ retired' = IF session \in {None, c.session} THEN retired ELSE retired \cup {session}

\* Mutant: the number is claimed only by a state that is accepted.
ClaimsGood(c, good) == last' = IF good THEN c.sequence + 1 ELSE IF session = c.session THEN last ELSE 0
\* The number is claimed before the state is decoded.
Advances(c, good) == last' = c.sequence + 1

\* A state that cannot be used clears what is shown.
Clears(c) ==
  /\ Claims(c) /\ Advances(c, FALSE)
  /\ c.body = None \/ SourceOf(c) \notin {None, c.body}
  /\ latest' = None /\ source' = SourceOf(c)

Accepts(c) ==
  /\ Claims(c) /\ Advances(c, TRUE)
  /\ c.body \in Sources /\ SourceOf(c) \in {None, c.body}
  /\ latest' = [sequence |-> c.sequence, at |-> c.at] /\ source' = c.body

\* ingest, once it has the lock.
Ingests(r) ==
  LET c == calls[r]
  IN /\ c # None
     /\ Invalid(c) \/ Retired(c) \/ Old(c) \/ Clears(c) \/ Accepts(c)
     /\ Notes(c)
     /\ calls' = [calls EXCEPT ![r] = None]
     /\ shown' = None
     /\ UNCHANGED <<now, asking>>

\* snapshot.
Asks ==
  /\ asking = None /\ asking' = now
  /\ shown' = None
  /\ UNCHANGED <<now, adapter, calls, heard, newest>>

\* Mutant: the renderer gets the latest state, however old.
ShowsAnyAge(at) == latest
Shows(at) == Unexpired(at)

Answers ==
  /\ asking # None
  /\ latest' = Shows(asking)
  /\ shown' = [at |-> asking, state |-> latest']
  /\ asking' = None
  /\ UNCHANGED <<now, session, retired, last, source, calls, heard, newest>>

Next ==
  \/ Ticks \/ Asks \/ Answers
  \/ \E r \in Receivers : Calls(r) \/ Ingests(r)

Spec == Init /\ [][Next]_vars

-----------------------------------------------------------------------------
TypeOK ==
  /\ now \in 0 .. MaxNow /\ session \in Sessions \cup {None}
  /\ retired \subseteq Sessions /\ last \in 0 .. MaxSequence + 1
  /\ source \in Sources \cup {None} /\ latest \in Latest \cup {None}
  /\ calls \in [Receivers -> Call \cup {None}]
  /\ asking \in 0 .. MaxNow \cup {None}
  /\ shown \in [at : 0 .. MaxNow, state : Latest \cup {None}] \cup {None}
  /\ heard \subseteq Sessions
  /\ newest \in [sequence : 0 .. MaxSequence, body : Bodies, at : 0 .. MaxNow] \cup {None}

\* A renderer is shown the newest state there was of the active session, and
\* only within the time to live of that state, or nothing: a bad newest state
\* is never replaced by an older good one, and no duplicate, late or
\* interleaved call lengthens a state's life (state_adapter.py:248-257, 316-322).
NewestOrNothing ==
  shown # None /\ shown.state # None =>
    /\ newest.body \in Sources
    /\ shown.state.sequence = newest.sequence
    /\ shown.at < newest.at + Ttl

\* The adapter never goes back to a session it has heard of before, however
\* late that session's states arrive (state_adapter.py:296-315).
SessionsNeverReturn ==
  [][session' # session => session' \notin heard]_vars
=============================================================================
