----------------------------- MODULE LatestFeed -----------------------------
(***************************************************************************)
(* What the one-slot stores promise their consumers (state/store.py,       *)
(* state/bundle.py): publications are numbered, a reader may skip any of   *)
(* them, it never shows an older one after a newer one, it may go dark at  *)
(* any time but lights up again only with a later publication, and it      *)
(* catches up once the producer pauses.                                    *)
(***************************************************************************)
EXTENDS Naturals, Sequences

CONSTANTS
  Readers,   \* consumers of the feed
  Contents,  \* what may be published
  Dark       \* nothing: an empty slot, a blank display

VARIABLES
  published,  \* every publication so far; a clear publishes Dark
  joined,     \* reader -> connected
  cursor,     \* reader -> number of the publication it answers for
  view        \* reader -> what it displays

vars == <<published, joined, cursor, view>>

TypeOK ==
  /\ published \in Seq(Contents \cup {Dark})
  /\ joined \in [Readers -> BOOLEAN]
  /\ cursor \in [Readers -> Nat]
  /\ view \in [Readers -> Contents \cup {Dark}]

Init ==
  /\ published = <<>>
  /\ joined = [r \in Readers |-> FALSE]
  /\ cursor = [r \in Readers |-> 0]
  /\ view = [r \in Readers |-> Dark]

Publish(content) ==
  /\ published' = Append(published, content)
  /\ UNCHANGED <<joined, cursor, view>>

\* Reader r answers for publication g, with it or with a blank display.
Shows(r, g) ==
  /\ cursor' = [cursor EXCEPT ![r] = g]
  /\ \E v \in {Dark} \cup {published[h] : h \in {g} \ {0}} : view' = [view EXCEPT ![r] = v]

Join(r) ==
  /\ ~joined[r]
  /\ joined' = [joined EXCEPT ![r] = TRUE]
  /\ \E g \in cursor[r] .. Len(published) : Shows(r, g)
  /\ UNCHANGED published

CatchUp(r) ==
  /\ joined[r]
  /\ \E g \in cursor[r] + 1 .. Len(published) : Shows(r, g)
  /\ UNCHANGED <<published, joined>>

Dim(r) ==
  /\ joined[r]
  /\ view' = [view EXCEPT ![r] = Dark]
  /\ UNCHANGED <<published, joined, cursor>>

Leave(r) ==
  /\ joined' = [joined EXCEPT ![r] = FALSE]
  /\ view' = [view EXCEPT ![r] = Dark]
  /\ UNCHANGED <<published, cursor>>

Next ==
  \/ \E content \in Contents \cup {Dark} : Publish(content)
  \/ \E r \in Readers : Join(r) \/ CatchUp(r) \/ Dim(r) \/ Leave(r)

\* What the feed never does, and that its readers catch up.
Safety == Init /\ [][Next]_vars
Spec == Safety /\ \A r \in Readers : WF_vars(CatchUp(r))
=============================================================================
