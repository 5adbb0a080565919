------------------------------- MODULE Ledger -------------------------------
(***************************************************************************)
(* What Operational Memory makes of its append-only tables: the accepted   *)
(* view, the pending Proposals and the unresolved contradictions are never *)
(* stored, every read derives them from the Decisions recorded so far      *)
(* (operational_memory/core.py).                                           *)
(*                                                                         *)
(* A Decision is a record                                                  *)
(*    act     its action                                                   *)
(*    claims  the Claims it names (table decision_claims)                  *)
(*    eff,rec effective_at and recorded_at, in whole seconds               *)
(*    ord     the place of its id in the lexical order of ids              *)
(*    from,to its validity interval, NoTime where the column is NULL       *)
(* The accepted view is stated here by what it means.  Module Reducer      *)
(* translates the fold the code computes it with, and the run "reducer"    *)
(* compares the two.  RETROACTIVE_CORRECTION, which no writer of this      *)
(* program produces, is left to Reducer.                                   *)
(***************************************************************************)
EXTENDS Integers

NoTime == -1

OpeningActions    == {"ACCEPT", "ACCEPT_SUPERSEDE"}
CloseActions      == {"SUPERSEDE", "DEGRADE"}
ResolutionActions == CloseActions \cup {"RETROACTIVE_CORRECTION"}

\* The order the rows are read in: effective_at, then recorded_at, then id.
Before(d, e) ==
    \/ d.eff < e.eff
    \/ d.eff = e.eff /\ d.rec < e.rec
    \/ d.eff = e.eff /\ d.rec = e.rec /\ d.ord < e.ord

\* What a reader at knowledge time kt sees of the Decisions.
Visible(D, kt) == {d \in D : d.rec <= kt}

Named(D)      == UNION {d.claims : d \in D}
Openers(D, c) == {d \in D : d.act \in OpeningActions /\ c \in d.claims}
Closers(D, c) == {d \in D : d.act \in CloseActions /\ c \in d.claims}

\* A close-family Decision acts on the latest interval opened before it.
Closes(D, c, x, o) ==
    /\ Before(o, x)
    /\ \A p \in Openers(D, c) : Before(p, x) => ~Before(o, p)

\* The reducer raises as soon as a close finds no interval to act on: then no
\* view of the capability can be computed at all.
Foldable(D) ==
    \A x \in D : x.act \in CloseActions =>
        \A c \in x.claims : \E o \in Openers(D, c) : Before(o, x)

CloseAt(x) == IF x.to # NoTime THEN x.to ELSE x.eff

\* Intervals are half open; a close only ever shortens one.
Within(t, from, to) == (from = NoTime \/ from <= t) /\ (to = NoTime \/ t < to)

InForce(D, c, o, dt) ==
    /\ Within(dt, o.from, o.to)
    /\ \A x \in Closers(D, c) : Closes(D, c, x, o) => dt < CloseAt(x)

\* The accepted Claims at domain time dt.
Active(D, dt) == {c \in Named(D) : \E o \in Openers(D, c) : InForce(D, c, o, dt)}

\* An accepted Claim rests on the latest of its intervals that is in force.
Rests(D, c, o, dt) ==
    /\ o \in Openers(D, c) /\ InForce(D, c, o, dt)
    /\ \A p \in Openers(D, c) : Before(o, p) => ~InForce(D, c, p, dt)

\* What review_token hashes: each accepted Claim with the Decision it rests on.
Basis(D, dt) == {co \in Named(D) \X D : Rests(D, co[1], co[2], dt)}

\* Whether some Decision, of whatever action, has settled the Claim.
Settled(D, c) == \E d \in D : c \in d.claims

\* The Claims with a contradiction that no later Decision resolved.  A
\* contradiction k names the Claim k.on and was recorded at k.rec.
Unresolved(D, K, kt) ==
    {k.on : k \in {j \in K :
        /\ j.rec <= kt
        /\ \A d \in D : j.on \in d.claims /\ d.rec > j.rec =>
               d.act \notin ResolutionActions}}
=============================================================================
