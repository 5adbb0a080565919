------------------------------ MODULE Reducer ------------------------------
(***************************************************************************)
(* The projection of Operational Memory as the code computes it: one pass  *)
(* over the Decisions in logical order, keeping for every Claim the list   *)
(* of its validity intervals, then the corrections                         *)
(* (SQLiteOperationalMemory.projection, operational_memory/core.py).       *)
(*                                                                         *)
(* A row joins a Decision with one of the Claims it names, <<d, c>>.  Each *)
(* turn of the code's two loops is a step.  Any Decision the writer        *)
(* accepts may be loaded between two projections, whatever timestamps it   *)
(* carries: the physical order of the rows means nothing.  One SELECT      *)
(* fetches all the rows, so nothing that is loaded later is seen.          *)
(***************************************************************************)
EXTENDS Ledger, Sequences, FiniteSets

CONSTANTS
    Claims,
    Rows,            \* what a Decision may say, apart from the place of its id
    Ids,             \* the places of the ids that may be loaded
    KnowledgeTimes,  \* the arguments a projection may be called with
    DomainTimes

\* The columns of a Decision, within what its writer lets through.
RowSet ==
    [act : {"ACCEPT", "ACCEPT_SUPERSEDE", "SUPERSEDE", "DEGRADE", "REJECT",
            "RETROACTIVE_CORRECTION"},
     claims : (SUBSET Claims) \ {{}}, eff : Nat, rec : Nat,
     from : Nat \cup {NoTime}, to : Nat \cup {NoTime}]

ASSUME RowsOK ==
    /\ IsFiniteSet(Claims)
    /\ Rows \subseteq RowSet /\ Ids \subseteq Nat
    /\ \A row \in Rows : row.from # NoTime /\ row.to # NoTime => row.from < row.to
    /\ KnowledgeTimes \subseteq Nat /\ DomainTimes \subseteq Nat

VARIABLES
    decisions,  \* decisions joined with decision_claims
    pc,         \* where the projection is
    kt, dt,     \* its knowledge_time and domain_time
    rows,       \* the rows fetched and not read yet
    iv,         \* intervals: per Claim, in the order they were opened
    corr,       \* corrections, in the order they were read
    active      \* pairs of an accepted Claim and the Decision it rests on

vars == <<decisions, pc, kt, dt, rows, iv, corr, active>>

NoIntervals == [c \in Claims |-> <<>>]

Init ==
    /\ decisions = {}
    /\ pc = "idle" /\ kt = 0 /\ dt = 0
    /\ rows = {} /\ iv = NoIntervals /\ corr = <<>> /\ active = {}

Load(row, id) ==
    /\ pc = "idle"
    /\ id \notin {d.ord : d \in decisions}
    /\ decisions' = decisions \cup
           {[act |-> row.act, claims |-> row.claims, eff |-> row.eff, rec |-> row.rec,
             ord |-> id, from |-> row.from, to |-> row.to]}
    /\ UNCHANGED <<pc, kt, dt, rows, iv, corr, active>>

-----------------------------------------------------------------------------
(* The fold. *)

RowsAt(t) == {r \in Visible(decisions, t) \X Claims : r[2] \in r[1].claims}

Begin(t) ==
    /\ pc = "idle"
    /\ pc' = "fold" /\ kt' = t /\ rows' = RowsAt(t)
    /\ UNCHANGED <<decisions, dt, iv, corr, active>>

\* Rows come in logical order; the order of Claim ids within one Decision is
\* left open.  Mutant: in the order they were recorded.
EarliestRecorded(r, rs) ==
    \A s \in rs : ~(\/ s[1].rec < r[1].rec
                    \/ s[1].rec = r[1].rec /\ s[1].ord < r[1].ord)
Earliest(r, rs) == \A s \in rs : ~Before(s[1], r[1])

Read(r) ==
    /\ pc = "fold"
    /\ r \in rows /\ Earliest(r, rows)
    /\ rows' = rows \ {r}
    /\ UNCHANGED <<decisions, kt, dt, active>>

Opened(r) ==
    [iv EXCEPT ![r[2]] = Append(@, [from |-> r[1].from, to |-> r[1].to, dec |-> r[1]])]

Open(r) ==
    /\ Read(r) /\ r[1].act \in OpeningActions
    /\ iv' = Opened(r)
    /\ UNCHANGED <<pc, corr>>

\* Closing shortens the last interval of the Claim, and never lengthens it.
Shortened(i, d) ==
    IF i.to = NoTime \/ CloseAt(d) < i.to THEN [i EXCEPT !.to = CloseAt(d)] ELSE i

Closed(r) == [iv EXCEPT ![r[2]][Len(iv[r[2]])] = Shortened(@, r[1])]

Close(r) ==
    /\ Read(r) /\ r[1].act \in CloseActions
    /\ iv[r[2]] # <<>>
    /\ iv' = Closed(r)
    /\ UNCHANGED <<pc, corr>>

CloseOfNothing(r) ==
    /\ Read(r) /\ r[1].act \in CloseActions
    /\ iv[r[2]] = <<>>
    /\ pc' = "raised"
    /\ UNCHANGED <<iv, corr>>

\* The list of corrections keeps each as it was recorded: a later close of the
\* corrected Claim does not reach it.
Correct(r) ==
    /\ Read(r) /\ r[1].act = "RETROACTIVE_CORRECTION"
    /\ iv' = Opened(r)
    /\ corr' = Append(corr, r)
    /\ UNCHANGED pc

Skip(r) == Read(r) /\ r[1].act = "REJECT" /\ UNCHANGED <<pc, iv, corr>>

\* Of the intervals a Claim is in, the last one read counts.
Holds(v, c, i, t) == Within(t, v[c][i].from, v[c][i].to)
LastHolding(v, c, t) ==
    {i \in DOMAIN v[c] : Holds(v, c, i, t) /\ \A j \in DOMAIN v[c] : j > i => ~Holds(v, c, j, t)}
ActiveIn(v, t) ==
    {cd \in Claims \X decisions : \E i \in LastHolding(v, cd[1], t) : cd[2] = v[cd[1]][i].dec}

EndFold(t) ==
    /\ pc = "fold" /\ rows = {}
    /\ pc' = "correct" /\ dt' = t /\ active' = ActiveIn(iv, t)
    /\ UNCHANGED <<decisions, kt, rows, iv, corr>>

-----------------------------------------------------------------------------
(* The corrections. *)

\* A correction takes out the one older Claim that is active, and raises when
\* there are several.
AllOthers(act, r) == {cd \in act : cd[1] # r[2]}                 \* mutant: of any age
RecordedBefore(act, r) ==                     \* mutant: older by recorded_at alone
    {cd \in act : cd[1] # r[2] /\ cd[2].rec < r[1].rec}
Corrected(act, r) == {cd \in act : cd[1] # r[2] /\ Before(cd[2], r[1])}

InTime(r) == Within(dt, r[1].from, r[1].to)

Apply(r) ==
    \/ /\ ~InTime(r)
       /\ UNCHANGED <<pc, active>>
    \/ /\ InTime(r) /\ Cardinality(Corrected(active, r)) <= 1
       /\ active' = active \ Corrected(active, r)
       /\ UNCHANGED pc
    \/ /\ InTime(r) /\ Cardinality(Corrected(active, r)) > 1
       /\ pc' = "raised"
       /\ UNCHANGED active

NextCorrection ==
    /\ pc = "correct" /\ corr # <<>>
    /\ corr' = Tail(corr)
    /\ Apply(Head(corr))
    /\ UNCHANGED <<decisions, kt, dt, rows, iv>>

EndCorrections ==
    /\ pc = "correct" /\ corr = <<>>
    /\ pc' = "done"
    /\ UNCHANGED <<decisions, kt, dt, rows, iv, corr, active>>

\* The locals of a call go with it.
Return ==
    /\ pc \in {"done", "raised"}
    /\ pc' = "idle" /\ kt' = 0 /\ dt' = 0
    /\ rows' = {} /\ iv' = NoIntervals /\ corr' = <<>> /\ active' = {}
    /\ UNCHANGED decisions

-----------------------------------------------------------------------------
Next ==
    \/ \E row \in Rows, id \in Ids : Load(row, id)
    \/ \E t \in KnowledgeTimes : Begin(t)
    \/ \E r \in rows : Open(r) \/ Close(r) \/ CloseOfNothing(r) \/ Correct(r) \/ Skip(r)
    \/ \E t \in DomainTimes : EndFold(t)
    \/ NextCorrection \/ EndCorrections \/ Return

Spec == Init /\ [][Next]_vars

-----------------------------------------------------------------------------
D == Visible(decisions, kt)

Corrections == {r \in RowsAt(kt) : r[1].act = "RETROACTIVE_CORRECTION"}

\* Without corrections the fold is the accepted view of Ledger, which all other
\* modules use: it raises only when Ledger says the Decisions cannot be folded,
\* and otherwise finds the same Claims, resting on the same Decisions, at every
\* knowledge and domain time (projection, _token_payload).
FoldIsView ==
    Corrections = {} =>
        /\ pc = "raised" => ~Foldable(D)
        /\ pc = "done" => /\ Foldable(D)
                          /\ active = Basis(D, dt)
                          /\ {cd[1] : cd \in active} = Active(D, dt)

\* Where a correction holds and the view can be computed, nothing decided before
\* the correction is believed any more, except about the corrected Claim itself
\* (_legacy_correction_targets).
CorrectionWins ==
    pc = "done" =>
        \A r \in Corrections : InTime(r) =>
            \A cd \in active : Before(cd[2], r[1]) => cd[1] = r[2]

\* A correction never deletes what was decided after it: whatever the fold has
\* active and the view has not is older than a correction that holds then
\* (_legacy_correction_targets).
OnlyOlderDeleted ==
    pc = "done" =>
        \A cd \in ActiveIn(iv, dt) \ active :
            \E r \in Corrections : InTime(r) /\ Before(cd[2], r[1])
=============================================================================
