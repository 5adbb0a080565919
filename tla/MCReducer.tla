------------------------------ MODULE MCReducer ------------------------------
(***************************************************************************)
(* Three Decisions about two Claims, loaded in any order: acceptances of   *)
(* one Claim or both, bounded and unbounded, closes before and after an    *)
(* interval's own end, corrections and rejections, at two instants each.   *)
(***************************************************************************)
EXTENDS Reducer

CONSTANTS a, b

Instants == 0..1

Row(act, cs, eff, rec, from, to) ==
    [act |-> act, claims |-> cs, eff |-> eff, rec |-> rec, from |-> from, to |-> to]

\* An acceptance or correction holds from when it takes effect, to the end or
\* for two seconds; one acceptance has no start.
OpeningRows ==
    {Row("ACCEPT", cs, eff, rec, eff, to) :
        cs \in {{a}, {a, b}}, eff \in Instants, rec \in Instants, to \in {NoTime, 2}}
    \cup {Row("ACCEPT_SUPERSEDE", {b}, 1, 1, NoTime, NoTime)}

ClosingRows ==
    {Row("SUPERSEDE", {a}, eff, rec, NoTime, to) :
        eff \in Instants, rec \in Instants, to \in {NoTime, 2}}
    \cup {Row("DEGRADE", {a, b}, 1, 1, NoTime, NoTime)}

CorrectionRows ==
    {Row("RETROACTIVE_CORRECTION", {c}, eff, 1, eff, to) :
        c \in {a, b}, eff \in Instants, to \in {NoTime, 2}}
    \cup {Row("RETROACTIVE_CORRECTION", {a, b}, 1, 0, 1, NoTime)}

MCRows ==
    OpeningRows \cup ClosingRows \cup CorrectionRows
        \cup {Row("REJECT", {a}, 1, 1, NoTime, NoTime)}
=============================================================================
