--------------------------- MODULE MCDiscoveryRuns ---------------------------
(***************************************************************************)
(* Two runs of one capability.  Claims a and b are observed, i is inferred,*)
(* and each states another value for the same slot.                        *)
(***************************************************************************)
EXTENDS DiscoveryRuns, TLC

CONSTANTS a, b, i, r1, r2

Pay(kind, claim, prior, dry) == [kind |-> kind, claim |-> claim, prior |-> prior, dry |-> dry]

States(c)         == Pay("knowledge", c, None, FALSE)
Contradicts(c, d) == Pay("knowledge", c, d, FALSE)
Tries(c)          == Pay("knowledge", c, None, TRUE)
Unproven(c)       == Pay("unproven", c, None, FALSE)
Malformed(c)      == Pay("malformed", c, None, FALSE)
Empty(c)          == Pay("empty", c, None, FALSE)

\* Everything a caller may do with one run, while another run replaces what it
\* said and a reviewer rejects what it left pending.
WidePay ==
    (r1 :> {States(a), States(i), Tries(a), Unproven(a), Malformed(a)})
        @@ (r2 :> {Contradicts(b, a), Empty(b)})
WideFinal == (r1 :> States(a)) @@ (r2 :> Contradicts(b, a))

AllPayloads == UNION {WidePay[r] : r \in Runs}
=============================================================================
