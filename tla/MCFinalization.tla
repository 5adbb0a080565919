--------------------------- MODULE MCFinalization ---------------------------
(***************************************************************************)
(* Small instances of Finalization.  Each family of definitions below is   *)
(* one situation: the Claims a capability may come to hold and the         *)
(* payloads the finalizers may be given.  A .cfg picks a situation.        *)
(***************************************************************************)
EXTENDS Finalization, TLC

\* The finalizers run the same program and no property names one of them.
Interchangeable == Permutations(Finalizers)

\* A payload that states some Claims, seen under context x1 with evidence e1.
States(cs) ==
    [items |-> cs, by |-> None, prior |-> None, class |-> "OTHER", auth |-> FALSE,
     new |-> {"e1"}, old |-> {}, ctx |-> "x1", priorctx |-> "x1", aligned |-> FALSE,
     proves |-> {}, gate |-> "PASS"]

\* The same, where the Claim c contradicts the accepted Claim d.
Against(c, d, class, auth) ==
    [States({c}) EXCEPT !.by = c, !.prior = d, !.class = class, !.auth = auth,
                        !.old = {"e2"}, !.aligned = TRUE]

NoLifecycle == [l \in {} |-> {}]

(* Rival values: a and b state different values for one slot, i is an       *)
(* inference about another one.                                             *)
RivalClaims   == {"a", "b", "i"}
RivalObserved == {"a", "b"}
RivalScope    == [c \in RivalClaims |-> IF c = "i" THEN "limit" ELSE "access"]
RivalValue    == [c \in RivalClaims |-> c]
RivalPayloads ==
    {States({"a"}), States({"b", "i"}), Against("b", "a", "TARGET_CHANGED", FALSE),
     Against("b", "a", "PROFILE_INCORRECT", TRUE), Against("b", "a", "OTHER", FALSE)}

(* A value that changes twice: a, then b, then c; d is an unrelated limit.  *)
ChainClaims   == {"a", "b", "c", "d"}
ChainScope    == [c \in ChainClaims |-> IF c = "d" THEN "limit" ELSE "access"]
ChainValue    == [c \in ChainClaims |-> c]
ChainPayloads ==
    {States({"a"}), States({"d"}), Against("b", "a", "TARGET_CHANGED", FALSE),
     Against("c", "b", "TARGET_CHANGED", FALSE)}

(* Operational proofs p and q over one transport fact t and one access fact *)
(* u, which w contradicts; l and m are the lifecycles they earn, i is an    *)
(* inference about the same access.                                         *)
LifeClaims     == {"p", "q", "t", "u", "w", "i", "l", "m"}
LifeLifecycles == {"l", "m"}
LifeObserved   == LifeClaims \ {"i"}
LifeExempt     == {"p", "q"}
LifeScope ==
    [c \in LifeClaims |-> IF c \in {"p", "q"} THEN "validation"
                          ELSE IF c = "t" THEN "transport"
                          ELSE IF c \in LifeLifecycles THEN "lifecycle" ELSE "access"]
LifeValue  == [c \in LifeClaims |-> IF c \in LifeLifecycles THEN "OPERATIONAL" ELSE c]
LifeDeps   == [l \in LifeLifecycles |-> IF l = "l" THEN {"p", "t", "u"} ELSE {"q", "t", "u"}]
LifeRivals == [l \in LifeLifecycles |-> {"w"}]

Proves(pay) == [pay EXCEPT !.proves = LifeLifecycles]

\* Both proofs at once, a conflicting value, a context that does not match, and a
\* payload that no read is made for.
SequencePayloads ==
    {Proves(States({"p", "q", "t"})), Proves(States({"u"})), States({"w"}),
     Proves([States({"q", "i"}) EXCEPT !.ctx = "x2"]),
     [Against("w", "u", "TARGET_CHANGED", FALSE) EXCEPT !.priorctx = "x2"],
     Against("w", "u", "TARGET_CHANGED", FALSE),
     [States({"i"}) EXCEPT !.gate = "TRANSPORT_POLICY_UNPROVEN"]}

\* What two finalizers and a reviewer may race over: a fact the lifecycle rests on is
\* recorded, left pending with an inference, replaced or rejected.
LifePayloads ==
    {Proves(States({"p", "t"})), Proves(States({"u"})), Proves(States({"u", "i"})),
     Against("w", "u", "TARGET_CHANGED", FALSE)}

(* Two values for one access fact, stated without contradicting each other. *)
PlainPayloads == {States({"a"}), States({"b"})}

(* A direct read failed, df, and Chrome worked, cf; later a direct read     *)
(* works, dw, and the payload names cf as what it contradicts.              *)
KindClaims   == {"df", "cf", "dw"}
KindScope    == [c \in KindClaims |-> "transport"]
KindSlot     == [c \in KindClaims |-> IF c = "cf" THEN "CHROME" ELSE "DIRECT_READ"]
KindValue    == [c \in KindClaims |-> IF c = "df" THEN "FAILED" ELSE "FUNCTIONAL"]
KindPayloads ==
    {States({"df", "cf"}), Against("dw", "cf", "TARGET_CHANGED", FALSE)}

(* A value that changes once.                                               *)
ChangePayloads == {States({"a"}), Against("b", "a", "TARGET_CHANGED", FALSE)}
=============================================================================
