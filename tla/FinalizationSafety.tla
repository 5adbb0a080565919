------------------------- MODULE FinalizationSafety -------------------------
(***************************************************************************)
(* Type correctness of Finalization, and what its Decisions can never say, *)
(* for any number of finalizers and resolvers, any Claims and payloads,    *)
(* any bound on the clock and any backdating.                              *)
(*                                                                         *)
(* The second argument is an inductive invariant, BookInv.  A Proposal is  *)
(* named by Claims that all belong to it, so a second Proposal of the same *)
(* name cannot arise; a Decision that settles a Claim settles its whole    *)
(* Proposal; so a Proposal found pending under the write lock, where one   *)
(* unsettled Claim is enough, has no settled Claim at all.                 *)
(***************************************************************************)
EXTENDS Finalization, TLAPS

\* What a plan knows of itself: a replacement target comes with the one
\* observation that contradicts it.
Coherent(pl) ==
    /\ pl.rep # None => /\ pl.pay # None
                        /\ pl.pay.by \in Claims
                        /\ pl.delta = {pl.pay.by}
    /\ pl.ready => pl.rep # None
    /\ pl.pc \in {"idle", "delta", "replacement"} => pl.rep = None

TypeInv == TypeOK /\ \A p \in Finalizers : Coherent(fin[p])

USE DEF OpeningActions, NoTime

\* What a reader derives from well-typed tables is well typed.
LEMMA ViewTypes ==
    ASSUME TypeOK
    PROVE  /\ Known = decisions
           /\ Accepted \subseteq Claims
           /\ Token \subseteq Claims \X DecisionSet
           /\ PendingClaims \subseteq Claims
<1>1. Known = decisions
  BY DEF Known, Visible, TypeOK
<1>2. Named(Known) \subseteq Claims
  BY <1>1 DEF Named, TypeOK, DecisionSet
<1> QED
  BY <1>1, <1>2 DEF Accepted, Active, Token, Basis, PendingClaims, TypeOK

FinInv ==
    /\ fin \in [Finalizers -> PlanSet]
    /\ \A p \in Finalizers : /\ fin[p].rec <= now
                             /\ fin[p].pc = "idle" <=> fin[p].pay = None
                             /\ Coherent(fin[p])

\* A step of one finalizer gives it one new plan.
LEMMA PlanChange ==
    ASSUME TypeInv, NEW p \in Finalizers, NEW pl \in PlanSet, now' = now,
           pl.rec <= now, pl.pc = "idle" <=> pl.pay = None,
           pl.rep # None => pl.pay # None /\ pl.pay.by \in Claims /\ pl.delta = {pl.pay.by},
           pl.ready => pl.rep # None,
           pl.pc \in {"idle", "delta", "replacement"} => pl.rep = None,
           fin' = [fin EXCEPT ![p] = pl]
    PROVE  FinInv'
<1>1. fin' \in [Finalizers -> PlanSet] /\ fin'[p] = pl
  BY DEF TypeInv, TypeOK
<1>2. \A q \in Finalizers : q # p => fin'[q] = fin[q]
  BY DEF TypeInv, TypeOK
<1>3. ASSUME NEW q \in Finalizers
      PROVE  /\ fin'[q].rec <= now
             /\ fin'[q].pc = "idle" <=> fin'[q].pay = None
             /\ Coherent(fin'[q])
  <2>1. CASE q = p
    BY <1>1, <2>1 DEF Coherent
  <2>2. CASE q # p
    <3>1. fin'[q] = fin[q]
      BY <1>2, <2>2
    <3> QED BY <3>1 DEF TypeInv, TypeOK, Coherent
  <2> QED BY <2>1, <2>2
<1> QED
  BY <1>1, <1>3 DEF FinInv, Coherent

LEMMA ReturnChange ==
    ASSUME TypeInv, NEW p \in Finalizers, NEW out \in Answers, now' = now, Return(p, out)
    PROVE  FinInv'
<1> DEFINE pl == [NoPlan EXCEPT !.out = out]
<1>1. /\ pl.rec = 0 /\ pl.pc = "idle" /\ pl.pay = None /\ pl.rep = None /\ ~pl.ready
      /\ pl \in PlanSet
  BY DEF NoPlan, PlanSet
<1>3. pl.rec <= now
  BY <1>1 DEF TypeInv, TypeOK
<1>2. fin' = [fin EXCEPT ![p] = pl]
  BY DEF Return
<1> HIDE DEF pl
<1> QED
  BY <1>1, <1>2, <1>3, PlanChange

\* With the tables as they were, a new plan is all there is to check.
LEMMA ReadOnlyTypes ==
    ASSUME TypeInv, ReadOnly, FinInv'
    PROVE  TypeInv'
  BY DEF TypeInv, TypeOK, FinInv, ReadOnly, store

LEMMA BeginTypes ==
    ASSUME TypeInv, NEW p \in Finalizers, NEW pay \in Payloads, NEW back \in 0..MaxBackdate,
           Begin(p, pay, back)
    PROVE  TypeInv'
<1>1. now' = now /\ now \in Nat /\ back \in Nat /\ back <= now
  BY ConstantsOK DEF Begin, ReadOnly, TypeInv, TypeOK
<1>2. pay \in PayloadSet /\ pay # None
  BY ConstantsOK
<1>3. CASE pay.gate # "PASS" /\ Return(p, pay.gate)
  <2>1. pay.gate \in Answers
    BY <1>2, <1>3 DEF PayloadSet, Gates, Answers, Begin
  <2> QED BY <1>1, <1>3, <2>1, ReturnChange, ReadOnlyTypes DEF Begin
<1>4. CASE fin' = [fin EXCEPT ![p] = [NoPlan EXCEPT
                 !.pc = "delta", !.pay = pay, !.rec = RecordedAt(back), !.out = "RUNNING"]]
  <2> DEFINE pl == [NoPlan EXCEPT
                 !.pc = "delta", !.pay = pay, !.rec = RecordedAt(back), !.out = "RUNNING"]
  <2>0. now - back \in Nat /\ now - back <= now /\ RecordedAt(back) = now - back
    BY <1>1 DEF RecordedAt
  <2>1. /\ pl.rec = RecordedAt(back) /\ pl.pc = "delta" /\ pl.pay = pay
        /\ pl.rep = None /\ ~pl.ready
    BY DEF NoPlan
  <2>4. pl \in PlanSet
    BY <2>0 DEF NoPlan, PlanSet, Answers
  <2>2. fin' = [fin EXCEPT ![p] = pl]
    BY <1>4
  <2> HIDE DEF pl
  <2>3. FinInv'
    BY <1>1, <1>2, <2>0, <2>1, <2>2, <2>4, PlanChange
  <2> QED BY <2>3, ReadOnlyTypes DEF Begin
<1> QED
  BY <1>3, <1>4 DEF Begin

\* A plan that goes on keeps its payload and its time.
LEMMA GoOn ==
    ASSUME TypeInv, NEW p \in Finalizers, ReadOnly, NEW pl \in PlanSet,
           fin[p].pc # "idle", pl.pc # "idle",
           pl.pay = fin[p].pay, pl.rec = fin[p].rec,
           pl.rep # None => pl.pay.by \in Claims /\ pl.delta = {pl.pay.by},
           pl.ready => pl.rep # None,
           pl.pc \in {"idle", "delta", "replacement"} => pl.rep = None,
           fin' = [fin EXCEPT ![p] = pl]
    PROVE  TypeInv'
<1>1. pl.rec <= now /\ pl.pay # None /\ now' = now
  BY DEF TypeInv, TypeOK, ReadOnly
<1>2. FinInv'
  BY <1>1, PlanChange
<1> QED
  BY <1>2, ReadOnlyTypes

\* Nothing has been planned yet when the first read is made.
LEMMA ReadDeltaTypes ==
    ASSUME TypeInv, NEW p \in Finalizers, ReadDelta(p)
    PROVE  TypeInv'
<1>1. fin[p] \in PlanSet /\ fin[p].pc = "delta" /\ fin[p].pay \in Payloads
  BY DEF ReadDelta, At, TypeInv, TypeOK, PlanSet
<1>0. fin[p].rep = None /\ ~fin[p].ready
  BY <1>1 DEF TypeInv, Coherent
<1>2. fin[p].pay.items \subseteq Claims
  BY <1>1, ConstantsOK DEF PayloadSet
<1>3. Fresh(p) \subseteq Claims
  BY <1>2 DEF Fresh
<1>4. ASSUME NEW delta \in SUBSET Claims, NEW prop \in SUBSET Claims,
             fin' = [fin EXCEPT ![p] = [fin[p] EXCEPT
                        !.pc = "replacement", !.delta = delta, !.match = prop]]
      PROVE  TypeInv'
  <2> DEFINE pl == [fin[p] EXCEPT !.pc = "replacement", !.delta = delta, !.match = prop]
  <2>1. /\ pl \in PlanSet /\ pl.pc = "replacement" /\ pl.pay = fin[p].pay
        /\ pl.rec = fin[p].rec /\ pl.rep = None /\ ~pl.ready
    BY <1>0, <1>1 DEF PlanSet
  <2>2. fin' = [fin EXCEPT ![p] = pl]
    BY <1>4
  <2> HIDE DEF pl
  <2> QED BY <1>1, <2>1, <2>2, GoOn DEF ReadDelta
<1>5. ASSUME NEW prop \in Matching(Fresh(p)),
             fin' = [fin EXCEPT ![p].pc = "replacement", ![p].delta = Fresh(p),
                                ![p].match = prop]
      PROVE  TypeInv'
  <2>1. prop \in SUBSET Claims
    BY DEF Matching, Pending, TypeInv, TypeOK
  <2>2. fin' = [fin EXCEPT ![p] = [fin[p] EXCEPT
                   !.pc = "replacement", !.delta = Fresh(p), !.match = prop]]
    BY <1>5 DEF TypeInv, TypeOK
  <2> QED BY <1>3, <1>4, <2>1, <2>2
<1>6. ASSUME fin' = [fin EXCEPT ![p].pc = "replacement",
                                ![p].delta = Fresh(p) \ PendingClaims]
      PROVE  TypeInv'
  <2>1. fin' = [fin EXCEPT ![p] = [fin[p] EXCEPT !.pc = "replacement",
                   !.delta = Fresh(p) \ PendingClaims, !.match = fin[p].match]]
    BY <1>1, <1>6 DEF TypeInv, TypeOK, PlanSet
  <2>2. fin[p].match \in SUBSET Claims /\ Fresh(p) \ PendingClaims \in SUBSET Claims
    BY <1>1, <1>3 DEF PlanSet
  <2> QED BY <1>4, <2>1, <2>2
<1> QED
  BY <1>5, <1>6 DEF ReadDelta

\* The Claim to replace is the accepted one the payload names.
LEMMA TargetTypes ==
    ASSUME TypeInv, NEW p \in Finalizers, fin[p].pay \in Payloads,
           ReplacementTarget(fin[p]) # None
    PROVE  /\ ReplacementTarget(fin[p]) \in Claims
           /\ fin[p].pay.by \in Claims
           /\ fin[p].delta = {fin[p].pay.by}
<1> DEFINE pay == fin[p].pay
<1>1. pay \in PayloadSet /\ (pay.by = None) = (pay.prior = None)
  BY ConstantsOK
<1>2. /\ ReplacementTarget(fin[p]) = pay.prior
      /\ pay.prior \in Accepted
      /\ fin[p].delta = {pay.by}
  BY DEF ReplacementTarget
<1>3. pay.prior \in Claims
  BY <1>2, ViewTypes DEF TypeInv
<1>4. pay.by \in Claims
  BY <1>1, <1>3, ConstantsOK DEF PayloadSet
<1> QED
  BY <1>2, <1>3, <1>4

LEMMA ReadReplacementTypes ==
    ASSUME TypeInv, NEW p \in Finalizers, ReadReplacement(p)
    PROVE  TypeInv'
<1> DEFINE rep == ReplacementTarget(fin[p])
           new == rep # None /\ ReplacementReady(fin[p].pay)
<1>1. fin[p] \in PlanSet /\ fin[p].pc = "replacement" /\ fin[p].pay \in Payloads
  BY DEF ReadReplacement, At, TypeInv, TypeOK, PlanSet
<1>2. CASE Return(p, "PAYLOAD_VALUE")
  BY <1>2, ReturnChange, ReadOnlyTypes DEF ReadReplacement, ReadOnly, Answers
<1>3. CASE fin' = [fin EXCEPT ![p].pc = "conflict", ![p].rep = rep, ![p].ready = new]
  <2> DEFINE pl == [fin[p] EXCEPT !.pc = "conflict", !.rep = rep, !.ready = new]
  <2>1. rep \in Claims \cup {None} /\ new \in BOOLEAN
    BY <1>1, TargetTypes
  <2> HIDE DEF new
  <2>2. /\ pl.pc = "conflict" /\ pl.pay = fin[p].pay /\ pl.rec = fin[p].rec
        /\ pl.rep = rep /\ pl.ready = new /\ pl.delta = fin[p].delta
    BY <1>1 DEF PlanSet
  <2>3. pl \in PlanSet
    BY <1>1, <2>1 DEF PlanSet
  <2>4. fin' = [fin EXCEPT ![p] = pl]
    BY <1>3 DEF TypeInv, TypeOK
  <2>5. new => rep # None
    BY DEF new
  <2>6. rep # None => pl.pay.by \in Claims /\ pl.delta = {pl.pay.by}
    BY <1>1, <2>2, TargetTypes
  <2> HIDE DEF pl, rep
  <2> QED BY <1>1, <2>2, <2>3, <2>4, <2>5, <2>6, GoOn DEF ReadReplacement
<1> QED
  BY <1>2, <1>3 DEF ReadReplacement

LEMMA ReadConflictTypes ==
    ASSUME TypeInv, NEW p \in Finalizers, ReadConflict(p)
    PROVE  TypeInv'
<1> DEFINE pc   == IF fin[p].ready THEN "token" ELSE "commit"
           auto == Automatic(fin[p])
           life == EarnedLifecycle(fin[p])
           pl   == [fin[p] EXCEPT !.pc = pc, !.automatic = auto, !.life = life]
<1>1. fin[p] \in PlanSet /\ fin[p].pc = "conflict" /\ fin[p].pay \in Payloads
  BY DEF ReadConflict, At, TypeInv, TypeOK, PlanSet
<1>2. /\ fin[p].rep # None => fin[p].pay.by \in Claims /\ fin[p].delta = {fin[p].pay.by}
      /\ fin[p].ready => fin[p].rep # None
  BY <1>1 DEF TypeInv, Coherent
<1>3. life \in SUBSET Lifecycles
  <2>1. fin[p].pay.proves \subseteq Lifecycles
    BY <1>1, ConstantsOK DEF PayloadSet
  <2> QED BY <2>1 DEF EarnedLifecycle, Proven
<1>4. auto \in BOOLEAN
  BY <1>1 DEF Automatic, PlanSet
<1>5. pc \in {"token", "commit"}
  OBVIOUS
<1>6. fin' = [fin EXCEPT ![p] = pl]
  BY DEF ReadConflict, TypeInv, TypeOK
<1> HIDE DEF auto, life, pc
<1>7. /\ pl.pc = pc /\ pl.pay = fin[p].pay /\ pl.rec = fin[p].rec
      /\ pl.rep = fin[p].rep /\ pl.ready = fin[p].ready /\ pl.delta = fin[p].delta
  BY <1>1 DEF PlanSet
<1>8. pl \in PlanSet
  BY <1>1, <1>3, <1>4, <1>5 DEF PlanSet
<1> HIDE DEF pl
<1> QED
  <2>1. pl.pc \notin {"idle", "delta", "replacement"} /\ fin[p].pc # "idle"
    BY <1>1, <1>5, <1>7
  <2>2. /\ pl.rep # None => pl.pay.by \in Claims /\ pl.delta = {pl.pay.by}
        /\ pl.ready => pl.rep # None
    BY <1>2, <1>7
  <2>3. ReadOnly
    BY DEF ReadConflict
  <2> QED BY <1>6, <1>7, <1>8, <2>1, <2>2, <2>3, GoOn

LEMMA ReadTokenTypes ==
    ASSUME TypeInv, NEW p \in Finalizers, ReadToken(p)
    PROVE  TypeInv'
<1> DEFINE pl == [fin[p] EXCEPT !.pc = "commit", !.token = Token]
<1>1. fin[p] \in PlanSet /\ fin[p].pc = "token" /\ fin[p].pay \in Payloads
  BY DEF ReadToken, At, TypeInv, TypeOK, PlanSet
<1>2. /\ fin[p].rep # None => fin[p].pay.by \in Claims /\ fin[p].delta = {fin[p].pay.by}
      /\ fin[p].ready => fin[p].rep # None
  BY <1>1 DEF TypeInv, Coherent
<1>3. Token \in SUBSET (Claims \X DecisionSet)
  BY ViewTypes DEF TypeInv
<1>4. fin' = [fin EXCEPT ![p] = pl]
  BY DEF ReadToken, TypeInv, TypeOK
<1>5. /\ pl.pc = "commit" /\ pl.pay = fin[p].pay /\ pl.rec = fin[p].rec
      /\ pl.rep = fin[p].rep /\ pl.ready = fin[p].ready /\ pl.delta = fin[p].delta
  BY <1>1 DEF PlanSet
<1>6. pl \in PlanSet
  BY <1>1, <1>3 DEF PlanSet
<1> HIDE DEF pl
<1> QED
  BY <1>1, <1>2, <1>4, <1>5, <1>6, GoOn DEF ReadToken

TablesTyped ==
    /\ owner \in [Claims -> SUBSET Claims]
    /\ support \in [Claims -> [Contexts -> SUBSET Locators]]
    /\ contras \subseteq ContraSet
    /\ \A k \in contras : k.rec <= now

\* What a transaction writes about its Candidate is well typed.
LEMMA WriteTypes ==
    ASSUME TypeInv, NEW p \in Finalizers, CanWrite(p), now' = now,
           NEW K \in ContrasAfter(fin[p]), WriteCandidate(fin[p], K)
    PROVE  TablesTyped'
<1> DEFINE pl == fin[p]
           pay == pl.pay
           fresh == [by |-> pay.by, on |-> pl.rep, class |-> pay.class,
                     ctx |-> pay.priorctx, ev |-> pay.old, rec |-> pl.rec]
<1>1. /\ pl \in PlanSet /\ pay \in Payloads /\ pl.rec <= now
  BY DEF CanWrite, At, TypeInv, TypeOK, PlanSet
<1>2. pay \in PayloadSet
  BY <1>1, ConstantsOK
<1>3. owner' \in [Claims -> SUBSET Claims]
  <2>1. ProposalOf(pl) \subseteq Claims
    BY <1>1 DEF ProposalOf, PlanSet
  <2> QED BY <2>1 DEF WriteCandidate, OwnerAfter, TypeInv, TypeOK
<1>4. support' \in [Claims -> [Contexts -> SUBSET Locators]]
  <2>1. pay.ctx \in Contexts /\ pay.new \subseteq Locators
    BY <1>2 DEF PayloadSet
  <2> HIDE DEF pl
  <2>2. ASSUME NEW c \in Claims
        PROVE  [support[c] EXCEPT ![pay.ctx] = @ \cup pay.new] \in [Contexts -> SUBSET Locators]
    BY <2>1 DEF TypeInv, TypeOK
  <2>3. \A c \in Claims : support[c] \in [Contexts -> SUBSET Locators]
    BY DEF TypeInv, TypeOK
  <2> QED BY <2>2, <2>3 DEF WriteCandidate, SupportAfter, pl
<1>5. K \subseteq ContraSet /\ \A k \in K : k.rec <= now
  <2>1. contras \subseteq ContraSet /\ \A k \in contras : k.rec <= now
    BY DEF TypeInv, TypeOK
  <2>2. RecordsContradiction(pl) => fresh \in ContraSet
    <3>1. SUFFICES ASSUME RecordsContradiction(pl)
                   PROVE  fresh \in ContraSet
      OBVIOUS
    <3>2. pl.rep \in Claims /\ pay.by \in Claims
      BY <1>1, <3>1 DEF RecordsContradiction, TypeInv, Coherent, PlanSet
    <3>3. /\ pay.class \in {"TARGET_CHANGED", "PROFILE_INCORRECT", "OTHER"}
          /\ pay.priorctx \in Contexts /\ pay.old \subseteq Locators /\ pl.rec \in Nat
      BY <1>1, <1>2 DEF PayloadSet, PlanSet
    <3> HIDE DEF pl
    <3> QED BY <3>2, <3>3 DEF ContraSet
  <2>3. CASE K = contras
    BY <2>1, <2>3
  <2>4. CASE RecordsContradiction(pl) /\ K = contras \cup {fresh}
    <3>1. fresh.rec <= now
      BY <1>1
    <3> QED BY <2>1, <2>2, <2>4, <3>1
  <2>5. CASE \E k \in Reusable(pl) : K = (contras \ {k}) \cup {[k EXCEPT !.ev = @ \cup pay.old]}
    <3>1. PICK k \in contras : K = (contras \ {k}) \cup {[k EXCEPT !.ev = @ \cup pay.old]}
      BY <2>5 DEF Reusable
    <3>2. k \in ContraSet /\ k.rec <= now /\ pay.old \subseteq Locators
      BY <2>1, <1>2 DEF PayloadSet
    <3>3. [k EXCEPT !.ev = @ \cup pay.old] \in ContraSet
      BY <3>2 DEF ContraSet
    <3>4. [k EXCEPT !.ev = @ \cup pay.old].rec = k.rec
      BY <3>2 DEF ContraSet
    <3> QED BY <2>1, <3>1, <3>2, <3>3, <3>4
  <2> QED BY <2>3, <2>4, <2>5 DEF ContrasAfter
<1> QED
  BY <1>3, <1>4, <1>5 DEF TablesTyped, WriteCandidate

\* A Decision a writer takes is well typed and not ahead of the clock.
LEMMA DecisionTypes ==
    ASSUME NEW cs \in SUBSET Claims, NEW c \in Claims, NEW rec \in Nat, NEW h \in Nat
    PROVE  /\ Acceptance(cs, rec) \in DecisionSet /\ Acceptance(cs, rec).rec = rec
           /\ Rejection(cs, rec) \in DecisionSet /\ Rejection(cs, rec).rec = rec
           /\ Replacing(cs, rec, h) \in DecisionSet /\ Replacing(cs, rec, h).rec = rec
           /\ Closing(c, rec, h) \in DecisionSet /\ Closing(c, rec, h).rec = rec
<1>1. 2 * h + 2 \in Nat /\ 2 * h + 3 \in Nat
  OBVIOUS
<1>2. Acceptance(cs, rec) \in DecisionSet /\ Acceptance(cs, rec).rec = rec
  BY DEF Acceptance, Decision, DecisionSet
<1>3. Rejection(cs, rec) \in DecisionSet /\ Rejection(cs, rec).rec = rec
  BY DEF Rejection, Decision, DecisionSet
<1>4. Replacing(cs, rec, h) \in DecisionSet /\ Replacing(cs, rec, h).rec = rec
  BY <1>1 DEF Replacing, Decision, DecisionSet
<1>5. Closing(c, rec, h) \in DecisionSet /\ Closing(c, rec, h).rec = rec
  BY <1>1 DEF Closing, Decision, DecisionSet
<1> QED
  BY <1>2, <1>3, <1>4, <1>5

\* A transaction that adds well-typed Decisions keeps every type.
LEMMA CommitTypes ==
    ASSUME TypeInv, NEW p \in Finalizers, CanWrite(p), now' = now, res' = res,
           NEW K \in ContrasAfter(fin[p]), WriteCandidate(fin[p], K),
           NEW out \in Answers, Return(p, out),
           NEW D \in SUBSET DecisionSet, \A d \in D : d.rec <= now,
           decisions' = decisions \cup D
    PROVE  TypeInv'
<1>1. TablesTyped'
  BY WriteTypes
<1>2. FinInv'
  BY ReturnChange
<1>3. decisions' \subseteq DecisionSet /\ \A d \in decisions' : d.rec <= now
  BY DEF TypeInv, TypeOK
<1>4. /\ now' \in Nat /\ res' \in [Resolvers -> ReviewSet]
      /\ \A r \in Resolvers : res'[r].rec <= now'
  BY DEF TypeInv, TypeOK
<1> QED
  BY <1>1, <1>2, <1>3, <1>4 DEF TypeInv, TypeOK, TablesTyped, FinInv

LEMMA CandidateTypes ==
    ASSUME TypeInv, NEW p \in Finalizers
    PROVE  Candidate(fin[p]) \subseteq Claims
  BY DEF Candidate, ClaimsOf

LEMMA CommitPendingTypes ==
    ASSUME TypeInv, NEW p \in Finalizers, CommitPending(p)
    PROVE  TypeInv'
<1> DEFINE out(K) == IF /\ fin[p].match # {}
                        /\ SupportAfter(fin[p]) = support /\ K = contras
                     THEN "ALREADY_PENDING" ELSE "NOT_SAVED"
<1>1. PICK K \in ContrasAfter(fin[p]) :
         WriteCandidate(fin[p], K) /\ Return(p, out(K))
  BY DEF CommitPending
<1>2. out(K) \in Answers
  BY DEF Answers
<1>3. CanWrite(p) /\ now' = now /\ res' = res /\ decisions' = decisions \cup {}
  BY DEF CommitPending
<1>4. {} \in SUBSET DecisionSet /\ \A d \in {} : d.rec <= now
  OBVIOUS
<1> HIDE DEF out
<1>5. PICK answer \in Answers : Return(p, answer)
  BY <1>1, <1>2
<1> QED
  BY <1>1, <1>3, <1>4, <1>5, CommitTypes

LEMMA CommitPromotionTypes ==
    ASSUME TypeInv, NEW p \in Finalizers, CommitPromotion(p)
    PROVE  TypeInv'
<1> DEFINE d == Acceptance(Candidate(fin[p]), fin[p].rec)
<1>1. PICK K \in ContrasAfter(fin[p]) : WriteCandidate(fin[p], K)
  BY DEF CommitPromotion
<1>2. /\ CanWrite(p) /\ now' = now /\ res' = res /\ Return(p, "SAVED")
      /\ decisions' = decisions \cup {d}
  BY DEF CommitPromotion
<1>3. fin[p].rec \in Nat /\ fin[p].rec <= now
  BY DEF TypeInv, TypeOK, PlanSet
<1>4. d \in DecisionSet /\ d.rec <= now
  <2>1. Acceptance(Candidate(fin[p]), fin[p].rec) \in DecisionSet
    BY <1>3, CandidateTypes DEF Acceptance, Decision, DecisionSet
  <2>2. d.rec = fin[p].rec
    BY DEF Acceptance, Decision
  <2> QED BY <1>3, <2>1, <2>2
<1> HIDE DEF d
<1>5. {d} \in SUBSET DecisionSet /\ \A e \in {d} : e.rec <= now
  BY <1>4
<1>6. "SAVED" \in Answers
  BY DEF Answers
<1> QED
  BY <1>1, <1>2, <1>5, <1>6, CommitTypes

LEMMA CommitReplacementTypes ==
    ASSUME TypeInv, NEW p \in Finalizers, NEW h \in Digests, CommitReplacement(p, h)
    PROVE  TypeInv'
<1> DEFINE x == Closing(fin[p].rep, fin[p].rec, h)
           d == Replacing(Candidate(fin[p]), fin[p].rec, h)
<1>1. PICK K \in ContrasAfter(fin[p]) : WriteCandidate(fin[p], K)
  BY DEF CommitReplacement
<1>2. /\ CanWrite(p) /\ now' = now /\ res' = res /\ Return(p, "SAVED")
      /\ decisions' = decisions \cup {x, d}
  BY DEF CommitReplacement
<1>3. fin[p].rec \in Nat /\ fin[p].rec <= now /\ h \in Nat /\ fin[p].rep \in Claims
  BY ConstantsOK DEF CommitReplacement, TypeInv, TypeOK, PlanSet, Coherent
<1>4. /\ x \in DecisionSet /\ x.rec = fin[p].rec
      /\ d \in DecisionSet /\ d.rec = fin[p].rec
  BY <1>3, CandidateTypes, DecisionTypes
<1> HIDE DEF x, d
<1>5. {x, d} \in SUBSET DecisionSet /\ \A e \in {x, d} : e.rec <= now
  BY <1>3, <1>4
<1>6. "SAVED" \in Answers
  BY DEF Answers
<1> QED
  BY <1>1, <1>2, <1>5, <1>6, CommitTypes

\* Every answer that leaves the tables alone.
LEMMA RefusalTypes ==
    ASSUME TypeInv, NEW p \in Finalizers,
           \/ ReadUnreadable(p) \/ NothingNew(p) \/ AlreadyPending(p)
           \/ CommitNotResumable(p) \/ CommitCollision(p) \/ CommitUnreadable(p)
           \/ CommitRefused(p) \/ Abort(p)
    PROVE  TypeInv'
<1>1. ReadOnly /\ \E out \in Answers : Return(p, out)
  <2>1. CASE CommitRefused(p)
    <3>1. PICK K \in ContrasAfter(fin[p]) :
             \E code \in Objections(fin[p], K) : RolledBack(p, code)
      BY <2>1 DEF CommitRefused
    <3>2. Objections(fin[p], K) \subseteq Answers
      BY DEF Objections, Answers
    <3> QED BY <3>1, <3>2 DEF RolledBack
  <2> QED
    BY <2>1 DEF ReadUnreadable, NothingNew, AlreadyPending, CommitNotResumable,
       CommitCollision, CommitUnreadable, Abort, RolledBack, Answers
<1>2. PICK out \in Answers : Return(p, out)
  BY <1>1
<1>3. now' = now
  BY <1>1 DEF ReadOnly
<1> QED
  BY <1>1, <1>2, <1>3, ReturnChange, ReadOnlyTypes

LEMMA FinalizeTypes ==
    ASSUME TypeInv, NEW p \in Finalizers, Finalize(p)
    PROVE  TypeInv'
<1>1. CASE \E pay \in Payloads, back \in 0..MaxBackdate : Begin(p, pay, back)
  BY <1>1, BeginTypes
<1>2. CASE ReadDelta(p)
  BY <1>2, ReadDeltaTypes
<1>3. CASE ReadReplacement(p)
  BY <1>3, ReadReplacementTypes
<1>4. CASE ReadConflict(p)
  BY <1>4, ReadConflictTypes
<1>5. CASE ReadToken(p)
  BY <1>5, ReadTokenTypes
<1>6. CASE CommitPending(p)
  BY <1>6, CommitPendingTypes
<1>7. CASE CommitPromotion(p)
  BY <1>7, CommitPromotionTypes
<1>8. CASE \E h \in Digests : CommitReplacement(p, h)
  BY <1>8, CommitReplacementTypes
<1> QED
  BY <1>1, <1>2, <1>3, <1>4, <1>5, <1>6, <1>7, <1>8, RefusalTypes DEF Finalize

LEMMA ResolveTypes ==
    ASSUME TypeInv, NEW r \in Resolvers, Resolve(r)
    PROVE  TypeInv'
<1> USE DEF TypeInv, TypeOK, Coherent
<1>1. now' = now /\ fin' = fin /\ owner' = owner /\ support' = support /\ contras' = contras
  BY DEF Resolve, ReadReview, CheckReview, CommitRejection, RefuseRejection, AbortReview,
     EndReview, store
<1>2. res' \in [Resolvers -> ReviewSet] /\ \A q \in Resolvers : res'[q].rec <= now'
  <2>1. \A rv \in ReviewSet : rv.rec <= now /\ res' = [res EXCEPT ![r] = rv] =>
           res' \in [Resolvers -> ReviewSet] /\ \A q \in Resolvers : res'[q].rec <= now'
    BY <1>1
  <2>2. ASSUME NEW prop \in SUBSET Claims, ReadReview(r, prop)
        PROVE  \E rv \in ReviewSet : rv.rec <= now /\ res' = [res EXCEPT ![r] = rv]
    <3> DEFINE rv == [pc |-> "check", prop |-> prop, token |-> Token, rec |-> now]
    <3>1. Token \in SUBSET (Claims \X DecisionSet)
      BY ViewTypes
    <3>2. rv \in ReviewSet /\ rv.rec <= now
      BY <3>1 DEF ReviewSet
    <3>3. res' = [res EXCEPT ![r] = rv]
      BY <2>2 DEF ReadReview
    <3> QED BY <3>2, <3>3
  <2>3. ASSUME CheckReview(r)
        PROVE  \E rv \in ReviewSet : rv.rec <= now /\ res' = [res EXCEPT ![r] = rv]
    <3> DEFINE rv == [res[r] EXCEPT !.pc = "commit"]
    <3>1. res[r] \in ReviewSet /\ res[r].rec <= now
      OBVIOUS
    <3>2. rv \in ReviewSet /\ rv.rec <= now
      BY <3>1 DEF ReviewSet
    <3>3. res' = [res EXCEPT ![r] = rv]
      BY <2>3 DEF CheckReview
    <3> QED BY <3>2, <3>3
  <2>4. ASSUME res' = [res EXCEPT ![r] = NoReview]
        PROVE  \E rv \in ReviewSet : rv.rec <= now /\ res' = [res EXCEPT ![r] = rv]
    <3>1. NoReview \in ReviewSet /\ NoReview.rec <= now
      BY DEF NoReview, ReviewSet
    <3> QED BY <2>4, <3>1
  <2> QED
    BY <2>1, <2>2, <2>3, <2>4 DEF Resolve, CommitRejection, RefuseRejection, AbortReview,
       EndReview
<1>3. decisions' \subseteq DecisionSet /\ \A d \in decisions' : d.rec <= now'
  <2>1. CASE decisions' = decisions
    BY <1>1, <2>1
  <2>2. CASE CommitRejection(r)
    <3> DEFINE d == Rejection(ClaimsOf(owner, res[r].prop), res[r].rec)
    <3>1. res[r].rec \in Nat /\ res[r].rec <= now
      BY DEF ReviewSet
    <3>2. ClaimsOf(owner, res[r].prop) \subseteq Claims
      BY DEF ClaimsOf
    <3>3. d \in DecisionSet /\ d.rec = res[r].rec
      BY <3>1, <3>2 DEF Rejection, Decision, DecisionSet
    <3>4. decisions' = decisions \cup {d}
      BY <2>2 DEF CommitRejection
    <3> QED BY <1>1, <3>1, <3>3, <3>4
  <2> QED
    BY <2>1, <2>2 DEF Resolve, ReadReview, CheckReview, RefuseRejection, AbortReview,
       EndReview, store
<1> QED
  BY <1>1, <1>2, <1>3

LEMMA TypeInit == Init => TypeInv
<1> SUFFICES ASSUME Init
             PROVE  TypeInv
  OBVIOUS
<1>1. NoPlan \in PlanSet
  BY DEF NoPlan, PlanSet, Answers
<1>2. /\ NoPlan.pc = "idle" /\ NoPlan.pay = None /\ NoPlan.rec = 0
      /\ NoPlan.rep = None /\ ~NoPlan.ready
  BY DEF NoPlan
<1>3. NoReview \in ReviewSet /\ NoReview.rec = 0
  BY DEF NoReview, ReviewSet
<1>4. \A p \in Finalizers : fin[p] = NoPlan
  BY DEF Init
<1>5. fin \in [Finalizers -> PlanSet] /\ res \in [Resolvers -> ReviewSet]
  BY <1>1, <1>3 DEF Init
<1>6. \A p \in Finalizers : /\ Coherent(fin[p]) /\ fin[p].rec <= now
                            /\ fin[p].pc = "idle" <=> fin[p].pay = None
  BY <1>2, <1>4 DEF Init, Coherent
<1>7. /\ owner \in [Claims -> SUBSET Claims]
      /\ support \in [Claims -> [Contexts -> SUBSET Locators]]
      /\ contras = {} /\ decisions = {} /\ now = 0
  BY DEF Init
<1>8. \A r \in Resolvers : res[r].rec <= now
  BY <1>3 DEF Init
<1> QED
  BY <1>5, <1>6, <1>7, <1>8 DEF TypeInv, TypeOK

LEMMA TypeStep == TypeInv /\ [Next]_vars => TypeInv'
<1> SUFFICES ASSUME TypeInv, [Next]_vars
             PROVE  TypeInv'
  OBVIOUS
<1>1. CASE Tick
  <2>1. /\ now \in Nat /\ now' = now + 1 /\ fin' = fin /\ res' = res
        /\ owner' = owner /\ support' = support /\ contras' = contras
        /\ decisions' = decisions
    BY <1>1 DEF Tick, store, TypeInv, TypeOK
  <2>2. \A i \in Nat : i <= now => i <= now'
    BY <2>1
  <2>3. /\ \A d \in decisions : d.rec \in Nat
        /\ \A k \in contras : k.rec \in Nat
        /\ \A p \in Finalizers : fin[p].rec \in Nat
        /\ \A r \in Resolvers : res[r].rec \in Nat
    BY DEF TypeInv, TypeOK, DecisionSet, ContraSet, PlanSet, ReviewSet
  <2> QED
    BY <2>1, <2>2, <2>3 DEF TypeInv, TypeOK, Coherent
<1>2. CASE \E p \in Finalizers : Finalize(p)
  BY <1>2, FinalizeTypes
<1>3. CASE \E r \in Resolvers : Resolve(r)
  BY <1>3, ResolveTypes
<1>4. CASE UNCHANGED vars
  BY <1>4 DEF vars, TypeInv, TypeOK, Coherent
<1> QED
  BY <1>1, <1>2, <1>3, <1>4 DEF Next

\* Types are kept, and nothing is ever recorded ahead of the clock
\* (finalize_discovery, recorded_at).
THEOREM TypeCorrect == Spec => []TypeOK
<1>1. TypeInv => TypeOK
  BY DEF TypeInv
<1> QED
  BY TypeInit, TypeStep, <1>1, PTL DEF Spec

-----------------------------------------------------------------------------
(* Decisions. *)

\* A Proposal is named by Claims of its own.
NamedByMembers ==
    \A c \in Claims : owner[c] # {} => \A e \in owner[c] : owner[e] = owner[c]

\* A Decision names recorded Claims only.
NamesRecorded == \A d \in decisions : d.claims \subseteq Captured

\* What is closed has been accepted.
ClosesAccepted ==
    \A x \in decisions : x.act \notin SettleActions =>
        \A c \in x.claims : \E d \in decisions : d.act \in OpeningActions /\ c \in d.claims

Tables == NamedByMembers /\ NamesRecorded /\ ClosesAccepted /\ SettledOnce

\* What a finalizer may rely on between its reads and its transaction: the
\* Candidate it resumes only ever gains lifecycle Claims.
Later == {"replacement", "conflict", "token", "commit"}

Anchored(pl) ==
    /\ pl.pc \in Later => pl.delta # {}
    /\ pl.pc = "delta" => pl.match = {}
    /\ pl.pc \in Later /\ pl.match # {} =>
         /\ ClaimsOf(owner, pl.match) # {}
         /\ ClaimsOf(owner, pl.match) \subseteq pl.delta \cup Lifecycles

BookInv == TypeInv /\ Tables /\ \A p \in Finalizers : Anchored(fin[p])

-----------------------------------------------------------------------------
\* A Proposal found pending has no settled Claim.
LEMMA Undecided ==
    ASSUME BookInv, NEW prop \in Pending(owner), NEW d \in decisions
    PROVE  d.claims \cap ClaimsOf(owner, prop) = {}
<1>1. Known = decisions
  BY ViewTypes DEF BookInv, TypeInv
<1>2. PICK c \in ClaimsOf(owner, prop) : \A e \in decisions : c \notin e.claims
  BY <1>1 DEF Pending, Settled
<1>3. ASSUME NEW e \in decisions, e.act \in SettleActions, NEW b \in e.claims,
             b \in ClaimsOf(owner, prop)
      PROVE  FALSE
  <2>1. e.claims = ClaimsOf(owner, owner[b])
    BY <1>3 DEF BookInv, Tables, SettledOnce
  <2>2. owner[b] = prop
    BY <1>3 DEF ClaimsOf
  <2> QED BY <1>2, <2>1, <2>2
<1>4. CASE d.act \in SettleActions
  BY <1>3, <1>4
<1>5. CASE d.act \notin SettleActions
  <2>1. \A b \in d.claims : \E e \in decisions : e.act \in SettleActions /\ b \in e.claims
    BY <1>5 DEF BookInv, Tables, ClosesAccepted, SettleActions
  <2> QED BY <1>3, <2>1
<1> QED
  BY <1>4, <1>5

\* What a transaction inserts, and which Proposal it goes to.
Inserts(pl) ==
    /\ pl \in PlanSet /\ Anchored(pl) /\ pl.pc = "commit"
    /\ Resumable(pl) /\ ~Collides(pl)
    /\ owner' = OwnerAfter(pl)

\* Inserting Claims leaves every other Proposal as it was, and the one that
\* receives them undecided.
LEMMA Insertion ==
    ASSUME BookInv, NEW pl, Inserts(pl)
    PROVE  /\ \A c \in Captured : owner'[c] = owner[c]
           /\ ClaimsOf(owner', ProposalOf(pl)) # {}
           /\ ProposalOf(pl) # {}
           /\ \A d \in decisions : d.claims \cap ClaimsOf(owner', ProposalOf(pl)) = {}
           /\ \A prop : prop # ProposalOf(pl) /\ prop # {} =>
                  ClaimsOf(owner', prop) = ClaimsOf(owner, prop)
           /\ NamedByMembers'
<1> DEFINE prop == ProposalOf(pl)
           ins  == Inserted(pl)
<1>1. /\ owner \in [Claims -> SUBSET Claims] /\ decisions \subseteq DecisionSet
      /\ pl.delta \subseteq Claims /\ pl.match \subseteq Claims /\ pl.life \subseteq Claims
  BY ConstantsOK DEF BookInv, TypeInv, TypeOK, Inserts, PlanSet
<1>2. ins \subseteq Claims /\ ins \cap Captured = {} /\ prop \subseteq Claims
  BY <1>1 DEF Inserted, ProposalOf, Inserts, Collides
<1>3. owner' = [c \in Claims |-> IF c \in ins THEN prop ELSE owner[c]]
  BY DEF Inserts, OwnerAfter
<1>4. pl.delta # {}
  BY DEF Inserts, Anchored, Later
<1>5. prop # {}
  BY <1>4 DEF ProposalOf
<1>6. \A e \in prop : owner'[e] = prop
  <2>1. CASE pl.match = {}
    BY <1>1, <1>3, <2>1 DEF ProposalOf, Inserted
  <2>2. CASE pl.match # {}
    <3>1. PICK c \in Claims : owner[c] = pl.match
      BY <2>2 DEF Inserts, Resumable, Pending, ClaimsOf
    <3>2. \A e \in pl.match : owner[e] = pl.match
      BY <2>2, <3>1 DEF BookInv, Tables, NamedByMembers
    <3>3. \A e \in pl.match : e \notin ins
      BY <1>1, <1>2, <2>2, <3>2 DEF Captured
    <3> QED BY <1>1, <1>3, <2>2, <3>2, <3>3 DEF ProposalOf
  <2> QED BY <2>1, <2>2
<1>7. \A c \in Captured : owner'[c] = owner[c]
  BY <1>2, <1>3 DEF Captured
<1>8. ClaimsOf(owner', prop) # {}
  BY <1>2, <1>5, <1>6 DEF ClaimsOf
<1>9. ClaimsOf(owner', prop) \subseteq ClaimsOf(owner, prop) \cup ins
  BY <1>3 DEF ClaimsOf
<1>10. \A d \in decisions : d.claims \cap ins = {}
  BY <1>2 DEF BookInv, Tables, NamesRecorded
<1>11. \A d \in decisions : d.claims \cap ClaimsOf(owner, prop) = {}
  <2>1. CASE pl.match = {}
    <3>1. ASSUME NEW c \in Claims, owner[c] = prop PROVE FALSE
      <4>1. \A e \in prop : owner[e] = prop
        BY <1>5, <3>1 DEF BookInv, Tables, NamedByMembers
      <4>2. prop \subseteq ins
        BY <2>1 DEF ProposalOf, Inserted
      <4> QED BY <1>2, <1>5, <4>1, <4>2 DEF Captured
    <3> QED BY <3>1 DEF ClaimsOf
  <2>2. CASE pl.match # {}
    BY <2>2, Undecided DEF Inserts, Resumable, ProposalOf
  <2> QED BY <2>1, <2>2
<1>12. \A d \in decisions : d.claims \cap ClaimsOf(owner', prop) = {}
  BY <1>9, <1>10, <1>11
<1>13. ASSUME NEW q, q # prop, q # {}
       PROVE  ClaimsOf(owner', q) = ClaimsOf(owner, q)
  <2>1. \A c \in Claims : c \in ins => owner[c] = {} /\ owner'[c] = prop
    BY <1>2, <1>3 DEF Captured
  <2>2. \A c \in Claims : c \notin ins => owner'[c] = owner[c]
    BY <1>3
  <2> QED BY <1>13, <2>1, <2>2 DEF ClaimsOf
<1>14. NamedByMembers'
  <2> SUFFICES ASSUME NEW c \in Claims, owner'[c] # {}, NEW e \in owner'[c]
               PROVE  owner'[e] = owner'[c]
    BY DEF NamedByMembers
  <2>1. CASE c \in ins
    BY <1>3, <1>6, <2>1
  <2>2. CASE c \notin ins
    <3>1. owner'[c] = owner[c]
      BY <1>3, <2>2
    <3>2. owner[e] = owner[c] /\ e \in Claims
      BY <1>1, <3>1 DEF BookInv, Tables, NamedByMembers
    <3>3. e \in Captured
      BY <3>1, <3>2 DEF Captured
    <3> QED BY <1>7, <3>1, <3>2, <3>3
  <2> QED BY <2>1, <2>2
<1> QED
  BY <1>5, <1>7, <1>8, <1>12, <1>13, <1>14

\* The Claims of any Proposal a settled Claim belongs to are left alone.
LEMMA SettledUndisturbed ==
    ASSUME BookInv, NEW pl, Inserts(pl), NEW d \in decisions, d.act \in SettleActions,
           NEW c \in d.claims
    PROVE  d.claims = ClaimsOf(owner', owner'[c])
<1>1. d.claims = ClaimsOf(owner, owner[c]) /\ c \in Captured
  BY DEF BookInv, Tables, SettledOnce, NamesRecorded
<1>2. owner'[c] = owner[c] /\ owner[c] # {}
  BY <1>1, Insertion DEF Captured
<1>3. owner[c] # ProposalOf(pl)
  <2>1. ASSUME owner[c] = ProposalOf(pl) PROVE FALSE
    <3>1. c \in ClaimsOf(owner', ProposalOf(pl))
      BY <1>1, <1>2, <2>1 DEF ClaimsOf, Captured
    <3> QED BY <3>1, Insertion
  <2> QED BY <2>1
<1> QED
  BY <1>1, <1>2, <1>3, Insertion

\* A transaction that captures, and decides nothing.
LEMMA CaptureTables ==
    ASSUME BookInv, NEW pl, Inserts(pl), decisions' = decisions
    PROVE  Tables'
<1>1. NamedByMembers'
  BY Insertion
<1>2. NamesRecorded'
  BY Insertion DEF BookInv, Tables, NamesRecorded, Captured
<1>3. ClosesAccepted'
  BY DEF BookInv, Tables, ClosesAccepted
<1>4. SettledOnce'
  BY SettledUndisturbed DEF BookInv, Tables, SettledOnce
<1> QED
  BY <1>1, <1>2, <1>3, <1>4 DEF Tables

\* A transaction that captures and accepts.  The Decision d settles the whole
\* Proposal; what else it closes, x, was accepted before.
LEMMA AcceptTables ==
    ASSUME BookInv, NEW pl, Inserts(pl), NEW d, NEW X,
           d.act \in SettleActions, d.claims = ClaimsOf(owner', ProposalOf(pl)),
           \A x \in X : /\ x.act \notin SettleActions
                        /\ \A c \in x.claims : Openers(decisions, c) # {},
           decisions' = decisions \cup X \cup {d}
    PROVE  Tables'
<1> DEFINE prop == ProposalOf(pl)
<1>1. NamedByMembers'
  BY Insertion
<1>2. NamesRecorded'
  <2>1. \A e \in decisions : e.claims \subseteq Captured'
    BY Insertion DEF BookInv, Tables, NamesRecorded, Captured
  <2>2. \A x \in X : x.claims \subseteq Captured'
    BY <2>1 DEF Openers
  <2>3. d.claims \subseteq Captured'
    BY Insertion DEF ClaimsOf, Captured
  <2> QED BY <2>1, <2>2, <2>3 DEF NamesRecorded
<1>3. ClosesAccepted'
  <2>1. \A x \in decisions' : x.act \notin SettleActions => x \in decisions \cup X
    OBVIOUS
  <2>2. \A x \in X : \A c \in x.claims :
           \E e \in decisions' : e.act \in OpeningActions /\ c \in e.claims
    BY DEF Openers
  <2> QED BY <2>1, <2>2 DEF BookInv, Tables, ClosesAccepted
<1>4. SettledOnce'
  <2>1. \A e \in decisions' : e.act \in SettleActions => e \in decisions \/ e = d
    OBVIOUS
  <2>2. \A e \in decisions : e.act \in SettleActions =>
           \A c \in e.claims : e.claims = ClaimsOf(owner', owner'[c])
    BY SettledUndisturbed
  <2>3. \A c \in d.claims : d.claims = ClaimsOf(owner', owner'[c])
    BY DEF ClaimsOf
  <2>4. \A e \in decisions : e.claims \cap d.claims = {}
    BY Insertion
  <2>5. \A e, g \in decisions : e.act \in SettleActions /\ g.act \in SettleActions /\ e # g =>
           e.claims \cap g.claims = {}
    BY DEF BookInv, Tables, SettledOnce
  <2> QED
    BY <2>1, <2>2, <2>3, <2>4, <2>5 DEF SettledOnce
<1> QED
  BY <1>1, <1>2, <1>3, <1>4 DEF Tables

\* A rejection settles one pending Proposal and moves no Claim.
LEMMA RejectTables ==
    ASSUME BookInv, NEW prop \in Pending(owner), NEW d, d.act \in SettleActions,
           d.claims = ClaimsOf(owner, prop), owner' = owner,
           decisions' = decisions \cup {d}
    PROVE  Tables'
<1>1. prop # {}
  BY DEF Pending
<1>2. \A e \in decisions : e.claims \cap d.claims = {}
  BY Undecided
<1>3. \A c \in d.claims : owner[c] = prop /\ c \in Captured
  BY <1>1 DEF ClaimsOf, Captured
<1>4. NamedByMembers' /\ NamesRecorded'
  BY <1>3 DEF BookInv, Tables, NamedByMembers, NamesRecorded, Captured
<1>5. ClosesAccepted'
  BY DEF BookInv, Tables, ClosesAccepted
<1>6. SettledOnce'
  <2>1. \A c \in d.claims : d.claims = ClaimsOf(owner', owner'[c])
    BY <1>3
  <2> QED BY <1>2, <2>1 DEF BookInv, Tables, SettledOnce
<1> QED
  BY <1>4, <1>5, <1>6 DEF Tables

-----------------------------------------------------------------------------
\* The kinds of step the tables can see.
Captures(p) == Inserts(fin[p]) /\ decisions' = decisions
AcceptsWith(p, d, X) ==
    /\ d.act \in OpeningActions /\ d.claims = ClaimsOf(owner', ProposalOf(fin[p]))
    /\ \A x \in X : /\ x.act \notin SettleActions
                    /\ \A c \in x.claims : Openers(decisions, c) # {}
    /\ decisions' = decisions \cup X \cup {d}
Accepts(p)  == Inserts(fin[p]) /\ \E d, X : AcceptsWith(p, d, X)
Rejects ==
    /\ owner' = owner
    /\ \E prop \in Pending(owner) : \E d :
         /\ d.act = "REJECT" /\ d.claims = ClaimsOf(owner, prop)
         /\ decisions' = decisions \cup {d}

LEMMA FinalizeKinds ==
    ASSUME BookInv, NEW p \in Finalizers, Finalize(p)
    PROVE  UNCHANGED <<owner, decisions>> \/ Captures(p) \/ Accepts(p)
<1>1. ASSUME CanWrite(p), owner' = OwnerAfter(fin[p])
      PROVE  Inserts(fin[p])
  BY <1>1 DEF CanWrite, At, Inserts, BookInv, TypeInv, TypeOK
<1>2. ASSUME CommitPending(p)
      PROVE  Captures(p)
  BY <1>1, <1>2 DEF CommitPending, WriteCandidate, Captures
<1>3. ASSUME CommitPromotion(p)
      PROVE  Accepts(p)
  <2> DEFINE d == Acceptance(Candidate(fin[p]), fin[p].rec)
  <2>1. /\ CanWrite(p) /\ owner' = OwnerAfter(fin[p])
        /\ decisions' = decisions \cup {} \cup {d}
    BY <1>3 DEF CommitPromotion, WriteCandidate
  <2>2. d.act = "ACCEPT" /\ d.claims = Candidate(fin[p])
    BY DEF Acceptance, Decision
  <2>3. Candidate(fin[p]) = ClaimsOf(owner', ProposalOf(fin[p]))
    BY <2>1 DEF Candidate
  <2> HIDE DEF d
  <2>4. AcceptsWith(p, d, {})
    BY <2>1, <2>2, <2>3 DEF AcceptsWith, OpeningActions
  <2> QED BY <1>1, <2>1, <2>4 DEF Accepts
<1>4. ASSUME NEW h \in Digests, CommitReplacement(p, h)
      PROVE  Accepts(p)
  <2> DEFINE d == Replacing(Candidate(fin[p]), fin[p].rec, h)
             x == Closing(fin[p].rep, fin[p].rec, h)
  <2>1. /\ CanWrite(p) /\ owner' = OwnerAfter(fin[p])
        /\ decisions' = decisions \cup {x} \cup {d}
    BY <1>4 DEF CommitReplacement, WriteCandidate
  <2>2. d.act = "ACCEPT_SUPERSEDE" /\ d.claims = Candidate(fin[p])
    BY DEF Replacing, Decision
  <2>3. Candidate(fin[p]) = ClaimsOf(owner', ProposalOf(fin[p]))
    BY <2>1 DEF Candidate
  <2>4. x.act = "SUPERSEDE" /\ x.claims = {fin[p].rep}
    BY DEF Closing, Decision
  <2>5. Openers(decisions, fin[p].rep) # {}
    <3>1. fin[p].rep \in Accepted
      BY <1>4 DEF CommitReplacement, Objections
    <3>2. Known = decisions
      BY ViewTypes DEF BookInv, TypeInv
    <3> QED BY <3>1, <3>2 DEF Accepted, Active
  <2> HIDE DEF d, x
  <2>6. d.act \in OpeningActions /\ x.act \notin SettleActions
    BY <2>2, <2>4 DEF SettleActions, OpeningActions
  <2>7. \A y \in {x} : y.act \notin SettleActions /\ \A c \in y.claims : Openers(decisions, c) # {}
    BY <2>4, <2>5, <2>6
  <2>8. AcceptsWith(p, d, {x})
    BY <2>1, <2>2, <2>3, <2>6, <2>7 DEF AcceptsWith
  <2> QED BY <1>1, <2>1, <2>8 DEF Accepts
<1>5. ASSUME ReadOnly
      PROVE  UNCHANGED <<owner, decisions>>
  BY <1>5 DEF ReadOnly, store
<1> QED
  BY <1>2, <1>3, <1>4, <1>5 DEF Finalize, Begin, ReadUnreadable, NothingNew,
     AlreadyPending, ReadDelta, ReadReplacement, ReadConflict, ReadToken,
     CommitNotResumable, CommitCollision, CommitUnreadable, CommitRefused, RolledBack, Abort

LEMMA ResolveKinds ==
    ASSUME NEW r \in Resolvers, Resolve(r)
    PROVE  UNCHANGED <<owner, decisions>> \/ Rejects
<1>1. ASSUME CommitRejection(r)
      PROVE  Rejects
  <2> DEFINE prop == res[r].prop
             d    == Rejection(ClaimsOf(owner, prop), res[r].rec)
  <2>1. d.act = "REJECT" /\ d.claims = ClaimsOf(owner, prop)
    BY DEF Rejection, Decision
  <2>2. prop \in Pending(owner) /\ owner' = owner /\ decisions' = decisions \cup {d}
    BY <1>1 DEF CommitRejection, Rejectable
  <2> HIDE DEF d
  <2> QED BY <2>1, <2>2 DEF Rejects
<1> QED
  BY <1>1 DEF Resolve, ReadReview, CheckReview, RefuseRejection, AbortReview, EndReview, store

-----------------------------------------------------------------------------
\* The Candidate a finalizer resumes only ever gains lifecycle Claims.
LEMMA Growth ==
    ASSUME BookInv, NEW pl, Inserts(pl), NEW m, m # {}, ClaimsOf(owner, m) # {}
    PROVE  /\ ClaimsOf(owner', m) # {}
           /\ ClaimsOf(owner', m) \subseteq ClaimsOf(owner, m) \cup Lifecycles
<1>1. CASE m # ProposalOf(pl)
  BY <1>1, Insertion
<1>2. CASE m = ProposalOf(pl)
  <2>1. ClaimsOf(owner', m) \subseteq ClaimsOf(owner, m) \cup Inserted(pl)
    BY DEF ClaimsOf, Inserts, OwnerAfter
  <2>2. pl.life \subseteq Lifecycles
    BY DEF Inserts, PlanSet
  <2>3. ASSUME pl.match = {} PROVE FALSE
    <3>1. PICK c \in Claims : owner[c] = m
      BY DEF ClaimsOf
    <3>2. \A e \in m : owner[e] = m /\ e \in Claims
      BY <3>1 DEF BookInv, TypeInv, TypeOK, Tables, NamedByMembers
    <3>3. m \subseteq Captured /\ m \subseteq Inserted(pl)
      BY <1>2, <2>3, <3>2 DEF Captured, ProposalOf, Inserted
    <3> QED BY <3>3 DEF Inserts, Collides
  <2>4. Inserted(pl) \subseteq Lifecycles
    BY <2>2, <2>3 DEF Inserted
  <2> QED BY <1>2, <2>1, <2>4, Insertion
<1> QED
  BY <1>1, <1>2

\* So what a waiting finalizer relies on survives the commits of the others.
LEMMA WaitingAnchored ==
    ASSUME BookInv, NEW q \in Finalizers, fin'[q] = fin[q],
           owner' = owner \/ \E p \in Finalizers : Inserts(fin[p])
    PROVE  Anchored(fin[q])'
<1>1. Anchored(fin[q])
  BY DEF BookInv
<1>2. CASE owner' = owner
  BY <1>1, <1>2 DEF Anchored, ClaimsOf
<1>3. CASE \E p \in Finalizers : Inserts(fin[p])
  BY <1>1, <1>3, Growth DEF Anchored
<1> QED
  BY <1>2, <1>3

\* A finalizer's own step: it reads, keeping what it relies on, or is done.
LEMMA OwnAnchored ==
    ASSUME BookInv, NEW p \in Finalizers, Finalize(p)
    PROVE  Anchored(fin[p])'
<1>1. Anchored(fin[p]) /\ fin \in [Finalizers -> PlanSet] /\ fin[p] \in PlanSet
  BY DEF BookInv, TypeInv, TypeOK
<1>2. ASSUME NEW out, Return(p, out)
      PROVE  Anchored(fin[p])'
  BY <1>1, <1>2 DEF Return, NoPlan, Anchored, Later
<1>3. ASSUME NEW pay, NEW back, Begin(p, pay, back)
      PROVE  Anchored(fin[p])'
  <2>1. \/ fin'[p].pc = "delta" /\ fin'[p].match = {}
        \/ \E out : Return(p, out)
    BY <1>1, <1>3 DEF Begin, NoPlan
  <2> QED BY <1>2, <2>1 DEF Anchored, Later
<1>4. ASSUME ReadDelta(p)
      PROVE  Anchored(fin[p])'
  <2>1. owner' = owner /\ fin[p].match = {}
    BY <1>1, <1>4 DEF ReadDelta, ReadOnly, store, Anchored, At
  <2>2. \/ /\ fin'[p].pc = "replacement" /\ fin'[p].delta = Fresh(p)
           /\ fin'[p].match \in Matching(Fresh(p))
        \/ /\ fin'[p].pc = "replacement" /\ fin'[p].delta = Fresh(p) \ PendingClaims
           /\ fin'[p].match = {} /\ ~(Fresh(p) \subseteq PendingClaims)
    <3>1. ASSUME NEW prop, fin' = [fin EXCEPT ![p].pc = "replacement",
                                ![p].delta = Fresh(p), ![p].match = prop]
          PROVE  fin'[p].pc = "replacement" /\ fin'[p].delta = Fresh(p) /\ fin'[p].match = prop
      BY <1>1, <3>1 DEF PlanSet
    <3>2. ASSUME fin' = [fin EXCEPT ![p].pc = "replacement",
                                    ![p].delta = Fresh(p) \ PendingClaims]
          PROVE  /\ fin'[p].pc = "replacement" /\ fin'[p].delta = Fresh(p) \ PendingClaims
                 /\ fin'[p].match = {}
      BY <1>1, <2>1, <3>2 DEF PlanSet
    <3> QED BY <1>4, <3>1, <3>2 DEF ReadDelta
  <2>3. ASSUME fin'[p].match \in Matching(Fresh(p))
        PROVE  ClaimsOf(owner, fin'[p].match) = Fresh(p) /\ Fresh(p) # {}
    BY <2>3 DEF Matching, Pending
  <2> QED BY <2>1, <2>2, <2>3 DEF Anchored, Later
<1>5. ASSUME fin'[p].delta = fin[p].delta, fin'[p].match = fin[p].match, owner' = owner,
             fin[p].pc \in Later, fin'[p].pc \in Later
      PROVE  Anchored(fin[p])'
  BY <1>1, <1>5 DEF Anchored, Later
<1>6. ASSUME ReadReplacement(p)
      PROVE  Anchored(fin[p])'
  <2>1. owner' = owner /\ fin[p].pc = "replacement"
    BY <1>6 DEF ReadReplacement, ReadOnly, store, At
  <2>2. ASSUME NEW rep, NEW ready,
               fin' = [fin EXCEPT ![p].pc = "conflict", ![p].rep = rep, ![p].ready = ready]
        PROVE  Anchored(fin[p])'
    <3>1. /\ fin'[p].delta = fin[p].delta /\ fin'[p].match = fin[p].match
          /\ fin'[p].pc = "conflict"
      BY <1>1, <2>2 DEF PlanSet
    <3> QED BY <1>5, <2>1, <3>1 DEF Later
  <2> QED BY <1>2, <1>6, <2>2 DEF ReadReplacement
<1>7. ASSUME ReadConflict(p)
      PROVE  Anchored(fin[p])'
  BY <1>1, <1>5, <1>7 DEF ReadConflict, ReadOnly, store, At, Later
<1>8. ASSUME ReadToken(p)
      PROVE  Anchored(fin[p])'
  BY <1>1, <1>5, <1>8 DEF ReadToken, ReadOnly, store, At, Later
<1>9. ASSUME NEW h, CommitReplacement(p, h)
      PROVE  Anchored(fin[p])'
  BY <1>2, <1>9 DEF CommitReplacement
<1>10. ASSUME CommitPromotion(p)
      PROVE  Anchored(fin[p])'
  BY <1>2, <1>10 DEF CommitPromotion
<1>11. ASSUME CommitPending(p)
      PROVE  Anchored(fin[p])'
  BY <1>2, <1>11 DEF CommitPending
<1>12. ASSUME CommitRefused(p)
      PROVE  Anchored(fin[p])'
  BY <1>2, <1>12 DEF CommitRefused, RolledBack
<1> QED
  BY <1>2, <1>3, <1>4, <1>6, <1>7, <1>8, <1>9, <1>10, <1>11, <1>12 DEF Finalize,
     ReadUnreadable, NothingNew, AlreadyPending, CommitNotResumable, CommitCollision,
     CommitUnreadable, RolledBack, Abort

\* A step of one finalizer leaves the plans of the others.
LEMMA OneAtATime ==
    ASSUME TypeInv, NEW p \in Finalizers, Finalize(p), NEW q \in Finalizers, q # p
    PROVE  fin'[q] = fin[q]
<1>1. fin \in [Finalizers -> PlanSet]
  BY DEF TypeInv, TypeOK
<1>2. ASSUME NEW pl, fin' = [fin EXCEPT ![p] = pl]
      PROVE  fin'[q] = fin[q]
  BY <1>1, <1>2
<1>3. ASSUME NEW out, Return(p, out)
      PROVE  fin'[q] = fin[q]
  BY <1>2, <1>3 DEF Return
<1>4. ASSUME NEW h, CommitReplacement(p, h)
      PROVE  fin'[q] = fin[q]
  BY <1>3, <1>4 DEF CommitReplacement
<1>5. ASSUME CommitRefused(p)
      PROVE  fin'[q] = fin[q]
  BY <1>3, <1>5 DEF CommitRefused, RolledBack
<1>6. ASSUME CommitPending(p)
      PROVE  fin'[q] = fin[q]
  BY <1>3, <1>6 DEF CommitPending
<1>7. ASSUME NEW pay, NEW back, Begin(p, pay, back)
      PROVE  fin'[q] = fin[q]
  BY <1>2, <1>3, <1>7 DEF Begin
<1>8. ASSUME ReadDelta(p) \/ ReadReplacement(p) \/ ReadConflict(p) \/ ReadToken(p)
      PROVE  fin'[q] = fin[q]
  BY <1>1, <1>3, <1>8 DEF ReadDelta, ReadReplacement, ReadConflict, ReadToken
<1> QED
  BY <1>3, <1>4, <1>5, <1>6, <1>7, <1>8 DEF Finalize, ReadUnreadable, NothingNew,
     AlreadyPending, CommitNotResumable, CommitCollision, CommitUnreadable, RolledBack,
     Abort, CommitPromotion

-----------------------------------------------------------------------------
LEMMA BookStarts == Init => BookInv
<1> SUFFICES ASSUME Init PROVE BookInv
  OBVIOUS
<1>1. TypeInv
  BY TypeInit
<1>2. Tables
  BY DEF Init, Tables, NamedByMembers, NamesRecorded, ClosesAccepted, SettledOnce
<1>3. \A p \in Finalizers : Anchored(fin[p])
  BY DEF Init, NoPlan, Anchored, Later
<1> QED
  BY <1>1, <1>2, <1>3 DEF BookInv

LEMMA KeepsTables ==
    ASSUME BookInv, [Next]_vars
    PROVE  Tables'
<1>1. CASE UNCHANGED <<owner, decisions>>
  BY <1>1 DEF BookInv, Tables, NamedByMembers, NamesRecorded, ClosesAccepted, SettledOnce,
     Captured, ClaimsOf
<1>2. ASSUME NEW p \in Finalizers, Captures(p)
      PROVE  Tables'
  BY <1>2, CaptureTables DEF Captures
<1>3. ASSUME NEW p \in Finalizers, Accepts(p)
      PROVE  Tables'
  <2>1. PICK d, X : AcceptsWith(p, d, X)
    BY <1>3 DEF Accepts
  <2> QED BY <1>3, <2>1, AcceptTables DEF Accepts, AcceptsWith, SettleActions
<1>4. ASSUME Rejects
      PROVE  Tables'
  BY <1>4, RejectTables DEF Rejects, SettleActions
<1> QED
  BY <1>1, <1>2, <1>3, <1>4, FinalizeKinds, ResolveKinds DEF Next, Tick, vars, store

LEMMA KeepsAnchored ==
    ASSUME BookInv, [Next]_vars, NEW q \in Finalizers
    PROVE  Anchored(fin[q])'
<1>1. ASSUME NEW p \in Finalizers, Finalize(p)
      PROVE  Anchored(fin[q])'
  <2>1. owner' = owner \/ Inserts(fin[p])
    BY <1>1, FinalizeKinds DEF Captures, Accepts
  <2>2. q # p => fin'[q] = fin[q]
    BY <1>1, OneAtATime DEF BookInv
  <2> QED BY <1>1, <2>1, <2>2, OwnAnchored, WaitingAnchored
<1>2. ASSUME NEW r \in Resolvers, Resolve(r)
      PROVE  owner' = owner /\ fin' = fin
  BY <1>2 DEF Resolve, ReadReview, CheckReview, CommitRejection, RefuseRejection,
     AbortReview, EndReview, store
<1>3. CASE owner' = owner /\ fin' = fin
  BY <1>3, WaitingAnchored
<1> QED
  BY <1>1, <1>2, <1>3 DEF Next, Tick, vars, store

LEMMA BookStep == BookInv /\ [Next]_vars => BookInv'
<1> SUFFICES ASSUME BookInv, [Next]_vars PROVE BookInv'
  OBVIOUS
<1>1. TypeInv'
  BY TypeStep DEF BookInv
<1> QED
  BY <1>1, KeepsTables, KeepsAnchored DEF BookInv

\* However finalizers and resolvers interleave, a Claim is accepted or rejected
\* once, and with its whole Proposal (promote_candidate, replace_candidate,
\* reject_candidate), for any number of processes.
THEOREM DecidedOnce == Spec => []SettledOnce
<1>1. BookInv => SettledOnce
  BY DEF BookInv, Tables
<1> QED
  BY <1>1, BookStarts, BookStep, PTL DEF Spec
=============================================================================
