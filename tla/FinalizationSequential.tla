----------------------- MODULE FinalizationSequential -----------------------
(***************************************************************************)
(* What finalizers that run one after another keep true of the accepted    *)
(* view, and only those: a conflict, and whether a way to operate is known *)
(* already, are looked at in the plan and never again under the write      *)
(* lock, so with two finalizers at once neither property holds (the run    *)
(* "v_race" has the counterexample).  Resolvers may act at any time: they  *)
(* only reject, which adds nothing to the accepted view and takes nothing  *)
(* from it.                                                                *)
(*                                                                         *)
(* The arguments say what a plan may still count on when it is carried     *)
(* out (PathPlan, SlotPlan, NothingNewer), and what a transaction can add  *)
(* to the accepted view (NewlyLive).  The last part, that the view can be  *)
(* read, is about the time a plan carries: the clock as it was at the      *)
(* start, which only another finalizer can be ahead of.                    *)
(***************************************************************************)
EXTENDS FinalizationBook

USE DEF OpeningActions, NoTime

Live(c) == StatusOf(c) = "accepted"

-----------------------------------------------------------------------------
(* What a step can do. *)

\* A contradiction is never dropped, nor its time changed.
LEMMA ContrasLast ==
    ASSUME contras \subseteq ContraSet, NEW pl, NEW K \in ContrasAfter(pl), NEW k \in contras
    PROVE  \E j \in K : j.on = k.on /\ j.rec = k.rec
<1>1. CASE contras \subseteq K
  BY <1>1
<1>2. CASE \E r \in Reusable(pl) : K = (contras \ {r}) \cup {[r EXCEPT !.ev = @ \cup pl.pay.old]}
  <2>1. PICK r \in contras : K = (contras \ {r}) \cup {[r EXCEPT !.ev = @ \cup pl.pay.old]}
    BY <1>2 DEF Reusable
  <2>2. [r EXCEPT !.ev = @ \cup pl.pay.old].on = r.on
        /\ [r EXCEPT !.ev = @ \cup pl.pay.old].rec = r.rec
    BY DEF ContraSet
  <2> QED BY <2>1, <2>2
<1> QED
  BY <1>1, <1>2 DEF ContrasAfter

\* The two transactions that accept.
Transacts(p) == CommitPromotion(p) \/ \E h \in Digests : CommitReplacement(p, h)

\* The tables only grow; what opens a Claim is one of the two transactions.
LEMMA TablesGrow ==
    ASSUME ViewInv, [Next]_vars
    PROVE  /\ decisions \subseteq decisions'
           /\ contras' = contras \/ \E pl : contras' \in ContrasAfter(pl)
           /\ \/ \A d \in decisions' \ decisions : d.act = "REJECT"
              \/ \E p \in Finalizers : Transacts(p)
<1>1. CASE UNCHANGED store
  BY <1>1 DEF store
<1>2. ASSUME NEW p \in Finalizers, CommitPending(p)
      PROVE  decisions' = decisions /\ contras' \in ContrasAfter(fin[p])
  BY <1>2 DEF CommitPending, WriteCandidate
<1>3. ASSUME NEW p \in Finalizers, Transacts(p)
      PROVE  decisions \subseteq decisions' /\ contras' \in ContrasAfter(fin[p])
  BY <1>3 DEF Transacts, CommitPromotion, CommitReplacement, WriteCandidate
<1>4. ASSUME NEW r \in Resolvers, CommitRejection(r)
      PROVE  /\ decisions \subseteq decisions' /\ contras' = contras
             /\ \A d \in decisions' \ decisions : d.act = "REJECT"
  BY <1>4 DEF CommitRejection, Rejection, Decision
<1>5. ASSUME NEW p \in Finalizers, Finalize(p)
      PROVE  UNCHANGED store \/ CommitPending(p) \/ Transacts(p)
  BY <1>5 DEF Finalize, Begin, ReadUnreadable, NothingNew, AlreadyPending, ReadDelta,
     ReadReplacement, ReadConflict, ReadToken, CommitNotResumable, CommitCollision,
     CommitUnreadable, CommitRefused, Abort, RolledBack, ReadOnly, Transacts
<1>6. ASSUME NEW r \in Resolvers, Resolve(r)
      PROVE  UNCHANGED store \/ CommitRejection(r)
  BY <1>6 DEF Resolve, ReadReview, CheckReview, RefuseRejection, AbortReview, EndReview, store
<1> QED
  BY <1>1, <1>2, <1>3, <1>4, <1>5, <1>6 DEF Next, Tick, vars

\* A Claim that was opened before and is accepted now was accepted before.
LEMMA LiveBefore ==
    ASSUME ViewInv, decisions \subseteq decisions', NEW c \in Claims,
           Openers(decisions, c) # {}, Live(c)'
    PROVE  Live(c)
<1>1. Closers(decisions, c) = {}
  BY DEF Live, StatusOf, Closers
<1>2. owner[c] # {} /\ Settled(decisions, c)
  BY DEF Openers, Settled, ViewInv, CauseInv, BookInv, Tables, NamesRecorded, Captured
<1> QED
  BY <1>1, <1>2 DEF Live, StatusOf

\* What a replacement accepts: one Claim, which is no lifecycle.
LEMMA ReplacesByOne ==
    ASSUME ViewInv, NEW p \in Finalizers, NEW h \in Digests, CommitReplacement(p, h)
    PROVE  /\ Candidate(fin[p]) = {fin[p].pay.by} /\ fin[p].delta = {fin[p].pay.by}
           /\ fin[p].pay.by \in Claims \ Lifecycles
           /\ fin[p].rep \in Accepted
<1> DEFINE pl == fin[p]
<1>1. CanWrite(p) /\ pl.ready /\ pl.rep \in Accepted /\ Cardinality(Candidate(pl)) = 1
  BY DEF CommitReplacement, Objections
<1>2. pl.pay.by \in Claims /\ pl.delta = {pl.pay.by}
  BY <1>1 DEF ViewInv, CauseInv, BookInv, TypeInv, Coherent
<1>3. pl.delta \subseteq Candidate(pl) /\ pl.delta \cap Lifecycles = {}
  BY <1>1, CandidateOf DEF ViewInv
<1>4. PICK new : Candidate(pl) = {new}
  <2>1. IsFiniteSet(Candidate(pl))
    BY ConstantsOK, FS_Subset DEF Candidate, ClaimsOf
  <2> QED BY <1>1, <2>1, FS_Singleton
<1> QED
  BY <1>1, <1>2, <1>3, <1>4

\* What an acceptance adds: Claims of the plan, and lifecycles the plan earned.
LEMMA NewlyLive ==
    ASSUME ViewInv, [Next]_vars, NEW c \in Claims, Live(c)', Openers(decisions, c) = {}
    PROVE  \E p \in Finalizers : /\ Transacts(p)
                                 /\ \/ c \in fin[p].delta \ Lifecycles
                                    \/ CommitPromotion(p) /\ c \in fin[p].life
<1>1. PICK d \in decisions' : d.act \in OpeningActions /\ c \in d.claims /\ d \notin decisions
  BY DEF Live, StatusOf, Openers
<1>2. PICK p \in Finalizers : Transacts(p)
  BY <1>1, TablesGrow
<1>3. c \in Candidate(fin[p])
  <2>1. CASE CommitPromotion(p)
    BY <1>1, <2>1 DEF CommitPromotion, Acceptance, Decision
  <2>2. ASSUME NEW h \in Digests, CommitReplacement(p, h) PROVE c \in Candidate(fin[p])
    BY <1>1, <2>2 DEF CommitReplacement, Replacing, Closing, Decision
  <2> QED BY <1>2, <2>1, <2>2 DEF Transacts
<1>4. CASE CommitPromotion(p)
  <2>1. CanWrite(p)
    BY <1>4 DEF CommitPromotion
  <2>2. c \in Lifecycles => owner[c] = {}
    BY DEF ViewInv, CauseInv, Causes, LifecyclesOpened, Opened
  <2> QED BY <1>2, <1>3, <1>4, <2>1, <2>2, CandidateOf DEF ViewInv
<1>5. ASSUME NEW h \in Digests, CommitReplacement(p, h)
      PROVE  c \in fin[p].delta \ Lifecycles
  BY <1>3, <1>5, ReplacesByOne
<1> QED
  BY <1>2, <1>4, <1>5 DEF Transacts

\* How a step may change a plan.
Reset(pl) == ~pl.automatic /\ pl.rep = None /\ pl.life = {}
Carried(pl, old) ==
    /\ pl.pay = old.pay /\ pl.delta = old.delta /\ pl.rep = old.rep
    /\ pl.ready = old.ready /\ pl.automatic = old.automatic /\ pl.life = old.life

LEMMA PlanSteps ==
    ASSUME ViewInv, [Next]_vars, NEW q \in Finalizers
    PROVE  \/ Reset(fin'[q]) \/ Carried(fin'[q], fin[q])
           \/ ReadReplacement(q) /\ ~fin'[q].automatic /\ fin'[q].life = {}
           \/ ReadConflict(q)
<1>1. fin \in [Finalizers -> PlanSet] /\ fin[q] \in PlanSet /\ TypeInv
  BY DEF ViewInv, CauseInv, BookInv, TypeInv, TypeOK
<1>2. ASSUME NEW out, Return(q, out)
      PROVE  Reset(fin'[q])
  BY <1>1, <1>2 DEF Return, NoPlan, Reset
<1>3. ASSUME fin[q].pc \in {"delta", "replacement"}
      PROVE  Reset(fin[q])
  BY <1>3 DEF ViewInv, CauseInv, BookInv, TypeInv, Coherent, Planned, Reset
<1>4. ASSUME NEW pay, NEW back, Begin(q, pay, back)
      PROVE  Reset(fin'[q])
  BY <1>1, <1>2, <1>4 DEF Begin, NoPlan, Reset
<1>5. CASE ReadDelta(q)
  <2>1. /\ fin'[q].rep = fin[q].rep /\ fin'[q].automatic = fin[q].automatic
        /\ fin'[q].life = fin[q].life /\ fin[q].pc = "delta"
    BY <1>1, <1>5 DEF ReadDelta, At, PlanSet
  <2> QED BY <1>3, <2>1 DEF Reset
<1>6. CASE ReadReplacement(q)
  <2>1. CASE Return(q, "PAYLOAD_VALUE")
    BY <1>2, <2>1
  <2>2. CASE ~Return(q, "PAYLOAD_VALUE")
    <3>1. fin'[q].automatic = fin[q].automatic /\ fin'[q].life = fin[q].life
          /\ fin[q].pc = "replacement"
      BY <1>1, <1>6, <2>2 DEF ReadReplacement, At, PlanSet
    <3> QED BY <1>3, <1>6, <3>1 DEF Reset
  <2> QED BY <2>1, <2>2
<1>7. CASE ReadToken(q)
  BY <1>1, <1>7 DEF ReadToken, PlanSet, Carried
<1>8. CASE \/ ReadUnreadable(q) \/ NothingNew(q) \/ AlreadyPending(q) \/ CommitNotResumable(q)
           \/ CommitCollision(q) \/ CommitUnreadable(q) \/ CommitPromotion(q) \/ Abort(q)
           \/ CommitPending(q) \/ CommitRefused(q) \/ \E h \in Digests : CommitReplacement(q, h)
  BY <1>2, <1>8 DEF ReadUnreadable, NothingNew, AlreadyPending, CommitNotResumable,
     CommitCollision, CommitUnreadable, RolledBack, CommitPromotion, Abort, CommitPending,
     CommitRefused, CommitReplacement
<1>9. CASE Finalize(q)
  BY <1>4, <1>5, <1>6, <1>7, <1>8, <1>9 DEF Finalize
<1>10. CASE fin'[q] = fin[q]
  BY <1>10 DEF Carried
<1>11. ASSUME NEW r \in Resolvers, Resolve(r)
       PROVE  fin' = fin
  BY <1>11 DEF Resolve, ReadReview, CheckReview, CommitRejection, RefuseRejection,
     AbortReview, EndReview
<1> QED
  BY <1>1, <1>9, <1>10, <1>11, OneAtATime DEF Next, Tick, vars

\* The process that commits starts anew.
LEMMA TransactionEnds ==
    ASSUME ViewInv, NEW p \in Finalizers, Transacts(p)
    PROVE  ~fin'[p].automatic /\ fin'[p].life = {} /\ fin'[p].rep = None
<1>1. fin \in [Finalizers -> PlanSet]
  BY DEF ViewInv, CauseInv, BookInv, TypeInv, TypeOK
<1> QED
  BY <1>1 DEF Transacts, CommitPromotion, CommitReplacement, Return, NoPlan

-----------------------------------------------------------------------------
(* One way to operate. *)

\* Whether a lifecycle would be believed, read off the tables.
Sound(l) == Live(l) /\ \A c \in Deps[l] : Live(c) /\ c \notin Contradicted

OnePath == \A l, m \in Lifecycles : Sound(l) /\ Sound(m) => l = m

\* A plan earns one lifecycle, and none is believed until it is carried out.
PathPlan(pl) == \A l \in pl.life : pl.life = {l} /\ \A m \in Lifecycles : ~Sound(m)

PathInv == ViewInv /\ OnePath /\ \A p \in Finalizers : PathPlan(fin[p])

\* Where the view can be read, believed is believed.
LEMMA TrustedSound ==
    ASSUME ViewInv, Readable, NEW l \in Lifecycles
    PROVE  Trusted(l) <=> Sound(l)
<1>1. l \in Claims /\ Deps[l] \subseteq Claims
  BY ConstantsOK
<1>2. \A c \in Claims : c \in Accepted <=> Live(c)
  BY AcceptedStatus DEF Live
<1> QED
  BY <1>1, <1>2 DEF Trusted, Sound

\* A contradiction is resolved only by closing the Claim it is about.
LEMMA StillContradicted ==
    ASSUME ViewInv, ViewInv', [Next]_vars, NEW c \in Contradicted, Live(c)'
    PROVE  c \in Contradicted'
<1>1. /\ Known = decisions /\ Known' = decisions'
      /\ contras \subseteq ContraSet /\ decisions' \subseteq DecisionSet
      /\ \A k \in contras' : k.rec <= now'
  BY ViewTypes DEF ViewInv, CauseInv, BookInv, TypeInv, TypeOK, Known, Visible
<1>2. PICK k \in contras : k.on = c
  BY DEF Contradicted, Unresolved
<1>3. PICK j \in contras' : j.on = c /\ j.rec = k.rec
  BY <1>1, <1>2, TablesGrow, ContrasLast
<1>4. Closers(decisions', c) = {}
  BY DEF Live, StatusOf
<1>5. \A d \in decisions' : c \in d.claims => d.act \notin ResolutionActions
  BY <1>1, <1>4 DEF Closers, ResolutionActions, CloseActions, DecisionSet
<1> QED
  BY <1>1, <1>3, <1>5 DEF Contradicted, Unresolved

\* A lifecycle that stopped being believed never is again: what comes to be
\* believed is what a transaction has just accepted.
LEMMA SoundBefore ==
    ASSUME ViewInv, ViewInv', [Next]_vars, NEW l \in Lifecycles, Sound(l)'
    PROVE  Sound(l) \/ \E p \in Finalizers : CommitPromotion(p) /\ l \in fin[p].life
<1>1. l \in Claims /\ Deps[l] \subseteq Claims /\ Live(l)'
  BY ConstantsOK DEF Sound
<1>2. decisions \subseteq decisions'
  BY TablesGrow
<1>3. CASE Openers(decisions, l) = {}
  BY <1>1, <1>3, NewlyLive
<1>4. CASE Openers(decisions, l) # {}
  <2>1. Live(l)
    BY <1>1, <1>2, <1>4, LiveBefore
  <2>2. ASSUME NEW c \in Deps[l]
        PROVE  Live(c) /\ c \notin Contradicted
    <3>1. c \in Claims /\ Live(c)' /\ c \notin Contradicted'
      BY <1>1 DEF Sound
    <3>2. Openers(decisions, c) # {}
      BY <1>4 DEF ViewInv, CauseInv, Causes, LifecycleFounded
    <3>3. Live(c)
      BY <1>2, <3>1, <3>2, LiveBefore
    <3> QED BY <3>1, <3>3, StillContradicted
  <2> QED BY <2>1, <2>2 DEF Sound
<1> QED
  BY <1>3, <1>4

LEMMA KeepsPath ==
    ASSUME OneFinalizer, PathInv, ViewInv', [Next]_vars
    PROVE  OnePath'
<1> SUFFICES ASSUME NEW l \in Lifecycles, NEW m \in Lifecycles, Sound(l)', Sound(m)'
             PROVE  l = m
  BY DEF OnePath
<1>1. ViewInv /\ OnePath /\ \A p \in Finalizers : PathPlan(fin[p])
  BY DEF PathInv
<1>2. /\ Sound(l) \/ \E p \in Finalizers : l \in fin[p].life
      /\ Sound(m) \/ \E p \in Finalizers : m \in fin[p].life
  BY <1>1, SoundBefore
<1>3. CASE Sound(l) /\ Sound(m)
  BY <1>1, <1>3 DEF OnePath
<1>4. CASE \E p \in Finalizers : l \in fin[p].life
  BY <1>1, <1>2, <1>4 DEF PathPlan, OneFinalizer
<1>5. CASE \E p \in Finalizers : m \in fin[p].life
  BY <1>1, <1>2, <1>5 DEF PathPlan, OneFinalizer
<1> QED
  BY <1>2, <1>3, <1>4, <1>5

\* What a finalizer read of the ways to operate stays true while it runs.
LEMMA KeepsPathPlan ==
    ASSUME OneFinalizer, PathInv, ViewInv', [Next]_vars, NEW q \in Finalizers
    PROVE  PathPlan(fin[q])'
<1>1. ViewInv /\ PathPlan(fin[q])
  BY DEF PathInv
<1> SUFFICES ASSUME fin'[q].life # {}
             PROVE  PathPlan(fin[q])'
  BY DEF PathPlan
<1>2. \A p \in Finalizers : ~Transacts(p)
  BY <1>1, TransactionEnds DEF OneFinalizer
<1>3. \A m \in Lifecycles : Sound(m)' => Sound(m)
  BY <1>1, <1>2, SoundBefore DEF Transacts
<1>4. CASE fin'[q].life = fin[q].life
  BY <1>1, <1>3, <1>4 DEF PathPlan
<1>5. CASE ReadConflict(q)
  <2>1. fin \in [Finalizers -> PlanSet] /\ fin[q] \in PlanSet /\ fin[q].pay \in Payloads
    BY <1>5 DEF ViewInv, CauseInv, BookInv, TypeInv, TypeOK, PathInv, PlanSet, ReadConflict, At
  <2>2. fin'[q].life = EarnedLifecycle(fin[q]) /\ Readable
    BY <1>5, <2>1 DEF ReadConflict, PlanSet
  <2>3. fin'[q].life = Proven(fin[q]) /\ Cardinality(fin'[q].life) = 1 /\ ~Operational
    BY <2>2 DEF EarnedLifecycle
  <2>4. PICK l : fin'[q].life = {l}
    <3>1. fin'[q].life \subseteq Lifecycles
      BY <2>1, <2>3, ConstantsOK DEF Proven, PayloadSet
    <3>2. IsFiniteSet(fin'[q].life)
      BY <3>1, ConstantsOK, FS_Subset
    <3> QED BY <2>3, <3>2, FS_Singleton
  <2>5. \A m \in Lifecycles : ~Sound(m)
    BY <1>1, <2>2, <2>3, TrustedSound DEF Operational
  <2> QED BY <1>3, <2>4, <2>5 DEF PathPlan
<1> QED
  BY <1>1, <1>4, <1>5, PlanSteps DEF Reset, Carried

\* One finalizer at a time, and resolvers whenever they like, never have two
\* lifecycles believed at once (_operational_proof_dependencies).
THEOREM OnePathBelieved ==
    ASSUME OneFinalizer
    PROVE  Spec => []OneOperationalPath
<1>1. Init => PathInv
  <2> SUFFICES ASSUME Init PROVE PathInv
    OBVIOUS
  <2>1. \A c \in Claims : ~Live(c)
    BY DEF Init, Live, StatusOf
  <2>2. OnePath
    BY <2>1, ConstantsOK DEF OnePath, Sound
  <2>3. \A p \in Finalizers : PathPlan(fin[p])
    BY DEF Init, NoPlan, PathPlan
  <2> QED BY <2>2, <2>3, ShapesStart DEF PathInv
<1>2. PathInv /\ [Next]_vars => PathInv'
  <2>1. PathInv /\ [Next]_vars => ViewInv'
    BY ShapesStep DEF PathInv
  <2> QED BY <2>1, KeepsPath, KeepsPathPlan DEF PathInv
<1>3. PathInv => OneOperationalPath
  BY TrustedSound DEF PathInv, OnePath, OneOperationalPath
<1> QED
  BY <1>1, <1>2, <1>3, PTL DEF Spec

-----------------------------------------------------------------------------
(* One value for one slot. *)

ExclusiveLive == \A c, d \in Claims \ Exempt : Live(c) /\ Live(d) => ~Differ(c, d)

\* A plan replaces what its payload contradicts; what it will accept without
\* closing anything conflicts with nothing that is accepted.
SlotPlan(pl) ==
    /\ pl.rep # None => pl.rep = pl.pay.prior /\ pl.pay.by # None
    /\ pl.automatic /\ ~pl.ready =>
           \A c \in pl.delta \ Exempt, d \in Claims \ Exempt :
               d \in pl.delta \/ Live(d) => ~Differ(c, d)

SlotInv == ViewInv /\ ExclusiveLive /\ \A p \in Finalizers : SlotPlan(fin[p])

LEMMA DifferSymmetric == \A c, d : Differ(c, d) <=> Differ(d, c)
  BY DEF Differ

\* No Claim differs from a lifecycle.
LEMMA LifecyclesAgree ==
    ASSUME NEW l \in Lifecycles, NEW c \in Claims
    PROVE  ~Differ(l, c) /\ ~Differ(c, l)
  BY IdsOK DEF Differ

\* What is accepted together, or beside what was accepted, states no second
\* value.
LEMMA PromotionExclusive ==
    ASSUME SlotInv, [Next]_vars, NEW p \in Finalizers, CommitPromotion(p)
    PROVE  ExclusiveLive'
<1> DEFINE pl == fin[p]
<1>1. ViewInv /\ ExclusiveLive /\ SlotPlan(pl) /\ pl.automatic /\ ~pl.ready
  BY DEF SlotInv, CommitPromotion
<1>2. CanWrite(p) /\ pl.life \subseteq Lifecycles
  BY <1>1, CandidateOf DEF CommitPromotion, ViewInv
<1>3. decisions' = decisions \cup {Acceptance(Candidate(pl), pl.rec)}
  BY DEF CommitPromotion
<1>4. \A c \in Claims : Live(c)' => Live(c) \/ c \in pl.delta \/ c \in Lifecycles
  <2> SUFFICES ASSUME NEW c \in Claims, Live(c)', ~Live(c), c \notin Lifecycles
               PROVE  c \in pl.delta
    OBVIOUS
  <2>1. Openers(decisions, c) = {}
    BY <1>1, <1>3, LiveBefore
  <2>2. Openers(decisions', c) # {}
    BY DEF Live, StatusOf
  <2>3. c \in Candidate(pl)
    BY <1>3, <2>1, <2>2 DEF Openers, Acceptance, Decision
  <2> QED BY <1>1, <1>2, <2>3, CandidateOf DEF ViewInv
<1> QED
  BY <1>1, <1>4, DifferSymmetric, LifecyclesAgree DEF ExclusiveLive, SlotPlan

\* What replaces a Claim takes its slot, which nothing else states a value for.
LEMMA ReplacementExclusive ==
    ASSUME ReplacesInKind, SlotInv, ViewInv', NEW p \in Finalizers, NEW h \in Digests,
           CommitReplacement(p, h)
    PROVE  ExclusiveLive'
<1> DEFINE pl  == fin[p]
           new == pl.pay.by
<1>1. /\ ViewInv /\ ExclusiveLive /\ SlotPlan(pl) /\ pl.ready /\ Readable
      /\ pl \in PlanSet /\ pl.pc = "commit" /\ pl.rep # None
  BY DEF SlotInv, ViewInv, CauseInv, BookInv, TypeInv, TypeOK, CommitReplacement, CanWrite, At,
     Coherent
<1>2. /\ Candidate(pl) = {new} /\ new \in Claims \ Lifecycles /\ pl.rep \in Accepted
  BY <1>1, ReplacesByOne
<1>3. /\ pl.rep \in Claims /\ Live(pl.rep)
  BY <1>1, <1>2, AcceptedStatus DEF Live
<1>4. pl.pay \in Payloads /\ pl.rep = pl.pay.prior /\ new # None
  BY <1>1 DEF SlotPlan, PlanSet, ViewInv, CauseInv, BookInv, TypeInv, TypeOK
<1>5. Slot[new] = Slot[pl.rep] /\ (pl.rep \in Exempt => new \in Exempt)
  BY <1>4 DEF ReplacesInKind
<1>6. \A c \in Claims : Live(c)' => c = new \/ (Live(c) /\ c # pl.rep)
  <2>1. decisions' = decisions \cup {Closing(pl.rep, pl.rec, h), Replacing({new}, pl.rec, h)}
    BY <1>2 DEF CommitReplacement
  <2>2. /\ Closing(pl.rep, pl.rec, h).act = "SUPERSEDE"
        /\ Closing(pl.rep, pl.rec, h).claims = {pl.rep}
        /\ Replacing({new}, pl.rec, h).claims = {new}
    BY DEF Closing, Replacing, Decision
  <2>3. ASSUME NEW c \in Claims, Live(c)' PROVE c # pl.rep
    <3>1. Closers(decisions', c) = {}
      BY <2>3 DEF Live, StatusOf
    <3> QED BY <2>1, <2>2, <3>1 DEF Closers, CloseActions
  <2>4. ASSUME NEW c \in Claims, Live(c)', c # new PROVE Live(c)
    <3>1. Openers(decisions', c) # {}
      BY <2>4 DEF Live, StatusOf
    <3>2. Openers(decisions, c) # {}
      BY <2>1, <2>2, <2>4, <3>1 DEF Openers
    <3> QED BY <1>1, <2>1, <2>4, <3>2, LiveBefore
  <2> QED BY <2>3, <2>4
<1>7. ASSUME NEW d \in Claims \ Exempt, Live(d), d # pl.rep, new \notin Exempt
      PROVE  ~Differ(new, d)
  <2> SUFFICES ASSUME Slot[new] = Slot[d]
               PROVE  Value[new] = Value[d]
    BY DEF Differ
  <2>1. Value[pl.rep] = Value[d]
    BY <1>1, <1>3, <1>5, <1>7 DEF ExclusiveLive, Differ
  <2>2. CASE d \in Lifecycles
    BY <1>2, <2>2, IdsOK
  <2>3. CASE pl.rep \in Lifecycles
    BY <1>2, <1>5, <2>1, <2>3, IdsOK
  <2>4. CASE d \notin Lifecycles /\ pl.rep \notin Lifecycles
    <3>1. \A c \in Claims : Live(c) => c \in Observed
      BY <1>1 DEF Live, StatusOf, Openers, ViewInv, CauseInv, Causes, OpensObserved
    <3> QED BY <1>3, <1>5, <1>7, <2>1, <2>4, <3>1, IdsOK
  <2> QED BY <2>2, <2>3, <2>4
<1> QED
  BY <1>1, <1>6, <1>7, DifferSymmetric DEF ExclusiveLive, Differ

LEMMA KeepsExclusive ==
    ASSUME ReplacesInKind, SlotInv, ViewInv', [Next]_vars
    PROVE  ExclusiveLive'
<1>1. CASE \E p \in Finalizers : Transacts(p)
  BY <1>1, PromotionExclusive, ReplacementExclusive DEF Transacts
<1>2. CASE ~\E p \in Finalizers : Transacts(p)
  <2>1. \A c \in Claims : Live(c)' => Live(c)
    BY <1>2, TablesGrow, NewlyLive, LiveBefore DEF SlotInv
  <2> QED BY <2>1 DEF SlotInv, ExclusiveLive, Differ
<1> QED
  BY <1>1, <1>2

\* What a finalizer read of the conflicts stays true while it runs.
LEMMA KeepsSlotPlan ==
    ASSUME OneFinalizer, SlotInv, ViewInv', [Next]_vars, NEW q \in Finalizers
    PROVE  SlotPlan(fin[q])'
<1>1. /\ ViewInv /\ SlotPlan(fin[q])
      /\ fin \in [Finalizers -> PlanSet] /\ fin[q] \in PlanSet
  BY DEF SlotInv, ViewInv, CauseInv, BookInv, TypeInv, TypeOK
<1>2. fin'[q].automatic => \A c \in Claims : Live(c)' => Live(c)
  BY <1>1, TransactionEnds, TablesGrow, NewlyLive, LiveBefore DEF OneFinalizer
<1>3. CASE Reset(fin'[q])
  BY <1>3 DEF Reset, SlotPlan
<1>4. CASE Carried(fin'[q], fin[q])
  BY <1>1, <1>2, <1>4 DEF Carried, SlotPlan, Differ
<1>5. CASE ReadReplacement(q) /\ ~fin'[q].automatic
  <2>1. fin'[q].rep # None => fin'[q].rep = ReplacementTarget(fin[q]) /\ fin'[q].pay = fin[q].pay
    BY <1>1, <1>5 DEF ReadReplacement, PlanSet, Return, NoPlan
  <2>2. fin'[q].rep # None => fin'[q].rep = fin'[q].pay.prior /\ fin'[q].pay.by # None
    <3>1. fin[q].pay \in Payloads
      BY <1>1, <1>5 DEF ReadReplacement, At, PlanSet, ViewInv, CauseInv, BookInv, TypeInv, TypeOK
    <3> QED BY <2>1, <3>1, ConstantsOK DEF ReplacementTarget
  <2> QED BY <1>5, <2>2 DEF SlotPlan
<1>6. CASE ReadConflict(q)
  <2>1. /\ fin'[q].pay = fin[q].pay /\ fin'[q].rep = fin[q].rep /\ fin'[q].delta = fin[q].delta
        /\ fin'[q].automatic = Automatic(fin[q]) /\ fin'[q].ready = fin[q].ready
    BY <1>1, <1>6 DEF ReadConflict, PlanSet
  <2>2. ASSUME Automatic(fin[q])
        PROVE  \A c \in fin[q].delta \ Exempt, d \in Claims \ Exempt :
                   d \in fin[q].delta \/ Live(d) => ~Differ(c, d)
    <3>1. ~HasConflict(fin[q].delta)
      BY <2>2 DEF Automatic
    <3>2. \A d \in Claims : Live(d) => d \in Accepted
      BY <1>1, <1>6, AcceptedStatus DEF ReadConflict, Live
    <3> QED BY <3>1, <3>2 DEF HasConflict
  <2>3. SlotPlan(fin[q])
    BY <1>1
  <2> QED BY <1>2, <2>1, <2>2, <2>3 DEF SlotPlan, Differ
<1> QED
  BY <1>1, <1>3, <1>4, <1>5, <1>6, PlanSteps

\* One finalizer at a time, and resolvers whenever they like, never accept two
\* values for one slot, as long as what replaces a Claim is about the same thing
\* (_has_conflict, replace_candidate; the run "v_kind" has what happens otherwise).
THEOREM SlotsExclusive ==
    ASSUME OneFinalizer, ReplacesInKind
    PROVE  Spec => []ExclusiveSlots
<1>1. Init => SlotInv
  <2> SUFFICES ASSUME Init PROVE SlotInv
    OBVIOUS
  <2>1. ExclusiveLive
    BY DEF Init, ExclusiveLive, Live, StatusOf
  <2>2. \A p \in Finalizers : SlotPlan(fin[p])
    BY DEF Init, NoPlan, SlotPlan
  <2> QED BY <2>1, <2>2, ShapesStart DEF SlotInv
<1>2. SlotInv /\ [Next]_vars => SlotInv'
  <2>1. SlotInv /\ [Next]_vars => ViewInv'
    BY ShapesStep DEF SlotInv
  <2> QED BY <2>1, KeepsExclusive, KeepsSlotPlan DEF SlotInv
<1>3. SlotInv => ExclusiveSlots
  <2> SUFFICES ASSUME SlotInv, Readable, NEW c \in Accepted \ Exempt, NEW d \in Accepted \ Exempt
               PROVE  ~Differ(c, d)
    BY DEF ExclusiveSlots
  <2>1. c \in Claims /\ d \in Claims /\ Live(c) /\ Live(d)
    BY AcceptedStatus DEF SlotInv, Live
  <2> QED BY <2>1 DEF SlotInv, ExclusiveLive
<1> QED
  BY <1>1, <1>2, <1>3, PTL DEF Spec

-----------------------------------------------------------------------------
(* A view that can be read.  A finalizer reads the clock once and the view   *)
(* as often as it needs it: that what it closes was opened no later than its  *)
(* own time holds because no other finalizer accepts anything in between.     *)

\* Where the writers put what they accept in the order of Decisions.
OpensInOrder ==
    \A o \in decisions : o.act \in OpeningActions =>
        o.eff = o.rec /\ (o.ord = 0 \/ \E h \in Digests : o.ord = 2 * h + 2)

\* Every close finds what it closes.
ClosesFind ==
    \A x \in decisions : x.act \in CloseActions =>
        \A c \in x.claims : \E o \in Openers(decisions, c) : Before(o, x)

\* What is accepted was accepted no later than the time the plan carries.
NothingNewer(pl) ==
    pl.pc # "idle" => \A o \in decisions : o.act \in OpeningActions => o.rec <= pl.rec

TimeInv ==
    ViewInv /\ OpensInOrder /\ ClosesFind /\ \A p \in Finalizers : NothingNewer(fin[p])

LEMMA TimeReadable == TimeInv => Readable
<1> SUFFICES ASSUME TimeInv PROVE Readable
  OBVIOUS
<1>1. Known = decisions
  BY ViewTypes DEF TimeInv, ViewInv, CauseInv, BookInv, TypeInv
<1> QED
  BY <1>1 DEF Readable, Foldable, TimeInv, ClosesFind

\* A running finalizer keeps its time, or has just read the clock.
LEMMA TimeCarried ==
    ASSUME OnTime, ViewInv, [Next]_vars, NEW q \in Finalizers, fin'[q].pc # "idle"
    PROVE  \/ fin[q].pc # "idle" /\ fin'[q].rec = fin[q].rec
           \/ fin'[q].rec = now /\ decisions' = decisions
<1>1. fin \in [Finalizers -> PlanSet] /\ fin[q] \in PlanSet /\ now \in Nat /\ TypeInv
  BY DEF ViewInv, CauseInv, BookInv, TypeInv, TypeOK
<1>2. ASSUME NEW out, Return(q, out)
      PROVE  FALSE
  BY <1>1, <1>2 DEF Return, NoPlan
<1>3. ASSUME NEW pay \in Payloads, NEW back \in 0..MaxBackdate, Begin(q, pay, back)
      PROVE  fin'[q].rec = now /\ decisions' = decisions
  <2>1. back = 0
    BY <1>3 DEF OnTime
  <2>2. decisions' = decisions /\ now - 0 = now
    BY <1>1, <1>3 DEF Begin, ReadOnly, store
  <2>3. fin' = [fin EXCEPT ![q] = [NoPlan EXCEPT
            !.pc = "delta", !.pay = pay, !.rec = RecordedAt(back), !.out = "RUNNING"]]
    BY <1>2, <1>3 DEF Begin
  <2>4. fin'[q].rec = RecordedAt(back)
    BY <1>1, <2>3 DEF NoPlan
  <2> QED BY <2>1, <2>2, <2>4 DEF RecordedAt
<1>4. CASE ReadDelta(q) \/ ReadReplacement(q) \/ ReadConflict(q) \/ ReadToken(q)
  BY <1>1, <1>2, <1>4 DEF ReadDelta, ReadReplacement, ReadConflict, ReadToken, At, PlanSet
<1>5. CASE \/ ReadUnreadable(q) \/ NothingNew(q) \/ AlreadyPending(q) \/ CommitNotResumable(q)
           \/ CommitCollision(q) \/ CommitUnreadable(q) \/ CommitPromotion(q) \/ Abort(q)
           \/ CommitPending(q) \/ CommitRefused(q) \/ \E h \in Digests : CommitReplacement(q, h)
  BY <1>2, <1>5 DEF ReadUnreadable, NothingNew, AlreadyPending, CommitNotResumable,
     CommitCollision, CommitUnreadable, RolledBack, CommitPromotion, Abort, CommitPending,
     CommitRefused, CommitReplacement
<1>6. CASE Finalize(q)
  BY <1>3, <1>4, <1>5, <1>6 DEF Finalize
<1>7. CASE fin'[q] = fin[q]
  BY <1>7
<1>8. ASSUME NEW r \in Resolvers, Resolve(r)
      PROVE  fin' = fin
  BY <1>8 DEF Resolve, ReadReview, CheckReview, CommitRejection, RefuseRejection,
     AbortReview, EndReview
<1> QED
  BY <1>1, <1>6, <1>7, <1>8, OneAtATime DEF Next, Tick, vars

\* A step that accepts nothing: a read, a rejection, a Candidate left pending.
LEMMA QuietTime ==
    ASSUME OnTime, TimeInv, ViewInv', [Next]_vars, decisions \subseteq decisions',
           \A d \in decisions' \ decisions : d.act = "REJECT"
    PROVE  TimeInv'
<1>1. \A c : Openers(decisions', c) = Openers(decisions, c)
  BY DEF Openers
<1>2. OpensInOrder'
  BY DEF TimeInv, OpensInOrder
<1>3. ClosesFind'
  BY <1>1 DEF TimeInv, ClosesFind, CloseActions
<1>4. ASSUME NEW q \in Finalizers
      PROVE  NothingNewer(fin[q])'
  <2>1. \A o \in decisions : o.rec <= now
    BY DEF TimeInv, ViewInv, CauseInv, BookInv, TypeInv, TypeOK
  <2> QED BY <2>1, TimeCarried DEF TimeInv, NothingNewer
<1> QED
  BY <1>2, <1>3, <1>4 DEF TimeInv

\* A transaction ends the run of its finalizer, and there is no other.
LEMMA NoneRunning ==
    ASSUME OneFinalizer, ViewInv, NEW p \in Finalizers, Transacts(p), NEW q \in Finalizers
    PROVE  fin'[q].pc = "idle"
<1>1. fin \in [Finalizers -> PlanSet] /\ q = p
  BY DEF OneFinalizer, ViewInv, CauseInv, BookInv, TypeInv, TypeOK
<1> QED
  BY <1>1 DEF Transacts, CommitPromotion, CommitReplacement, Return, NoPlan

LEMMA PromotionTime ==
    ASSUME TimeInv, NEW p \in Finalizers, CommitPromotion(p)
    PROVE  OpensInOrder' /\ ClosesFind'
<1> DEFINE d == Acceptance(Candidate(fin[p]), fin[p].rec)
<1>1. decisions' = decisions \cup {d}
  BY DEF CommitPromotion
<1>2. d.act = "ACCEPT" /\ d.eff = d.rec /\ d.ord = 0
  BY DEF Acceptance, Decision
<1> HIDE DEF d
<1>3. \A c : Openers(decisions, c) \subseteq Openers(decisions', c)
  BY <1>1 DEF Openers
<1> QED
  BY <1>1, <1>2, <1>3 DEF TimeInv, OpensInOrder, ClosesFind, CloseActions

\* What a replacement closes is accepted, so it has an opening: not after the time
\* of the plan, and of one second with it only under an id that sorts before.
LEMMA ReplacementTime ==
    ASSUME OnTime, TimeInv, NEW p \in Finalizers, NEW h \in Digests, CommitReplacement(p, h)
    PROVE  OpensInOrder' /\ ClosesFind'
<1> DEFINE pl == fin[p]
           x == Closing(pl.rep, pl.rec, h)
           d == Replacing(Candidate(pl), pl.rec, h)
<1>1. decisions' = decisions \cup {x, d}
  BY DEF CommitReplacement
<1>2. /\ d.act = "ACCEPT_SUPERSEDE" /\ d.eff = d.rec /\ d.ord = 2 * h + 2
      /\ x.act = "SUPERSEDE" /\ x.claims = {pl.rep}
      /\ x.eff = pl.rec /\ x.rec = pl.rec /\ x.ord = 2 * h + 3
  BY DEF Replacing, Closing, Decision
<1>3. /\ Known = decisions /\ decisions \subseteq DecisionSet /\ pl.rec \in Nat /\ h \in Nat
  BY ViewTypes, ConstantsOK DEF TimeInv, ViewInv, CauseInv, BookInv, TypeInv, TypeOK, PlanSet
<1>4. PICK o \in Openers(decisions, pl.rep) : TRUE
  <2>1. pl.rep \in Accepted
    BY ReplacesByOne DEF TimeInv
  <2> QED BY <1>3, <2>1 DEF Accepted, Active
<1>5. o \in decisions /\ o.act \in OpeningActions /\ o \in DecisionSet
  BY <1>3, <1>4 DEF Openers
<1>6. o.rec <= pl.rec
  <2>1. pl.pc # "idle"
    BY DEF CommitReplacement, CanWrite, At
  <2> QED BY <1>5, <2>1 DEF TimeInv, NothingNewer
<1>7. o.eff = o.rec /\ (o.ord = 0 \/ o.ord = 2 * h + 2)
  BY <1>5 DEF TimeInv, OpensInOrder, OnTime
<1>8. Before(o, x)
  <2>1. o.rec \in Nat /\ o.ord \in Nat
    BY <1>5 DEF DecisionSet
  <2>2. o.ord < x.ord
    BY <1>2, <1>3, <1>7, <2>1
  <2> QED BY <1>2, <1>3, <1>6, <1>7, <2>1, <2>2 DEF Before
<1> HIDE DEF x, d
<1>9. \A c : Openers(decisions, c) \subseteq Openers(decisions', c)
  BY <1>1 DEF Openers
<1>10. OpensInOrder'
  BY <1>1, <1>2 DEF TimeInv, OpensInOrder
<1>11. ClosesFind'
  BY <1>1, <1>2, <1>4, <1>8, <1>9 DEF TimeInv, ClosesFind, CloseActions
<1> QED
  BY <1>10, <1>11

LEMMA TimeStep ==
    ASSUME OneFinalizer, OnTime
    PROVE  TimeInv /\ [Next]_vars => TimeInv'
<1> SUFFICES ASSUME TimeInv, [Next]_vars PROVE TimeInv'
  OBVIOUS
<1>1. ViewInv /\ ViewInv'
  BY ShapesStep DEF TimeInv
<1>2. ASSUME NEW p \in Finalizers, Transacts(p)
      PROVE  TimeInv'
  <2>1. OpensInOrder' /\ ClosesFind'
    BY <1>2, PromotionTime, ReplacementTime DEF Transacts
  <2>2. \A q \in Finalizers : NothingNewer(fin[q])'
    BY <1>1, <1>2, NoneRunning DEF NothingNewer
  <2> QED BY <1>1, <2>1, <2>2 DEF TimeInv
<1> QED
  BY <1>1, <1>2, TablesGrow, QuietTime

\* One finalizer at a time that dates nothing back never makes the view unreadable,
\* whatever reviewers do and however the clock runs on while it works
\* (finalize_discovery, projection).
THEOREM AlwaysReadable ==
    ASSUME OneFinalizer, OnTime
    PROVE  Spec => []Readable
<1>1. Init => TimeInv
  <2> SUFFICES ASSUME Init PROVE TimeInv
    OBVIOUS
  <2>1. OpensInOrder /\ ClosesFind /\ \A p \in Finalizers : NothingNewer(fin[p])
    BY DEF Init, OpensInOrder, ClosesFind, NothingNewer
  <2> QED BY <2>1, ShapesStart DEF TimeInv
<1> QED
  BY <1>1, TimeStep, TimeReadable, PTL DEF Spec

\* Hence what is answered SAVED is available to lookup; what the documents promise
\* without condition holds under these two (docs/operational-memory.md, SAVED).
THEOREM SavedReadable ==
    ASSUME OneFinalizer, OnTime
    PROVE  Spec => []SavedIsReadable
<1>1. Readable => SavedIsReadable
  BY DEF SavedIsReadable
<1> QED
  BY <1>1, AlwaysReadable, PTL
=============================================================================
