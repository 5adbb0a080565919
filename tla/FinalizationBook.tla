-------------------------- MODULE FinalizationBook --------------------------
(***************************************************************************)
(* What every accepted Claim owes its acceptance to, what the readers see  *)
(* of it, and that Finalization implements ClaimBook, for any Claims,      *)
(* payloads, finalizers and resolvers, any clock and any backdating.       *)
(*                                                                         *)
(* A finalizer looks at classes, causes and proofs while it plans, and     *)
(* acts on them later, under the write lock, where only part of it is      *)
(* looked at again.  CauseInv says why that is enough: what a plan was     *)
(* based on either lies in the plan itself (the Claims it names, its       *)
(* payload) or only ever grows (the Claims accepted once, the              *)
(* contradictions, the Claims of a Proposal).                              *)
(*                                                                         *)
(* The accepted view is folded from timestamps and intervals, a status of  *)
(* the book is read off the Decisions alone.  The two agree because of     *)
(* what the writers put into the interval columns (Shaped): an interval    *)
(* starts, and is closed, no later than its Decision was recorded.  That a *)
(* close may lie before its opening is no objection: such a view cannot be *)
(* folded, and then nothing is accepted or replaced at all.                *)
(***************************************************************************)
EXTENDS FinalizationSafety, FiniteSetTheorems

\* The Claims that were accepted at some time.
Opened == {c \in Claims : Openers(decisions, c) # {}}

\* A Decision opens observed Claims only.
OpensObserved ==
    \A d \in decisions : d.act \in OpeningActions => d.claims \subseteq Observed

\* A lifecycle Claim is recorded by the transaction that accepts it.
LifecyclesOpened == \A l \in Lifecycles : owner[l] # {} => l \in Opened

Causes == OpensObserved /\ LifecyclesOpened /\ LifecycleFounded /\ SupersededForCause

\* What a plan may be trusted with until its transaction.
Planned(pl) ==
    /\ pl.automatic => pl.pc \in {"token", "commit"} /\ pl.delta \subseteq Observed
    /\ pl.ready => /\ pl.delta \subseteq Observed /\ CauseProven(pl.pay)
                   /\ pl.pay.new # {} /\ pl.pay.old # {}
    /\ pl.life # {} => pl.automatic
    /\ \A l \in pl.life : Deps[l] \subseteq Opened \cup pl.delta
    /\ pl.pc \in Later => pl.delta \cap Lifecycles = {}
    /\ pl.pc \in Later /\ pl.match # {} => pl.delta \subseteq ClaimsOf(owner, pl.match)

CauseInv == BookInv /\ Causes /\ \A p \in Finalizers : Planned(fin[p])

-----------------------------------------------------------------------------
(* Plans. *)

\* What a waiting finalizer was promised stays true, as the tables only grow.
LEMMA WaitingPlanned ==
    ASSUME CauseInv, NEW q \in Finalizers, fin'[q] = fin[q], decisions \subseteq decisions',
           owner' = owner \/ \E p \in Finalizers : Inserts(fin[p])
    PROVE  Planned(fin[q])'
<1>1. Opened \subseteq Opened'
  BY DEF Opened, Openers
<1>2. \A m : m # {} => ClaimsOf(owner, m) \subseteq ClaimsOf(owner', m)
  <2>1. CASE owner' = owner
    BY <2>1
  <2>2. CASE \E p \in Finalizers : Inserts(fin[p])
    <3>1. \A c \in Captured : owner'[c] = owner[c]
      BY <2>2, Insertion DEF CauseInv
    <3> QED BY <3>1 DEF ClaimsOf, Captured
  <2> QED BY <2>1, <2>2
<1>3. Planned(fin[q])
  BY DEF CauseInv
<1> QED
  BY <1>1, <1>2, <1>3 DEF Planned, CauseProven

\* A finalizer that has ended promises nothing.
LEMMA EndedPlanned ==
    ASSUME TypeInv, NEW p \in Finalizers, NEW out, Return(p, out)
    PROVE  Planned(fin[p])'
<1>1. fin'[p] = [NoPlan EXCEPT !.out = out]
  BY DEF Return, TypeInv, TypeOK
<1>2. /\ fin'[p].pc = "idle" /\ fin'[p].automatic = FALSE /\ fin'[p].ready = FALSE
      /\ fin'[p].life = {}
  BY <1>1 DEF NoPlan
<1> QED
  BY <1>2 DEF Planned, Later

\* The first reads: nothing is concluded from them yet.
LEMMA BeginPlanned ==
    ASSUME CauseInv, NEW p \in Finalizers, NEW pay, NEW back, Begin(p, pay, back)
    PROVE  Planned(fin[p])'
<1>1. fin \in [Finalizers -> PlanSet] /\ TypeInv
  BY DEF CauseInv, BookInv, TypeInv, TypeOK
<1>2. CASE Return(p, pay.gate)
  BY <1>1, <1>2, EndedPlanned
<1>3. CASE ~Return(p, pay.gate)
  <2>1. /\ fin'[p].pc = "delta" /\ fin'[p].automatic = FALSE /\ fin'[p].ready = FALSE
        /\ fin'[p].life = {}
    BY <1>1, <1>3 DEF Begin, NoPlan
  <2> QED BY <2>1 DEF Planned, Later
<1> QED
  BY <1>2, <1>3

LEMMA DeltaPlanned ==
    ASSUME CauseInv, NEW p \in Finalizers, ReadDelta(p)
    PROVE  Planned(fin[p])'
<1>1. /\ fin \in [Finalizers -> PlanSet] /\ fin[p] \in PlanSet /\ fin[p].pc = "delta"
      /\ owner' = owner
  BY DEF CauseInv, BookInv, TypeInv, TypeOK, ReadDelta, At, ReadOnly, store
<1>2. ~fin[p].automatic /\ ~fin[p].ready /\ fin[p].life = {} /\ fin[p].match = {}
  BY <1>1 DEF CauseInv, BookInv, TypeInv, Coherent, Planned, Anchored
<1>3. Fresh(p) \cap Lifecycles = {}
  <2>1. fin[p].pay \in Payloads
    BY <1>1 DEF CauseInv, BookInv, TypeInv, TypeOK, PlanSet
  <2> QED BY <2>1, ConstantsOK DEF Fresh, PayloadSet
<1>4. /\ fin'[p].pc = "replacement" /\ ~fin'[p].automatic /\ ~fin'[p].ready
      /\ fin'[p].life = {} /\ fin'[p].delta \subseteq Fresh(p)
      /\ fin'[p].match # {} => ClaimsOf(owner, fin'[p].match) = fin'[p].delta
  <2>1. CASE \E prop \in Matching(Fresh(p)) :
               fin' = [fin EXCEPT ![p].pc = "replacement", ![p].delta = Fresh(p),
                                  ![p].match = prop]
    <3>1. PICK prop \in Matching(Fresh(p)) :
               fin' = [fin EXCEPT ![p].pc = "replacement", ![p].delta = Fresh(p),
                                  ![p].match = prop]
      BY <2>1
    <3>2. /\ fin'[p].pc = "replacement" /\ fin'[p].delta = Fresh(p) /\ fin'[p].match = prop
          /\ fin'[p].automatic = fin[p].automatic /\ fin'[p].ready = fin[p].ready
          /\ fin'[p].life = fin[p].life
      BY <1>1, <3>1 DEF PlanSet
    <3> QED BY <1>2, <3>2 DEF Matching
  <2>2. CASE fin' = [fin EXCEPT ![p].pc = "replacement",
                                ![p].delta = Fresh(p) \ PendingClaims]
    <3>1. /\ fin'[p].pc = "replacement" /\ fin'[p].delta = Fresh(p) \ PendingClaims
          /\ fin'[p].match = fin[p].match /\ fin'[p].automatic = fin[p].automatic
          /\ fin'[p].ready = fin[p].ready /\ fin'[p].life = fin[p].life
      BY <1>1, <2>2 DEF PlanSet
    <3> QED BY <1>2, <3>1
  <2> QED BY <2>1, <2>2 DEF ReadDelta
<1> QED
  BY <1>1, <1>3, <1>4 DEF Planned

\* The later reads: whoever is ready to replace has stated the cause.
LEMMA ReplacementPlanned ==
    ASSUME CauseInv, NEW p \in Finalizers, ReadReplacement(p)
    PROVE  Planned(fin[p])'
<1> DEFINE rep == ReplacementTarget(fin[p])
           new == rep # None /\ ReplacementReady(fin[p].pay)
<1>1. /\ fin \in [Finalizers -> PlanSet] /\ fin[p] \in PlanSet /\ fin[p].pc = "replacement"
      /\ owner' = owner /\ decisions' = decisions /\ TypeInv
  BY DEF CauseInv, BookInv, TypeInv, TypeOK, ReadReplacement, At, ReadOnly, store
<1>2. /\ ~fin[p].automatic /\ fin[p].life = {} /\ fin[p].delta \cap Lifecycles = {}
      /\ fin[p].match # {} => fin[p].delta \subseteq ClaimsOf(owner, fin[p].match)
  BY <1>1 DEF CauseInv, Planned, Later
<1>3. CASE Return(p, "PAYLOAD_VALUE")
  BY <1>1, <1>3, EndedPlanned
<1>4. CASE fin' = [fin EXCEPT ![p].pc = "conflict", ![p].rep = rep, ![p].ready = new]
  <2>1. new => /\ fin[p].delta \subseteq Observed /\ CauseProven(fin[p].pay)
               /\ fin[p].pay.new # {} /\ fin[p].pay.old # {}
    BY DEF ReplacementTarget, ReplacementReady, Separate
  <2> HIDE DEF new, rep
  <2>2. /\ fin'[p].pc = "conflict" /\ fin'[p].ready = new /\ fin'[p].pay = fin[p].pay
        /\ fin'[p].delta = fin[p].delta /\ fin'[p].match = fin[p].match
        /\ fin'[p].life = fin[p].life /\ fin'[p].automatic = fin[p].automatic
    BY <1>1, <1>4 DEF PlanSet
  <2> QED BY <1>1, <1>2, <2>1, <2>2 DEF Planned, CauseProven
<1> QED
  BY <1>3, <1>4 DEF ReadReplacement

\* Whoever may accept automatically holds observed Claims only, and a lifecycle
\* only with what it rests on.
LEMMA ConflictPlanned ==
    ASSUME CauseInv, NEW p \in Finalizers, ReadConflict(p)
    PROVE  Planned(fin[p])'
<1> DEFINE pc   == IF fin[p].ready THEN "token" ELSE "commit"
           auto == Automatic(fin[p])
           life == EarnedLifecycle(fin[p])
<1>1. /\ fin \in [Finalizers -> PlanSet] /\ fin[p] \in PlanSet /\ fin[p].pc = "conflict"
      /\ owner' = owner /\ decisions' = decisions /\ TypeInv
  BY DEF CauseInv, BookInv, TypeInv, TypeOK, ReadConflict, At, ReadOnly, store
<1>2. Planned(fin[p]) /\ fin[p].pc \in Later
  BY <1>1 DEF CauseInv, Later
<1>3. /\ auto => fin[p].delta \subseteq Observed
      /\ life # {} => auto
  BY DEF Automatic, EarnedLifecycle
<1>4. \A l \in life : Deps[l] \subseteq Opened \cup fin[p].delta
  <2>1. life \subseteq Proven(fin[p])
    BY DEF EarnedLifecycle
  <2>2. Accepted \subseteq Opened
    <3>1. Known = decisions /\ Accepted \subseteq Claims
      BY <1>1, ViewTypes DEF TypeInv
    <3> QED BY <3>1 DEF Accepted, Active, Opened
  <2> QED BY <2>1, <2>2 DEF Proven
<1>5. pc \in {"token", "commit"} /\ pc \in Later
  BY DEF Later
<1>6. fin' = [fin EXCEPT ![p].pc = pc, ![p].automatic = auto, ![p].life = life]
  BY DEF ReadConflict
<1> HIDE DEF pc, auto, life
<1>7. /\ fin'[p].pc = pc /\ fin'[p].automatic = auto /\ fin'[p].life = life
      /\ fin'[p].pay = fin[p].pay /\ fin'[p].ready = fin[p].ready
      /\ fin'[p].delta = fin[p].delta /\ fin'[p].match = fin[p].match
  BY <1>1, <1>6 DEF PlanSet
<1>8. Opened' = Opened
  BY <1>1 DEF Opened, Openers
<1> QED
  BY <1>1, <1>2, <1>3, <1>4, <1>5, <1>7, <1>8 DEF Planned, CauseProven

LEMMA TokenPlanned ==
    ASSUME CauseInv, NEW p \in Finalizers, ReadToken(p)
    PROVE  Planned(fin[p])'
<1>1. /\ fin \in [Finalizers -> PlanSet] /\ fin[p] \in PlanSet /\ fin[p].pc = "token"
      /\ owner' = owner /\ decisions' = decisions
      /\ fin' = [fin EXCEPT ![p].pc = "commit", ![p].token = Token]
  BY DEF CauseInv, BookInv, TypeInv, TypeOK, ReadToken, At, ReadOnly, store
<1>2. Planned(fin[p]) /\ fin[p].pc \in Later
  BY <1>1 DEF CauseInv, Later
<1>3. /\ fin'[p].pc = "commit" /\ fin'[p].automatic = fin[p].automatic
      /\ fin'[p].life = fin[p].life /\ fin'[p].pay = fin[p].pay
      /\ fin'[p].ready = fin[p].ready /\ fin'[p].delta = fin[p].delta
      /\ fin'[p].match = fin[p].match
  BY <1>1 DEF PlanSet
<1>4. Opened' = Opened
  BY <1>1 DEF Opened, Openers
<1> QED
  BY <1>1, <1>2, <1>3, <1>4 DEF Planned, CauseProven, Later

LEMMA OwnPlanned ==
    ASSUME CauseInv, NEW p \in Finalizers, Finalize(p)
    PROVE  Planned(fin[p])'
<1>1. TypeInv
  BY DEF CauseInv, BookInv
<1>2. ASSUME NEW out, Return(p, out)
      PROVE  Planned(fin[p])'
  BY <1>1, <1>2, EndedPlanned
<1>3. ASSUME NEW h, CommitReplacement(p, h)
      PROVE  Planned(fin[p])'
  BY <1>2, <1>3 DEF CommitReplacement
<1>4. CASE CommitPending(p)
  BY <1>2, <1>4 DEF CommitPending
<1>5. CASE CommitRefused(p)
  BY <1>2, <1>5 DEF CommitRefused, RolledBack
<1>6. CASE \/ ReadUnreadable(p) \/ NothingNew(p) \/ AlreadyPending(p) \/ CommitNotResumable(p)
           \/ CommitCollision(p) \/ CommitUnreadable(p) \/ CommitPromotion(p) \/ Abort(p)
  BY <1>2, <1>6 DEF ReadUnreadable, NothingNew, AlreadyPending, CommitNotResumable,
     CommitCollision, CommitUnreadable, RolledBack, CommitPromotion, Abort
<1> QED
  BY <1>3, <1>4, <1>5, <1>6, BeginPlanned, DeltaPlanned, ReplacementPlanned,
     ConflictPlanned, TokenPlanned DEF Finalize

-----------------------------------------------------------------------------
(* Transactions. *)

\* What is written on: the Claims of the plan, the lifecycles it earned, and no
\* other Claim but lifecycles recorded before.
LEMMA CandidateOf ==
    ASSUME CauseInv, NEW p \in Finalizers, CanWrite(p)
    PROVE  /\ fin[p].delta \cup fin[p].life \subseteq Candidate(fin[p])
           /\ \A c \in Candidate(fin[p]) \ (fin[p].delta \cup fin[p].life) :
                  c \in Lifecycles /\ owner[c] # {}
           /\ fin[p].delta \cap Lifecycles = {} /\ fin[p].life \subseteq Lifecycles
           /\ fin[p].delta # {}
<1> DEFINE pl == fin[p]
<1>1. /\ pl \in PlanSet /\ pl.pc = "commit" /\ pl.delta \subseteq Claims
      /\ pl.life \subseteq Lifecycles /\ Lifecycles \subseteq Claims
      /\ Anchored(pl) /\ Planned(pl) /\ Resumable(pl) /\ ~Collides(pl)
  BY ConstantsOK DEF CauseInv, BookInv, TypeInv, TypeOK, CanWrite, At, PlanSet
<1>2. pl.delta # {} /\ pl.delta \cap Lifecycles = {}
  BY <1>1 DEF Anchored, Planned, Later
<1>3. CASE pl.match = {}
  <2>1. Candidate(pl) = {c \in Claims : c \in pl.delta \cup pl.life \/ owner[c] = pl.delta}
    BY <1>3 DEF Candidate, ClaimsOf, OwnerAfter, Inserted, ProposalOf
  <2>2. \A c \in Claims : owner[c] # pl.delta
    <3>1. \A c \in pl.delta : owner[c] = {}
      BY <1>1, <1>3 DEF Collides, Inserted, Captured
    <3> QED BY <1>2, <3>1 DEF CauseInv, BookInv, Tables, NamedByMembers
  <2> QED BY <1>1, <1>2, <2>1, <2>2
<1>4. CASE pl.match # {}
  <2>1. Candidate(pl) = {c \in Claims : c \in pl.life \/ owner[c] = pl.match}
    BY <1>4 DEF Candidate, ClaimsOf, OwnerAfter, Inserted, ProposalOf
  <2>2. /\ \A c \in pl.delta : owner[c] = pl.match
        /\ \A c \in Claims : owner[c] = pl.match => c \in pl.delta \cup Lifecycles
    BY <1>1, <1>4 DEF Anchored, Planned, Later, ClaimsOf
  <2> QED BY <1>1, <1>2, <1>4, <2>1, <2>2
<1> QED
  BY <1>3, <1>4

\* Contradictions are added and enriched, never taken back.
LEMMA ContrasGrow ==
    ASSUME contras \subseteq ContraSet, NEW pl, NEW K \in ContrasAfter(pl), NEW k \in contras
    PROVE  \E j \in K : j.by = k.by /\ j.on = k.on /\ j.class = k.class /\ k.ev \subseteq j.ev
<1>1. CASE contras \subseteq K
  BY <1>1
<1>2. CASE \E r \in Reusable(pl) : K = (contras \ {r}) \cup {[r EXCEPT !.ev = @ \cup pl.pay.old]}
  <2>1. PICK r \in contras : K = (contras \ {r}) \cup {[r EXCEPT !.ev = @ \cup pl.pay.old]}
    BY <1>2 DEF Reusable
  <2> DEFINE j == [r EXCEPT !.ev = @ \cup pl.pay.old]
  <2>2. j.by = r.by /\ j.on = r.on /\ j.class = r.class /\ r.ev \subseteq j.ev
    BY DEF ContraSet
  <2>3. j \in K /\ (k # r => k \in K)
    BY <2>1
  <2> QED BY <2>2, <2>3
<1> QED
  BY <1>1, <1>2 DEF ContrasAfter

\* A transaction that does not close anything keeps the recorded causes.
LEMMA CausesKept ==
    ASSUME CauseInv, decisions \subseteq decisions',
           contras' = contras \/ \E pl : contras' \in ContrasAfter(pl),
           \A x \in decisions' : x.act = "SUPERSEDE" => x \in decisions
    PROVE  SupersededForCause'
<1>1. contras \subseteq ContraSet
  BY DEF CauseInv, BookInv, TypeInv, TypeOK
<1>2. \A k \in contras : \E j \in contras' :
          j.by = k.by /\ j.on = k.on /\ j.class = k.class /\ k.ev \subseteq j.ev
  BY <1>1, ContrasGrow
<1> SUFFICES ASSUME NEW x \in decisions, x.act = "SUPERSEDE"
             PROVE  \E d \in decisions', k, j \in contras' :
                      /\ d.act = "ACCEPT_SUPERSEDE" /\ d.eff = x.eff /\ d.rec = x.rec
                      /\ x.claims = {k.on} /\ d.claims = {k.by}
                      /\ j.on = k.on /\ j.ev # {} /\ j.class # "OTHER"
  BY DEF SupersededForCause
<1>3. PICK d \in decisions, k \in contras, j \in contras :
          /\ d.act = "ACCEPT_SUPERSEDE" /\ d.eff = x.eff /\ d.rec = x.rec
          /\ x.claims = {k.on} /\ d.claims = {k.by}
          /\ j.on = k.on /\ j.ev # {} /\ j.class # "OTHER"
  BY DEF CauseInv, Causes, SupersededForCause
<1>4. PICK k1 \in contras' : k1.by = k.by /\ k1.on = k.on
  BY <1>2
<1>5. PICK j1 \in contras' : j1.on = j.on /\ j1.class = j.class /\ j.ev \subseteq j1.ev
  BY <1>2
<1> QED
  BY <1>3, <1>4, <1>5

\* Left pending, a Candidate brings no lifecycle with it.
LEMMA PendingCauses ==
    ASSUME CauseInv, NEW p \in Finalizers, CommitPending(p)
    PROVE  Causes'
<1>1. PICK K \in ContrasAfter(fin[p]) : WriteCandidate(fin[p], K)
  BY DEF CommitPending
<1>2. /\ CanWrite(p) /\ decisions' = decisions /\ contras' = K
      /\ owner' = OwnerAfter(fin[p]) /\ fin[p].life = {}
  BY <1>1 DEF CommitPending, WriteCandidate, CauseInv, Planned
<1>3. OpensObserved' /\ LifecycleFounded'
  BY <1>2 DEF CauseInv, Causes, OpensObserved, LifecycleFounded, Openers
<1>4. LifecyclesOpened'
  <2> SUFFICES ASSUME NEW l \in Lifecycles, owner'[l] # {} PROVE l \in Opened'
    BY DEF LifecyclesOpened
  <2>1. l \notin Inserted(fin[p])
    BY <1>2, CandidateOf DEF Inserted
  <2>2. owner'[l] = owner[l]
    BY <1>2, <2>1, ConstantsOK DEF OwnerAfter
  <2> QED BY <1>2, <2>2 DEF CauseInv, Causes, LifecyclesOpened, Opened, Openers
<1>5. SupersededForCause'
  BY <1>1, <1>2, CausesKept
<1> QED
  BY <1>3, <1>4, <1>5 DEF Causes

\* Accepted together, the Claims of a plan and the lifecycles they earn found
\* each other.
LEMMA PromotionCauses ==
    ASSUME CauseInv, NEW p \in Finalizers, CommitPromotion(p)
    PROVE  Causes'
<1> DEFINE pl == fin[p]
           cs == Candidate(pl)
           d  == Acceptance(cs, pl.rec)
<1>1. PICK K \in ContrasAfter(pl) : WriteCandidate(pl, K)
  BY DEF CommitPromotion
<1>2. /\ CanWrite(p) /\ decisions' = decisions \cup {d} /\ contras' = K
      /\ owner' = OwnerAfter(pl) /\ pl.automatic
  BY <1>1 DEF CommitPromotion, WriteCandidate
<1>3. d.act = "ACCEPT" /\ d.claims = cs
  BY DEF Acceptance, Decision
<1>4. /\ pl.delta \cup pl.life \subseteq cs /\ pl.delta \subseteq Observed
      /\ \A c \in cs \ (pl.delta \cup pl.life) : c \in Lifecycles /\ owner[c] # {}
      /\ pl.delta \cap Lifecycles = {} /\ pl.life \subseteq Lifecycles
      /\ \A l \in pl.life : Deps[l] \subseteq Opened \cup pl.delta
  BY <1>2, CandidateOf DEF CauseInv, Planned
<1>5. Causes
  BY DEF CauseInv
<1> HIDE DEF d, cs, pl
<1>6. \A c : Openers(decisions', c) # {} <=> Openers(decisions, c) # {} \/ c \in cs
  BY <1>2, <1>3 DEF Openers, OpeningActions
<1>7. OpensObserved'
  BY <1>2, <1>3, <1>4, <1>5, ConstantsOK DEF Causes, OpensObserved
<1>8. LifecyclesOpened'
  <2> SUFFICES ASSUME NEW l \in Lifecycles, owner'[l] # {} PROVE l \in Opened'
    BY DEF LifecyclesOpened
  <2>1. CASE l \in Inserted(pl)
    <3>1. l \in pl.life
      BY <1>4, <2>1 DEF Inserted
    <3> QED BY <1>4, <1>6, <3>1, ConstantsOK DEF Opened
  <2>2. CASE l \notin Inserted(pl)
    <3>1. owner'[l] = owner[l]
      BY <1>2, <2>2, ConstantsOK DEF OwnerAfter
    <3> QED BY <1>5, <1>6, <3>1 DEF Causes, LifecyclesOpened, Opened
  <2> QED BY <2>1, <2>2
<1>9. LifecycleFounded'
  <2> SUFFICES ASSUME NEW l \in Lifecycles, Openers(decisions', l) # {}, NEW c \in Deps[l]
               PROVE  Openers(decisions', c) # {}
    BY DEF LifecycleFounded
  <2>1. CASE l \in pl.life
    BY <1>4, <1>6, <2>1 DEF Opened
  <2>2. CASE l \notin pl.life
    <3>1. Openers(decisions, l) # {}
      BY <1>4, <1>5, <1>6, <2>2 DEF Causes, LifecyclesOpened, Opened
    <3> QED BY <1>5, <1>6, <3>1 DEF Causes, LifecycleFounded
  <2> QED BY <2>1, <2>2
<1>10. SupersededForCause'
  BY <1>1, <1>2, <1>3, CausesKept
<1> QED
  BY <1>7, <1>8, <1>9, <1>10 DEF Causes

\* A replacement accepts one Claim, against which the one it closes is on record,
\* and records the cause it was planned for.
LEMMA ReplacementCauses ==
    ASSUME CauseInv, NEW p \in Finalizers, NEW h \in Digests, CommitReplacement(p, h)
    PROVE  Causes'
<1> DEFINE pl == fin[p]
           cs == Candidate(pl)
           x  == Closing(pl.rep, pl.rec, h)
           d  == Replacing(cs, pl.rec, h)
<1>1. PICK K \in ContrasAfter(pl) : Objections(pl, K) = {} /\ WriteCandidate(pl, K)
  BY DEF CommitReplacement
<1>2. /\ CanWrite(p) /\ decisions' = decisions \cup {x, d} /\ contras' = K
      /\ owner' = OwnerAfter(pl) /\ pl.ready
  BY <1>1 DEF CommitReplacement, WriteCandidate
<1>3. /\ x.act = "SUPERSEDE" /\ x.claims = {pl.rep} /\ x.eff = pl.rec /\ x.rec = pl.rec
      /\ d.act = "ACCEPT_SUPERSEDE" /\ d.claims = cs /\ d.eff = pl.rec /\ d.rec = pl.rec
  BY DEF Closing, Replacing, Decision
<1>4. /\ pl.delta = {pl.pay.by} /\ pl.rep # None /\ pl.delta \subseteq Observed
      /\ CauseProven(pl.pay) /\ pl.pay.new # {} /\ pl.pay.old # {}
  BY <1>2 DEF CauseInv, BookInv, TypeInv, Coherent, Planned
<1>5. cs = {pl.pay.by} /\ pl.life = {} /\ pl.pay.by \notin Lifecycles
  <2>1. Cardinality(cs) = 1
    BY <1>1 DEF Objections
  <2>2. IsFiniteSet(cs)
    <3>1. cs \subseteq Claims
      BY DEF Candidate, ClaimsOf
    <3> QED BY <3>1, ConstantsOK, FS_Subset
  <2>3. \E e : cs = {e}
    BY <2>1, <2>2, FS_Singleton
  <2>4. /\ pl.delta \cup pl.life \subseteq cs /\ pl.delta \cap Lifecycles = {}
        /\ pl.life \subseteq Lifecycles
    BY <1>2, CandidateOf
  <2> HIDE DEF cs
  <2> QED BY <1>4, <2>3, <2>4
<1>6. \E k \in K : k.by = pl.pay.by /\ k.on = pl.rep
  BY <1>1 DEF Objections
<1>7. \E j \in K : j.on = pl.rep /\ j.ev # {} /\ j.class # "OTHER"
  <2>1. contras \subseteq ContraSet
    BY DEF CauseInv, BookInv, TypeInv, TypeOK
  <2>2. RecordsContradiction(pl)
    BY <1>4 DEF RecordsContradiction
  <2> DEFINE fresh == [by |-> pl.pay.by, on |-> pl.rep, class |-> pl.pay.class,
                       ctx |-> pl.pay.priorctx, ev |-> pl.pay.old, rec |-> pl.rec]
  <2>3. pl.pay.class # "OTHER"
    BY <1>4 DEF CauseProven
  <2>4. CASE K = contras \cup {fresh}
    <3>1. fresh.on = pl.rep /\ fresh.ev = pl.pay.old /\ fresh.class = pl.pay.class
      OBVIOUS
    <3> QED BY <1>4, <2>3, <2>4, <3>1
  <2>5. CASE \E r \in Reusable(pl) :
                K = (contras \ {r}) \cup {[r EXCEPT !.ev = @ \cup pl.pay.old]}
    <3>1. PICK r \in Reusable(pl) :
                K = (contras \ {r}) \cup {[r EXCEPT !.ev = @ \cup pl.pay.old]}
      BY <2>5
    <3> DEFINE j == [r EXCEPT !.ev = @ \cup pl.pay.old]
    <3>2. r \in ContraSet /\ r.on = pl.rep /\ r.class = pl.pay.class
      BY <2>1, <3>1 DEF Reusable
    <3>3. j.on = r.on /\ j.class = r.class /\ pl.pay.old \subseteq j.ev
      BY <3>2 DEF ContraSet
    <3>4. j \in K
      BY <3>1
    <3> QED BY <1>4, <2>3, <3>2, <3>3, <3>4
  <2> QED BY <1>1, <2>2, <2>4, <2>5 DEF ContrasAfter
<1>8. Causes /\ pl.rep \in Opened
  <2>1. pl.rep \in Accepted
    BY <1>1 DEF Objections
  <2>2. Known = decisions /\ Accepted \subseteq Claims
    BY ViewTypes DEF CauseInv, BookInv, TypeInv
  <2> QED BY <2>1, <2>2 DEF CauseInv, Accepted, Active, Opened
<1> HIDE DEF d, x, cs, pl
<1>9. \A c : Openers(decisions', c) # {} <=> Openers(decisions, c) # {} \/ c = pl.pay.by
  BY <1>2, <1>3, <1>5 DEF Openers, OpeningActions
<1>10. OpensObserved'
  BY <1>2, <1>3, <1>4, <1>5, <1>8 DEF Causes, OpensObserved, OpeningActions
<1>11. LifecyclesOpened'
  <2> SUFFICES ASSUME NEW l \in Lifecycles, owner'[l] # {} PROVE l \in Opened'
    BY DEF LifecyclesOpened
  <2>1. l \notin Inserted(pl)
    BY <1>4, <1>5 DEF Inserted
  <2>2. owner'[l] = owner[l]
    BY <1>2, <2>1, ConstantsOK DEF OwnerAfter
  <2> QED BY <1>8, <1>9, <2>2 DEF Causes, LifecyclesOpened, Opened
<1>12. LifecycleFounded'
  BY <1>5, <1>8, <1>9 DEF Causes, LifecycleFounded
<1>13. SupersededForCause'
  <2> DEFINE Caused(y) == \E e \in decisions', k, j \in contras' :
                      /\ e.act = "ACCEPT_SUPERSEDE" /\ e.eff = y.eff /\ e.rec = y.rec
                      /\ y.claims = {k.on} /\ e.claims = {k.by}
                      /\ j.on = k.on /\ j.ev # {} /\ j.class # "OTHER"
  <2>1. Caused(x)
    BY <1>2, <1>3, <1>5, <1>6, <1>7
  <2>2. ASSUME NEW y \in decisions, y.act = "SUPERSEDE" PROVE Caused(y)
    <3>1. PICK e \in decisions, k \in contras, j \in contras :
            /\ e.act = "ACCEPT_SUPERSEDE" /\ e.eff = y.eff /\ e.rec = y.rec
            /\ y.claims = {k.on} /\ e.claims = {k.by}
            /\ j.on = k.on /\ j.ev # {} /\ j.class # "OTHER"
      BY <1>8, <2>2 DEF Causes, SupersededForCause
    <3>2. contras \subseteq ContraSet
      BY DEF CauseInv, BookInv, TypeInv, TypeOK
    <3>3. PICK k1 \in contras' : k1.by = k.by /\ k1.on = k.on
      BY <1>1, <1>2, <3>2, ContrasGrow
    <3>4. PICK j1 \in contras' : j1.on = j.on /\ j1.class = j.class /\ j.ev \subseteq j1.ev
      BY <1>1, <1>2, <3>2, ContrasGrow
    <3> QED BY <1>2, <3>1, <3>3, <3>4
  <2>3. \A y \in decisions' : y.act = "SUPERSEDE" => y \in decisions \/ y = x
    BY <1>2, <1>3
  <2> QED BY <2>1, <2>2, <2>3 DEF SupersededForCause
<1> QED
  BY <1>10, <1>11, <1>12, <1>13 DEF Causes

\* What changes no Decision that opens or closes changes no cause.
LEMMA QuietCauses ==
    ASSUME CauseInv, owner' = owner, contras' = contras, decisions \subseteq decisions',
           \A d \in decisions' \ decisions : d.act = "REJECT"
    PROVE  Causes'
<1>1. Causes
  BY DEF CauseInv
<1>2. \A c : Openers(decisions', c) = Openers(decisions, c)
  BY DEF Openers, OpeningActions
<1>3. OpensObserved' /\ LifecyclesOpened' /\ LifecycleFounded'
  BY <1>1, <1>2 DEF Causes, OpensObserved, LifecyclesOpened, LifecycleFounded, Opened,
     OpeningActions
<1>4. SupersededForCause'
  BY CausesKept
<1> QED
  BY <1>3, <1>4 DEF Causes

-----------------------------------------------------------------------------
LEMMA CauseStarts == Init => CauseInv
<1> SUFFICES ASSUME Init PROVE CauseInv
  OBVIOUS
<1>1. Causes
  BY ConstantsOK DEF Init, Causes, OpensObserved, LifecyclesOpened, LifecycleFounded,
     SupersededForCause, Openers
<1>2. \A p \in Finalizers : Planned(fin[p])
  BY DEF Init, NoPlan, Planned, Later
<1> QED
  BY <1>1, <1>2, BookStarts DEF CauseInv

LEMMA KeepsCauses ==
    ASSUME CauseInv, [Next]_vars
    PROVE  Causes'
<1>1. CASE UNCHANGED store
  BY <1>1, QuietCauses DEF store
<1>2. ASSUME NEW p \in Finalizers, Finalize(p)
      PROVE  Causes'
  <2>1. \/ UNCHANGED store \/ CommitPending(p) \/ CommitPromotion(p)
        \/ \E h \in Digests : CommitReplacement(p, h)
    BY <1>2 DEF Finalize, Begin, ReadUnreadable, NothingNew, AlreadyPending, ReadDelta,
       ReadReplacement, ReadConflict, ReadToken, CommitNotResumable, CommitCollision,
       CommitUnreadable, CommitRefused, RolledBack, Abort, ReadOnly
  <2> QED BY <1>1, <2>1, PendingCauses, PromotionCauses, ReplacementCauses
<1>3. ASSUME NEW r \in Resolvers, Resolve(r)
      PROVE  Causes'
  <2>1. ASSUME CommitRejection(r)
        PROVE  Causes'
    <3>1. \A cs, rec : Rejection(cs, rec).act = "REJECT"
      BY DEF Rejection, Decision
    <3> QED BY <2>1, <3>1, QuietCauses DEF CommitRejection
  <2> QED BY <1>1, <1>3, <2>1 DEF Resolve, ReadReview, CheckReview, RefuseRejection,
          AbortReview, EndReview
<1> QED
  BY <1>1, <1>2, <1>3 DEF Next, Tick, vars, store

LEMMA KeepsPlanned ==
    ASSUME CauseInv, [Next]_vars, NEW q \in Finalizers
    PROVE  Planned(fin[q])'
<1>1. ASSUME NEW p \in Finalizers, Finalize(p)
      PROVE  Planned(fin[q])'
  <2>1. /\ owner' = owner \/ Inserts(fin[p])
        /\ decisions \subseteq decisions'
    BY <1>1, FinalizeKinds DEF CauseInv, Captures, Accepts, AcceptsWith
  <2>2. q # p => fin'[q] = fin[q]
    BY <1>1, OneAtATime DEF CauseInv, BookInv
  <2> QED BY <1>1, <2>1, <2>2, OwnPlanned, WaitingPlanned
<1>2. ASSUME NEW r \in Resolvers, Resolve(r)
      PROVE  owner' = owner /\ fin' = fin /\ decisions \subseteq decisions'
  BY <1>2 DEF Resolve, ReadReview, CheckReview, CommitRejection, RefuseRejection,
     AbortReview, EndReview, store
<1>3. CASE owner' = owner /\ fin' = fin /\ decisions \subseteq decisions'
  BY <1>3, WaitingPlanned
<1> QED
  BY <1>1, <1>2, <1>3 DEF Next, Tick, vars, store

LEMMA CauseStep == CauseInv /\ [Next]_vars => CauseInv'
  BY BookStep, KeepsCauses, KeepsPlanned DEF CauseInv

\* Nothing but direct observation is ever accepted, by any number of finalizers
\* that look at the class of a Claim in a plan only (finalize_discovery,
\* "automatic").
THEOREM ObservedAccepted == Spec => []OnlyObservedAccepted
<1>1. CauseInv => OnlyObservedAccepted
  <2> SUFFICES ASSUME CauseInv, NEW c \in Accepted PROVE c \in Observed
    BY DEF OnlyObservedAccepted
  <2>1. Known = decisions
    BY ViewTypes DEF CauseInv, BookInv, TypeInv
  <2>2. Openers(decisions, c) # {}
    BY <2>1 DEF Accepted, Active
  <2> QED BY <2>2 DEF CauseInv, Causes, OpensObserved, Openers
<1> QED
  BY <1>1, CauseStarts, CauseStep, PTL DEF Spec

\* Every lifecycle was accepted after, or with, all it rests on
\* (_operational_proof_dependencies).
THEOREM FoundedLifecycles == Spec => []LifecycleFounded
<1>1. CauseInv => LifecycleFounded
  BY DEF CauseInv, Causes
<1> QED
  BY <1>1, CauseStarts, CauseStep, PTL DEF Spec

\* Every Claim that was closed was closed by the one Claim on record against it,
\* with a cause on record (_replacement_cause_proven, replace_candidate).
THEOREM ClosedForCause == Spec => []SupersededForCause
<1>1. CauseInv => SupersededForCause
  BY DEF CauseInv, Causes
<1> QED
  BY <1>1, CauseStarts, CauseStep, PTL DEF Spec

-----------------------------------------------------------------------------
(* The intervals. *)

\* What a writer puts into the interval columns.
Shaped(d) ==
    \/ d.act \in OpeningActions /\ d.from = d.rec /\ d.to = NoTime
    \/ d.act = "SUPERSEDE" /\ d.to = d.rec
    \/ d.act = "REJECT"

ViewInv == CauseInv /\ \A d \in decisions : Shaped(d)

USE DEF OpeningActions, NoTime

Fate == [c \in Claims |-> StatusOf(c)]

-----------------------------------------------------------------------------
(* The view. *)

\* A Claim is opened once.
LEMMA OneOpener ==
    ASSUME BookInv, NEW c, NEW d \in Openers(decisions, c), NEW e \in Openers(decisions, c)
    PROVE  d = e
BY DEF BookInv, Tables, SettledOnce, Openers, SettleActions

LEMMA AcceptedStatus ==
    ASSUME ViewInv, Readable, NEW c
    PROVE  c \in Accepted <=> c \in Claims /\ StatusOf(c) = "accepted"
<1>1. /\ Known = decisions /\ decisions \subseteq DecisionSet /\ now \in Nat
      /\ \A d \in decisions : d.rec <= now
      /\ BookInv
  BY ViewTypes DEF ViewInv, CauseInv, BookInv, TypeInv, TypeOK
<1>2. ASSUME c \in Accepted
      PROVE  c \in Claims /\ StatusOf(c) = "accepted"
  <2>1. PICK o \in Openers(decisions, c) : InForce(decisions, c, o, now)
    BY <1>1, <1>2 DEF Accepted, Active
  <2>2. o \in decisions /\ c \in o.claims /\ o \in DecisionSet
    BY <1>1, <2>1 DEF Openers
  <2>3. c \in Claims /\ owner[c] # {} /\ Settled(decisions, c) /\ Openers(decisions, c) # {}
    BY <1>1, <2>1, <2>2 DEF Tables, NamesRecorded, Captured, Settled, BookInv
  <2>4. ASSUME NEW x \in Closers(decisions, c)
        PROVE  FALSE
    <3>0. x \in decisions /\ x.act \in CloseActions /\ c \in x.claims
      BY <2>4 DEF Closers
    <3>1. x.act = "SUPERSEDE" /\ x.to = x.rec /\ x \in DecisionSet
      BY <1>1, <3>0 DEF CloseActions, ViewInv, Shaped
    <3>2. PICK p \in Openers(decisions, c) : Before(p, x)
      BY <1>1, <3>0 DEF Readable, Foldable, Closers
    <3>3. Before(o, x) /\ \A q \in Openers(decisions, c) : q = o
      BY <1>1, <2>1, <3>2, OneOpener
    <3>4. ~Before(o, o)
      BY <2>2 DEF Before, DecisionSet
    <3>5. Closes(decisions, c, x, o)
      BY <3>3, <3>4 DEF Closes
    <3>6. now < CloseAt(x)
      BY <2>1, <2>4, <3>5 DEF InForce
    <3>7. CloseAt(x) = x.rec /\ x.rec \in Nat /\ x.rec <= now
      BY <1>1, <3>0, <3>1 DEF CloseAt, DecisionSet
    <3> QED BY <1>1, <3>6, <3>7
  <2> QED BY <2>3, <2>4 DEF StatusOf
<1>3. ASSUME c \in Claims, StatusOf(c) = "accepted"
      PROVE  c \in Accepted
  <2>1. Openers(decisions, c) # {} /\ Closers(decisions, c) = {}
    BY <1>3 DEF StatusOf
  <2>2. PICK o \in Openers(decisions, c) : TRUE
    BY <2>1
  <2>3. o \in decisions /\ c \in o.claims /\ o.act \in OpeningActions /\ o \in DecisionSet
    BY <1>1, <2>2 DEF Openers
  <2>4. o.from = o.rec /\ o.to = NoTime
    BY <2>3 DEF ViewInv, Shaped
  <2>5. InForce(decisions, c, o, now)
    BY <1>1, <2>1, <2>3, <2>4 DEF InForce, Within
  <2>6. c \in Named(decisions)
    BY <2>3 DEF Named
  <2> QED BY <1>1, <2>2, <2>5, <2>6 DEF Accepted, Active
<1> QED
  BY <1>2, <1>3

LEMMA PendingStatus ==
    ASSUME ViewInv, NEW c \in Claims
    PROVE  c \in PendingClaims <=> StatusOf(c) = "pending"
<1>1. Known = decisions /\ BookInv
  BY ViewTypes DEF ViewInv, CauseInv, BookInv, TypeInv
<1>2. ASSUME c \in PendingClaims PROVE StatusOf(c) = "pending"
  <2>1. owner[c] \in Pending(owner) /\ owner[c] # {}
    BY <1>2 DEF PendingClaims, Pending
  <2>2. \A d \in decisions : c \notin d.claims
    BY <1>1, <2>1, Undecided DEF ClaimsOf
  <2> QED BY <2>1, <2>2 DEF StatusOf, Settled
<1>3. ASSUME StatusOf(c) = "pending" PROVE c \in PendingClaims
  BY <1>1, <1>3 DEF StatusOf, PendingClaims, Pending, ClaimsOf
<1> QED
  BY <1>2, <1>3

LEMMA ViewOfStatus == ViewInv => ViewAgrees
<1> SUFFICES ASSUME ViewInv PROVE ViewAgrees
  OBVIOUS
<1>1. Readable => Accepted = {c \in Claims : StatusOf(c) = "accepted"}
  BY AcceptedStatus
<1>2. PendingClaims = {c \in Claims : StatusOf(c) = "pending"}
  BY PendingStatus DEF PendingClaims
<1> QED
  BY <1>1, <1>2 DEF ViewAgrees

-----------------------------------------------------------------------------
(* The shape of a Decision. *)

LEMMA ShapesStart == Init => ViewInv
  BY CauseStarts DEF Init, ViewInv

LEMMA ShapesStep == ViewInv /\ [Next]_vars => ViewInv'
<1> SUFFICES ASSUME ViewInv, [Next]_vars PROVE ViewInv'
  OBVIOUS
<1>1. \A cs, rec : Shaped(Acceptance(cs, rec)) /\ Shaped(Rejection(cs, rec))
  BY DEF Shaped, Acceptance, Rejection, Decision
<1>2. \A cs, c, rec, h : Shaped(Replacing(cs, rec, h)) /\ Shaped(Closing(c, rec, h))
  BY DEF Shaped, Replacing, Closing, Decision
<1>3. \A d \in decisions : Shaped(d)
  BY DEF ViewInv
<1>4. ASSUME NEW p \in Finalizers, Finalize(p)
      PROVE  \A d \in decisions' : Shaped(d)
  <2>1. CASE CommitPromotion(p)
    BY <1>1, <1>3, <2>1 DEF CommitPromotion
  <2>2. CASE \E h \in Digests : CommitReplacement(p, h)
    BY <1>2, <1>3, <2>2 DEF CommitReplacement
  <2>3. CASE decisions' = decisions
    BY <1>3, <2>3
  <2> QED
    BY <1>4, <2>1, <2>2, <2>3 DEF Finalize, Begin, ReadUnreadable, NothingNew,
       AlreadyPending, ReadDelta, ReadReplacement, ReadConflict, ReadToken,
       CommitNotResumable, CommitCollision, CommitPending, CommitUnreadable, CommitRefused,
       RolledBack, Abort, ReadOnly, store
<1>5. ASSUME NEW r \in Resolvers, Resolve(r)
      PROVE  \A d \in decisions' : Shaped(d)
  <2>1. CASE CommitRejection(r)
    BY <1>1, <1>3, <2>1 DEF CommitRejection
  <2>2. CASE decisions' = decisions
    BY <1>3, <2>2
  <2> QED
    BY <1>5, <2>1, <2>2 DEF Resolve, ReadReview, CheckReview, RefuseRejection, AbortReview,
       EndReview, store
<1>6. \A d \in decisions' : Shaped(d)
  BY <1>3, <1>4, <1>5 DEF Next, Tick, vars, store
<1> QED
  BY <1>6, CauseStep DEF ViewInv

LEMMA ViewInvariant == Spec => []ViewInv
  BY ShapesStart, ShapesStep, PTL DEF Spec

\* Whenever the accepted view can be folded, it is what the Decisions say, whatever
\* recorded_at they carry; the pending view always is (SQLiteOperationalMemory,
\* projection and get_pending_candidates).
THEOREM ViewCorrect == Spec => []ViewAgrees
  BY ViewInvariant, ViewOfStatus, PTL
-----------------------------------------------------------------------------
(* The steps of the book. *)

\* A transaction inserts Claims the book does not have into a Proposal it has not
\* decided.
LEMMA Capturing ==
    ASSUME ViewInv, NEW pl, Inserts(pl)
    PROVE  /\ ProposalOf(pl) \in SUBSET Claims
           /\ Inserted(pl) \in SUBSET {c \in Claims : Fate[c] = "absent"}
           /\ \A c \in Inserted(pl) : ~Settled(decisions, c)
           /\ owner' = [c \in Claims |-> IF c \in Inserted(pl) THEN ProposalOf(pl) ELSE owner[c]]
           /\ \A c \in Claims : owner[c] = ProposalOf(pl) => Fate[c] = "pending"
           /\ ClaimsOf(owner', ProposalOf(pl)) = ClaimsOf(owner, ProposalOf(pl)) \cup Inserted(pl)
           /\ ClaimsOf(owner', ProposalOf(pl)) # {} /\ ProposalOf(pl) # {}
           /\ \A c \in ClaimsOf(owner', ProposalOf(pl)) : ~Settled(decisions, c)
<1>1. BookInv /\ NamesRecorded /\ owner \in [Claims -> SUBSET Claims]
  BY DEF ViewInv, CauseInv, BookInv, Tables, TypeInv, TypeOK
<1>2. Inserted(pl) \subseteq Claims /\ ProposalOf(pl) \subseteq Claims
  BY ConstantsOK DEF Inserts, PlanSet, Inserted, ProposalOf
<1>3. \A c \in Inserted(pl) : owner[c] = {} /\ ~Settled(decisions, c)
  BY <1>1, <1>2 DEF Inserts, Collides, Captured, NamesRecorded, Settled
<1>4. owner' = [c \in Claims |-> IF c \in Inserted(pl) THEN ProposalOf(pl) ELSE owner[c]]
  BY DEF Inserts, OwnerAfter
<1>5. /\ ClaimsOf(owner', ProposalOf(pl)) # {} /\ ProposalOf(pl) # {}
      /\ \A c \in ClaimsOf(owner', ProposalOf(pl)) : ~Settled(decisions, c)
  BY <1>1, Insertion DEF Settled
<1>6. ClaimsOf(owner', ProposalOf(pl)) = ClaimsOf(owner, ProposalOf(pl)) \cup Inserted(pl)
  BY <1>2, <1>4 DEF ClaimsOf
<1>7. \A c \in Claims : owner[c] = ProposalOf(pl) => Fate[c] = "pending"
  BY <1>5, <1>6 DEF ClaimsOf, Fate, StatusOf
<1> QED
  BY <1>2, <1>3, <1>4, <1>5, <1>6, <1>7 DEF Fate, StatusOf

LEMMA Joining ==
    ASSUME ViewInv, NEW pl, Inserts(pl)
    PROVE  Book!Joins(ProposalOf(pl), Inserted(pl))
BY Capturing DEF Book!Joins, Book!Members, Fate, ClaimsOf

LEMMA CaptureIsRecord ==
    ASSUME ViewInv, NEW pl, Inserts(pl), decisions' = decisions
    PROVE  Book!Record(ProposalOf(pl), Inserted(pl))
<1>1. \A c \in Claims : Fate'[c] = IF c \in Inserted(pl) THEN "pending" ELSE Fate[c]
  BY Capturing DEF Fate, StatusOf
<1>2. Fate' = [c \in Claims |-> IF c \in Inserted(pl) THEN "pending" ELSE Fate[c]]
  BY <1>1 DEF Fate
<1> QED
  BY <1>2, Joining DEF Book!Record, Fate

LEMMA PromotionIsAccept ==
    ASSUME ViewInv, NEW p \in Finalizers, CommitPromotion(p)
    PROVE  Book!Accept(ProposalOf(fin[p]), Inserted(fin[p]))
<1> DEFINE pl == fin[p]
           cs == ClaimsOf(owner', ProposalOf(pl))
           d  == Acceptance(cs, pl.rec)
<1>1. Inserts(pl)
  BY DEF CommitPromotion, WriteCandidate, CanWrite, At, Inserts, ViewInv, CauseInv, BookInv,
     TypeInv, TypeOK
<1>2. decisions' = decisions \cup {d}
  BY DEF CommitPromotion, WriteCandidate, Candidate
<1>3. d.act = "ACCEPT" /\ d.claims = cs
  BY DEF Acceptance, Decision
<1> HIDE DEF d
<1>4. \A c \in cs : c \in Claims /\ owner'[c] # {} /\ Closers(decisions', c) = {}
                 /\ Openers(decisions', c) # {} /\ Settled(decisions', c)
  <2>1. \A c \in cs : ~Settled(decisions, c)
    BY <1>1, Capturing
  <2>2. \A c \in cs : c \in Claims /\ owner'[c] # {}
    BY <1>1, Capturing DEF ClaimsOf
  <2> QED BY <1>2, <1>3, <2>1, <2>2 DEF Settled, Openers, Closers, CloseActions
<1>5. \A c \in Claims \ cs : owner'[c] = owner[c] /\ Closers(decisions', c) = Closers(decisions, c)
                 /\ Openers(decisions', c) = Openers(decisions, c)
                 /\ (Settled(decisions', c) <=> Settled(decisions, c))
  <2>1. \A c \in Claims \ cs : owner'[c] = owner[c]
    BY <1>1, Capturing DEF ClaimsOf
  <2> HIDE DEF cs
  <2> QED BY <1>2, <1>3, <2>1 DEF Settled, Openers, Closers
<1>6. \A c \in Claims : Fate'[c] = IF c \in cs THEN "accepted" ELSE Fate[c]
  BY <1>4, <1>5 DEF Fate, StatusOf
<1>7. cs = ClaimsOf(owner, ProposalOf(pl)) \cup Inserted(pl)
  BY <1>1, Capturing
<1>8. Fate' = [c \in Claims |-> IF c \in Book!Members(ProposalOf(pl)) \cup Inserted(pl)
                                THEN "accepted" ELSE Fate[c]]
  BY <1>6, <1>7 DEF Fate, Book!Members, ClaimsOf
<1> QED
  BY <1>1, <1>8, Joining DEF Book!Accept, Fate

LEMMA ReplacementIsReplace ==
    ASSUME ViewInv, NEW p \in Finalizers, NEW h \in Digests, CommitReplacement(p, h)
    PROVE  Book!Replace(ProposalOf(fin[p]), Inserted(fin[p]), fin[p].rep) /\ fin[p].rep \in Claims
<1> DEFINE pl == fin[p]
           cs == ClaimsOf(owner', ProposalOf(pl))
           d  == Replacing(cs, pl.rec, h)
           x  == Closing(pl.rep, pl.rec, h)
<1>1. Inserts(pl)
  BY DEF CommitReplacement, WriteCandidate, CanWrite, At, Inserts, ViewInv, CauseInv, BookInv,
     TypeInv, TypeOK
<1>2. decisions' = decisions \cup {x, d} /\ pl.rep \in Accepted /\ Cardinality(cs) = 1
  BY DEF CommitReplacement, WriteCandidate, Candidate, Objections
<1>3. /\ d.act = "ACCEPT_SUPERSEDE" /\ d.claims = cs
      /\ x.act = "SUPERSEDE" /\ x.claims = {pl.rep}
  BY DEF Replacing, Closing, Decision
<1>4. pl.rep \in Claims /\ Fate[pl.rep] = "accepted"
  BY <1>2, AcceptedStatus DEF CommitReplacement, Fate
<1>5. PICK new : cs = {new}
  <2>1. IsFiniteSet(cs)
    <3>1. cs \subseteq Claims
      BY DEF ClaimsOf
    <3> QED BY <3>1, ConstantsOK, FS_Subset
  <2> QED BY <1>2, <2>1, FS_Singleton
<1>6. new \in Claims /\ owner'[new] # {} /\ ~Settled(decisions, new)
  BY <1>1, <1>5, Capturing DEF ClaimsOf
<1>7. new # pl.rep
  BY <1>4, <1>6 DEF Fate, StatusOf
<1>8. \A c \in Claims \ cs : owner'[c] = owner[c]
  BY <1>1, Capturing DEF ClaimsOf
<1>9. cs = ClaimsOf(owner, ProposalOf(pl)) \cup Inserted(pl)
  BY <1>1, Capturing
<1> HIDE DEF d, x, cs
<1>10. Fate'[new] = "accepted"
  <2>1. Closers(decisions', new) = {} /\ Openers(decisions', new) # {} /\ Settled(decisions', new)
    BY <1>2, <1>3, <1>5, <1>6, <1>7 DEF Settled, Openers, Closers, CloseActions
  <2> QED BY <1>6, <2>1 DEF Fate, StatusOf
<1>11. Fate'[pl.rep] = "superseded"
  <2>1. owner[pl.rep] # {} /\ Settled(decisions, pl.rep) /\ Openers(decisions, pl.rep) # {}
    BY <1>4 DEF Fate, StatusOf
  <2>2. /\ Closers(decisions', pl.rep) # {} /\ Openers(decisions', pl.rep) # {}
        /\ Settled(decisions', pl.rep)
    BY <1>2, <1>3, <2>1 DEF Settled, Openers, Closers, CloseActions
  <2> QED BY <1>4, <1>5, <1>7, <1>8, <2>1, <2>2 DEF Fate, StatusOf
<1>12. ASSUME NEW c \in Claims, c # new, c # pl.rep
       PROVE  Fate'[c] = Fate[c]
  <2>1. /\ Closers(decisions', c) = Closers(decisions, c)
        /\ Openers(decisions', c) = Openers(decisions, c)
        /\ Settled(decisions', c) <=> Settled(decisions, c)
    BY <1>2, <1>3, <1>5, <1>12 DEF Settled, Openers, Closers
  <2> QED BY <1>5, <1>8, <1>12, <2>1 DEF Fate, StatusOf
<1>13. Fate' = [Fate EXCEPT ![new] = "accepted", ![pl.rep] = "superseded"]
  BY <1>4, <1>6, <1>7, <1>10, <1>11, <1>12 DEF Fate
<1>14. Book!Members(ProposalOf(pl)) \cup Inserted(pl) = {new}
  BY <1>5, <1>9 DEF Book!Members, ClaimsOf
<1> QED
  BY <1>1, <1>4, <1>6, <1>13, <1>14, Joining DEF Book!Replace, Fate

LEMMA RejectionIsReject ==
    ASSUME ViewInv, NEW r \in Resolvers, CommitRejection(r)
    PROVE  Book!Reject(res[r].prop) /\ res[r].prop \in SUBSET Claims
<1> DEFINE prop == res[r].prop
           cs   == ClaimsOf(owner, prop)
           d    == Rejection(cs, res[r].rec)
<1>1. /\ prop \in Pending(owner) /\ decisions' = decisions \cup {d} /\ owner' = owner
      /\ BookInv /\ owner \in [Claims -> SUBSET Claims]
  BY DEF CommitRejection, Rejectable, ViewInv, CauseInv, BookInv, TypeInv, TypeOK
<1>2. d.act = "REJECT" /\ d.claims = cs
  BY DEF Rejection, Decision
<1>3. prop \subseteq Claims /\ prop # {} /\ cs # {}
  BY <1>1 DEF Pending
<1>4. \A c \in cs : c \in Claims /\ owner[c] = prop /\ ~Settled(decisions, c)
  BY <1>1, Undecided DEF Settled, ClaimsOf
<1> HIDE DEF d
<1>5. \A c \in cs : Fate[c] = "pending" /\ Fate'[c] = "rejected"
  <2>1. \A c \in cs : Settled(decisions', c) /\ Openers(decisions', c) = {}
    BY <1>1, <1>2, <1>4 DEF Settled, Openers
  <2> QED BY <1>1, <1>3, <1>4, <2>1 DEF Fate, StatusOf
<1>6. ASSUME NEW c \in Claims, c \notin cs
      PROVE  Fate'[c] = Fate[c]
  <2>1. /\ Closers(decisions', c) = Closers(decisions, c)
        /\ Openers(decisions', c) = Openers(decisions, c)
        /\ Settled(decisions', c) <=> Settled(decisions, c)
    BY <1>1, <1>2, <1>6 DEF Settled, Openers, Closers
  <2> QED BY <1>1, <2>1 DEF Fate, StatusOf
<1>7. Fate' = [c \in Claims |-> IF c \in cs THEN "rejected" ELSE Fate[c]]
  BY <1>5, <1>6 DEF Fate
<1>8. Book!Members(prop) = cs
  BY DEF Book!Members, ClaimsOf
<1>9. Book!Joins(prop, {})
  BY <1>1, <1>3, <1>5, <1>8 DEF Book!Joins, Book!Members, Fate
<1> QED
  BY <1>3, <1>7, <1>8, <1>9 DEF Book!Reject, Fate

\* Every step of Finalization is a step of the book, or leaves it as it is.
LEMMA Booked ==
    ASSUME ViewInv, [Next]_vars
    PROVE  [Book!BookNext]_<<owner, Fate>>
<1>1. CASE UNCHANGED <<owner, decisions>>
  BY <1>1 DEF Fate, StatusOf
<1>2. ASSUME NEW prop \in SUBSET Claims, NEW S \in SUBSET {c \in Claims : Fate[c] = "absent"},
             \/ Book!Record(prop, S) \/ Book!Accept(prop, S)
             \/ \E old \in Claims : Book!Replace(prop, S, old)
             \/ Book!Reject(prop)
      PROVE  [Book!BookNext]_<<owner, Fate>>
  BY <1>2 DEF Book!BookNext, Book!BookStep, Book!Changes, Fate
<1>3. ASSUME NEW p \in Finalizers, Finalize(p)
      PROVE  [Book!BookNext]_<<owner, Fate>>
  <2>1. CASE Captures(p)
    BY <1>2, <2>1, CaptureIsRecord, Capturing DEF Captures
  <2>2. ASSUME CanWrite(p), owner' = OwnerAfter(fin[p])
        PROVE  Inserts(fin[p])
    BY <2>2 DEF CanWrite, At, Inserts, ViewInv, CauseInv, BookInv, TypeInv, TypeOK
  <2>3. CASE CommitPromotion(p)
    <3>1. Inserts(fin[p])
      BY <2>2, <2>3 DEF CommitPromotion, WriteCandidate
    <3> QED BY <1>2, <2>3, <3>1, PromotionIsAccept, Capturing
  <2>4. CASE \E h \in Digests : CommitReplacement(p, h)
    <3>1. PICK h \in Digests : CommitReplacement(p, h)
      BY <2>4
    <3>2. Inserts(fin[p])
      BY <2>2, <3>1 DEF CommitReplacement, WriteCandidate
    <3> QED BY <1>2, <3>1, <3>2, ReplacementIsReplace, Capturing
  <2>5. CASE CommitPending(p)
    BY <2>1, <2>2, <2>5 DEF CommitPending, WriteCandidate, Captures
  <2> QED
    BY <1>1, <1>3, <2>3, <2>4, <2>5 DEF Finalize, Begin, ReadUnreadable, NothingNew,
       AlreadyPending, ReadDelta, ReadReplacement, ReadConflict, ReadToken,
       CommitNotResumable, CommitCollision, CommitUnreadable, CommitRefused, RolledBack,
       Abort, ReadOnly, store
<1>4. ASSUME NEW r \in Resolvers, Resolve(r)
      PROVE  [Book!BookNext]_<<owner, Fate>>
  <2>1. CASE CommitRejection(r)
    <3>1. {} \in SUBSET {c \in Claims : Fate[c] = "absent"}
      OBVIOUS
    <3> QED BY <1>2, <2>1, <3>1, RejectionIsReject
  <2> QED
    BY <1>1, <1>4, <2>1 DEF Resolve, ReadReview, CheckReview, RefuseRejection, AbortReview,
       EndReview, store
<1> QED
  BY <1>1, <1>3, <1>4 DEF Next, Tick, vars, store

\* Whatever finalizers and resolvers do to each other, what becomes of the Claims is
\* what ClaimBook promises: Proposals are decided once and as a whole, and an
\* accepted Claim only ever gives way to one other (promote_candidate,
\* replace_candidate, reject_candidate).
THEOREM BookKept == Spec => KeepsTheBook
<1>1. Init => Book!BookInit
  BY DEF Init, Book!BookInit, StatusOf
<1>2. ViewInv /\ [Next]_vars => [Book!BookNext]_<<owner, [c \in Claims |-> StatusOf(c)]>>
  BY Booked DEF Fate
<1> QED
  BY <1>1, <1>2, ViewInvariant, PTL DEF Spec, KeepsTheBook, Book!BookSpec

-----------------------------------------------------------------------------
(* The answer SAVED. *)

LEMMA SavedAccepts ==
    ASSUME ViewInv, ViewInv', NEW p \in Finalizers, Readable',
           CommitPromotion(p) \/ \E h \in Digests : CommitReplacement(p, h)
    PROVE  fin[p].delta \cup fin[p].life \subseteq Accepted' \ PendingClaims'
<1> DEFINE pl == fin[p]
<1>1. CanWrite(p) /\ owner' = OwnerAfter(pl)
  BY DEF CommitPromotion, CommitReplacement, WriteCandidate
<1>2. Inserts(pl)
  BY <1>1 DEF CanWrite, At, Inserts, ViewInv, CauseInv, BookInv, TypeInv, TypeOK
<1>3. pl.delta \cup pl.life \subseteq Candidate(pl)
  BY <1>1, CandidateOf DEF ViewInv
<1>4. Candidate(pl) = ClaimsOf(owner', ProposalOf(pl)) /\ Candidate(pl) \subseteq Claims
  BY <1>1 DEF Candidate, ClaimsOf
<1>5. Candidate(pl) = Book!Members(ProposalOf(pl)) \cup Inserted(pl)
  BY <1>2, <1>4, Capturing DEF Book!Members, ClaimsOf
<1>6. \A c \in Candidate(pl) : Fate'[c] = "accepted"
  <2>1. CASE CommitPromotion(p)
    BY <1>4, <1>5, <2>1, PromotionIsAccept DEF Book!Accept, Fate
  <2>2. CASE \E h \in Digests : CommitReplacement(p, h)
    <3>1. PICK h \in Digests : CommitReplacement(p, h)
      BY <2>2
    <3>2. Book!Replace(ProposalOf(pl), Inserted(pl), pl.rep)
      BY <3>1, ReplacementIsReplace
    <3>3. PICK c \in Claims :
            /\ Candidate(pl) = {c}
            /\ Fate' = [Fate EXCEPT ![c] = "accepted", ![pl.rep] = "superseded"]
      BY <1>5, <3>2 DEF Book!Replace, Fate
    <3>4. Fate[pl.rep] = "accepted" /\ Fate[c] # "accepted"
      <4>0. \A e \in ClaimsOf(owner', ProposalOf(pl)) : ~Settled(decisions, e)
        BY <1>2, Capturing
      <4>1. ~Settled(decisions, c)
        BY <1>4, <3>3, <4>0
      <4> QED BY <3>2, <4>1 DEF Book!Replace, Fate, StatusOf
    <3> QED BY <3>3, <3>4 DEF Fate
  <2> QED BY <2>1, <2>2
<1>7. ViewAgrees'
  BY ViewOfStatus, PTL
<1> QED
  BY <1>3, <1>4, <1>6, <1>7 DEF ViewAgrees, Fate

\* A finalizer answers SAVED in these two steps only.
LEMMA SavedSteps ==
    ASSUME TypeInv, [Next]_vars, NEW p \in Finalizers, fin[p].pc = "commit",
           fin'[p].out = "SAVED"
    PROVE  fin'[p] = fin[p] \/ CommitPromotion(p) \/ \E h \in Digests : CommitReplacement(p, h)
<1>1. fin \in [Finalizers -> PlanSet]
  BY DEF TypeInv, TypeOK
<1>2. ASSUME NEW out, Return(p, out), out # "SAVED"
      PROVE  FALSE
  BY <1>1, <1>2 DEF Return, NoPlan
<1>3. CASE Finalize(p)
  <2>1. CASE CommitPending(p)
    BY <1>2, <2>1 DEF CommitPending
  <2>2. CASE CommitRefused(p)
    <3>1. PICK code \in {"STALE", "NOT_ONE_CLAIM", "NO_CONTRADICTION", "NOT_SEPARATE",
                        "CONCURRENT_PENDING"} : Return(p, code)
      BY <2>2 DEF CommitRefused, RolledBack, Objections
    <3> QED BY <1>2, <3>1
  <2>3. CASE CommitNotResumable(p) \/ CommitCollision(p) \/ CommitUnreadable(p) \/ Abort(p)
    BY <1>2, <2>3 DEF CommitNotResumable, CommitCollision, CommitUnreadable, RolledBack, Abort
  <2> QED
    BY <1>3, <2>1, <2>2, <2>3 DEF Finalize, Begin, ReadUnreadable, NothingNew,
       AlreadyPending, ReadDelta, ReadReplacement, ReadConflict, ReadToken, At
<1>4. ASSUME NEW q \in Finalizers, Finalize(q), q # p
      PROVE  fin'[p] = fin[p]
  BY <1>4, OneAtATime
<1>5. ASSUME NEW r \in Resolvers, Resolve(r)
      PROVE  fin' = fin
  BY <1>5 DEF Resolve, ReadReview, CheckReview, CommitRejection, RefuseRejection,
     AbortReview, EndReview
<1> QED
  BY <1>3, <1>4, <1>5 DEF Next, Tick, vars

\* A finalizer that still runs has not answered SAVED.
Running == \A p \in Finalizers : fin[p].pc # "idle" => fin[p].out # "SAVED"

LEMMA RunningStarts == Init => Running
  BY DEF Init, Running, NoPlan

LEMMA RunningStep ==
    ASSUME TypeInv, Running, [Next]_vars
    PROVE  Running'
<1>1. fin \in [Finalizers -> PlanSet] /\ \A pay \in Payloads : pay.gate # "SAVED"
  BY ConstantsOK DEF TypeInv, TypeOK, PayloadSet, Gates
<1>2. SUFFICES ASSUME NEW p \in Finalizers, fin'[p] # fin[p], fin'[p].pc # "idle"
               PROVE  fin'[p].out # "SAVED"
  BY DEF Running
<1>3. ASSUME NEW out, Return(p, out)
      PROVE  FALSE
  BY <1>1, <1>2, <1>3 DEF Return, NoPlan
<1>4. CASE Finalize(p)
  <2>1. ASSUME NEW pay, NEW back, Begin(p, pay, back)
        PROVE  fin'[p].out # "SAVED"
    BY <1>1, <1>3, <2>1 DEF Begin, NoPlan
  <2>2. CASE ReadDelta(p) \/ ReadReplacement(p) \/ ReadConflict(p) \/ ReadToken(p)
    <3>1. fin[p].pc # "idle" /\ fin'[p].out = fin[p].out
      BY <1>1, <1>3, <2>2 DEF ReadDelta, ReadReplacement, ReadConflict, ReadToken, At, PlanSet
    <3> QED BY <3>1 DEF Running
  <2>3. CASE CommitPending(p)
    BY <1>3, <2>3 DEF CommitPending
  <2>4. CASE CommitRefused(p)
    BY <1>3, <2>4 DEF CommitRefused, RolledBack
  <2>5. ASSUME NEW h, CommitReplacement(p, h)
        PROVE  FALSE
    BY <1>3, <2>5 DEF CommitReplacement
  <2>6. CASE \/ ReadUnreadable(p) \/ NothingNew(p) \/ AlreadyPending(p)
             \/ CommitNotResumable(p) \/ CommitCollision(p) \/ CommitUnreadable(p)
             \/ CommitPromotion(p) \/ Abort(p)
    BY <1>3, <2>6 DEF ReadUnreadable, NothingNew, AlreadyPending, CommitNotResumable,
       CommitCollision, CommitUnreadable, RolledBack, CommitPromotion, Abort
  <2> QED
    BY <1>4, <2>1, <2>2, <2>3, <2>4, <2>5, <2>6 DEF Finalize
<1>5. ASSUME NEW q \in Finalizers, Finalize(q), q # p
      PROVE  FALSE
  BY <1>2, <1>5, OneAtATime
<1>6. ASSUME NEW r \in Resolvers, Resolve(r)
      PROVE  FALSE
  BY <1>2, <1>6 DEF Resolve, ReadReview, CheckReview, CommitRejection, RefuseRejection,
     AbortReview, EndReview
<1> QED
  BY <1>2, <1>4, <1>5, <1>6 DEF Next, Tick, vars

SavedInv == ViewInv /\ Running

LEMMA SavedStep ==
    ASSUME SavedInv, [Next]_vars, SavedInv', NEW p \in Finalizers, fin[p].pc = "commit",
           fin'[p].out = "SAVED", Readable'
    PROVE  fin[p].delta \cup fin[p].life \subseteq Accepted' \ PendingClaims'
<1>1. TypeInv
  BY DEF SavedInv, ViewInv, CauseInv, BookInv
<1>2. fin'[p] # fin[p]
  BY DEF SavedInv, Running
<1>3. CommitPromotion(p) \/ \E h \in Digests : CommitReplacement(p, h)
  BY <1>1, <1>2, SavedSteps
<1> QED
  BY <1>3, SavedAccepts DEF SavedInv

\* Whatever others have done since its reads, a finalizer that answers SAVED has
\* left all it planned to save in the view of the very next lookup, if that view can
\* be folded (finalize_discovery, SAVED).
THEOREM SavedVisible == Spec => SavedIsVisible
<1>1. Init => SavedInv
  BY ShapesStart, RunningStarts DEF SavedInv
<1>2. SavedInv /\ [Next]_vars => SavedInv'
  BY ShapesStep, RunningStep DEF SavedInv, ViewInv, CauseInv, BookInv
<1>3. SavedInv /\ SavedInv' /\ [Next]_vars =>
        [\A p \in Finalizers :
           /\ fin[p].pc = "commit"
           /\ fin'[p].out = "SAVED"
           /\ Readable'
           => fin[p].delta \cup fin[p].life \subseteq Accepted' \ PendingClaims']_vars
  BY SavedStep
<1> QED
  BY <1>1, <1>2, <1>3, PTL DEF Spec, SavedIsVisible
=============================================================================
