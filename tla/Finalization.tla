---------------------------- MODULE Finalization ----------------------------
(***************************************************************************)
(* How Discovery results become accepted knowledge: several processes run  *)
(* discovery-finalize (discovery_finalize.py, om_native_writes.py) and     *)
(* knowledge-resolve against one SQLite database, for one capability of    *)
(* one target.                                                             *)
(*                                                                         *)
(* A finalizer reads the database several times, without a snapshot common *)
(* to its reads, to decide what it will write; it then opens one BEGIN     *)
(* IMMEDIATE transaction and writes.  Each group of reads that answers one *)
(* question is an action of its own, the transaction is one atomic action, *)
(* and any other process may act in between.                               *)
(*                                                                         *)
(* A Claim's id is the digest of its family, class, value and host, and a  *)
(* Proposal's id the digest of the Claims it was created with: here a      *)
(* Claim is its own id, and a Proposal is named by the set of its Claims.  *)
(***************************************************************************)
EXTENDS Ledger, FiniteSets

CONSTANTS
    Claims,       \* every Claim some payload may state, and the lifecycle Claims
    Lifecycles,   \* the OPERATIONAL Claims a finalizer may append by itself
    Observed,     \* Claims of class OBSERVED; the others are INFERRED or UNKNOWN
    Scope,        \* [Claims -> ...]  family and host
    Slot,         \* [Claims -> ...]  family, host and, for transports, which one
    Value,        \* [Claims -> ...]  the stated value
    Exempt,       \* the operational proofs, which never conflict
    Deps,         \* [Lifecycles -> SUBSET Claims]  the proof and its two facts
    Rivals,       \* [Lifecycles -> SUBSET Claims]  facts that make the path ambiguous
    Locators,     \* places evidence is found at
    Contexts,     \* the material contexts of a Validation
    Payloads,     \* what the finalizers may be given
    Finalizers, Resolvers,
    MaxTime,      \* bound on the clock
    MaxBackdate,  \* how far behind the clock a payload's recorded_at may lie
    Digests,      \* orders the ids of replacement Decisions taken in one second
    None          \* Python's None

\* The answers a payload may get before the database is read.
Gates == {"TRANSPORT_POLICY_UNPROVEN", "FAILURE_UNCLASSIFIED"}

\* One observation of a payload, pay.by, may contradict the accepted Claim
\* pay.prior; pay.class is the failure_class it gives, pay.auth says that
\* --authorize-replacement named the prior Claim, pay.new and pay.old are the
\* evidence of the two sides, pay.ctx and pay.priorctx their contexts, and
\* pay.aligned that the two differ only where the replacement itself does.
PayloadSet ==
    [items : (SUBSET (Claims \ Lifecycles)) \ {{}}, by : Claims \cup {None},
     prior : Claims \cup {None}, class : {"TARGET_CHANGED", "PROFILE_INCORRECT", "OTHER"},
     auth : BOOLEAN, new : SUBSET Locators, old : SUBSET Locators,
     ctx : Contexts, priorctx : Contexts, aligned : BOOLEAN,
     proves : SUBSET Lifecycles,
     gate : {"PASS"} \cup Gates]

ASSUME ConstantsOK ==
    /\ IsFiniteSet(Claims)
    /\ Lifecycles \subseteq Observed /\ Observed \subseteq Claims /\ Exempt \subseteq Claims
    /\ None \notin Claims
    /\ Lifecycles \cap Exempt = {}
    /\ Deps \in [Lifecycles -> SUBSET (Claims \ Lifecycles)]
    /\ Rivals \in [Lifecycles -> SUBSET (Claims \ Lifecycles)]
    /\ Payloads \subseteq PayloadSet
    /\ \A pay \in Payloads : (pay.by = None) = (pay.prior = None)
    /\ None \notin Payloads
    /\ MaxTime \in Nat /\ MaxBackdate \in Nat /\ Digests \subseteq Nat

\* The id of a Claim digests its family, class, value and host, so two observed
\* Claims of one slot and one value are one Claim; and no payload may state a
\* lifecycle, whose only value here is OPERATIONAL.
ASSUME IdsOK ==
    /\ \A c, d \in Observed \ Lifecycles : Slot[c] = Slot[d] /\ Value[c] = Value[d] => c = d
    /\ \A l \in Lifecycles, c \in Claims : Slot[l] = Slot[c] => Value[l] = Value[c]

VARIABLES
    now,        \* the clock, in seconds
    owner,      \* claims: the Proposal each captured Claim belongs to, or {}
    support,    \* observations: per Claim and context, the evidence linked to it
    contras,    \* contradictions
    decisions,  \* decisions
    fin,        \* what each finalizer holds
    res         \* what each resolver holds

store == <<owner, support, contras, decisions>>
vars  == <<now, owner, support, contras, decisions, fin, res>>

-----------------------------------------------------------------------------
(* The views every reader derives from the tables. *)

Known == Visible(decisions, now)
Readable == Foldable(Known)
Accepted == Active(Known, now)
Token == Basis(Known, now)
Contradicted == Unresolved(Known, contras, now)

ClaimsOf(ow, prop) == {c \in Claims : ow[c] = prop}
Captured == {c \in Claims : owner[c] # {}}

\* A Proposal stays pending until every one of its Claims is settled.
Pending(ow) ==
    {prop \in {ow[c] : c \in Claims} \ {{}} :
        \E c \in ClaimsOf(ow, prop) : ~Settled(Known, c)}

PendingClaims == {c \in Claims : owner[c] \in Pending(owner)}

\* A lifecycle Claim is believed only while what proves it is accepted and
\* uncontradicted.
Trusted(l) == l \in Accepted /\ Deps[l] \subseteq Accepted /\ Deps[l] \cap Contradicted = {}
Operational == \E l \in Lifecycles : Trusted(l)

-----------------------------------------------------------------------------
(* What a finalizer concludes from its reads. *)

\* A finalizer that is not running holds only its last answer.
NoPlan == [pc |-> "idle", pay |-> None, rec |-> 0, delta |-> {}, match |-> {},
           rep |-> None, ready |-> FALSE, automatic |-> FALSE, life |-> {},
           token |-> {}, out |-> "NONE"]

\* The payload states a contradiction with the Claim it would replace.
Contradicts(pl) == pl.pay.by \in pl.delta

\* Replacement needs one new observation, alone, against one accepted Claim of
\* the same family and host, and no other pending Candidate.
ReplacementTarget(pl) ==
    IF /\ pl.delta = {pl.pay.by}
       /\ Pending(owner) \subseteq {pl.match}
       /\ {pl.pay.by, pl.pay.prior} \subseteq Observed
       /\ pl.pay.prior \in Accepted
       /\ Scope[pl.pay.prior] = Scope[pl.pay.by]
    THEN pl.pay.prior ELSE None

\* Mutant: any failure is cause enough.
CauseAssumed(pay) == pay.class \in {"TARGET_CHANGED", "PROFILE_INCORRECT", "OTHER"}
CauseProven(pay) ==
    pay.class = "TARGET_CHANGED" \/ (pay.class = "PROFILE_INCORRECT" /\ pay.auth)

Separate(new, old) == new # {} /\ old # {} /\ new \cap old = {}

\* The accepted Claim has one supporting Validation, under the same context.
Comparable(pay) ==
    pay.aligned /\ {x \in Contexts : support[pay.prior][x] # {}} = {pay.priorctx}

ReplacementReady(pay) ==
    CauseProven(pay) /\ Separate(pay.new, pay.old) /\ Comparable(pay)

\* An authorization the payload cannot use is refused before any write.
UselessAuthorization(pl, rep) ==
    pl.pay.auth /\ (pl.pay.class # "PROFILE_INCORRECT" \/ rep = None)

Differ(c, d) == Slot[c] = Slot[d] /\ Value[c] # Value[d]

\* Another value for the same slot, stated, accepted or pending, is a conflict.
\* Mutant: only the pending Candidates are looked at.
HasPendingConflict(delta) ==
    \E c \in delta \ Exempt : \E d \in (delta \ Exempt) \cup PendingClaims : Differ(c, d)
HasConflict(delta) ==
    \E c \in delta \ Exempt : \E d \in (delta \ Exempt) \cup Accepted \cup PendingClaims :
        Differ(c, d)

\* Mutant: whatever was stated without a contradiction is accepted.
AutomaticUnseen(pl) == ~HasConflict(pl.delta) /\ (pl.ready \/ ~Contradicts(pl))
Automatic(pl) ==
    /\ pl.delta \subseteq Observed
    /\ ~HasConflict(pl.delta)
    /\ pl.ready \/ ~Contradicts(pl)

\* The lifecycle Claims whose proof, transport and access facts now agree.
\* Mutant: a fact that is only pending counts as well.
ProvenByPending(pl) ==
    LET facts == (Accepted \cup PendingClaims \cup pl.delta) \ Contradicted
    IN  {l \in pl.pay.proves : Deps[l] \subseteq facts /\ Rivals[l] \cap facts = {}}
Proven(pl) ==
    LET facts == (Accepted \cup pl.delta) \ Contradicted
    IN  {l \in pl.pay.proves : Deps[l] \subseteq facts /\ Rivals[l] \cap facts = {}}

\* Mutant: every proof that could be meant is taken for the one meant.
EarnedLifecycles(pl) == IF Automatic(pl) /\ ~Operational THEN Proven(pl) ELSE {}
EarnedLifecycle(pl) ==
    IF Automatic(pl) /\ Cardinality(Proven(pl)) = 1 /\ ~Operational THEN Proven(pl) ELSE {}

-----------------------------------------------------------------------------
NoReview == [pc |-> "idle", prop |-> {}, token |-> {}, rec |-> 0]

Init ==
    /\ now = 0
    /\ owner = [c \in Claims |-> {}]
    /\ support = [c \in Claims |-> [x \in Contexts |-> {}]]
    /\ contras = {}
    /\ decisions = {}
    /\ fin = [p \in Finalizers |-> NoPlan]
    /\ res = [r \in Resolvers |-> NoReview]

Tick == now < MaxTime /\ now' = now + 1 /\ UNCHANGED <<store, fin, res>>

-----------------------------------------------------------------------------
(* The reads of finalize_discovery. *)

At(p, pc) == fin[p].pc = pc
Return(p, out) == fin' = [fin EXCEPT ![p] = [NoPlan EXCEPT !.out = out]]
ReadOnly == UNCHANGED <<now, store, res>>

\* The clock is read once, at the start; a payload may carry an earlier
\* recorded_at.
RecordedAhead(back) == now + back     \* mutant: a later one is let through
RecordedAt(back) == now - back

\* Some payloads are answered before the database is read.
Begin(p, pay, back) ==
    /\ At(p, "idle")
    /\ back <= now
    /\ ReadOnly
    /\ \/ /\ pay.gate # "PASS"
          /\ Return(p, pay.gate)
       \/ /\ pay.gate = "PASS"
          /\ fin' = [fin EXCEPT ![p] = [NoPlan EXCEPT
                 !.pc = "delta", !.pay = pay, !.rec = RecordedAt(back), !.out = "RUNNING"]]

\* Every read of the accepted view raises when the view cannot be folded.  The
\* conflict check spares some payloads the view, which may then go bad after it too.
ReadUnreadable(p) ==
    /\ fin[p].pc \in {"delta", "replacement", "conflict", "token"}
    /\ ~Readable
    /\ Return(p, "UNREADABLE")
    /\ ReadOnly

\* What the payload states and the accepted view does not.
Fresh(p) == fin[p].pay.items \ Accepted

\* The pending Proposal that states exactly these Claims.
Matching(fresh) == {prop \in Pending(owner) : ClaimsOf(owner, prop) = fresh}

NothingNew(p) ==
    /\ At(p, "delta") /\ Readable
    /\ Fresh(p) = {}
    /\ Return(p, "ALREADY_EXISTS")
    /\ ReadOnly

AlreadyPending(p) ==
    /\ At(p, "delta") /\ Readable
    /\ Fresh(p) # {}
    /\ Fresh(p) \subseteq PendingClaims /\ Matching(Fresh(p)) = {}
    /\ Return(p, "ALREADY_PENDING")
    /\ ReadOnly

\* A payload that repeats one whole pending Proposal resumes it; otherwise the
\* part that is pending already is left alone.
ReadDelta(p) ==
    /\ At(p, "delta") /\ Readable
    /\ ReadOnly
    /\ \/ \E prop \in Matching(Fresh(p)) :
             fin' = [fin EXCEPT ![p].pc = "replacement", ![p].delta = Fresh(p),
                                ![p].match = prop]
       \/ /\ ~(Fresh(p) \subseteq PendingClaims)
          /\ fin' = [fin EXCEPT ![p].pc = "replacement",
                                ![p].delta = Fresh(p) \ PendingClaims]

ReadReplacement(p) ==
    LET pl == fin[p]
        rep == ReplacementTarget(pl)
    IN  /\ At(p, "replacement") /\ Readable
        /\ ReadOnly
        /\ \/ /\ UselessAuthorization(pl, rep)
              /\ Return(p, "PAYLOAD_VALUE")
           \/ /\ ~UselessAuthorization(pl, rep)
              /\ fin' = [fin EXCEPT ![p].pc = "conflict", ![p].rep = rep,
                     ![p].ready = rep # None /\ ReplacementReady(pl.pay)]

ReadConflict(p) ==
    LET pl == fin[p]
    IN  /\ At(p, "conflict") /\ Readable
        /\ fin' = [fin EXCEPT ![p].pc = IF pl.ready THEN "token" ELSE "commit",
               ![p].automatic = Automatic(pl), ![p].life = EarnedLifecycle(pl)]
        /\ ReadOnly

\* A replacement is bound to the accepted view as it stands here.
ReadToken(p) ==
    /\ At(p, "token") /\ Readable
    /\ fin' = [fin EXCEPT ![p].pc = "commit", ![p].token = Token]
    /\ ReadOnly

-----------------------------------------------------------------------------
(* The transaction of finalize_discovery. *)

\* The Proposal written to, and the Claims whose rows are inserted.
ProposalOf(pl) == IF pl.match = {} THEN pl.delta ELSE pl.match
Inserted(pl)   == (IF pl.match = {} THEN pl.delta ELSE {}) \cup pl.life

\* A Claim id is inserted once: a second INSERT violates the primary key.
CollidesWhilePending(pl) == Inserted(pl) \cap PendingClaims # {}   \* mutant
Collides(pl) == Inserted(pl) \cap Captured # {}

\* Enrichment requires the Candidate to be pending still.
Resumable(pl) == pl.match = {} \/ pl.match \in Pending(owner)

OwnerAfter(pl) ==
    [c \in Claims |-> IF c \in Inserted(pl) THEN ProposalOf(pl) ELSE owner[c]]

\* Every Claim of the Proposal, the ones added to it later included.
Candidate(pl) == ClaimsOf(OwnerAfter(pl), ProposalOf(pl))

\* Evidence is linked to the observation made under the same context.
SupportAfter(pl) ==
    [c \in Claims |-> IF c \in pl.delta
        THEN [support[c] EXCEPT ![pl.pay.ctx] = @ \cup pl.pay.new] ELSE support[c]]

\* Enrichment reuses a recorded contradiction of the same Claim under the same
\* context and failure class, whichever Candidate it was recorded with.
Reusable(pl) ==
    {k \in contras : k.on = pl.rep /\ k.class = pl.pay.class /\ k.ctx = pl.pay.priorctx}

RecordsContradiction(pl) ==
    pl.rep # None /\ pl.pay.old # {} /\ (pl.match = {} => pl.pay.new # {})

ContrasAfter(pl) ==
    LET fresh == [by |-> pl.pay.by, on |-> pl.rep, class |-> pl.pay.class,
                  ctx |-> pl.pay.priorctx, ev |-> pl.pay.old, rec |-> pl.rec]
    IN  IF ~RecordsContradiction(pl) THEN {contras}
        ELSE IF pl.match = {} \/ Reusable(pl) = {} THEN {contras \cup {fresh}}
        ELSE {(contras \ {k}) \cup {[k EXCEPT !.ev = @ \cup pl.pay.old]} : k \in Reusable(pl)}

WriteCandidate(pl, K) ==
    /\ owner' = OwnerAfter(pl)
    /\ support' = SupportAfter(pl)
    /\ contras' = K

Decision(act, cs, rec, ord, from, to) ==
    [act |-> act, claims |-> cs, eff |-> rec, rec |-> rec, ord |-> ord,
     from |-> from, to |-> to]

\* Ids sort as discovery < reject < replace-<digest> < replace-<digest>:close.
AcceptanceLater(cs, rec) ==                   \* mutant: valid from the next second
    Decision("ACCEPT", cs, rec, 0, rec + 1, NoTime)
ClosingLate(c, rec, h) ==                     \* mutant: closed a second late
    Decision("SUPERSEDE", {c}, rec, 2 * h + 3, NoTime, rec + 1)
ClosingFirst(c, rec, h) ==                    \* mutant: its id sorts with a discovery's
    Decision("SUPERSEDE", {c}, rec, 0, NoTime, rec)
Acceptance(cs, rec)   == Decision("ACCEPT", cs, rec, 0, rec, NoTime)
Rejection(cs, rec)    == Decision("REJECT", cs, rec, 1, NoTime, NoTime)
Replacing(cs, rec, h) == Decision("ACCEPT_SUPERSEDE", cs, rec, 2 * h + 2, rec, NoTime)
Closing(c, rec, h)    == Decision("SUPERSEDE", {c}, rec, 2 * h + 3, NoTime, rec)

\* What replace_candidate checks under the write lock, by the error it raises.
\* K is the contradictions as the transaction has left them.
Objections(pl, K) ==
    LET mine     == {k \in K : k.by = pl.pay.by /\ k.on = pl.rep}
        newside  == UNION {SupportAfter(pl)[pl.pay.by][x] : x \in Contexts}
        oldside  == UNION {k.ev : k \in mine}
    IN  {code \in {"STALE", "NOT_ONE_CLAIM", "NO_CONTRADICTION", "NOT_SEPARATE",
                   "CONCURRENT_PENDING"} :
          \/ code = "STALE" /\ (Token # pl.token \/ pl.rep \notin Accepted)
          \/ code = "NOT_ONE_CLAIM" /\ Cardinality(Candidate(pl)) # 1
          \/ code = "NO_CONTRADICTION" /\ mine = {}
          \/ code = "NOT_SEPARATE" /\ newside \cap oldside # {}
          \/ code = "CONCURRENT_PENDING" /\ Pending(OwnerAfter(pl)) # {ProposalOf(pl)}}

\* An exception inside the transaction rolls the whole of it back.
RolledBack(p, out) == Return(p, out) /\ ReadOnly

CommitNotResumable(p) ==
    /\ At(p, "commit")
    /\ ~Resumable(fin[p])
    /\ RolledBack(p, "NOT_PENDING")

CommitCollision(p) ==
    /\ At(p, "commit")
    /\ Resumable(fin[p])
    /\ Collides(fin[p])
    /\ RolledBack(p, "INTEGRITY_ERROR")

CanWrite(p) == At(p, "commit") /\ Resumable(fin[p]) /\ ~Collides(fin[p])

\* Nothing may be accepted automatically: the Candidate is left pending.
CommitPending(p) ==
    LET pl == fin[p]
    IN  /\ CanWrite(p)
        /\ ~pl.automatic /\ ~pl.ready
        /\ \E K \in ContrasAfter(pl) :
             /\ WriteCandidate(pl, K)
             /\ Return(p, IF /\ pl.match # {}
                             /\ SupportAfter(pl) = support /\ K = contras
                          THEN "ALREADY_PENDING" ELSE "NOT_SAVED")
        /\ UNCHANGED <<now, decisions, res>>

CommitUnreadable(p) ==
    /\ CanWrite(p)
    /\ fin[p].automatic \/ fin[p].ready
    /\ ~Readable
    /\ RolledBack(p, "UNREADABLE")

\* promote_candidate: the Proposal's Claims are accepted together.
CommitPromotion(p) ==
    LET pl == fin[p]
    IN  /\ CanWrite(p)
        /\ pl.automatic /\ ~pl.ready
        /\ Readable
        /\ \E K \in ContrasAfter(pl) : WriteCandidate(pl, K)
        /\ decisions' = decisions \cup {Acceptance(Candidate(pl), pl.rec)}
        /\ Return(p, "SAVED")
        /\ UNCHANGED <<now, res>>

\* replace_candidate: the old Claim is closed and the new one accepted.
CommitReplacement(p, h) ==
    LET pl == fin[p]
    IN  /\ CanWrite(p)
        /\ pl.ready
        /\ Readable
        /\ \E K \in ContrasAfter(pl) :
             /\ Objections(pl, K) = {}
             /\ WriteCandidate(pl, K)
        /\ decisions' = decisions \cup
               {Closing(pl.rep, pl.rec, h), Replacing(Candidate(pl), pl.rec, h)}
        /\ Return(p, "SAVED")
        /\ UNCHANGED <<now, res>>

CommitRefused(p) ==
    LET pl == fin[p]
    IN  /\ CanWrite(p)
        /\ pl.ready
        /\ Readable
        /\ \E K \in ContrasAfter(pl) : \E code \in Objections(pl, K) : RolledBack(p, code)

\* The process dies, or the database stays locked: nothing was committed.
Abort(p) ==
    /\ ~At(p, "idle")
    /\ Return(p, "ERROR")
    /\ ReadOnly

-----------------------------------------------------------------------------
(* knowledge-resolve: read the token, check it again, reject under the lock. *)

ReadReview(r, prop) ==
    /\ res[r].pc = "idle"
    /\ prop \in {owner[c] : c \in Captured}
    /\ Readable
    /\ res' = [res EXCEPT ![r] =
                  [pc |-> "check", prop |-> prop, token |-> Token, rec |-> now]]
    /\ UNCHANGED <<now, store, fin>>

EndReview(r) == res' = [res EXCEPT ![r] = NoReview] /\ UNCHANGED <<now, store, fin>>

CheckReview(r) ==
    /\ res[r].pc = "check"
    /\ Readable /\ res[r].token = Token
    /\ res' = [res EXCEPT ![r].pc = "commit"]
    /\ UNCHANGED <<now, store, fin>>

RejectableAgain(rv) == Readable /\ rv.token = Token  \* mutant: decided or not
Rejectable(rv) == Readable /\ rv.token = Token /\ rv.prop \in Pending(owner)

CommitRejection(r) ==
    LET rv == res[r]
    IN  /\ rv.pc = "commit"
        /\ Rejectable(rv)
        /\ decisions' = decisions \cup {Rejection(ClaimsOf(owner, rv.prop), rv.rec)}
        /\ res' = [res EXCEPT ![r] = NoReview]
        /\ UNCHANGED <<now, owner, support, contras, fin>>

RefuseRejection(r) ==
    /\ \/ res[r].pc = "check" /\ ~(Readable /\ res[r].token = Token)
       \/ res[r].pc = "commit" /\ ~Rejectable(res[r])
    /\ EndReview(r)

AbortReview(r) == res[r].pc # "idle" /\ EndReview(r)

-----------------------------------------------------------------------------
Finalize(p) ==
    \/ \E pay \in Payloads, back \in 0..MaxBackdate : Begin(p, pay, back)
    \/ ReadUnreadable(p) \/ NothingNew(p) \/ AlreadyPending(p) \/ ReadDelta(p)
    \/ ReadReplacement(p) \/ ReadConflict(p) \/ ReadToken(p)
    \/ CommitNotResumable(p) \/ CommitCollision(p) \/ CommitPending(p)
    \/ CommitUnreadable(p) \/ CommitPromotion(p)
    \/ \E h \in Digests : CommitReplacement(p, h)
    \/ CommitRefused(p) \/ Abort(p)

Resolve(r) ==
    \/ \E prop \in SUBSET Claims : ReadReview(r, prop)
    \/ CheckReview(r) \/ CommitRejection(r) \/ RefuseRejection(r) \/ AbortReview(r)

Next ==
    \/ Tick
    \/ \E p \in Finalizers : Finalize(p)
    \/ \E r \in Resolvers : Resolve(r)

Spec == Init /\ [][Next]_vars

-----------------------------------------------------------------------------
(* Properties. *)

ContraSet ==
    [by : Claims, on : Claims, class : {"TARGET_CHANGED", "PROFILE_INCORRECT", "OTHER"},
     ctx : Contexts, ev : SUBSET Locators, rec : Nat]

DecisionSet ==
    [act : OpeningActions \cup {"SUPERSEDE", "REJECT"}, claims : SUBSET Claims,
     eff : Nat, rec : Nat, ord : Nat, from : Nat \cup {NoTime}, to : Nat \cup {NoTime}]

Answers ==
    {"NONE", "RUNNING", "SAVED", "ALREADY_EXISTS", "ALREADY_PENDING", "NOT_SAVED",
     "PAYLOAD_VALUE", "UNREADABLE", "NOT_PENDING", "INTEGRITY_ERROR", "STALE",
     "NOT_ONE_CLAIM", "NO_CONTRADICTION", "NOT_SEPARATE", "CONCURRENT_PENDING",
     "ERROR"} \cup Gates

PlanSet ==
    [pc : {"idle", "delta", "replacement", "conflict", "token", "commit"},
     pay : Payloads \cup {None}, rec : Nat, delta : SUBSET Claims, match : SUBSET Claims,
     rep : Claims \cup {None}, ready : BOOLEAN, automatic : BOOLEAN,
     life : SUBSET Lifecycles, token : SUBSET (Claims \X DecisionSet), out : Answers]

ReviewSet ==
    [pc : {"idle", "check", "commit"}, prop : SUBSET Claims,
     token : SUBSET (Claims \X DecisionSet), rec : Nat]

\* Every variable has its type, and nothing is recorded ahead of the clock: a
\* later recorded_at would hide a Decision from the reads that follow it
\* (finalize_discovery refuses it).
TypeOK ==
    /\ now \in Nat
    /\ owner \in [Claims -> SUBSET Claims]
    /\ support \in [Claims -> [Contexts -> SUBSET Locators]]
    /\ contras \subseteq ContraSet
    /\ decisions \subseteq DecisionSet
    /\ fin \in [Finalizers -> PlanSet]
    /\ res \in [Resolvers -> ReviewSet]
    /\ \A d \in decisions : d.rec <= now
    /\ \A k \in contras : k.rec <= now
    /\ \A p \in Finalizers : fin[p].rec <= now /\ (fin[p].pc = "idle" <=> fin[p].pay = None)
    /\ \A r \in Resolvers : res[r].rec <= now

SettleActions == OpeningActions \cup {"REJECT"}

\* However finalizers and resolvers interleave, a Claim is accepted or rejected
\* by one Decision only, and that Decision names every Claim of its Proposal
\* (promote_candidate, replace_candidate, reject_candidate).
SettledOnce ==
    \A d \in decisions : d.act \in SettleActions =>
        /\ \A c \in d.claims : d.claims = ClaimsOf(owner, owner[c])
        /\ \A e \in decisions : e.act \in SettleActions /\ e # d => d.claims \cap e.claims = {}

\* Nothing but direct observation reaches the accepted view, although the class
\* of a Claim is looked at in a plan that may be stale when it is carried out
\* (finalize_discovery, "automatic").
OnlyObservedAccepted == Accepted \subseteq Observed

\* An accepted Claim is closed only by the one Claim that replaces it, on record
\* as contradicting it, and for a cause on record that may replace it.  Enrichment
\* may have added that cause to another Candidate's contradiction of the Claim,
\* so it need not stand in the record of the Claim that replaces it
\* (_replacement_cause_proven, replace_candidate, matching_observation).
SupersededForCause ==
    \A x \in decisions : x.act = "SUPERSEDE" =>
        \E d \in decisions, k, j \in contras :
            /\ d.act = "ACCEPT_SUPERSEDE" /\ d.eff = x.eff /\ d.rec = x.rec
            /\ x.claims = {k.on} /\ d.claims = {k.by}
            /\ j.on = k.on /\ j.ev # {} /\ j.class # "OTHER"

\* A lifecycle Claim is accepted only after, or together with, the proof and the
\* facts it rests on: facts that are merely pending never earn it
\* (_operational_proof_dependencies).
LifecycleFounded ==
    \A l \in Lifecycles : Openers(decisions, l) # {} =>
        \A c \in Deps[l] : Openers(decisions, c) # {}

\* The fate of a Claim, read off the Decisions without any clock.
StatusOf(c) ==
    IF owner[c] = {} THEN "absent"
    ELSE IF ~Settled(decisions, c) THEN "pending"
    ELSE IF Openers(decisions, c) = {} THEN "rejected"
    ELSE IF Closers(decisions, c) # {} THEN "superseded" ELSE "accepted"

\* The view folded from intervals and timestamps is the one the Decisions say,
\* whatever recorded_at they carry, as long as it can be folded at all
\* (SQLiteOperationalMemory.projection, get_pending_candidates).
ViewAgrees ==
    /\ Readable => Accepted = {c \in Claims : StatusOf(c) = "accepted"}
    /\ PendingClaims = {c \in Claims : StatusOf(c) = "pending"}

\* A finalizer that answers SAVED has left all it planned to save in the view of
\* the very next lookup, if that view can be read (finalize_discovery, SAVED).
SavedIsVisible ==
    [][\A p \in Finalizers :
         /\ fin[p].pc = "commit"
         /\ fin'[p].out = "SAVED"
         /\ Readable'
         => fin[p].delta \cup fin[p].life \subseteq Accepted' \ PendingClaims']_vars

\* Two accepted Claims never state different values for one slot, in any view
\* that can be read (_has_conflict, replace_candidate).
ExclusiveSlots ==
    Readable => \A c, d \in Accepted \ Exempt : ~Differ(c, d)

\* At most one way to operate is believed at any time, so the lifecycle that
\* lookup reports has one reproducible path behind it
\* (_operational_proof_dependencies, MULTIPLE_ELIGIBLE_PROOFS).
OneOperationalPath ==
    Readable => \A l, m \in Lifecycles : Trusted(l) /\ Trusted(m) => l = m

\* What the two rest on, as nothing is checked again under the write lock: only
\* one finalizer runs at a time, and, for the first, what replaces a Claim fills
\* the slot that the Claim leaves.
OneFinalizer == \A p, q \in Finalizers : p = q
ReplacesInKind ==
    \A pay \in Payloads : pay.by # None =>
        /\ Slot[pay.by] = Slot[pay.prior]
        /\ pay.prior \in Exempt => pay.by \in Exempt

Book == INSTANCE ClaimBook WITH status <- [c \in Claims |-> StatusOf(c)]

\* Every step of every process is a step of the promise in ClaimBook.
KeepsTheBook == Book!BookSpec

-----------------------------------------------------------------------------
(* What the documents say without a condition and the code keeps only under  *)
(* one: the run v_backdate has the counterexample README.md describes.       *)

\* SAVED says that the knowledge is available to lookup: the view can be read
\* (docs/operational-memory.md; replace_candidate, projection).
SavedIsReadable == (\E p \in Finalizers : fin[p].out = "SAVED") => Readable

\* When it is kept after all, besides OneFinalizer: no payload is dated back, and
\* replacements of one second have ids that sort alike, so that the close of a
\* Claim sorts after the replacement that opened it.
OnTime == MaxBackdate = 0 /\ \A h, i \in Digests : h = i
=============================================================================
