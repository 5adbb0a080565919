------------------------------- MODULE Lookup -------------------------------
(***************************************************************************)
(* A lookup of one capability while others write (integration_bridge.py,   *)
(* core.py, scripts/knowledge-lookup).                                     *)
(*                                                                         *)
(* The memory is that of ClaimBook, which Finalization implements, with    *)
(* the writes of WriteScope around it: target Home has the capability that *)
(* is looked up, and the reader asks for it by its id or by the hostname.  *)
(* Nothing holds a transaction open for the reader: it resolves the target *)
(* again for each part of its reply, and reads each part as it is by then. *)
(***************************************************************************)
EXTENDS ClaimBook, WriteScope

CONSTANTS Home

ASSUME ConstantsOK == Home \in Targets

VARIABLES
    look,        \* what the reader holds, and its reply
    steady       \* the Claims whose status has not changed since it began

vars == <<owner, status, scope, look, steady>>

Waiting ==
    [pc |-> "idle", by |-> "id", about |-> {}, current |-> {}, todo |-> {},
     pending |-> {}, out |-> "none"]

Init ==
    /\ BookInit /\ ScopeInit
    /\ look = Waiting /\ steady = {}

Unread == UNCHANGED <<look, steady>>
Book == <<owner, status>>

-----------------------------------------------------------------------------
(* Writers. *)

Plans(w, t, names) == Plan(w, t, names) /\ UNCHANGED Book /\ Unread
Starts(w) == StartWrite(w) /\ UNCHANGED Book /\ Unread
Leaves(w) == Leave(w) /\ UNCHANGED Book /\ Unread

\* A command of another target writes elsewhere.  A host row is only created with
\* Claims that were not recorded before.
Writes(w) ==
    /\ Commit(w)
    /\ IF writer[w].target # Home THEN UNCHANGED Book
       ELSE BookStep /\ Changes /\ (writer[w].creates => owner' # owner)
    /\ steady' = {c \in steady : status'[c] = status[c]}
    /\ UNCHANGED look

Freezes == (EnableFreeze \/ DisableFreeze) /\ UNCHANGED Book /\ Unread

-----------------------------------------------------------------------------
(* The reader. *)

\* resolve_target: an id must exist, a hostname must match exactly one target.
\* Mutant: the first match is taken.
ResolvesFirst(by) ==
    IF by = "id" THEN {Home} \cap scoped
    ELSE {t \in assoc : t = CHOOSE u \in assoc : TRUE}
Resolves(by) ==
    IF by = "id" THEN {Home} \cap scoped
    ELSE {t \in assoc : assoc = {t}}

Goes(pc) == look' = [look EXCEPT !.pc = pc, !.about = @ \cup Resolves(look.by)]
Replies(out) == look' = [look EXCEPT !.pc = "idle", !.out = out]

\* An unknown target ends the lookup.
Begin(by) ==
    /\ look = Waiting
    /\ look' = [Waiting EXCEPT !.by = by, !.about = Resolves(by),
                    !.pc = IF Resolves(by) = {} THEN "idle" ELSE "capability",
                    !.out = IF Resolves(by) = {} THEN "not_found" ELSE "none"]
    /\ steady' = Claims
    /\ UNCHANGED <<Book, scope>>

Reads(pc) == look.pc = pc /\ UNCHANGED <<Book, scope, steady>>

\* The reference means no target, or one without the capability: an absence to the
\* second step, an error to all later ones.
Lost == Resolves(look.by) # {Home}

ResolveCapability ==
    /\ Reads("capability")
    /\ IF Lost THEN Replies("not_found") ELSE Goes("view")

\* get_current: one statement reads all Decisions.  Mutant: a Claim that was
\* accepted once stays current.
EverAccepted == {c \in Claims : status[c] \in {"accepted", "superseded"}}
Accepted == {c \in Claims : status[c] = "accepted"}

View ==
    /\ Reads("view")
    /\ IF Lost THEN Replies("bridge_error")
       ELSE look' = [look EXCEPT !.pc = "proposals", !.about = @ \cup Resolves(look.by),
                                 !.current = Accepted]

\* get_pending_candidates lists the Proposals, then asks of each whether it is
\* decided.  Its Claims are looked at one by one, but a Decision names them all.
ListProposals ==
    /\ Reads("proposals")
    /\ IF Lost THEN Replies("bridge_error")
       ELSE look' = [look EXCEPT !.pc = "pending", !.about = @ \cup Resolves(look.by),
                                 !.todo = {owner[c] : c \in Claims} \ {{}}]

\* Mutant: only a rejection decides.
NotRejected(prop) == \E c \in Members(prop) : status[c] # "rejected"
Undecided(prop) == \E c \in Members(prop) : status[c] = "pending"

ReadProposal(prop) ==
    /\ Reads("pending") /\ prop \in look.todo
    /\ look' = [look EXCEPT !.todo = @ \ {prop},
                            !.pending = IF Undecided(prop) THEN @ \cup Members(prop) ELSE @]

\* The context and render_markdown resolve once more each; without accepted Claims
\* nothing is rendered.
Render ==
    /\ Reads("pending") /\ look.todo = {}
    /\ IF Lost THEN Replies("bridge_error")
       ELSE look' = [look EXCEPT !.pc = "idle", !.about = @ \cup Resolves(look.by),
                                 !.out = IF look.current = {} THEN "not_found" ELSE "found"]

-----------------------------------------------------------------------------
Read ==
    \/ ResolveCapability \/ View \/ ListProposals \/ Render
    \/ \E prop \in look.todo : ReadProposal(prop)

Next ==
    \/ \E w \in Writers, t \in Targets, names \in BOOLEAN : Plans(w, t, names)
    \/ \E w \in Writers : Starts(w) \/ Writes(w) \/ Leaves(w)
    \/ Freezes
    \/ \E by \in {"id", "host"} : Begin(by)
    \/ Read

Spec == Init /\ [][Next]_vars

-----------------------------------------------------------------------------
(* Properties. *)

TypeOK ==
    /\ ScopeTypeOK
    /\ owner \in [Claims -> SUBSET Claims] /\ status \in [Claims -> Statuses]
    /\ look \in [pc : {"idle", "capability", "view", "proposals", "pending"},
                 by : {"id", "host"}, about : SUBSET Targets,
                 current : SUBSET Claims, todo : SUBSET SUBSET Claims,
                 pending : SUBSET Claims,
                 out : {"none", "found", "not_found", "bridge_error"}]
    /\ steady \subseteq Claims

\* However often the reference is resolved and whatever is associated meanwhile, a
\* reply is about one target (resolve_target, KnowledgeLookupBoundary.lookup).
OneTargetPerReply == \A t, u \in look.about : t = u

\* No Claim is both current and pending in one reply, although the two parts are
\* read at different times (render_operational_context).
NeverInTwoParts == look.current \cap look.pending = {}

\* Whatever did not change while the lookup ran is reported as it is, in the part
\* it belongs to and in no other, except by a hostname that is not Home's alone
\* (render_operational_context, get_pending_candidates).
Answered == look.out \in {"found", "not_found"}
SteadyIsReported ==
    Answered /\ (look.by = "id" \/ ({Home} = assoc /\ {Home} = look.about)) =>
        \A c \in steady :
            /\ c \in look.current <=> status[c] = "accepted"
            /\ c \in look.pending <=> status[c] = "pending"

\* Once the freeze is on, the only writes still to come are those of commands that
\* had passed the check before, one each (write_transaction,
\* assert_knowledge_writes_allowed).
FreezeHolds ==
    [][frozen => \/ UNCHANGED <<Book, scoped, assoc>>
                 \/ \E w \in Writers :
                      At(w, "begun") /\ writer[w].late /\ writer'[w] = Idle]_vars
=============================================================================
