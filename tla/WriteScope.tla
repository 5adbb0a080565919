----------------------------- MODULE WriteScope -----------------------------
(***************************************************************************)
(* What surrounds a write to Operational Memory: the plan that associates  *)
(* a hostname with a target (discovery_finalize.py, _host_plan), the write *)
(* freeze (knowledge_write_freeze.py) and the transaction that creates the *)
(* missing rows (om_native_writes.py, capture_candidate).                  *)
(*                                                                         *)
(* The plan and the look at the freeze marker both come before the write   *)
(* lock, and neither is repeated under it.                                 *)
(***************************************************************************)
CONSTANTS
    Targets,
    Writers      \* commands that write: finalizers and reviewers

VARIABLES
    scoped,      \* the targets that have rows of their own
    assoc,       \* the targets whose host rows name the hostname
    frozen,      \* whether the freeze marker is there
    writer,      \* what every command holds
    overlapped   \* whether a stale plan has given a hostname to a second target

scope == <<scoped, assoc, frozen, writer, overlapped>>

\* A command is planned once it has read its host plan, and begun once it has
\* seen no freeze marker.  stale: another command has associated the hostname
\* since the plan was read; late: the freeze came after the command had begun.
WriterSet ==
    [pc : {"planned", "begun"}, target : Targets, creates : BOOLEAN,
     stale : BOOLEAN, late : BOOLEAN]

Idle == [pc |-> "idle"]

ScopeInit ==
    /\ scoped = {} /\ assoc = {}
    /\ frozen = FALSE /\ overlapped = FALSE
    /\ writer = [w \in Writers |-> Idle]

At(w, pc) == writer[w].pc = pc
Rests(w) == writer' = [writer EXCEPT ![w] = Idle]

-----------------------------------------------------------------------------
\* A hostname of another target is refused where the caller can still correct it.
PermitsAny(t) == TRUE                       \* mutant: the refusal is dropped
Permits(t) == t \in assoc \/ assoc = {}

\* A command that states something of target t, and may name the hostname.
Plan(w, t, names) ==
    /\ At(w, "idle")
    /\ names => Permits(t)
    /\ writer' = [writer EXCEPT ![w] =
                    [pc |-> "planned", target |-> t, creates |-> names /\ t \notin assoc,
                     stale |-> FALSE, late |-> FALSE]]
    /\ UNCHANGED <<scoped, assoc, frozen, overlapped>>

\* write_transaction looks for the marker first.
AllowsFrozen == TRUE                        \* mutant: nobody looks
Allows == ~frozen

StartWrite(w) ==
    /\ At(w, "planned")
    /\ \/ Allows /\ writer' = [writer EXCEPT ![w].pc = "begun"]
       \/ ~Allows /\ Rests(w)                             \* KnowledgeWriteFrozenError
    /\ UNCHANGED <<scoped, assoc, frozen, overlapped>>

\* Mutant: the rows of a new target are left out.
NoRows(t) == {}
MissingRows(t) == {t}

\* BEGIN IMMEDIATE to the commit: the target's rows, and the host row of the plan.
Commit(w) ==
    LET t == writer[w].target IN
    /\ At(w, "begun")
    /\ scoped' = scoped \cup MissingRows(t)
    /\ IF writer[w].creates
       THEN /\ assoc' = assoc \cup {t}
            /\ overlapped' = (overlapped \/ (writer[w].stale /\ assoc \ {t} # {}))
            /\ writer' = [v \in Writers |->
                 IF v = w \/ At(v, "idle") THEN Idle
                 ELSE [writer[v] EXCEPT !.stale = writer[v].creates]]
       ELSE Rests(w) /\ UNCHANGED <<assoc, overlapped>>
    /\ UNCHANGED frozen

\* An early answer, a rollback, a lock timeout or a crash.
Leave(w) ==
    /\ ~At(w, "idle") /\ Rests(w)
    /\ UNCHANGED <<scoped, assoc, frozen, overlapped>>

EnableFreeze ==
    /\ ~frozen /\ frozen' = TRUE
    /\ writer' = [w \in Writers |->
                    IF At(w, "begun") THEN [writer[w] EXCEPT !.late = TRUE] ELSE writer[w]]
    /\ UNCHANGED <<scoped, assoc, overlapped>>

DisableFreeze ==
    /\ frozen /\ frozen' = FALSE
    /\ writer' = [w \in Writers |->
                    IF At(w, "begun") THEN [writer[w] EXCEPT !.late = FALSE] ELSE writer[w]]
    /\ UNCHANGED <<scoped, assoc, overlapped>>

-----------------------------------------------------------------------------
ScopeTypeOK ==
    /\ assoc \subseteq scoped /\ scoped \subseteq Targets
    /\ frozen \in BOOLEAN /\ overlapped \in BOOLEAN
    /\ writer \in [Writers -> WriterSet \cup {Idle}]

\* A hostname is never associated with two targets, unless commands of both had
\* planned before either committed: only that race makes a hostname unresolvable
\* (_host_plan).
HostsUnambiguous == (\E t, u \in assoc : t # u) => overlapped
=============================================================================
