---------------------------- MODULE LookupProofs ----------------------------
(***************************************************************************)
(* What a reply of knowledge-lookup can be trusted with, for any number of *)
(* targets, Claims and writing commands, although the reader resolves its  *)
(* target and reads the memory several times while they write.             *)
(*                                                                         *)
(* Four groups of facts make the invariant: those of the book (a recorded  *)
(* Claim stays recorded, a Proposal is pending as a whole), those of the   *)
(* scope (a plan that is not stale found the hostname unassociated), those *)
(* of the freeze, and those of the reader (what it has collected of a      *)
(* Claim that did not change is what that Claim still is).                 *)
(***************************************************************************)
EXTENDS Lookup, TLAPS

-----------------------------------------------------------------------------
(* The book. *)

BookOK ==
    /\ owner \in [Claims -> SUBSET Claims] /\ status \in [Claims -> Statuses]
    /\ \A c \in Claims : owner[c] = {} <=> status[c] = "absent"
    /\ \A c, d \in Claims : owner[c] # {} /\ owner[c] = owner[d] /\ status[c] = "pending" =>
           status[d] = "pending"

LEMMA BookStarts == BookInit => BookOK
  BY DEF BookInit, BookOK, Statuses

\* What the steps of the book have in common: unrecorded Claims T join the undecided
\* Proposal prop, of which all Claims become new; no other Claim changes, but for one
\* that is superseded.
Moves(prop, T, new) ==
    /\ prop \in SUBSET Claims /\ prop # {}
    /\ T \subseteq {c \in Claims : status[c] = "absent"}
    /\ new \in {"pending", "accepted", "rejected"}
    /\ \A c \in Members(prop) : status[c] = "pending"
    /\ owner' = [c \in Claims |-> IF c \in T THEN prop ELSE owner[c]]
    /\ status' \in [Claims -> Statuses]
    /\ \A c \in Members(prop) \cup T : status'[c] = new
    /\ \A c \in Claims \ (Members(prop) \cup T) :
           \/ status'[c] = status[c]
           \/ status[c] = "accepted" /\ status'[c] = "superseded"

LEMMA BookMoves ==
    ASSUME BookOK, BookStep
    PROVE  \E prop, T, new : Moves(prop, T, new)
<1>1. PICK prop \in SUBSET Claims, S \in SUBSET {c \in Claims : status[c] = "absent"} :
         \/ Record(prop, S) \/ Accept(prop, S)
         \/ \E old \in Claims : Replace(prop, S, old)
         \/ Reject(prop)
  BY DEF BookStep
<1> USE DEF Joins, Members, Statuses, BookOK
<1>2. CASE Record(prop, S)
  <2>1. Moves(prop, S, "pending")
    BY <1>2 DEF Record, Moves
  <2> QED BY <2>1
<1>3. CASE Accept(prop, S)
  <2>1. Moves(prop, S, "accepted")
    BY <1>3 DEF Accept, Moves
  <2> QED BY <2>1
<1>4. CASE \E old \in Claims : Replace(prop, S, old)
  <2>1. PICK old \in Claims, new \in Claims :
          /\ Joins(prop, S) /\ status[old] = "accepted" /\ Members(prop) \cup S = {new}
          /\ status' = [status EXCEPT ![new] = "accepted", ![old] = "superseded"]
    BY <1>4 DEF Replace
  <2>2. new # old
    BY <2>1
  <2>3. /\ \A c \in Members(prop) \cup S : status'[c] = "accepted"
        /\ \A c \in Claims \ (Members(prop) \cup S) :
               \/ status'[c] = status[c]
               \/ status[c] = "accepted" /\ status'[c] = "superseded"
        /\ status' \in [Claims -> Statuses]
    BY <2>1, <2>2
  <2>4. Moves(prop, S, "accepted")
    BY <2>1, <2>3 DEF Moves
  <2> QED BY <2>4
<1>5. CASE Reject(prop)
  <2>1. Moves(prop, {}, "rejected")
    BY <1>5 DEF Reject, Moves
  <2> QED BY <2>1
<1> QED
  BY <1>1, <1>2, <1>3, <1>4, <1>5

\* What becomes of a Claim in one step.
Onward ==
    \A c \in Claims :
        /\ owner[c] # {} => owner'[c] = owner[c]
        /\ status[c] \in {"accepted", "superseded"} => status'[c] \in {"accepted", "superseded"}

LEMMA BookSteps ==
    ASSUME BookOK, BookStep
    PROVE  BookOK' /\ Onward
<1>1. PICK prop, T, new : Moves(prop, T, new)
  BY BookMoves
<1> DEFINE M == Members(prop) \cup T
<1>2. /\ \A c \in T : c \in Claims /\ owner[c] = {}
      /\ owner' = [c \in Claims |-> IF c \in T THEN prop ELSE owner[c]] /\ prop # {}
      /\ prop \in SUBSET Claims
  BY <1>1 DEF Moves, BookOK
<1>3. \A c \in Claims : owner'[c] = prop <=> c \in M
  BY <1>2 DEF Members
<1>4. \A c \in Claims : c \notin M => owner'[c] = owner[c]
  BY <1>2
<1>5. \A c \in M : c \in Claims /\ status[c] \in {"pending", "absent"}
  BY <1>1, <1>2 DEF Moves, Members
<1>6. /\ new \in {"pending", "accepted", "rejected"} /\ status' \in [Claims -> Statuses]
      /\ \A c \in M : status'[c] = new
      /\ \A c \in Claims \ M :
            \/ status'[c] = status[c]
            \/ status[c] = "accepted" /\ status'[c] = "superseded"
  BY <1>1 DEF Moves
<1>7. owner' \in [Claims -> SUBSET Claims]
  BY <1>2 DEF BookOK
<1> HIDE DEF M
<1>8. \A c \in Claims : owner'[c] = {} <=> status'[c] = "absent"
  BY <1>2, <1>3, <1>4, <1>6 DEF BookOK
<1>9. ASSUME NEW c \in Claims, NEW d \in Claims, owner'[c] # {}, owner'[c] = owner'[d],
             status'[c] = "pending"
      PROVE  status'[d] = "pending"
  <2>1. CASE c \in M
    BY <1>3, <1>6, <1>9, <2>1
  <2>2. CASE c \notin M
    <3>1. d \notin M /\ owner[c] = owner[d] /\ owner[c] # {} /\ status[c] = "pending"
      BY <1>3, <1>4, <1>6, <1>9, <2>2
    <3> QED BY <1>6, <3>1 DEF BookOK
  <2> QED BY <2>1, <2>2
<1>10. Onward
  BY <1>2, <1>4, <1>5, <1>6 DEF Onward
<1> QED
  BY <1>6, <1>7, <1>8, <1>9, <1>10 DEF BookOK
-----------------------------------------------------------------------------
(* The scope and the freeze. *)

\* A plan that is not stale found the hostname unassociated, and so it still is.
FreshPlans ==
    \A w \in Writers : ~At(w, "idle") /\ writer[w].creates /\ ~writer[w].stale => assoc = {}

\* Whoever has begun and is not late is not met by a freeze.
LateWriters == frozen => \A w \in Writers : At(w, "begun") => writer[w].late

ScopeInv == ScopeTypeOK /\ HostsUnambiguous /\ FreshPlans /\ LateWriters

ScopeStep ==
    \/ \E w \in Writers, t \in Targets, names \in BOOLEAN : Plan(w, t, names)
    \/ \E w \in Writers : StartWrite(w) \/ Commit(w) \/ Leave(w)
    \/ EnableFreeze \/ DisableFreeze

LEMMA ScopeStarts == ScopeInit => ScopeInv
  BY DEF ScopeInit, ScopeInv, ScopeTypeOK, HostsUnambiguous, FreshPlans, LateWriters, At, Idle

LEMMA CommitScope ==
    ASSUME ScopeInv, NEW w \in Writers, Commit(w)
    PROVE  ScopeInv'
<1> DEFINE t == writer[w].target
<1>1. /\ writer \in [Writers -> WriterSet \cup {Idle}] /\ writer[w] \in WriterSet /\ t \in Targets
      /\ At(w, "begun")
  BY DEF Commit, ScopeInv, ScopeTypeOK, At, Idle, WriterSet
<1>2. CASE writer[w].creates
  <2>1. /\ assoc' = assoc \cup {t} /\ scoped' = scoped \cup {t}
        /\ overlapped' = (overlapped \/ (writer[w].stale /\ assoc \ {t} # {}))
        /\ frozen' = frozen
    BY <1>2 DEF Commit, MissingRows
  <2>2. \A v \in Writers : writer'[v] = IF v = w \/ At(v, "idle") THEN Idle
                                ELSE [writer[v] EXCEPT !.stale = writer[v].creates]
    BY <1>2 DEF Commit
  <2>3. ASSUME NEW v \in Writers, v # w, ~At(v, "idle")
        PROVE  /\ writer'[v] \in WriterSet /\ writer'[v].pc = writer[v].pc
               /\ writer'[v].late = writer[v].late
               /\ ~(writer'[v].creates /\ ~writer'[v].stale)
    <3>1. writer[v] \in WriterSet
      BY <1>1, <2>3 DEF At, Idle
    <3> QED BY <2>2, <2>3, <3>1 DEF WriterSet
  <2>4. ScopeTypeOK'
    <3>1. writer' \in [Writers -> WriterSet \cup {Idle}]
      <4>1. \A v \in Writers : writer'[v] \in WriterSet \cup {Idle}
        BY <2>2, <2>3
      <4>2. writer' = [v \in Writers |-> IF v = w \/ At(v, "idle") THEN Idle
                            ELSE [writer[v] EXCEPT !.stale = writer[v].creates]]
        BY <1>2 DEF Commit
      <4> QED BY <4>1, <4>2
    <3> QED BY <1>1, <2>1, <3>1 DEF ScopeInv, ScopeTypeOK, WriterSet
  <2>5. HostsUnambiguous'
    BY <1>1, <1>2, <2>1 DEF ScopeInv, FreshPlans, HostsUnambiguous, At, ScopeTypeOK, WriterSet
  <2>6. FreshPlans' /\ LateWriters'
    <3>1. \A v \in Writers : v = w \/ At(v, "idle") => writer'[v].pc = "idle"
      <4>1. \A v \in Writers : v = w \/ At(v, "idle") => writer'[v] = Idle
        BY <2>2
      <4>2. Idle.pc = "idle"
        BY DEF Idle
      <4> QED BY <4>1, <4>2
    <3> QED BY <2>1, <2>3, <3>1 DEF FreshPlans, LateWriters, ScopeInv, At
  <2> QED BY <2>4, <2>5, <2>6 DEF ScopeInv
<1>3. CASE ~writer[w].creates
  <2>1. /\ assoc' = assoc /\ overlapped' = overlapped /\ scoped' = scoped \cup {t}
        /\ frozen' = frozen /\ writer' = [writer EXCEPT ![w] = Idle]
    BY <1>3 DEF Commit, MissingRows, Rests
  <2> QED
    BY <1>1, <2>1 DEF ScopeInv, ScopeTypeOK, HostsUnambiguous, FreshPlans, LateWriters, At, Idle
<1> QED
  BY <1>2, <1>3

LEMMA ScopeSteps ==
    ASSUME ScopeInv, ScopeStep
    PROVE  ScopeInv' /\ scoped \subseteq scoped' /\ assoc \subseteq assoc'
<1> USE DEF ScopeInv, ScopeTypeOK, HostsUnambiguous, FreshPlans, LateWriters, At
<1>1. ASSUME NEW w \in Writers, NEW t \in Targets, NEW names \in BOOLEAN, Plan(w, t, names)
      PROVE  ScopeInv' /\ scoped' = scoped /\ assoc' = assoc
  <2> DEFINE new == [pc |-> "planned", target |-> t, creates |-> names /\ t \notin assoc,
                     stale |-> FALSE, late |-> FALSE]
  <2>1. new \in WriterSet /\ new.pc = "planned" /\ (new.creates => assoc = {})
    BY <1>1 DEF WriterSet, Plan, Permits
  <2>2. writer' = [writer EXCEPT ![w] = new] /\ UNCHANGED <<scoped, assoc, frozen, overlapped>>
    BY <1>1 DEF Plan
  <2> HIDE DEF new
  <2> QED BY <2>1, <2>2
<1>2. ASSUME NEW w \in Writers, StartWrite(w)
      PROVE  ScopeInv' /\ scoped' = scoped /\ assoc' = assoc
  <2>1. UNCHANGED <<scoped, assoc, frozen, overlapped>> /\ writer[w] \in WriterSet
    BY <1>2 DEF StartWrite, Idle
  <2>2. CASE ~frozen /\ writer' = [writer EXCEPT ![w].pc = "begun"]
    BY <2>1, <2>2, <1>2 DEF WriterSet, StartWrite
  <2>3. CASE writer' = [writer EXCEPT ![w] = Idle]
    BY <2>1, <2>3 DEF Idle
  <2> QED BY <1>2, <2>2, <2>3 DEF StartWrite, Allows, Rests
<1>3. ASSUME NEW w \in Writers, Leave(w)
      PROVE  ScopeInv' /\ scoped' = scoped /\ assoc' = assoc
  BY <1>3 DEF Leave, Rests, Idle
<1>4. ASSUME NEW w \in Writers, Commit(w)
      PROVE  ScopeInv' /\ scoped \subseteq scoped' /\ assoc \subseteq assoc'
  <2>1. scoped \subseteq scoped' /\ assoc \subseteq assoc'
    BY <1>4 DEF Commit
  <2> QED BY <1>4, <2>1, CommitScope
<1>5. ASSUME NEW b \in BOOLEAN, frozen' = b, UNCHANGED <<scoped, assoc, overlapped>>,
             writer' = [w \in Writers |->
                          IF At(w, "begun") THEN [writer[w] EXCEPT !.late = b] ELSE writer[w]]
      PROVE  ScopeInv'
  <2>1. ASSUME NEW w \in Writers, At(w, "begun")
        PROVE  /\ writer'[w] \in WriterSet /\ writer'[w].late = b /\ writer'[w].pc = "begun"
               /\ writer'[w].creates = writer[w].creates /\ writer'[w].stale = writer[w].stale
    <3>1. writer[w] \in WriterSet
      BY <2>1 DEF Idle
    <3> QED BY <1>5, <2>1, <3>1 DEF WriterSet
  <2>2. \A w \in Writers : ~At(w, "begun") => writer'[w] = writer[w]
    BY <1>5
  <2>3. writer' \in [Writers -> WriterSet \cup {Idle}]
    <3>1. \A w \in Writers : writer'[w] \in WriterSet \cup {Idle}
      BY <2>1, <2>2
    <3> QED BY <1>5, <3>1
  <2> QED BY <1>5, <2>1, <2>2, <2>3
<1>6. ASSUME EnableFreeze \/ DisableFreeze
      PROVE  ScopeInv' /\ scoped' = scoped /\ assoc' = assoc
  <2>1. CASE EnableFreeze
    BY <1>5, <2>1 DEF EnableFreeze
  <2>2. CASE DisableFreeze
    BY <1>5, <2>2 DEF DisableFreeze
  <2> QED BY <1>6, <2>1, <2>2 DEF EnableFreeze, DisableFreeze
<1> QED
  BY <1>1, <1>2, <1>3, <1>4, <1>6 DEF ScopeStep
-----------------------------------------------------------------------------
(* The reader. *)

LookSet ==
    [pc : {"idle", "capability", "view", "proposals", "pending"},
     by : {"id", "host"}, about : SUBSET Targets,
     current : SUBSET Claims, todo : SUBSET SUBSET Claims, pending : SUBSET Claims,
     out : {"none", "found", "not_found", "bridge_error"}]

\* The reply is about Home: the hostname names it and no other target.
Mine == look.by = "id" \/ ({Home} = assoc /\ {Home} = look.about)

\* The targets the reference was resolved to are one, and it is still what the
\* reference means, or the hostname has become ambiguous.
AboutOne ==
    /\ look.by = "id" => look.about \subseteq {Home} \cap scoped
    /\ look.by = "host" => look.about \subseteq assoc /\ OneTargetPerReply
    /\ look.pc # "idle" => look.about # {} /\ look.out = "none"

\* What was collected can be where it is.
Parts ==
    /\ look.current \subseteq {c \in Claims : status[c] \in {"accepted", "superseded"}}
    /\ look.pc \in {"capability", "view"} => look.current = {}
    /\ look.pc \in {"capability", "view", "proposals"} => look.pending = {}
    /\ {} \notin look.todo
    /\ NeverInTwoParts

\* What was collected of the Claims that have not changed is what they are.
Collected ==
    Mine =>
      /\ look.pc \in {"proposals", "pending"} \/ Answered =>
           \A c \in steady : c \in look.current <=> status[c] = "accepted"
      /\ look.pc = "pending" =>
           \A c \in steady :
               /\ status[c] = "pending" => c \in look.pending \/ owner[c] \in look.todo
               /\ c \in look.pending => status[c] = "pending"
      /\ Answered => \A c \in steady : c \in look.pending <=> status[c] = "pending"

HomeRecorded == \A c \in Claims : owner[c] # {} => Home \in scoped

LookInv ==
    /\ look \in LookSet /\ steady \subseteq Claims
    /\ AboutOne /\ Parts /\ Collected /\ HomeRecorded

LookupInv == BookOK /\ ScopeInv /\ LookInv

LEMMA LookStarts == Init => LookupInv
<1> SUFFICES ASSUME Init PROVE LookupInv
  OBVIOUS
<1>1. BookOK /\ ScopeInv
  BY BookStarts, ScopeStarts DEF Init
<1>2. LookInv
  BY DEF Init, Waiting, LookInv, LookSet, AboutOne, OneTargetPerReply, Parts, NeverInTwoParts,
     Collected, Answered, HomeRecorded, BookInit
<1> QED
  BY <1>1, <1>2 DEF LookupInv

\* What the reader holds survives whatever is written meanwhile.
LEMMA WritingKeeps ==
    ASSUME LookupInv, BookOK', ScopeInv', scoped \subseteq scoped', assoc \subseteq assoc',
           look' = look, steady' \subseteq steady,
           UNCHANGED Book \/ (Onward /\ Home \in scoped'),
           \A c \in steady' : status'[c] = status[c]
    PROVE  LookupInv'
<1> USE DEF LookupInv, LookInv, Book
<1>1. \A c \in Claims : owner[c] # {} => owner'[c] = owner[c]
  BY DEF Onward
<1>2. HomeRecorded'
  BY DEF HomeRecorded
<1>3. AboutOne' /\ Parts'
  BY DEF AboutOne, Parts, OneTargetPerReply, NeverInTwoParts, Onward
<1>4. Collected'
  <2> SUFFICES ASSUME Mine' PROVE Collected'
    BY DEF Collected
  <2>1. Mine
    BY DEF Mine, AboutOne, LookSet
  <2>2. \A c \in steady' : /\ c \in steady /\ c \in Claims /\ status'[c] = status[c]
                           /\ status[c] = "pending" => owner'[c] = owner[c]
    BY <1>1 DEF BookOK
  <2> QED BY <2>1, <2>2 DEF Collected, Answered
<1> QED
  BY <1>2, <1>3, <1>4

LEMMA WritersKeep ==
    ASSUME LookupInv, NEW w \in Writers, Writes(w)
    PROVE  LookupInv'
<1>1. Commit(w) /\ writer[w].target \in Targets
  BY DEF Writes, Commit, LookupInv, ScopeInv, ScopeTypeOK, At, Idle, WriterSet
<1>2. ScopeInv' /\ scoped \subseteq scoped' /\ assoc \subseteq assoc'
  BY <1>1, ScopeSteps DEF ScopeStep, LookupInv
<1>3. look' = look /\ steady' \subseteq steady /\ \A c \in steady' : status'[c] = status[c]
  BY DEF Writes
<1>4. CASE writer[w].target # Home
  <2>1. UNCHANGED Book /\ BookOK'
    BY <1>4 DEF Writes, Book, LookupInv, BookOK
  <2> QED BY <1>2, <1>3, <2>1, WritingKeeps
<1>5. CASE writer[w].target = Home
  <2>1. BookStep /\ Home \in scoped'
    BY <1>1, <1>5 DEF Writes, Commit, MissingRows
  <2>2. BookOK' /\ Onward
    BY <2>1, BookSteps DEF LookupInv
  <2> QED BY <1>2, <1>3, <2>1, <2>2, WritingKeeps
<1> QED
  BY <1>4, <1>5

LEMMA OthersKeep ==
    ASSUME LookupInv, ScopeStep, UNCHANGED Book, Unread
    PROVE  LookupInv'
<1>1. ScopeInv' /\ scoped \subseteq scoped' /\ assoc \subseteq assoc'
  BY ScopeSteps DEF LookupInv
<1>2. BookOK'
  BY DEF LookupInv, BookOK, Book
<1> QED
  BY <1>1, <1>2, WritingKeeps DEF Unread, Book

-----------------------------------------------------------------------------
LEMMA ResolvedOne ==
    ASSUME LookupInv, NEW by \in {"id", "host"}
    PROVE  /\ by = "id" => Resolves(by) = {Home} \cap scoped
           /\ by = "host" => \A t \in Resolves(by) : assoc = {t}
           /\ Resolves(by) \subseteq Targets /\ Resolves(by) \subseteq scoped
BY ConstantsOK DEF Resolves, LookupInv, ScopeInv, ScopeTypeOK

LEMMA BeginKeeps ==
    ASSUME LookupInv, NEW by \in {"id", "host"}, Begin(by)
    PROVE  LookupInv'
<1>1. UNCHANGED <<Book, scope>> /\ BookOK' /\ ScopeInv'
  BY DEF Begin, Book, scope, LookupInv, BookOK, ScopeInv, ScopeTypeOK, HostsUnambiguous,
     FreshPlans, LateWriters, At
<1>2. /\ look'.by = by /\ look'.about = Resolves(by) /\ look'.current = {}
      /\ look'.pending = {} /\ look'.todo = {}
      /\ Resolves(by) = {} => look'.pc = "idle" /\ look'.out = "not_found"
      /\ Resolves(by) # {} => look'.pc = "capability" /\ look'.out = "none"
      /\ look' \in LookSet /\ steady' = Claims
  BY ResolvedOne DEF Begin, Waiting, LookSet
<1>3. AboutOne'
  BY <1>1, <1>2, ResolvedOne DEF AboutOne, OneTargetPerReply, scope, LookupInv, ScopeInv,
     ScopeTypeOK
<1>4. Parts' /\ HomeRecorded'
  BY <1>1, <1>2 DEF Parts, NeverInTwoParts, HomeRecorded, LookupInv, LookInv, Book, scope
<1>5. Collected'
  <2> SUFFICES ASSUME Mine', Answered' PROVE \A c \in Claims : status[c] = "absent"
    BY <1>1, <1>2 DEF Collected, Book, Answered
  <2>1. Resolves(by) = {}
    BY <1>2 DEF Answered
  <2>2. by = "id"
    BY <1>2, <2>1 DEF Mine
  <2>3. Home \notin scoped
    BY <2>1, <2>2, ResolvedOne
  <2> QED BY <2>3 DEF LookupInv, LookInv, HomeRecorded, BookOK
<1> QED
  BY <1>1, <1>2, <1>3, <1>4, <1>5 DEF LookupInv, LookInv

\* A step of the reader resolves the reference and goes on, or ends for want of it.
LEMMA Resolving ==
    ASSUME LookupInv, look.pc # "idle", UNCHANGED <<Book, scope, steady>>,
           look'.by = look.by, look' \in LookSet, look'.pc # "idle" => look'.out = "none",
           \/ look'.about = look.about /\ Resolves(look.by) # {Home}
           \/ look'.about = look.about \cup {Home} /\ Resolves(look.by) = {Home}
    PROVE  /\ BookOK' /\ ScopeInv' /\ AboutOne' /\ HomeRecorded'
           /\ Mine' => Mine /\ Resolves(look.by) = {Home}
<1>1. BookOK' /\ ScopeInv' /\ HomeRecorded'
  BY DEF Book, scope, LookupInv, BookOK, ScopeInv, ScopeTypeOK, HostsUnambiguous,
     FreshPlans, LateWriters, At, LookInv, HomeRecorded
<1>2. look.by \in {"id", "host"} /\ assoc' = assoc /\ scoped' = scoped /\ AboutOne
  BY DEF LookupInv, LookInv, LookSet, scope
<1>3. AboutOne'
  BY <1>2, ResolvedOne DEF AboutOne, OneTargetPerReply
<1>4. ASSUME Mine' PROVE Mine /\ Resolves(look.by) = {Home}
  <2>1. CASE look.by = "id"
    BY <1>2, <2>1, ResolvedOne DEF Mine, AboutOne
  <2>2. CASE look.by = "host"
    <3>1. assoc = {Home} /\ look'.about = {Home}
      BY <1>2, <1>4, <2>2 DEF Mine
    <3>2. Resolves(look.by) = {Home}
      BY <2>2, <3>1 DEF Resolves
    <3>3. look.about = {Home}
      BY <1>2, <3>1 DEF AboutOne
    <3> QED BY <3>1, <3>2, <3>3 DEF Mine
  <2> QED BY <1>2, <2>1, <2>2
<1> QED
  BY <1>1, <1>3, <1>4

LEMMA LostKeeps ==
    ASSUME LookupInv, look.pc # "idle", UNCHANGED <<Book, scope, steady>>, Lost,
           NEW out \in {"not_found", "bridge_error"}, Replies(out)
    PROVE  LookupInv'
<1>1. look \in LookSet /\ Parts
  BY DEF LookupInv, LookInv
<1>2. /\ look'.by = look.by /\ look'.about = look.about /\ look'.current = look.current
      /\ look'.pending = look.pending /\ look'.todo = look.todo
      /\ look'.pc = "idle" /\ look' \in LookSet
  BY <1>1 DEF Replies, LookSet
<1>3. /\ BookOK' /\ ScopeInv' /\ AboutOne' /\ HomeRecorded'
      /\ Mine' => Resolves(look.by) = {Home}
  BY <1>2, Resolving DEF Lost
<1>4. Parts'
  BY <1>1, <1>2 DEF Parts, NeverInTwoParts, Book
<1>5. Collected'
  BY <1>3 DEF Collected, Lost
<1> QED
  BY <1>2, <1>3, <1>4, <1>5 DEF LookupInv, LookInv

LEMMA CapabilityKeeps ==
    ASSUME LookupInv, ResolveCapability
    PROVE  LookupInv'
<1> DEFINE R == Resolves(look.by)
<1>1. /\ look \in LookSet /\ look.pc = "capability" /\ UNCHANGED <<Book, scope, steady>>
      /\ look.out = "none" /\ Parts /\ look.by \in {"id", "host"}
  BY DEF LookupInv, LookInv, ResolveCapability, Reads, AboutOne, LookSet
<1>2. R \subseteq Targets
  BY <1>1, ResolvedOne
<1>3. CASE R # {Home}
  BY <1>1, <1>3, LostKeeps DEF ResolveCapability, Lost
<1>4. CASE R = {Home}
  <2>1. look' = [look EXCEPT !.pc = "view", !.about = @ \cup R]
    BY <1>4 DEF ResolveCapability, Lost, Goes
  <2> HIDE DEF R
  <2>2. /\ look'.by = look.by /\ look'.current = look.current /\ look'.pending = look.pending
        /\ look'.todo = look.todo /\ look' \in LookSet /\ look'.pc = "view"
        /\ look'.out = "none" /\ look'.about = look.about \cup R
    BY <1>1, <1>2, <2>1 DEF LookSet
  <2>3. BookOK' /\ ScopeInv' /\ AboutOne' /\ HomeRecorded'
    BY <1>1, <1>4, <2>2, Resolving DEF R
  <2>4. Parts' /\ Collected'
    BY <1>1, <2>2 DEF Parts, NeverInTwoParts, Book, Collected, Answered
  <2> QED BY <1>1, <2>2, <2>3, <2>4 DEF LookupInv, LookInv
<1> QED
  BY <1>3, <1>4

LEMMA ViewKeeps ==
    ASSUME LookupInv, View
    PROVE  LookupInv'
<1> DEFINE R == Resolves(look.by)
           S == Accepted
<1>1. /\ look \in LookSet /\ look.pc = "view" /\ UNCHANGED <<Book, scope, steady>>
      /\ look.out = "none" /\ Parts /\ look.by \in {"id", "host"} /\ look.pending = {}
  BY DEF LookupInv, LookInv, View, Reads, AboutOne, LookSet, Parts
<1>2. /\ R \subseteq Targets /\ S \subseteq {c \in Claims : status[c] = "accepted"}
      /\ R = {Home} => S = {c \in Claims : status[c] = "accepted"}
  BY <1>1, ResolvedOne DEF Accepted
<1>3. CASE R # {Home}
  BY <1>1, <1>3, LostKeeps DEF View, Lost
<1>4. CASE R = {Home}
  <2>1. look' = [look EXCEPT !.pc = "proposals", !.about = @ \cup R, !.current = S]
    BY <1>4 DEF View, Lost
  <2> HIDE DEF R, S
  <2>2. /\ look'.by = look.by /\ look'.current = S /\ look'.pending = look.pending
        /\ look'.todo = look.todo /\ look' \in LookSet /\ look'.pc = "proposals"
        /\ look'.out = "none" /\ look'.about = look.about \cup R
    BY <1>1, <1>2, <2>1 DEF LookSet
  <2>3. /\ BookOK' /\ ScopeInv' /\ AboutOne' /\ HomeRecorded'
        /\ Mine' => R = {Home}
    BY <1>1, <1>4, <2>2, Resolving DEF R
  <2>4. Parts'
    BY <1>1, <1>2, <2>2 DEF Parts, NeverInTwoParts, Book
  <2>5. Collected'
    BY <1>1, <1>2, <2>2, <2>3 DEF Collected, Answered, Book, LookupInv, LookInv
  <2> QED BY <1>1, <2>2, <2>3, <2>4, <2>5 DEF LookupInv, LookInv
<1> QED
  BY <1>3, <1>4

LEMMA ListKeeps ==
    ASSUME LookupInv, ListProposals
    PROVE  LookupInv'
<1> DEFINE R == Resolves(look.by)
           S == {owner[c] : c \in Claims} \ {{}}
<1>1. /\ look \in LookSet /\ look.pc = "proposals" /\ UNCHANGED <<Book, scope, steady>>
      /\ look.out = "none" /\ Parts /\ look.by \in {"id", "host"} /\ look.pending = {}
  BY DEF LookupInv, LookInv, ListProposals, Reads, AboutOne, LookSet, Parts
<1>2. /\ R \subseteq Targets /\ {} \notin S /\ S \subseteq SUBSET Claims
      /\ R = {Home} => \A c \in Claims : owner[c] # {} => owner[c] \in S
  BY <1>1, ResolvedOne DEF LookupInv, BookOK
<1>3. CASE R # {Home}
  BY <1>1, <1>3, LostKeeps DEF ListProposals, Lost
<1>4. CASE R = {Home}
  <2>1. look' = [look EXCEPT !.pc = "pending", !.about = @ \cup R, !.todo = S]
    BY <1>4 DEF ListProposals, Lost
  <2> HIDE DEF R, S
  <2>2. /\ look'.by = look.by /\ look'.current = look.current /\ look'.pending = look.pending
        /\ look'.todo = S /\ look' \in LookSet /\ look'.pc = "pending"
        /\ look'.out = "none" /\ look'.about = look.about \cup R
    BY <1>1, <1>2, <2>1 DEF LookSet
  <2>3. /\ BookOK' /\ ScopeInv' /\ AboutOne' /\ HomeRecorded'
        /\ Mine' => Mine /\ R = {Home}
    BY <1>1, <1>4, <2>2, Resolving DEF R
  <2>4. Parts'
    BY <1>1, <1>2, <2>2 DEF Parts, NeverInTwoParts, Book
  <2>5. Collected'
    <3> SUFFICES ASSUME Mine' PROVE Collected'
      BY DEF Collected
    <3>1. /\ \A c \in steady : c \in look.current <=> status[c] = "accepted"
          /\ \A c \in steady : status[c] = "pending" => owner[c] \in S
      BY <1>1, <1>2, <2>3 DEF Collected, LookupInv, LookInv, BookOK
    <3> QED BY <1>1, <2>2, <3>1 DEF Collected, Answered, Book
  <2> QED BY <1>1, <2>2, <2>3, <2>4, <2>5 DEF LookupInv, LookInv
<1> QED
  BY <1>3, <1>4

\* One Claim that is pending makes its Proposal pending as a whole.
LEMMA WholeProposal ==
    ASSUME BookOK, NEW prop, prop # {}, Undecided(prop), NEW c \in Members(prop)
    PROVE  c \in Claims /\ status[c] = "pending"
BY DEF BookOK, Undecided, Members

LEMMA ReadProposalKeeps ==
    ASSUME LookupInv, NEW prop, ReadProposal(prop)
    PROVE  LookupInv'
<1> DEFINE S == IF Undecided(prop) THEN look.pending \cup Members(prop) ELSE look.pending
<1>1. /\ look \in LookSet /\ look.pc = "pending" /\ UNCHANGED <<Book, scope, steady>>
      /\ look.out = "none" /\ Parts /\ prop \in look.todo /\ prop # {}
      /\ look' = [look EXCEPT !.todo = @ \ {prop}, !.pending = S]
  BY DEF LookupInv, LookInv, ReadProposal, Reads, AboutOne, Parts
<1>2. /\ look.pending \subseteq S
      /\ \A c \in S \ look.pending : c \in Claims /\ status[c] = "pending"
      /\ \A c \in Claims : owner[c] = prop /\ status[c] = "pending" => c \in S
  <2>1. BookOK
    BY DEF LookupInv
  <2> QED BY <1>1, <2>1, WholeProposal DEF Undecided, Members
<1> HIDE DEF S
<1>3. /\ look'.by = look.by /\ look'.current = look.current /\ look'.pending = S
      /\ look'.todo = look.todo \ {prop} /\ look' \in LookSet /\ look'.pc = "pending"
      /\ look'.out = "none" /\ look'.about = look.about
  BY <1>1, <1>2 DEF LookSet
<1>4. BookOK' /\ ScopeInv' /\ HomeRecorded' /\ AboutOne' /\ (Mine' <=> Mine)
  BY <1>1, <1>3 DEF Book, scope, LookupInv, BookOK, ScopeInv, ScopeTypeOK, HostsUnambiguous,
     FreshPlans, LateWriters, At, LookInv, HomeRecorded, AboutOne, OneTargetPerReply, Mine
<1>5. Parts'
  BY <1>1, <1>2, <1>3 DEF Parts, NeverInTwoParts, Book
<1>6. Collected'
  BY <1>1, <1>2, <1>3, <1>4 DEF Collected, Answered, Book, LookupInv, LookInv
<1> QED
  BY <1>1, <1>3, <1>4, <1>5, <1>6 DEF LookupInv, LookInv

LEMMA RenderKeeps ==
    ASSUME LookupInv, Render
    PROVE  LookupInv'
<1> DEFINE R == Resolves(look.by)
           out == IF look.current = {} THEN "not_found" ELSE "found"
<1>1. /\ look \in LookSet /\ look.pc = "pending" /\ UNCHANGED <<Book, scope, steady>>
      /\ look.out = "none" /\ Parts /\ look.by \in {"id", "host"} /\ look.todo = {}
  BY DEF LookupInv, LookInv, Render, Reads, AboutOne, LookSet
<1>2. R \subseteq Targets /\ out \in {"found", "not_found"}
  BY <1>1, ResolvedOne
<1>3. CASE R # {Home}
  BY <1>1, <1>3, LostKeeps DEF Render, Lost
<1>4. CASE R = {Home}
  <2>1. look' = [look EXCEPT !.pc = "idle", !.about = @ \cup R, !.out = out]
    BY <1>4 DEF Render, Lost
  <2> HIDE DEF R, out
  <2>2. /\ look'.by = look.by /\ look'.current = look.current /\ look'.pending = look.pending
        /\ look'.todo = look.todo /\ look' \in LookSet /\ look'.pc = "idle"
        /\ look'.about = look.about \cup R
    BY <1>1, <1>2, <2>1 DEF LookSet
  <2>3. /\ BookOK' /\ ScopeInv' /\ AboutOne' /\ HomeRecorded'
        /\ Mine' => Mine
    BY <1>1, <1>4, <2>2, Resolving DEF R
  <2>4. Parts'
    BY <1>1, <2>2 DEF Parts, NeverInTwoParts, Book
  <2>5. Collected'
    BY <1>1, <2>2, <2>3 DEF Collected, Book, LookupInv, LookInv
  <2> QED BY <1>1, <2>2, <2>3, <2>4, <2>5 DEF LookupInv, LookInv
<1> QED
  BY <1>3, <1>4

-----------------------------------------------------------------------------
LEMMA LookupStutters == LookupInv /\ UNCHANGED vars => LookupInv'
BY DEF vars, scope, LookupInv, BookOK, ScopeInv, ScopeTypeOK, HostsUnambiguous, FreshPlans,
   LateWriters, At, LookInv, AboutOne, OneTargetPerReply, Parts, NeverInTwoParts, Collected,
   Answered, Mine, HomeRecorded

LEMMA LookupSteps == LookupInv /\ Next => LookupInv'
<1> SUFFICES ASSUME LookupInv, Next PROVE LookupInv'
  OBVIOUS
<1>1. ASSUME NEW w \in Writers, NEW t \in Targets, NEW names \in BOOLEAN, Plans(w, t, names)
      PROVE  LookupInv'
  BY <1>1, OthersKeep DEF Plans, ScopeStep
<1>2. ASSUME NEW w \in Writers, Starts(w) \/ Leaves(w)
      PROVE  LookupInv'
  BY <1>2, OthersKeep DEF Starts, Leaves, ScopeStep
<1>3. ASSUME Freezes
      PROVE  LookupInv'
  BY <1>3, OthersKeep DEF Freezes, ScopeStep
<1>4. ASSUME Read
      PROVE  LookupInv'
  BY <1>4, CapabilityKeeps, ViewKeeps, ListKeeps, ReadProposalKeeps, RenderKeeps DEF Read
<1> QED
  BY <1>1, <1>2, <1>3, <1>4, WritersKeep, BeginKeeps DEF Next

LEMMA LookupInvariant == Spec => []LookupInv
BY LookStarts, LookupSteps, LookupStutters, PTL DEF Spec

\* Every variable keeps its type (capture_candidate, lookup).
THEOREM LookupTyped == Spec => []TypeOK
<1>1. LookupInv => TypeOK
  BY DEF LookupInv, BookOK, ScopeInv, LookInv, LookSet, TypeOK
<1> QED
  BY <1>1, LookupInvariant, PTL

\* Whoever writes what, a hostname is associated with two targets only by commands
\* that were planned at the same time (_host_plan).
THEOREM HostsOfOne == Spec => []HostsUnambiguous
<1>1. LookupInv => HostsUnambiguous
  BY DEF LookupInv, ScopeInv
<1> QED
  BY <1>1, LookupInvariant, PTL

\* A reply is about one target, however often it was resolved (resolve_target).
THEOREM RepliesOfOne == Spec => []OneTargetPerReply
<1>1. LookupInv => OneTargetPerReply
  BY DEF LookupInv, LookInv, LookSet, AboutOne, OneTargetPerReply
<1> QED
  BY <1>1, LookupInvariant, PTL

\* A reply names no Claim as current and pending at once
\* (render_operational_context).
THEOREM PartsDisjoint == Spec => []NeverInTwoParts
<1>1. LookupInv => NeverInTwoParts
  BY DEF LookupInv, LookInv, Parts
<1> QED
  BY <1>1, LookupInvariant, PTL

\* A reply says of every Claim that did not change meanwhile what it is
\* (render_operational_context, get_pending_candidates).
THEOREM SteadyReported == Spec => []SteadyIsReported
<1>1. LookupInv => SteadyIsReported
  BY DEF LookupInv, LookInv, Collected, Mine, SteadyIsReported
<1> QED
  BY <1>1, LookupInvariant, PTL

\* Under the freeze, the only writes are the last ones of commands that were past
\* the check by then (write_transaction, assert_knowledge_writes_allowed).
THEOREM FreezeKept == Spec => FreezeHolds
<1>1. ASSUME LookupInv, Next, frozen
      PROVE  \/ UNCHANGED <<Book, scoped, assoc>>
             \/ \E w \in Writers : At(w, "begun") /\ writer[w].late /\ writer'[w] = Idle
  <2>1. ASSUME NEW w \in Writers, Writes(w)
        PROVE  At(w, "begun") /\ writer[w].late /\ writer'[w] = Idle
    <3>1. Commit(w) /\ At(w, "begun")
      BY <2>1 DEF Writes, Commit
    <3>2. writer[w].late
      BY <1>1, <3>1 DEF LookupInv, ScopeInv, LateWriters
    <3>3. writer'[w] = Idle
      <4>1. writer \in [Writers -> WriterSet \cup {Idle}]
        BY <1>1 DEF LookupInv, ScopeInv, ScopeTypeOK
      <4> QED BY <3>1, <4>1 DEF Commit, Rests
    <3> QED BY <3>1, <3>2, <3>3
  <2>2. \/ \E w \in Writers : Writes(w)
        \/ UNCHANGED <<Book, scoped, assoc>>
    BY <1>1 DEF Next, Plans, Starts, Leaves, Freezes, Begin, Read, ResolveCapability, View,
       ListProposals, ReadProposal, Render, Reads, Book, scope, Plan, StartWrite, Leave,
       EnableFreeze, DisableFreeze
  <2> QED BY <2>1, <2>2
<1>2. LookupInv /\ [Next]_vars =>
        [frozen => \/ UNCHANGED <<Book, scoped, assoc>>
                   \/ \E w \in Writers :
                        At(w, "begun") /\ writer[w].late /\ writer'[w] = Idle]_vars
  BY <1>1
<1> QED
  BY <1>2, LookupInvariant, PTL DEF Spec, FreezeHolds
=============================================================================
