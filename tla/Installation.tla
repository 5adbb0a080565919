---------------------------- MODULE Installation ----------------------------
(***************************************************************************)
(* The making of one Knowledge Root: several processes may run             *)
(* init-knowledge-root on the same directory while preflight reads it and  *)
(* other commands already use what they find there (installation_init.py,  *)
(* readiness.py).                                                          *)
(*                                                                         *)
(* Nothing locks the directory.  An initializer looks at it once, creates  *)
(* the database and three marker files one after the other, each marker    *)
(* exclusively, and on an error removes, last first, what it believes it   *)
(* has created.  It may die, or meet an I/O error, at any step.            *)
(***************************************************************************)
EXTENDS Naturals

CONSTANTS
    Initializers,
    MaxFaults       \* bound on crashes and I/O errors

ASSUME ConstantsOK == MaxFaults \in Nat

Markers == {"read", "write", "root"}

\* The files of an installation, in the order they are created in.
WriteFirst == <<"db", "write", "read", "root">>   \* mutant: write authority first
Files      == <<"db", "read", "write", "root">>

VARIABLES
    targets,   \* whether targets/ exists
    foreign,   \* whether .caravelaweb/ holds the marker of an open run
    db,        \* how far the schema of operational_memory.db has come
    saved,     \* whether the database holds knowledge
    marker,    \* the three marker files
    init,      \* what each initializer holds
    reader,    \* how far preflight has read, and its answer
    overlap,   \* whether two initializations were ever under way at once
    faults

vars == <<targets, foreign, db, saved, marker, init, reader, overlap, faults>>

\* made counts the Files a process believes it has created, exists says that it
\* found a database, gone that the one it is connected to has been removed.
Idle == [pc |-> "idle", made |-> 0, exists |-> FALSE, gone |-> FALSE, out |-> "NONE"]

Init ==
    /\ targets = FALSE /\ foreign = FALSE
    /\ db = "none" /\ saved = FALSE
    /\ marker = [m \in Markers |-> "none"]
    /\ init = [p \in Initializers |-> Idle]
    /\ reader = [seen |-> 0, out |-> "NONE"]
    /\ overlap = FALSE
    /\ faults = 0

Fault == faults < MaxFaults /\ faults' = faults + 1

-----------------------------------------------------------------------------
(* initialize_knowledge_root. *)

At(p, pc) == init[p].pc = pc
Running(p) == ~At(p, "idle")
Goto(p, pc) == init' = [init EXCEPT ![p].pc = pc]
End(p, out) == init' = [init EXCEPT ![p] = [Idle EXCEPT !.out = out]]
Made(p, pc, n) == init' = [init EXCEPT ![p].pc = pc, ![p].made = n]

Others == UNCHANGED <<foreign, saved, reader, overlap>>

\* A location that is initialized, or holds any state, is refused.
FreshByMarker == marker["root"] = "none"     \* mutant: other residue is let through
Fresh == (\A m \in Markers : marker[m] = "none") /\ db = "none" /\ ~foreign

AssertInitializable(p) ==
    /\ At(p, "idle")
    /\ overlap' = (overlap \/ (Fresh /\ \E q \in Initializers : Running(q)))
    /\ IF Fresh THEN Goto(p, "dirs") ELSE End(p, "REFUSED")
    /\ UNCHANGED <<targets, foreign, db, saved, marker, reader, faults>>

\* targets/ is looked for before it is made: if another process makes it in
\* between, mkdir raises.
LookForTargets(p) ==
    /\ At(p, "dirs")
    /\ Goto(p, IF targets THEN "open" ELSE "mkdir")
    /\ Others /\ UNCHANGED <<targets, db, marker, faults>>

MakeTargets(p) ==
    /\ At(p, "mkdir")
    /\ targets' = TRUE
    /\ IF targets THEN End(p, "FAILED") ELSE Goto(p, "open")
    /\ Others /\ UNCHANGED <<db, marker, faults>>

\* Connecting creates an empty file where there is none; the schema is run only
\* if there was none a moment before.
LookForDatabase(p) ==
    /\ At(p, "open")
    /\ init' = [init EXCEPT ![p].pc = "connect", ![p].exists = (db # "none")]
    /\ Others /\ UNCHANGED <<targets, db, marker, faults>>

Connect(p) ==
    /\ At(p, "connect")
    /\ db' = IF db = "none" THEN "empty" ELSE db
    /\ Goto(p, IF init[p].exists THEN "validate" ELSE "begin")
    /\ Others /\ UNCHANGED <<targets, marker, faults>>

\* A process goes on with a database that was removed under it; how far that one
\* has come is not followed, so that any outcome is possible there.
Reopened(p, state) == db' = state        \* mutant: each statement opens the path anew
Becomes(p, state) == db' = IF init[p].gone THEN db ELSE state

\* The statements of the schema commit one by one, and the first of them fails
\* if another process has run it.
BeginSchema(p) ==
    /\ At(p, "begin")
    /\ \/ /\ db = "empty" \/ init[p].gone
          /\ Becomes(p, "begun") /\ Goto(p, "stamp")
       \/ /\ db # "empty" \/ init[p].gone
          /\ End(p, "FAILED") /\ UNCHANGED db
    /\ Others /\ UNCHANGED <<targets, marker, faults>>

\* The version is stamped before most tables exist.
StampSchema(p) ==
    /\ At(p, "stamp")
    /\ Becomes(p, "stamped") /\ Goto(p, "tables")
    /\ Others /\ UNCHANGED <<targets, marker, faults>>

FinishSchema(p) ==
    /\ At(p, "tables")
    /\ Becomes(p, "complete") /\ Goto(p, "validate")
    /\ Others /\ UNCHANGED <<targets, marker, faults>>

\* Opening a database looks at its version only.  From here on the process
\* takes the file for its own, whoever created it.
Stamped == db \in {"stamped", "complete"}

ValidateSchema(p) ==
    /\ At(p, "validate")
    /\ \/ (Stamped \/ init[p].gone) /\ Made(p, "create", 1)
       \/ (~Stamped \/ init[p].gone) /\ End(p, "FAILED")
    /\ Others /\ UNCHANGED <<targets, db, marker, faults>>

\* A marker is created exclusively, then written.
Coming(p) == Files[init[p].made + 1]

Overwritable(p) == TRUE                  \* mutant: opened without O_EXCL
Creatable(p) == marker[Coming(p)] = "none"

CreateMarker(p) ==
    /\ At(p, "create")
    /\ IF Creatable(p)
       THEN marker' = [marker EXCEPT ![Coming(p)] = "empty"] /\ Goto(p, "fill")
       ELSE UNCHANGED marker /\ Goto(p, "rollback")
    /\ Others /\ UNCHANGED <<targets, db, faults>>

\* The root marker is the last file; the check after it looks for targets/ only,
\* which nothing removes.
FillMarker(p) ==
    /\ At(p, "fill")
    /\ marker' = [marker EXCEPT ![Coming(p)] = "whole"]
    /\ IF Coming(p) = "root" THEN End(p, "INITIALIZED")
                             ELSE Made(p, "create", init[p].made + 1)
    /\ Others /\ UNCHANGED <<targets, db, faults>>

\* Whatever raises, the files on the list are removed, the last one first.  A
\* marker that could not be written is not on the list yet and stays.
Fails(p) ==
    /\ Running(p) /\ ~At(p, "rollback") /\ Fault
    /\ Goto(p, "rollback")
    /\ Others /\ UNCHANGED <<targets, db, marker>>

Connected(q) == init[q].pc \in {"begin", "stamp", "tables", "validate"}

RemoveDatabase(p) ==
    /\ db' = "none" /\ saved' = FALSE
    /\ init' = [q \in Initializers |->
           IF q = p THEN [init[p] EXCEPT !.made = 0]
           ELSE [init[q] EXCEPT !.gone = @ \/ (db # "none" /\ Connected(q))]]
    /\ UNCHANGED marker

RemoveMarker(p) ==
    /\ marker' = [marker EXCEPT ![Files[init[p].made]] = "none"]
    /\ Made(p, "rollback", init[p].made - 1)
    /\ UNCHANGED <<db, saved>>

RollBack(p) ==
    /\ At(p, "rollback")
    /\ \/ init[p].made = 0 /\ End(p, "FAILED") /\ UNCHANGED <<db, saved, marker>>
       \/ init[p].made = 1 /\ RemoveDatabase(p)
       \/ init[p].made > 1 /\ RemoveMarker(p)
    /\ UNCHANGED <<targets, foreign, reader, overlap, faults>>

Crash(p) ==
    /\ Running(p) /\ Fault
    /\ End(p, "NONE")
    /\ Others /\ UNCHANGED <<targets, db, marker>>

-----------------------------------------------------------------------------
(* The other commands. *)

\* What preflight asks of each file: the version of the database, a read-authority
\* marker of any content, a write-authority marker it can parse.
Seen(f) ==
    CASE f = "root"  -> marker["root"] # "none"
      [] f = "db"    -> Stamped
      [] f = "read"  -> marker["read"] # "none"
      [] f = "write" -> marker["write"] = "whole"

WriteReadFirst == <<"write", "root", "db", "read">>   \* mutant: another order
ReadOrder      == <<"root", "db", "read", "write">>

\* core_readiness: one file after the other, READY if all were found.
Preflight ==
    /\ targets
    /\ LET f == ReadOrder[reader.seen + 1]
       IN  reader' = CASE ~Seen(f)                      -> [seen |-> 0, out |-> "NOT_READY"]
                       [] Seen(f) /\ reader.seen = 3 -> [seen |-> 0, out |-> "READY"]
                       [] Seen(f) /\ reader.seen < 3 -> [seen |-> reader.seen + 1, out |-> "NONE"]
    /\ UNCHANGED <<targets, foreign, db, saved, marker, init, overlap, faults>>

\* discovery-begin needs targets/ only.
BeginDiscovery ==
    /\ targets
    /\ foreign' = TRUE
    /\ UNCHANGED <<targets, db, saved, marker, init, reader, overlap, faults>>

\* discovery-finalize needs an open run, a database it can write and the
\* write-authority marker.
Save ==
    /\ foreign /\ db = "complete" /\ marker["write"] = "whole"
    /\ saved' = TRUE
    /\ UNCHANGED <<targets, foreign, db, marker, init, reader, overlap, faults>>

-----------------------------------------------------------------------------
Initialize(p) ==
    \/ AssertInitializable(p) \/ LookForTargets(p) \/ MakeTargets(p)
    \/ LookForDatabase(p) \/ Connect(p)
    \/ BeginSchema(p) \/ StampSchema(p) \/ FinishSchema(p) \/ ValidateSchema(p)
    \/ CreateMarker(p) \/ FillMarker(p)
    \/ Fails(p) \/ RollBack(p) \/ Crash(p)

Next ==
    \/ \E p \in Initializers : Initialize(p)
    \/ Preflight \/ BeginDiscovery \/ Save

Spec == Init /\ [][Next]_vars

-----------------------------------------------------------------------------
(* Properties. *)

\* Every variable has its type; the schema is run by one process at a time, and
\* on the file that is there unless that file was removed under it (_open).
TypeOK ==
    /\ targets \in BOOLEAN /\ foreign \in BOOLEAN
    /\ db \in {"none", "empty", "begun", "stamped", "complete"}
    /\ saved \in BOOLEAN
    /\ marker \in [Markers -> {"none", "empty", "whole"}]
    /\ init \in [Initializers ->
           [pc : {"idle", "dirs", "mkdir", "open", "connect", "begin", "stamp", "tables",
                  "validate", "create", "fill", "rollback"},
            made : 0..3, exists : BOOLEAN, gone : BOOLEAN,
            out : {"NONE", "REFUSED", "FAILED", "INITIALIZED"}]]
    /\ reader \in [seen : 0..3, out : {"NONE", "READY", "NOT_READY"}]
    /\ overlap \in BOOLEAN
    /\ faults \in 0..MaxFaults
    /\ \A p \in Initializers :
         /\ At(p, "stamp") /\ ~init[p].gone => db = "begun"
         /\ At(p, "tables") /\ ~init[p].gone => db = "stamped"

\* One process at most is told that it initialized the directory, although all of
\* them may have found it fresh (_write_new_marker).
OneInitializes ==
    \A p, q \in Initializers :
        init[p].out = "INITIALIZED" /\ init[q].out = "INITIALIZED" => p = q

\* A directory that accepts knowledge serves it too: whatever dies or is rolled
\* back, write authority never stands without read authority
\* (initialize_knowledge_root).
AuthorityInOrder == marker["write"] = "whole" => marker["read"] # "none"

Installed ==
    /\ targets /\ db = "complete"
    /\ \A m \in Markers : marker[m] = "whole"

\* A process that had the directory to itself and answers INITIALIZED leaves a
\* complete installation, whatever earlier attempts have left behind
\* (assert_initializable).
InitializedIsInstalled ==
    ~overlap /\ (\E p \in Initializers : init[p].out = "INITIALIZED") => Installed

\* preflight reads the files one by one, perhaps while they are rolled back: when
\* it says READY, an installation that lookups and finalizers can use is there
\* (core_readiness, memory_report).
ReadyIsTrue ==
    [][~overlap /\ reader.out = "NONE" /\ reader'.out = "READY" =>
         db = "complete" /\ \A f \in {"root", "read", "write"} : Seen(f)]_vars

\* docs/installation.md: initialization refuses a location that contains knowledge
\* and does not overwrite it.
KnowledgeKept == [][saved => saved']_vars
=============================================================================
