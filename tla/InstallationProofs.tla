------------------------- MODULE InstallationProofs -------------------------
(***************************************************************************)
(* What holds of Installation for any number of initializers, crashes and  *)
(* I/O errors: exclusive creation makes one of them the holder of the      *)
(* markers; one at most runs the schema on the file that is there; and one *)
(* that is alone leaves a complete installation.                           *)
(***************************************************************************)
EXTENDS Installation, TLAPS

Pcs ==
    {"idle", "dirs", "mkdir", "open", "connect", "begin", "stamp", "tables", "validate",
     "create", "fill", "rollback"}

InitSet ==
    [pc : Pcs, made : 0..3, exists : BOOLEAN, gone : BOOLEAN,
     out : {"NONE", "REFUSED", "FAILED", "INITIALIZED"}]

\* The types of what the initializers write.
Types ==
    /\ db \in {"none", "empty", "begun", "stamped", "complete"}
    /\ marker \in [Markers -> {"none", "empty", "whole"}]
    /\ init \in [Initializers -> InitSet]

\* The list of created files is empty but for the steps that create and remove.
Listed ==
    \A p \in Initializers :
        /\ init[p].pc \in {"create", "fill"} => init[p].made \in 1..3
        /\ init[p].pc \notin {"create", "fill", "rollback"} => init[p].made = 0

\* A process holds the markers from the moment it has created the first one.
Holds(p) == init[p].made >= 2 \/ init[p].pc = "fill"

OneHolder == \A p, q \in Initializers : Holds(p) /\ Holds(q) => p = q

\* What a holder has created is there, and what it has not is not usable.
Created ==
    \A p \in Initializers :
        /\ init[p].made >= 2 => marker["read"] = "whole"
        /\ init[p].made >= 3 => marker["write"] = "whole"
        /\ init[p].pc = "fill" => marker[Coming(p)] = "empty"
        /\ Holds(p) /\ init[p].made <= 2 => marker["write"] # "whole"

\* The root marker outlives the process that is told INITIALIZED.
Rooted == \A p \in Initializers : init[p].out = "INITIALIZED" => marker["root"] = "whole"

MarkerInv ==
    /\ Types /\ Listed /\ OneHolder /\ Created /\ Rooted
    /\ OneInitializes /\ AuthorityInOrder

\* The places of the files, which every step below refers to.
LEMMA Places ==
    /\ Files[1] = "db" /\ Files[2] = "read" /\ Files[3] = "write" /\ Files[4] = "root"
    /\ "read" \in Markers /\ "write" \in Markers /\ "root" \in Markers
    /\ "create" \in Pcs /\ "fill" \in Pcs /\ "rollback" \in Pcs /\ 1 \in 0..3
<1>1. 1 \in 0..3
  OBVIOUS
<1> QED BY <1>1 DEF Files, Markers, Pcs

\* Records an initializer leaves behind.
LEMMA Updates ==
    ASSUME NEW r \in InitSet, NEW c \in Pcs, NEW n \in 0..3
    PROVE  [r EXCEPT !.pc = c, !.made = n] \in InitSet
BY DEF InitSet

LEMMA Ends ==
    ASSUME NEW o, o = "NONE" \/ o = "REFUSED" \/ o = "FAILED" \/ o = "INITIALIZED"
    PROVE  [Idle EXCEPT !.out = o] \in InitSet
<1>1. "idle" \in Pcs /\ 0 \in 0..3
  BY DEF Pcs
<1> QED BY <1>1 DEF Idle, InitSet

LEMMA Starts == Init => MarkerInv
BY DEF Init, Idle, MarkerInv, Types, InitSet, Pcs, Listed, Holds, OneHolder, Created,
       Rooted, OneInitializes, AuthorityInOrder, Markers

\* A step that creates or removes no marker and takes no process into "fill" or
\* up its list leaves the invariant alone.
LEMMA Idles ==
    ASSUME MarkerInv, UNCHANGED marker, Types', Listed',
           \A p \in Initializers :
               /\ init'[p].made >= 2 => init'[p].made = init[p].made
               /\ init'[p].pc = "fill" => init[p].pc = "fill" /\ init'[p].made = init[p].made
               /\ init'[p].out = "INITIALIZED" => init[p].out = "INITIALIZED"
    PROVE  MarkerInv'
<1> USE Places
<1>1. \A p \in Initializers : Holds(p)' => Holds(p)
  BY DEF Holds, MarkerInv, Types, InitSet
<1>2. OneHolder' /\ Rooted' /\ OneInitializes' /\ AuthorityInOrder'
  BY <1>1 DEF MarkerInv, OneHolder, Rooted, OneInitializes, AuthorityInOrder
<1>3. Created'
  <2> SUFFICES ASSUME NEW p \in Initializers
               PROVE  /\ init'[p].made >= 2 => marker["read"] = "whole"
                      /\ init'[p].made >= 3 => marker["write"] = "whole"
                      /\ init'[p].pc = "fill" => marker[Coming(p)'] = "empty"
                      /\ Holds(p)' /\ init'[p].made <= 2 => marker["write"] # "whole"
    BY DEF Created
  <2>1. init[p].made \in 0..3 /\ init'[p].made \in 0..3
    BY DEF MarkerInv, Types, InitSet
  <2>2. init'[p].pc = "fill" => Coming(p)' = Coming(p)
    BY DEF Coming
  <2>3. Holds(p)' => init'[p].made = init[p].made
    BY DEF Holds
  <2> QED
    BY <1>1, <2>1, <2>2, <2>3 DEF MarkerInv, Created
<1> QED BY <1>2, <1>3 DEF MarkerInv

\* What an initializer does before and beside the markers.
Aside(p) ==
    \/ AssertInitializable(p) \/ LookForTargets(p) \/ MakeTargets(p)
    \/ LookForDatabase(p) \/ Connect(p)
    \/ BeginSchema(p) \/ StampSchema(p) \/ FinishSchema(p) \/ ValidateSchema(p)
    \/ Fails(p) \/ Crash(p)

\* All of these steps are of the kind Idles is about: they write one record, and
\* none of them takes a process to "fill".
LEMMA AsideKeeps ==
    ASSUME MarkerInv, NEW p \in Initializers, Aside(p)
    PROVE  MarkerInv'
<1>1. init[p] \in InitSet /\ Types /\ Listed
  BY DEF MarkerInv, Types
<1>2. UNCHANGED marker
  BY DEF Aside, AssertInitializable, LookForTargets, MakeTargets, LookForDatabase, Connect,
         BeginSchema, StampSchema, FinishSchema, ValidateSchema, Fails, Crash
<1>3. db' \in {"none", "empty", "begun", "stamped", "complete"}
  BY <1>1 DEF Types, Becomes, Aside, AssertInitializable, LookForTargets, MakeTargets,
              LookForDatabase, Connect, BeginSchema, StampSchema, FinishSchema,
              ValidateSchema, Fails, Crash
<1>4. PICK r \in InitSet :
        /\ init' = [init EXCEPT ![p] = r]
        /\ r.pc \in {"dirs", "mkdir", "open", "connect", "begin", "stamp", "tables",
                     "validate", "create", "idle", "rollback"}
        /\ r.pc = "create" => r.made = 1
        /\ r.pc \notin {"create", "rollback"} => r.made = 0
        /\ r.made >= 2 => r.made = init[p].made
        /\ r.out = "INITIALIZED" => init[p].out = "INITIALIZED"
  <2> DEFINE Kept(r) == /\ r \in InitSet
                        /\ init' = [init EXCEPT ![p] = r]
                        /\ r.pc \in {"dirs", "mkdir", "open", "connect", "begin", "stamp",
                                     "tables", "validate", "create", "idle", "rollback"}
                        /\ r.pc = "create" => r.made = 1
                        /\ r.pc \notin {"create", "rollback"} => r.made = 0
                        /\ r.made >= 2 => r.made = init[p].made
                        /\ r.out = "INITIALIZED" => init[p].out = "INITIALIZED"
  <2>1. ASSUME NEW c \in {"dirs", "mkdir", "open", "connect", "begin", "stamp", "tables",
                          "validate"},
               Goto(p, c), init[p].pc \notin {"create", "fill", "rollback"}
        PROVE  Kept([init[p] EXCEPT !.pc = c])
    BY <1>1, <2>1 DEF Goto, InitSet, Pcs, Listed
  <2>2. ASSUME NEW o, o = "NONE" \/ o = "REFUSED" \/ o = "FAILED", End(p, o)
        PROVE  Kept([Idle EXCEPT !.out = o])
    <3>1. [Idle EXCEPT !.out = o] \in InitSet
      BY <2>2, Ends
    <3>2. /\ [Idle EXCEPT !.out = o].pc = "idle"
          /\ [Idle EXCEPT !.out = o].made = 0
          /\ [Idle EXCEPT !.out = o].out = o
      BY DEF Idle
    <3>3. init' = [init EXCEPT ![p] = [Idle EXCEPT !.out = o]]
      BY <2>2 DEF End
    <3> QED BY <2>2, <3>1, <3>2, <3>3
  <2>3. ASSUME LookForDatabase(p)
        PROVE  Kept([init[p] EXCEPT !.pc = "connect", !.exists = (db # "none")])
    BY <1>1, <2>3 DEF LookForDatabase, At, InitSet, Pcs, Listed
  <2>4. ASSUME Made(p, "create", 1)
        PROVE  Kept([init[p] EXCEPT !.pc = "create", !.made = 1])
    <3>1. init' = [init EXCEPT ![p] = [init[p] EXCEPT !.pc = "create", !.made = 1]]
      BY <1>1, <2>4 DEF Made, Types
    <3>2. [init[p] EXCEPT !.pc = "create", !.made = 1] \in InitSet
      BY <1>1, Updates, Places
    <3> QED BY <1>1, <3>1, <3>2 DEF InitSet
  <2>5. ASSUME Goto(p, "rollback")
        PROVE  Kept([init[p] EXCEPT !.pc = "rollback"])
    BY <1>1, <2>5 DEF Goto, InitSet, Pcs
  <2>6. \/ LookForDatabase(p) \/ Made(p, "create", 1) \/ Goto(p, "rollback")
        \/ End(p, "NONE") \/ End(p, "REFUSED") \/ End(p, "FAILED")
        \/ /\ init[p].pc \notin {"create", "fill", "rollback"}
           /\ \E c \in {"dirs", "mkdir", "open", "connect", "begin", "stamp", "tables",
                        "validate"} : Goto(p, c)
    BY DEF Aside, At, AssertInitializable, LookForTargets, MakeTargets, Connect,
           BeginSchema, StampSchema, FinishSchema, ValidateSchema, Fails, Crash
  <2>7. \E r : Kept(r)
    BY <2>1, <2>2, <2>3, <2>4, <2>5, <2>6
  <2> QED BY <2>7
<1>5. \A q \in Initializers : init'[q] = IF q = p THEN r ELSE init[q]
  BY <1>1, <1>4 DEF Types
<1>6. Types'
  BY <1>1, <1>2, <1>3, <1>4 DEF Types
<1>7. Listed'
  BY <1>1, <1>4, <1>5 DEF Listed
<1> QED BY <1>2, <1>4, <1>5, <1>6, <1>7, Idles

\* Other commands and the reader write neither a marker nor a record.
LEMMA EnvironmentKeeps ==
    ASSUME MarkerInv, (Preflight \/ BeginDiscovery \/ Save \/ UNCHANGED vars)
    PROVE  MarkerInv'
<1>1. UNCHANGED <<db, marker, init>>
  BY DEF Preflight, BeginDiscovery, Save, vars
<1>2. Types' /\ Listed'
  BY <1>1 DEF MarkerInv, Types, Listed
<1> QED BY <1>1, <1>2, Idles

\* Creating a marker needs the name to be free: the first one makes its creator
\* the holder, the other ones are created by the holder.
LEMMA CreateKeeps ==
    ASSUME MarkerInv, NEW p \in Initializers, CreateMarker(p)
    PROVE  MarkerInv'
<1> USE Places
<1>1. Types /\ init[p] \in InitSet /\ init[p].pc = "create" /\ init[p].made \in 1..3
  BY DEF MarkerInv, Types, Listed, CreateMarker, At
<1>2. CASE ~Creatable(p)
  <2>1. init' = [init EXCEPT ![p].pc = "rollback"] /\ UNCHANGED <<marker, db>>
    BY <1>2 DEF CreateMarker, Goto
  <2>2. Types' /\ Listed'
    BY <1>1, <2>1, Updates DEF Types, Listed, MarkerInv, InitSet
  <2> QED BY <1>1, <2>1, <2>2, Idles DEF Types, InitSet
<1>3. CASE Creatable(p)
  <2> DEFINE f == Coming(p)
  <2>1. /\ init' = [init EXCEPT ![p].pc = "fill"]
        /\ marker' = [marker EXCEPT ![f] = "empty"]
        /\ UNCHANGED db
        /\ marker[f] = "none"
    BY <1>3 DEF CreateMarker, Goto, Creatable, Others
  <2>2. f \in Markers /\ f = Files[init[p].made + 1]
    BY <1>1 DEF Coming, Files
  <2>3. /\ init[p].made = 1 => f = "read"
        /\ init[p].made = 2 => f = "write"
        /\ init[p].made = 3 => f = "root"
    BY <1>1, <2>2
  <2> HIDE DEF f
  <2>4. /\ init'[p].pc = "fill" /\ init'[p].made = init[p].made
        /\ init'[p].out = init[p].out
        /\ \A q \in Initializers : q # p => init'[q] = init[q]
    BY <1>1, <2>1 DEF Types, InitSet
  <2>5. \A m \in Markers : marker'[m] = IF m = f THEN "empty" ELSE marker[m]
    BY <1>1, <2>1 DEF Types
  <2>6. Types' /\ Listed'
    BY <1>1, <2>1, <2>2, <2>4 DEF Types, Listed, MarkerInv, InitSet
  <2>7. \A q \in Initializers : q # p => ~Holds(q)
    <3> SUFFICES ASSUME NEW q \in Initializers, q # p, Holds(q) PROVE FALSE
      OBVIOUS
    <3>1. CASE init[p].made >= 2
      BY <3>1 DEF MarkerInv, OneHolder, Holds
    <3>2. CASE init[p].made = 1
      <4>1. marker["read"] = "none"
        BY <2>1, <2>3, <3>2
      <4>2. init[q].pc = "fill" /\ init[q].made = 1
        BY <4>1 DEF MarkerInv, Created, Holds, Listed, Types, InitSet
      <4>3. Coming(q) = "read"
        BY <4>2 DEF Coming
      <4> QED BY <4>1, <4>2, <4>3 DEF MarkerInv, Created
    <3> QED BY <1>1, <3>1, <3>2
  <2>8. OneHolder'
    BY <2>4, <2>7 DEF OneHolder, Holds
  <2>9. Created'
    <3> SUFFICES ASSUME NEW q \in Initializers
                 PROVE  /\ init'[q].made >= 2 => marker'["read"] = "whole"
                        /\ init'[q].made >= 3 => marker'["write"] = "whole"
                        /\ init'[q].pc = "fill" => marker'[Coming(q)'] = "empty"
                        /\ Holds(q)' /\ init'[q].made <= 2 => marker'["write"] # "whole"
      BY DEF Created
    <3>1. CASE q # p
      BY <2>4, <2>7, <3>1 DEF Holds, MarkerInv, Types, InitSet
    <3>2. CASE q = p
      <4>1. Coming(p)' = f
        BY <2>2, <2>4 DEF Coming
      <4>2. marker'[Coming(p)'] = "empty"
        BY <2>2, <2>5, <4>1
      <4>3. init[p].made = 1 => marker'["write"] # "whole"
        BY <2>1, <2>3, <2>5 DEF MarkerInv, AuthorityInOrder
      <4>4. init[p].made = 2 => marker["read"] = "whole" /\ marker'["read"] = "whole"
        BY <2>1, <2>3, <2>5 DEF MarkerInv, Created
      <4>5. init[p].made = 2 => marker'["write"] # "whole"
        BY <2>3, <2>5
      <4>6. init[p].made = 3 => marker'["read"] = "whole" /\ marker'["write"] = "whole"
        BY <2>3, <2>5 DEF MarkerInv, Created
      <4> QED BY <1>1, <2>4, <3>2, <4>2, <4>3, <4>4, <4>5, <4>6
    <3> QED BY <3>1, <3>2
  <2>10. Rooted' /\ OneInitializes'
    BY <2>1, <2>4, <2>5 DEF MarkerInv, Rooted, OneInitializes
  <2>11. AuthorityInOrder'
    BY <2>5 DEF MarkerInv, AuthorityInOrder
  <2> QED BY <2>6, <2>8, <2>9, <2>10, <2>11 DEF MarkerInv
<1> QED BY <1>2, <1>3

\* Writing a marker is the holder's: the list grows by a file that is whole, and
\* who writes the root marker finds nobody that was told INITIALIZED before.
LEMMA FillKeeps ==
    ASSUME MarkerInv, NEW p \in Initializers, FillMarker(p)
    PROVE  MarkerInv'
<1> USE Places
<1> DEFINE f == Coming(p)
<1>1. Types /\ init[p] \in InitSet /\ init[p].pc = "fill" /\ init[p].made \in 1..3
  BY DEF MarkerInv, Types, Listed, FillMarker, At
<1>2. marker' = [marker EXCEPT ![f] = "whole"] /\ UNCHANGED db
  BY DEF FillMarker, Others
<1>3. f \in Markers /\ f = Files[init[p].made + 1]
  BY <1>1 DEF Coming, Files
<1>4. /\ init[p].made = 1 => f = "read"
      /\ init[p].made = 2 => f = "write"
      /\ init[p].made = 3 => f = "root"
  BY <1>1, <1>3
<1>5. /\ f = "root" => End(p, "INITIALIZED")
      /\ f # "root" => Made(p, "create", init[p].made + 1)
  BY DEF FillMarker
<1>6. \A q \in Initializers : q # p => init'[q] = init[q] /\ ~Holds(q)
  BY <1>1, <1>5 DEF End, Made, Types, MarkerInv, OneHolder, Holds
<1>7. /\ marker[f] = "empty"
      /\ init[p].made >= 2 => marker["read"] = "whole"
      /\ init[p].made >= 3 => marker["write"] = "whole"
      /\ init[p].made <= 2 => marker["write"] # "whole"
  BY <1>1 DEF MarkerInv, Created, Holds
<1> HIDE DEF f
<1>8. \A m \in Markers : marker'[m] = IF m = f THEN "whole" ELSE marker[m]
  BY <1>1, <1>2 DEF Types
<1>9. AuthorityInOrder'
  BY <1>1, <1>4, <1>7, <1>8 DEF AuthorityInOrder, MarkerInv
<1>10. CASE init[p].made = 3
  <2>1. f = "root" /\ init' = [init EXCEPT ![p] = [Idle EXCEPT !.out = "INITIALIZED"]]
    BY <1>4, <1>5, <1>10 DEF End
  <2>2. [Idle EXCEPT !.out = "INITIALIZED"] \in InitSet
    BY Ends
  <2>3. init'[p].pc = "idle" /\ init'[p].made = 0
    BY <1>1, <2>1 DEF Idle, Types
  <2>4. Types' /\ Listed'
    BY <1>1, <1>2, <1>3, <1>6, <2>1, <2>2, <2>3 DEF Types, Listed, MarkerInv
  <2>5. \A q \in Initializers : ~Holds(q)'
    BY <1>6, <2>3 DEF Holds
  <2>6. OneHolder' /\ Created'
    BY <2>4, <2>5 DEF OneHolder, Created, Holds, Types, InitSet
  <2>7. \A q \in Initializers : init[q].out # "INITIALIZED"
    BY <1>7, <2>1 DEF MarkerInv, Rooted
  <2>8. \A q \in Initializers : init'[q].out = "INITIALIZED" => q = p
    BY <1>6, <2>7
  <2>9. marker'["root"] = "whole"
    BY <1>8, <2>1
  <2>10. Rooted' /\ OneInitializes'
    <3>1. Rooted'
      BY <2>9 DEF Rooted
    <3>2. ASSUME NEW q \in Initializers, NEW r \in Initializers,
                 init'[q].out = "INITIALIZED", init'[r].out = "INITIALIZED"
          PROVE  q = r
      BY <2>8, <3>2
    <3> QED BY <3>1, <3>2 DEF OneInitializes
  <2> QED BY <1>9, <2>4, <2>6, <2>10 DEF MarkerInv
<1>11. CASE init[p].made # 3
  <2>1. /\ init[p].made \in 1..2 /\ f # "root"
        /\ init' = [init EXCEPT ![p].pc = "create", ![p].made = init[p].made + 1]
    BY <1>1, <1>4, <1>5, <1>11 DEF Made
  <2>2. init' = [init EXCEPT ![p] = [init[p] EXCEPT !.pc = "create", !.made = init[p].made + 1]]
    BY <1>1, <2>1 DEF Types
  <2>3. init[p].made + 1 \in 0..3
    BY <2>1
  <2>4. [init[p] EXCEPT !.pc = "create", !.made = init[p].made + 1] \in InitSet
    BY <1>1, <2>3, Updates
  <2>5. /\ init'[p].pc = "create" /\ init'[p].made = init[p].made + 1
        /\ init'[p].out = init[p].out
    BY <1>1, <2>2 DEF Types, InitSet
  <2>6. Types' /\ Listed'
    BY <1>1, <1>2, <1>3, <1>6, <2>1, <2>2, <2>4, <2>5 DEF Types, Listed, MarkerInv
  <2>7. OneHolder'
    BY <1>6 DEF OneHolder, Holds
  <2>8. Created'
    <3>1. \A q \in Initializers : q # p => ~Holds(q)'
      BY <1>6 DEF Holds
    <3>2. init'[p].made = 2 => marker'["read"] = "whole" /\ marker'["write"] # "whole"
      BY <1>4, <1>7, <1>8, <2>1, <2>5
    <3>3. init'[p].made = 3 => marker'["read"] = "whole" /\ marker'["write"] = "whole"
      BY <1>4, <1>7, <1>8, <2>1, <2>5
    <3> QED BY <2>1, <2>5, <2>6, <3>1, <3>2, <3>3 DEF Created, Holds, Types, InitSet
  <2>9. Rooted' /\ OneInitializes'
    <3>1. marker'["root"] = marker["root"]
      BY <1>8, <2>1
    <3>2. \A q \in Initializers : init'[q].out = init[q].out
      BY <1>6, <2>5
    <3> QED BY <3>1, <3>2 DEF MarkerInv, Rooted, OneInitializes
  <2> QED BY <1>9, <2>6, <2>7, <2>8, <2>9 DEF MarkerInv
<1> QED BY <1>10, <1>11

\* Removing goes down the list, so write authority is gone before read authority,
\* and the root marker is never on it.
LEMMA RollBackKeeps ==
    ASSUME MarkerInv, NEW p \in Initializers, RollBack(p)
    PROVE  MarkerInv'
<1> USE Places
<1>1. Types /\ init[p] \in InitSet /\ init[p].pc = "rollback" /\ init[p].made \in 0..3
  BY DEF MarkerInv, Types, InitSet, RollBack, At
<1>2. CASE init[p].made = 0 /\ End(p, "FAILED") /\ UNCHANGED <<db, saved, marker>>
  <2>1. init' = [init EXCEPT ![p] = [Idle EXCEPT !.out = "FAILED"]]
    BY <1>2 DEF End
  <2>2. init'[p].pc = "idle" /\ init'[p].made = 0 /\ init'[p].out = "FAILED"
    BY <1>1, <2>1 DEF Idle, Types
  <2>3. Types' /\ Listed'
    BY <1>1, <1>2, <2>1, <2>2, Ends DEF Types, Listed, MarkerInv
  <2> QED BY <1>1, <1>2, <2>1, <2>2, <2>3, Idles DEF Types
<1>3. CASE init[p].made = 1 /\ RemoveDatabase(p)
  <2> DEFINE g(q) == init[q].gone \/ (db # "none" /\ Connected(q))
  <2>1. /\ init' = [q \in Initializers |-> IF q = p THEN [init[p] EXCEPT !.made = 0]
                                           ELSE [init[q] EXCEPT !.gone = g(q)]]
        /\ db' = "none" /\ UNCHANGED marker
    BY <1>3 DEF RemoveDatabase
  <2>2. \A q \in Initializers : g(q) \in BOOLEAN /\ init[q] \in InitSet
    BY <1>1 DEF Types, InitSet
  <2> HIDE DEF g
  <2>3. \A q \in Initializers : init'[q] \in InitSet
    BY <2>1, <2>2 DEF InitSet
  <2>4. \A q \in Initializers : init'[q].pc = init[q].pc /\ init'[q].out = init[q].out
    BY <2>1, <2>2 DEF InitSet
  <2>5. \A q \in Initializers :
            /\ q = p => init'[q].made = 0
            /\ q # p => init'[q].made = init[q].made
    BY <2>1, <2>2 DEF InitSet
  <2>6. Types' /\ Listed'
    BY <1>1, <2>1, <2>3, <2>4, <2>5 DEF Types, Listed, MarkerInv
  <2>7. init'[p].made = 0 /\ init'[p].pc = "rollback"
    BY <1>1, <2>4, <2>5
  <2>8. ASSUME NEW q \in Initializers
        PROVE  /\ init'[q].made >= 2 => init'[q].made = init[q].made
               /\ init'[q].pc = "fill" => init[q].pc = "fill" /\ init'[q].made = init[q].made
               /\ init'[q].out = "INITIALIZED" => init[q].out = "INITIALIZED"
    BY <1>1, <2>4, <2>5, <2>7
  <2> QED BY <2>1, <2>6, <2>8, Idles
<1>4. CASE init[p].made > 1 /\ RemoveMarker(p)
  <2> DEFINE f == Files[init[p].made]
  <2>1. /\ marker' = [marker EXCEPT ![f] = "none"]
        /\ init' = [init EXCEPT ![p].pc = "rollback", ![p].made = init[p].made - 1]
        /\ UNCHANGED db /\ init[p].made \in 2..3
    BY <1>1, <1>4 DEF RemoveMarker, Made
  <2>2. /\ f \in Markers
        /\ init[p].made = 2 => f = "read"
        /\ init[p].made = 3 => f = "write"
    BY <2>1
  <2> HIDE DEF f
  <2>3. init' = [init EXCEPT ![p] = [init[p] EXCEPT !.pc = "rollback", !.made = init[p].made - 1]]
    BY <1>1, <2>1 DEF Types
  <2>4. init[p].made - 1 \in 0..3
    BY <2>1
  <2>5. [init[p] EXCEPT !.pc = "rollback", !.made = init[p].made - 1] \in InitSet
    BY <1>1, <2>4, Updates
  <2>6. /\ init'[p].pc = "rollback" /\ init'[p].made = init[p].made - 1
        /\ init'[p].out = init[p].out
        /\ \A q \in Initializers : q # p => init'[q] = init[q]
    BY <1>1, <2>3 DEF Types, InitSet
  <2>7. \A m \in Markers : marker'[m] = IF m = f THEN "none" ELSE marker[m]
    BY <1>1, <2>1 DEF Types
  <2>8. Types' /\ Listed'
    BY <1>1, <2>1, <2>2, <2>3, <2>5, <2>6 DEF Types, Listed, MarkerInv
  <2>9. \A q \in Initializers : q # p => ~Holds(q) /\ ~Holds(q)'
    <3>1. Holds(p)
      BY <2>1 DEF Holds
    <3>2. \A q \in Initializers : q # p => ~Holds(q)
      BY <3>1 DEF MarkerInv, OneHolder
    <3> QED BY <2>6, <3>2 DEF Holds
  <2>10. OneHolder'
    BY <2>9 DEF OneHolder
  <2>11. /\ init[p].made = 2 => marker["write"] # "whole" /\ marker'["write"] # "whole"
         /\ init[p].made = 3 => marker'["read"] = "whole" /\ marker'["write"] = "none"
    BY <2>1, <2>2, <2>7 DEF MarkerInv, Created, Holds
  <2>12. Created'
    <3>1. CASE init[p].made = 2
      BY <2>6, <2>9, <2>8, <2>11, <3>1 DEF Created, Holds, Types, InitSet
    <3>2. CASE init[p].made = 3
      BY <2>6, <2>9, <2>8, <2>11, <3>2 DEF Created, Holds, Types, InitSet
    <3> QED BY <2>1, <3>1, <3>2
  <2>13. Rooted' /\ OneInitializes'
    <3>1. marker'["root"] = marker["root"]
      BY <2>1, <2>2, <2>7
    <3>2. \A q \in Initializers : init'[q].out = init[q].out
      BY <2>6
    <3> QED BY <3>1, <3>2 DEF MarkerInv, Rooted, OneInitializes
  <2>14. AuthorityInOrder'
    BY <2>1, <2>2, <2>7, <2>11 DEF MarkerInv, AuthorityInOrder
  <2> QED BY <2>8, <2>10, <2>12, <2>13, <2>14 DEF MarkerInv
<1> QED BY <1>2, <1>3, <1>4 DEF RollBack

LEMMA StepKeeps == MarkerInv /\ [Next]_vars => MarkerInv'
<1> SUFFICES ASSUME MarkerInv, [Next]_vars PROVE MarkerInv'
  OBVIOUS
<1>1. ASSUME NEW p \in Initializers, Initialize(p) PROVE MarkerInv'
  BY <1>1, AsideKeeps, CreateKeeps, FillKeeps, RollBackKeeps DEF Initialize, Aside
<1> QED BY <1>1, EnvironmentKeeps DEF Next

LEMMA MarkersHeld == Spec => []MarkerInv
BY Starts, StepKeeps, PTL DEF Spec

\* However many processes initialize one directory at once and whatever fails, one
\* of them at most is told that it did (_write_new_marker).
THEOREM OneInitializer == Spec => []OneInitializes
<1>1. MarkerInv => OneInitializes
  BY DEF MarkerInv
<1> QED BY <1>1, MarkersHeld, PTL

\* A directory that accepts knowledge also serves it, through every interleaving,
\* crash and rollback (initialize_knowledge_root).
THEOREM AuthorityOrdered == Spec => []AuthorityInOrder
<1>1. MarkerInv => AuthorityInOrder
  BY DEF MarkerInv
<1> QED BY <1>1, MarkersHeld, PTL

-----------------------------------------------------------------------------
(* The rest of the types, and the schema.                                   *)

Plain ==
    /\ targets \in BOOLEAN /\ foreign \in BOOLEAN /\ saved \in BOOLEAN
    /\ overlap \in BOOLEAN
    /\ reader \in [seen : 0..3, out : {"NONE", "READY", "NOT_READY"}]
    /\ faults \in 0..MaxFaults

\* The process that runs the schema on the file that is there.
Builds(p) == init[p].pc \in {"stamp", "tables"} /\ ~init[p].gone

OneBuilder ==
    /\ \A p, q \in Initializers : Builds(p) /\ Builds(q) => p = q
    /\ \A p \in Initializers : Builds(p) =>
           db = IF init[p].pc = "stamp" THEN "begun" ELSE "stamped"

SchemaInv == MarkerInv /\ Plain /\ OneBuilder

LEMMA PlainStep == Plain /\ [Next]_vars => Plain'
<1> SUFFICES ASSUME Plain, [Next]_vars PROVE Plain'
  OBVIOUS
<1>0. faults \in 0..MaxFaults
  BY DEF Plain
<1>1. ASSUME Fault PROVE faults' \in 0..MaxFaults
  BY <1>0, <1>1, ConstantsOK DEF Fault
<1> USE DEF Plain
<1>2. ASSUME NEW p \in Initializers, Initialize(p) PROVE Plain'
  <2>1. CASE AssertInitializable(p)
    <3>1. overlap' \in BOOLEAN
      BY <2>1 DEF AssertInitializable
    <3> QED BY <2>1, <3>1 DEF AssertInitializable
  <2>2. CASE RollBack(p)
    <3>1. saved' \in BOOLEAN
      BY <2>2 DEF RollBack, RemoveDatabase, RemoveMarker
    <3> QED BY <2>2, <3>1 DEF RollBack
  <2>3. CASE Fails(p) \/ Crash(p)
    BY <2>3, <1>1 DEF Fails, Crash, Others
  <2> QED
    BY <1>2, <2>1, <2>2, <2>3
       DEF Initialize, LookForTargets, MakeTargets, LookForDatabase, Connect, BeginSchema,
           StampSchema, FinishSchema, ValidateSchema, CreateMarker, FillMarker, Others
<1>3. CASE Preflight
  <2>1. reader' \in [seen : 0..3, out : {"NONE", "READY", "NOT_READY"}]
    BY <1>3 DEF Preflight
  <2> QED BY <1>3, <2>1 DEF Preflight
<1> QED BY <1>2, <1>3 DEF Next, BeginDiscovery, Save, vars

\* One builder stays one builder when no process comes to build, and none that
\* still builds loses its step or its file.
LEMMA NobodyBuilds ==
    ASSUME OneBuilder,
           \A q \in Initializers : Builds(q)' => Builds(q) /\ init'[q].pc = init[q].pc,
           (\E q \in Initializers : Builds(q)') => UNCHANGED db
    PROVE  OneBuilder'
BY DEF OneBuilder

LEMMA BuilderStep == SchemaInv /\ [Next]_vars => OneBuilder'
<1> SUFFICES ASSUME SchemaInv, [Next]_vars PROVE OneBuilder'
  OBVIOUS
<1>1. /\ OneBuilder
      /\ init \in [Initializers -> InitSet]
      /\ \A q \in Initializers : init[q].gone \in BOOLEAN /\ init[q].pc \in Pcs
  BY DEF SchemaInv, MarkerInv, Types, InitSet
<1>2. ASSUME UNCHANGED <<init, db>> PROVE OneBuilder'
  BY <1>1, <1>2, NobodyBuilds DEF Builds
<1>3. ASSUME NEW p \in Initializers, NEW c, Goto(p, c), c \notin {"stamp", "tables"},
             UNCHANGED db \/ db = "none" \/ Builds(p)
      PROVE  OneBuilder'
  <2>1. \A q \in Initializers : Builds(q)' => q # p /\ Builds(q) /\ init'[q] = init[q]
    BY <1>1, <1>3 DEF Goto, Builds
  <2>2. (\E q \in Initializers : Builds(q)') => UNCHANGED db
    BY <1>1, <1>3, <2>1 DEF OneBuilder
  <2> QED BY <1>1, <2>1, <2>2, NobodyBuilds
<1>4. ASSUME NEW p \in Initializers, NEW o, End(p, o), UNCHANGED db PROVE OneBuilder'
  <2>1. \A q \in Initializers : Builds(q)' => Builds(q) /\ init'[q] = init[q]
    BY <1>1, <1>4 DEF End, Builds, Idle
  <2> QED BY <1>1, <1>4, <2>1, NobodyBuilds
<1>5. ASSUME NEW p \in Initializers, NEW n, Made(p, "create", n) \/ Made(p, "rollback", n),
             UNCHANGED db
      PROVE  OneBuilder'
  <2>0. PICK c \in {"create", "rollback"} :
          init' = [init EXCEPT ![p] = [init[p] EXCEPT !.pc = c, !.made = n]]
    BY <1>1, <1>5 DEF Made
  <2>1. \A q \in Initializers : Builds(q)' => Builds(q) /\ init'[q] = init[q]
    BY <1>1, <2>0 DEF Builds, InitSet
  <2> QED BY <1>1, <1>5, <2>1, NobodyBuilds
<1>6. ASSUME NEW p \in Initializers, LookForDatabase(p) PROVE OneBuilder'
  <2>1. \A q \in Initializers : Builds(q)' => Builds(q) /\ init'[q] = init[q]
    BY <1>1, <1>6 DEF LookForDatabase, Builds
  <2> QED BY <1>1, <1>6, <2>1, NobodyBuilds DEF LookForDatabase
<1>7. ASSUME NEW p \in Initializers, BeginSchema(p) PROVE OneBuilder'
  <2>1. CASE End(p, "FAILED") /\ UNCHANGED db
    BY <2>1, <1>4
  <2>2. CASE (db = "empty" \/ init[p].gone) /\ Becomes(p, "begun") /\ Goto(p, "stamp")
    <3>1. \A q \in Initializers \ {p} : init'[q] = init[q]
      BY <1>1, <2>2 DEF Goto
    <3>2. init'[p].pc = "stamp" /\ init'[p].gone = init[p].gone
      BY <1>1, <2>2 DEF Goto, InitSet
    <3>3. CASE init[p].gone
      BY <1>1, <2>2, <3>1, <3>2, <3>3, NobodyBuilds DEF Becomes, Builds
    <3>4. CASE ~init[p].gone
      <4>1. db = "empty" /\ db' = "begun"
        BY <2>2, <3>4 DEF Becomes
      <4>2. \A q \in Initializers : ~Builds(q)
        BY <1>1, <4>1 DEF OneBuilder
      <4>3. \A q \in Initializers : Builds(q)' => q = p
        BY <4>2, <3>1 DEF Builds
      <4> QED BY <3>2, <4>1, <4>3 DEF OneBuilder
    <3> QED BY <3>3, <3>4
  <2> QED BY <1>7, <2>1, <2>2 DEF BeginSchema
<1>8. ASSUME NEW p \in Initializers, StampSchema(p) PROVE OneBuilder'
  <2>1. \A q \in Initializers \ {p} : init'[q] = init[q]
    BY <1>1, <1>8 DEF StampSchema, Goto
  <2>2. init'[p].pc = "tables" /\ init'[p].gone = init[p].gone /\ init[p].pc = "stamp"
    BY <1>1, <1>8 DEF StampSchema, Goto, InitSet, At
  <2>3. \A q \in Initializers : Builds(q)' <=> Builds(q)
    BY <2>1, <2>2 DEF Builds
  <2>4. CASE init[p].gone
    BY <1>1, <1>8, <2>1, <2>3, <2>4 DEF StampSchema, Becomes, Builds, OneBuilder
  <2>5. CASE ~init[p].gone
    <3>1. db' = "stamped" /\ Builds(p)
      BY <1>8, <2>2, <2>5 DEF StampSchema, Becomes, Builds
    <3> QED BY <1>1, <2>2, <2>3, <3>1 DEF OneBuilder
  <2> QED BY <2>4, <2>5
<1>9. ASSUME NEW p \in Initializers, FinishSchema(p) PROVE OneBuilder'
  <2>1. Goto(p, "validate") /\ (Builds(p) \/ UNCHANGED db)
    BY <1>1, <1>9 DEF FinishSchema, Becomes, Builds, At
  <2> QED BY <2>1, <1>3
<1>10. ASSUME NEW p \in Initializers, Connect(p) PROVE OneBuilder'
  <2>1. PICK c \in {"validate", "begin"} : Goto(p, c)
    BY <1>10 DEF Connect
  <2>2. UNCHANGED db \/ db = "none"
    BY <1>10 DEF Connect
  <2> QED BY <1>3, <2>1, <2>2
<1>11. ASSUME NEW p \in Initializers, RollBack(p), RemoveDatabase(p) PROVE OneBuilder'
  <2>1. ~Builds(p)'
    <3>1. init[p].pc = "rollback" /\ init'[p] = [init[p] EXCEPT !.made = 0]
      BY <1>1, <1>11 DEF RollBack, RemoveDatabase, At
    <3> QED BY <1>1, <3>1 DEF Builds, InitSet
  <2>2. \A q \in Initializers \ {p} : ~Builds(q)'
    <3> TAKE q \in Initializers \ {p}
    <3>1. init'[q] = [init[q] EXCEPT !.gone = @ \/ (db # "none" /\ Connected(q))]
      BY <1>11 DEF RemoveDatabase
    <3>2. init'[q].pc = init[q].pc
          /\ init'[q].gone = (init[q].gone \/ (db # "none" /\ Connected(q)))
      BY <1>1, <3>1 DEF InitSet
    <3> QED BY <1>1, <3>2 DEF Builds, Connected, OneBuilder
  <2> QED BY <2>1, <2>2 DEF OneBuilder
<1>12. ASSUME NEW p \in Initializers, Initialize(p) PROVE OneBuilder'
  <2>1. CASE AssertInitializable(p) \/ LookForTargets(p) \/ MakeTargets(p)
    BY <2>1, <1>3, <1>4 DEF AssertInitializable, LookForTargets, MakeTargets, Others
  <2>2. CASE ValidateSchema(p) \/ CreateMarker(p) \/ FillMarker(p)
    BY <2>2, <1>3, <1>4, <1>5 DEF ValidateSchema, CreateMarker, FillMarker
  <2>3. CASE Fails(p) \/ Crash(p)
    BY <2>3, <1>3, <1>4 DEF Fails, Crash
  <2>4. CASE RollBack(p)
    BY <2>4, <1>4, <1>5, <1>11 DEF RollBack, RemoveMarker
  <2> QED BY <1>12, <1>6, <1>7, <1>8, <1>9, <1>10, <2>1, <2>2, <2>3, <2>4 DEF Initialize
<1> QED BY <1>2, <1>12 DEF Next, Preflight, BeginDiscovery, Save, vars

LEMMA SchemaStarts == Init => SchemaInv
<1>1. Init => Plain
  <2>1. Init => faults \in 0..MaxFaults
    BY ConstantsOK DEF Init
  <2>2. Init => reader \in [seen : 0..3, out : {"NONE", "READY", "NOT_READY"}]
    BY DEF Init
  <2>3. Init => /\ targets \in BOOLEAN /\ foreign \in BOOLEAN /\ saved \in BOOLEAN
                /\ overlap \in BOOLEAN
    BY DEF Init
  <2> QED BY <2>1, <2>2, <2>3 DEF Plain
<1>2. Init => OneBuilder
  BY DEF Init, Idle, OneBuilder, Builds
<1> QED BY <1>1, <1>2, Starts DEF SchemaInv

LEMMA SchemaStep == SchemaInv /\ [Next]_vars => SchemaInv'
BY StepKeeps, PlainStep, BuilderStep DEF SchemaInv

LEMMA SchemaHeld == Spec => []SchemaInv
BY SchemaStarts, SchemaStep, PTL DEF Spec

\* Every variable has its type, and the schema is run by one process at a time on
\* the file that is there, however many initialize one directory at once (_open).
THEOREM InstallationTyped == Spec => []TypeOK
<1>1. SchemaInv => TypeOK
  BY DEF SchemaInv, MarkerInv, Plain, Types, InitSet, Pcs, OneBuilder, Builds, TypeOK, At
<1> QED BY <1>1, SchemaHeld, PTL
-----------------------------------------------------------------------------
(* One initialization at a time.                                            *)

\* How far the database is when a process that is alone is at a step.
Reached(pc) ==
    CASE pc \in {"dirs", "mkdir", "open", "connect"} -> {"none"}
      [] pc = "begin"  -> {"empty"}
      [] pc = "stamp"  -> {"begun"}
      [] pc = "tables" -> {"stamped"}
      [] OTHER         -> {"complete"}

\* A process that is under way alone: it found nothing, the database is its own,
\* and nobody has been told INITIALIZED.
Alone(p) ==
    /\ \A q \in Initializers : Running(q) => q = p
    /\ \A q \in Initializers : init[q].out # "INITIALIZED"
    /\ At(p, "connect") => ~init[p].exists
    /\ init[p].made > 0 \/ ~At(p, "rollback") => db \in Reached(init[p].pc)
    /\ init[p].pc \notin {"dirs", "mkdir", "rollback"} => targets
    /\ marker["write"] = "whole" => init[p].made = 3

Sequential ==
    ~overlap =>
        /\ \A p \in Initializers : ~init[p].gone /\ (Running(p) => Alone(p))
        /\ marker["write"] = "whole" => db = "complete"
        /\ (\E p \in Initializers : init[p].out = "INITIALIZED") => Installed

AloneInv == SchemaInv /\ Sequential

\* The fresh directory a process starts from.
LEMMA AssertKeeps ==
    ASSUME AloneInv, NEW p \in Initializers, AssertInitializable(p)
    PROVE  Sequential'
<1>1. /\ init \in [Initializers -> InitSet] /\ Sequential /\ Rooted
      /\ UNCHANGED <<db, marker, targets>> /\ init[p].pc = "idle" /\ init[p].made = 0
  BY DEF AloneInv, SchemaInv, MarkerInv, Types, Listed, AssertInitializable, At
<1>2. CASE ~Fresh
  <2>1. init' = [init EXCEPT ![p] = [Idle EXCEPT !.out = "REFUSED"]] /\ overlap' = overlap
    BY <1>2, <1>1 DEF AssertInitializable, End, AloneInv, SchemaInv, Plain
  <2>2. \A q \in Initializers : Running(q)' => q # p /\ init'[q] = init[q] /\ Running(q)
    BY <1>1, <2>1 DEF Running, At, Idle
  <2>3. \A q \in Initializers :
          /\ init'[q].out = "INITIALIZED" => init[q].out = "INITIALIZED"
          /\ init'[q].gone => init[q].gone
    BY <1>1, <2>1 DEF Idle
  <2>4. ASSUME ~overlap, NEW q \in Initializers, Running(q)' PROVE Alone(q)'
    BY <1>1, <2>1, <2>2, <2>3, <2>4 DEF Sequential, Alone, At, Reached
  <2> QED BY <1>1, <2>1, <2>3, <2>4 DEF Sequential, Installed
<1>3. CASE Fresh
  <2>1. init' = [init EXCEPT ![p].pc = "dirs"]
    BY <1>3 DEF AssertInitializable, Goto
  <2>2. db = "none" /\ \A m \in Markers : marker[m] = "none"
    BY <1>3 DEF Fresh
  <2>3. SUFFICES ASSUME ~overlap' PROVE Sequential'
    BY DEF Sequential
  <2>4. ~overlap /\ \A q \in Initializers : init[q].pc = "idle"
    BY <1>3, <2>3 DEF AssertInitializable, Running, At, AloneInv, SchemaInv, Plain
  <2>5. \A q \in Initializers : init[q].out # "INITIALIZED" /\ ~init[q].gone
    BY <1>1, <2>2, <2>4, Places DEF Rooted, Sequential
  <2>6. /\ init'[p].pc = "dirs" /\ init'[p].out = init[p].out /\ init'[p].gone = init[p].gone
        /\ init'[p].made = 0
        /\ \A q \in Initializers \ {p} : init'[q] = init[q]
    BY <1>1, <2>1 DEF InitSet
  <2>7. \A q \in Initializers : ~init'[q].gone /\ init'[q].out # "INITIALIZED"
    BY <2>5, <2>6
  <2>8. ASSUME NEW q \in Initializers, Running(q)' PROVE q = p
    BY <2>4, <2>6, <2>8 DEF Running, At
  <2>9. Alone(p)'
    BY <1>1, <2>2, <2>6, <2>7, <2>8, Places DEF Alone, At, Reached
  <2> QED BY <1>1, <2>2, <2>7, <2>8, <2>9, Places DEF Sequential
<1> QED BY <1>2, <1>3

\* A step of a process that is alone: what has to be shown of it.
LEMMA AloneMoves ==
    ASSUME AloneInv, ~overlap, NEW p \in Initializers, Running(p),
           \A q \in Initializers \ {p} :
               /\ init'[q].pc = init[q].pc /\ init'[q].out = init[q].out
               /\ init'[q].gone = init[q].gone,
           ~init'[p].gone,
           marker'["write"] = "whole" => db' = "complete",
           init'[p].out = "INITIALIZED" => Installed',
           init'[p].pc # "idle" =>
               /\ init'[p].out # "INITIALIZED"
               /\ init'[p].pc = "connect" => ~init'[p].exists
               /\ init'[p].made > 0 \/ init'[p].pc # "rollback" => db' \in Reached(init'[p].pc)
               /\ init'[p].pc \notin {"dirs", "mkdir", "rollback"} => targets'
               /\ marker'["write"] = "whole" => init'[p].made = 3
    PROVE  Sequential'
<1>1. Alone(p) /\ \A q \in Initializers : ~init[q].gone
  BY DEF AloneInv, Sequential
<1>2. \A q \in Initializers \ {p} :
        init'[q].pc = "idle" /\ init'[q].out # "INITIALIZED" /\ ~init'[q].gone
  BY <1>1 DEF Alone, Running, At
<1>3. \A q \in Initializers : Running(q)' => q = p
  BY <1>2 DEF Running, At
<1>4. Running(p)' => Alone(p)'
  BY <1>2, <1>3 DEF Running, At, Alone
<1> QED BY <1>2, <1>3, <1>4 DEF Sequential

\* Every file operation of a process that is alone.
LEMMA AloneKeeps ==
    ASSUME AloneInv, NEW p \in Initializers, Initialize(p), ~AssertInitializable(p)
    PROVE  Sequential'
<1>1. /\ init \in [Initializers -> InitSet] /\ init[p] \in InitSet
      /\ marker \in [Markers -> {"none", "empty", "whole"}]
      /\ Listed /\ Created /\ Sequential
  BY DEF AloneInv, SchemaInv, MarkerInv, Types
<1>2. overlap' = overlap /\ Running(p)
  BY DEF Initialize, LookForTargets, MakeTargets, LookForDatabase, Connect, BeginSchema,
         StampSchema, FinishSchema, ValidateSchema, CreateMarker, FillMarker, Fails, RollBack,
         Crash, Others, Running, At
<1> SUFFICES ASSUME ~overlap PROVE Sequential'
  BY <1>2 DEF Sequential
<1>3. Alone(p) /\ \A q \in Initializers : ~init[q].gone
  BY <1>2, <1>1 DEF Sequential
<1>4. /\ marker["write"] = "whole" => db = "complete" /\ init[p].made = 3
      /\ \A q \in Initializers : init[q].out # "INITIALIZED"
      /\ init[p].made \in 0..3
  BY <1>1, <1>3 DEF Sequential, Alone, InitSet
<1>5. \A c, n : Made(p, c, n) =>
          init' = [init EXCEPT ![p] = [init[p] EXCEPT !.pc = c, !.made = n]]
  BY <1>1 DEF Made
<1>6. ASSUME NEW c, Goto(p, c)
      PROVE  /\ \A q \in Initializers \ {p} : init'[q] = init[q]
             /\ init'[p].pc = c /\ init'[p].made = init[p].made /\ ~init'[p].gone
             /\ init'[p].out # "INITIALIZED" /\ init'[p].exists = init[p].exists
  BY <1>1, <1>3, <1>4, <1>6 DEF Goto, InitSet
<1>7. ASSUME NEW c, NEW n, Made(p, c, n)
      PROVE  /\ \A q \in Initializers \ {p} : init'[q] = init[q]
             /\ init'[p].pc = c /\ init'[p].made = n /\ ~init'[p].gone
             /\ init'[p].out # "INITIALIZED"
  <2>1. init' = [init EXCEPT ![p] = [init[p] EXCEPT !.pc = c, !.made = n]]
    BY <1>5, <1>7
  <2> QED BY <1>1, <1>3, <1>4, <2>1 DEF InitSet
<1>8. ASSUME NEW o, End(p, o)
      PROVE  /\ \A q \in Initializers \ {p} : init'[q] = init[q]
             /\ init'[p].pc = "idle" /\ ~init'[p].gone /\ init'[p].out = o
  BY <1>1, <1>8 DEF End, Idle
<1>9. ASSUME End(p, "FAILED") \/ End(p, "NONE"), UNCHANGED <<db, marker>>
      PROVE  Sequential'
  BY <1>2, <1>4, <1>8, <1>9, AloneMoves
<1>10. CASE LookForTargets(p) \/ MakeTargets(p)
  <2>1. CASE LookForTargets(p)
    BY <1>1, <1>2, <1>3, <1>4, <1>6, <2>1, AloneMoves
       DEF LookForTargets, At, Alone, Reached
  <2>2. CASE MakeTargets(p) /\ ~targets
    BY <1>1, <1>2, <1>3, <1>4, <1>6, <2>2, AloneMoves DEF MakeTargets, At, Alone, Reached
  <2>3. CASE MakeTargets(p) /\ targets
    BY <1>9, <2>3 DEF MakeTargets
  <2> QED BY <1>10, <2>1, <2>2, <2>3
<1>11. CASE LookForDatabase(p)
  <2>1. /\ \A q \in Initializers \ {p} : init'[q] = init[q]
        /\ init'[p].pc = "connect" /\ init'[p].made = init[p].made /\ ~init'[p].gone
        /\ init'[p].out # "INITIALIZED" /\ init'[p].exists = (db # "none")
    BY <1>1, <1>3, <1>4, <1>11 DEF LookForDatabase, InitSet
  <2>2. db = "none" /\ targets /\ UNCHANGED <<db, marker, targets>>
    BY <1>3, <1>11 DEF LookForDatabase, Alone, At, Reached
  <2> QED BY <1>2, <1>4, <2>1, <2>2, AloneMoves DEF Reached
<1>12. CASE Connect(p)
  <2>1. db = "none" /\ targets /\ ~init[p].exists /\ init[p].made = 0
    BY <1>1, <1>3, <1>12 DEF Connect, Alone, At, Reached, Listed
  <2>2. db' = "empty" /\ Goto(p, "begin") /\ UNCHANGED <<marker, targets>>
    BY <1>12, <2>1 DEF Connect
  <2> QED BY <1>2, <1>4, <1>6, <2>1, <2>2, AloneMoves DEF Reached
<1>13. CASE BeginSchema(p) \/ StampSchema(p) \/ FinishSchema(p)
  <2>1. targets /\ init[p].made = 0 /\ UNCHANGED <<marker, targets>>
    BY <1>1, <1>3, <1>13 DEF BeginSchema, StampSchema, FinishSchema, Alone, At, Listed
  <2>2. \A state : Becomes(p, state) => db' = state
    BY <1>3 DEF Becomes
  <2>3. CASE BeginSchema(p)
    <3>1. db = "empty"
      BY <1>3, <2>3 DEF BeginSchema, Alone, At, Reached
    <3>2. db' = "begun" /\ Goto(p, "stamp")
      BY <1>3, <2>2, <2>3, <3>1 DEF BeginSchema
    <3> QED BY <1>2, <1>4, <1>6, <2>1, <3>2, AloneMoves DEF Reached
  <2>4. CASE StampSchema(p)
    BY <1>2, <1>4, <1>6, <2>1, <2>2, <2>4, AloneMoves DEF StampSchema, Reached
  <2>5. CASE FinishSchema(p)
    BY <1>2, <1>4, <1>6, <2>1, <2>2, <2>5, AloneMoves DEF FinishSchema, Reached
  <2> QED BY <1>13, <2>3, <2>4, <2>5
<1>14. CASE ValidateSchema(p)
  <2>1. db = "complete" /\ targets /\ init[p].made = 0 /\ UNCHANGED <<db, marker, targets>>
    BY <1>1, <1>3, <1>14 DEF ValidateSchema, Alone, At, Reached, Listed
  <2>2. Made(p, "create", 1)
    BY <1>3, <1>14, <2>1 DEF ValidateSchema, Stamped
  <2> QED BY <1>2, <1>4, <1>7, <2>1, <2>2, AloneMoves DEF Reached
<1>15. CASE CreateMarker(p)
  <2>1. db = "complete" /\ targets /\ init[p].made \in 1..3 /\ UNCHANGED <<db, targets>>
    BY <1>1, <1>3, <1>15 DEF CreateMarker, Alone, At, Reached, Listed
  <2>2. marker'["write"] = "whole" => marker["write"] = "whole"
    <3>1. UNCHANGED marker \/ marker' = [marker EXCEPT ![Coming(p)] = "empty"]
      BY <1>15 DEF CreateMarker
    <3> QED BY <1>1, <3>1, Places
  <2>3. Goto(p, "fill") \/ Goto(p, "rollback")
    BY <1>15 DEF CreateMarker
  <2> QED BY <1>2, <1>4, <1>6, <2>1, <2>2, <2>3, AloneMoves DEF Reached
<1>16. CASE FillMarker(p)
  <2>1. db = "complete" /\ targets /\ init[p].made \in 1..3 /\ UNCHANGED <<db, targets>>
    BY <1>1, <1>3, <1>16 DEF FillMarker, Alone, At, Reached, Listed
  <2>2. marker' = [marker EXCEPT ![Coming(p)] = "whole"]
    BY <1>16 DEF FillMarker
  <2>3. CASE init[p].made = 3
    <3>1. Coming(p) = "root" /\ marker["read"] = "whole" /\ marker["write"] = "whole"
      BY <1>1, <2>3, Places DEF Coming, Created
    <3>2. Installed'
      BY <1>1, <2>1, <2>2, <3>1, Places DEF Installed, Markers
    <3>3. End(p, "INITIALIZED")
      BY <1>16, <3>1 DEF FillMarker
    <3> QED BY <1>2, <1>8, <2>1, <3>2, <3>3, AloneMoves
  <2>4. CASE init[p].made # 3
    <3>1. /\ \/ init[p].made = 1 /\ Coming(p) = "read"
             \/ init[p].made = 2 /\ Coming(p) = "write"
          /\ Coming(p) # "root"
      BY <2>1, <2>4, Places DEF Coming
    <3>2. Made(p, "create", init[p].made + 1)
      BY <1>16, <3>1 DEF FillMarker
    <3>3. marker'["write"] = "whole" => init[p].made + 1 = 3
      BY <1>1, <1>4, <2>2, <3>1
    <3> QED BY <1>2, <1>4, <1>7, <2>1, <3>1, <3>2, <3>3, AloneMoves DEF Reached
  <2> QED BY <2>3, <2>4
<1>17. CASE Fails(p)
  <2>1. Goto(p, "rollback") /\ UNCHANGED <<db, marker, targets>>
    BY <1>17 DEF Fails
  <2>2. init[p].made > 0 => db = "complete"
    BY <1>1, <1>3, <1>17 DEF Fails, At, Listed, Alone, Reached
  <2> QED BY <1>2, <1>4, <1>6, <2>1, <2>2, AloneMoves DEF Reached
<1>18. CASE Crash(p)
  BY <1>9, <1>18 DEF Crash
<1>19. CASE RollBack(p)
  <2>1. init[p].pc = "rollback" /\ UNCHANGED targets
    BY <1>19 DEF RollBack, At
  <2>2. init[p].made > 0 => db = "complete"
    BY <1>3, <2>1 DEF Alone, Reached
  <2>3. CASE init[p].made = 0 /\ End(p, "FAILED") /\ UNCHANGED <<db, saved, marker>>
    BY <2>3, <1>9
  <2>4. CASE init[p].made = 1 /\ RemoveDatabase(p)
    <3>1. /\ init'[p] = [init[p] EXCEPT !.made = 0] /\ marker' = marker
          /\ \A q \in Initializers \ {p} :
               init'[q] = [init[q] EXCEPT !.gone = @ \/ (db # "none" /\ Connected(q))]
      BY <2>4 DEF RemoveDatabase
    <3>2. \A q \in Initializers \ {p} : init[q].pc = "idle"
      BY <1>3 DEF Alone, Running, At
    <3>3. \A q \in Initializers \ {p} :
            /\ init'[q].pc = init[q].pc /\ init'[q].out = init[q].out
            /\ init'[q].gone = init[q].gone
      BY <1>1, <1>3, <3>1, <3>2 DEF InitSet, Connected
    <3>4. /\ init'[p].pc = "rollback" /\ init'[p].made = 0 /\ ~init'[p].gone
          /\ init'[p].out # "INITIALIZED"
      BY <1>1, <1>3, <1>4, <2>1, <3>1 DEF InitSet
    <3>5. marker'["write"] # "whole"
      BY <1>4, <2>4, <3>1
    <3>6. init'[p].pc = "rollback" /\ ~(init'[p].made > 0)
      BY <3>4
    <3> QED BY <1>2, <3>3, <3>4, <3>5, <3>6, AloneMoves
  <2>5. CASE init[p].made > 1 /\ RemoveMarker(p)
    <3>1. Made(p, "rollback", init[p].made - 1) /\ UNCHANGED db
      BY <2>5 DEF RemoveMarker
    <3>2. marker'["write"] # "whole"
      <4>1. init[p].made = 2 \/ init[p].made = 3
        BY <1>4, <2>5
      <4> QED BY <1>1, <1>4, <2>5, <4>1, Places DEF RemoveMarker
    <3>3. init[p].made - 1 > 0 /\ db' = "complete"
      BY <1>4, <2>2, <2>5, <3>1
    <3> QED BY <1>2, <1>7, <2>1, <3>1, <3>2, <3>3, AloneMoves DEF Reached
  <2> QED BY <1>19, <2>3, <2>4, <2>5 DEF RollBack
<1> QED
  BY <1>10, <1>11, <1>12, <1>13, <1>14, <1>15, <1>16, <1>17, <1>18, <1>19 DEF Initialize

LEMMA SequentialStarts == Init => Sequential
<1> SUFFICES ASSUME Init PROVE Sequential
  OBVIOUS
<1>1. marker["write"] = "none"
  BY Places DEF Init
<1>2. \A p \in Initializers : ~init[p].gone /\ ~Running(p) /\ init[p].out = "NONE"
  BY DEF Init, Idle, Running, At
<1> QED BY <1>1, <1>2 DEF Sequential

LEMMA SequentialStep == AloneInv /\ [Next]_vars => Sequential'
<1> SUFFICES ASSUME AloneInv, [Next]_vars PROVE Sequential'
  OBVIOUS
<1>1. ASSUME UNCHANGED <<db, marker, init, targets, overlap>> PROVE Sequential'
  BY <1>1 DEF AloneInv, Sequential, Alone, Running, At, Installed, Reached
<1> QED BY <1>1, AssertKeeps, AloneKeeps DEF Next, Preflight, BeginDiscovery, Save, vars

LEMMA AloneHeld == Spec => []AloneInv
<1>1. Init => AloneInv
  <2>1. Init => SchemaInv
    BY SchemaStarts
  <2> QED BY <2>1, SequentialStarts DEF AloneInv
<1>2. AloneInv /\ [Next]_vars => AloneInv'
  BY SequentialStep, SchemaStep DEF AloneInv
<1> QED BY <1>1, <1>2, PTL DEF Spec

\* A process that had the directory to itself and answers INITIALIZED leaves a
\* complete installation, whatever earlier attempts have left (assert_initializable).
THEOREM InitializedInstalled == Spec => []InitializedIsInstalled
<1>1. AloneInv => InitializedIsInstalled
  BY DEF AloneInv, Sequential, InitializedIsInstalled
<1> QED BY <1>1, AloneHeld, PTL

-----------------------------------------------------------------------------
\* Nothing removes the root marker, so that what preflight has seen of it stays.
RootSeen == reader.seen >= 1 => marker["root"] # "none"

LEMMA RootStep == MarkerInv /\ Plain /\ RootSeen /\ [Next]_vars => RootSeen'
<1> SUFFICES ASSUME MarkerInv, Plain, RootSeen, [Next]_vars PROVE RootSeen'
  OBVIOUS
<1>1. /\ marker \in [Markers -> {"none", "empty", "whole"}] /\ reader.seen \in 0..3
  BY DEF MarkerInv, Types, Plain
<1>2. ASSUME NEW p \in Initializers, Initialize(p) PROVE RootSeen'
  <2>1. UNCHANGED reader
    BY <1>2 DEF Initialize, AssertInitializable, LookForTargets, MakeTargets, LookForDatabase,
           Connect, BeginSchema, StampSchema, FinishSchema, ValidateSchema, CreateMarker,
           FillMarker, Fails, RollBack, Crash, Others
  <2>2. CASE RollBack(p)
    <3>0. RemoveDatabase(p) => UNCHANGED marker
      BY DEF RemoveDatabase
    <3>1. UNCHANGED marker \/ (init[p].made > 1 /\ RemoveMarker(p))
      BY <2>2, <3>0 DEF RollBack
    <3>2. init[p].made \in 0..3
      BY DEF MarkerInv, Types, InitSet
    <3>3. init[p].made > 1 => Files[init[p].made] # "root"
      <4>1. init[p].made > 1 => init[p].made = 2 \/ init[p].made = 3
        BY <3>2
      <4> QED BY <4>1, Places
    <3>4. marker'["root"] = marker["root"]
      BY <1>1, <3>1, <3>3, Places DEF RemoveMarker
    <3> QED BY <2>1, <3>4 DEF RootSeen
  <2>3. CASE CreateMarker(p) \/ FillMarker(p)
    <3>0. \/ UNCHANGED marker
          \/ marker' = [marker EXCEPT ![Coming(p)] = "empty"]
          \/ marker' = [marker EXCEPT ![Coming(p)] = "whole"]
      BY <2>3 DEF CreateMarker, FillMarker
    <3>1. marker'["root"] = "none" => marker["root"] = "none"
      BY <1>1, <3>0, Places
    <3> QED BY <2>1, <3>1 DEF RootSeen
  <2>4. CASE ~RollBack(p) /\ ~CreateMarker(p) /\ ~FillMarker(p)
    <3>1. UNCHANGED marker
      BY <1>2, <2>4 DEF Initialize, AssertInitializable, LookForTargets, MakeTargets,
             LookForDatabase, Connect, BeginSchema, StampSchema, FinishSchema,
             ValidateSchema, Fails, Crash
    <3> QED BY <2>1, <3>1 DEF RootSeen
  <2> QED BY <2>2, <2>3, <2>4
<1>3. CASE Preflight
  <2>1. CASE reader.seen = 0
    <3>1. ReadOrder[reader.seen + 1] = "root"
      BY <2>1 DEF ReadOrder
    <3> QED BY <1>3, <2>1, <3>1 DEF Preflight, Seen, RootSeen
  <2>2. CASE reader.seen >= 1
    BY <1>3, <2>2 DEF Preflight, RootSeen
  <2> QED BY <1>1, <2>1, <2>2
<1>4. CASE BeginDiscovery \/ Save \/ UNCHANGED vars
  BY <1>4 DEF BeginDiscovery, Save, vars, RootSeen
<1> QED BY <1>2, <1>3, <1>4 DEF Next

LEMMA ReadyStep ==
    AloneInv /\ RootSeen /\ [Next]_vars =>
        (~overlap /\ reader.out = "NONE" /\ reader'.out = "READY" =>
            db = "complete" /\ \A f \in {"root", "read", "write"} : Seen(f))
<1> SUFFICES ASSUME AloneInv, RootSeen, [Next]_vars, ~overlap, reader.out = "NONE",
                    reader'.out = "READY"
             PROVE  db = "complete" /\ \A f \in {"root", "read", "write"} : Seen(f)
  OBVIOUS
<1>1. Preflight
  BY DEF Next, Initialize, AssertInitializable, LookForTargets, MakeTargets, LookForDatabase,
         Connect, BeginSchema, StampSchema, FinishSchema, ValidateSchema, CreateMarker,
         FillMarker, Fails, RollBack, Crash, Others, BeginDiscovery, Save, vars
<1>2. reader.seen = 3 /\ Seen(ReadOrder[4])
  BY <1>1 DEF Preflight, AloneInv, SchemaInv, Plain
<1>3. marker["write"] = "whole" /\ marker["root"] # "none"
  BY <1>2 DEF ReadOrder, Seen, RootSeen
<1>4. marker["read"] # "none" /\ db = "complete"
  BY <1>3 DEF AloneInv, SchemaInv, MarkerInv, AuthorityInOrder, Sequential
<1> QED BY <1>3, <1>4 DEF Seen

\* When preflight says READY, an installation that lookups and finalizers can use is
\* there, although it reads the files one by one (core_readiness, memory_report).
THEOREM ReadyTrue == Spec => ReadyIsTrue
<1>1. Init => RootSeen
  BY DEF Init, RootSeen
<1>2. AloneInv /\ RootSeen /\ [Next]_vars => RootSeen'
  BY RootStep DEF AloneInv, SchemaInv
<1>3. AloneInv /\ RootSeen /\ [Next]_vars =>
        [~overlap /\ reader.out = "NONE" /\ reader'.out = "READY" =>
            db = "complete" /\ \A f \in {"root", "read", "write"} : Seen(f)]_vars
  BY ReadyStep
<1> QED BY <1>1, <1>2, <1>3, AloneHeld, PTL DEF Spec, ReadyIsTrue
=============================================================================
