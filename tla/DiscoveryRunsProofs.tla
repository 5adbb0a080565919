------------------------ MODULE DiscoveryRunsProofs ------------------------
(***************************************************************************)
(* A run is closed once, and with a verdict, for any number of runs,       *)
(* processes, payloads and faults.                                         *)
(*                                                                         *)
(* Three facts make these two inductive: a run whose opening has not ended *)
(* has no marker; a process on its way to close a run has had a verdict    *)
(* for it; and a run of which somebody was told CLOSED has no marker, and  *)
(* will have none again.                                                   *)
(***************************************************************************)
EXTENDS DiscoveryRuns, TLAPS

RunsInv ==
    /\ TypeOK
    /\ ListedMarkersWhole
    /\ \A r \in Runs : opener[r] # "open" => marker[r] = "none"
    /\ \A p \in Procs : proc[p].pc \in {"close", "unlink"} =>
           proc[p].run \in Runs /\ verdicts[proc[p].run] # {}
    /\ \A p \in Procs : proc[p].pc # "idle" =>
           proc[p].run \in Runs /\ proc[p].pay \in Payloads
    /\ ClosedWithVerdict
    /\ \A a \in replies : a.state = "CLOSED" => opener[a.run] = "open" /\ marker[a.run] = "none"
    /\ ClosedOnce

LEMMA InitRuns == Init => RunsInv
<1> USE ConstantsOK
<1> SUFFICES ASSUME Init PROVE RunsInv
  OBVIOUS
<1>1. TypeOK
  BY DEF Init, TypeOK, Idle
<1> QED
  BY <1>1 DEF Init, RunsInv, Idle, ListedMarkersWhole, ClosedWithVerdict, ClosedOnce

-----------------------------------------------------------------------------
(* discovery-begin. *)

LEMMA BeginKeeps ==
    ASSUME RunsInv, NEW r \in Runs, Begin(r) \/ BeginFails(r)
    PROVE  RunsInv'
<1> USE ConstantsOK DEF RunsInv
<1> USE DEF Begin, BeginCreate, BeginWrite, BeginReplace, BeginFails, OthersOfBegin,
            Staged, Fault
<1>1. TypeOK'
  BY DEF TypeOK
<1>2. UNCHANGED <<fate, proc, verdicts, replies>>
  OBVIOUS
<1>3. /\ \A q \in Runs : opener'[q] = "open" => marker'[q] = "whole" \/ opener[q] = "open"
      /\ \A q \in Runs : opener[q] = "open" => opener'[q] = "open" /\ marker'[q] = marker[q]
      /\ \A q \in Runs : opener'[q] # "open" => marker'[q] = "none"
      /\ \A q \in Runs : marker'[q] # "partial"
  BY DEF TypeOK, ListedMarkersWhole
<1>4. ListedMarkersWhole' /\ ClosedWithVerdict'
  BY <1>2, <1>3 DEF ListedMarkersWhole, ClosedWithVerdict
<1>5. \A a \in replies : a.run \in Runs
  BY DEF TypeOK
<1>6. ClosedOnce'
  BY <1>2 DEF ClosedOnce
<1> QED
  BY <1>1, <1>2, <1>3, <1>4, <1>5, <1>6

-----------------------------------------------------------------------------
(* discovery-finalize.  A process changes what it holds and nothing of the  *)
(* others; only the last step removes a marker.                             *)

\* The process p goes on with its run, or answers OPEN and is idle.
GoesOn(p) ==
    /\ UNCHANGED <<Files, faults>>
    /\ fate' \in [Claims -> {"absent", "pending", "accepted"} \cup Settled]
    /\ verdicts' \in [Runs -> SUBSET {"SAVED", "ALREADY_EXISTS", "NOT_SAVED",
                                      "NO_REUSABLE_KNOWLEDGE"}]
    /\ \A r \in Runs : verdicts[r] \subseteq verdicts'[r]
    /\ \E new : /\ proc' = [proc EXCEPT ![p] = new]
                /\ \/ new = Idle
                   \/ /\ new \in [pc : {"check", "decide", "close", "unlink"}, run : Runs,
                                  pay : Payloads,
                                  status : {"none", "SAVED", "ALREADY_EXISTS", "NOT_SAVED",
                                            "NO_REUSABLE_KNOWLEDGE"}]
                      /\ new.pc \in {"close", "unlink"} => verdicts'[new.run] # {}
    /\ \/ replies' = replies
       \/ /\ proc[p].run \in Runs
          /\ replies' = replies \cup {[run |-> proc[p].run, by |-> p, state |-> "OPEN"]}

LEMMA GoingOnKeeps ==
    ASSUME RunsInv, NEW p \in Procs, GoesOn(p)
    PROVE  RunsInv'
<1> USE ConstantsOK DEF RunsInv, GoesOn, Files
<1>1. TypeOK'
  BY DEF TypeOK, Idle
<1>2. ListedMarkersWhole' /\ ClosedWithVerdict'
  BY DEF ListedMarkersWhole, ClosedWithVerdict
<1>3. \A a \in replies' : a.state = "CLOSED" => a \in replies
  OBVIOUS
<1>4. ClosedOnce'
  BY <1>3 DEF ClosedOnce
<1>5. \A q \in Procs : proc'[q].pc \in {"close", "unlink"} =>
          proc'[q].run \in Runs /\ verdicts'[proc'[q].run] # {}
  BY DEF TypeOK, Idle
<1>6. \A q \in Procs : proc'[q].pc # "idle" =>
          proc'[q].run \in Runs /\ proc'[q].pay \in Payloads
  BY DEF TypeOK, Idle
<1> QED
  BY <1>1, <1>2, <1>3, <1>4, <1>5, <1>6
-----------------------------------------------------------------------------
(* Every step of a process but the removal of the marker is of that kind. *)

LEMMA SubmitGoesOn ==
    ASSUME RunsInv, NEW p \in Procs, NEW r \in Runs, NEW pay \in PayOf[r], Submit(p, r, pay)
    PROVE  GoesOn(p)
<1> USE ConstantsOK DEF RunsInv, TypeOK, Submit, Files
<1>1. pay \in Payloads
  OBVIOUS
<1> DEFINE new == [pc |-> "check", run |-> r, pay |-> pay, status |-> "none"]
<1>2. proc' = [proc EXCEPT ![p] = new]
  OBVIOUS
<1>3. new \in [pc : {"check", "decide", "close", "unlink"}, run : Runs, pay : Payloads,
               status : {"none", "SAVED", "ALREADY_EXISTS", "NOT_SAVED",
                         "NO_REUSABLE_KNOWLEDGE"}]
  BY <1>1
<1>4. new.pc \notin {"close", "unlink"}
  OBVIOUS
<1> HIDE DEF new
<1> QED
  BY <1>2, <1>3, <1>4 DEF GoesOn

\* A process that is at work holds a run and a payload.
LEMMA AtWork ==
    ASSUME RunsInv, NEW p \in Procs, ~At(p, "idle")
    PROVE  /\ proc[p] \in [pc : {"check", "decide", "close", "unlink"}, run : Runs,
                           pay : Payloads,
                           status : {"none", "SAVED", "ALREADY_EXISTS", "NOT_SAVED",
                                     "NO_REUSABLE_KNOWLEDGE"}]
           /\ proc[p].run \in Runs
           /\ proc[p].pay.claim \in Claims
BY ConstantsOK DEF RunsInv, TypeOK, At, PayloadSet

LEMMA AdvanceGoesOn ==
    ASSUME RunsInv, NEW p \in Procs, ~At(p, "idle"), NEW pc \in {"decide", "unlink"},
           pc = "unlink" => At(p, "close"),
           Advance(p, pc), UNCHANGED <<Files, fate, verdicts, replies, faults>>
    PROVE  GoesOn(p)
<1> DEFINE new == [proc[p] EXCEPT !.pc = pc]
<1>1. proc' = [proc EXCEPT ![p] = new]
  BY DEF Advance
<1>2. /\ new \in [pc : {"check", "decide", "close", "unlink"}, run : Runs, pay : Payloads,
                  status : {"none", "SAVED", "ALREADY_EXISTS", "NOT_SAVED",
                            "NO_REUSABLE_KNOWLEDGE"}]
      /\ new.pc = pc /\ new.run = proc[p].run
  BY AtWork
<1>3. new.pc \in {"close", "unlink"} => verdicts[new.run] # {}
  BY <1>2 DEF RunsInv, At
<1> HIDE DEF new
<1> QED
  BY <1>1, <1>2, <1>3 DEF GoesOn, RunsInv, TypeOK

LEMMA ReplyGoesOn ==
    ASSUME RunsInv, NEW p \in Procs, ~At(p, "idle"),
           Reply(p, "OPEN"), UNCHANGED <<Files, fate, verdicts, faults>>
    PROVE  GoesOn(p)
BY AtWork DEF Reply, GoesOn, RunsInv, TypeOK, Files

LEMMA CheckRunGoesOn ==
    ASSUME RunsInv, NEW p \in Procs, CheckRun(p)
    PROVE  GoesOn(p)
<1>1. ~At(p, "idle")
  BY DEF CheckRun, At
<1>2. CASE Advance(p, "decide") /\ UNCHANGED replies
  BY <1>1, <1>2, AdvanceGoesOn DEF CheckRun
<1>3. CASE Reply(p, "OPEN")
  BY <1>1, <1>3, ReplyGoesOn DEF CheckRun
<1> QED
  BY <1>2, <1>3 DEF CheckRun

LEMMA CheckCloseGoesOn ==
    ASSUME RunsInv, NEW p \in Procs, CheckClose(p)
    PROVE  GoesOn(p)
<1>1. ~At(p, "idle") /\ At(p, "close")
  BY DEF CheckClose, At
<1>2. CASE Advance(p, "unlink") /\ UNCHANGED replies
  BY <1>1, <1>2, AdvanceGoesOn DEF CheckClose
<1>3. CASE Reply(p, "OPEN")
  BY <1>1, <1>3, ReplyGoesOn DEF CheckClose
<1> QED
  BY <1>2, <1>3 DEF CheckClose

LEMMA ReturnedGoesOn ==
    ASSUME RunsInv, NEW p \in Procs, ~At(p, "idle"), NEW status, Returned(p, status),
           UNCHANGED <<Files, faults>>,
           fate' \in [Claims -> {"absent", "pending", "accepted"} \cup Settled]
    PROVE  GoesOn(p)
<1>1. CASE ClosesRun(status) /\ ~proc[p].pay.dry
  <2> DEFINE new == [proc[p] EXCEPT !.pc = "close", !.status = status]
  <2>1. proc' = [proc EXCEPT ![p] = new]
    BY <1>1 DEF Returned
  <2>2. /\ new \in [pc : {"check", "decide", "close", "unlink"}, run : Runs,
                    pay : Payloads,
                    status : {"none", "SAVED", "ALREADY_EXISTS", "NOT_SAVED",
                              "NO_REUSABLE_KNOWLEDGE"}]
        /\ new.run = proc[p].run
    BY <1>1, AtWork DEF ClosesRun
  <2>3. verdicts' = [verdicts EXCEPT ![proc[p].run] = @ \cup {status}]
        /\ replies' = replies
    BY <1>1 DEF Returned
  <2>4. /\ verdicts' \in [Runs -> SUBSET {"SAVED", "ALREADY_EXISTS", "NOT_SAVED",
                                          "NO_REUSABLE_KNOWLEDGE"}]
        /\ \A r \in Runs : verdicts[r] \subseteq verdicts'[r]
        /\ verdicts'[proc[p].run] # {}
    <3> DEFINE V == {"SAVED", "ALREADY_EXISTS", "NOT_SAVED", "NO_REUSABLE_KNOWLEDGE"}
    <3>1. verdicts \in [Runs -> SUBSET V] /\ proc[p].run \in Runs
      BY AtWork DEF RunsInv, TypeOK
    <3>2. status \in V
      BY <1>1 DEF ClosesRun
    <3> HIDE DEF V
    <3>3. verdicts' \in [Runs -> SUBSET V]
      BY <2>3, <3>1, <3>2
    <3>4. \A r \in Runs : verdicts[r] \subseteq verdicts'[r]
      BY <2>3, <3>1
    <3>5. verdicts'[proc[p].run] # {}
      BY <2>3, <3>1
    <3> QED BY <3>3, <3>4, <3>5 DEF V
  <2> HIDE DEF new
  <2> QED
    BY <2>1, <2>2, <2>3, <2>4 DEF GoesOn
<1>2. CASE ~(ClosesRun(status) /\ ~proc[p].pay.dry)
  BY <1>2, AtWork DEF Returned, Reply, GoesOn, RunsInv, TypeOK, Files
<1> QED
  BY <1>1, <1>2

LEMMA DecideEarlyGoesOn ==
    ASSUME RunsInv, NEW p \in Procs, DecideEarly(p)
    PROVE  GoesOn(p)
<1>1. /\ ~At(p, "idle") /\ UNCHANGED <<Files, fate, faults>>
      /\ fate' \in [Claims -> {"absent", "pending", "accepted"} \cup Settled]
  BY DEF DecideEarly, At, RunsInv, TypeOK
<1>2. CASE Reply(p, "OPEN") /\ UNCHANGED verdicts
  BY <1>1, <1>2, ReplyGoesOn
<1>3. ASSUME NEW status, Returned(p, status) PROVE GoesOn(p)
  BY <1>1, <1>3, ReturnedGoesOn
<1> QED
  BY <1>2, <1>3 DEF DecideEarly

LEMMA DecideGoesOn ==
    ASSUME RunsInv, NEW p \in Procs, Decide(p)
    PROVE  GoesOn(p)
<1> DEFINE pay == proc[p].pay
<1>1. ~At(p, "idle") /\ UNCHANGED <<Files, faults>>
  BY DEF Decide, At
<1>2. fate \in [Claims -> {"absent", "pending", "accepted"} \cup Settled]
  BY DEF RunsInv, TypeOK
<1>3. pay.claim \in Claims
  BY <1>1, AtWork
<1>4. FateAfter(pay) \in [Claims -> {"absent", "pending", "accepted"} \cup Settled]
  BY <1>2 DEF FateAfter, Settled
<1>5. CASE Reply(p, "OPEN") /\ UNCHANGED <<fate, verdicts>>
  BY <1>1, <1>5, ReplyGoesOn
<1>6. ASSUME NEW status, Returned(p, status), fate' \in {fate, FateAfter(pay)}
      PROVE  GoesOn(p)
  BY <1>1, <1>2, <1>4, <1>6, ReturnedGoesOn
<1> QED
  BY <1>5, <1>6 DEF Decide
-----------------------------------------------------------------------------
(* The removal of the marker: the process has looked at it once more, and   *)
(* says CLOSED, or dies before it can.                                      *)

LEMMA RemovingKeeps ==
    ASSUME RunsInv, NEW p \in Procs, At(p, "unlink"), Removable(proc[p].run),
           marker' = [marker EXCEPT ![proc[p].run] = "none"],
           proc' = [proc EXCEPT ![p] = Idle],
           UNCHANGED <<temp, opener, fate, verdicts>>, faults' \in 0..MaxFaults,
           \/ replies' = replies
           \/ replies' = replies \cup {[run |-> proc[p].run, by |-> p, state |-> "CLOSED"]}
    PROVE  RunsInv'
<1> DEFINE run == proc[p].run
<1>1. run \in Runs /\ verdicts[run] # {} /\ marker[run] = "whole" /\ opener[run] = "open"
  BY DEF RunsInv, At, Removable, IsOpen
<1>2. TypeOK'
  BY <1>1 DEF RunsInv, TypeOK, Idle
<1>3. \A r \in Runs : marker'[r] = IF r = run THEN "none" ELSE marker[r]
  BY <1>1 DEF RunsInv, TypeOK
<1>4. /\ ListedMarkersWhole' /\ ClosedWithVerdict'
      /\ \A r \in Runs : opener'[r] # "open" => marker'[r] = "none"
  BY <1>1, <1>3 DEF RunsInv, ListedMarkersWhole, ClosedWithVerdict
<1>5. \A q \in Procs : proc'[q] = IF q = p THEN Idle ELSE proc[q]
  BY DEF RunsInv, TypeOK
<1>6. /\ \A q \in Procs : proc'[q].pc \in {"close", "unlink"} =>
             proc'[q].run \in Runs /\ verdicts'[proc'[q].run] # {}
      /\ \A q \in Procs : proc'[q].pc # "idle" =>
             proc'[q].run \in Runs /\ proc'[q].pay \in Payloads
  BY <1>5 DEF RunsInv, Idle
<1>7. \A a \in replies' : a.state = "CLOSED" => opener'[a.run] = "open" /\ marker'[a.run] = "none"
  BY <1>1, <1>3 DEF RunsInv, TypeOK
<1>8. \A a \in replies : a.state = "CLOSED" => a.run # run
  BY <1>1 DEF RunsInv
<1>9. ClosedOnce'
  BY <1>8 DEF RunsInv, ClosedOnce
<1> QED
  BY <1>2, <1>4, <1>6, <1>7, <1>9 DEF RunsInv

LEMMA UnlinkKeeps ==
    ASSUME RunsInv, NEW p \in Procs, Unlink(p)
    PROVE  RunsInv'
<1>1. ~At(p, "idle") /\ At(p, "unlink")
  BY DEF Unlink, At
<1>2. CASE Removable(proc[p].run) /\ Reply(p, "CLOSED")
           /\ marker' = [marker EXCEPT ![proc[p].run] = "none"]
  <2>1. faults' \in 0..MaxFaults
    BY DEF Unlink, RunsInv, TypeOK
  <2> QED
    BY <1>1, <1>2, <2>1, RemovingKeeps DEF Unlink, Reply
<1>3. CASE Reply(p, "OPEN") /\ UNCHANGED marker
  BY <1>1, <1>3, ReplyGoesOn, GoingOnKeeps DEF Unlink, Files
<1> QED
  BY <1>2, <1>3 DEF Unlink

LEMMA FaultBounded ==
    ASSUME RunsInv, Fault
    PROVE  faults' \in 0..MaxFaults
BY ConstantsOK DEF RunsInv, TypeOK, Fault

\* A crash is counted; but for that, the process is idle again like one that
\* answered, and may have removed the marker.
LEMMA CrashKeeps ==
    ASSUME RunsInv, NEW p \in Procs, Crash(p)
    PROVE  RunsInv'
<1>1. ~At(p, "idle") /\ faults' \in 0..MaxFaults
  BY FaultBounded DEF Crash
<1>2. proc[p].run \in Runs
  BY <1>1, AtWork
<1>3. CASE At(p, "unlink") /\ Removable(proc[p].run)
           /\ marker' = [marker EXCEPT ![proc[p].run] = "none"] /\ UNCHANGED replies
  BY <1>1, <1>3, RemovingKeeps DEF Crash
<1>4. CASE UNCHANGED marker
           /\ \/ UNCHANGED replies
              \/ replies' = replies \cup {[run |-> proc[p].run, by |-> p, state |-> "OPEN"]}
  <2>1. TypeOK'
    BY <1>1, <1>2, <1>4 DEF Crash, RunsInv, TypeOK, Idle
  <2>2. ListedMarkersWhole' /\ ClosedWithVerdict'
    BY <1>4 DEF Crash, RunsInv, ListedMarkersWhole, ClosedWithVerdict
  <2>3. \A a \in replies' : a.state = "CLOSED" => a \in replies
    BY <1>4
  <2>4. ClosedOnce'
    BY <2>3 DEF RunsInv, ClosedOnce
  <2>5. \A q \in Procs : proc'[q] = IF q = p THEN Idle ELSE proc[q]
    BY DEF Crash, RunsInv, TypeOK
  <2> QED
    BY <1>4, <2>1, <2>2, <2>3, <2>4, <2>5 DEF Crash, RunsInv, Idle
<1> QED
  BY <1>3, <1>4 DEF Crash

LEMMA RejectKeeps ==
    ASSUME RunsInv, NEW c \in Claims, Reject(c)
    PROVE  RunsInv'
<1>1. TypeOK'
  BY DEF Reject, RunsInv, TypeOK, Files, Settled
<1> QED
  BY <1>1 DEF Reject, RunsInv, Files, ListedMarkersWhole, ClosedWithVerdict, ClosedOnce

-----------------------------------------------------------------------------
LEMMA StutterKeepsRuns == RunsInv /\ UNCHANGED vars => RunsInv'
BY DEF vars, RunsInv, TypeOK, ListedMarkersWhole, ClosedWithVerdict, ClosedOnce

LEMMA NextKeepsRuns == RunsInv /\ Next => RunsInv'
<1> SUFFICES ASSUME RunsInv, Next PROVE RunsInv'
  OBVIOUS
<1>1. ASSUME NEW r \in Runs, Begin(r) \/ BeginFails(r) PROVE RunsInv'
  BY <1>1, BeginKeeps
<1>2. ASSUME NEW r \in Runs, NEW pay \in PayOf[r], Submits(r, pay) PROVE RunsInv'
  BY <1>2, SubmitGoesOn, GoingOnKeeps DEF Submits
<1>3. ASSUME NEW p \in Procs, Proceed(p) PROVE RunsInv'
  BY <1>3, CheckRunGoesOn, DecideEarlyGoesOn, DecideGoesOn, CheckCloseGoesOn,
     GoingOnKeeps, UnlinkKeeps DEF Proceed
<1>4. ASSUME NEW p \in Procs, Crash(p) PROVE RunsInv'
  BY <1>4, CrashKeeps
<1>5. ASSUME NEW c \in Reviewed, Reject(c) PROVE RunsInv'
  BY <1>5, RejectKeeps, ConstantsOK
<1> QED
  BY <1>1, <1>2, <1>3, <1>4, <1>5 DEF Next

LEMMA RunsInvariant == Spec => []RunsInv
BY InitRuns, NextKeepsRuns, StutterKeepsRuns, PTL DEF Spec

\* Every variable keeps its type (scripts/discovery-begin, scripts/discovery-finalize).
THEOREM RunsTyped == Spec => []TypeOK
<1>1. RunsInv => TypeOK
  BY DEF RunsInv
<1> QED
  BY <1>1, RunsInvariant, PTL

\* A marker is never in place by half (begin_discovery).
THEOREM MarkersWhole == Spec => []ListedMarkersWhole
<1>1. RunsInv => ListedMarkersWhole
  BY DEF RunsInv
<1> QED
  BY <1>1, RunsInvariant, PTL

\* A run that was opened loses its marker only to a verdict
\* (scripts/discovery-finalize, main).
THEOREM ClosingHasVerdict == Spec => []ClosedWithVerdict
<1>1. RunsInv => ClosedWithVerdict
  BY DEF RunsInv
<1> QED
  BY <1>1, RunsInvariant, PTL

\* Of all the processes that finalize one run, at most one is told that it closed
\* it (close_discovery).
THEOREM ClosedByOne == Spec => []ClosedOnce
<1>1. RunsInv => ClosedOnce
  BY DEF RunsInv
<1> QED
  BY <1>1, RunsInvariant, PTL

-----------------------------------------------------------------------------
(* The memory of the runs keeps the promise of ClaimBook: each Claim is a   *)
(* Proposal of its own, {c}, from the moment it is recorded.                *)

Owned == [c \in Claims |-> IF fate[c] = "absent" THEN {} ELSE {c}]

LEMMA OwnProposal ==
    ASSUME NEW c \in Claims
    PROVE  Book!Members({c}) = IF fate[c] = "absent" THEN {} ELSE {c}
BY DEF Book!Members

\* The Claim c is new to the memory, or waits there.  What is done with it is done
\* with its Proposal, the Claim joining it first when it is new.
LEMMA Waiting ==
    ASSUME TypeOK, NEW c \in Claims, fate[c] \in {"absent", "pending"},
           fate' \in [Claims -> {"absent", "pending", "accepted"} \cup Settled],
           fate'[c] # "absent",
           \A d \in Claims \ {c} : fate'[d] = "absent" <=> fate[d] = "absent"
    PROVE  \E S \in SUBSET {d \in Claims : fate[d] = "absent"} :
               /\ Book!Members({c}) \cup S = {c}
               /\ S = {} \/ S = {c}
               /\ S = {} <=> fate[c] = "pending"
               /\ Book!Joins({c}, S)
<1>1. CASE fate[c] = "absent"
  <2>1. Book!Members({c}) = {}
    BY <1>1, OwnProposal
  <2>2. Owned' = [d \in Claims |-> IF d \in {c} THEN {c} ELSE Owned[d]]
    BY <1>1 DEF Owned
  <2>3. Book!Joins({c}, {c})
    BY <2>1, <2>2 DEF Book!Joins, Owned
  <2>4. {c} \in SUBSET {d \in Claims : fate[d] = "absent"}
    BY <1>1
  <2> QED BY <1>1, <2>1, <2>3, <2>4
<1>2. CASE fate[c] = "pending"
  <2>1. Book!Members({c}) = {c}
    BY <1>2, OwnProposal
  <2>2. Owned' = [d \in Claims |-> IF d \in {} THEN {c} ELSE Owned[d]]
    BY <1>2 DEF Owned
  <2>3. Book!Joins({c}, {})
    BY <1>2, <2>1, <2>2 DEF Book!Joins, Owned
  <2>4. {} \in SUBSET {d \in Claims : fate[d] = "absent"}
    OBVIOUS
  <2> QED BY <1>2, <2>1, <2>3, <2>4
<1> QED
  BY <1>1, <1>2

\* A payload that changes the memory records its Claim, accepts it, or puts it in
\* the place of the accepted one it contradicts.
LEMMA DecisionIsBooked ==
    ASSUME TypeOK, NEW pay \in Payloads, fate[pay.claim] \in {"absent", "pending"},
           fate' = FateAfter(pay)
    PROVE  [Book!BookNext]_<<Owned, fate>>
<1> USE ConstantsOK
<1> DEFINE c == pay.claim
           All == {"absent", "pending", "accepted"} \cup Settled
<1>1. c \in Claims /\ pay.prior \in Claims \cup {None}
  BY DEF PayloadSet
<1>2. fate \in [Claims -> All]
  BY DEF TypeOK
<1>3. CASE fate' = fate
  BY <1>3 DEF Owned
<1>4. ASSUME fate' # fate, NEW S \in SUBSET {d \in Claims : fate[d] = "absent"},
             \/ Book!Record({c}, S) \/ Book!Accept({c}, S)
             \/ \E old \in Claims : Book!Replace({c}, S, old)
      PROVE  Book!BookNext
  BY <1>1, <1>4 DEF Book!BookNext, Book!BookStep, Book!Changes
<1>5. CASE Replaces(pay)
  <2>1. /\ fate' = [fate EXCEPT ![c] = "accepted", ![pay.prior] = "superseded"]
        /\ pay.prior \in Claims /\ pay.prior # c /\ fate[pay.prior] = "accepted"
    BY <1>1, <1>5 DEF FateAfter, Replaces
  <2>2. PICK S \in SUBSET {d \in Claims : fate[d] = "absent"} :
            Book!Members({c}) \cup S = {c} /\ Book!Joins({c}, S)
    <3>1. fate' \in [Claims -> All] /\ fate'[c] # "absent"
      BY <1>1, <1>2, <2>1 DEF Settled
    <3>2. \A d \in Claims \ {c} : fate'[d] = "absent" <=> fate[d] = "absent"
      BY <1>1, <1>2, <2>1
    <3> QED BY <1>1, <3>1, <3>2, Waiting
  <2>3. Book!Replace({c}, S, pay.prior)
    BY <1>1, <2>1, <2>2 DEF Book!Replace
  <2> QED BY <1>3, <1>4, <2>1, <2>3
<1>6. CASE ~Replaces(pay)
  <2> DEFINE new == IF Promotes(pay) THEN "accepted" ELSE "pending"
  <2>1. fate' = [fate EXCEPT ![c] = new]
    BY <1>6 DEF FateAfter
  <2>2. PICK S \in SUBSET {d \in Claims : fate[d] = "absent"} :
            /\ Book!Members({c}) \cup S = {c} /\ Book!Joins({c}, S)
            /\ S = {} \/ S = {c}
            /\ S = {} <=> fate[c] = "pending"
    <3>1. fate' \in [Claims -> All] /\ fate'[c] # "absent"
      BY <1>1, <1>2, <2>1
    <3>2. \A d \in Claims \ {c} : fate'[d] = "absent" <=> fate[d] = "absent"
      BY <1>1, <1>2, <2>1
    <3> QED BY <1>1, <3>1, <3>2, Waiting
  <2>3. CASE Promotes(pay)
    <3>1. Book!Accept({c}, S)
      BY <1>1, <1>2, <2>1, <2>2, <2>3 DEF Book!Accept
    <3> QED BY <1>3, <1>4, <3>1
  <2>4. CASE ~Promotes(pay) /\ fate' # fate
    <3>1. S = {c}
      BY <1>1, <1>2, <2>1, <2>2, <2>4
    <3>2. Book!Record({c}, S)
      BY <1>1, <1>2, <2>1, <2>2, <2>4, <3>1 DEF Book!Record
    <3> QED BY <1>4, <2>4, <3>2
  <2> QED BY <1>3, <2>3, <2>4
<1> QED
  BY <1>5, <1>6

LEMMA RejectionIsBooked ==
    ASSUME TypeOK, NEW c \in Claims, Reject(c)
    PROVE  [Book!BookNext]_<<Owned, fate>>
<1>1. fate[c] = "pending" /\ fate' = [fate EXCEPT ![c] = "rejected"]
      /\ fate \in [Claims -> {"absent", "pending", "accepted"} \cup Settled]
  BY DEF Reject, TypeOK
<1>2. Book!Members({c}) = {c}
  BY <1>1, OwnProposal
<1>3. Owned' = Owned
  BY <1>1 DEF Owned
<1>4. Book!Joins({c}, {})
  BY <1>1, <1>2, <1>3 DEF Book!Joins, Owned
<1>5. Book!Reject({c})
  BY <1>1, <1>2, <1>4 DEF Book!Reject
<1>6. {c} \in SUBSET Claims /\ {} \in SUBSET {d \in Claims : fate[d] = "absent"}
  OBVIOUS
<1>7. fate' # fate
  BY <1>1
<1> QED
  BY <1>5, <1>6, <1>7 DEF Book!BookNext, Book!BookStep, Book!Changes

LEMMA RunStepIsBooked ==
    ASSUME RunsInv, [Next]_vars
    PROVE  [Book!BookNext]_<<Owned, fate>>
<1>1. TypeOK
  BY DEF RunsInv
<1>2. CASE fate' = fate
  BY <1>2 DEF Owned
<1>3. ASSUME NEW p \in Procs, Decide(p), fate' # fate
      PROVE  [Book!BookNext]_<<Owned, fate>>
  <2>1. proc[p].pay \in Payloads
    BY <1>3 DEF Decide, At, RunsInv
  <2>2. fate[proc[p].pay.claim] \in {"absent", "pending"} /\ fate' = FateAfter(proc[p].pay)
    BY <1>3 DEF Decide
  <2> QED BY <1>1, <2>1, <2>2, DecisionIsBooked
<1>4. ASSUME NEW c \in Reviewed, Reject(c)
      PROVE  [Book!BookNext]_<<Owned, fate>>
  BY <1>1, <1>4, RejectionIsBooked, ConstantsOK
<1>5. ASSUME NEW r \in Runs, Begin(r) \/ BeginFails(r) PROVE fate' = fate
  BY <1>5 DEF Begin, BeginCreate, BeginWrite, BeginReplace, BeginFails, OthersOfBegin
<1>6. ASSUME NEW r \in Runs, NEW pay \in PayOf[r], Submits(r, pay) PROVE fate' = fate
  BY <1>6 DEF Submits, Submit
<1>7. ASSUME NEW p \in Procs, Proceed(p) \/ Crash(p), ~Decide(p) PROVE fate' = fate
  BY <1>7 DEF Proceed, CheckRun, DecideEarly, CheckClose, Unlink, Crash
<1> QED
  BY <1>2, <1>3, <1>4, <1>5, <1>6, <1>7 DEF Next, vars

\* However many processes begin, finalize, retry and die, what becomes of the Claims
\* is what ClaimBook promises: a retry decides nothing twice, and an accepted Claim
\* gives way only to the one that replaces it (finalize_discovery, main).
THEOREM RunsKeepBook == Spec => KeepsTheBook
<1>1. Init => Book!BookInit
  BY DEF Init, Book!BookInit
<1>2. RunsInv /\ [Next]_vars =>
      [Book!BookNext]_<<[c \in Claims |-> IF fate[c] = "absent" THEN {} ELSE {c}], fate>>
  BY RunStepIsBooked DEF Owned
<1> QED
  BY <1>1, <1>2, RunsInvariant, PTL DEF Spec, KeepsTheBook, Book!BookSpec
=============================================================================
