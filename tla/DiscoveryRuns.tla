--------------------------- MODULE DiscoveryRuns ---------------------------
(***************************************************************************)
(* The life of a Discovery run: discovery-begin writes a marker file, a    *)
(* caller submits payloads under its run_id, discovery-finalize checks the *)
(* marker, decides in Operational Memory, checks the marker again and      *)
(* removes it (discovery_runs.py, scripts/discovery-finalize).             *)
(*                                                                         *)
(* The marker and the database are two stores and nothing holds both: a    *)
(* process may die between any two steps, two processes may finalize one   *)
(* run, and the reply may be lost.  The memory is here what Finalization   *)
(* makes of it, one fate per Claim; every Claim is a value of one slot, so *)
(* that any two of them conflict.                                          *)
(***************************************************************************)
EXTENDS Naturals, FiniteSets

CONSTANTS
    Runs, Procs, Claims,
    Observed,   \* Claims of class OBSERVED
    Payloads,
    PayOf,      \* [Runs -> SUBSET Payloads]  what the caller may submit for a run
    Final,      \* [Runs -> Payloads]  the payload it insists on
    Reviewed,   \* the Claims a reviewer may reject while they are pending
    MaxFaults,  \* bound on crashes and I/O errors
    None

\* pay.kind says how far a payload gets before the database is read, pay.prior
\* names the accepted Claim it contradicts, pay.dry says that --validate was given.
PayloadSet ==
    [kind : {"knowledge", "empty", "unproven", "malformed"}, claim : Claims,
     prior : Claims \cup {None}, dry : BOOLEAN]

ASSUME ConstantsOK ==
    /\ None \notin Claims /\ Observed \subseteq Claims
    /\ Payloads \subseteq PayloadSet
    /\ PayOf \in [Runs -> SUBSET Payloads] /\ Final \in [Runs -> Payloads]
    /\ \A r \in Runs : Final[r] \in PayOf[r]
    /\ Reviewed \subseteq Claims /\ MaxFaults \in Nat

VARIABLES
    temp, marker,  \* per run, the temporary file and the marker
    opener,        \* per run, how far discovery-begin is
    fate,          \* what Operational Memory has made of each Claim
    proc,          \* what each discovery-finalize process holds
    verdicts,      \* per run, the closing verdicts reached for it
    replies,       \* what callers were told: run, process and run_state
    faults

vars == <<temp, marker, opener, fate, proc, verdicts, replies, faults>>

Idle == [pc |-> "idle", run |-> None, pay |-> None, status |-> "none"]

Init ==
    /\ temp = [r \in Runs |-> "none"]
    /\ marker = [r \in Runs |-> "none"]
    /\ opener = [r \in Runs |-> "idle"]
    /\ fate = [c \in Claims |-> "absent"]
    /\ proc = [p \in Procs |-> Idle]
    /\ verdicts = [r \in Runs |-> {}]
    /\ replies = {}
    /\ faults = 0

Fault == faults < MaxFaults /\ faults' = faults + 1

-----------------------------------------------------------------------------
(* discovery-begin: write a temporary file, sync it, move it into place. *)

StagedInPlace(r, content) ==              \* mutant: the marker is written directly
    marker' = [marker EXCEPT ![r] = content] /\ UNCHANGED temp
Staged(r, content) == temp' = [temp EXCEPT ![r] = content] /\ UNCHANGED marker

OthersOfBegin == UNCHANGED <<fate, proc, verdicts, replies>>

BeginCreate(r) ==
    /\ opener[r] = "idle"
    /\ opener' = [opener EXCEPT ![r] = "writing"]
    /\ Staged(r, "partial")
    /\ OthersOfBegin /\ UNCHANGED faults

BeginWrite(r) ==
    /\ opener[r] = "writing" /\ temp[r] = "partial"
    /\ Staged(r, "whole")
    /\ OthersOfBegin /\ UNCHANGED <<opener, faults>>

BeginReplace(r) ==
    /\ opener[r] = "writing" /\ temp[r] = "whole"
    /\ opener' = [opener EXCEPT ![r] = "open"]
    /\ temp' = [temp EXCEPT ![r] = "none"]
    /\ marker' = [marker EXCEPT ![r] = "whole"]
    /\ OthersOfBegin /\ UNCHANGED faults

\* An error removes the temporary file; a crash leaves it behind.
BeginFails(r) ==
    /\ opener[r] = "writing" /\ Fault
    /\ opener' = [opener EXCEPT ![r] = "failed"]
    /\ temp' = [temp EXCEPT ![r] = "none"] \/ UNCHANGED temp
    /\ OthersOfBegin /\ UNCHANGED marker

-----------------------------------------------------------------------------
(* discovery-finalize. *)

At(p, pc) == proc[p].pc = pc
Advance(p, pc) == proc' = [proc EXCEPT ![p].pc = pc]
Files == <<temp, marker, opener>>

Reply(p, state) ==
    /\ proc' = [proc EXCEPT ![p] = Idle]
    /\ replies' = replies \cup {[run |-> proc[p].run, by |-> p, state |-> state]}

\* A run is known to its caller once discovery-begin has answered.
Submit(p, r, pay) ==
    /\ At(p, "idle") /\ opener[r] = "open"
    /\ proc' = [proc EXCEPT ![p] = [pc |-> "check", run |-> r, pay |-> pay, status |-> "none"]]
    /\ UNCHANGED <<Files, fate, verdicts, replies, faults>>

IsOpen(r) == marker[r] = "whole"

CheckRun(p) ==
    /\ At(p, "check")
    /\ \/ IsOpen(proc[p].run) /\ Advance(p, "decide") /\ UNCHANGED replies
       \/ ~IsOpen(proc[p].run) /\ Reply(p, "OPEN")         \* RUN_MARKER
    /\ UNCHANGED <<Files, fate, verdicts, faults>>

\* The results that close the run; every other NOT_SAVED result is correctable.
\* Mutants: every result closes, or only new knowledge does.
ClosesAlways(status) == status # "none"
ClosesOnSaved(status) == status \in {"SAVED", "NOT_SAVED", "NO_REUSABLE_KNOWLEDGE"}
ClosesRun(status) ==
    status \in {"SAVED", "ALREADY_EXISTS", "NOT_SAVED", "NO_REUSABLE_KNOWLEDGE"}

\* finalize_discovery has returned status: the run is closed next, or stays open.
\* Mutant: --validate closes it as well.
ReturnedWhenDry(p, status) ==
    IF ClosesRun(status)
    THEN /\ proc' = [proc EXCEPT ![p].pc = "close", ![p].status = status]
         /\ verdicts' = [verdicts EXCEPT ![proc[p].run] =
                            IF proc[p].pay.dry THEN @ ELSE @ \cup {status}]
         /\ UNCHANGED replies
    ELSE Reply(p, "OPEN") /\ UNCHANGED verdicts
Returned(p, status) ==
    IF ClosesRun(status) /\ ~proc[p].pay.dry
    THEN /\ proc' = [proc EXCEPT ![p].pc = "close", ![p].status = status]
         /\ verdicts' = [verdicts EXCEPT ![proc[p].run] = @ \cup {status}]
         /\ UNCHANGED replies
    ELSE Reply(p, "OPEN") /\ UNCHANGED verdicts

DecideEarly(p) ==
    /\ At(p, "decide")
    /\ \/ proc[p].pay.kind = "malformed" /\ Reply(p, "OPEN") /\ UNCHANGED verdicts
       \/ proc[p].pay.kind = "unproven" /\ Returned(p, "TRANSPORT_POLICY_UNPROVEN")
       \/ proc[p].pay.kind = "empty" /\ Returned(p, "NO_REUSABLE_KNOWLEDGE")
    /\ UNCHANGED <<Files, fate, faults>>

Settled == {"superseded", "rejected"}

Others(c, fates) == \E d \in Claims \ {c} : fate[d] \in fates

\* finalize_discovery, as Finalization details it, for a payload of one Claim.
Promotes(pay) ==
    /\ pay.claim \in Observed /\ pay.prior = None
    /\ ~Others(pay.claim, {"accepted", "pending"})
ReplacesUnseen(pay) ==         \* mutant: the prior may not be accepted at all
    /\ pay.prior # None /\ {pay.claim, pay.prior} \subseteq Observed
    /\ ~Others(pay.claim, {"pending"})
Replaces(pay) ==
    /\ pay.prior # None /\ {pay.claim, pay.prior} \subseteq Observed
    /\ fate[pay.prior] = "accepted" /\ ~Others(pay.claim, {"pending"})

FateAfter(pay) ==
    IF Replaces(pay) THEN [fate EXCEPT ![pay.claim] = "accepted", ![pay.prior] = "superseded"]
    ELSE IF Promotes(pay) THEN [fate EXCEPT ![pay.claim] = "accepted"]
    ELSE [fate EXCEPT ![pay.claim] = "pending"]

\* What was superseded or rejected cannot be stated again: its row exists, and
\* INSERT raises.
Decide(p) ==
    LET pay == proc[p].pay
        known == fate[pay.claim]
    IN  /\ At(p, "decide") /\ pay.kind = "knowledge"
        /\ \/ /\ known = "accepted"
              /\ Returned(p, "ALREADY_EXISTS") /\ UNCHANGED fate
           \/ /\ known \in Settled
              /\ Reply(p, "OPEN") /\ UNCHANGED <<fate, verdicts>>
           \/ /\ known \in {"absent", "pending"}
              /\ Returned(p, IF Promotes(pay) \/ Replaces(pay) THEN "SAVED" ELSE "NOT_SAVED")
              /\ fate' = IF pay.dry THEN fate ELSE FateAfter(pay)
        /\ UNCHANGED <<Files, faults>>

\* close_discovery looks for the marker again before it removes it.
CheckClose(p) ==
    /\ At(p, "close")
    /\ \/ IsOpen(proc[p].run) /\ Advance(p, "unlink") /\ UNCHANGED replies
       \/ ~IsOpen(proc[p].run) /\ Reply(p, "OPEN")         \* FINALIZATION_INCOMPLETE
    /\ UNCHANGED <<Files, fate, verdicts, faults>>

\* unlink fails for a file another process has removed in the meantime.
RemovableQuietly(r) == opener[r] = "open"     \* mutant: a missing file is no error
Removable(r) == IsOpen(r)

Unlink(p) ==
    /\ At(p, "unlink")
    /\ \/ /\ Removable(proc[p].run)
          /\ marker' = [marker EXCEPT ![proc[p].run] = "none"]
          /\ Reply(p, "CLOSED")
       \/ /\ ~Removable(proc[p].run)
          /\ Reply(p, "OPEN")                              \* FINALIZATION_INCOMPLETE
          /\ UNCHANGED marker
    /\ UNCHANGED <<temp, opener, fate, verdicts, faults>>

\* The process dies, or is told of an I/O error; what it has done remains.
\* Right after the unlink, a crash loses the reply.
Crash(p) ==
    /\ ~At(p, "idle") /\ Fault
    /\ proc' = [proc EXCEPT ![p] = Idle]
    /\ \/ UNCHANGED <<marker, replies>>
       \/ UNCHANGED marker
          /\ replies' = replies \cup {[run |-> proc[p].run, by |-> p, state |-> "OPEN"]}
       \/ /\ At(p, "unlink") /\ Removable(proc[p].run)
          /\ marker' = [marker EXCEPT ![proc[p].run] = "none"]
          /\ UNCHANGED replies
    /\ UNCHANGED <<temp, opener, fate, verdicts>>

\* knowledge-resolve rejects a pending Claim.
Reject(c) ==
    /\ fate[c] = "pending"
    /\ fate' = [fate EXCEPT ![c] = "rejected"]
    /\ UNCHANGED <<Files, proc, verdicts, replies, faults>>

-----------------------------------------------------------------------------
Begin(r) == BeginCreate(r) \/ BeginWrite(r) \/ BeginReplace(r)
Proceed(p) == CheckRun(p) \/ DecideEarly(p) \/ Decide(p) \/ CheckClose(p) \/ Unlink(p)

\* A caller has nothing more to submit for a run once it is told CLOSED.
Answered(r) == \E a \in replies : a.run = r /\ a.state = "CLOSED"
Submits(r, pay) == ~Answered(r) /\ \E p \in Procs : Submit(p, r, pay)

Next ==
    \/ \E r \in Runs : Begin(r) \/ BeginFails(r)
    \/ \E r \in Runs : \E pay \in PayOf[r] : Submits(r, pay)
    \/ \E p \in Procs : Proceed(p) \/ Crash(p)
    \/ \E c \in Reviewed : Reject(c)

Spec == Init /\ [][Next]_vars

\* A process that is not killed goes on; a caller goes on submitting, and comes
\* back to its final payload whatever else it tries.
Fairness ==
    /\ \A p \in Procs : WF_vars(Proceed(p))
    /\ \A r \in Runs : SF_vars(Submits(r, Final[r]))

FairSpec == Spec /\ Fairness

-----------------------------------------------------------------------------
(* Properties. *)

\* Every variable has its type; only a result that closes the run is carried on to
\* the close (scripts/discovery-finalize, main).
TypeOK ==
    /\ temp \in [Runs -> {"none", "partial", "whole"}]
    /\ marker \in [Runs -> {"none", "partial", "whole"}]
    /\ opener \in [Runs -> {"idle", "writing", "open", "failed"}]
    /\ fate \in [Claims -> {"absent", "pending", "accepted"} \cup Settled]
    /\ proc \in [Procs -> [pc : {"idle", "check", "decide", "close", "unlink"},
                           run : Runs \cup {None}, pay : Payloads \cup {None},
                           status : {"none", "SAVED", "ALREADY_EXISTS", "NOT_SAVED",
                                     "NO_REUSABLE_KNOWLEDGE"}]]
    /\ verdicts \in [Runs -> SUBSET {"SAVED", "ALREADY_EXISTS", "NOT_SAVED",
                                     "NO_REUSABLE_KNOWLEDGE"}]
    /\ replies \subseteq [run : Runs, by : Procs, state : {"OPEN", "CLOSED"}]
    /\ faults \in 0..MaxFaults

\* Whatever dies, a marker that lookup and preflight list can be read: half a
\* marker is never in place (begin_discovery).
ListedMarkersWhole == \A r \in Runs : marker[r] # "partial"

\* A run that was opened and has no marker any more has been given a verdict:
\* neither a crash nor a dry run ends it (scripts/discovery-finalize, main).
ClosedWithVerdict ==
    \A r \in Runs : opener[r] = "open" /\ marker[r] = "none" => verdicts[r] # {}

\* Two processes that finalize one run are not both told that they closed it
\* (close_discovery).
ClosedOnce ==
    \A a, b \in replies : a.state = "CLOSED" /\ b.state = "CLOSED" /\ a.run = b.run => a = b

\* A caller that keeps submitting a payload gets its run closed in the end, even
\* when processes die between the write and the close, unless what it states has
\* been replaced or rejected meanwhile (discovery-finalize, main).
OpenRunCloses ==
    \A r \in Runs : opener[r] = "open" ~>
        marker[r] = "none" \/ fate[Final[r].claim] \in Settled

Book ==
    INSTANCE ClaimBook WITH
        owner  <- [c \in Claims |-> IF fate[c] = "absent" THEN {} ELSE {c}],
        status <- fate

\* Whatever processes crash, retry and finalize one run together, the memory
\* keeps the promise that Finalization keeps step by step: nothing is decided
\* twice, and what was accepted leaves only when its replacement enters
\* (finalize_discovery, knowledge-resolve).
KeepsTheBook == Book!BookSpec
=============================================================================
