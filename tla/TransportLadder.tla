--------------------------- MODULE TransportLadder ---------------------------
(***************************************************************************)
(* How a Discovery run proves which transport a capability needs           *)
(* (transport_policy.py, the trace gates of discovery_finalize.py).        *)
(*                                                                         *)
(* A run tries transports on a target and then submits a payload: all it   *)
(* observed, and a trace that says in which order it climbed the ladder    *)
(*                                                                         *)
(*          DIRECT_READ -> LIGHTPANDA -> CHROME                            *)
(*                                                                         *)
(* The finalizer was not there.  It replays the trace against the policy   *)
(* and against the observations of the payload.  The caller does not lie   *)
(* about what it saw, but it may try transports in any order, leave some   *)
(* out of the trace, list them in another order, or report what it saw in  *)
(* a place where the replay does not look for it.                          *)
(***************************************************************************)
EXTENDS Naturals, Sequences

CONSTANTS
    Contexts,    \* authentication and environment of a validation
    Reports,     \* where the payload reports a try, see ReportSet
    MaxTries     \* bound on the tries of one run

\* A try is reported as an observation of family transport, of another family, of
\* a class other than OBSERVED, or as the failed side of a contradiction.
ReportSet == {"transport", "other", "inferred", "prior"}

ASSUME ConstantsOK == Reports \subseteq ReportSet /\ MaxTries \in Nat

Browsers   == {"LIGHTPANDA", "CHROME"}
Transports == {"DIRECT_READ"} \cup Browsers
Statuses   == {"AVAILABLE", "UNAVAILABLE", "PLATFORM_UNSUPPORTED"}

\* The simpler transports come first.
Below(t) ==
    CASE t = "DIRECT_READ" -> {}
      [] t = "LIGHTPANDA"  -> {"DIRECT_READ"}
      [] t = "CHROME"      -> {"DIRECT_READ", "LIGHTPANDA"}

\* A try works, or fails for a reason that lies with the target, or for one that
\* lies with the network or the machine.
Results == {"FUNCTIONAL", "BLOCKED", "TRANSIENT"}

TrySet == [on : Transports, result : Results, ctx : Contexts, told : Reports]

VARIABLES
    avail,    \* what preflight reports of each browser, copied into the trace
    tries,    \* what the run has tried, in order
    answer    \* of the finalizer, with the transport a proven trace selects

vars == <<avail, tries, answer>>

Works(i) == tries[i].result = "FUNCTIONAL"
On(i) == tries[i].on

Present(t) == t \in Browsers => avail[t] = "AVAILABLE"

-----------------------------------------------------------------------------
(* next_transport: the policy, given what was attempted so far.             *)

WasTried(done, t) == t \in DOMAIN done              \* mutant: a success is no end
Insufficient(done, t) == t \in DOMAIN done /\ done[t] = "INSUFFICIENT"

ChromeAnyway(done) == TRUE        \* mutant: whatever became of Lightpanda

\* The policy halts at an UNAVAILABLE Lightpanda: only PLATFORM_UNSUPPORTED
\* passes on to Chrome.
LetsChromeFollow(done) ==
    \/ avail["LIGHTPANDA"] = "AVAILABLE" /\ Insufficient(done, "LIGHTPANDA")
    \/ avail["LIGHTPANDA"] = "PLATFORM_UNSUPPORTED"

Allowed(done, t) ==
    CASE t = "DIRECT_READ" -> DOMAIN done = {}
      [] t = "LIGHTPANDA" ->
           /\ Insufficient(done, "DIRECT_READ")
           /\ avail["LIGHTPANDA"] = "AVAILABLE"
           /\ "LIGHTPANDA" \notin DOMAIN done
      [] t = "CHROME" ->
           /\ Insufficient(done, "DIRECT_READ")
           /\ LetsChromeFollow(done)
           /\ avail["CHROME"] = "AVAILABLE"
           /\ "CHROME" \notin DOMAIN done

Halted(done) == \A t \in Transports : ~Allowed(done, t)

-----------------------------------------------------------------------------
(* _validated_transport_trace.  A trace is a sequence of indices of tries;  *)
(* all tries of a run read the same page, so that their evidence does not   *)
(* tell two tries of one transport apart.                                   *)

Attempted(trace, k) == {On(trace[j]) : j \in 1..k}

\* What the first k attempts of a trace come to.
Done(trace, k) ==
    [t \in Attempted(trace, k) |->
        IF \E j \in 1..k : On(trace[j]) = t /\ Works(trace[j])
        THEN "SATISFIED" ELSE "INSUFFICIENT"]

Climbs(trace) == \A k \in 1..Len(trace) : Allowed(Done(trace, k - 1), On(trace[k]))

\* The observations that may back an attempt: of class OBSERVED, and on the
\* failed side of a contradiction only for a failure.
Backs(i) ==
    \/ tries[i].told \in {"transport", "other"}
    \/ tries[i].told = "prior" /\ ~Works(i)

BackingContexts(i) ==
    {tries[j].ctx : j \in {j \in DOMAIN tries :
        Backs(j) /\ On(j) = On(i) /\ (Works(j) <=> Works(i))}}

\* Every attempt is backed, and all of them under one context.
InOneContext(trace) ==
    \E x \in Contexts : \A k \in 1..Len(trace) : BackingContexts(trace[k]) = {x}

Selected(trace) == {On(trace[k]) : k \in {k \in 1..Len(trace) : Works(trace[k])}}

\* No next step, and nothing this machine has was left out: the first does not
\* imply the second, because the policy may halt early.
\* Mutants: the end of the policy is enough; or a browser this platform lacks counts.
HaltedOnly(trace) == Halted(Done(trace, Len(trace)))
ExhaustedOfAll(trace) ==
    /\ Halted(Done(trace, Len(trace)))
    /\ \A t \in Browsers : avail[t] # "UNAVAILABLE" => t \in Attempted(trace, Len(trace))
Exhausted(trace) ==
    /\ Halted(Done(trace, Len(trace)))
    /\ \A t \in Browsers : avail[t] = "AVAILABLE" => t \in Attempted(trace, Len(trace))

Proven(trace) ==
    /\ trace # <<>>
    /\ Climbs(trace)
    /\ InOneContext(trace)
    /\ Selected(trace) # {} \/ Exhausted(trace)

-----------------------------------------------------------------------------
(* The gates of finalize_discovery.                                         *)

Repeats(trace) ==
    \E j, k \in 1..Len(trace) : j # k /\ On(trace[j]) = On(trace[k])

\* A payload that names a browser anywhere but in a contradiction needs a trace.
BrowserTraceRequired ==
    \E i \in DOMAIN tries : On(i) \in Browsers /\ tries[i].told # "prior"

\* Only a transport observation counts as a failure here.
FailedWithoutAWorkingTransport ==
    /\ \A i \in DOMAIN tries : Works(i) => tries[i].told = "prior"
    /\ \E i \in DOMAIN tries : ~Works(i) /\ tries[i].told \in {"transport", "inferred"}

DurableFailureClassified == \E i \in DOMAIN tries : tries[i].result = "BLOCKED"

\* The empty sequence stands for a payload without a trace.
Gate(trace) ==
    CASE Repeats(trace) -> "TRANSPORT_TRACE"
      [] ~Repeats(trace) /\ (trace # <<>> \/ BrowserTraceRequired) /\ ~Proven(trace)
           -> "TRANSPORT_POLICY_UNPROVEN"
      [] OTHER ->
           IF FailedWithoutAWorkingTransport /\ ~DurableFailureClassified
           THEN "FAILURE_UNCLASSIFIED" ELSE "PASS"

-----------------------------------------------------------------------------
NoAnswer == [out |-> "NONE", proven |-> FALSE, selected |-> {}]

Init ==
    /\ avail \in [Browsers -> Statuses]
    /\ tries = <<>>
    /\ answer = NoAnswer

Open == answer.out # "PASS"

\* A run that was refused stays open, and may go on.
Try(new) ==
    /\ Open /\ Len(tries) < MaxTries
    /\ Present(new.on)
    /\ tries' = Append(tries, new)
    /\ answer' = NoAnswer
    /\ UNCHANGED avail

Submit(trace) ==
    /\ Open /\ tries # <<>>
    /\ answer' = [out |-> Gate(trace),
                  proven |-> Gate(trace) = "PASS" /\ trace # <<>>,
                  selected |-> IF Gate(trace) = "PASS" THEN Selected(trace) ELSE {}]
    /\ UNCHANGED <<avail, tries>>

\* Traces longer than the ladder repeat a transport.
Traces == UNION {[1..n -> DOMAIN tries] : n \in 0..3}

Next ==
    \/ \E new \in TrySet : Try(new)
    \/ \E trace \in Traces : Submit(trace)

Spec == Init /\ [][Next]_vars

-----------------------------------------------------------------------------
(* Properties. *)

\* Every variable has its type, and a trace selects one transport at most
\* (_validated_transport_trace keeps the last working one).
TypeOK ==
    /\ avail \in [Browsers -> Statuses]
    /\ tries \in Seq(TrySet)
    /\ answer \in [out : {"NONE", "PASS", "TRANSPORT_TRACE", "TRANSPORT_POLICY_UNPROVEN",
                          "FAILURE_UNCLASSIFIED"},
                   proven : BOOLEAN, selected : {{}} \cup {{t} : t \in Transports}]

Failed(t, x) == \E i \in DOMAIN tries : On(i) = t /\ ~Works(i) /\ tries[i].ctx = x
Worked(t, x) == \E i \in DOMAIN tries : On(i) = t /\ Works(i) /\ tries[i].ctx = x

\* The transport a proven trace selects has worked, and every simpler one that the
\* machine has was really tried and failed, under the same context: however the
\* caller chose and ordered its trace, an available Lightpanda cannot be left out
\* of a selection of Chrome (_validated_transport_trace).
SelectedIsSimplest ==
    \A t \in answer.selected : \E x \in Contexts :
        /\ Worked(t, x)
        /\ \A s \in Below(t) : Present(s) => Failed(s, x)

\* A capability is accepted as blocked only if all the machine has was really
\* tried and failed, under one context (_validated_transport_trace, "exhausted").
BlockedIsExhausted ==
    answer.proven /\ answer.selected = {} =>
        \E x \in Contexts : \A t \in Transports : Present(t) => Failed(t, x)

\* The run climbed as the policy says until it halts, and reported all it saw as
\* observed under one context.
Ladder == [i \in DOMAIN tries |-> i]
Honest ==
    /\ tries # <<>>
    /\ Climbs(Ladder)
    /\ Halted(Done(Ladder, Len(tries)))
    /\ \A i, j \in DOMAIN tries : Backs(i) /\ tries[i].ctx = tries[j].ctx

\* Nothing worked, Lightpanda is missing and Chrome is there: the policy ends the
\* climb, and the finalizer asks for Chrome all the same.
HaltsEarly ==
    /\ avail = [t \in Browsers |-> IF t = "CHROME" THEN "AVAILABLE" ELSE "UNAVAILABLE"]
    /\ \A i \in DOMAIN tries : ~Works(i)

\* Whoever follows the policy to its end can prove it, except where the policy
\* halts early: the two readings of the ladder, step by step in next_transport and
\* as a whole in the replay, agree (next_transport, _validated_transport_trace).
CompleteLadderIsProven == Honest /\ ~HaltsEarly => Proven(Ladder)

\* SKILL.md: a transient failure is never saved as target knowledge.
TransientNeverSaved ==
    answer.out = "PASS" => \E i \in DOMAIN tries : tries[i].result # "TRANSIENT"
=============================================================================
