----------------------- MODULE TransportLadderProofs -----------------------
(***************************************************************************)
(* What the finalizer may conclude from a trace, for runs of any length in *)
(* any number of contexts: the invariants of TransportLadder follow from   *)
(* what a proven trace is, and from the tries it refers to.                *)
(***************************************************************************)
EXTENDS TransportLadder, TLAPS

LEMMA TracesAreSequences ==
    ASSUME NEW trace \in Traces
    PROVE  /\ trace \in Seq(DOMAIN tries)
           /\ Len(trace) \in Nat
           /\ DOMAIN trace = 1..Len(trace)
           /\ \A k \in 1..Len(trace) : trace[k] \in DOMAIN tries
<1>1. PICK n \in 0..3 : trace \in [1..n -> DOMAIN tries]
  BY DEF Traces
<1>2. trace \in Seq(DOMAIN tries) /\ Len(trace) = n
  BY <1>1
<1> QED
  BY <1>1, <1>2

LEMMA OnTransports ==
    ASSUME tries \in Seq(TrySet), NEW i \in DOMAIN tries
    PROVE  On(i) \in Transports
<1>1. tries[i] \in TrySet
  OBVIOUS
<1> QED
  BY <1>1 DEF On, TrySet

\* An attempt is backed by a try on the same transport, with the same result and
\* under the one context of the trace.
LEMMA Backed ==
    ASSUME NEW trace \in Traces, NEW x \in Contexts,
           \A k \in 1..Len(trace) : BackingContexts(trace[k]) = {x},
           NEW k \in 1..Len(trace)
    PROVE  \E j \in DOMAIN tries :
               On(j) = On(trace[k]) /\ (Works(j) <=> Works(trace[k])) /\ tries[j].ctx = x
<1>1. x \in BackingContexts(trace[k])
  OBVIOUS
<1> QED
  BY <1>1 DEF BackingContexts

\* A transport that the policy holds insufficient was tried, and failed.
LEMMA InsufficientFailed ==
    ASSUME NEW trace \in Traces, NEW x \in Contexts,
           \A k \in 1..Len(trace) : BackingContexts(trace[k]) = {x},
           NEW n \in 0..Len(trace), NEW t,
           Insufficient(Done(trace, n), t)
    PROVE  Failed(t, x)
<1> USE TracesAreSequences
<1>1. t \in Attempted(trace, n)
  BY DEF Insufficient, Done
<1>2. ~ \E j \in 1..n : On(trace[j]) = t /\ Works(trace[j])
  <2> SUFFICES ASSUME \E j \in 1..n : On(trace[j]) = t /\ Works(trace[j]) PROVE FALSE
    OBVIOUS
  <2>1. Done(trace, n)[t] = "SATISFIED"
    BY <1>1 DEF Done
  <2> QED
    BY <2>1 DEF Insufficient
<1>3. PICK k \in 1..n : On(trace[k]) = t
  BY <1>1 DEF Attempted
<1>4. k \in 1..Len(trace) /\ ~Works(trace[k])
  BY <1>2, <1>3
<1> QED
  BY <1>3, <1>4, Backed DEF Failed

-----------------------------------------------------------------------------
(* The transport a proven trace selects. *)

LEMMA SelectionJustified ==
    ASSUME tries \in Seq(TrySet),
           NEW trace \in Traces, Climbs(trace), InOneContext(trace),
           NEW t \in Selected(trace)
    PROVE  \E x \in Contexts : /\ Worked(t, x)
                               /\ \A s \in Below(t) : Present(s) => Failed(s, x)
<1> USE TracesAreSequences
<1>1. PICK x \in Contexts : \A k \in 1..Len(trace) : BackingContexts(trace[k]) = {x}
  BY DEF InOneContext
<1>2. PICK k \in 1..Len(trace) : Works(trace[k]) /\ On(trace[k]) = t
  BY DEF Selected
<1>3. Worked(t, x)
  BY <1>1, <1>2, Backed DEF Worked
<1>4. Allowed(Done(trace, k - 1), t) /\ k - 1 \in 0..Len(trace)
  BY <1>2 DEF Climbs
<1>5. ASSUME NEW s \in Below(t), Present(s) PROVE Insufficient(Done(trace, k - 1), s)
  <2>1. CASE t = "LIGHTPANDA"
    BY <2>1, <1>4, <1>5 DEF Below, Allowed
  <2>2. CASE t = "CHROME"
    BY <2>2, <1>4, <1>5 DEF Below, Allowed, LetsChromeFollow, Present, Browsers
  <2>3. CASE t = "DIRECT_READ"
    BY <2>3, <1>5 DEF Below
  <2> QED
    BY <2>1, <2>2, <2>3, <1>2, OnTransports DEF Transports, Browsers
<1> QED
  BY <1>1, <1>3, <1>4, <1>5, InsufficientFailed

\* No attempt follows one that worked.
LEMMA NothingAfterSuccess ==
    ASSUME tries \in Seq(TrySet),
           NEW trace \in Traces, Climbs(trace),
           NEW j \in 1..Len(trace), NEW k \in 1..Len(trace), j < k, Works(trace[j])
    PROVE  FALSE
<1> USE TracesAreSequences
<1> DEFINE earlier == Done(trace, j - 1)
           later   == Done(trace, k - 1)
<1>1. Allowed(earlier, On(trace[j])) /\ Allowed(later, On(trace[k]))
  BY DEF Climbs
<1>2. DOMAIN earlier = Attempted(trace, j - 1) /\ DOMAIN later = Attempted(trace, k - 1)
  BY DEF Done
<1>3. Attempted(trace, j - 1) \subseteq Attempted(trace, k - 1)
  BY DEF Attempted
<1>4. On(trace[j]) \in Attempted(trace, k - 1)
  BY DEF Attempted
<1>5. ~Insufficient(later, On(trace[j]))
  <2>1. later[On(trace[j])] = "SATISFIED"
    BY <1>4 DEF Done
  <2> QED
    BY <2>1 DEF Insufficient
<1>6. On(trace[j]) \in Transports /\ On(trace[k]) \in Transports
  BY OnTransports
<1>7. On(trace[k]) # "DIRECT_READ"
  BY <1>1, <1>2, <1>4 DEF Allowed
<1>8. On(trace[j]) # "DIRECT_READ"
  BY <1>1, <1>5, <1>6, <1>7 DEF Allowed, Transports, Browsers
<1>9. CASE On(trace[j]) = "LIGHTPANDA"
  <2>1. avail["LIGHTPANDA"] = "AVAILABLE"
    BY <1>1, <1>9 DEF Allowed
  <2> QED
    BY <1>1, <1>2, <1>4, <1>5, <1>6, <1>7, <1>9, <2>1
       DEF Allowed, LetsChromeFollow, Transports, Browsers
<1>10. CASE On(trace[j]) = "CHROME"
  <2>1. On(trace[k]) = "LIGHTPANDA"
    BY <1>1, <1>2, <1>4, <1>6, <1>7, <1>10 DEF Allowed, Transports, Browsers
  <2>2. avail["LIGHTPANDA"] = "AVAILABLE" /\ "LIGHTPANDA" \notin DOMAIN later
    BY <1>1, <2>1 DEF Allowed
  <2>3. Insufficient(earlier, "LIGHTPANDA")
    BY <1>1, <1>10, <2>2 DEF Allowed, LetsChromeFollow
  <2> QED
    BY <1>2, <1>3, <2>2, <2>3 DEF Insufficient
<1> QED
  BY <1>6, <1>8, <1>9, <1>10 DEF Transports, Browsers

LEMMA OneSelected ==
    ASSUME tries \in Seq(TrySet), NEW trace \in Traces, Climbs(trace)
    PROVE  Selected(trace) \in {{}} \cup {{t} : t \in Transports}
<1> USE TracesAreSequences
<1>1. CASE Selected(trace) = {}
  BY <1>1
<1>2. CASE Selected(trace) # {}
  <2>1. PICK k \in 1..Len(trace) : Works(trace[k])
    BY <1>2 DEF Selected
  <2>2. \A j \in 1..Len(trace) : Works(trace[j]) => j = k
    BY <2>1, NothingAfterSuccess
  <2>3. Selected(trace) = {On(trace[k])}
    BY <2>1, <2>2 DEF Selected
  <2>4. On(trace[k]) \in Transports
    BY OnTransports
  <2> QED
    BY <2>3, <2>4
<1> QED
  BY <1>1, <1>2

-----------------------------------------------------------------------------
(* A trace that selects nothing. *)

LEMMA ExhaustionJustified ==
    ASSUME tries \in Seq(TrySet),
           NEW trace \in Traces, Proven(trace), Selected(trace) = {}
    PROVE  \E x \in Contexts : \A t \in Transports : Present(t) => Failed(t, x)
<1> USE TracesAreSequences
<1>1. PICK x \in Contexts : \A k \in 1..Len(trace) : BackingContexts(trace[k]) = {x}
  BY DEF Proven, InOneContext
<1>2. \A k \in 1..Len(trace) : ~Works(trace[k])
  BY DEF Selected
<1>3. ASSUME NEW t \in Attempted(trace, Len(trace)) PROVE Failed(t, x)
  <2>1. PICK k \in 1..Len(trace) : On(trace[k]) = t
    BY DEF Attempted
  <2> QED
    BY <1>1, <1>2, <2>1, Backed DEF Failed
<1>4. "DIRECT_READ" \in Attempted(trace, Len(trace))
  <2>1. 1 \in 1..Len(trace)
    BY DEF Proven
  <2>2. Allowed(Done(trace, 0), On(trace[1])) /\ On(trace[1]) \in Transports
    BY <2>1, OnTransports DEF Proven, Climbs
  <2>3. DOMAIN Done(trace, 0) = {}
    BY DEF Done, Attempted
  <2>4. On(trace[1]) = "DIRECT_READ"
    BY <2>2, <2>3 DEF Allowed, Insufficient, Transports, Browsers
  <2> QED
    BY <2>1, <2>4 DEF Attempted
<1>5. ASSUME NEW t \in Browsers, Present(t) PROVE t \in Attempted(trace, Len(trace))
  BY <1>5 DEF Proven, Exhausted, Present
<1> QED
  BY <1>3, <1>4, <1>5 DEF Transports

-----------------------------------------------------------------------------
(* A run that followed the policy. *)

LEMMA LadderIsSequence ==
    ASSUME tries \in Seq(TrySet)
    PROVE  /\ Len(Ladder) = Len(tries) /\ Len(tries) \in Nat
           /\ DOMAIN tries = 1..Len(tries)
           /\ \A k \in 1..Len(Ladder) : Ladder[k] = k
BY DEF Ladder

LEMMA HonestIsBacked ==
    ASSUME tries \in Seq(TrySet), Honest
    PROVE  InOneContext(Ladder)
<1> USE LadderIsSequence
<1>1. 1 \in DOMAIN tries
  BY DEF Honest
<1> DEFINE x == tries[1].ctx
<1>2. x \in Contexts
  <2>1. tries[1] \in TrySet
    BY <1>1
  <2> QED
    BY <2>1 DEF TrySet
<1>3. ASSUME NEW k \in DOMAIN tries PROVE BackingContexts(k) = {x}
  <2>1. \A j \in DOMAIN tries : tries[j].ctx = x /\ Backs(j)
    BY <1>1 DEF Honest
  <2> QED
    BY <2>1 DEF BackingContexts
<1> QED
  BY <1>2, <1>3 DEF InOneContext

LEMMA HonestIsExhausted ==
    ASSUME tries \in Seq(TrySet), avail \in [Browsers -> Statuses],
           Honest, ~HaltsEarly, Selected(Ladder) = {}
    PROVE  Exhausted(Ladder)
<1> USE LadderIsSequence
<1> DEFINE n == Len(tries)
           done == Done(Ladder, n)
<1>1. \A k \in DOMAIN tries : ~Works(k)
  BY DEF Selected
<1>2. DOMAIN done = Attempted(Ladder, n)
  BY DEF Done
<1>3. \A t \in Attempted(Ladder, n) : Insufficient(done, t)
  BY <1>1, <1>2 DEF Done, Insufficient
<1>4. Halted(done)
  BY DEF Honest
<1>5. Insufficient(done, "DIRECT_READ")
  <2>1. DOMAIN done # {}
    BY DEF Done, Attempted, Honest
  <2>2. "DIRECT_READ" \in Attempted(Ladder, n)
    <3>1. 1 \in 1..Len(Ladder) /\ 1 \in DOMAIN tries
      BY DEF Honest
    <3>2. Allowed(Done(Ladder, 0), On(1)) /\ On(1) \in Transports
      BY <3>1, OnTransports DEF Honest, Climbs
    <3>3. DOMAIN Done(Ladder, 0) = {}
      BY DEF Done, Attempted
    <3>4. On(1) = "DIRECT_READ"
      BY <3>2, <3>3 DEF Allowed, Insufficient, Transports, Browsers
    <3> QED
      BY <3>1, <3>4 DEF Attempted
  <2> QED
    BY <1>3, <2>2
<1>6. avail["LIGHTPANDA"] = "AVAILABLE" => "LIGHTPANDA" \in DOMAIN done
  BY <1>4, <1>5 DEF Halted, Allowed, Transports, Browsers
<1>7. avail["CHROME"] = "AVAILABLE" => "CHROME" \in DOMAIN done
  <2> SUFFICES ASSUME avail["CHROME"] = "AVAILABLE" PROVE "CHROME" \in DOMAIN done
    OBVIOUS
  <2>1. avail["LIGHTPANDA"] # "UNAVAILABLE"
    BY <1>1 DEF HaltsEarly, Browsers
  <2>2. LetsChromeFollow(done)
    BY <1>2, <1>3, <1>6, <2>1 DEF LetsChromeFollow, Statuses, Browsers
  <2> QED
    BY <1>4, <1>5, <2>2 DEF Halted, Allowed, Transports, Browsers
<1> QED
  BY <1>2, <1>4, <1>6, <1>7 DEF Exhausted, Browsers

LEMMA HonestIsProven ==
    ASSUME tries \in Seq(TrySet), avail \in [Browsers -> Statuses],
           Honest, ~HaltsEarly
    PROVE  Proven(Ladder)
<1>1. Ladder # <<>>
  BY LadderIsSequence DEF Honest
<1> QED
  BY <1>1, HonestIsBacked, HonestIsExhausted DEF Proven, Honest

-----------------------------------------------------------------------------
(* The invariants. *)

LadderInv == TypeOK /\ SelectedIsSimplest /\ BlockedIsExhausted

LEMMA PassIsProven ==
    ASSUME NEW trace \in Traces, Gate(trace) = "PASS", trace # <<>>
    PROVE  Proven(trace)
BY DEF Gate

LEMMA UntracedSelectsNothing ==
    ASSUME NEW trace \in Traces, trace = <<>>
    PROVE  Selected(trace) = {}
BY DEF Selected

LEMMA GateAnswers ==
    ASSUME NEW trace \in Traces
    PROVE  Gate(trace) \in {"PASS", "TRANSPORT_TRACE", "TRANSPORT_POLICY_UNPROVEN",
                            "FAILURE_UNCLASSIFIED"}
BY DEF Gate

LEMMA InitLadder == Init => LadderInv
<1> SUFFICES ASSUME Init PROVE LadderInv
  OBVIOUS
<1>1. TypeOK
  BY DEF Init, NoAnswer, TypeOK
<1>2. SelectedIsSimplest /\ BlockedIsExhausted
  BY DEF Init, NoAnswer, SelectedIsSimplest, BlockedIsExhausted
<1> QED
  BY <1>1, <1>2 DEF LadderInv

LEMMA TryKeeps ==
    ASSUME LadderInv, NEW new \in TrySet, Try(new)
    PROVE  LadderInv'
<1>1. TypeOK'
  BY DEF LadderInv, TypeOK, Try, NoAnswer
<1>2. (SelectedIsSimplest /\ BlockedIsExhausted)'
  BY DEF Try, NoAnswer, SelectedIsSimplest, BlockedIsExhausted
<1> QED
  BY <1>1, <1>2 DEF LadderInv

LEMMA SubmitKeeps ==
    ASSUME LadderInv, NEW trace \in Traces, Submit(trace)
    PROVE  LadderInv'
<1> USE DEF LadderInv
<1>1. tries \in Seq(TrySet) /\ tries' = tries /\ avail' = avail
  BY DEF TypeOK, Submit
<1>2. answer' = [out |-> Gate(trace),
                 proven |-> Gate(trace) = "PASS" /\ trace # <<>>,
                 selected |-> IF Gate(trace) = "PASS" THEN Selected(trace) ELSE {}]
  BY DEF Submit
<1>3. TypeOK'
  <2>1. answer'.selected \in {{}} \cup {{t} : t \in Transports}
    <3>1. CASE answer'.selected = {}
      BY <3>1
    <3>2. CASE answer'.selected # {}
      BY <1>1, <1>2, <3>2, PassIsProven, UntracedSelectsNothing, OneSelected DEF Proven
    <3> QED
      BY <3>1, <3>2
  <2> QED
    BY <1>1, <1>2, <2>1, GateAnswers DEF TypeOK
<1>4. SelectedIsSimplest'
  <2> SUFFICES ASSUME NEW t \in answer'.selected
               PROVE  \E x \in Contexts : /\ Worked(t, x)
                                          /\ \A s \in Below(t) : Present(s) => Failed(s, x)
    BY <1>1 DEF SelectedIsSimplest, Worked, Failed, Present, On, Works
  <2>1. Gate(trace) = "PASS" /\ t \in Selected(trace)
    BY <1>2
  <2>2. Proven(trace)
    BY <2>1, PassIsProven, UntracedSelectsNothing
  <2> QED
    BY <1>1, <2>1, <2>2, SelectionJustified DEF Proven
<1>5. BlockedIsExhausted'
  <2> SUFFICES ASSUME answer'.proven, answer'.selected = {}
               PROVE  \E x \in Contexts : \A t \in Transports : Present(t) => Failed(t, x)
    BY <1>1 DEF BlockedIsExhausted, Failed, Present, On, Works
  <2>1. Gate(trace) = "PASS" /\ trace # <<>> /\ Selected(trace) = {}
    BY <1>2
  <2> QED
    BY <1>1, <2>1, PassIsProven, ExhaustionJustified
<1> QED
  BY <1>3, <1>4, <1>5

LEMMA LadderInvariant == Spec => []LadderInv
<1>1. LadderInv /\ UNCHANGED vars => LadderInv'
  BY DEF LadderInv, vars, TypeOK, SelectedIsSimplest, BlockedIsExhausted, Worked,
         Failed, Present, On, Works
<1>2. LadderInv /\ [Next]_vars => LadderInv'
  BY <1>1, TryKeeps, SubmitKeeps DEF Next
<1> QED
  BY <1>2, InitLadder, PTL DEF Spec

\* Every variable keeps its type, and no accepted trace selects two transports,
\* however the caller orders it (_validated_transport_trace).
THEOREM TypeCorrect == Spec => []TypeOK
BY LadderInvariant, PTL DEF LadderInv

\* The transport that an accepted trace selects has worked, and every simpler one
\* the machine has was tried and failed under the same context, for any number of
\* tries and contexts (_validated_transport_trace).
THEOREM SimplestSelected == Spec => []SelectedIsSimplest
BY LadderInvariant, PTL DEF LadderInv

\* An accepted trace that selects nothing has tried all the machine has, and all of
\* it failed under one context (_validated_transport_trace, "exhausted").
THEOREM BlockedExhausted == Spec => []BlockedIsExhausted
BY LadderInvariant, PTL DEF LadderInv

\* A run that climbs as the policy says and reports what it saw under one context
\* can always prove it, except where the policy halts before Chrome
\* (next_transport, _validated_transport_trace).
THEOREM LadderProven == Spec => []CompleteLadderIsProven
<1>1. TypeOK => CompleteLadderIsProven
  BY HonestIsProven DEF TypeOK, CompleteLadderIsProven
<1> QED
  BY <1>1, TypeCorrect, PTL
=============================================================================
