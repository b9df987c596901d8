---------------------- MODULE IslandingAssertion_proofs ---------------------
(***************************************************************************)
(* Proofs about IslandingAssertion, for any set of batteries, any span and *)
(* any tick intervals.                                                     *)
(***************************************************************************)
EXTENDS IslandingAssertion, TLAPS

\* Ages stay between zero and the span.
LEMMA Ages ==
  /\ 0 \in 0 .. ClearAfter /\ ClearAfter \in Nat
  /\ \A n \in 0 .. ClearAfter, dt \in Elapsed :
       /\ AtMost(n + dt, ClearAfter) \in 0 .. ClearAfter
       /\ \A m \in 0 .. n : AtMost(m + dt, ClearAfter) <= AtMost(n + dt, ClearAfter)
  BY AssertionAssumption DEF AtMost

\* The invariant holds at start-up.
LEMMA InvInit == Init => IInv
  BY AssertionAssumption, Ages DEF Init, IInv, TypeOK, SpanInv, OldAssertionIsReclaimed

\* Measuring the span keeps it within the time since the last unhealthy tick,
\* and sends the tick to the clearing whenever a standing assertion is due.
LEMMA MeasureStep ==
  ASSUME IInv, NEW dt \in Elapsed, Measure(dt)
  PROVE  IInv'
<1> USE DEF IInv, TypeOK, Measure
<1>1. CASE ~AllHealthy
  BY <1>1, AssertionAssumption, Ages DEF SpanInv, OldAssertionIsReclaimed
<1>2. CASE AllHealthy
  <2>1. AllHealthy'
    BY <1>2 DEF AllHealthy
  <2>2. unhealthyAgo' \in 0 .. ClearAfter
    BY <1>2, Ages DEF Aged
  <2>3. healthyFor' \in 0 .. ClearAfter /\ healthyFor' <= unhealthyAgo'
    <3>1. CASE healthyFor = NotHealthy
      BY <1>2, <2>2, <3>1, Ages
    <3>2. CASE healthyFor # NotHealthy
      <4>1. healthyFor \in 0 .. unhealthyAgo
        BY <3>2, AssertionAssumption DEF SpanInv
      <4>2. QED
        BY <1>2, <3>2, <4>1, Ages DEF Aged
    <3>3. QED
      BY <3>1, <3>2
  <2>4. phase' = "clear" => healthyFor' = ClearAfter
    BY <1>2, <2>3, AssertionAssumption
  <2>5. OldAssertionIsReclaimed'
    BY <1>2, <2>3, AssertionAssumption DEF OldAssertionIsReclaimed
  <2>6. TypeOK' /\ SpanInv'
    BY <1>2, <2>1, <2>2, <2>3, <2>4 DEF SpanInv
  <2>7. QED
    BY <2>5, <2>6
<1>3. QED
  BY <1>1, <1>2

\* The invariant is inductive.
LEMMA InvStep == IInv /\ [Next]_vars => IInv'
<1> SUFFICES ASSUME IInv, [Next]_vars PROVE IInv'
  OBVIOUS
<1> USE DEF IInv, TypeOK, SpanInv, OldAssertionIsReclaimed, AllHealthy
<1>1. ASSUME NEW v \in Requests, Accept(v) PROVE IInv'
  BY <1>1 DEF Accept
<1>2. CASE Store
  BY <1>2 DEF Store
<1>3. ASSUME NEW observed \in [Batteries -> LinkStates], ObserveLinks(observed) PROVE IInv'
  BY <1>3 DEF ObserveLinks
<1>4. ASSUME NEW dt \in Elapsed, Measure(dt) PROVE IInv'
  BY <1>4, MeasureStep
<1>5. CASE Clear
  BY <1>5 DEF Clear
<1>6. CASE Publish
  BY <1>6 DEF Publish
<1>7. CASE UNCHANGED vars
  BY <1>7 DEF vars
<1>8. QED
  BY <1>1, <1>2, <1>3, <1>4, <1>5, <1>6, <1>7 DEF Next, Tick

\* The invariant holds in every state of every run.
THEOREM AssertionInvariance == Spec => []IInv
  BY InvInit, InvStep, PTL DEF Spec

\* The clocks stay within the span that clears an assertion, and every link state
\* and stored state stays one the code knows, whatever handler and tick interleave.
THEOREM TypeCorrect == Spec => []TypeOK
<1>1. IInv => TypeOK
  BY DEF IInv
<1>2. QED
  BY <1>1, AssertionInvariance, PTL

\* No tick publishes an assertion that outlived the healthy span, but one the
\* handler stored while the tick was running.
THEOREM Reclaimed == Spec => []OldAssertionIsReclaimed
<1>1. IInv => OldAssertionIsReclaimed
  BY DEF IInv
<1>2. QED
  BY <1>1, AssertionInvariance, PTL

\* A flapping link keeps an assertion standing: nothing but a full healthy span
\* clears it.
THEOREM ClearedAfterSpan == Spec => ClearedOnlyAfterHealthySpan
<1>1. IInv /\ [Next]_vars =>
        [assertion # "NONE" /\ assertion' = "NONE" =>
           AllHealthy /\ unhealthyAgo >= ClearAfter]_vars
  <2> SUFFICES ASSUME IInv, [Next]_vars, assertion # "NONE", assertion' = "NONE"
               PROVE  AllHealthy /\ unhealthyAgo >= ClearAfter
    OBVIOUS
  <2>1. Clear
    BY DEF Next, Tick, Accept, Store, ObserveLinks, Measure, Publish, vars, IInv, TypeOK
  <2>2. QED
    BY <2>1, AssertionAssumption DEF Clear, IInv, TypeOK, SpanInv
<1>2. QED
  BY <1>1, AssertionInvariance, PTL DEF Spec, ClearedOnlyAfterHealthySpan
=============================================================================
