------------------------- MODULE IslandingAssertion -------------------------
(***************************************************************************)
(* The consumer's islanding assertion (shed/asserted-islanding-state): a   *)
(* consumer may say ON_GRID or OFF_GRID while the panel's link to some     *)
(* battery is not healthy; once every link has been OK for ClearAfter      *)
(* seconds of tick time the panel takes its authority back.                *)
(*                                                                         *)
(* The handler runs on the MQTT client's thread: it reads the links of the *)
(* last tick, then stores.  The tick runs on the producer's thread: it     *)
(* replaces the links, restarts or extends the healthy span, reads the     *)
(* assertion, clears it if the span is long enough, and publishes it.      *)
(* Either may run between two steps of the other.                          *)
(*                                                                         *)
(* Only differences of tick times matter, so a tick carries the time since *)
(* the tick before it, and ages stop growing at ClearAfter.  The clock of  *)
(* the producer is assumed not to run backwards.                           *)
(***************************************************************************)
EXTENDS Integers

CONSTANTS
  Batteries,
  Accepting,      \* the link states that make an assertion acceptable
  ClearAfter,     \* ASSERTION_CLEAR_AFTER_S
  Elapsed,        \* the tick intervals in play
  Requests,       \* the values a consumer may write
  Unobserved,     \* no tick has observed the links
  NotHealthy      \* no healthy span is running

LinkStates == {"OK", "DEGRADED", "LOST", "UNKNOWN"}
Assertable == {"ON_GRID", "OFF_GRID"}

ASSUME AssertionAssumption ==
  /\ Accepting \subseteq LinkStates \ {"OK"}
  /\ ClearAfter \in Nat \ {0}
  /\ Elapsed \subseteq Nat
  /\ NotHealthy \notin Nat
  /\ Unobserved \notin [Batteries -> LinkStates]

VARIABLES
  links,       \* _bess_links
  healthyFor,  \* now - _links_healthy_since as of the last tick
  assertion,   \* _asserted_islanding_override, "NONE" for None
  phase,       \* where the tick is
  pending,     \* the value the handler is about to store, "NONE" if it is not
  published,   \* the last published asserted-islanding-state
  unhealthyAgo,  \* history: since the last unhealthy tick, or since start-up
  late           \* history: an assertion was stored since the last expiry check

vars == <<links, healthyFor, assertion, phase, pending, published, unhealthyAgo, late>>

AtMost(n, bound) == IF n < bound THEN n ELSE bound

AllHealthy == links # Unobserved /\ \A b \in Batteries : links[b] = "OK"

\* _assertion_eligible.
Eligible ==
  IF links = Unobserved THEN Batteries # {}
  ELSE \E b \in Batteries : links[b] \in Accepting

\* Type invariant: only ON_GRID and OFF_GRID ever become an assertion, and the
\* handler never holds anything else (on_asserted_islanding).
TypeOK ==
  /\ links \in [Batteries -> LinkStates] \union {Unobserved}
  /\ healthyFor \in 0 .. ClearAfter \union {NotHealthy}
  /\ assertion \in Assertable \union {"NONE"}
  /\ phase \in {"idle", "expire", "clear", "publish"}
  /\ pending \in Assertable \union {"NONE"}
  /\ published \in Assertable \union {"NONE"}
  /\ unhealthyAgo \in 0 .. ClearAfter
  /\ late \in BOOLEAN

Init ==
  /\ links = Unobserved
  /\ healthyFor = NotHealthy
  /\ assertion = "NONE"
  /\ phase = "idle"
  /\ pending = "NONE"
  /\ published = "NONE"
  /\ unhealthyAgo = 0
  /\ late = FALSE

-----------------------------------------------------------------------------
(* The handler, on_asserted_islanding. *)

\* Slip: any value is taken for an assertion.
AcceptAnything(v) ==
  /\ pending = "NONE"
  /\ Eligible
  /\ pending' = v
  /\ UNCHANGED <<links, healthyFor, assertion, phase, published, unhealthyAgo, late>>

\* The value and the links are in order; any other write is ignored.
Accept(v) ==
  /\ pending = "NONE"
  /\ v \in Assertable
  /\ Eligible
  /\ pending' = v
  /\ UNCHANGED <<links, healthyFor, assertion, phase, published, unhealthyAgo, late>>

Store ==
  /\ pending # "NONE"
  /\ assertion' = pending
  /\ pending' = "NONE"
  /\ late' = TRUE
  /\ UNCHANGED <<links, healthyFor, phase, published, unhealthyAgo>>

-----------------------------------------------------------------------------
(* The tick. *)

\* The links of this tick replace those of the last one.
ObserveLinks(observed) ==
  /\ phase = "idle"
  /\ links' = observed
  /\ phase' = "expire"
  /\ UNCHANGED <<healthyFor, assertion, pending, published, unhealthyAgo, late>>

Aged(dt) == AtMost(unhealthyAgo + dt, ClearAfter)

\* Slip: an unhealthy tick does not restart the wait.
MeasureNeverRestarting(dt) ==
  /\ phase = "expire"
  /\ IF ~AllHealthy
     THEN /\ phase' = "publish"
          /\ unhealthyAgo' = 0
          /\ UNCHANGED healthyFor
     ELSE /\ healthyFor' = IF healthyFor = NotHealthy THEN 0
                           ELSE AtMost(healthyFor + dt, ClearAfter)
          /\ phase' = IF assertion # "NONE" /\ healthyFor' >= ClearAfter
                      THEN "clear" ELSE "publish"
          /\ unhealthyAgo' = Aged(dt)
  /\ late' = FALSE
  /\ UNCHANGED <<links, assertion, pending, published>>

\* _expire_assertion up to the clearing, dt after the tick before: an unhealthy
\* tick restarts the wait, the first healthy one starts it.
Measure(dt) ==
  /\ phase = "expire"
  /\ IF ~AllHealthy
     THEN /\ healthyFor' = NotHealthy
          /\ phase' = "publish"
          /\ unhealthyAgo' = 0
     ELSE /\ healthyFor' = IF healthyFor = NotHealthy THEN 0
                           ELSE AtMost(healthyFor + dt, ClearAfter)
          /\ phase' = IF assertion # "NONE" /\ healthyFor' >= ClearAfter
                      THEN "clear" ELSE "publish"
          /\ unhealthyAgo' = Aged(dt)
  /\ late' = FALSE
  /\ UNCHANGED <<links, assertion, pending, published>>

\* Slip: the clearing is forgotten.
ClearNothing ==
  /\ phase = "clear"
  /\ phase' = "publish"
  /\ UNCHANGED <<links, healthyFor, assertion, pending, published, unhealthyAgo, late>>

Clear ==
  /\ phase = "clear"
  /\ assertion' = "NONE"
  /\ phase' = "publish"
  /\ UNCHANGED <<links, healthyFor, pending, published, unhealthyAgo, late>>

Publish ==
  /\ phase = "publish"
  /\ published' = assertion
  /\ phase' = "idle"
  /\ UNCHANGED <<links, healthyFor, assertion, pending, unhealthyAgo, late>>

Tick ==
  \/ \E observed \in [Batteries -> LinkStates] : ObserveLinks(observed)
  \/ \E dt \in Elapsed : Measure(dt)
  \/ Clear
  \/ Publish

Next ==
  \/ \E v \in Requests : Accept(v)
  \/ Store
  \/ Tick

Spec == Init /\ [][Next]_vars

\* The producer keeps ticking and no call blocks.
FairSpec == Spec /\ WF_vars(Tick)

-----------------------------------------------------------------------------
\* An assertion goes away only if every link is OK and no tick has seen an
\* unhealthy one for ClearAfter seconds: a flapping link keeps it standing
\* (DESIGN.md, "any unhealthy tick restarts that wait").
ClearedOnlyAfterHealthySpan ==
  [][assertion # "NONE" /\ assertion' = "NONE" =>
       AllHealthy /\ unhealthyAgo >= ClearAfter]_vars

\* After ClearAfter healthy seconds a tick publishes no assertion but one that
\* was stored while this very tick was running: the handler's late store can
\* delay the clearing by one tick, never undo it for good.
OldAssertionIsReclaimed ==
  phase = "publish" /\ healthyFor = ClearAfter /\ assertion # "NONE" => late

\* If every link is healthy for good, the panel ends up with its authority and
\* keeps it, however the consumer's last writes fall (_expire_assertion).
ReclaimedOnceHealthy == <>[]AllHealthy => <>[](assertion = "NONE")

\* What DESIGN.md says of acceptance: between two ticks, an assertion is stored
\* only while some link, as of the last tick, is not OK, or before any tick.
AcceptedOnlyWhileUnhealthy ==
  [][phase = "idle" /\ assertion' # assertion /\ assertion' # "NONE" => ~AllHealthy]_vars

\* The inductive invariant: the span the code measures never exceeds the time
\* since the last unhealthy tick, and the clearing is decided only at its end.
SpanInv ==
  /\ healthyFor # NotHealthy => healthyFor <= unhealthyAgo
  /\ phase = "clear" => AllHealthy /\ healthyFor = ClearAfter

\* The inductive invariant of handler and tick together (_expire_assertion).
IInv == TypeOK /\ SpanInv /\ OldAssertionIsReclaimed
=============================================================================
