------------------------- MODULE TickPipeline_proofs ------------------------
(***************************************************************************)
(* Proofs about TickPipeline, for every manifest, policy and charge.       *)
(***************************************************************************)
EXTENDS TickPipeline, TLAPS

\* The override map never holds anything but an override.
LEMMA OverrideTypes == NoOverride \in Relays!Overrides /\ Relays!RelayStates \subseteq Relays!Overrides
  BY DEF Relays!Overrides, Relays!RelayStates

\* state() always yields a relay state and a requester.
LEMMA StateType ==
  ASSUME TypeOK, NEW c \in Circuits
  PROVE  Relays!State(c) \in Relays!Resolution
  BY DEF TypeOK, Relays!State, Relays!Resolution, Relays!Requesters,
         Relays!RelayStates, Relays!Overrides

\* A priority is always one of the priorities in play.
LEMMA PriorityType ==
  ASSUME TypeOK, NEW c \in Circuits
  PROVE  Priority(c) \in Priorities
  BY PipelineAssumption DEF TypeOK, Priority

\* The set of circuits is the interval the passes run over.
LEMMA CircuitRange ==
  /\ 1 \in Circuits
  /\ NumCircuits \in Circuits
  /\ \A c \in Circuits : c \in Nat /\ c <= NumCircuits /\ c + 1 \in 1 .. NumCircuits + 1
  BY PipelineAssumption DEF Circuits

\* Type correctness: every action keeps every map of the emitter well-formed.
THEOREM TypeInit == Init => TypeOK
  BY CircuitRange, PipelineAssumption, OverrideTypes
     DEF Init, TypeOK, Phases, Unread, Ungated, Relays!Overrides, Relays!RelayStates

\* Every step keeps the maps well-formed.
LEMMA TypeStep == TypeOK /\ PhaseInv /\ SnapshotInv /\ [Next]_vars => TypeOK'
<1> SUFFICES ASSUME TypeOK, PhaseInv, SnapshotInv, [Next]_vars PROVE TypeOK'
  OBVIOUS
<1> USE CircuitRange, PipelineAssumption, OverrideTypes DEF TypeOK
<1>1. ASSUME NEW c \in Circuits, NEW v \in Relays!RelayStates, OnCircuitRelay(c, v)
      PROVE  TypeOK'
  BY <1>1 DEF OnCircuitRelay, Relays!SetUserOverride, Widened
<1>2. ASSUME NEW c \in Circuits, NEW p \in Priorities, OnShedPriority(c, p)
      PROVE  TypeOK'
  <2>1. priority_overrides' \in [Circuits -> Priorities \union {NoOverride}]
    BY <1>2 DEF OnShedPriority
  <2>2. Priority(c)' \in Priorities
    BY <2>1 DEF Priority
  <2>3. \A m \in priority_order[c] : <<m[1], Priority(c)'>> \in Priorities \X Priorities
    BY <2>2
  <2> DEFINE q == Priority(c)'
             order == {<<q, q>>} \union
                      (IF phase = "idle" THEN {}
                       ELSE priority_order[c] \union {<<m[1], q>> : m \in priority_order[c]})
  <2>4. order \in SUBSET (Priorities \X Priorities)
    BY <2>2, <2>3
  <2>5. priority_order' = [priority_order EXCEPT ![c] = order]
    BY <1>2 DEF OnShedPriority, Reprioritised
  <2> HIDE DEF order
  <2>6. priority_order' \in [Circuits -> SUBSET (Priorities \X Priorities)]
    BY <2>4, <2>5
  <2>7. QED
    BY <1>2, <2>1, <2>6 DEF OnShedPriority
<1>3. ASSUME NEW c \in Circuits, ClearOverride(c)
      PROVE  TypeOK'
  BY <1>3 DEF ClearOverride, Relays!SetUserOverride, Widened
<1>4. ASSUME NEW t \in Thresholds, UpdateLoadSheddingConfig(t)
      PROVE  TypeOK'
  BY <1>4 DEF UpdateLoadSheddingConfig
<1>5. ASSUME NEW g \in BOOLEAN, NEW s \in SocValues, BeginTick(g, s)
      PROVE  TypeOK'
  BY <1>5 DEF BeginTick, Relays!ClearAllShed, Phases
<1>6. CASE ReadPriority
  BY <1>6, PriorityType DEF ReadPriority
<1>7. CASE ApplyShed
  BY <1>7 DEF ApplyShed, Relays!ShedAll, Phases
<1>8. CASE GatePower
  BY <1>8 DEF GatePower, Phases, PhaseInv
<1>9. CASE SnapshotCircuit
  BY <1>9, StateType, PriorityType
     DEF SnapshotCircuit, Phases, PhaseInv, CircuitSnapshot, Relays!Resolution
<1>10. CASE Publish
  <2>1. \A c \in Circuits : snapshot[c] \in CircuitSnapshot
    BY <1>10 DEF Publish, SnapshotInv
  <2>2. \A c \in Circuits : Published(snapshot[c]) \in Relays!Resolution
    BY <2>1 DEF Published, CircuitSnapshot, Relays!Resolution
  <2>3. \A c \in Circuits : Priority(c) \in Priorities
    BY PriorityType
  <2>4. QED
    BY <1>10, <2>2, <2>3 DEF Publish, Phases, Unread, Ungated
<1>11. CASE UNCHANGED vars
  BY <1>11 DEF vars
<1>12. QED
  BY <1>1, <1>2, <1>3, <1>4, <1>5, <1>6, <1>7, <1>8, <1>9, <1>10, <1>11 DEF Next, Tick

-----------------------------------------------------------------------------
(* The inductive invariant.  A /set handler disturbs it nowhere it speaks of
   settled circuits or of priorities left alone: the handler itself takes its
   circuit out of both. *)

\* The invariant holds before the first tick.
LEMMA InvInit == Init => IInv
<1> SUFFICES ASSUME Init PROVE IInv
  OBVIOUS
<1>1. TypeOK
  BY TypeInit
<1>2. QED
  BY <1>1, PipelineAssumption
     DEF Init, Priority, IInv, PhaseInv, HistoryInv, DecideInv, ShedInv, GateInv, SnapshotInv,
         Building, Visited, Settled

\* What a relay command changes: one override and that circuit's history.
LEMMA RelayCommandStep ==
  ASSUME IInv, NEW c \in Circuits, NEW v \in Relays!Overrides,
         Relays!SetUserOverride(c, v), window' = Widened(c),
         UNCHANGED <<priority_overrides, threshold, phase, next, gridOnline, soc, effective,
                     gated, snapshot, last_snapshot, priority_order>>
  PROVE  HistoryInv' /\ DecideInv' /\ ShedInv' /\ GateInv' /\ SnapshotInv'
<1> USE DEF IInv, TypeOK, Relays!SetUserOverride, Widened
<1>1. HistoryInv'
  BY DEF HistoryInv, Settled, Priority
<1>2. DecideInv'
  BY DEF DecideInv, Visited, Building, Priority
<1>3. ShedInv'
  BY DEF ShedInv, Building, Policy!DecideShed, Policy!SocLow
<1>4. \A d \in Circuits : phase # "idle" /\ Settled(d)' =>
        Settled(d) /\ user_overrides'[d] = user_overrides[d] /\ window'[d] = window[d]
  <2>1. \A d \in Circuits : user_overrides[d] \in window[d]
    BY DEF HistoryInv
  <2>2. QED
    BY <2>1 DEF Settled
<1>5. \A d \in Circuits : phase # "idle" => window[d] \subseteq window'[d]
  OBVIOUS
<1>6. GateInv'
  BY <1>4 DEF GateInv, Visited, Relays!State
<1>7. \A d \in Circuits : phase # "idle" => Promise!Permitted(d) \subseteq Promise!Permitted(d)'
  BY <1>5 DEF Promise!Permitted
<1>8. SnapshotInv'
  <2> SUFFICES ASSUME NEW d \in Circuits, Visited(d, "snapshot") \/ phase = "publish"
               PROVE  /\ snapshot[d] \in CircuitSnapshot
                      /\ snapshot[d].live = gated[d]
                      /\ <<snapshot[d].priority, snapshot[d].priority>> \in priority_order[d]
                      /\ threshold # NoPolicy =>
                           <<effective[d], snapshot[d].priority>> \in priority_order[d]
                      /\ Published(snapshot[d]) \in Promise!Permitted(d)'
                      /\ Settled(d)' => Published(snapshot[d]) = Relays!State(d)'
    BY DEF SnapshotInv, Visited, Published, Priority
  <2>1. phase # "idle"
    BY DEF Visited
  <2>2. Published(snapshot[d]) \in Promise!Permitted(d)'
    BY <2>1, <1>7 DEF SnapshotInv
  <2>3. Settled(d)' => Settled(d) /\ Relays!State(d)' = Relays!State(d)
    BY <2>1, <1>4 DEF Relays!State
  <2>4. QED
    BY <2>2, <2>3 DEF SnapshotInv
<1>9. QED
  BY <1>1, <1>2, <1>3, <1>6, <1>8

\* What a priority command adds to the history of a tick: every priority the
\* circuit had came before the new one, and nothing already recorded goes.
LEMMA ReprioritisedGrows ==
  ASSUME IInv, NEW c \in Circuits, NEW p \in Priorities, OnShedPriority(c, p),
         NEW d \in Circuits
  PROVE  /\ <<Priority(d), Priority(d)>>' \in priority_order'[d]
         /\ \A m \in priority_order'[d] : <<m[1], Priority(d)'>> \in priority_order'[d]
         /\ phase # "idle" =>
              /\ priority_order[d] \subseteq priority_order'[d]
              /\ \A m \in priority_order[d] : <<m[1], Priority(d)'>> \in priority_order'[d]
<1> USE DEF OnShedPriority, IInv, TypeOK
<1>1. CASE d = c
  <2> DEFINE q == Priority(c)'
             order == {<<q, q>>} \union
                      (IF phase = "idle" THEN {}
                       ELSE priority_order[c] \union {<<m[1], q>> : m \in priority_order[c]})
  <2>1. priority_order'[d] = order
    BY <1>1 DEF Reprioritised
  <2>2. \A m \in order : <<m[1], q>> \in order
    OBVIOUS
  <2>3. phase # "idle" => \A m \in priority_order[c] : <<m[1], q>> \in order
    OBVIOUS
  <2>4. <<q, q>> \in order /\ (phase # "idle" => priority_order[c] \subseteq order)
    OBVIOUS
  <2> HIDE DEF order
  <2>5. QED
    BY <1>1, <2>1, <2>2, <2>3, <2>4
<1>2. CASE d # c
  <2>1. priority_order'[d] = priority_order[d] /\ Priority(d)' = Priority(d)
    BY <1>2 DEF Reprioritised, Priority
  <2>2. QED
    BY <2>1 DEF HistoryInv
<1>3. QED
  BY <1>1, <1>2

\* The invariant is inductive.
LEMMA InvStep == IInv /\ [Next]_vars => IInv'
<1> SUFFICES ASSUME IInv, [Next]_vars PROVE IInv'
  OBVIOUS
<1> USE CircuitRange DEF IInv
<1>0. TypeOK'
  BY TypeStep
<1>1. ASSUME NEW c \in Circuits, NEW v \in Relays!RelayStates, OnCircuitRelay(c, v)
      PROVE  IInv'
  <2>1. HistoryInv' /\ DecideInv' /\ ShedInv' /\ GateInv' /\ SnapshotInv'
    BY <1>1, OverrideTypes, RelayCommandStep DEF OnCircuitRelay
  <2>2. PhaseInv'
    BY <1>1 DEF OnCircuitRelay, PhaseInv
  <2>3. QED
    BY <1>0, <2>1, <2>2
<1>2. ASSUME NEW c \in Circuits, NEW p \in Priorities, OnShedPriority(c, p)
      PROVE  IInv'
  <2> USE <1>2 DEF OnShedPriority, TypeOK
  <2>1. ASSUME NEW d \in Circuits
        PROVE  /\ <<Priority(d), Priority(d)>>' \in priority_order'[d]
               /\ \A m \in priority_order'[d] : <<m[1], Priority(d)'>> \in priority_order'[d]
               /\ phase # "idle" =>
                    /\ priority_order[d] \subseteq priority_order'[d]
                    /\ \A m \in priority_order[d] :
                          <<m[1], Priority(d)'>> \in priority_order'[d]
    BY <1>2, ReprioritisedGrows
  <2>2. PhaseInv' /\ HistoryInv'
    BY <2>1 DEF PhaseInv, HistoryInv, Settled
  <2>3. DecideInv'
    <3> SUFFICES ASSUME NEW d \in Circuits,
                        Visited(d, "decide") \/ (Building /\ threshold # NoPolicy)
                 PROVE  <<effective[d], Priority(d)'>> \in priority_order'[d]
      BY DEF DecideInv, Visited, Building
    <3>1. phase # "idle" /\ <<effective[d], Priority(d)>> \in priority_order[d]
      BY DEF DecideInv, Visited, Building
    <3>2. QED
      BY <2>1, <3>1
  <2>4. ShedInv' /\ GateInv'
    BY DEF ShedInv, GateInv, Building, Visited, Settled, Relays!State,
           Policy!DecideShed, Policy!SocLow
  <2>5. SnapshotInv'
    BY <2>1 DEF SnapshotInv, Visited, Published, Settled, Relays!State, Promise!Permitted
  <2>6. QED
    BY <1>0, <2>2, <2>3, <2>4, <2>5
<1>3. ASSUME NEW c \in Circuits, ClearOverride(c)
      PROVE  IInv'
  <2>1. HistoryInv' /\ DecideInv' /\ ShedInv' /\ GateInv' /\ SnapshotInv'
    BY <1>3, OverrideTypes, RelayCommandStep DEF ClearOverride
  <2>2. PhaseInv'
    BY <1>3 DEF ClearOverride, PhaseInv
  <2>3. QED
    BY <1>0, <2>1, <2>2
<1>4. ASSUME NEW t \in Thresholds, UpdateLoadSheddingConfig(t)
      PROVE  IInv'
  BY <1>0, <1>4 DEF UpdateLoadSheddingConfig, PhaseInv, HistoryInv, DecideInv, ShedInv,
                    GateInv, SnapshotInv, Building, Visited, Settled, Priority
<1>5. ASSUME NEW g \in BOOLEAN, NEW s \in SocValues, BeginTick(g, s)
      PROVE  IInv'
  <2> USE <1>5 DEF BeginTick, Relays!ClearAllShed, TypeOK
  <2>1. /\ PhaseInv' /\ HistoryInv'
        /\ phase' \in {"decide", "gate"} /\ (phase' = "gate" <=> threshold = NoPolicy)
    BY DEF PhaseInv, HistoryInv, Settled, Priority
  <2>2. \A d \in Circuits, ph \in Phases : ~Visited(d, ph)'
    BY DEF Visited, Circuits
  <2>3. DecideInv' /\ ShedInv'
    BY <2>1, <2>2 DEF DecideInv, ShedInv, Building, Phases
  <2>4. GateInv' /\ SnapshotInv'
    BY <2>1, <2>2 DEF GateInv, SnapshotInv, Phases
  <2>5. QED
    BY <1>0, <2>1, <2>3, <2>4
<1>6. CASE ReadPriority
  <2> USE <1>6 DEF ReadPriority, TypeOK
  <2>1. \A d \in Circuits : Priority(d)' = Priority(d)
    BY DEF Priority
  <2>2. \A d \in Circuits : Visited(d, "decide")' => Visited(d, "decide") \/ d = next
    BY DEF Visited
  <2>3. DecideInv'
    BY <2>1, <2>2 DEF DecideInv, Building, Visited, HistoryInv
  <2>4. QED
    BY <1>0, <2>3 DEF PhaseInv, HistoryInv, ShedInv, GateInv, SnapshotInv, Building, Visited,
                      Settled, Priority
<1>7. CASE ApplyShed
  <2> USE <1>7 DEF ApplyShed, Relays!ShedAll, TypeOK
  <2>1. \A d \in Circuits : Visited(d, "decide")
    BY DEF Visited
  <2>2. DecideInv'
    BY <2>1 DEF DecideInv, Visited, Priority
  <2>3. ShedInv'
    BY DEF ShedInv, Building, Policy!DecideShed, Policy!SocLow
  <2>4. PhaseInv' /\ HistoryInv'
    BY DEF PhaseInv, HistoryInv, Settled, Priority
  <2>5. GateInv' /\ SnapshotInv'
    BY DEF GateInv, SnapshotInv, Visited, Circuits
  <2>6. QED
    BY <1>0, <2>2, <2>3, <2>4, <2>5
<1>8. CASE GatePower
  <2> USE <1>8 DEF GatePower, TypeOK
  <2>1. next \in Circuits /\ next' \in Circuits
    BY DEF PhaseInv, Circuits
  <2>2. \A d \in Circuits : Relays!State(d)' = Relays!State(d) /\ (Settled(d)' <=> Settled(d))
    BY DEF Relays!State, Settled
  <2>3. \A d \in Circuits : phase' = "snapshot" \/ Visited(d, "gate")' =>
          Visited(d, "gate") \/ d = next
    BY <2>1 DEF Visited
  <2>4. GateInv'
    BY <2>2, <2>3, <2>1 DEF GateInv, Visited
  <2>5. DecideInv' /\ ShedInv'
    BY DEF DecideInv, ShedInv, Building, Visited, Priority, Policy!DecideShed, Policy!SocLow
  <2>6. SnapshotInv'
    BY <2>1 DEF SnapshotInv, Visited, Circuits
  <2>7. QED
    BY <1>0, <2>1, <2>4, <2>5, <2>6 DEF PhaseInv, HistoryInv, Settled, Priority
<1>9. CASE SnapshotCircuit
  <2> USE <1>9 DEF SnapshotCircuit, TypeOK
  <2>1. next \in Circuits /\ next' \in Circuits
    BY DEF PhaseInv, Circuits
  <2>2. \A d \in Circuits : /\ Relays!State(d)' = Relays!State(d)
                            /\ Settled(d)' <=> Settled(d)
                            /\ Priority(d)' = Priority(d)
                            /\ Promise!Permitted(d)' = Promise!Permitted(d)
    BY DEF Relays!State, Settled, Priority, Promise!Permitted
  <2>3. \A d \in Circuits : phase' = "publish" \/ Visited(d, "snapshot")' =>
          Visited(d, "snapshot") \/ d = next
    BY <2>1 DEF Visited
  <2>4. GateInv'
    BY <2>2 DEF GateInv, Visited
  <2>5. DecideInv' /\ ShedInv'
    BY DEF DecideInv, ShedInv, Building, Visited, Priority, Policy!DecideShed, Policy!SocLow
  <2>6. Relays!State(next) \in Promise!Permitted(next)
    <3>1. user_overrides[next] \in window[next] /\ user_overrides[next] \in Relays!Overrides
      BY <2>1 DEF HistoryInv
    <3>2. ~Locked[next] /\ shed[next] => ~gridOnline
      BY <2>1 DEF ShedInv, Building, Policy!DecideShed
    <3>3. QED
      BY <2>1, <3>1, <3>2 DEF Relays!State, Promise!Permitted, Relays!Overrides, Relays!RelayStates
  <2>7. Relays!State(next) \in Relays!Resolution /\ Priority(next) \in Priorities
    BY <2>1, StateType, PriorityType
  <2>8. snapshot'[next] \in CircuitSnapshot /\ Published(snapshot'[next]) = Relays!State(next)
    BY <2>1, <2>7 DEF CircuitSnapshot, Published, Relays!Resolution
  <2>9. \A d \in Circuits \ {next} : snapshot'[d] = snapshot[d]
    BY <2>1
  <2>10. snapshot'[next].live = gated[next] /\ snapshot'[next].priority = Priority(next)
    BY <2>1
  <2>11. SnapshotInv'
    <3> SUFFICES ASSUME NEW d \in Circuits, phase' = "publish" \/ Visited(d, "snapshot")'
                 PROVE  /\ snapshot'[d] \in CircuitSnapshot
                        /\ snapshot'[d].live = gated[d]
                        /\ <<snapshot'[d].priority, snapshot'[d].priority>> \in priority_order[d]
                        /\ threshold # NoPolicy =>
                             <<effective[d], snapshot'[d].priority>> \in priority_order[d]
                        /\ Published(snapshot'[d]) \in Promise!Permitted(d)
                        /\ Settled(d) => Published(snapshot'[d]) = Relays!State(d)
      <4>1. UNCHANGED <<priority_order, threshold, effective, gated>>
        OBVIOUS
      <4> HIDE DEF SnapshotCircuit, TypeOK, IInv
      <4>2. QED
        BY <2>2, <4>1, Zenon DEF SnapshotInv, Published
    <3>1. CASE d = next
      <4>1. <<Priority(next), Priority(next)>> \in priority_order[next]
        BY <2>1 DEF HistoryInv
      <4>2. threshold # NoPolicy => <<effective[next], Priority(next)>> \in priority_order[next]
        BY <2>1 DEF DecideInv, Building
      <4>3. QED
        BY <3>1, <2>6, <2>8, <2>10, <4>1, <4>2
    <3>2. CASE d # next
      BY <3>2, <2>3, <2>9 DEF SnapshotInv
    <3>3. QED
      BY <3>1, <3>2
  <2>12. QED
    BY <1>0, <2>1, <2>2, <2>4, <2>5, <2>11 DEF PhaseInv, HistoryInv
<1>10. CASE Publish
  <2> USE <1>10 DEF Publish, TypeOK
  <2>1. \A c \in Circuits : Priority(c)' = Priority(c)
    BY DEF Priority
  <2>2. \A c \in Circuits : priority_order'[c] = {<<Priority(c), Priority(c)>>}
    OBVIOUS
  <2>3. ASSUME NEW c \in Circuits
        PROVE  /\ <<Priority(c)', Priority(c)'>> \in priority_order'[c]
               /\ \A m \in priority_order'[c] : <<m[1], Priority(c)'>> \in priority_order'[c]
    BY <2>1, <2>2
  <2>4. \A c \in Circuits : /\ user_overrides'[c] \in window'[c]
                            /\ window'[c] = {user_overrides'[c]}
                            /\ Locked[c] => user_overrides'[c] = NoOverride /\ ~shed'[c]
    BY DEF HistoryInv
  <2>5. HistoryInv'
    BY <2>3, <2>4 DEF HistoryInv, Settled
  <2>6. QED
    BY <1>0, <2>5 DEF PhaseInv, DecideInv, ShedInv, GateInv, SnapshotInv, Building, Visited
<1>11. CASE UNCHANGED vars
  BY <1>0, <1>11 DEF vars, PhaseInv, HistoryInv, DecideInv, ShedInv, GateInv, SnapshotInv,
       Building, Visited, Settled, Priority, Published, Relays!State, Promise!Permitted,
       Policy!DecideShed, Policy!SocLow
<1>12. QED
  BY <1>1, <1>2, <1>3, <1>4, <1>5, <1>6, <1>7, <1>8, <1>9, <1>10, <1>11 DEF Next, Tick

\* The invariant holds in every state of every run.
THEOREM Invariance == Spec => []IInv
  BY InvInit, InvStep, PTL DEF Spec

\* Type correctness, for every manifest.
THEOREM TypeCorrect == Spec => []TypeOK
<1>1. IInv => TypeOK
  BY DEF IInv
<1>2. QED
  BY <1>1, Invariance, PTL

\* A tick publishes relay and power in agreement on every circuit nobody
\* commanded while it ran, wherever the commands to other circuits fell.
THEOREM SettledConsistent == Spec => []SettledTickIsConsistent
<1>1. IInv => SettledTickIsConsistent
  <2> SUFFICES ASSUME IInv, phase = "publish", NEW c \in Circuits, Settled(c)
               PROVE  snapshot[c].live <=> snapshot[c].relay = "CLOSED"
    BY DEF SettledTickIsConsistent
  <2>1. /\ snapshot[c].live = gated[c]
        /\ gated[c] <=> Relays!State(c).relay # "OPEN"
        /\ Published(snapshot[c]) = Relays!State(c)
    BY DEF IInv, SnapshotInv, GateInv
  <2>2. Relays!State(c).relay \in {"OPEN", "CLOSED"}
    BY StateType DEF IInv, Relays!Resolution, Relays!RelayStates
  <2>3. QED
    BY <2>1, <2>2 DEF Published
<1>2. QED
  BY <1>1, Invariance, PTL

\* A snapshot's LOAD_SHED attributions are the policy's decision on the
\* priorities of the same snapshot, or on ones they replaced while it was made,
\* for every circuit whose relay nobody commanded during the tick.
THEOREM ShedExplained == Spec => []ShedFollowsPublishedPriority
<1>1. IInv => ShedFollowsPublishedPriority
  <2> SUFFICES ASSUME IInv, phase = "publish", NEW c \in Circuits, ~Locked[c],
                      window[c] = {NoOverride}
               PROVE  \E p \in Priorities :
                         /\ <<p, snapshot[c].priority>> \in priority_order[c]
                         /\ snapshot[c].requester = "LOAD_SHED" <=> Sheds(c, p)
    BY DEF ShedFollowsPublishedPriority
  <2>1. user_overrides[c] = NoOverride /\ Settled(c)
    BY DEF IInv, HistoryInv, Settled
  <2>2. snapshot[c].requester = Relays!State(c).requester
    <3>1. Published(snapshot[c]) = Relays!State(c)
      BY <2>1 DEF IInv, SnapshotInv
    <3>2. Published(snapshot[c]).requester = snapshot[c].requester
      BY DEF Published
    <3>3. QED
      BY <3>1, <3>2
  <2>3. Relays!State(c).requester = "LOAD_SHED" <=> shed[c]
    BY <2>1 DEF Relays!State, IInv, TypeOK
  <2>4. shed[c] <=> /\ threshold # NoPolicy
                    /\ c \in Policy!DecideShed(gridOnline, soc, threshold, effective)
    BY DEF IInv, ShedInv, Building
  <2>5. CASE threshold = NoPolicy
    <3>1. <<snapshot[c].priority, snapshot[c].priority>> \in priority_order[c]
      BY DEF IInv, SnapshotInv
    <3>2. snapshot[c].priority \in Priorities
      BY DEF IInv, SnapshotInv, CircuitSnapshot
    <3>3. QED
      BY <2>2, <2>3, <2>4, <2>5, <3>1, <3>2 DEF Sheds
  <2>6. CASE threshold # NoPolicy
    <3>1. <<effective[c], snapshot[c].priority>> \in priority_order[c]
      BY <2>6 DEF IInv, SnapshotInv
    <3>2. effective[c] \in Priorities
      BY <3>1 DEF IInv, TypeOK
    <3>3. shed[c] <=> Sheds(c, effective[c])
      BY <2>4, <2>6 DEF Sheds, Policy!DecideShed
    <3>4. QED
      BY <2>2, <2>3, <3>1, <3>2, <3>3
  <2>7. QED
    BY <2>5, <2>6
<1>2. QED
  BY <1>1, Invariance, PTL

\* Whatever the commands and the sheds before, the start of a tick closes the
\* LOAD_SHED circuits and moves no other relay.
THEOREM RestoreIsExact == Spec => RestoreClosesExactlyTheShed
<1>1. IInv /\ [Next]_vars =>
        [phase = "idle" /\ phase' # "idle" =>
           \A c \in Circuits :
              Relays!State(c).relay # (Relays!State(c).relay)'
                <=> Relays!State(c).requester = "LOAD_SHED"]_vars
  <2> SUFFICES ASSUME IInv, [Next]_vars, phase = "idle", phase' # "idle", NEW c \in Circuits
               PROVE  Relays!State(c).relay # (Relays!State(c).relay)'
                        <=> Relays!State(c).requester = "LOAD_SHED"
    OBVIOUS
  <2>1. PICK g \in BOOLEAN, s \in SocValues : BeginTick(g, s)
    BY DEF Next, Tick, OnCircuitRelay, OnShedPriority, ClearOverride, UpdateLoadSheddingConfig,
           ReadPriority, ApplyShed, GatePower, SnapshotCircuit, Publish, vars
  <2>2. user_overrides' = user_overrides /\ ~shed'[c]
    BY <2>1 DEF BeginTick, Relays!ClearAllShed
  <2>3. user_overrides[c] \in {"OPEN", "CLOSED", NoOverride}
    BY DEF IInv, TypeOK, Relays!Overrides, Relays!RelayStates
  <2>4. QED
    BY <2>2, <2>3 DEF Relays!State
<1>2. QED
  BY <1>1, Invariance, PTL DEF Spec, RestoreClosesExactlyTheShed

-----------------------------------------------------------------------------
(* The refinement: a command is a Command, the start of a tick a Begin, its
   publication a Publish, and the reads in between leave the promise alone. *)

\* The first states agree.
LEMMA PromiseInit == Init => Promise!Init
  BY DEF Init, Promise!Init

\* Every step is a step of the promise or leaves it alone.
LEMMA PromiseStep == IInv /\ IInv' /\ [Next]_vars => [Promise!Next]_(Promise!vars)
<1> SUFFICES ASSUME IInv, IInv', [Next]_vars PROVE [Promise!Next]_(Promise!vars)
  OBVIOUS
<1> USE CircuitRange DEF IInv, TypeOK
<1>1. ASSUME NEW c \in Circuits, NEW v \in Relays!Overrides, Relays!SetUserOverride(c, v),
             window' = Widened(c),
             UNCHANGED <<phase, gridOnline, last_snapshot>>
      PROVE  [Promise!Next]_(Promise!vars)
  <2>1. CASE Locked[c]
    <3>1. user_overrides' = user_overrides
      BY <1>1, <2>1 DEF Relays!SetUserOverride
    <3>2. window' = window
      <4>1. user_overrides[c] \in window[c] /\ (phase = "idle" => window[c] = {user_overrides[c]})
        BY DEF HistoryInv, Settled
      <4>2. QED
        BY <1>1, <3>1, <4>1 DEF Widened
    <3>3. QED
      BY <1>1, <3>1, <3>2 DEF Promise!vars
  <2>2. CASE ~Locked[c]
    <3>1. user_overrides' = [user_overrides EXCEPT ![c] = v] /\ user_overrides'[c] = v
      BY <1>1, <2>2 DEF Relays!SetUserOverride
    <3>2. Promise!Command(c, v)
      BY <1>1, <2>2, <3>1 DEF Promise!Command, Widened
    <3>3. v \in Promise!RelayStates \union {NoOverride}
      BY <1>1 DEF Promise!RelayStates, Relays!Overrides, Relays!RelayStates
    <3>4. QED
      BY <3>2, <3>3 DEF Promise!Next
  <2>3. QED
    BY <2>1, <2>2
<1>2. ASSUME NEW c \in Circuits, NEW v \in Relays!RelayStates, OnCircuitRelay(c, v)
      PROVE  [Promise!Next]_(Promise!vars)
  BY <1>1, <1>2, OverrideTypes DEF OnCircuitRelay
<1>3. ASSUME NEW c \in Circuits, ClearOverride(c)
      PROVE  [Promise!Next]_(Promise!vars)
  BY <1>1, <1>3, OverrideTypes DEF ClearOverride
<1>4. ASSUME NEW g \in BOOLEAN, NEW s \in SocValues, BeginTick(g, s)
      PROVE  [Promise!Next]_(Promise!vars)
  <2>1. Promise!Begin(g)
    BY <1>4 DEF BeginTick, Relays!ClearAllShed, Promise!Begin
  <2>2. QED
    BY <2>1 DEF Promise!Next
<1>5. CASE Publish
  <2>1. \A c \in Circuits : Published(snapshot[c]) \in Promise!Permitted(c)
    BY <1>5 DEF Publish, SnapshotInv
  <2>2. Promise!Publish
    BY <1>5, <2>1 DEF Publish, Promise!Publish
  <2>3. QED
    BY <2>2 DEF Promise!Next
<1>6. CASE UNCHANGED <<user_overrides, phase, window, gridOnline, last_snapshot>>
  BY <1>6 DEF Promise!vars
<1>7. CASE ReadPriority \/ GatePower \/ SnapshotCircuit \/ ApplyShed
  <2>1. UNCHANGED <<user_overrides, window, gridOnline, last_snapshot>>
    BY <1>7 DEF ReadPriority, GatePower, SnapshotCircuit, ApplyShed, Relays!ShedAll
  <2>2. (phase' # "idle") = (phase # "idle")
    BY <1>7 DEF ReadPriority, GatePower, SnapshotCircuit, ApplyShed
  <2>3. QED
    BY <2>1, <2>2 DEF Promise!vars
<1>8. ASSUME NEW c \in Circuits, NEW p \in Priorities, OnShedPriority(c, p)
      PROVE  [Promise!Next]_(Promise!vars)
  BY <1>6, <1>8 DEF OnShedPriority
<1>9. ASSUME NEW t \in Thresholds, UpdateLoadSheddingConfig(t)
      PROVE  [Promise!Next]_(Promise!vars)
  BY <1>6, <1>9 DEF UpdateLoadSheddingConfig
<1>10. CASE UNCHANGED vars
  BY <1>6, <1>10 DEF vars
<1>11. QED
  BY <1>2, <1>3, <1>4, <1>5, <1>7, <1>8, <1>9, <1>10 DEF Next, Tick

\* Whatever the interleaving of commands with the reads of a tick, what the
\* emitter publishes of relays is what RelayPromise promises.
THEOREM PromiseKept == Spec => ImplementsRelayPromise
  BY PromiseInit, PromiseStep, Invariance, PTL DEF Spec, ImplementsRelayPromise, Promise!Spec
=============================================================================
