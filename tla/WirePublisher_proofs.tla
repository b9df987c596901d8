------------------------ MODULE WirePublisher_proofs ------------------------
(***************************************************************************)
(* Proofs about WirePublisher, for any number of properties and values.    *)
(***************************************************************************)
EXTENDS WirePublisher, TLAPS

\* The properties are the topics other than $state.
LEMMA KeysAreTopics == Keys \subseteq Topics /\ 0 \in Topics /\ 0 \notin Keys
  BY PublisherAssumption DEF Keys, Topics

\* The invariant holds before the first connection.
LEMMA InvInit == Init => IInv
<1> SUFFICES ASSUME Init PROVE IInv
  OBVIOUS
<1> USE KeysAreTopics DEF Init
<1>1. TypeOK
  BY DEF TypeOK, Bags, EmptyBag, States
<1>2. SdkInv
  BY DEF SdkInv, EmptyBag
<1>3. QED
  BY <1>1, <1>2 DEF IInv, LoopInv, BrokerInv, Reaches, States

\* A step that leaves the publish loop and the SDK's properties alone keeps
\* what the invariant says of them.
LEMMA LoopUnchanged ==
  ASSUME IInv, UNCHANGED tickVars, \A k \in Keys : value'[k] = value[k]
  PROVE  (truth = last_published /\ LoopInv /\ SdkInv)'
  BY DEF IInv, tickVars, LoopInv, SdkInv, Diff

\* The invariant is inductive.
LEMMA InvStep == IInv /\ [Next]_vars => IInv'
<1> SUFFICES ASSUME IInv, [Next]_vars PROVE IInv'
  OBVIOUS
<1> USE KeysAreTopics, PublisherAssumption DEF IInv, TypeOK
<1>1. ASSUME NEW b \in Bags, BeginPublish(b) PROVE IInv'
  <2> USE <1>1 DEF BeginPublish
  <2>1. TypeOK' /\ LoopInv'
    BY DEF Diff, LoopInv
  <2>2. SdkInv'
    BY DEF SdkInv, Diff, LoopInv
  <2>3. BrokerInv'
    BY DEF BrokerInv, Republishes, Reaches
  <2>4. QED
    BY <2>1, <2>2, <2>3
<1>2. CASE SetNext
  <2>1. PICK k \in to_send :
          /\ value' = [value EXCEPT ![k] = bag[k]]
          /\ retained' = IF Reaches THEN [retained EXCEPT ![k] = bag[k]] ELSE retained
          /\ to_send' = to_send \ {k}
    BY <1>2 DEF SetNext
  <2>2. /\ UNCHANGED <<transport, phase, bag, last_published, detached, stopped, link, announce, truth,
                       tainted>>
        /\ phase = "sending"
    BY <1>2 DEF SetNext
  <2>3. k \in Diff(bag) /\ k \in Keys /\ bag[k] \in Values /\ Diff(bag)' = Diff(bag)
    BY <2>2 DEF LoopInv, Diff, Bags
  <2>4. TypeOK' /\ LoopInv' /\ value'[0] \in States /\ (stopped' => value'[0] # "ready")
    BY <2>1, <2>2, <2>3 DEF LoopInv
  <2>5. SdkInv'
    BY <2>1, <2>2, <2>3 DEF SdkInv
  <2>6. BrokerInv'
    BY <2>1, <2>2, <2>3 DEF BrokerInv, Republishes, Reaches
  <2>7. QED
    BY <2>2, <2>4, <2>5, <2>6
<1>3. CASE SetRaises
  <2> USE <1>3 DEF SetRaises
  <2>1. TypeOK' /\ LoopInv'
    BY DEF LoopInv, Diff, EmptyBag, Bags
  <2>2. SdkInv'
    BY DEF SdkInv, LoopInv
  <2>3. BrokerInv'
    BY DEF BrokerInv, Republishes, Reaches
  <2>4. QED
    BY <2>1, <2>2, <2>3
<1>4. CASE Commit
  <2> USE <1>4 DEF Commit
  <2>1. TypeOK' /\ LoopInv'
    BY DEF LoopInv, EmptyBag, Bags, Diff
  <2>2. truth' = last_published'
    BY DEF Diff, Bags
  <2>3. SdkInv'
    <3>1. \A k \in Keys : k \in Diff(bag) => value[k] = bag[k]
      BY DEF SdkInv
    <3>2. \A k \in Keys \ Diff(bag) : k \notin tainted => value[k] = last_published[k]
      BY DEF SdkInv
    <3>3. QED
      BY <3>1, <3>2 DEF SdkInv
  <2>4. BrokerInv'
    BY DEF BrokerInv, Republishes, Reaches
  <2>5. QED
    BY <2>1, <2>2, <2>3, <2>4
<1>5. ASSUME NEW clear_retained \in BOOLEAN, StopGracefully(clear_retained) PROVE IInv'
  <2> USE <1>5 DEF StopGracefully, CloseOwned
  <2>1. TypeOK' /\ value'[0] \in States /\ (stopped' => value'[0] # "ready")
    BY DEF tickVars, States
  <2>2. (truth = last_published /\ LoopInv /\ SdkInv)'
    BY LoopUnchanged
  <2>3. BrokerInv'
    BY DEF BrokerInv, Reaches
  <2>4. QED
    BY <2>1, <2>2, <2>3
<1>6. CASE StopUngracefully
  <2> USE <1>6 DEF StopUngracefully, CloseOwned
  <2>1. TypeOK' /\ value'[0] \in States /\ (stopped' => value'[0] # "ready")
    BY DEF tickVars, States
  <2>2. (truth = last_published /\ LoopInv /\ SdkInv)'
    BY LoopUnchanged
  <2>3. BrokerInv'
    BY DEF BrokerInv, Reaches, Republishes
  <2>4. QED
    BY <2>1, <2>2, <2>3
<1>7. CASE StopUngracefullyAndClose
  <2> USE <1>7 DEF StopUngracefullyAndClose
  <2>1. TypeOK' /\ value'[0] \in States /\ (stopped' => value'[0] # "ready")
    BY DEF tickVars, States
  <2>2. (truth = last_published /\ LoopInv /\ SdkInv)'
    BY LoopUnchanged
  <2>3. BrokerInv'
    BY DEF BrokerInv, Reaches
  <2>4. QED
    BY <2>1, <2>2, <2>3
<1>8. CASE Connect
  <2> USE <1>8 DEF Connect
  <2>1. TypeOK'
    BY DEF tickVars
  <2>2. (truth = last_published /\ LoopInv /\ SdkInv)'
    BY LoopUnchanged
  <2>3. BrokerInv'
    BY DEF BrokerInv, Reaches, Republishes
  <2>4. QED
    BY <2>1, <2>2, <2>3
<1>9. ASSUME NEW t \in Topics, Announce(t) PROVE IInv'
  <2> USE <1>9 DEF Announce
  <2>1. TypeOK'
    BY DEF tickVars
  <2>2. (truth = last_published /\ LoopInv /\ SdkInv)'
    BY LoopUnchanged
  <2>3. BrokerInv'
    BY DEF BrokerInv, Reaches, Republishes
  <2>4. QED
    BY <2>1, <2>2, <2>3
<1>10. ASSUME NEW will \in BOOLEAN, Disconnect(will) PROVE IInv'
  <2> USE <1>10 DEF Disconnect
  <2>1. TypeOK'
    BY DEF tickVars, States
  <2>2. (truth = last_published /\ LoopInv /\ SdkInv)'
    BY LoopUnchanged
  <2>3. BrokerInv'
    BY DEF BrokerInv, Reaches
  <2>4. QED
    BY <2>1, <2>2, <2>3
<1>11. CASE LoseRetained
  <2> USE <1>11 DEF LoseRetained
  <2>1. TypeOK'
    BY DEF tickVars
  <2>2. (truth = last_published /\ LoopInv /\ SdkInv)'
    BY LoopUnchanged
  <2>3. BrokerInv'
    BY DEF BrokerInv, Reaches
  <2>4. QED
    BY <2>1, <2>2, <2>3
<1>12. CASE UNCHANGED vars
  <2> USE <1>12 DEF vars
  <2>1. (truth = last_published /\ LoopInv /\ SdkInv)'
    BY LoopUnchanged DEF tickVars
  <2>2. BrokerInv'
    BY DEF BrokerInv, Reaches, Republishes
  <2>3. QED
    BY <2>1, <2>2
<1>13. QED
  BY <1>1, <1>2, <1>3, <1>4, <1>5, <1>6, <1>7, <1>8, <1>9, <1>10, <1>11, <1>12
     DEF Next, PublishStep

\* The invariant holds in every state of every run.
THEOREM PublisherInvariance == Spec => []IInv
  BY InvInit, InvStep, PTL DEF Spec

\* Between ticks, and once an outage has been made good, the broker retains the
\* last value of every property and the state of the root, for every tree.
THEOREM InSyncWhenSettled == Spec => []SettledTreeIsInSync
<1>1. IInv => SettledTreeIsInSync
  <2> SUFFICES ASSUME IInv, Republishes, Settled PROVE InSync
    BY DEF SettledTreeIsInSync
  <2>1. \A t \in Topics : value[t] # NoValue => retained[t] = value[t]
    BY DEF IInv, BrokerInv, Settled
  <2>2. \A k \in Keys \ tainted : value[k] = truth[k]
    BY DEF IInv, SdkInv, Settled
  <2>3. QED
    BY <2>1, <2>2, KeysAreTopics, PublisherAssumption DEF InSync, IInv
<1>2. QED
  BY <1>1, PublisherInvariance, PTL

\* Nothing the emitter does after a teardown puts $state=ready back.
THEOREM StaysDown == Spec => NeverResurrected
<1>1. IInv /\ [Next]_vars =>
        [stopped /\ retained[0] # "ready" => retained'[0] # "ready"]_vars
  <2> SUFFICES ASSUME IInv, [Next]_vars, stopped, retained[0] # "ready"
               PROVE  retained'[0] # "ready"
    OBVIOUS
  <2> USE KeysAreTopics, PublisherAssumption DEF IInv, TypeOK, LoopInv, States
  <2>1. CASE SetNext
    BY <2>1 DEF SetNext
  <2>2. CASE \E t \in Topics : Announce(t)
    BY <2>2 DEF Announce
  <2>3. CASE LoseRetained
    BY <2>3 DEF LoseRetained
  <2>4. CASE \E will \in BOOLEAN : Disconnect(will)
    BY <2>4 DEF Disconnect
  <2>5. CASE (\E c \in BOOLEAN : StopGracefully(c)) \/ StopUngracefully
    BY <2>5 DEF StopGracefully, StopUngracefully
  <2>6. CASE UNCHANGED retained
    BY <2>6
  <2>7. QED
    BY <2>1, <2>2, <2>3, <2>4, <2>5, <2>6
       DEF Next, PublishStep, BeginPublish, SetRaises, Commit, StopUngracefullyAndClose,
           Connect, vars
<1>2. QED
  BY <1>1, PublisherInvariance, PTL DEF Spec, NeverResurrected
=============================================================================
