---------------------------- MODULE WirePublisher ---------------------------
(***************************************************************************)
(* The diff-only publisher (wire/publisher.py, wire/property_bag.py), the  *)
(* teardown of the tree (Emitter.stop) and its re-announcement after an    *)
(* outage (Emitter.republish_tree), over the SDK's device tree, an MQTT    *)
(* connection and a broker that keeps retained values.                     *)
(*                                                                         *)
(* The tick runs on the producer's thread and sends one property at a      *)
(* time; the link goes up and down under it, and the re-announcement runs  *)
(* on the client's thread between any two sends.  What the SDK, the        *)
(* connection and the broker do is external to the repository and modelled *)
(* from how it uses them: set_value stores the value and, over a live      *)
(* link, replaces the retained one; a value set while the link is down is  *)
(* kept by the SDK only, and its refresh_tree publishes what it keeps.     *)
(*                                                                         *)
(* Topic 0 is the root's $state, topics 1 .. NumKeys the properties in the *)
(* order of their keys.                                                    *)
(***************************************************************************)
EXTENDS Integers

CONSTANTS
  NumKeys,
  Values,       \* the values a property may take
  Transports,   \* the kinds of transport in play
  NoValue       \* a property absent from a bag, unset, or not retained

Keys   == 1 .. NumKeys
Topics == 0 .. NumKeys

States == {"ready", "disconnected", "lost"}

ASSUME PublisherAssumption ==
  /\ NumKeys \in Nat
  /\ Transports \subseteq {"owned", "wired", "unwired"}
  /\ NoValue \notin Values \union States

VARIABLES
  transport,       \* owned client, or injected with or without the on-connect hook
  phase,           \* "idle", or "sending" within Publisher.publish
  bag,             \* the tick's PropertyBag
  to_send,         \* the changes publish() has not sent yet
  last_published,  \* PropertyDiffer.last_published; no entry: pending_initial
  value,           \* the SDK's own values: $state and the properties
  detached,        \* Device.stop() has cleared the root's transport
  stopped,         \* history: stop() has been called
  link,            \* "up", "down", or "closed" for good
  announce,        \* the topics a running refresh_tree has yet to publish
  retained,        \* what the broker retains
  truth,           \* history: the last value of each key in a completed tick
  tainted          \* history: keys a raising publish() had already sent

tickVars == <<phase, bag, to_send, last_published, truth, tainted>>
wireVars == <<link, announce, retained>>
vars == <<transport, phase, bag, to_send, last_published, value, detached, stopped, link,
          announce, retained, truth, tainted>>

Bags     == [Keys -> Values \union {NoValue}]
EmptyBag == [k \in Keys |-> NoValue]

\* Type invariant: bags, the SDK's values and the retained ones stay well-typed.
TypeOK ==
  /\ transport \in Transports
  /\ phase \in {"idle", "sending"}
  /\ bag \in Bags
  /\ to_send \in SUBSET Keys
  /\ last_published \in Bags
  /\ value \in [Topics -> Values \union States \union {NoValue}]
  /\ detached \in BOOLEAN
  /\ stopped \in BOOLEAN
  /\ link \in {"up", "down", "closed"}
  /\ announce \in SUBSET Topics
  /\ retained \in [Topics -> Values \union States \union {NoValue}]
  /\ truth \in Bags
  /\ tainted \in SUBSET Keys

\* Can a publish of the tree reach the broker?
Reaches == link = "up" /\ ~detached

\* Does a (re)connect run refresh_tree?
Republishes == transport \in {"owned", "wired"}

Init ==
  /\ transport \in Transports
  /\ phase = "idle"
  /\ bag = EmptyBag
  /\ to_send = {}
  /\ last_published = EmptyBag
  /\ value = [t \in Topics |-> IF t = 0 THEN "ready" ELSE NoValue]
  /\ detached = FALSE
  /\ stopped = FALSE
  /\ link = "down"
  /\ announce = {}
  /\ retained = [t \in Topics |-> NoValue]
  /\ truth = EmptyBag
  /\ tainted = {}

-----------------------------------------------------------------------------
(* The producer's thread: Publisher.publish. *)

\* Slip: a first value equal to nothing published is not a change.
DiffKnownKeys(b) ==
  {k \in Keys : b[k] # NoValue /\ last_published[k] \notin {NoValue, b[k]}}

\* PropertyDiffer.diff: the keys of the bag that are new or have changed.
Diff(b) == {k \in Keys : b[k] # NoValue /\ last_published[k] # b[k]}

BeginPublish(b) ==
  /\ phase = "idle"
  /\ phase' = "sending"
  /\ bag' = b
  /\ to_send' = Diff(b)
  /\ UNCHANGED <<transport, last_published, value, detached, stopped, link, announce, retained,
                 truth, tainted>>

\* Property.set_value on the next change, in key order.
SetNext ==
  /\ phase = "sending"
  /\ \E k \in to_send :
       /\ \A j \in to_send : k <= j
       /\ value' = [value EXCEPT ![k] = bag[k]]
       /\ retained' = IF Reaches THEN [retained EXCEPT ![k] = bag[k]] ELSE retained
       /\ to_send' = to_send \ {k}
  /\ UNCHANGED <<transport, phase, bag, last_published, detached, stopped, link, announce,
                 truth, tainted>>

\* Slip: the changes are committed however the loop ends.
SetRaisesAndCommits ==
  /\ phase = "sending"
  /\ to_send # {}
  /\ phase' = "idle"
  /\ last_published' = [k \in Keys |-> IF k \in Diff(bag) THEN bag[k] ELSE last_published[k]]
  /\ tainted' = tainted \union (Diff(bag) \ to_send)
  /\ bag' = EmptyBag
  /\ to_send' = {}
  /\ UNCHANGED <<transport, value, detached, stopped, link, announce, retained, truth>>

\* set_value raises (a transport or an encoding error): publish() ends there
\* and commits nothing.
SetRaises ==
  /\ phase = "sending"
  /\ to_send # {}
  /\ phase' = "idle"
  /\ tainted' = tainted \union (Diff(bag) \ to_send)
  /\ bag' = EmptyBag
  /\ to_send' = {}
  /\ UNCHANGED <<transport, last_published, value, detached, stopped, link, announce, retained,
                 truth>>

\* PropertyDiffer.commit; the tick is complete.
Commit ==
  /\ phase = "sending"
  /\ to_send = {}
  /\ phase' = "idle"
  /\ last_published' = [k \in Keys |-> IF k \in Diff(bag) THEN bag[k] ELSE last_published[k]]
  /\ truth' = [k \in Keys |-> IF bag[k] # NoValue THEN bag[k] ELSE truth[k]]
  /\ tainted' = tainted \ Diff(bag)
  /\ bag' = EmptyBag
  /\ UNCHANGED <<transport, to_send, value, detached, stopped, link, announce, retained>>

-----------------------------------------------------------------------------
(* The producer's thread: Emitter.stop. *)

\* A client the SDK built is stopped with the tree; an injected one never is.
CloseOwned == IF transport = "owned" THEN "closed" ELSE link

\* stop(): $state=disconnected, after clearing every topic if asked to, and
\* the root lets go of its transport.
StopGracefully(clear_retained) ==
  /\ phase = "idle"
  /\ value' = [value EXCEPT ![0] = "disconnected"]
  /\ retained' = IF ~Reaches THEN retained
                 ELSE [t \in Topics |-> IF t = 0 THEN "disconnected"
                                        ELSE IF clear_retained THEN NoValue ELSE retained[t]]
  /\ detached' = TRUE
  /\ link' = CloseOwned
  /\ announce' = {}
  /\ stopped' = TRUE
  /\ UNCHANGED <<transport, tickVars>>

\* Slip: $state=lost is published past the SDK's device, whose state stays.
DeclareLostOnTheWire ==
  /\ phase = "idle"
  /\ ~detached
  /\ retained' = IF Reaches THEN [retained EXCEPT ![0] = "lost"] ELSE retained
  /\ link' = CloseOwned
  /\ announce' = IF transport = "owned" THEN {} ELSE announce
  /\ stopped' = TRUE
  /\ UNCHANGED <<transport, tickVars, value, detached>>

\* stop(graceful=False): $state=lost, over an injected client on a loop that
\* turns before the caller closes it.
StopUngracefully ==
  /\ phase = "idle"
  /\ ~detached
  /\ value' = [value EXCEPT ![0] = "lost"]
  /\ retained' = IF Reaches THEN [retained EXCEPT ![0] = "lost"] ELSE retained
  /\ link' = CloseOwned
  /\ announce' = IF transport = "owned" THEN {} ELSE announce
  /\ stopped' = TRUE
  /\ UNCHANGED <<transport, tickVars, detached>>

\* The same, but the caller closes its client in the same breath: the queued
\* message is dropped.
StopUngracefullyAndClose ==
  /\ phase = "idle"
  /\ ~detached
  /\ transport # "owned"
  /\ value' = [value EXCEPT ![0] = "lost"]
  /\ link' = "closed"
  /\ announce' = {}
  /\ stopped' = TRUE
  /\ UNCHANGED <<transport, tickVars, detached, retained>>

-----------------------------------------------------------------------------
(* The client's thread, the network and the broker. *)

\* The connection comes up; refresh_tree starts if something runs it.
Connect ==
  /\ link = "down"
  /\ link' = "up"
  /\ announce' = IF Republishes /\ ~detached THEN Topics ELSE {}
  /\ UNCHANGED <<transport, tickVars, value, detached, stopped, retained>>

\* Slip: the re-announcement reaches nothing.
AnnounceNothing(t) ==
  /\ Reaches
  /\ t \in announce
  /\ announce' = announce \ {t}
  /\ UNCHANGED <<transport, tickVars, value, detached, stopped, link, retained>>

\* republish_tree, one topic: what the SDK keeps of it is retained again.
Announce(t) ==
  /\ Reaches
  /\ t \in announce
  /\ retained' = IF value[t] # NoValue THEN [retained EXCEPT ![t] = value[t]] ELSE retained
  /\ announce' = announce \ {t}
  /\ UNCHANGED <<transport, tickVars, value, detached, stopped, link>>

\* The connection breaks; the broker publishes the registered will, if any.
Disconnect(will) ==
  /\ link = "up"
  /\ link' = "down"
  /\ announce' = {}
  /\ retained' = IF will THEN [retained EXCEPT ![0] = "lost"] ELSE retained
  /\ UNCHANGED <<transport, tickVars, value, detached, stopped>>

\* The broker restarts without its retained store.
LoseRetained ==
  /\ link # "closed"
  /\ link' = "down"
  /\ announce' = {}
  /\ retained' = [t \in Topics |-> NoValue]
  /\ UNCHANGED <<transport, tickVars, value, detached, stopped>>

PublishStep == SetNext \/ SetRaises \/ Commit

Next ==
  \/ \E b \in Bags : BeginPublish(b)
  \/ PublishStep
  \/ \E clear_retained \in BOOLEAN : StopGracefully(clear_retained)
  \/ StopUngracefully
  \/ StopUngracefullyAndClose
  \/ Connect
  \/ \E t \in Topics : Announce(t)
  \/ \E will \in BOOLEAN : Disconnect(will)
  \/ LoseRetained

Spec == Init /\ [][Next]_vars

\* No call of the SDK blocks: a publish goes on to its end, and so does a
\* re-announcement while the link is up.
FairSpec == Spec /\ WF_vars(PublishStep) /\ WF_vars(\E t \in Topics : Announce(t))

-----------------------------------------------------------------------------
\* Between ticks, with nothing left to announce, a consumer sees on the broker
\* the last value every property had in any completed tick, and the state of
\* the root, whatever outages fell between or inside ticks; a publish() that
\* raised can have spoiled only the keys it had sent (publisher.py).
Settled == phase = "idle" /\ Reaches /\ announce = {}

InSync ==
  /\ retained[0] = value[0]
  /\ \A k \in Keys \ tainted : truth[k] # NoValue => retained[k] = truth[k]

SettledTreeIsInSync == Republishes /\ Settled => InSync

\* A tree taken down is not resurrected: no re-announcement and no later tick
\* puts $state=ready over `disconnected' or `lost' (tests/test_teardown.py).
NeverResurrected ==
  [][stopped /\ retained[0] # "ready" => retained'[0] # "ready"]_vars

\* When an outage ends for good, the retained tree is in sync again and again.
OutageHeals ==
  Republishes => (<>[]Reaches => []<>(Settled /\ InSync))

-----------------------------------------------------------------------------
(* The inductive invariant: what the broker retains is what the SDK keeps, but
   for the topics still to be announced; what the SDK keeps is what was last
   committed, but for the changes already sent and the tainted keys. *)

BrokerInv ==
  Republishes /\ Reaches =>
    \A t \in Topics \ announce : value[t] # NoValue => retained[t] = value[t]

SdkInv ==
  \A k \in Keys :
    IF phase = "sending" /\ k \in Diff(bag) \ to_send THEN value[k] = bag[k]
    ELSE k \notin tainted => value[k] = last_published[k]

LoopInv ==
  /\ to_send \subseteq Diff(bag)
  /\ phase = "idle" => to_send = {}

\* The inductive invariant of publisher, SDK and broker together.
IInv ==
  /\ TypeOK
  /\ value[0] \in States
  /\ stopped => value[0] # "ready"
  /\ truth = last_published
  /\ LoopInv
  /\ SdkInv
  /\ BrokerInv
=============================================================================
