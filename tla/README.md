# A verification project for the distribution-enclosure simulator

The program under study (`src/src/ebus_panel_sim/`) simulates an electrical
panel on an eBus/Homie MQTT tree. A producer hands it one reading after another
(`Emitter.publish_tick`); it dispatches batteries, sheds loads, gates power by
relay state, adds the panel up, integrates energy, and publishes what changed.
Consumers send `/set` commands back over MQTT. This directory holds TLA+ modules
of that program, TLC configurations that check them on small instances, and
theorems about them whose proofs TLAPS checks.

Paths below are relative to `src/src/ebus_panel_sim/` unless they start with `src/`.

## 1. Inventory

In the simulator two threads matter. The **producer's thread** constructs the emitter, calls
`start`, `publish_tick`, `update_*`, `seed_*` and `stop`. The **MQTT client's
network thread** runs every `/set` handler (`wire/set_router.py:27`) and, on an
owned client or where the caller wires it, `republish_tree` on connect. There is
no lock: a handler may run between any two reads of a tick.

`panel-sim-capture` is a program of its own on the other side of the broker. Its
main thread polls and copies what an MQTT client's thread writes at any moment,
again without a lock, and what it makes of the copies goes back into an emitter.

| component | state it keeps | operations | what makes it correct |
|---|---|---|---|
| Relay resolver (`relay_resolver.py`) | locks, operator overrides, shed requests | `register`, `set_user_override`, `clear_user_override`, `set_shed`, `clear_all_shed`, `state` | locked > `/set` > shed > closed, and what a tick publishes answers a moment of that tick |
| Load shedding (`native_devices/load_shedding.py`) | the threshold | `decide_shed`, `update_config` | nothing shed on grid; a published shed follows from what is published with it |
| Tick pipeline (`emitter.py:891-1374`) | overrides, last snapshot, battery links | `_build_snapshot_from_tick` | relay, power, priority and requester of one tick fit together |
| `/set` path (`emitter.py:772-884`, `wire/set_router.py`, `wire/graph_builder.py:390`) | override maps | the handlers, `_coerce`, `$settable` | description, handlers and published values agree on what is locked |
| Islanding assertion (`emitter.py:815-829`, `1392-1416`) | assertion, links, start of the healthy span | accept, expire | an assertion is cleared by a full healthy span, by nothing less, and always |
| Battery (`native_devices/bess.py`) | charge, last tick time | `tick`, `set_soe`, `update_config` | charge within capacity, reserve kept on grid, charging from PV only |
| Energy integrator (`energy_integrator.py`) | per meter: consumed, produced, last time | `register`, `observe`, `seed` | registers never run back and agree with one another |
| Panel meter (`panel_meter.py`) | none | `resolve` | one balance at one node |
| Publisher, property bag (`wire/publisher.py`, `wire/property_bag.py`) | last published values | `diff`, `publish`, `commit` | retained values are the last tick's, through failures and outages |
| Tree lifecycle (`emitter.py:537-730`, `wire/_sdk_seam.py`) | transport, SDK values | `start`, `stop`, `republish_tree` | a tree taken down stays down, one that is up comes back after an outage |
| Graph builder, mapping table (`wire/graph_builder.py`, `wire/mapping_loader.py`) | none after construction | `build_graph` | every device once, under its parent; cycles refused |
| Manifest physics (`manifest_physics.py`) | parsed manifest | parsers | contradictions refused, locks derived once |
| Bag builder (`wire/bag_builder.py`) | its bindings | `build` | published values in their declared formats; published meters balance and agree with their registers, whatever the frames |
| Firmware conventions (`firmware.py`) | none | `release_build`, `firmware_conventions` | the earlier conventions exactly for the releases that had them |
| Capture tool (`capture.py`) | the SDK's Controller, the copies | `capture_live`, `definition_from_tree`, `ticks_from_samples` | what it says it read it has read, whole; the definition it writes publishes the same panel, the ticks it writes the same meters |
| Profiles, catalogs, YAML definitions, literals, reference captures | static data | loading, text | not modelled, see section 7 |

How they interact: a handler writes a dict the tick reads, several times per
tick, at different moments; the tick writes the shed map and the links, which
`state()` and the assertion handler read; the publisher compares with its own
memory of what it sent, not with what the broker retains, so an outage or an
exception separates the two; the description (`$settable`) is computed from raw
metadata, the handler's lock from parsed physics. The capture tool reads what the
emitter publishes and its definitions and ticks are the emitter's input: whatever
one side turns round (frames, signs, positions, locks) the other must turn back.

The hard behaviours - interleavings of the two threads, a check that is stale
when its store happens, a publish that fails half way, links and clocks that do
what they like, dispatch on powers that relays have yet to gate, a copy that races
the tree it copies, a definition made of half a tree - are listed at
their lines under `hazards` in `PROJECT.json`.

## 2. The modules

| module | models | notes |
|---|---|---|
| `RelayResolver` | the three maps and `state()` | operators over variables of the modules that instantiate it |
| `LoadShedding` | `decide_shed` | a constant-level function |
| `TickPipeline` | relays and priorities in `publish_tick`, read by read, against handlers and configuration changes | `MCTickPipeline` instantiates it, `TickPipeline_proofs` proves about it |
| `RelayPromise` | the abstract specification: each published relay answers a command in force at some moment of its tick | `TickPipeline` implements it by `INSTANCE RelayPromise WITH command <- user_overrides, published <- last_snapshot, ...` |
| `IslandingAssertion` | the assertion handler in two steps (check, store) and the tick in four (links, measure, clear, publish) | `MCIslandingAssertion`, `IslandingAssertion_proofs` |
| `WirePublisher` | diff, one `set_value` per step, raise, commit, the three ways to stop, connect, re-announce, outage, broker restart | SDK, link and broker are external; `WirePublisher_proofs` |
| `BessDevice`, `EnergyIntegrator`, `PanelMeter` | dispatch and charge, registers, aggregation | pure operators |
| `Firmware`, `BagBuilder` | the conventions of a release, the frames of powers and registers on the wire | pure operators |
| `PanelTick` | a whole tick of the physical model as one step, composed of the five above with resolver and policy | `MCPanelTick`, `PanelTick_proofs` |
| `GraphBuilder` | root resolution, Kahn's algorithm, placement and attachment, one step per loop iteration | `MCGraphBuilder`, `GraphBuilder_proofs` |
| `SetCommands` | commissioning of a circuit and an EVSE, construction, handlers, ticks; composed of resolver, policy, firmware and capture values | `MCSetCommands`, `SetCommands_proofs` |
| `PublishedTree` | which device an emitter publishes where, and the connection edges: who feeds whom | pure operators |
| `CaptureMapper` | the devices of the panel's own tree as the instances of a definition | pure operators |
| `CaptureValues` | the values of a circuit, an EVSE and a meter as metadata and readings | pure operators; `SetCommands` and `PanelTick` compose them with the emitter that published the values |
| `LiveCapture` | the capturing thread against the thread that fills the Controller: polling, settling, timeout, one device per step of a copy, interruption and retry, samples, the answer; composed of the mapper and the published tree | `MCLiveCapture`, `LiveCapture_proofs` |
| `Sums` | nothing of the code: lemmas on sums over finite sets | cited by `PanelTick_proofs` and `GraphBuilder_proofs` |

State and actions keep the source's names in the TLA+ modules' own case
(`on_circuit_relay` is `OnCircuitRelay`, `_bess_links` is `links`, with the name
in the comment beside it). Where a definition departs from its source in form:

- The resolver's dicts are total functions, an absent key holding the default
  `.get` would return. `registered` is their common set of keys.
- `TickPipeline` abstracts power to "passes the gate or not" and the battery to
  the charge it yields. `SnapshotCircuit` takes the relay and the priority read
  of one circuit as one step; no property compares the two moments.
- `window` and `priority_order`, `unhealthyAgo` and `late`, `truth` and
  `tainted`, `forward`, `asked` and `fresh`, `calm` and `grew` are history variables: no action's
  guard reads them. Locals of a tick are reset when it ends.
- `PanelTick` counts in integers. An hour is `StepsPerHour` steps, energy is
  power times steps; the efficiencies are an integer factor on discharge and
  divisor on charge. Rounding is down where the code has floats, which only
  leaves a little more above the reserve. Whether flows are booked by sign or by
  feeds-role is the variable `by_role`, chosen at the start like the variant.
  What the bag builder makes of the last tick is a function of the state
  (`WirePower`, `WireImported`, `WireExported`), not a state of its own.
- A firmware string is the sequence of its segments, each the release it names
  or `Other`: the regular expression is abstracted, which segment counts is not.
- `GraphBuilder` knows instances, not capabilities: `properties` maps a class and
  an id to the `Device` the properties lie on. No mapping in the repository
  gives two capabilities of one device the same node id. A `Device` object is
  named by the position of its instance in the manifest; `devices` maps an id to
  one of them, the last built, and `parent` is the tree the SDK makes of
  `Device(..., parent=...)`. So an object an equal id has displaced from
  `graph.devices` is in the tree still, as in the code.
- Time is relative everywhere: a tick carries the time since the one before.
  `IslandingAssertion` assumes the producer's clock does not run backwards;
  `PanelTick` does not.
- `GraphBuilder` assumes the mapping table passed `validate_against`: one root
  descriptor and no unknown parent class. Entity classes are numbered in the
  order of their names so that `<` is the code's tie-break.
  What `of_class` returns, the manifest's instances of a class, is the set `OfClass`
  of their positions; the two nested loops over it are `visited` (descriptors begun) and
  `to_place` (positions left of the current one), in the manifest's order.
- `PublishedTree` assumes of a manifest what `build_graph` and the manifest's
  parsers refuse, as `WellFormed`: one panel, ids that tell devices apart, one host
  for a MID, a direction for lugs.
- `SetCommands` assumes the profile declares `switch/relay` and
  `load-shed/priority` settable, as the profiles under `wire/profiles` do, and
  that the producer registered no handler of its own in their place.
- In `LiveCapture` time is counted in polls and passes in the sleeps; the loop's two
  conditions are two steps, for something may arrive between them. The Controller is
  external: a device may be known before it is described, and described again with
  more children (`MaxUnlisted` bounds how many are missing at first). A device's
  values arrive together. `CompleteRaises` is `complete()` going over the dict while
  the other thread inserts, which nothing retries. Of an id it is known whether "down"
  is in it (`DownNamed`), which decides for lugs whose direction was not read. An
  insert during a copy may or may not raise in it. Another enclosure on the broker is
  left out.
- `wire`, what `LiveCapture` reads, is `PublishedTree`'s tree of a manifest, so
  `RepublishesWhatItRead` compares two of them: the one captured, restricted to
  what was read, and the one of the definition made of it. Ids are not masked.
- In `SetCommands` and `PanelTick` a capture is no action: what it would make of
  the last published values is a function of the state, and so is the tick an
  emitter would publish from it.
- In `WirePublisher`, `start()` is folded into the first `Connect`: for both
  kinds of transport nothing reaches the broker before it.

Definitions under a comment that starts with `Slip:` are wrong on purpose. Each
is the form a plausible bug would give the definition after it. No
specification uses one; putting one in place of the right definition makes the
property named in `PROJECT.json` fail, which shows that the property can.

## 3. The runs

All bounds are values of constants in the cfg files or definitions in the `MC`
modules.

| run | instance | distinct states | what it shows |
|---|---|---|---|
| `tick_commands` | 2 circuits, circuit 2 relay- and priority-locked at SOC_THRESHOLD, charge low, high or unknown, policy possibly absent | 65,898 | type invariant, inductive invariant; a settled circuit's power and relay agree; a published shed is the decision on the published priority or on one it replaced during the tick; clearing the sheds closes exactly the LOAD_SHED circuits; refinement of `RelayPromise`; a standing command reaches the wire |
| `assertion` | 2 batteries, span-alpha-test-b2's accepting states, span 3, intervals 1 and 2 | 3,824 | cleared only after a healthy span, and reclaimed for good |
| `publisher` | 2 properties of 2 values, all transports | 160,468 | settled tree in sync, stays down once down, outage heals |
| `panel_tick` | heater, solar, locked battery breaker; 1 battery, without a configuration at first, and 2 configurations; 3 ticks | 266,850 | balance of flows and of published meters, reserve, capacity, registers in agreement with their meters and with one another; a recorded tick replays |
| `graph` | 3 classes beside the root, all placements; up to 3 instances | 188,277 | cycles refused exactly, parents first, tree complete, termination |
| `set_commands` | one circuit and one EVSE, 3 variants, 4 firmwares, every commissioning | 996,316 | description, handlers, wire and what is captured of it agree |
| `live_capture` | five panels of up to 4 devices; timeout 3 polls, settling 2, 2 tries, 1 sample | 784,806 | inductive invariant; settled means whole, samples fit, the timeout is deserved, the definition publishes what was read, the capture ends |
| `tick_torn_power`, `assertion_race`, `off_grid_balance`, `charge_from_grid`, `live_capture_late` | as above | stops at the violation | the five findings of section 6 |

Why the bounds are enough to mean something:

- Two circuits are the least with a circuit "already visited" and one "still to
  visit" in each pass, which is what an interleaving command needs; one is
  locked and one free. The proofs cover any number.
- Two batteries let one link be healthy while another is not; a span of 3 with
  steps of 1 and 2 is reached exactly, overshot, and interrupted. Two keys
  give a tick a moment between its sends; two values give it a change.
- Three ticks are a first one (which establishes the clocks), one that
  integrates and one after a reconfiguration. Intervals are backwards, half an
  hour and an hour and a half: before, within and beyond what the dispatch
  bounds. The battery may be configured before or after any tick, shrunk, restored
  and switched to backup-only.
- The five panels of `live_capture` are a battery that hosts a MID (a grandchild of
  the panel), two batteries upstream of one set of lugs, a battery and a charger on
  one breaker, upstream and downstream lugs with a battery upstream and ids that do
  not name the direction, and downstream lugs whose id does: each relation the
  edges know, the two in which they must leave something out, and the one a capture
  of half a tree gets wrong. `live_capture_late` has a battery on a
  breaker, with its MID. Three polls allow a tree to be complete, disturbed and
  complete again before the timeout; two tries are one that may be repeated and
  one that may not; one sample is taken after the first copy, which is what races
  it. The proofs cover any number.
- Three classes hold every parent relation of the real mapping table (a class
  under the root, one under it, a node) plus cycles of length 1 to 3.

Deadlock checking is off where the system really may stop: `graph` (a
construction ends), `set_commands` (a contradictory commissioning is refused),
`panel_tick` and its two violations (the run ends after `MaxTicks`), `live_capture`
and its violation (the capture returns, and the panel has nothing left to publish).

## 4. Fairness

- `TickPipeline` and `IslandingAssertion`: weak fairness of `Tick`. A producer
  calls `publish_tick` again and again and no call inside it blocks. Nothing is
  assumed of the handlers: `CommandReachesTheWire` says "shown or replaced",
  `ReclaimedOnceHealthy` allows the consumer any writes.
- `WirePublisher`: weak fairness of the publish loop and of the re-announcement,
  each one SDK call after another. No fairness of the link: `OutageHeals` takes
  a link that stays up as a hypothesis.
- `GraphBuilder`: weak fairness of `Next`, one thread running one call.
- `LiveCapture`: weak fairness of the capturing thread, whose sleeps end and whose
  calls do not block. Nothing is assumed of the broker: `CaptureEnds` holds if it
  never says anything and if it never stops.

## 5. What is proved

All theorems hold for every value of the constants that satisfies the module's
named `ASSUME`; TLC evaluates the assumptions on each run. Every invariant the
passing runs check is stated by a theorem, and so is every action property and the
refinement; only liveness is not. Each inductive invariant was checked by TLC
before it was proved. `TickPipeline`, `IslandingAssertion`, `WirePublisher` and
`LiveCapture` state theirs in the module and a run checks it still; the other three
are in the proof modules.

**Tick pipeline** (`TickPipeline_proofs`, assumption `PipelineAssumption`: at
least one circuit, maps total over the circuits, a `NoOverride` that is no value).
`SettledTickIsConsistent` is not inductive: it speaks of the end of a tick about
reads made during it. `IInv` says what each pass has established on the circuits
it has visited: `DecideInv` (a priority read is the current one, or one that has been replaced since),
`ShedInv` (the shed map is empty, then the policy's decision on what was read),
`GateInv` (the gate agrees with the resolver on visited circuits nobody
commanded), `SnapshotInv` (a snapshot is permitted by the window of commands, and
equals the resolver's state where nobody commanded), with `HistoryInv` tying the
window to the overrides. From `Invariance` follow `TypeCorrect`,
`SettledConsistent`, `ShedExplained`, the action property `RestoreIsExact`, and
`PromiseKept`: every step maps to a step of `RelayPromise` or to a stutter.

**Islanding assertion** (`IslandingAssertion_proofs`, assumption
`AssertionAssumption`). `SpanInv` relates the span the code measures to the time
since the last unhealthy tick, the two being reset at different places. It gives
`TypeCorrect`, `Reclaimed` and `ClearedAfterSpan`.

**Publisher** (`WirePublisher_proofs`, assumption `PublisherAssumption`). What the
broker retains is what the SDK keeps, but for topics still to be announced
(`BrokerInv`); what the SDK keeps is what the differ committed, but for the
changes sent in the current loop and those a raising loop had sent (`SdkInv`).
From these, `InSyncWhenSettled` and `StaysDown`, for any number of properties.

**Set commands** (`SetCommands_proofs`, assumption `CommandsAssumption`: breaker
limits and payloads are integers of any size and sign, absent values are none of
the others). That a read-only property never moves needs to know that no handler
has let anything into its map (`OverrideInv`) and that the lock the resolver has is
the one the description was made from (`StartInv`: construction refuses the
metadata on which the two disagree); `LockedInv` carries it to what is published.
That the last command wins needs `AskedInv`: the maps hold what was asked, a relay
payload that says neither having asked for OPEN, a priority only where the
description declares it settable.
`CaptureKeeps` is the long one: by cases over lock, priority and firmware, what
`CaptureValues` reads back from the published values commissions the circuit and
the EVSE anew with the values it had.

**Panel tick** (`PanelTick_proofs`, assumption `PanelAssumption`: finite sets of
circuits and batteries, integer readings and intervals of either sign). The
inductive invariant is small, `TypeOK`, `ReadingInv` (the reading is the panel
meter's function of gated powers and dispatch), `TickedInv` (all published registers
have been observed equally often, so one interval integrates all of them) and
`DownstreamLugsAgree`. What is hard is under it: the meters are sums over any
number of circuits, which `Sums` takes apart by induction over finite sets
(`SumRemove` takes one term off; `SumOfSums`, `SumOfParts` and `SumScaled` add, split
and scale sums); `Dispatch` and `Tick` of a battery are bounded by lemmas over its
configuration; and consumed and produced are shown to move one at a time.
`FlowsBalance` and `MetersBalance` have the hypothesis `FeedsBookedOnce` where flows
are booked by role: no circuit is both a solar circuit and on a battery. Without
it they are false, see section 6. `ReplayShowsTheSame` proves that the powers a
capture records make the emitter publish the same powers.

**Graph builder** (`GraphBuilder_proofs`, assumption `GraphAssumption`: any number of
classes, any mapping table over them, any manifests). `SortInv` is Kahn's
algorithm: a class waits for its parent exactly until the parent is taken, is
queued or taken as soon as it waits for none, never twice, and after its parent. When
the queue runs dry before all are taken, those left are a set in which every
class has its parent, which is what `Cyclic` means; when all are taken, a cycle
would have an earliest member taken before its parent (`CyclesRefused`). `LoopInv`
says where the loops stand. `DeviceInv` is the tree so far: a `Device` for every
child passed, under a `Device` with the id of its parent instance, and no circle,
because a new object goes under one that was there before (`CircleFree`).
`TreeInv` adds what `devices` finds and where the properties lie. Nothing of it
needs distinct ids. `ParentsFirst` and `TreeComplete` follow.

**Live capture** (`LiveCapture_proofs`, assumption `CaptureAssumption`; the settling
time is positive, as the code's is, and manifests are `WellFormed`).
`SamplesHoldTheTree` compares two copies made device by device while the Controller
changes. `CopyInv` ties both to it: what has been copied is there still, or more of
it, and while a later copy runs every device of the tree is either behind it, with
at least as much, or yet to be visited. `CalmInv` relates the history's clock to
the code's (`calm` never runs ahead of `since_new` and stands still in an incomplete
tree), from which a capture times out only if something was new or missing.

`DoneIsWhole` is about the moment between "complete" and the end of the copy.
`DoneInv` keeps a witness of completeness: a set of described devices with the
panel that is closed under what they list, each of which the copy has as it is
listed or is still to visit. `Whole` counts levels of the tree instead; that a
closed set holds every level, and that the levels close off within the number of
devices, is an induction over walks (`WalkStays`, `WalkCloses`, `WholeByClosure`).
`Republishes` holds of whatever was read, whole or not. `ReadInv` says that a copy
holds of a device nothing but what is published of it; `PublishedWiring` what edges
`PublishedTree` gives a manifest, and `OwnWiring` that the part read has them still.
The rest compares, class by class, what an emitter publishes of the instances
`CaptureMapper` makes of that part with the part itself.

**Only model-checked.** Liveness: `CommandReachesTheWire`, `ReclaimedOnceHealthy`,
`OutageHeals`, `ConstructionEnds` and `CaptureEnds`. They need `ENABLED` and a
well-founded measure under fairness, which the installed provers do not reach.
Inductions over sets and sequences (sums, walks, Kahn's queue) are within reach
where the induction is stated with a set in place of a predicate, as
`SubsetInduction` of `Sums` and `UpTo` of `LiveCapture_proofs` do.

## 6. Findings

| run | the code | what is said of it |
|---|---|---|
| `tick_torn_power` | the relay is read at `emitter.py:964` for the power and at `:1047` for the snapshot; a command in between publishes OPEN with full power | "if relay open, no energy flows" (`emitter.py:967`) |
| `assertion_race` | links are checked and the assertion stored in two steps; a tick in between heals the links | "accepted only while a battery link is not `OK`" (`src/DESIGN.md:63`) |
| `off_grid_balance` | off grid nothing ties dispatch, decided on ungated powers by each battery for itself, to the gated load | the four flows "sum to zero" (`panel_meter.py:31-33`) |
| `charge_from_grid` | the raw output of a solar circuit whose relay is open counts as surplus | a backup-only battery is to "never charge from utility grid" (`native_devices/bess.py:152-153`) |
| `live_capture_late` | whether the tree is complete is asked at `capture.py:270`, after the copy and all samples: devices that arrive late make an incomplete tree pass for complete | "whether the tree was complete ... before the timeout" (`capture.py:103-104`), "with a warning that it is incomplete" (`src/README.md:152`) |

What holds instead is checked beside each: `SettledTickIsConsistent`,
`OldAssertionIsReclaimed` (the late assertion never stands for good),
`FlowsBalanceWhenCovered`, `DoneTreeIsWhole` (a capture that settled is whole).

Seen while modelling and proving, without a run of their own:

- A circuit with the solar role that is also a battery's feed is booked to both
  (`emitter.py:996-1010`, `panel_meter.py:135-145`), and the upstream flow counts it
  twice, although it is to be "every circuit either way" (`panel_meter.py:130`). No
  commissioning check refuses it. The proof of `MetersBalance` did not go through
  without `FeedsBookedOnce`; TLC, given such a panel, violates `WireMetersBalance`.
- Downstream lugs whose values had not arrived when the tree was copied, and whose id
  has no "down" in it, are captured as upstream ones, with a note
  (`capture.py:800-802`), and the definition then publishes the upstream battery as
  feeding them. `RepublishesWhatItRead` once said nothing is published but what
  was read; the proof failed on two lugs, TLC confirmed it on the panel that is now
  in `live_capture`, and the property says what happens instead.
- `build_graph` builds a manifest that names an unknown entity class, or the same
  instance twice, although `exceptions.py:11-12` calls both a
  `ManifestValidationError`. `TreeIsComplete` says what is built: everything of a
  known class, each with its properties on a device of its own class and id;
  `graph.devices` finds the last of equal ids only, and children hang under
  whatever it finds for their parent's id. The emitter's loops over `devices`
  pass a displaced device by.
- `complete()` iterates the Controller's dict without the retry the copy has
  (`capture.py:229`, `:236-251`): where the SDK hands out the dict itself, an
  insert at that moment ends the capture with a `RuntimeError`.
- A circuit that is both never-backup and not relay-controllable is captured
  without never-backup (`capture.py:773`), and outside span-alpha-test-b2 its
  priority comes out settable. `CaptureReproduces` leaves the case out by name;
  without that it is violated.
- A panel publishes the thresholds 20 and 30 until a consumer sets a policy
  (`emitter.py:1322`), whatever its configuration says. A recording of a panel
  with a lower threshold sheds more in the replay, which is the hypothesis of
  `RecordedTickReplays`.
- Lugs' edges to a battery that was not read are dropped by a capture without the
  note it makes for a circuit's (`capture.py:676`).

## 7. What is not modelled

- Loading of profiles, catalogs, overlays and YAML definitions, and the text and
  number formats of `wire/literal.py` and `conventions/`: no state, no order.
- `seed_energy` in the middle of a run (`emitter.py:631`): `PanelTick` seeds
  registers at the start only.
- PV, MID and site snapshots, the EVSE's status, names and identity: copies of
  manifest data. The shed policy text: an unconditional store.
- Leg currents, voltages, and the grid-state strings of the panel meter.
- The SDK's subscriptions and payload schemas; its device tree, the connection
  and the broker are modelled from how the repository uses them.
- Of the capture tool: masking, names, tabs, notes, identity and site metadata,
  the unvalued lists and their trimming, snapshot files and the command line. All
  but the trimming are text; that one compares paths of all profiles, which
  `CaptureValues` does not enumerate.

## 8. Plan

Done: the modules of section 2, and for each of the seven state machines an
inductive invariant with the theorems of section 5.

Next:

1. Refinement: `WirePublisher` against an abstract broker that retains the last
   committed tick; `LiveCapture` against one atomic snapshot.
2. A battery configuration for an instance the manifest lacks (`emitter.py:732`):
   the tick that raises in the middle of the batteries. Adding and replacing the
   configuration of a battery of the manifest is modelled.
3. The setter registry: handlers of the producer, a registry shared by two
   emitters (`emitter.py:873`).
4. The rest of the bag builder: the coverage check and the binding and, with the
   publisher, values that become absent (`wire/property_bag.py:46`).
