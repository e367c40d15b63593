# TLA+ models of the edge-matrix application peer syncer

This directory holds TLA+ models of the EMC node (`src/edge-matrix`): its
application peer syncer and the code around it. It also holds the TLC
configurations that check them. Every definition that models code is listed
with its source lines in `PROJECT.json` under `"map"`.

## 1. Inventory

### Where the code is

`src/` has six files. Some of them have other files appended after a
separator line:

| file | content |
|---|---|
| `application/proto/syncer.proto` 1-72 | wire format of the `SyncApp` service and `AppStatus` |
| `application/proto/syncer.proto` 73-272 | **`syncer.go`**: the syncer orchestrator |
| `application/application.go` 1-51 | `Application` descriptor and `Copy` |
| `application/application.go` 52-383 | RLP tests of the `types` package (that package's code is not here) |
| `miner/miner_service.go` 1-130 | miner gRPC service (`GetMiner`, `GetCurrentEPower`, `GetIdentity`, `MinerRegiser`) |
| `miner/miner_service.go` 131-174 | `Alive` relay proto |
| `miner/proto/miner.proto` | wire format of the miner service |
| `command/miner/register/result.go` | CLI output of `miner register` |
| `server/server.go` 1-1016 | `NewServer` (startup), hubs, `Server.Close` |
| `server/server.go` 1017- | the repository README |

The code of PeerMap, SyncAppPeerClient, SyncAppPeerService, the overlay
network, the endpoint and the miner canister agent is **not** in `src/`.
Where the syncer depends on them, they are modelled from `spec.md` and marked
`spec_modelled` in the map.

### Components, their state and operations

* **Syncer orchestrator** (`syncer.go`).
  * State: `peerMap`, `newStatusCh` (unbuffered), the client and the
    service, `peersBlockNumMap` (never used).
  * `Start(topicSubFlag)` calls `client.Start`, whose error aborts Start.
    It then calls `service.Start` and spawns two goroutines:
    * the **fan-in**: `range` over the client's update channel, then
      `PeerMap.Put` and `notifyNewStatusEvent`;
    * the **publisher**: `doPublishAppStatus` once, then once on every tick
      of a 15-minute ticker, in an endless loop.
  * `Close` runs three steps in order: `close(newStatusCh)`, then
    `service.Close` (an error returns early), then `client.Close`.
  * `notifyNewStatusEvent` is a `select` with a `default` branch, sending
    on the unbuffered `newStatusCh`.
  * Unused code: `initializePeerMap` and `removeFromPeerMap` are never
    called. The connection event goroutine is commented out (line 199).
  * `GetAppPeer` only reads the map.
* **PeerMap** (spec 4.1): a map from peer id to AppPeer. `Put` replaces the
  entry (last write wins by arrival).
* **SyncAppPeerClient** (spec 4.3, 4.5).
  * Its subscriber loop takes AppStatus messages from the topic. It drops
    this node's own messages and sends the rest on the bounded update
    channel, blocking while the channel is full.
  * `PublishApplicationStatus` publishes on the topic. `Close` closes the
    update channel.
* **SyncAppPeerService** (spec 4.4): the stream endpoints. The syncer only
  calls its `Start` and its `Close`, and `Close` may fail.
* **ConnectionTracker** (spec 4.6): absent from the code.
* **Overlay**: a gossip topic. It may lose messages and reorder them. It
  also delivers this node's own publications back to this node.
* **Application.Copy**: copies a descriptor field by field.
* **Miner service**: `MinerRegiser` registers or unregisters this node
  with the miner canister, using a `set` or `remove` commit.
  `GetMiner` maps the canister's node type to a name. `GetCurrentEPower`
  combines the results of two canister queries.
* **Miner register CLI result**: prints the outcome of a register command.
* **Server**: `NewServer` is a long sequence of setup and start steps that
  depends on the running mode (full or edge). Any step's error returns at
  once. `Server.Close` closes the base network and the profiler.

### How the components interact

* Remote peers publish statuses on the overlay topic.
* The client's subscriber moves them into the update channel.
* The fan-in goroutine takes them from the channel, puts them into PeerMap
  and signals `newStatusCh`.
* The publisher goroutine publishes this node's status through the client.
* `Close` interacts with both goroutines only through the two channels.
  Nothing else guards it.

### What is hard

* Concurrency between Close and the fan-in. Close steps interleave with
  the goroutine that still drains the update channel.
* A lossy signal.
* Reordering and loss on the topic.
* A bounded channel between two goroutines.
* Goroutines that have no exit path.
* Partial failure: of `service.Close`, and of the steps of `NewServer`.

### The properties that make each component correct

* **Syncer, PeerMap and client:**
  * No status update is lost or reordered by the fan-in: last write wins
    by arrival, per peer.
  * PeerMap only ever holds statuses that the peers published, and never
    this node's own status.
  * The update channel always drains.
  * Close does not panic and stops every goroutine.
  * The new-status signal is lossy but lively.
* **Miner service:**
  * The response reports what the canister did with the caller's own call.
  * A register call never takes the process down.
* **Server:**
  * Components are started only after the components they depend on.
  * A server returned without error runs what its configuration calls for.
  * Failures are reported.
  * Close stops what was started.

The hazards, each at the line where it bites, are listed in `PROJECT.json`
under `"hazards"`.

## 2. Plan

Modules in order of importance:

1. **`AppSyncer`** (done). It models the syncer orchestrator, with the
   client, overlay and signal observer as its environment.
2. **ConnectionTracker** (nothing to model). Its goroutine is commented
   out (syncer.go line 199), and `removeFromPeerMap` has no caller. No
   code of the repository removes a PeerMap entry, so a model of the
   "disconnect eviction" scenario could only restate that line.
3. **`AppStatusPublish`** (done): `doPublishAppStatus`, which reads a
   concurrently updated endpoint once per field (a torn status).
4. **`SyncService`** (decided against). The per-stream state machine of
   spec 4.4 (Accepted, Streaming, Closed) exists only in the spec; none of
   its code is in `src/`. A module for it would check spec 4.4 against a
   translation of spec 4.4. What the code does with the service (`Start`,
   `Close` and its error) is already part of `AppSyncer`. See section 4.
5. **`MinerRegister`** (done): `MinerRegiser`, `GetIdentity`, `GetMiner`
   and `GetCurrentEPower` against an abstract canister record, with
   concurrent gRPC callers. It refines **`MinerRegistry`**. Left out: the
   CLI's `Message`, which is formatting only.
6. **`ServerLifecycle`** (done): the steps of `NewServer` and
   `Server.Close`.
7. **`Application.Copy`** (nothing to check). It has no caller in `src/`,
   and PeerMap stores `*AppPeer`, not `Application`. The subset of fields
   it copies is spec 9's open question, and it is visible in the code.

## 3. Modules and runs

### `AppSyncer.tla` (`MC_AppSyncer.tla`)

A status is abstracted to `[from, ver]`: the id of the node it advertises,
and its number among that node's publications.

| variable | code |
|---|---|
| `remoteVer`, `net` | remote peers and the overlay topic (environment) |
| `clientState`, `serviceState` | the client and the service, as far as Start/Close change them |
| `updateCh`, `chClosed` | the client's peer status update channel |
| `lastArrived` | history variable: the last status of each id sent on the channel |
| `peerMap` | `syncer.peerMap` (version stored per id, 0 = absent) |
| `syncerState` | whether `Start` returned nil or an error |
| `fanIn` | program counter of `startPeerStatusUpdateProcess` (recv → notify → recv, exited) |
| `publisher` | program counter of the publisher goroutine |
| `closePc` | program counter of `Close` |
| `signalCh` | `newStatusCh` open or closed |
| `observer` | a receiver of `newStatusCh` (spec 3), busy or waiting |
| `pendingSig` | history variable: a Put not yet signalled to an observer |
| `panicked` | the runtime panic that ended the process, if any |

#### Actions

* `Start` / `StartFail`: `syncer.Start` succeeds, or `client.Start`
  returns an error.
* `FanInPut` receives the head of the channel and runs `PeerMap.Put`.
* `FanInExit`: the `range` loop ends once the channel is closed and
  drained.
* `NotifyDeliver`, `NotifyDrop` and `NotifyPanic` are the three outcomes of
  the `select` in `notifyNewStatusEvent`:
  * a receiver is waiting (deliver);
  * no receiver is waiting (the default branch drops the signal);
  * the channel is closed (the send panics).
* `PublishFirst` and `PublishTick` are the publisher goroutine.
* `CloseSignal`, `CloseService`, `CloseServiceError` and `CloseClient` are
  the three steps of `Close`, including the early return on error.
  Nothing in `src/` calls `Syncer.Close` (the server does not keep the
  syncer), so a second call is not modelled.
* `Stopped` lets a crashed or failed process stutter, so TLC does not
  report these states as deadlocks.

#### Runs

All runs use 2 remote peers, 2 statuses per peer and an update channel of
capacity 2:

* 2 peers are enough to interleave updates of different peers.
* 2 versions make an overwrite and a reordering possible.
* Capacity 2 lets two statuses of one peer queue behind each other.

The `appsyncer` configuration was also checked once with 3 remote peers
(1,654,678 distinct states, 169 s, no error). Those bounds are not a
project run, because every mutant repeats the run and the budget is 5
minutes.

| run | cfg | expect | shows |
|---|---|---|---|
| `appsyncer` | `AppSyncer.cfg` | pass | `NoLostUpdate`: after the channel holds nothing of a peer, PeerMap has that peer's last arrived status. The single `range` loop at line 241 applies statuses in channel order. A mutant with a goroutine per status breaks it. `UpdatesDrain`: the update channel always empties, because `notifyNewStatusEvent` never blocks (the `default` branch at line 270). A mutant without it breaks this. |
| `close_send_panic` | `AppSyncer_NoSendOnClosedSignal.cfg` | violation | Start, a status is put, `Close` closes `newStatusCh`, and the fan-in's notify panics. |
| `signal_lost` | `AppSyncer_SignalLively.cfg` | violation | With an observer that always returns to wait, a Put made while it is busy is never signalled. |
| `close_strands_fanin` | `AppSyncer_CloseEndsFanIn.cfg` | violation | `CloseEndsFanIn`: `service.Close` fails, `Close` returns at line 183 before `client.Close`, and the update channel is never closed. The fan-in goroutine waits on it forever, although the process is alive. |

The run checks only the fan-in, not the publisher. The publisher's ticker
loop (lines 203-206) has no exit path, and no step of the model could stop
it. A property about the publisher would only restate that.

Two properties were removed after review:

* **A type invariant.** Its only non-trivial clause was the channel bound,
  which restates the subscriber's guard. A Go channel cannot be overfilled
  anyway.
* **A refinement of an abstract "peer view".** It held only through the
  spec-modelled self filter of the client, whatever `syncer.go` does.

#### Fairness

The Go runtime schedules runnable goroutines fairly. So these steps are
weakly fair:

* the subscriber;
* the fan-in;
* the steps of a `Close` that has started;
* the first publish;
* an observer's return from a receive on the closed channel.

These are not fair:

* remote peers;
* message loss;
* the callers of `Start` and `Close`;
* an observer returning to wait. The code has no receiver of `newStatusCh`
  at all.

Only the `signal_lost` run assumes that observers come back
(`SpecObserverReturns`). That is the reading of spec 3 and 9 under which
the property is meaningful.

### `ServerLifecycle.tla` (`MC_ServerLifecycle.tla`)

`NewServer` (`server/server.go` 154-466) is a straight sequence of steps,
each of which may fail and `return nil, err` at once. `pc` is the step about
to run, and there is one action per step. Each action moves to the next step
(`Goto`), returns an error (`Fail`) or returns the server (`Return`).
`running` is the set of components whose goroutines or listeners have been
started. Init enumerates the configuration: the running mode (full or edge),
`RelayOn`, a relay port, and a log file. A step fails only where the code
has an error path: logger creation fails only with a log file, and
`initMinerService` cannot fail because `grpcServer` is always set. `Close`
is `Server.Close` (950-987), which closes only the base network and the
profiler.

The model has no constants. All 16 configurations are in Init, and every
step may fail, which gives 404 states.

| run | cfg | expect | shows |
|---|---|---|---|
| `server_lifecycle` | `ServerLifecycle.cfg` | pass | `StartsAfterDependencies` (an action property): every step starts a component only once what it uses runs (consensus after the base network, the syncer after the edge network, the relay server and the telegram pool after the syncer). `StartedAsConfigured`: a server returned without error runs exactly the components its mode and relay options call for. |
| `server_close_leaks` | `ServerLifecycle_CloseStopsAll.cfg` | violation | After `Close`, the gRPC server and the alive service (edge mode) are still running. In full mode, consensus, the edge network, the syncer and the telegram pool are also still running, so `Syncer.Close` is never called. |

The model takes no fairness: the properties are safety properties, and
the steps are one goroutine's sequential code.

`SetupDataDog` only moves on. The check at line 183,
`if ddErr := m.enableDataDogProfiler(); err != nil`, tests `err` (the
logger's error, nil at that point) instead of `ddErr`. So a profiler
failure is never logged, and startup goes on as the model says. That is a
one-line bug that the code shows at a glance, so no run is spent on it.

### `MinerRegister.tla` (`MC_MinerRegister.tla`)

The miner gRPC service (`miner/miner_service.go`) serves its callers
concurrently. The model has:

* two callers (`Callers`), each sending up to `MaxCalls = 2` requests;
* one record of this node in the canister (`node`);
* the identity secret (`secret`), which Init sets to ok, missing or corrupt;
* a program counter per caller (`pc`).

Actions:

* `Receive` is `MinerRegiser` up to the canister call. It covers
  `GetIdentity`, whose nil result panics at the unchecked
  `identity.PubKeyBytes()`, and the commit switch. A commit other than
  `set` and `remove` replies `""`.
* `CanisterCall` is `RegisterNode` or `UnRegisterNode`, with the result
  string. The call is one atomic step of the canister. It either applies
  and the caller gets the ok text, or it fails with the error text.
* `GetMinerStatus` is `GetMiner` with its node type switch.
* `GetCurrentEPower` is the two canister reads `MyCurrentEPower` and
  `MyStack`, either of which may fail. The values read are not modelled.
* `Respond` is the caller taking the reply.

`MinerRegistry.tla` is the abstract specification of the service: what
it promises a caller. Every call is one atomic step against the
canister's record:

* a register or unregister (`Call`, then `Apply` or `Reject`) either
  applies the caller's own request and replies the ok text, or changes
  nothing and replies an error;
* a query (`Answer`) replies without an effect;
* the process may `Crash`.

`MinerRegister` refines it under this mapping:

* a request is pending while the handler's `pc` is `"call"`;
* `alive` is `~panicked`;
* the record and the replies map to themselves.

`Receive` of a set or remove is `Call`. `CanisterCall` is `Apply` or
`Reject`. `Respond` is a stutter. A mutant that keeps the ok text after a
failed canister call (`CanisterCallIgnoreError`) breaks the refinement.

| run | cfg | expect | shows |
|---|---|---|---|
| `miner_register` | `MinerRegister.cfg` | pass | `RegistryRefinement`: callers interleave register, unregister, status and e-power calls, and canister calls fail. The service still implements `MinerRegistry`: no caller is told "register ok" or "unregister ok" for a call that was not applied, or for another caller's request. |
| `register_nil_identity` | `MinerRegister_NoRegisterPanic.cfg` | violation | With the identity key missing or corrupt, the first register call panics. grpc-go does not recover handler panics, so the process dies. |

### `AppStatusPublish.tla`

`doPublishAppStatus` (syncer.go 214-237) builds the `AppStatus` literal
with one `GetEndpointApplication()` call per field. Only the fields the
endpoint changes are kept: `Uptime`, read at line 222, and `StartupTime`,
read at line 223. The endpoint, which is not in this repository, is
modelled from spec 3. Uptime advances, and a restart of the application
gives a new startup time with the uptime counted from 0. The restart is
read from the meaning of the two fields; the spec names only uptime and
the gauge as changing. The publisher has three steps: `ReadUptime` (which
covers everything before line 222, all of it constant), `ReadStartupTime`,
and `Publish`. `window` is a history variable: the descriptors the
endpoint held since `ReadUptime`.

The gauge is left out. The literal has no `GuageHeight` and `GuageMax`,
so every status advertises a zero gauge, whatever the endpoint holds.
Spec 3 and 8.6 want the gauge published. This is visible in the literal
itself, so no run is spent on it.

| run | cfg | expect | shows |
|---|---|---|---|
| `publish_torn_status` | `AppStatusPublish_PublishedIsSnapshot.cfg` | violation | `PublishedIsSnapshot`: the application restarts between the two reads, and the published status pairs uptime 1 of the old run with the new startup time, a descriptor the endpoint never held (spec 4.2 asks for a snapshot). The bounds are uptime ≤ 2, 1 restart and 2 publishes. |

## 4. Not modelled, and why

* **`Application.Copy` and the ConnectionTracker.** See the plan (items 2
  and 7). Neither has code that runs.

* **Stream contents, encodings and wire formats.** They have no control
  flow that the properties tell apart.
* **The blockchain store, consensus, JSON-RPC, telegram pool, relay,
  secrets manager and canister agent.** They are not in this repository.
  They are out of scope in spec 1.
* **The server hubs (`telepoolHub`, `jsonRPCHub`, server.go 480-870).**
  They delegate to the state trie, the blockchain and consensus, and map
  their errors (for example, `GetNonce` turns any error into 0). They have
  no state of their own, and what they delegate to is not in this
  repository.
* **What `GetCurrentEPower` returns.** The action is modelled, but its
  two queries can read different canister rounds. Whether that matters
  depends on the canister's round and stake semantics, which are not
  here. Nothing states that the three fields must agree.
* **SyncService streams (spec 4.4).** Their code is not in this
  repository. The syncer's calls of the service's `Start` and `Close` are
  modelled.
* **`initializePeerMap`.** It has no caller (syncer.go 172-176), so
  peers that published before the subscription are seen only at their
  next publish. How the topic treats those messages is gossipsub
  behaviour. `AppSyncer` lets them be delivered or lost.
* **The miner register CLI output.** It is a choice between two texts.
* **Timers.** A tick is an untimed step. `publish_interval` and
  `status_timeout` only change when things happen, not what can happen.
* **The host address read in `doPublishAppStatus`.** It calls
  `s.host.Addrs()` twice, for the length check and for the index. The
  first address could disappear in between, but how the libp2p host's
  address list changes is not in this repository.
* **Status validation (spec 8.2).** The fan-in stores whatever the
  update channel carries: syncer.go line 244 is `// TODO validate peer
  status`. So the rule that a status with `gauge_height > gauge_max` never
  reaches PeerMap rests on the subscriber alone. That code is not in this
  repository. A property for the rule would check only the spec-modelled
  filter, not any code here.
* **The newStatusCh observer.** Nothing in `src/` receives from
  `newStatusCh`. The observer in `AppSyncer` is the one that spec 3 and 9
  describe.
* **The RLP tests in `application.go`.** They test a package whose code is
  not here.
