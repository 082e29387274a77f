# TLA+ models of savannahnode's consensus-side components

This directory holds TLA+ models of parts of the node in `src/`. TLC checks them, and
`PROJECT.json` lists the runs, the mapping from each definition to the
source lines it models, the mutants that show each property can fail, the
findings and the hazards.

## The system and how its parts interact

The repository is a partial snapshot of an Avalanche-style node. The parts with
state machines, concurrency or recovery are these:

* **Chain manager** (`src/chains/manager.go`) creates chains. Every chain except
  the P-chain is queued (`CreateChain` → `blockedChains`) until the P-chain has
  bootstrapped and calls `unblockChains`. Each Snowman chain gets a
  bootstrapper, a startup tracker over the beacons (threshold
  `(3*bootstrapWeight+3)/4`), and a subnet record that says when all chains of
  the subnet are bootstrapped.
* **Snowman bootstrapper** (`src/snow/engine/snowman/bootstrap/bootstrapper.go`)
  runs per chain under the chain's lock. It does the following:
  * It starts once enough beacon weight is connected.
  * The common bootstrapper (not in `src/`) gathers the accepted frontier and calls
    `ForceAccepted`.
  * It fetches missing blocks with `GetAncestors` and walks each answer down to
    known blocks (`process`), pushing block jobs on the job queue `Blocked`.
  * `checkFinish` executes the queue when nothing is missing. It then restarts
    while the executed count still halves, or waits on a timer for the other
    chains of the subnet, or hands over to consensus (`OnFinished`).
  * `Blocked` (queue `JobsWithMissing`, not in `src/`) persists jobs and missing IDs
    with `Commit`, so a restarted node resumes where it stopped.
* **Peer tracker** (`src/snow/engine/common/tracker/peers.go`) keeps the
  connected validators and their weight. `PreferredPeers` gives the connected
  validators, or the connected peers if there are none.
* **Poll set** (`src/snow/consensus/snowman/poll/set.go`) is used by the
  consensus engine after bootstrapping. It keeps the polls in flight in
  insertion order, applies votes and timeouts, and returns the results of
  finished polls oldest first.
* **Avalanche getter** (`src/snow/engine/avalanche/getter/getter.go`) answers
  a peer's `GetAncestors` with a breadth-first walk of a vertex's stored
  ancestors, cut by count, size and time; a bootstrapping peer fetches from it.
* **Avalanche tx job** (`src/snow/engine/avalanche/bootstrap/tx_job.go`) is
  the job the Avalanche bootstrapper pushes per fetched transaction on its
  `TxBlocked` queue: it reports the dependencies not yet accepted and, once
  they are, verifies and accepts the transaction in the VM.
* **Benchlist manager**, **Avalanche serializer**: a per-chain registry and a
  DAG helper (not modelled, see the end).

The rest (platform VM and AVM transactions, codecs, gRPC plumbing, wallet
signer, keystore API, registry, runner, e2e tests) is sequential data handling
or I/O; `PROJECT.json` lists each with the reason it is not modelled.

## Inventory

| Component | State | Operations | Hard behaviour | What must hold |
|---|---|---|---|---|
| Poll set | polls in insertion order (linked hash map) | Add, Vote, Drop, processFinishedPolls | votes and timeouts in any order, duplicated, for finished or unknown polls; a poll finishing behind an older one | results in issue order, once each, only when finished; every poll eventually returned |
| Snowman bootstrapper | started, startingHeight, fetchFrom, OutstandingRequests, executedStateTransitions, awaitingTimeout | Start, Connected, Disconnected, ForceAccepted, Ancestors, GetAncestorsFailed, Timeout, (Clear) | overlapping responses, faulty and truncated Ancestors, timeouts, disconnects, a chain that keeps growing, halt inside process, crash between handlers, restart heuristic, subnet timer | no stranded job; every missing ID is being fetched and termination (both fail, finding 1); finish only when caught up (fails, finding 2) |
| Job queue (spec) | missing IDs, jobs, committed copies | AddMissingID, RemoveMissingID, Push, Commit, ExecuteAll | crash between write and commit | jobs execute in dependency order |
| Peer / startup tracker | connected validators, weight, latch | Connected, Disconnected, validator set callbacks | weight changes of connected validators | connected weight equals the sum over connected validators |
| Chain manager | unblocked, blockedChains, subnets | CreateChain, ForceCreateChain, unblockChains, IsBootstrapped | chains queued before the P-chain finishes | every queued chain is created exactly once |
| Avalanche getter | queue, visited, answer (per request) | GetAncestors | shared parents, unknown vertices, size and time cuts | duplicate-free, size-bounded breadth-first prefix of the stored ancestors |

## Modules

### `PollSet.tla` (poll set)

* **Variables**:
  * `polls` is the linked hash map, as a sequence of records
    `[rid, serial, pending, votes]`. `serial` is a history field: the number
    of the request, used only by the properties.
  * `nextRequestID` is the engine's counter. The request ID is
    `nextRequestID % 2^IDWidth`: the `uint32` of the code, scaled to
    `IDWidth` bits.
  * `results` holds the polls whose result `Vote`/`Drop` returned, in return order.
* **Actions**: `Add`, `Vote` and `Drop` are the three methods. `Settle` is the
  shared tail of `Vote` and `Drop`, where `processFinishedPolls` runs only if the
  updated poll finished.
* **Spec-modelled**: the single poll (the early-terminating poll, not in the
  sources). It is finished when no vote is pending, when a container has
  `Alpha` votes, or when `Alpha` can no longer be reached.
* **`MC_PollSet`**: 3 validators, 2 containers, samples of 2, `Alpha` = 2,
  3 polls, `IDWidth` = 2 (IDs never reused within 3 polls). The `uint32`
  counter's wrap is not checked: reusing an ID needs a poll outstanding
  across 2^32 requests, and `Add` refusing a reused ID is the documented
  no-op of spec section 4.1.
* **Fairness**: the timeout manager fails every query still unanswered, so
  `Drop(rid, vdr)` is owed only while the query is unanswered:
  `<>[]Unanswered(rid, vdr) => []<><<Drop(rid, vdr)>>_vars`. An answered
  query has no timeout.

### `Bootstrapper.tla` (Snowman bootstrapper with its queue, VM and trackers)

Blocks are heights. Block `h`'s parent is `h - 1`, and genesis (0) is accepted.

**Variables**:
* The network's `tip`.
* From the VM: `lastAccepted` (persisted) and `parsed` (the cache of parsed
  blocks, which `Evict` may drop).
* From `Blocked`: `missing` and `jobs` in memory, and `dbMissing` and `dbJobs`
  as last committed.
* From the startup tracker: `connected` and `shouldStart`.
* The bootstrapper's own fields: `fetchFrom`, `outstanding` (OutstandingRequests),
  `startingHeight`, `executedST` and `awaiting`.
* `othersDone`: the other chains of the subnet.
* `phase`: `stopped`, `waiting`, `frontier`, `fetching`, `normal`, `failed` or
  `halted`.

**How the model is built**:
* Each handler runs under the chain lock, so each handler is one action.
* What the handler calls is composed from pure operators over a record `St` of
  the state, in the code's order: `Fetch` (fetch), `MarkUnavailable`, `Process`
  (the walk of process, recursive), `CheckFinish`, `ExecuteAll` and `Commit`.
  `Apply` turns the final record into the next state.
* `fetchFrom.Peek` is an input. `picks` is the sequence of peers Peek returns
  during the handler.
* Halting is an input to `Ancestors`: the iteration of process at which
  `Halted()` is first true.
* `Crash` keeps the VM's accepted blocks and `Blocked`'s committed state, and
  resets everything else (`New`: `executedStateTransitions = MaxInt32`).

**Spec-modelled**: the job queue (`Commit`, `ExecuteAll`: run every job whose
parent is accepted, in order, then commit), `VM.GetBlock`, and `Restart(true)`
(back to collecting the frontier).

**Refinement**: `ChainBootstrap.tla` is what bootstrapping promises a chain
(spec sections 4.3 and 6), with nothing of how it fetches: the chain starts,
accepts a growing prefix of the network's chain while bootstrapping, waits for
its timer while the rest of the subnet is not done, and hands over to
consensus, or stops on an error or halt; a crash restarts it with its accepted
blocks kept. `Bootstrapper` instantiates it with `accepted <- lastAccepted`
and `status <- AbsStatus` (the four active phases map to `bootstrapping`, or
`awaiting` while the subnet timer is set), and `ImplementsChainBootstrap ==
Abs!Spec` is checked as a PROPERTY: every handler step is a step of the
abstract chain or a stutter.

### `ChainManager.tla` (chain manager composed with each chain's bootstrap)

* **Variables**: `unblocked`, `blockedChains` (the queue of `CreateChain`),
  `todo[c]` (the rest of the queue an `unblockChains` call on chain `c`'s
  thread still has to create), `subnetBs[s]` (the spec-modelled subnet: the
  chains added and not yet bootstrapped), `status[c]`, `failedHealth`,
  `shutdown`, and the history `builds[c]` with the bounded counters
  `requests`, `buildErrors`, `failures`.
* **Actions**: `CreateChain` (called by the P-chain's VM while it executes
  blocks), `ForceCreateChain` (its whitelist and alias early returns, and
  `buildChain` failing: `removeChain` then shutdown for a critical chain or a
  failing health check otherwise), and per chain the end of bootstrapping as
  seen by the manager: `Finish` (checkFinish reaches the `Bootstrapped`
  callback, which for a Snowman chain is `unblockChains`), `CreateNext` (one
  iteration of its loop, so other chains interleave between two creations),
  `Settle` (`Subnet.Bootstrapped`, then consensus or the timer), `Timeout`
  and `Fail` (the handler stops with an error).
* **Abstraction**: a chain's bootstrap is the five steps above; how it fetches
  is `Bootstrapper`'s business. The Avalanche X-chain has no `Bootstrapped`
  callback in `createAvalancheChain`.
* **`MC_ChainManager`**: the P-chain and a critical X-chain in the primary
  network, two Snowman chains A, B in a whitelisted subnet S and one chain D in
  a subnet T the node does not validate; 4 requests, 1 build error, 1 handler
  failure. With the handler failure, liveness is
  `EveryChainBootstrapsUnlessStopped`: every chain is eventually past
  bootstrapping unless a stopped chain of its subnet, or a stopped P-chain,
  holds it back (`HeldBackByStop`). That exception is exactly finding 4.
* **Simplifications**: `ForceCreateChain`'s `addChain`, `buildChain` and, on
  a build error, `removeChain` are one step. The subnet holds the chain only
  in between, where another chain's `IsBootstrapped` would read false, the
  conservative answer. After a critical chain's build error
  (`go m.ShutdownNodeFunc(1)`) the model stops every chain: the node is
  shutting down, and the steps other chains take until it exits are not
  modelled.

### `PeerTracker.tla` (connected peers and weight)

* **Variables**: the four fields of `peers`: `validators` (0 for a node that
  is not a validator), `connectedWeight`, `connectedValidators`,
  `connectedPeers`.
* **Actions**: the three validator-set callbacks and `Connected`,
  `Disconnected`; `PreferredPeers` is an operator. `connectedWeight` is a
  `Width`-bit word: `+=` and `-=` wrap as in uint64.
* **Environment**: the validator set calls the callbacks consistently (adds a
  node that is not a validator, removes or changes one with the weight it last
  reported) and the router reports connects and disconnects alternately.
* **Startup tracker** (spec-modelled, `tracker/startup.go` is not in
  `src/`): after `OnValidatorAdded`, `OnValidatorWeightChanged` and
  `Connected`, `Latch` sets `shouldStart` once `connectedWeight` reaches
  `StartupWeight(bootstrapWeight)`. That is the `(3*bootstrapWeight+3)/4`
  of `createSnowmanChain` and `createAvalancheChain`, computed in the same
  word as the weight. `bootstrapWeight` (the beacons' weight when the chain
  was created) is an input, and `startStake` is the real connected stake
  at the moment the latch closed.
* **`MC_PeerTracker`**: 4 nodes (symmetric), weights 1..2, 4 bits. The sum of
  all weights fits, which the `ASSUME` states: the validator set adds
  weights with overflow checks. `3*bootstrapWeight+3` need not fit, and
  does not for a beacon weight of 5 or more; subnet validator weights are
  set by the subnet's owner, so in `uint64` the same happens above about
  6.1e18. `MC_PeerTracker_wrap.cfg` checks `StartupQuorum` alone.

### `Getter.tla` (Avalanche `GetAncestors`)

* **Inputs in Init**: the vertex store: every DAG on 1..4 whose parents of `v`
  are any sequence of distinct higher vertices (all shapes and parent orders),
  every subset of stored vertices, every byte length 1 or 2.
* **Variables**: the locals of `GetAncestors`: `queue`, `ancestors` (the bytes,
  as the vertices they encode), `ancestorsLen`, `visited`, and `pc`.
* **Actions**: `GetAncestors` (drop if the vertex is not stored, else start
  the walk), `Step` (one loop iteration: pop, the size check `Fits`, append,
  queue the new stored parents, or `Parents()` fails and the handler returns
  the error), `Send` (the loop ends, by its condition or because
  `MaxTimeGetAncestors` passed, which may happen at any iteration).
* **Reference**: `Reach(k)`, recursive, the stored vertices within `k` parent
  edges of the root through stored vertices, and `Dist` from it; defined
  without a queue.

### `TxJob.tla` (Avalanche tx job on the `TxBlocked` queue)

* **From the code**: `MissingDependencies` (dependencies not accepted),
  `HasMissingDependencies`, and `Execute`. `Execute` returns `"error"` for a
  missing dependency, a status Unknown or Rejected, or a failing `Verify` or
  `Accept`. It returns `"accepted"` after Verify and Accept of a Processing
  transaction, and `"noop"` for one already Accepted (the switch has no
  case for it).
* **Spec-modelled** (the queue and the bootstrapper are not in `src/`):
  * `Push(t)`: a handler pushes the job and commits the queue before it
    returns; `Dependencies()` failing is fatal.
  * `StartExecute`: `checkFinish` starts `ExecuteAll` once a job can run.
  * `ExecuteNext(t)`: one iteration of `ExecuteAll`. On success the job
    leaves the queue and unblocks its dependants; an error stops the chain.
  * `BatchCommit` and `FinishExecute` are `ExecuteAll`'s commits.
  * `Crash`: the queue reloads its committed jobs, while the VM keeps the
    statuses it wrote.
* **Inputs**: the statuses at start (Processing or Accepted, with accepted
  transactions' dependencies accepted), and at most one fault (a status
  Unknown or Rejected, or `Dependencies`, `Verify` or `Accept` failing).
* **`MC_TxJob`**: four transactions in a diamond (t4 spends t2 and t3,
  which spend t1) and two restarts. This gives a shared dependency,
  dependencies accepted before the push, and a restart between an Accept
  and the commit of its removal.
* **Fairness**: weak fairness of `Push`, `StartExecute`, `ExecuteNext` and
  `FinishExecute`. The bootstrapper pushes every transaction it fetched and
  runs `checkFinish` after each handler, and `ExecuteAll` runs to the end.

## Runs

| Run | Configuration | Checks | Result |
|---|---|---|---|
| pollset_safety | `MC_PollSet.cfg` | FIFODelivery, EveryPollDelivered | pass, 51k states |
| bootstrap_safety | `MC_Bootstrapper.cfg` | RecoverableQueue, FailsOnlyWithoutBeacons, ImplementsChainBootstrap | pass, 167k states |
| bootstrap_stall | `MC_Bootstrapper_stall.cfg` | MissingRequested | **violated** (finding 1) |
| bootstrap_early_finish | `MC_Bootstrapper_finish.cfg` | CaughtUp | **violated** (finding 2) |
| chainmgr_safety | `MC_ChainManager.cfg` | ReadyMeansAllCreated, EveryChainBootstrapsUnlessStopped | pass, 16k states |
| chainmgr_subnet_gate | `MC_ChainManager_gate.cfg` | SubnetSynced | **violated** (finding 3) |
| chainmgr_stuck | `MC_ChainManager_stuck.cfg` | EveryChainBootstraps | **violated** (finding 4) |
| peers_weight | `MC_PeerTracker.cfg` | ConnectedWeightExact | pass, 2.4k states (up to symmetry) |
| peers_startup_wrap | `MC_PeerTracker_wrap.cfg` | StartupQuorum | **violated** (finding 5) |
| getter_ancestors | `MC_Getter.cfg` | AncestorsWellFormed, AncestorsBreadthFirst | pass, 226k states |
| txjob_recovery | `MC_TxJob.cfg` | AcceptOnce, RecoverableTxQueue, EveryTxAccepted | pass, 20k states |

**Properties**:
* **RecoverableQueue**: the parent of every pushed job is accepted, queued or
  missing. This holds in memory and in the committed state, so a crash or halt
  never strands a job.
* **FailsOnlyWithoutBeacons**: the handler fails with "no validators" only
  when no beacon is connected. `fetch` marks every peer it asks unavailable,
  so `fetchFrom` empties once each beacon serves a request, and the refill in
  `markUnavailable` (bootstrapper.go:376) is what keeps the chain going. The
  refill hands out peers that are already busy, which spec section 4.3 allows.
* **StartupQuorum**: when the startup tracker latches, the real connected
  stake is at least 3/4 of the beacons' weight. It is violated (finding 5).
* **ImplementsChainBootstrap**: the bootstrapper refines `ChainBootstrap`.
* **MissingRequested**: while fetching, every missing ID eventually has a
  request out; violated (finding 1).
* **CaughtUp**: OnFinished only runs with nothing missing or queued, and with
  the last frontier accepted.
* **ReadyMeansAllCreated**: when no chain is bootstrapping (the readiness
  check passes), no chain the P-chain asked for waits to be created.
* **EveryChainBootstrapsUnlessStopped**: if every bootstrapper finishes,
  every chain asked for leaves the queue and bootstrapping, unless the node
  shuts down or a stopped chain holds it back. The unconditional **EveryChainBootstraps** is violated
  (finding 4).
* **EveryPollDelivered**: every poll created is eventually returned.
* **SubnetSynced** (action): a chain enters consensus only when no sibling in
  its subnet is queued or bootstrapping (spec section 6).
* **ConnectedWeightExact**: the incrementally kept weight and connected
  validators equal the sum and set over the connected validators.
* **AncestorsWellFormed**: the answer starts at the requested vertex, has no
  duplicate, holds only stored ancestors and respects both size limits.
* **AncestorsBreadthFirst**: the answer is in non-decreasing distance and
  holds every stored ancestor nearer than its last vertex.
* **AcceptOnce**: no transaction is accepted twice, even when a restart
  re-runs a job whose Accept the VM kept.
* **RecoverableTxQueue**: in memory and in the committed queue, every ID a
  job waits for is queued or not accepted. A job never waits on an accepted
  transaction whose job is gone.
* **EveryTxAccepted**: every transaction is eventually accepted, unless a
  fault stops the chain.

### Findings

1. **Stall** (bootstrapper.go:350). `BatchedParseBlock` (bootstrapper.go:181)
   parses an answer's blocks into the VM before the handler checks them. An
   answer that fails to parse after the wanted block, or does not start with
   it, leaves the wanted block parsed but unprocessed; so does a walk that
   stops at an already-pushed job. When the wanted block is then fetched
   again, `fetch` sees it in the VM and only calls `checkFinish`, which
   returns because the ID is missing. No request is ever sent again.
   Shortest trace: after `ForceAccepted` asks for the tip, one invalid
   answer carrying the tip stalls bootstrapping, even with one block per
   answer.
2. **Early finish** (bootstrapper.go:578, 276). A late response after a
   `Restart(true)` makes `checkFinish` run in the frontier phase, executing 0
   blocks and setting `awaitingTimeout`. That timer fires during the next
   `ForceAccepted` and calls `OnFinished` while the new tip is still missing.
3. **Subnet gate** (manager.go:517). `unblockChains` creates the queued
   chains one by one. A chain created first can bootstrap, find its subnet
   (holding only the chains added so far) bootstrapped and enter consensus
   while a sibling from the same batch is not yet created. Trace: A and B are
   queued, the P-chain finishes, A is created, bootstraps and settles while B
   is still in the P-chain's loop.
4. **Stopped chain** (bootstrapper.go:355). A chain whose handler stops while
   bootstrapping never leaves its subnet's bootstrapping set; its siblings
   restart on every timer forever, and if it is the P-chain no queued chain is
   ever created. The spec says nothing of a stopped chain in a subnet.

5. **Startup threshold wrap** (manager.go:636, 837). The chain manager gives
   the startup tracker `(3*bootstrapWeight+3)/4`, computed in `uint64`. The
   validator set keeps the total weight within `uint64`, but for a beacon
   weight above (2^64-4)/3 the product wraps, and the threshold becomes
   small: bootstrapping starts with far less than 3/4 of the beacons'
   weight connected. In 4 bits, a beacon weight of 5 gives
   `(18 % 16) / 4 = 0`, so the tracker starts with nothing connected.

Spec section 8(b) says a transaction job whose dependency was rejected is
dropped and the batch continues. `Execute` returns an error instead
(tx_job.go:85, 92) that the caller cannot tell apart from a VM error, so
`TxJob` stops the chain there. No run is devoted to this, because the
queue's handling of the error is not in `src/`.

The spec's P5 (one request per peer) is not treated as a finding: the spec
allows a second request after `markUnavailable` refills `fetchFrom`.

### Bounds

* `MC_Bootstrapper.cfg`:
  * 2 beacons. With 2, the startup threshold is both beacons, and one beacon can
    serve while the other is busy or gone.
  * The chain grows from 2 to 4 blocks.
  * Ancestors of up to 3 blocks, truncated to 2 (`AncestorsMaxContainersReceived`).
  * 2 faults (empty or invalid answers, timeouts of connected peers,
    disconnects), enough for both beacons to disconnect.
  * 1 crash or halt.

  These bounds reach every phase: restart by the heuristic, the subnet timer,
  halt, crash and resume, and the fatal "no validators" error. Raising
  `MaxHeight` only lengthens walks.
* Bootstrapping's termination is not checked: finding 1 makes it false
  under any bound that lets an answer be invalid.

* `MC_ChainManager`: five chains in three subnets cover the whitelist skip,
  both build-error paths (critical and not), two chains of one subnet (for
  the gate), and requests before and after the P-chain finishes; 4 requests
  let the P-chain's VM ask for a chain twice.
* `MC_PollSet`: 3 polls with 2-bit IDs cover a poll finishing behind an
  older one and drops of both.
* `MC_TxJob`: the diamond has a dependency shared by two jobs and a job
  with two dependencies. Two restarts give a restart during the re-run
  after the first, and every
  single fault hits each position in the diamond.
* `MC_PeerTracker`: 4 nodes with 2 weights give every order of add, remove,
  change, connect and disconnect for up to four validators.
* `MC_Getter`: four vertices give diamonds (shared parents), chains of three
  levels and unknown vertices in between; `AncestorsMaxContainersSent` = 3
  cuts a walk of four vertices, and 9 bytes cut a walk whose vertices are
  2 bytes long (3 + 3 + 3 is not under 9).

### Fairness and why the code justifies it

* `WF(Start)`: the handler calls Start.
* `WF(Connected(p))`: beacons reconnect. A request to a disconnected peer fails
  and is resent to it until then.
* Weak fairness of `ForceAccepted` once in the frontier phase (the common
  bootstrapper gathers the frontier).
* Weak fairness of answers from connected peers (honest beacons answer;
  timeouts and faults are finite).
* `WF(Timeout)`: the timer fires.
* `WF(OthersBootstrapped)`: the other chains of the subnet finish.

Crashes, faults, new blocks and cache evictions get no fairness.

For `ForceAccepted` and the answers, weak fairness is written out as
`<>[]P => []<><<A>>_vars`, with `P` the state predicate equal to
`ENABLED <<A>>_vars`. For `ForceAccepted`, `P` is "phase is frontier". For the
answers, `P` is "a connected peer has a request". The equivalence was checked
with TLC over a small configuration's state space. This fairness serves
`bootstrap_stall`: the stall happens even though every request is answered.
TLC does not cache
operator arguments under ENABLED, which makes the direct form two orders of
magnitude slower.

`ChainManager` assumes weak fairness of each chain's `Finish`, `CreateNext`,
`Settle` and `Timeout` (a stopped chain runs none of them, hence the
exception in `EveryChainBootstrapsUnlessStopped`): each runs on the chain's own handler goroutine, and the timer fires. That `Finish` is eventually taken
is an assumption, not something the code guarantees: finding 1 shows a
bootstrapper that never finishes. The liveness of `ChainManager` is
therefore conditional on every bootstrapper finishing. Requests,
build errors and handler failures get none. `PeerTracker` and `Getter` check
safety only.

## What is not modelled, and the plan

Done: PollSet, Bootstrapper (all handlers except Clear) with its refinement
of ChainBootstrap, ChainManager composed with the per-chain bootstrap,
PeerTracker, the Avalanche getter's GetAncestors, the Avalanche tx job on
a spec-modelled queue, and the startup threshold's wrap.

Next, in order:

1. A crash inside the Snowman `ExecuteAll`. `TxJob` takes the batch-commit
   granularity of `ExecuteAll` from the spec, and the same could be done
   in Bootstrapper.
2. A platform-VM staker check: `AddDelegatorTx.SyntacticVerify`'s
   overflow-checked stake sum against the validator weight it then sets.
   This needs a run of its own, and the project uses its 12.

Not modelled:

* The benchlist manager (`src/snow/networking/benchlist/manager.go`) only
  registers a `benchlist.go` instance per chain and forwards calls to it.
  The benchlist itself is not in `src/`, and the spec does not describe it.
* The Avalanche serializer is codec and database plumbing.
* `txParser.Parse` decodes bytes.
* `Clear` (bootstrapper.go:380): its caller is not in `src/` and the spec
  does not mention it.
* The VM registerer (`vm_registerer.go`) calls `RegisterFactory`,
  `AddRoute` and `AddAliases`, none of which is in `src/` or in the spec.
  An error after `RegisterFactory` leaves a factory with no endpoints, but
  what a retry then does is decided by that missing code.
* The keystore service forwards to a keystore that is not in `src/`.
* The Avalanche vertex job is not in `src/`.

Also not modelled: the startup tracker and the subnet (not in `src/`; their
behaviour is spec-modelled inside Bootstrapper and ChainManager), the getter's
read-only handlers, transaction verification, codecs, gRPC, wallet and API
code (sequential data handling and I/O).
