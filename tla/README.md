# TLA+ models of the avalanchego 0.8.0 core

This directory holds the TLA+ models of the code under `src/`, the TLC
configurations that check them, and `PROJECT.json`. That file lists the
components, runs, bug variants (mutants), the source lines each definition
models, findings and hazards. Everything is checked with TLC:

    cd tla
    tlc -workers 2 -config MCBootstrap.cfg MCBootstrap

## 1. The system and its parts

`spec.md` describes the core of a node: the bootstrap engine (C8) and the
parts that serve it. Most files under `src/` are fragments of the full
repository. Several files concatenate more than one Go file; line numbers
below are per file.

| Part | Where | State and operations | Interacts with |
|---|---|---|---|
| Bootstrap engine (C8) | not under `src/`; its tests are in `src/unnamed/part_000` | accepted frontier, `needed` set, outstanding GetAncestors requests, job queue. Operations: ForceAccepted, MultiPut, GetAncestorsFailed, drain, onFinished | router (requests, timeouts), vertex store, job queue, beacons |
| Job queue (C6) | not under `src/` | vertex and tx jobs waiting on dependencies. Operations: push, execute when ready | engine |
| Router / timeouts (C7) | `src/snow/networking/router/router.go` (interfaces only) | request IDs, per-request timers. Operations: deliver or `*Failed` | engine, network |
| Vertex store (C4) | `src/snow/engine/common/config.go` lines 28-172 (`state`) | LRU cache shared by the chain, key/value database. Operations: Vertex, SetVertex, Status, SetStatus, Edge, SetEdge | engine, serializer |
| Alias registry (C1) | `src/version/version_test.go` lines 119-202 (`ids.Aliaser`) | `dealias`, `aliases`. Operations: Alias, RemoveAliases, Lookup, Aliases, PrimaryAlias | chain manager, API |
| Sampler (C3) | `src/utils/json/uint32.go` lines 42-106 (`uniformReplacer`) | length; Sample's defaultMap | validator sampling |
| AddDelegatorTx (C5) | `src/vms/platformvm/add_delegator_tx.go` | UTXO set, chain time, staker set, proposal with onCommit/onAbort states | P-chain VM, block commit/abort |
| AVM ExportTx, Tx, UTXOID, StakeableLock, BuildGenesis | `src/unnamed/part_001`, `part_002`, `part_005`, `src/vms/avm/prefixed_state_test.go` | verification, execution, shared memory put | X-chain VM, shared memory (C9) |
| UniqueBag, genesis, JSON ints, profiler, latency buckets | `src/ids/unique_bag.go`, `src/genesis/genesis.go`, `src/utils/json/*`, `src/unnamed/part_008`, `src/api/admin/performance.go`, `src/unnamed/part_007` | mostly pure functions; the profiler keeps one file pointer | API, node start-up |

The hard behaviours are:

- **Bootstrap:** byzantine and garbage answers, lost messages, timeouts racing
  late answers, retries, restarts with a partly filled store, and the
  requirement that bootstrapping eventually finishes.
- **Vertex store:** a write that fails halfway through (cache updated, the
  database not), cached misses, eviction and restart.
- **AddDelegatorTx:** value conservation across the commit and abort
  branches, conflicting transactions built from the same UTXOs, and the
  validator-period rules.
- **Sampler:** the int64 edge and the lazy swap of the shuffle.
- **Aliaser:** keeping its two maps consistent over long call sequences.

`PROJECT.json` lists each hazard at its source line, with the properties
that cover it.

## 2. Modules

The modules were built in this order, most important first.

### `Bootstrap.tla`, `BootstrapAbstract.tla`, `MCBootstrap.tla` (C8 + C6 + C7)

The engine code is not in `src/`, so `Bootstrap` is modelled from
spec.md 4.4-4.6. The test scenarios in `src/unnamed/part_000` fix the points
the spec leaves open.

- **State:**
  - `phase`;
  - vertex and tx statuses;
  - `queued` (vertices whose jobs were pushed);
  - `needed`;
  - `outstanding` requests;
  - the messages in flight: `requests` to beacons and `responses` (MultiPut);
  - `requestID`, `nextPeer` (the round-robin index), `faults` and
    `finished`.
- **Engine actions:**
  - `ForceAccepted`;
  - `Fetch(v)`, one GetAncestors to the next beacon;
  - `MultiPut(m)`, which drops unmatched answers, re-fetches when the first
    container is wrong, and otherwise parses at most `MaxContainers`
    containers (a garbage container drops the rest, only needed ones are
    promoted) and then walks to the parents (`Process`);
  - `GetAncestorsFailed(o)`;
  - `StartDraining`, `ExecuteTx(t)`, `ExecuteVtx(v)` and `Finish`.
- **Environment actions:**
  - `Reply(r)`: an honest beacon answers with a chain of ancestors; a
    byzantine beacon answers one or two arbitrary or garbage containers, or
    nothing;
  - `Lose`;
  - `EarlyTimeout(o)`: the timer fires before the answer arrives, and the
    answer then matches nothing.

`BootstrapAbstract` is what bootstrapping promises. Vertices of the
frontier's ancestry and their transactions are accepted one at a time, each
after what it depends on. `Complete` happens only when nothing more can be
accepted. `Bootstrap` maps to it with accepted statuses and `finished`, and
the run checks `Abstract!Spec` as a property.

### `VertexState.tla`, `MCVertexState.tla` (C4)

- **State:**
  - `cache[k]`: a value or `NotCached`;
  - `db[k]`: a value or `Absent`;
  - ghosts: `written[k]` (the last successful Set) and `observed` (what the
    last read returned).
- **Keys:** a key is a (namespace, id) pair, since callers keep the three
  namespaces apart by prefixing IDs.
- **Actions:**
  - the getters `Vertex`, `Status` and `Edge` share `Lookup` (a hit; or a
    database read, decode, and cache fill that includes misses);
  - the setters `SetVertex`, `SetStatus` and `SetEdge` share `Store` (cache
    first, then delete the zero value or write; the write may fail, bounded
    by `MaxFailures`);
  - `Evict(k)`: any entry may be pushed out, since the LRU cache is shared
    with every key of the chain;
  - `Restart`: empties the cache and keeps the database.

### `Aliaser.tla` (C1)

- **State:** `dealias` and `aliases`.
- **Actions:** `Alias` and `RemoveAliases` (Initialize is `Init`).
- **Operators:** the readers `Lookup`, `Aliases` and `PrimaryAlias`.
- **Atomicity:** every method holds the RWMutex for its whole body, so each
  method is one step.

### `UniqueBag.tla` (C1)

`ids.UniqueBag` (`src/ids/unique_bag.go`, lines 15-91): a map from an ID
to a BitSet of set IDs (the voters of a poll).
- **State:**
  - `bag`: the map, as a function whose domain is the keys present;
  - `votes`: not program state. It is the set of (set ID, ID) pairs the
    calls so far mean, and serves as the reference.
- **Actions:**
  - `Add(setID, idSet)`, through `UnionSet`;
  - `Union` (UnionSet);
  - `DifferenceSet`, which adds an absent key with the zero set;
  - `Difference(diff)`;
  - `RemoveSet`.
- **Operators:** `GetSet`, `List` and `Bag(alpha)`.
- **Modelled from what Go does:** `BitSet` and `ids.Bag.AddCount` are not
  under `src/`.
  - `BitAdd` ORs in `1 << i`, which is 0 at or above the width.
  - `Bag` skips counts of 0, as `AddCount` does.

### `MCIds.tla` (C1)

Instantiates `Aliaser` and `UniqueBag` side by side. They share no state,
and each step is a call on one of them.

### `Sampler.tla` (C3)

Words are scaled to `Width` bits (3 in the run), so `MaxInt64` = 3 and
`length - i` converts to a negative int64 exactly as in the code.

- **Actions:**
  - `InitializeStep(l)`;
  - `SampleStart(c)`, including the `errOutOfRange` path;
  - `SampleStep`, one loop iteration. The draw of `rand.Int63n` is
    nondeterministic, and a call with n <= 0 panics;
  - `SampleEnd`.
- **Reference:** `Runs` enumerates every result over every sequence of
  draws. `KSamples` is the set of samples without replacement, and
  `DrawPaths` counts the draw sequences.

### `AddDelegatorTx.tla`, `MCAddDelegatorTx.tla` (C5)

- **State:**
  - `utxos`: UTXO ID to amount;
  - `timestamp`;
  - `stakers`: committed delegators;
  - `issued`: transactions built or received and not yet proposed;
  - `proposal`: the tx and its onCommit and onAbort UTXO sets;
  - ghost `burned`;
  - `nextTx`.
- **Actions:**
  - `NewAddDelegatorTx`: vm.stake picks enough UTXOs, with change; the tx is
    issued if Verify passes;
  - `SemanticVerify(tx)`, which follows the code's order of checks: Verify
    with its Add64 stake loop, then the timestamp, then the current or
    pending validator period, then the flow check. It builds both outcome
    states.
  - `Commit` and `Abort`;
  - `AdvanceTime`.
- **Spec-modelled helpers** (not under `src/`, taken from spec.md 4.3):
  `vm.stake`, `semanticVerifySpend`, `produceOutputs`, `BoundedBy` and the
  advance-time tx.

### `Profiler.tla` (admin profiler)

`src/api/admin/performance.go`, one action per statement that touches
shared state, because `Performance` has no lock and admin API requests are
served on concurrent goroutines.
- **State:**
  - `field`: `p.cpuProfileFile`;
  - `running`: the file pprof writes a CPU profile to (pprof's own,
    locked state);
  - `open`: the files opened and not yet closed;
  - `pc[c]` and `file[c]`: each caller's next statement and local `file`.
- **Files:** a table of `MaxFiles` slots. os.Create hands out a slot that
  nothing refers to any more, and it may always fail instead.
- **Actions:**
  - `Call`: a CPU caller calls Start or Stop; a dump caller calls
    MemoryProfile or LockProfile;
  - Start: `StartCheck` (line 33), `StartCreate` (37),
    `StartProfile` (41-44, which closes the file when pprof is already
    running), `StartSetField` (45-47);
  - Stop: `StopCheck` (53), `StopProfile` (57), `StopClose` (58, which
    reads the field again), `StopClear` (59);
  - dumps: `MemoryCreate` and `LockCreate` (65 and 79), `WriteProfile`
    (70-72 and 85-87, closing the file on error) and `CloseProfile`
    (74 and 89).
- **Property:** `ProfilerStateAgrees`. Whenever every caller is idle,
  `cpuProfileFile` equals pprof's file, and nothing else is open.

### `AtomicExport.tla`, `MCAtomicExport.tla` (C5 + C9)

The AVM's `ExportTx` (`src/unnamed/part_001`, lines 22-125) on chain
`XChainID`, shared memory, and a chain `DestChainID` that imports from it.
- **State:**
  - `utxos`: the exporting chain's UTXOs, `(txID, index) -> [asset, amt]`;
  - `shared`: the elements Put in shared memory, `[chain, key, asset, amt]`;
  - `destUTXOs`: the importing chain's UTXOs;
  - `processing` and `imports`: issued, undecided txs on each chain;
  - `burned`, per asset; `nextTx`, the tx ID source;
  - ghosts `produced` and `nProduced`.
- **Actions:**
  - `IssueExport`: a wallet issues a tx whose inputs are a list of one or
    two UTXO IDs, in any order, repeats included, possibly with the empty
    tx ID (conflicts with other txs included), toward any destination (the empty ID, this chain, a chain
    of the subnet, a chain of another subnet). `Tx.SyntacticVerify` runs
    on parse and refuses a failing tx.
  - `DecideExport`: consensus decides a tx. If `SemanticVerify` passes
    against the UTXO set of that moment, the inputs are spent, the Outs
    produced at `(txID, k)`, and `ExportedElems` (ExecuteWithSideEffects)
    Put in shared memory, all in one step because Put takes the accepting
    batch. Otherwise the tx is rejected.
  - `IssueImport` and `DecideImport` (spec.md 4.7, not under `src/`): an
    import of DJTX elements is verified when issued and decided later,
    consuming its elements atomically if they are all still there.
- **UTXO IDs** (`src/unnamed/part_002`): `UTXOIDVerify` (`UTXOID.Verify`:
  the tx ID is not empty), `UTXOIDLess` (`innerSortUTXOIDs.Less`: by tx
  ID, then index) and `IsSortedAndUniqueUTXOIDs` (each ID Less than the
  next). The flow check applies them to the inputs, then sums the inputs
  as listed (`InAmount`), so uniqueness is the only thing that stops a
  UTXO listed twice from paying twice while it is spent once. The mutant
  that admits equal neighbours breaks `ValueConserved` in four steps.
  Note that TestTxInvalidUnsignedTx (`router.go` 144-198), which lists
  one UTXO twice, uses the empty tx ID, which `UTXOID.Verify` already
  rejects. That test therefore passes with or without the uniqueness
  check. The model gives issued txs IDs 1..MaxTxs and the genesis tx ID 9,
  so the two checks are told apart.
- **Spec-modelled helpers:** `djtx.VerifyTx` (the per-asset flow check),
  `BaseTx.SemanticVerify` (inputs unspent; credentials abstracted to a
  wallet that signs what it spends), the import side.

### `JsonUint.tla`, `MCJsonUint.tla` (JSON integer wrappers)

`Uint8`, `Uint16`, `Uint32` (`src/utils/json/uint8.go`, `uint32.go`) and
`Uint64` (`src/unnamed/part_008`) differ only in their maximum, so one
module covers all four, with the widths scaled (`Bits[t]`). A JSON text is
a sequence of one-character strings.
- **Conversions, by what they do:**
  - `Decimal`: strconv.FormatUint;
  - `ParseUint`: strconv.ParseUint(str, 10, 0), which gives a syntax error
    with 0, or a range error with the 64-bit maximum;
  - `Unquote`: the quote stripping;
  - `MarshalJSON` and `UnmarshalJSON`. UnmarshalJSON handles `null`, then
    the maximum check, and otherwise stores the conversion of the parsed
    value, even when ParseUint failed.
- **State:** the value `u[t]` of one variable per type, and `last` (the
  type, text and error of the last decode).
- **Action:** `Unmarshal(t, b)`, for each text of `Inputs`.
- **References in the properties:** `Denotes` reads a decimal as a sum of
  digit times power of ten, independently of `ParseUint`'s fold.

### `BuildGenesis.tla` (AVM genesis)

`StaticService.BuildGenesis` (`src/unnamed/part_001`, lines 171-289).
- **State:**
  - `args`: the call's argument, chosen in `Init`;
  - `pending`: the assets not yet visited;
  - `cur`, `types` and `outs`: the asset being built, its state types not
    yet visited, and `initialState.Outs` so far;
  - `txs`: `g.Txs`;
  - `result`.
- **Actions:** each is one map entry, so the iteration order is a free
  choice.
  - `NextAsset`: the range over GenesisData (lines 195-210);
  - `NextType`: the range over the InitialState (211-273), with the
    fixedCap, variableCap and unknown-type cases and their address errors;
  - `FinishAsset`: `initialState.Sort` and the append (274-278);
  - `Finish`: `g.Sort` and the reply (280-288).
- **Data:** an output is kept as its codec encoding, a sequence of numbers
  starting with the registered type ID, compared byte-wise (`BytesLess`).
- **Reference:** `Reference` builds the reply for one fixed order.

### `Genesis.tla`, `MCGenesis.tla` (network genesis)

`genesis.FromConfig` (`src/genesis/genesis.go`, lines 43-173) composed
with `BuildGenesis`, which it instantiates as `BG`.
- **State:** `BuildGenesis`'s variables, plus:
  - `config`: the configuration, or `NoConfig` for a client's direct call
    of the BuildGenesis API;
  - `supply`: `initialSupply`;
  - `pgenesis`: what FromConfig returns.
- **Actions:**
  - `Init`: `config.init` and the avm arguments (`AvmArgs`), with the
    X-chain part of the supply (`AvmSupply`, lines 52-79);
  - `BuildStep`: one step of `BuildGenesis`;
  - `PlatformGenesis`: the rest of FromConfig (lines 81-173):
    - an error from BuildGenesis is returned as is;
    - `DJTXAssetID` takes the first genesis tx;
    - each funded address gets a UTXO;
    - each staker becomes a validator rewarding
      `FundedAddresses[i % len]`, which panics when there are stakers
      and no funded addresses;
    - the supply is set (`PlatformSupply`).
- **Not modelled:** platformvm's BuildGenesis is not under `src/`. It is
  taken to encode what it is given.

## 3. Runs

| Run | Checks | Shows |
|---|---|---|
| `bootstrap_main` (`MCBootstrap.cfg`) | `TypeOK`, `NothingForgotten`, `Refinement`, `Termination` | The node restarts with `v1` stored but its parent `v0` not, and the frontier `v2` unknown. The walk from the frontier makes `v0` needed. Whatever the byzantine beacon answers, whatever is lost, and whenever timers fire, the engine accepts only what the abstract spec allows, in dependency order, and always calls onFinished. 19,712 distinct states. |
| `vertex_state` (`MCVertexState.cfg`) | `TypeOK`, `ReadYourWrites`, `CacheCoherent` | With successful writes, every read returns the last write, through cached misses, evictions and restarts. |
| `vertex_state_failed_write` (`MCVertexStateFailedWrite.cfg`, violation) | `CacheCoherent` | A single failed database write leaves the cache ahead of the database. |
| `ids_containers` (`MCIds.cfg`) | `AliasesAgree`, `VotesAgree` | Over all sequences of calls, Lookup and Aliases agree and no alias is given twice. The UniqueBag's BitSets hold exactly the votes made and not taken back. `Bag(alpha)` marks exactly the IDs with at least alpha distinct voters. 21,141 distinct states. |
| `sampler` (`MCSampler.cfg`) | `TypeOK`, `NoPanic`, `SampleIsUniform` | Sample never panics. For every accepted length and count, its draws map one to one onto the samples without replacement, so the sampler is uniform. |
| `add_delegator` (`MCAddDelegatorTx.cfg`) | `ValueConserved` | Builds, gossiped txs, conflicting spends, proposals, commits, aborts and time advances in any order. Value is conserved, and `burned` never goes negative, so no decided tx produces more (as outputs or as stake) than it consumes. This catches a proposal whose onCommit state keeps the stake outputs, and a flow check that leaves `tx.Stake` out (lines 152-157). 60,264 distinct states. |
| `profiler` (`MCProfiler.cfg`) | `ProfilerStateAgrees` | One CPU-profiler caller and one memory/lock caller, with any os.Create or profile write failing (pprof.StartCPUProfile cannot fail with one CPU caller, since it fails only while a profile runs): between calls the field always names the running profile, and no file leaks. 144 distinct states. |
| `profiler_concurrent` (`MCProfilerConcurrent.cfg`, violation) | `ProfilerStateAgrees` | Two concurrent CPU-profiler callers: Stop closes the file a concurrent Start just opened, and the profiler gets stuck (see Findings). |
| `atomic_export` (`MCAtomicExport.cfg`) | `ValueConserved`, `OutputIDsUnique` | Exports toward every kind of destination, conflicting exports, and competing imports of the same elements, in any order: per asset, value is neither created nor stranded in shared memory, `burned` never goes negative (no tx pays out more than its inputs, exported outputs included), and every output ID is fresh. The input lists include repeated, unordered and empty-tx-ID UTXO IDs. 28,877 distinct states. |
| `json_uint` (`MCJsonUint.cfg`) | `RoundTrip`, `NoSilentTruncation` | Every value of every width round-trips, the maximum included, and a decode that returns no error stores exactly the number written, over bare, quoted, over-long, zero-padded and malformed texts. 8,584 distinct states. |
| `build_genesis` (`MCGenesis.cfg`) | `OrderIndependent`, `SupplyAccounted` | Whatever order the runtime ranges over the assets and state types, the genesis is the same, or an error exactly when an entry is bad. This holds for direct API calls and for FromConfig's call. FromConfig's initial supply, from which staking rewards are later minted, equals what the X-chain outputs, P-chain UTXOs and validator stakes hold. 384 distinct states. |

Every property of a passing run has a bug variant in its module, defined just
before the definition it replaces: a dropped guard, a missing wrap-around, a
missing reset, or a wrong order. `PROJECT.json` "mutants" names them, and TLC
finds the property violated when the variant is substituted.

### Bounds and why they suffice

- **Bootstrap.** Four vertices: a chain `v0 <- v1 <- v2`, plus `v3`, which
  is outside the ancestry, so an answer containing it must never be
  accepted. Two txs, where `t1` in `v0` spends `t0` in `v2`, so a tx
  dependency crosses the vertex order. One honest and one byzantine beacon.
  The other bounds:
  - up to 3 containers per MultiPut;
  - 10 request IDs;
  - 2 faults: a lost message or an early timeout.

  The run starts as a restart with `v1` stored and `v0` not, which is the
  harder case. A fresh start differs only in fetching `v1` too, through the
  same fetch and walk. Every Next disjunct fires. With 8 request IDs or
  fewer, a run of byzantine answers and faults can exhaust the request IDs
  before the honest beacon's answer lands.
- **VertexState.** One ID in each of the three namespaces and one parsed
  vertex. Keys are independent apart from the shared cache, whose pressure
  is modelled by `Evict` on any key.
- **Aliaser.** Two IDs and four names: enough to reuse an alias after
  RemoveAliases and to give one ID three aliases.
- **UniqueBag.** Two IDs and 3-bit BitSets.
  - Set IDs are 0..2, all below the width. A set ID of 64 or more would
    be dropped by the shift (see the hazards).
  - Thresholds are 1 and 2.
  - Difference is given three bags: an empty one, one over one key, and
    one over both keys.
- **Sampler.** 3-bit words: lengths 0..3 are accepted and 4..7 are refused,
  counts run from -1 to 4, and every length gets the full reference check.
- **AddDelegatorTx.** Two genesis UTXOs (5 and 4), fee 1 and min stake 2.
  `nA` is a current validator over [0, 5]; `nB` is only a pending one over
  [2, 6]. Start and end times are {1, 3, 5}, and the chain time goes up
  to 3. There are two transactions built here, plus three received ones,
  as gossip may bring any well-encoded tx:
  - one claiming more weight than it stakes;
  - one whose stake outputs overflow the 3-bit word;
  - one that passes Verify but stakes 5 from an input of 4, which only the
    flow check over `Outs ++ Stake` refuses.

  `CHECK_DEADLOCK FALSE` is set because the model stops once its bounded
  workload is spent: all transactions built and decided, and the time at
  `MaxTime`. The chain itself does not stop.
- **Profiler.** A file table of 2 slots is enough for the running CPU
  profile plus one dump file, and a full table makes os.Create fail. The
  passing run has one caller of each kind, so the CPU calls are
  sequential. The violation needs only two CPU callers. No run stops,
  because an idle caller can always call again, so deadlock is checked.
- **AtomicExport.** Two genesis UTXOs (4 DJTX, 2 of another asset), fee
  1. Input lists are every list of one or two IDs drawn from the unspent
  UTXOs and `<<0, 0>>` (the empty tx ID), so a repeat and a wrong order
  both occur. Exports ask for 2 DJTX, 1 of the other asset, or 1 + 2 DJTX, with no
  change or 1 DJTX of change, so `len(Outs)` is 0 or 1 and an off-by-one
  in the index shows. Three txs: enough for two conflicting exports, or
  one export and two imports racing for its element. `CHECK_DEADLOCK
  FALSE` is set because the workload is bounded.
- **JsonUint.** `Uint8` at 2 bits and `Uint64` at 5 bits, so
  ParseUint's width exceeds the narrow type's, as 64 exceeds 8, 16 and
  32. The texts are every marshalled value and its bare form up to one past
  the 64-bit maximum, `100` (more digits), `"003"`, and malformed texts
  (empty, lone quotes, `-1`, a quoted `null`).
- **BuildGenesis.** Four argument sets: DJTX as FromConfig builds it
  (two holders out of address order, plus one minter set), a second asset
  with duplicate holders, an asset without initial state, a bad minter
  address, an unknown state type, and a fourth asset with both types.
  Four FromConfig configurations:
  - three stakers over two funded addresses, so the round robin wraps;
  - a staker with no funded address, which reaches the panic;
  - a funded address Bech32 rejects;
  - an empty configuration.

  `FundAmount` 5 and `StakeWeight` 2 stand for 5 MegaDjtx and 20
  KiloDjtx. A call ends, so `CHECK_DEADLOCK FALSE`.
- **Bootstrap runs.** They set `CHECK_DEADLOCK FALSE` because the engine
  really stops after onFinished.

### Fairness

- **Weak fairness, and why.** The engine's handlers and the beacons' replies
  are weakly fair. The router delivers every queued message to the chain's
  handler. The timeout manager fires every registered timer, which makes
  `GetAncestorsFailed` fair. An honest beacon answers the GetAncestors it
  holds.
- **Not fair.** Losses and early timeouts are faults: they are bounded by
  `MaxFaults` and never forced.
- **Other modules.** They check only safety properties and carry no
  fairness.

## 4. Findings

1. **Spec gap: bootstrap termination** (`bootstrap_missing_tx`). spec.md 4.6
   says bootstrapping completes only when every frontier ID is Accepted or
   Rejected. Spec.md 8 scenario 4 and `TestBootstrapperMissingTxDependency`
   (`src/unnamed/part_000:594-609`) require onFinished to fire with `vtx1`
   still Processing. The model follows the code, and TLC shows the
   contradiction.
2. **Code bug: failed writes leave the cache ahead of the database**
   (`vertex_state_failed_write`). SetVertex, SetStatus and SetEdge update
   the cache before the database write and keep the new value when the
   write fails. Reads then return a value that was never persisted, and
   they revert once the entry is evicted or the node restarts.
3. **Code bug: the CPU profiler has no lock** (`profiler_concurrent`).
   `Performance` reads and writes `cpuProfileFile` with no lock. In TLC's
   16-step trace, two Start calls both pass the nil check (line 33) and
   open files 1 and 2. The first starts pprof on file 1 and sets the
   field, and a Stop then stops pprof and closes file 1 (lines 57-58). The
   second Start now starts pprof on file 2 and sets the field (41-47),
   just before the Stop sets it to nil (line 59). pprof keeps writing to
   file 2, which nobody will close. From then on StopCPUProfiler returns
   errCPUProfilerNotRunning, and StartCPUProfiler fails inside pprof, so
   the profile can be neither stopped nor restarted until the node exits.
   Other orders have Stop's line 58 close the second Start's file under
   pprof. spec.md 9 asks that CPU profiler lifetimes be released on every
   exit path.

## 5. Not modelled, and why

- **Accepted-frontier discovery** (GetAcceptedFrontier / GetAccepted
  voting). The bootstrapper's code is not under `src/`. spec.md leaves the
  vote rule open (9, "Open question"): weighted or unweighted, and whether
  to vote after alpha responses or after all of them. The test helper
  sets `Alpha = len/2 + 1` over unit weights. A model would check a rule
  chosen here, not the program's, so it waits until the engine's code is
  available.
- **Job-queue persistence and `abandon`.** The queue is not under
  `src/`. spec.md 4.4 promises two things: at-most-once execution, and
  ready jobs that re-fire after a restart. It does not say whether a job's
  effects and its removal from the persisted queue are committed in one
  batch. A crash between the two is exactly where those promises could
  conflict, so the model would check an order chosen here, not the
  program's.
- **Stakeable locks** (`StakeableLockOut/In.Verify`, `src/unnamed/part_005`):
  these check a non-zero lock time and no nesting. AddDelegatorTx keeps
  its stake outputs as amounts. The outputs are built by `vm.stake`, which
  is not under `src/`, so a lock time would reach no property.
- **AVM Tx signing** (`SignSECP256K1Fx`, `SignNFTFx`): marshalling, hashing
  and signing, with no state a model tells apart.
- **Genesis:** the zero divisor at `genesis.go:124` is reached in the
  model, but no property forbids it. Whether it is a bug depends on
  `config.init`, which is not under `src/`. `Genesis(networkID)` and
  `VMGenesis` change no state. They call FromConfig and look up the
  decoded result, so the component counts as modelled.
- **Termination of the sequential functions** (FromConfig, BuildGenesis,
  Sample). Their loops range over finite maps and slices and end by their
  shape. A liveness property would hold whatever the loop bodies did, so
  none is stated. Liveness is checked where it depends on other actors:
  the bootstrap's `Termination`.
- **Flow balance in spec.md.** Section 8 (invariant 4) states
  `Σin = Σout + fee`, while 4.3 and the glossary state `Σin ≥ Σout + fee`.
  The verifier is not under `src/`. The models follow 4.3 and count the
  excess as burned (`burned` in AddDelegatorTx and AtomicExport).
  `ValueConserved` accounts for it and requires it to be non-negative.
- **Unit tests** (`part_003`, `part_004`, `part_006`, `operation_test.go`,
  `utxo_test.go`): fixed byte layouts and constant tables, no state.
- **Out of TLC's reach or without behaviour:** the codec, hashing, key
  management, the HTTP front-ends, the latency buckets (constant data) and
  the test helpers.

The map leaves some implementation lines unmapped. None of them changes
state:
- the `Router` interfaces (`router.go` 1-54);
- AVM tx unit tests (`router.go` 56-245), read only as evidence (see
  AtomicExport);
- `UniqueBag.String` and ID tests (`unique_bag.go` 92-157);
- the sampler header of `uint32.go`;
- `Uint32`'s UnmarshalJSON, the same code as `Uint8`'s, which
  `UnmarshalJSON` stands for with its width as a parameter;
- imports, constants, comments and the store's `Config` struct.

The components still marked partly modelled are partly modelled for these
reasons:
- their code is not under `src/` (bootstrap engine, job queue, router);
- what is left out changes no state a property could observe (stakeable
  lock checks, Tx signing).
