# Aardvark: TLA+ models, runs and proofs

Aardvark runs Python and JavaScript *bundles* inside pooled V8 isolates
(Pyodide for Python). A host opens a bundle, gets a pool of isolates or
runtimes for it, and calls handlers through it. Around that stand a staged
Pyodide distribution that engines verify and read, and a command line whose runs
share snapshots and overlays of installed packages. This directory models the
parts where sequences of calls, interleavings and failures decide whether the
program is right, checks the models with TLC on small instances, and proves
what matters most with TLAPS for every instance.

Paths below are relative to `src/crates/aardvark-core/src/` unless they start
with `src/`; those of the command line are under `src/crates/aardvark-cli/src/`.

## Reading order

1. `ResourcePool`, `RuntimePool`, `RuntimePoolProofs`: what a pool promises, the
   small pool that keeps the promise, and the proof that it does.
2. `BundlePool`, `BundlePoolProofs`: the large pool, and why no isolate is shared
   or lost in it.
3. `Registry`, `PoolRegistry`, `WarmedHosts`: who creates a pool or a host, and
   for whom.
4. `Bundles`: from an archive and a configuration to the plan of a call.
5. `Isolate`: what a handler finds in the engine when it runs.
6. `Session`: what a call meets, may do, reports and returns.
7. `Watchdog`: the one place where a second thread touches an isolate.
8. `Distribution`, `Overlay`: files that several processes share.
9. `Subsequences`: what retaining and sorting do to a sequence, for the modules
   with stacks, orders and lists in them.

`MC*.tla` and `MC*.cfg` are the instances TLC checks, `*Proofs.tla` the theorems.
A definition whose comment starts with "Mutant:" is a faulty variant of the
definition after it; it is not part of any specification. Replacing the
definition by it must make TLC find a violation, which shows that the property
named in `PROJECT.json` depends on that code.

## Inventory

| Component | State | Operations | Talks to | Hard behaviour | What makes it correct |
|---|---|---|---|---|---|
| `PyRuntimePool` (`pool.rs`) | queue of runtimes, `total`, next id; a mutex and a condvar | `checkout`, `run_session` on a handle, drop of the handle | builds and resets `PyRuntime` with the lock released | failing creations and resets, notifies after the unlock, callers that overtake | exclusive checkout, capacity, clean reuse, no lost wake-up |
| `BundlePool` (`persistent/pool/`) | slot vector with holes, idle stack, `active`, `creating`, `waiting`, options under their own lock | `call_*`, `prepare_handler`, `prewarm_*`, `warm_all_*`, `resize`, `set_desired_size`, `stats` | spawns `PythonIsolate`s with no lock held, telemetry hooks | lazy growth, two queue modes, quarantine by guard rails, shrinking while others create | one call per isolate, none lost, size limits, nobody stranded |
| `BundlePoolRegistry` (`persistent/pool/registry.rs`) | pools by key (with creations in flight), cache of prepared handlers, cache of artifacts | `pool_for_*`, `prepare_handler_for_*`, `get`, `remove` | `BundlePool::new`, `prepare_handler` | single flight, publication after an unlock, removal beside both | one creator per key, no silent replacement, caches that agree |
| `WarmedBundleHostRegistry` (`persistent/warmed_host.rs`) | two LRU caches (parsed archives, hosts), generation counter | `host_for_*`, `ready_host_for_*`, `remove_for_*`, `clear` | parses archives, boots hosts | two locks, evictions, `clear` beside creations | the orders match the caches, limits, nothing from before a clear |
| Wall-clock watchdog (`runtime/watchdog.rs`) | one thread per limited call, a channel, a flag, V8's termination request | arm, `complete`, drop | V8 `terminate_execution` | a late thread, a hook that fails while it is armed | timeouts are reported, nobody else is stopped |
| `AardvarkRuntime` (`runtime/`) | engine, `environment_ready`, `warm_restored`, `current_bundle`, policies in force | prepare, run, reset (two ways), capture a warm state | `PythonEngine`, `JavaScriptEngine`, strategies | steps that fail half-way, language switches, flags kept across calls | a session runs in its own files and policies |
| `PythonIsolate` (`persistent/isolate.rs`) | runtime, `loaded_fingerprint` | `load_bundle`, `invoke*`, `prewarm_handler`, `run_inline_python` | `AardvarkRuntime`, which the host can also reach through `runtime()` | the hot path trusts the fingerprint | the fingerprint names what is really loaded |
| Artifacts, prepared handlers (`persistent/artifact.rs`) | immutable | compute fingerprints | carried by pools and registries | none | equal contents, equal key |
| Bundles, manifests (`bundle.rs`, `bundle_manifest.rs`) | immutable | unzip with limits, normalise paths, validate | read by prepare | boundaries of limits, path forms | no path leaves the root, defaults are applied once |
| Configuration, outcomes (`config.rs`, `invocation.rs`, `outcome.rs`) | plain data | merge limits, classify failures | read by execution | order of the budget checks | the tightest limit wins |
| Network policy (`network.rs`, `engine/native_fetch.rs`) | allow-list, https-only, contact and denial records | `evaluate`, native fetch | set by prepare | host patterns, default ports, records made between calls | nothing outside the list is contacted |
| Filesystem policy (`engine/filesystem.rs`, `js/pyodide_emscripten_setup.js`) | mode, quota, usage | write, unlink, rename, reset | set by prepare, cleared by cleanup | accounting over overwrites and failures, changes the guards do not see | a guarded write never goes past the quota, the count is never below the files unless one grew unguarded |
| Host capabilities (`engine/host_*.rs`) | capability set, callbacks | set, call | set by prepare | stale sets between bundles | see `Isolate` (policy) |
| Shared buffers (`engine/shared_buffers.rs`, `host.rs`) | id to buffer map | publish, take, reset | results, cleanup | a taken buffer, a failed call | every buffer is delivered or freed once |
| Strategies, RawCtx (`strategy/`) | wrapper cache, layouts | pre, invoke, post hooks | run by execution | order of the hooks, cached wrappers | a wrapper belongs to its handler |
| V8 embedding (`engine.rs`, `engine/`) | V8 context, module cache | reset, evaluate, mount | all of the above | glue | see `Isolate` |
| Guest scripts (`js/`, `py/`) | `sys.modules`, entrypoint cache, import patches | resolve, purge | run by the engine | keyed by name only | see `Isolate` (code) |
| Distribution, staging (`pyodide_distribution/`) | staged directory and its manifest; per process: what was verified, cached assets, cached metadata | stage, remove, verify, read | engines boot from it | crash between steps, two processes, caches over a directory that changes | a directory that is accepted is whole, and engines run what was verified |
| Assets (`asset_store.rs`, `assets.rs`) | embedded files | look up | engine | none | |
| CLI overlays and snapshots (`main.rs`, `overlay/`) | catalog index, blob cache, sidecar, memory image and its metadata | restore, hydrate, export, enforce the cache policy, save a snapshot | file system, the guest's packages | concurrent processes without a lock, kills, deletion by hand | nothing is used for another distribution, an image matches its metadata, index and blobs agree |
| CLI, compatibility and performance runners, xtask | none | parse, print, benchmark | core crate | none | |

### How they interact

A host asks a registry for a pool or a warmed host; the registry creates it
once per key and hands out shared handles. A pool lends an isolate to each call
and takes it back, or quarantines it. The isolate compares the bundle's
fingerprint with the one loaded last and, when they differ, prepares its
runtime: engine, environment, policies, files. Then it runs the handler under
budgets; the watchdog's thread may interrupt it. Afterwards the reset policy
and the cleanup mode say what is undone. `PyRuntimePool` is the older, separate
route to a runtime.

The models meet at these seams. `RuntimePool` and `BundlePool` treat an isolate
as a number and say who holds it when; `Isolate` and `Session` say what happens
inside one that is held, and are sequential because of it; `Watchdog` relies on
calls of one isolate coming one after the other, which is what
`ExclusiveCheckout` and, in `BundlePool`, the mutex of each isolate provide.
`Isolate` covers the life of the engine (boot, mounts, resets, languages) and
treats a run as one step; `Session` keeps the engine and opens that step up.
`Bundles` ends with the plan of a call, which `Isolate` and `Session` take as
given. The registries' keys are the fingerprints of `Bundles`
(`SameFingerprintSameBundle`). `Distribution` ends where an engine has its
assets; `Overlay` begins with a command's engine.

### Threads

V8 isolates are not `Send`, so safe Rust keeps a pool's handles on one thread,
while the documentation describes host threads that share a pool and the code
guards everything with mutexes and condvars. The models take the code at its
word: `Callers` are host threads inside one pool or registry. What a run finds
about them holds for every interleaving of these locks; with a single thread
only the sequential part of it can occur. The watchdog is the one thread that
runs concurrently in every build. The findings say when they need two threads.

## Modules and code

| Module | Code | One step is |
|---|---|---|
| `ResourcePool` | none: the promise of a pool | taking, making, using, cleaning, giving back or discarding one resource |
| `RuntimePool` | `pool.rs` | what happens under one hold of the mutex; building, resetting and the notify after the unlock are steps of their own |
| `BundlePool` | `persistent/pool/inner.rs`, `api.rs` | what happens under one hold of the state lock or of the options lock |
| `Registry` | what the next two have in common: callers, keys, the creation under way, the condvar | |
| `PoolRegistry` | `persistent/pool/registry.rs` | one hold of a map's lock, or work done with none |
| `WarmedHosts` | `persistent/warmed_host.rs` | one hold of a cache's lock, or work done with none |
| `Watchdog` | `runtime/watchdog.rs`, the part of `runtime/execution.rs` and `runtime/mod.rs` around it | one access to the channel, the flag or V8's request |
| `Isolate` | `persistent/isolate.rs`, `runtime/` | one step of a call that can fail on its own; one thread |
| `Session` | `runtime/sessions.rs`, `execution.rs`, `engine/`, `strategy/`, `network.rs`, `js/`, `py/entrypoint_helper.py` | one phase of a call, or one thing the guest does in it; one thread |
| `Bundles` | `bundle.rs`, `bundle_manifest.rs`, `config.rs`, `invocation.rs`, `persistent/artifact.rs`, `inline.rs` | one record of an archive read, or one call of the host |
| `Distribution` | `pyodide_distribution.rs`, `pyodide_distribution/staging.rs`, `package_metadata.rs`, `pyodide.rs` | one file operation of a staging command, one read or cache access of an engine |
| `Overlay` | the command line's `main.rs`, `overlay.rs`, `overlay/` | one file operation of a command, or a phase between two of them |
| `Subsequences` | `Vec::retain` and `sort_unstable`, as the code uses them | none: operators |

`PROJECT.json` maps each definition to its lines.

- **ResourcePool.** `idle`, `owned` and `used` are all a client can tell of a
  pool. `RuntimePool` instantiates it with the queue, what callers own, `dirty`,
  and cleaning required under `ResetPolicy::Manual`. A creation is `Make` when it
  is reserved, a failing creation or reset is `Discard`.
- **RuntimePool.** `queue`, `total`, `nextId` are the fields of the pool;
  `waiters` the condvar's queue (parking_lot wakes the longest waiter), `pc`, `cur`
  and `held` where a caller stands and what it holds. `dirty` is history: the
  runtimes in which handler code ran since their last reset.
- **BundlePool.** `slots` is the vector of optional isolates with its holes,
  `idle` the stack of indices, `active`, `creating`, `waiting` the counters;
  `limit` is the copy of an option a caller works with after the options lock
  is released. `leases` are the guards: an index and the isolate found there.
  `trimmed` is history: a reserved slot has been cut off the vector, which is
  the defect described below; the properties say what holds until then.
  `AdmissionIsSound` says that the counters admission is decided on are those of
  the callers, always, and that the size limit holds while nobody changes it.
- **PoolRegistry, WarmedHosts.** `pools` and `hosts` hold an entry, a mark for
  a creation under way, or nothing. `startedIn` in `WarmedHosts` is history:
  the generation in which a host's creation started.
- **Watchdog.** `cancelled`, `fired` and `requests` are the channel, the flag
  and V8's pending request; `overran`, `stoppedBy` and `late` are history. V8's
  part (a request unwinds what runs and is consumed) is external. A guest that
  was stopped may end as an Err or, in the JavaScript strategy, as an Ok with an
  exception, after which the post hooks run; whether they then fail is open.
- **Isolate.** `engine`, `booted`, `app`, `code` and `policy` are what is really
  in the engine, each named by the bundle it comes from; `ready`, `current`,
  `warmRestored` and `fingerprint` are what the code believes. The properties
  relate the two. `upset` is history: incidents between preparations.
- **Session.** `policy`, `size`, `records`, `buffers`, the inputs and the
  wrapper are what the engine and the guest hold across calls, each value named
  by the call it comes from; `call` and `outcome` are the call under way and
  what the host gets. `did` and `seen` are history: what a handler did and met.
  `ChangeFile` is a change the bootstrap guards (write, unlink, rmdir, truncate
  of a path), `ChangeUnguarded` one it does not (opening with truncation,
  `ftruncate`, renames); `slipped` is history: a file grew unguarded since the
  files were last counted. A rename inside the root moves bytes from one file to
  another: it is two unguarded changes. Code a module runs while its entrypoint
  is resolved is not a guest step. Hosts, bodies and files are small values; a
  request is judged by the code's own patterns, ports and schemes.
- **Bundles.** An archive is a sequence of records, each with a path (a sequence
  of components), a declared and a real size. A word of a manifest is its
  lower-case key, its spelling, and whether it has blanks around it. What
  `Bundle::fingerprint` hashes is modelled as it is: the bytes of path, length
  and contents of each record, in the order of a stable sort by path (`Hashed`);
  these bytes stand for their hash, that is, 8 bytes of BLAKE3 are taken as
  injective. How a path, a length and contents are written as bytes is given by
  constants, of which `EncodingAssumption` says that each tells its arguments
  apart and that lengths have a fixed width. The name of a module's file is
  given by `FileOf`, since a component is not taken apart. `BundlesAssumption` says
  that inline manifests are of their type, that sizes and limits are within
  `u64`, and that the components of module names, and of their files, are no
  path syntax: names with a slash in them are not covered. A host reads bundles,
  then configures, then runs one session; the three kinds of call share no state
  in the other direction, so other orders give nothing new.
- **Distribution.** The content of a file is the variant it comes from, or that
  it was cut short. Four parts stand for all files: the lockfile, the copied
  assets, the wheels, and the one file that is generated from another.
  `verified`, `assetCache` and `metadataCache` are the caches of a host process.
  `overlapped` and `raced` are history: two commands worked at a time; the
  directory was written while an engine read it.
- **Overlay.** A blob is the package in it and the distribution it was made
  with. `cache` is in order of age; a blob under way is marked with its writer.
  One cache root and one snapshot path are assumed, and reading several blobs is
  one step. Packages are in the lockfile or not (`Locked`), and of those in it
  the guest's loader installs some (`Installable`); it warns about the others
  and passes over them. The distributions share one lockfile. An overlay of a
  package is one blob, although two exports of it differ in the times of its
  files (`js/pyodide_bootstrap.js:857`). `mixed` and `disturbed` are history: a
  save of the image was cut, failed at the metadata or overlapped; the catalog
  was left half-way or touched by hand.

## Runs

All bounds are constants of the modules, named in the comments there.

| Run | Instance | States | Shows |
|---|---|---|---|
| `runtime_pool` | 3 callers, 2 runtimes, 2 failed creations, 2 failed resets | 12 564 | exclusive checkout, no lost wake-up, every parked caller is woken unless failed creations have used up every place, the abstract pool is implemented |
| `bundle_pool_contended` | 3 callers, 2 isolates, 1 failed creation, both queue modes, a queue of 1 | 151 834 | the counters that admission is decided on, the size limit over racing spawns, who may be left parked, wake-ups |
| `bundle_pool_all_operations` | 2 callers, 2 isolates, queue mode `Block`, 2 breaches of a guard rail, warm-ups, 1 change of size to 0 or 1, 1 failed creation | 2 459 498 | no isolate is shared or lost and nobody panics, over every operation, as long as no reserved slot is cut off; shrinking drops the newest isolates, or refuses because one of those is in use |
| `bundle_pool_shared_slot` | 3 callers, 2 isolates, 1 breach | violation | finding, see below |
| `pool_registry` | 3 callers, 2 keys, 1 failure, 1 removal | 459 976 | single flight, no replacement of pools or handlers, wake-ups |
| `warmed_hosts` | 2 callers, 3 archives of 2 bundles, room for 1 host and 2 artifacts, 1 failure, 2 removals or clears | 562 377 | the LRU orders match their caches within the limits, nothing from before a clear is published, single flight, wake-ups |
| `watchdog` | 3 invocations, their 3 threads | 47 659 | a guest stopped by its own watchdog never ends as if it had returned, who may stop whom, a guest that never returns is stopped |
| `isolate` | 2 Python bundles, a JavaScript one, an inline script; 2 failing steps, 2 resets or captures; 2 cleanup modes, both reset policies | 3 016 700 | which incidents can spoil files, policies, code and flags, and that nothing else can |
| `session` | 2 bundles, 2 calls, 2 guest steps between them, 1 failure, 1 file of at most 2 | 2 499 793 | reports, buffers, inputs and wrappers are the call's own; what is past the quota got there unguarded; policies follow the manifest prepared last |
| `bundles` | 2 bundles out of 19 archives and 2 inline modules, sizes up to 7, 2 profiles | 260 703 | archive limits, fingerprints, inline modules, hot path and cold path, profiles |
| `distribution` | 2 staging commands, 2 engines, 2 variants, 1 kill, failure or restart | 2 132 412 | what a verification may accept, what an engine runs, equal bytes for equal manifests |
| `overlay` | 3 commands, 2 at a time, 4 packages, 2 distributions, 1 kill, failure or deletion | 1 257 003 | nothing of another distribution is used, images match, the catalog, which packages may be missing |

The finding: in `bundle_pool_shared_slot` a quarantine cuts off a slot that
another caller has reserved (`persistent/pool/inner.rs:490`); two callers end up
with a guard of one isolate, and the slots no longer match what the pool counts.
Their handlers still run one after the other, on the isolate's mutex. It needs
two threads in one pool. The other disagreements between code and text are
listed further down.

### Why these bounds

The pools' properties relate two callers, or a caller and what a third did in
between: three callers give a waiter, a holder and one that overtakes, and two
places give full, partly full and empty pools. `bundle_pool_all_operations`
takes two callers because every operation of it is enabled then (a call, and a
quarantine, warm-up or resize beside it), and three would leave TLC's reach; the
contended run has the third caller and both queue modes. A shrink to no isolate
takes both, one to one isolate has to choose. A failed creation costs
`BundlePool` no place for good, and a registry makes the entry anew, so one
failure brings each of their error paths about at every moment. `RuntimePool`
loses a place with each failed creation, so there it takes as many as there are
places; after those nobody can be served, which `WaitersWoken` exempts
(`CapacityLost`). The registries need two keys to tell callers of one key from
those of another, and `warmed_hosts` room for one host so that a second evicts
the first, and three archives so that two have one key. The watchdog needs an
invocation, its successor, and one more for a request that outlives two. The
isolate's incidents are combinations of at most two failing steps and two
resets; with two of each the exemptions in the properties are exactly those TLC
asks for.

A session's properties relate a call to the one before, so two calls and two
bundles; guests take two steps in all (`MaxSteps` counts them over the whole
behaviour), both in one call or one in each, so that something is recorded or
provided before and after another thing fails. The file sizes cross the quota
exactly and by one; a write, an unguarded change and a refused write after it
are three steps, which only the proof covers. The archives of `bundles` declare
too little, too much and the right size around a limit, repeat a path after
normalisation and leave the root; a second bundle is what fingerprints are
compared with, and one archive has a single file whose path, length and contents
are the bytes of two files of another. Two stagers and two engines are the least
that can overlap; the two variants differ in whether there are wheels. Two
commands at a time and a third after them let one clean up, or trip over, what
the others left; one kill, failure or deletion can fall between any two steps.
Of the packages one needs others, which tells what was asked for from what came
along, one is in the lockfile but not installable, and one is not in it.

### Fairness

`WF` of the steps of a caller who is inside the pool or registry: a running
thread goes on, a creation ends with Ok or Err, a handler returns. Nothing is
assumed about callers that are outside: they need not call again. In
`RuntimePool` every handle is dropped some day (it is a scoped value). In
`Watchdog` the clock runs, V8 answers a request (`GuestInterrupted`) and the
host side goes on; a guest need not return by itself. No strong fairness is
used: a woken caller may lose the race and park again, so the liveness
properties promise a wake-up and not an isolate, as the code does.
`Isolate`, `Session` and `Bundles` have no liveness property: one thread, every
step ends. `Distribution` and `Overlay` have none either: commands may be killed
and need not be run again, and nobody waits for anybody.

### Where a run may stop

Deadlock is checked where callers could block each other (`BundlePool` and the
registries). It is off where a bound on calls, starts or invocations is the end
of a behaviour: `watchdog`, `session`, `bundles`, `distribution`, `overlay`; and
in `isolate`, where a panicking call is the end. It is off in `runtime_pool`
too: once failed creations have used up every place, all callers may be parked
for good. Any other way of getting stuck there `WaitersWoken` excludes.

## Proofs

Each theorem holds for every finite or infinite choice of the constants that the
module's named assumptions (`RuntimePoolAssumption`, ..., `OverlayAssumption`,
and `EncodingAssumption` of `Bundles`, `LockfileAssumption` of `Overlay`) allow;
these assumptions are all the proofs rest on, and TLC evaluates them in the
runs. A theorem that names a property of a run is marked with a star.

| Module | Theorems |
|---|---|
| `RuntimePoolProofs` | `TypeCorrect`, `CheckoutIsExclusive` (* `ExclusiveCheckout`), `CapacityIsRespected`, `ReuseIsClean` (under `ResetPolicy::Manual`), `WakeupsAreNotLost` (* `NoLostWakeup`), `PoolIsImplemented` (* `ImplementsPool`, the refinement of `ResourcePool`) |
| `BundlePoolProofs` | `Invariance`, `PoolSound` (* `SoundUnlessTrimmed`), `AdmissionSound` (* `AdmissionIsSound`), `NobodyStranded` (* `StrandedOnlyByFailure`), `ShrinkingKeepsOldest` (* `ShrinkKeepsOldest`, an action property) |
| `RegistryProofs`, of `PoolRegistry` | `PoolsTypeCorrect`, `PoolsOneCreator` (* `OneCreatorPerPool`), `EntriesStay` (* `NothingIsReplaced`, an action property) |
| `RegistryProofs`, of `WarmedHosts` | `TypeCorrect`, `OneCreator` (* `OneCreatorPerKey`), `ClearIsFinal` (* `NothingFromBeforeClear`), `CachesStayConsistent` (* `CachesConsistent`) |
| `RegistryProofs`, of `Bundles` | `BundlesInvariance`, `ReadingKeepsLimits` (* `WithinLimits`), `FingerprintsTellBundles` (* `SameFingerprintSameBundle`), `InlineStaysImportable` (* `InlineIsImportable`), `HotSessionsAreCold` (* `HotIsCold`), `BundlesRunOnTheirProfile` (* `RunsOnRequestedProfile`) |
| `InvocationProofs`, of `Watchdog` | `WatchdogTypeCorrect`, `TimeoutsReported` (* `TimeoutsAreReported`), `InterruptsExplained` (* `InterruptsAreExplained`) |
| `InvocationProofs`, of `Session` | `ReportsAreOwn` (* `ReportsMatchCall`), `PayloadsAreOwn` (* `OutputsAreOwn`), `ManifestsAreKept` (* `UnderOwnManifest`), `HandlerSeesItsOwn` (* `SeesOwnCall`), `QuotaIsKept` (* `GrowsWithinQuota`, an action property) |
| `IsolateProofs` | `TypeCorrect`, `PreparedUnderPolicy` (* `PreparedUnderOwnPolicy`), `RunsMaterialised` (* `RunsAsMaterialised`), `OwnCode` (* `RunsOwnCode`), `FlagsTrue` (* `FlagsAreTrue`) |
| `DistributionProofs` | `TypeCorrect`, `WholeImages` (* `VerifiedIsWhole`), `RunsVerified` (* `RunsWhatWasVerified`), `SameBytes` (* `SameBytesPerKey`) |
| `OverlayProofs` | `TypeCorrect`, `Compatible` (* `CompatibleOnly`), `NothingMissing` (* `MissingOnlyAfterImport`), `ImagesMatch` (* `ImagesMatchUnlessMixed`), `CatalogStaysSound` (* `CatalogSound`) |
| `SubsequenceProofs` | lemmas only: finite sets of positions, `Kept`, `KeptEnds`, `Retained`, `Without`, `SortedBy`, `Sorted`, `CountingUp` |

Every safety invariant and every action property that a run checks is proved.
`RegistryProofs` and `InvocationProofs` each hold the proofs of components that
are used together; a theorem in them is about the specification of one.

None of the properties is inductive alone. What is needed is joined in `IInv`
(`PoolsInv`, `BundlesInv`, `WatchdogInv` where a module proves more than one
component), which TLC checked on the instance of the run before it was proved.

- **RuntimePool.** `IInv` adds `Parked` (the condvar's queue lists exactly the
  callers that wait), `IdsFresh` (an id in use is below `nextId`, so a new
  runtime is really new), `Counted` (`total` covers the runtimes that live:
  capacity follows from it) and `ReturnsClean` (a runtime on its way back is
  clean once its reset is over). Effect lemmas say once what an action does to
  the queue, the owners and the awake callers; the step lemmas then take each
  conjunct over the actions. `WakeupStep` is the argument of interest: each
  action that makes a runtime available owes a notify, each notify adds an awake
  caller, and each awake caller that leaves took something or found nothing. The
  refinement maps each step to a step of `ResourcePool` or a stutter under the
  same invariant: `Counted` gives the room `Make` asks for, `IdsFresh` the new
  resource, `ReturnsClean` the guard of `GiveBack`.
- **BundlePool.** The heart is `Placed`: each slot with an isolate is on the
  idle stack, once, or behind one guard, and no other slot is; a guard's slot
  holds the isolate the guard was made for. With it go `Reserved` (each caller
  that creates has an empty slot of its own), `active` as the number of slots
  with an isolate, and isolate numbers that are new when they are given
  (`Numbered`); all of this until a reserved slot is cut off (`trimmed`).
  `Control` says what a caller carries at each stage, `Parked` that the condvar
  lists exactly the parked. `CallersCounted` holds always: `waiting` and
  `creating` are the callers at these stages. `Unadjusted` gives the size limit,
  since a caller reserves with the limit it has read. For
  `StrandedOnlyByFailure` it was not enough that awake callers cover what is
  available: `NothingLeft` adds that the idle isolates are covered by callers
  that will look at the idle stack, as one that is about to spawn takes none of
  them. `ShrinkKeepsOldest` is about the list `shrink_to` walks: the live slots
  sorted by isolate number, newest first, of which a prefix goes. That the sort
  is a permutation in order (`SortedByFacts`) gives that what goes is above what
  stays, and a refusal points at a slot of the prefix that a guard holds. That a
  step of one caller leaves another's stage alone, up to a wake-up, is shown
  once (`SameFor`), and most of the steps follow from it.
- **PoolRegistry, WarmedHosts.** A slot is marked exactly while somebody creates
  its entry (`Marked`, `PoolsMarked`), by one caller (`Alone`), and a notify
  wakes only callers that are parked (`Parked`). `WarmedHosts` adds `OwnMark`:
  the generation in a slot is the one its creator started in, which is what
  makes a clear final. Most actions are one of a few shapes (a caller that
  moves, one that asks), and each shape is treated once. For the caches, an
  order lists its cache without repetition (`LruOrder`) through a touch, an
  eviction, a removal; an eviction takes the first of the order, as many as
  exceed the limit, and what is left is what is listed still.
- **Bundles.** While an archive is read, `total` is the size of what has been
  read and each addition was compared before it was made, so nothing saturates
  below the limit (`InLimits`, `AcceptedFits`); the number of files is bounded
  by the records that are left. A name's path has, after each component, as many
  components as were entered and not left again, and once outside it stays
  outside (`AcceptedNamesStayInside`). Hashed bytes are taken apart record by
  record (`HashedSteps`): where neither path goes on with the bytes of the
  other's length, equal bytes mean equal paths, lengths and contents
  (`EncodingTells`), and so on to the end (`FingerprintTells`). The sort is
  stable, so the files of one path keep their order (`SameInOrder`), and the
  first, which is read as the manifest, and the last, which is mounted, are the
  same (`FirstAndLast`). An inline bundle is followed from its records to its
  entries (`ReadingInline`, `BundlesRead`): its names are plain, so paths are
  names, and normalising a manifest twice is normalising it once
  (`NormalizeOnce`), which is why what is read back is what was written. What a
  selection sets is kept as `BySelected` from the configuration into the
  runtime. A handler's descriptor is the merge of what it was asked for and its
  artifact's defaults until the host edits it (`HandlerOf`), and that merge
  plans as the manifest does (`DefaultsAgree`).
- **Watchdog.** Who is in flight or requested is the invocation under way or one
  in `late` (`Explained`); a thread can expire only before its cancel is sent
  (`Armed`); a guest its own watchdog stopped has its flag set, which `complete`
  has still to read or has read, unless a hook failed first (`Reported`).
- **Isolate.** `Stepwise` says what each step of a preparation leaves to the
  next; `Flags`, `Hooked`, `Materialised` and `OwnModule` are the properties made
  strong enough to survive the steps in between: what the code believes (flags,
  fingerprint) is true of the engine unless one of the named incidents
  happened. Thirty lemmas, one per action.
- **Session.** What is recorded from a handler's start on is what it does
  (`Recorded`), an outcome grows with its call (`Collected`), and the network
  policy is that of the bundle prepared last or the baseline (`Permitted`).
  `SeesInv` adds, for `SeesOwnCall`, that Python's wrapper is one of those Rust
  takes for installed whenever it takes any (`Tracked`), and that no input
  outlives its call as long as handlers come to their end (`Resting`).
  `FilesCounted` adds, for `GrowsWithinQuota`, that the guest's count is never
  below the total of the file sizes unless one of them grew unguarded since the
  last count (`slipped`): a file that shrinks unguarded only makes the count too
  large. This makes the check before a guarded write a check of what is stored.
- **Distribution.** As long as commands do not overlap, one works at a time, what
  it has written is the image so far and there is no whole manifest meanwhile;
  under a whole manifest files may be missing but none is another (`Staging`).
  An engine has been given what the caches hold (`Given`); without a race the
  caches and the directory agree with the manifests in use (`Unraced`).
- **Overlay.** What a command has in its hands is of its own distribution
  (`OwnBlobs`), and a process starts its next command with empty hands
  (`Fresh`); a guest past the explicit load has an overlay, or what can be
  installed of the packages asked for and of those they need (`AllLoaded`).
  `ImageInv` adds, for `ImagesMatch`, that saves do not overlap, that metadata
  which can be read is that of the image beside it while nobody saves, and that
  a reader between its two opens is alone (`ImageAndMetadata`). `CatalogInv`
  adds, for `CatalogSound`, that while nothing is disturbed at most one process
  is in the catalog (`Alone`), that the only file which is not whole is the one
  it is writing, that the index is torn exactly while it is rewritten, and that
  what is held to be written back is on disk; a blob is replaced only by the
  same package for the same distribution, so an entry stays sound.

Induction. The provers cannot use the library's induction theorems, which take
an operator as a parameter. Where a proof counts up an interval (the components
of a name), `CountingUp` does it for a set: a set of numbers that has 0, and with each
number below n the next, has them all, since a largest interval in it ends at
n. Retaining and sorting are defined by the ranks of positions
(`Subsequences`), sizes and totals by the cardinality of a set of units, and the
path of a name by a function of its prefixes, of which `EnteredFacts` shows,
prefix by prefix, that there is one. So no proof rests on what a recursive
definition computes.

Only model-checked: liveness under fairness, `WaitersWoken` of `RuntimePool`,
`BundlePool`, `PoolRegistry` and `WarmedHosts`, and `RunawayIsStopped` of
`Watchdog`, which the prover does not do.

## Known disagreements without a run

The models contain these behaviours; the properties are stated so that they say
what holds beside them, mostly as an exemption (`upset`, `trimmed`, `mixed`,
`disturbed`, `overlapped`, `raced`). Most can be reproduced by checking the
stronger statement. The others were met while the code was read for a model.

Pools and registries:

- `RuntimePool`: a failed creation keeps its share of `total`, so each one makes
  the pool smaller for good; after as many as there are places, checkouts wait
  for a runtime that nobody will return (`pool.rs:104`, `:109`; "lazily creates
  runtimes up to the configured limit", `pool.rs:79`): `WaitersWoken` without
  `CapacityLost`.
- `RuntimePool`, `ResetPolicy = "AfterInvocation"`: a runtime whose session left
  early goes back on the queue without a reset (`pool.rs:180`;
  `src/docs/dev/runtime-internals.md:123`).
- `BundlePool`: a failed creation notifies nobody, so a parked caller may stay
  parked beside room for an isolate (`inner.rs:390`;
  `src/docs/api/rust-host.md:355`): `NoStrandedWaiter`, one failure.
- `BundlePool`: a call in `Block` mode that loses the last place between the two
  capacity checks is refused with `PoolAtCapacity` instead of waiting
  (`inner.rs:336`; `rust-host.md:356`), and a `FailFast` call at capacity gets
  `PoolAtCapacity`, not `PoolQueueFull` (`inner.rs:237`).
- `BundlePool`: a spawn under way does not see a resize, so the pool ends above
  its new maximum (`inner.rs:328`, `:53`; `persistent/pool.rs:45`):
  `WithinMaxSize`, one adjustment. `set_desired_size` may return an error after
  it has changed the desired size.
- `BundlePool`: the slot vector grows with every isolate that is quarantined in
  its middle, since holes are not used again (`inner.rs:341`).
- `BundlePool`: `acquire_all_idle_slots` returns an error while it holds the
  lock its guards need to drop (`inner.rs:286`); it takes an idle index without
  an isolate, which only the shared-slot defect produces.
- `PoolRegistry`: a handler prepared across a removal is cached for a pool that is
  no longer registered (`persistent/pool/registry.rs:93`, `:170`; needs two
  threads).
- `WarmedHosts`: a retained ready host may lose its artifact to the other LRU
  order, and the byte-based lookup no longer finds it (`warmed_host.rs:606`,
  `:64`).

Calls:

- `Watchdog`: a watchdog thread between its wait and its termination stops the
  next invocation (`runtime/watchdog.rs:25`; "must be dropped explicitly to
  avoid spurious interrupts", `src/docs/dev/runtime-internals.md:52`). The
  property says that nothing else does.
- `Watchdog`: a timeout that strikes inside a strategy hook ends as a plain
  error, and so does one that stopped the guest when a hook after it fails
  (`runtime/execution.rs:92`; `src/docs/architecture/runtime-lifecycle.md:62`).
- `Isolate`: after the automatic reset the isolate still takes its bundle for
  loaded (`persistent/isolate.rs:266`; "Ensures the isolate has materialised the
  bundle requested by `handle`.", `:172`; "reset").
- `Isolate`, further kinds in `upset`:
  - a bundle that fails to load leaves its policies to the handler loaded before
    (`isolate.rs:179`; "failure");
  - an inline script leaves its files to the handler loaded before
    (`isolate.rs:326`; "inline");
  - a mount that fails half-way leaves `current_bundle` naming the bundle whose
    files it overwrote, and a later preparation of that one skips its mount
    (`runtime/sessions.rs:202`; "mount");
  - a `reset_in_place` that fails, or finds no engine, leaves flags that describe
    the interpreter before (`runtime/mod.rs:309`; "inPlace");
  - a prewarmed entrypoint, an abandoned run or a cleanup mode other than `Full`
    leaves the module imported, and it answers for the next bundle with the same
    entrypoint (`isolate.rs:212`; "module");
  - a restore hook that fails once is never run again (`runtime/mod.rs:173`), and a
    warm state captured on an interpreter whose preparation failed counts as
    restored (`sessions.rs:222`; "hook"). The hook also runs for JavaScript
    engines, which have nothing to restore (`mod.rs:171`).
- `Isolate`: a budget overrun returns before the automatic reset
  (`execution.rs:175`; `config.rs:468`); a reset that fails drops the engine and
  the cleanup after it panics (`execution.rs:298`): state "panicked".
- `Session`: the direct contract "skips the auto-wrapper"
  (`src/docs/api/json-vs-rawctx.md:63`), but a wrapper that an earlier handler of
  the same entrypoint installed stays (`strategy/rawctx/runtime.rs:56`), and with
  `CleanupMode::None` the first of three handlers can run under the second's.
- `Session`: inputs live "for the duration of the call" (`json-vs-rawctx.md:27`),
  but those of a call that ends before its handler is entered stay, the
  JavaScript JSON global survives a successful call, and the JSON strategy does
  not drain buffers that a handler provided: the next call discards them.
- `Session`: timers a JavaScript call leaves fire in the next one. An endless
  chain of promises is pumped without a limit.
- `Session`: a preparation that fails midway leaves policies of two manifests in
  force until the next one. Files that exceed a lowered quota can then not be
  deleted. Under `SharedBuffersOnly` and `None` files stay for the next call
  (`src/docs/architecture/sandboxing.md`;
  `src/docs/api/python-handlers.md:116`).
- `Session`: opening a file with truncation, `ftruncate` and renames change
  files of the guest in any mode, and neither the quota nor its count sees them
  (`js/pyodide_bootstrap.js:363` wraps write, unlink, rmdir and truncate of a
  path; `src/docs/architecture/sandboxing.md:32` has the shim track writes and
  refuse them in mode `read`, and calls the quota best-effort at `:51`). Every
  Python `open(path, "w")` truncates so: the count stays too high and later
  writes are refused early; a file renamed into the root, or made longer, is not
  counted until the next recount. `GrowsWithinQuota` exempts these steps, and
  guarded writes after one that grew a file.
- `Session`: a manifest entry `host:443` never matches a request to the default
  port of https; a contact is recorded before the method is checked; redirects
  are left to the HTTP client, which does not look at the policy again.
- `Bundles`: a manifest's CPU budget is documented as "CPU budget applied when the
  descriptor omits one." (`bundle_manifest.rs:82`), but a preparation
  always replaces the descriptor's (`sessions.rs:101`, `persistent/artifact.rs:126`);
  a limit set on a handler survives only on the hot path. `HotIsCold` says what
  the two agree on.
- `Bundles`: what is hashed is path, length and contents of each record with
  nothing between path and length (`bundle.rs:201`–`206`; "stable fingerprint of
  the bundle contents", `bundle.rs:191`): a file whose path goes on with the
  bytes of a length can collide with two files. `SameFingerprintSameBundle`
  exempts bundles in which a path goes on with the bytes of the length of the
  other's file of the same rank (`Ambiguous`).
- `Bundles`: an artifact takes Python when the manifest names no language
  (`persistent/artifact.rs:54`) though the configuration has a default
  (`config.rs:240`). `set_pyodide_distribution_profile("default")` without such a
  profile keeps the directory of the profile before (`config.rs:331`). Packages
  that differ only in case are one, also among `preloadImports`, where they are
  two modules.
- Mounting a bundle never removes the files of the one before
  (`engine/pyodide_runtime.rs:458`).

Files on disk:

- `Distribution`: staging with `--force` refuses a directory that a killed staging
  left without a manifest, outside of the default root, though the error of an
  incomplete directory says to run it again with `--force`
  (`pyodide_distribution/staging.rs:420`, `:435`). A cut file that one engine has
  cached stays until the process ends. A directory that is damaged after a
  process has verified it is accepted (`pyodide_distribution.rs:297`). The
  compatibility fingerprint covers the variant and the lockfile only.
- `Overlay`: a save that is cut, or whose metadata fails, which is only a warning,
  leaves an image beside the metadata of another (`main.rs:182`; "Explicit
  snapshot loads ... fail when the compatibility fingerprint is missing or does
  not match the active distribution",
  `src/docs/architecture/packages-and-snapshots.md:66`).
- `Overlay`: a package the lockfile does not have, or has without a file the
  loader can install, is passed over with a warning and the command succeeds
  (`js/pyodide_bootstrap.js:2390`, `:2966`, `main.rs:171`), where an error is
  documented for a package the distribution misses
  (`src/docs/architecture/packages-and-snapshots.md:32`).
  `MissingOnlyAfterImport` exempts these packages.
- `Overlay`: after any overlay import the explicit load is skipped, whatever the
  overlay lacks (`main.rs:163`). An export larger than the cache limit writes a
  sidecar that can never be restored (`overlay.rs:216`). A kill while the index
  is rewritten leaves one that does not parse (`overlay/catalog/index.rs:150`).

## Not modelled

- `BundlePool`: telemetry counters, statistics and the callbacks of lifecycle
  hooks, which do not feed back; `prewarm_handler`'s snapshot, and `Drop` (guards
  and handles keep the inner `Arc` alive, so no caller is inside a pool when it
  is dropped). Quarantine is modelled for guard rails on resident memory and
  heap, which are all the code has, though
  `src/docs/architecture/lifecycle.md:20` also names CPU.
- `BundlePool`: the mutex of each isolate (`persistent/pool/api.rs:322`). Guards
  decide who uses an isolate; were one behind two guards, their handlers would
  still run one after the other. The models check the guards.
- `BundlePoolRegistry`: the cache of parsed artifacts, which saves a parse.
- `Overlay`: failures of the eviction itself (`overlay/cache.rs:163`, `:246`).
- `AardvarkRuntime`: measured CPU time, resident memory and heap, except for the
  outcome of their budgets; texts of diagnostics.
- Parsing (JSON, zip, arguments), and checks of one field that only refuse.
- RawCtx layouts (tables, metadata, decoders): conversions of data from call to
  guest without state. Shared buffers as memory.
- V8 and Pyodide themselves, the other polyfills, DNS, TLS, headers and redirects
  of the HTTP client; the import patches for entropy, which run once while
  Pyodide boots.
- Assets (embedded files without state), the compatibility runner, the
  performance runner, `xtask` and build scripts: drivers without shared state.
