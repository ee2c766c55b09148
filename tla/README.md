# A TLA+ development for Sum

Sum (`src/`) is a small database of vectors. A *node* (`sumd`) keeps records in
memory, persists each of them in a file, and runs *oracles*, JavaScript
functions, on them. A *master* manages several nodes over gRPC, spreads the
records over them and presents itself as one node. This directory models the
parts of both that have state or a non-trivial algorithm, model-checks them with
TLC on small instances, and proves the most important properties with TLAPS for
all instances.

## 1. Inventory

| component | state | operations | what is hard | what makes it correct |
|---|---|---|---|---|
| `storage.Index` (`node/storage/index.go`, drivers, `saver.go`, `loader.go`) | map identifier to message, `nextID`, a folder with one file per record | Create, CreateWithId, CreateManyWIthId, Update, Delete, DeleteMany, Load | writes that fail or are cut by a crash, a rollback, ignored errors | what was acknowledged is on disk and served; identifiers are not reused; files are not mixed up |
| `storage.Records` (`records.go`), wrappers (`node/wrapper`) | the Index and `metaBy`, the search index by meta value | the same, FindBy, WrapRecord, SetData | two or three critical sections per method; wrappers write without a lock | FindBy misses nothing, and returns only what matches |
| oracle handlers (`node/service/oracles.go`, `cache.go`, `service.go`) | an Index of oracles, the cache of compiled ones | Create, Update, Delete, start | index and cache in separate critical sections; start after a crash | Run executes what is stored |
| execution pool (`compiled_exec_pool.go`, `compiled.go`) | a channel with free VMs, the globals inside each VM | Get, Run, Release | contention, failing and endless oracles | one call per VM, no VM lost, waiters are served |
| balancer (`master/balancer.go`) | none: arithmetic on cached counts | balance, shares of DeleteNode, choice of a node | wrap-around, remainders, 5% margin | nothing overdrawn; ends balanced; stable |
| master, nodes and clients' records (`mux_nodes.go`, `mux_records.go`, `node.go`, `config.go`, `mux_service.go`, `updater.go`) | list of nodes, their cached status, `nextId`, the configuration file | AddNode, DeleteNode, CreateRecord, UpdateRecord, DeleteRecord, UpdateNodes, updateConfig, start | handlers interleave; RPCs fail before or after they took effect; restarts | a record is on one node, none is lost, counts are right, identifiers are free |
| master as a node of another master (`mux_records.go:321-487`) | the same, and three kinds of locks | CreateRecordWithId, CreateRecordsWithId, DeleteRecords, beside CreateRecord and ListRecords | all share `nodesLock`; balances run inside; nested locks | what is acknowledged is stored once; no deadlock |
| requests to all nodes (`paralleliser.go`, `mux_records.go`, `mux_runner.go`) | workers, two channels, two wait groups; temporary oracles | ReadRecord, UpdateRecord, DeleteRecord, FindRecords, Run | cancellation, partial failure, transfers beside them, clean-up | the answer means what it says, the call returns |
| master, oracles (`mux_oracles.go`, `oracle_stealer.go`) | oracles in memory | CRUD, taking over oracles of nodes | check-then-act, deletion on the node, restarts | an oracle is not lost or doubled |
| algorithms: lists by page, `ast_raccoon.go`, `merge` | none | ListRecords, ListOracles, PatchCode, merge | boundaries, positions that shift, order of arrival | equal to a reference definition |
| `node/backend` and record algebra, `proto`, `cmd` | none that outlives a call | | | not modelled, see section 9 |

Interactions: handlers of a node run in one goroutine per call and share the
Index, the cache and the pool. The master calls nodes by RPC only:
`CreateRecordWithId` for single records, `ListRecords`, `CreateRecordsWithId`
and `DeleteRecords` for a transfer, `Info` for the status, and the public calls
for requests to all nodes. Its handlers share `nodesLock`, one lock per
`NodeInfo`, `idLock` and `cageLock`.

`PROJECT.json` lists the hazards of the code line by line, with the properties
that would catch each of them going wrong.

## 2. Modules

| module | models | state and actions |
|---|---|---|
| `Index` | `storage.Index` and its folder | `index`, `nextID`, `disk` are the fields and the folder; one action per method, since each holds the write lock throughout; `Crash`, `CrashInFlush`, `Load` |
| `DurableMap` | what an Index promises | an atomic map with its answers; `Stop` and `Start` leave it alone |
| `Records` (extends `Index`) | `storage.Records`, its handlers, wrappers | `metaBy` as numbers of occurrences; `pending[t]`, the critical sections goroutine `t` has left, with the pointers it holds; `wrapping`, the wrapper an oracle works with: `WrapRecord` reads the data of a stored record, `Wrapped` writes it back, `OracleSetsData` writes any other |
| `OracleService` (extends `Index`) | oracle handlers, cache, start of a node | `cache`, `caching[t]`, the cache operation handler `t` has left; `Run` and `ReadOracle` are what clients see |
| `ExecPool` | pool and runs | `freeWay` the channel's buffer, `waiting` its queue of receivers, `globals` per VM, `pc` and `vm` per call |
| `NodeProofs` | theorems about `Index`, with the refinement of `DurableMap`, `Records`, `OracleService` and `ExecPool` | |
| `Balancer` | arithmetic of `balance` and `DeleteNode` | operators, wrapping at `Modulus` |
| `BalanceRun` (extends `Balancer`) | `balance` on its own | `counts`, `start`, and `left`, the transfers it has left; the plan is made in one step, `Transfer` runs the next of it and succeeds |
| `Cluster` (extends `Balancer`) | a master, its nodes and clients | `members`, `status`, `nextId`; `config`, the file, and `saving`, how many updateConfig goroutines have not run; `plan`, the transfers the holder of `nodesLock` has left; `data`, the records of each node |
| `Internal` (extends `Balancer`) | the master as a node | `reads`, `writer`, `nodeLock`, `idLock` are the locks; `call[t]`, the steps goroutine `t` has left: a call is a sequence of steps, and a balance inserts the steps of its transfers; a step that stores given identifiers is done when `Raise` has raised `nextId`; the node locks ListRecords holds for reading are `ReadLocks` |
| `Parallel` | `doParallel` and the five handlers built on it | `pc` per worker, `hand`, `reading`, `gathered` for the two readers, `main` for doParallel; `temps` and `ours` for the temporary oracles of Run; `move`, a transfer beside the call |
| `MuxOracles` | oracles of a master and their theft | `raccoons`, `store` per node; `steal`, where deployAgentSmith is; `creating`, CreateOracle calls between test and insertion |
| `BalancerProofs`, `BalanceRunProofs`, `ClusterProofs`, `InternalProofs`, `ParallelProofs`, `MuxOraclesProofs` | theorems about the module of that name; `InternalQuietProofs` (extends `InternalProofs`) has those about `Internal` as long as no RPC fails | |
| `Paging`, `Raccoon`, `Merger` | lists by page, patching, merging | operators |
| `MC*` | instances for TLC | `MCNode` starts either an `Index` that is called directly or one under the oracle handlers; `MCAlgorithms` enumerates the first counts of `BalanceRun` and the inputs of the three modules above, and has the reference definitions |

What the data is reduced to: a record is a set of meta tags and one value
standing for data and shape; an oracle is its code, which compiles or does not;
in `Cluster` a record is its identifier and an opaque content, in `Internal` its
identifier. A file is a decoded message or does not decode; a cut write leaves
one of the prefixes that the order of the protobuf fields allows. Code to be
patched is a sequence of symbols with calls at given places. A method that fails before it
changes anything is an action too, and so is each lost answer.

`acked`, `foreign`, `halfUpdated`, `touched`, `contended`, `unflushed`, `raced`,
`slipped`, `twice`, `known`, `first` and `sent` are history variables, and so are
the fields `had`, `alone` and `still` of a call of `Internal`: they record what clients were
told, what was there, or which exception of a property applies, and no action
reads them in a guard.

Definitions commented `Mutant:` are plausible mistakes in the code of the
definition that follows. No specification uses them: put in the place of
that definition, each one makes TLC report the property that `PROJECT.json`
names for it, so every property is known to depend on the code it is about.

## 3. Runs

| run | shows | result |
|---|---|---|
| `node` | all call sequences on identifiers 0 to 2, batches of two, one failing or torn file operation, any number of crashes; until a file operation fails every step is a step of `DurableMap`; and under the oracle handlers, Run executes what ReadOracle returns, for oracles two handlers did not work on at once | holds |
| `records` | the search by meta is complete and untouched records are found once, with two goroutines and oracles that set the data of records | holds |
| `records_sound` | the search by meta returns only records that match | violated: create a record, update its meta, and the old value still finds it (`!found` at `records.go:70`) |
| `exec_pool` | exclusion, own arguments, no VM lost, waiters served | holds |
| `algorithms` | balancer: nothing overdrawn, ends balanced, stable; lists: the pages of a node partition the sorted list, full pages of a master that start with a node are right; patching; merging | holds |
| `cluster` | two creators, updates, deletions, joining nodes, node restarts | holds |
| `cluster_drain` | leaving and joining nodes, master restarts; the configuration file catches up | holds |
| `cluster_faults` | two failing RPCs of any kind, before or after they took effect, or failing writes of the configuration, and a master that dies at any time | no record is destroyed; the configuration catches up unless its write failed, and then with the next join |
| `parallel` | the five handlers on no, one or three nodes, one failing RPC, cancellation, one transfer | what the answers mean; every call returns |
| `parallel_cleanup` | after Run, if no RPC failed, no temporary oracle is left on a node | violated: the clean-up has a cancelled context |
| `mux_oracles` | two clients, two nodes, one failing RPC, one restart of the master | no oracle is lost by theft, or doubled |
| `internal` | two calls of any kind on two nodes, ListRecords too, two failing RPCs, a writer that may wait for `nodesLock` | acknowledged is stored, on one node; `nextId` is free but for the records of a call about to raise it; deletions are complete; deadlocks: the nested read lock, circles of transfers, and circles with a ListRecords in them, no other |

The two violated ones are the findings of `PROJECT.json`, which quote the
comments that say otherwise.

### Bounds

* `node`: three identifiers (one is 0, which truncated files decode to), two
  sets of tags, one data value and none; one fault; two handlers of oracles. A second fault on another
  identifier is what the theorems about `Index` cover: they hold for every
  bound.
* `records`: two identifiers, two values of one key, one data value and none,
  two goroutines, batches of one. `MaxCount` stops calls
  that would add to a bucket that holds an identifier already, so counts reach 2
  by calls in progress. One wrapper exists at a time.
  States are compared without `err` and `foreign` (`MCView`), which no action and
  none of the run's invariants reads. `records_sound` has one goroutine and no
  batches, so that the trace is the shortest sequence of calls and not a race.
* `exec_pool`: two VMs and four calls, so that two wait in the queue.
* `algorithms`: up to 26 records per node, because the margin
  `targetRecordsPerNode/20` is not 0 from 20 records per node on; `Modulus` is
  above every sum. Four nodes with up to 9 records each, so that two nodes
  give to two. Lists: up to three nodes with up to three records, pages and page
  sizes 0 to 5. Patches: up to three calls, two parameters, calls shorter and
  longer than what replaces them. Merges: up to three results. For a master's
  page every subset of the nodes fails.
* `cluster*`: two or three nodes, two to four identifiers. `cluster_drain` starts
  from three records on two nodes and lets two nodes leave, so that a node can
  come back and leave again. The instances have one content per record: they
  show that records do not disappear. After a failed deletion a stale copy may
  overwrite a newer one, which no run excludes.
  `MaxLeaves`, `MaxFaults` bound the calls; `Rejoin = FALSE` leaves out AddNode
  calls for a node that a DeleteNode is still emptying, whose cached count is
  wrong until the next status update (`mux_nodes.go:11` against 16);
  `Restarts = "saved"` leaves out restarts before the configuration was written;
  `cluster_faults` has them. `Configured = FALSE` in `cluster` is a master without a
  configuration file.
  AddNode is not called for an address the master manages already. `Modulus` is
  above twice every count, so that nothing wraps that would not wrap at 2^64.
* `parallel`: one call, since calls meet only at the nodes; two records, of which
  FindRecords and Run see both, on one node or on two.
* `mux_oracles`: an oracle that parses, one that does not, a temporary one; two
  identifiers on each side, so that a deletion leaves a gap.
* `internal`: two calls at once are needed for every race and for the three
  deadlocks; two faults make a batch fail on one node and on the fallback.
  The starts are empty, balanced, and one-sided (which makes a balance move).

### Fairness

* `ExecPool`: weak fairness of a call's own steps, since the scheduler runs every
  runnable goroutine; none for making a call, nor for the evaluation of an
  oracle that may never return. The instance has fewer of those than VMs.
* `Cluster`: weak fairness of `Transfer` (a handler that holds `nodesLock` goes
  on: each RPC has a timeout) and strong fairness of `UpdateConfig`: a goroutine
  that waits for `RLock` is admitted when the current writer unlocks, even
  if more writers queue.
* `Parallel`: weak fairness of workers, readers, doParallel and a transfer that
  has begun: goroutines that can run do run, and an RPC ends because the
  contexts have a timeout (`context.go:16`). FindRecords uses the context of its
  client: its RPCs end when the client gives up, so for it the fairness is an
  assumption about the client. No fairness makes a transfer
  start.

Deadlock is checked in every run but `algorithms` and `parallel`, which end when
the work is done, and `mux_oracles` and `internal`, whose bounded calls run out;
`DeadlocksAreKnown` states for `internal` when nobody can go on.

## 4. Weaknesses the exceptions stand for

Several properties leave a case out. Each exception is a weakness of the code
that TLC shows when the exception is dropped:

* `NextIdIsFresh`, `foreign`: CreateWithId and CreateManyWIthId do not advance
  `nextID`, so a Create that comes to such an identifier fails with
  `ErrInvalidID`, at each retry, until the node restarts.
* `Durable`: a batch that fails on the way deletes every identifier it names,
  also those that were stored before (`index.go:191-201`), and those the loop did
  not reach.
* `CacheFollowsStore`, `contended`: two updates, or an update and a deletion, of
  one oracle may reach the cache in the other order than the index. Run then
  executes code that ReadOracle does not show.
* `FindByIsComplete`, `halfUpdated`: an Update whose flush fails has changed the
  record in memory, and not the meta index.
* The view of an oracle is not read-only, though `record.go:11-14` says so: oracles
  can call SetData (`record.go:35`), which is exported, on the records they look
  up, and it replaces the Data of the stored record in memory without a lock; a
  later Update that keeps the Data writes it to the file. WrapRecord itself
  assigns the Data it has read back (`record.go:30,36`), so that an Update in
  between may be lost. No property claims otherwise; `Records` has both, and what
  is promised of the Data of such a record is given up (`acked` is `Unknown`).
* `NoRecordLost` with creators and leaving nodes at once: CreateRecord stores its
  record on a node that DeleteNode has removed since it was chosen.
* `NoRecordLost` with restarts at any time: a master that restarts before
  `updateConfig` ran does not know the node it added last, nor its records. So
  does one after a failed write of the file, which is logged and not tried again
  (`config.go:56-58`); a truncated file keeps every master from starting. This
  is why `ConfigCatchesUp` makes an exception for failed writes.
* `NoDuplicates` with restarts: a restarted master begins with `nextId` 1
  whatever its nodes hold (`mux_service.go:56`; only AddNode raises it), and
  stores second records under identifiers another node has.
* `CountsAreExact` with `Rejoin = TRUE`: see the bounds.
* `DeadlocksAreKnown`: the fallback of CreateRecordsWithId calls DeleteRecords
  (`mux_records.go:442`), which asks for the read lock of `nodesLock` again: a
  writer that waits in between stops all three. Transfers that have locked
  their sources may wait for each other in a circle, since each locks its target
  second (`balancer.go:13`); two in opposite directions are the least one. And
  ListRecords read-locks the nodes one after the other and keeps the locks
  (`mux_records.go:159-164`): one that has locked the first node and waits for the
  second, and a transfer from the second to the first, wait for each other.
* `OneHolder`, `slipped`: CreateRecordWithId asks the nodes one by one whether they
  have the record, without their locks. A transfer may move it from a node not
  yet asked to one already asked, and a second copy is stored. `raced`: so may
  two calls that are about one record. `Raising`: CreateRecordWithId and
  CreateRecordsWithId store their records first (`mux_records.go:353,396`) and
  raise `nextId` then, under `idLock` (359, 402). In between a CreateRecord that
  has chosen another node may assign one of their identifiers a second time.
* `DeleteIsComplete`, `still`: DeleteRecords serves the nodes one after the other
  too, and a transfer of another call can move a record past it. `alone`: it
  reports success by comparing cached counts, which other calls change and
  which are wrong until the next status update after some of these races.
* `NotFoundMeansNowhere`, `moves`: a transfer that moves the record from a node
  not yet asked to one already asked makes ReadRecord answer "not found".
  `SuccessMeansDone`: it may likewise undo an update, and hide a record from
  FindRecords and Run or show it twice. DeleteRecord takes the nodes' locks and
  is safe.
* `TemporariesRemoved` is violated (run `parallel_cleanup`): in Run the deferred
  `cf` runs before the deferred clean-up (`mux_runner.go:90,101`), which uses the
  same variable `ctx`, so the temporary oracles are deleted with a cancelled
  context and may all stay.
* `NoOracleLost`: a master that restarts loses all its oracles: they were deleted
  on the nodes when it took them over, and the cage is in memory only.
* `TheftIsComplete`: oracles are asked for by the numbers 1 to n, n being how many
  there are; after deletions on the node the ones above n stay there.
  `NoDoubles`, `twice`: CreateOracle tests for an equal oracle before it takes
  the lock, and UpdateOracle does not test.
* `MasterPageIsRight` is about pages behind the last record, and filled ones that
  start with the first record of a node. A partly filled last page is shown
  empty, and a page that starts inside a node shows that node's records from its
  first one on; that node is asked for all its records, though
  `mux_records.go:213` says "this size will never exceed the original request". If
  a node fails, the page is short and is returned as an answer (219-229).
* `PatchReplacesCalls`: PatchCode goes through the calls parameter by parameter
  with one running shift, so if a call of the second parameter stands before one
  of the first the code is cut at wrong places (or the slice panics).
* `MergeIgnoresOrder`: a null result that arrives first is a nil dereference
  (`mux_runner.go:208`); one that arrives later is a type error.

Two more that no run reaches: FindBy takes the read lock it already holds
(`records.go:104,115`), so with a writer in between both wait for ever; and
DeleteNode on a master without nodes dereferences nil (`mux_nodes.go:64`). A node
that is added twice is source and target of one transfer, which deletes what it
has just stored (`mux_nodes.go:22`). And a comment: `record.go:129` calls the
number that Jaccard returns a distance; it is the similarity, 1 for equal vectors.

## 5. What is proved

Every theorem is about all values of the constants that satisfy the named
assumptions of the module that declares them: any number of nodes, goroutines,
identifiers, records, faults and calls. Each rests on an inductive invariant;
the proofs have a lemma per action, and in it a step per conjunct that the
action can disturb.

**`NodeProofs`, of `Index`** (assumptions: at least one identifier; Meta sets closed under
dropping entries; the absent values are not values). `TypeCorrect`,
`Durability`, `Freshness` and `OwnFiles` are invariants of the run `node`.
`Durable` and `NextIdIsFresh` are not inductive by themselves: what a running
node serves says nothing about the state after a crash, and what Load finds
depends on every file. `IInv` is the type invariant and the three properties
together (`Invariance`): Load files a record under the identifier inside its
file, so `Durable` is preserved only because of `FilesHoldTheirId`. `Refinement`
shows that the index implements `DurableMap` until a file operation fails. It
needs one more invariant, `Clean`: as long as nothing failed, memory, if the
node runs, is what the folder holds.

**`NodeProofs`, of `ExecPool`**. `MutualExclusion` and `OwnArguments`: the invariant says where
every VM index is (at most once in the channel, with at most one call, never
both), that calls hold a VM exactly in the places of the code where they should,
and that the queue contains only calls that wait, each once. The arguments of a
call are its own because nobody else can set globals on its VM.
`PoolIsComplete` adds that every VM is somewhere, and that nobody waits while the
channel has one.

**`NodeProofs`, of the users of an index**. Of `Records`: `FindByMissesNone` and `UntouchedOnce`.
A record may be missing from a bucket while a call has left
the critical section of the Index and not yet that of `metaBy`; the invariant
says what each pending call is still going to append, that two calls never
append the same untouched record, and that a wrapper points to a stored record
or to one that was deleted since, so that what it writes cannot bring a record
back. Of `OracleService`:
`CompiledIsStored`, where the invariant says what the handlers that have changed
the index are going to write to the cache; and `OraclesDurable`, the durability
of `Index` carried over to the handlers.

**`MuxOraclesProofs`**. `TheftLosesNone`: the thief deletes on the node only what is
also elsewhere. `CageHasNoDoubles`: of an oracle that no race doubled at most one
call is about to store it, and then it is not in the cage. `ThiefTakesAll`: what
the thief has passed it has taken or could not parse.

**`ParallelProofs`** (a finite set of nodes). `NothingDropped`, `NotFoundIsTrue`,
`SuccessIsTrue`: the invariant follows each worker (what it has
found, what of that is in its outbox, what the readers have of it), the locks
that DeleteRecord and a transfer take, and where the copies of a record are
while a transfer has stored it on its target and not yet deleted it.

**`BalancerProofs`**. `PlanIsSound`: a plan moves at least one record from one node to
another one; this holds also when counts wrap. `PlanIsAffordable`: if the
records are fewer than half of `Modulus` (2^63 in the code), the transfers of a
plan can be run one after the other. `BalancePlan` is a fold; its steps are
unfolded by the lemma `LoopStates`, and the invariant of the loop
says that the counts reached so far and the deltas that are left add up to the
target. The other two master modules also take their arithmetic from here: sums
of uint64 counts that change by one summand (`TotalChanges`), and the counts of
disjoint sets of records (`TotalOfSets`).

**`BalanceRunProofs`**. `NeverOverdraws`, `EndsLevel` and `MovesNothingAgain` are the
three properties of a balance that the run `algorithms` checks, for every number
of nodes and all first counts under `Fits`: they add up to less than half of
`Modulus` (less one). `PlanLevels` is the core. The invariant of the two nested
loops, `Level`, adds to that of `BalancerProofs`:

* `Even`: the deltas add up to zero at first, because the targets add up to the
  total (`DeltasAdd`), and a transfer takes from one what it gives to another;
* `Signs` and `OneWay`: a node that lacks records never gets too many, and the
  other way round, so that givers stay givers;
* `Few`: each transfer brings a node to its target and starts from two that are
  not on theirs, so there are fewer transfers than nodes;
* `Done`: of the pairs the loops have passed none has one node that lacks records
  and one that has too many; since signs do not change they need no second
  visit.

At the end `Done` speaks of all pairs (`PairsAll`), so no two deltas have opposite
signs; they add up to zero, so all are zero (`AllLevel`). The invariant of a run,
`BInv`: what is left of the plan can be run and leads to the targets, and the
total stays what it was, or nothing needed balancing. Counters do not wrap,
since no count exceeds the total (`MovedIs`). With the same total the targets are
the same, and a second balance finds all deltas zero.

**`ClusterProofs`**.

* `NothingDestroyed`: whatever RPCs fail and whenever the master dies, a record
  that a client was told is stored is on some node. Hypotheses: the first list of
  nodes has no node twice, and records have one content, as in the run
  `cluster_faults`. With several contents the copy that is left may be an old
  one (section 3, bounds).
* `OnOneNode`, `NothingLost`, `NextIdUnused` under `Calm`: no RPC fails, nodes only
  join and are empty at first, and the master stays up (the configuration may
  fail to be written, here and below). Section 4 says what
  goes wrong otherwise: each part of `Calm` stands for a weakness there.
* `CountsAreRight` under `Calm` and `Roomy` (fewer identifiers than half of
  `Modulus`). The invariant, `Exact`, has to say that the rest of a plan can
  always be run, which is `PlanIsAffordable` when the plan is made.
* `LeavingLosesNone`, for nodes that leave: `RecordsKept` of the run
  `cluster_drain`, under `Orderly` and `Roomy`. `Orderly` is what that run has: no RPC
  fails, no record is created meanwhile (a CreateRecord call may store on the
  node that leaves, section 4), AddNode is not called for a node that DeleteNode
  is still emptying, the master restarts only when its configuration is saved,
  and at first no record is on two nodes.
  The invariant, `Keeps`: `Single` (no record is on two nodes), `Homed` (what
  clients know is on a node of the cluster or on the one being emptied), `Ready`
  (what AddNode read of a node before it took the lock is still true), the counts are
  exact, and the transfers left are those of a balance, which can all be run, or
  those of DeleteNode, whose sizes add up to what the node still has
  (`Draining`); a transfer of size 0, for which the node's ListRecords would give
  one record, comes only when nothing is left to move.

**`InternalProofs`**, and from `HeldOnce` on **`InternalQuietProofs`**.

* `LocksAreRight`, the invariant `LInv`: the steps a call has left are in the
  order of the code (`Follows`, `WellFormed`), and each goroutine holds exactly
  the locks that the step it is at says (`Locked`), through early returns, the
  transfers that balances insert, the DeleteRecords nested in a rollback, and the
  gap between a store and its raise of `nextId`; no node is locked for writing
  while a ListRecords has it for reading.
* `Deadlocks`, from `LInv`: if all calls wait, it is for the writer between the
  two read locks of a rollback, or for each other in a circle of transfers, of
  which ListRecords calls may be part. The holder of `idLock` never waits; of the
  ListRecords calls the one that got farthest waits for a transfer, since all go
  through the nodes in the same order.
* `AckedStays`: what was acknowledged stays stored. The invariant, `SInv`, adds
  three parts. `Kept`: a record that was acknowledged, or that a call has
  stored and is going to acknowledge, is on a node that no transfer is about to
  remove it from. `Apart`: calls that remove records are about none that others
  claim (else it is in `raced`). `Straight`: a batch that has not failed does not
  delete. The locks matter: a transfer holds both nodes between its copy and its
  removal, so two transfers never leave a record on neither.
* `HeldOnce`: as long as no RPC fails a record is on one node, except between
  the two halves of a transfer, and the next identifier is free, or is one of a
  call that has still to raise `nextId` above it. The invariant,
  `QInv`, adds to `SInv` what holds until an RPC fails. `Unique`: a record that is
  on two nodes is being carried from one to the other. `Lower`: all records are
  below `nextId`, or below what a call in `Raising` will raise it to. `Fine`, what each call has learnt: CreateRecordWithId, that the
  nodes it has asked lack its record; a batch, that the records it has not yet
  sent are nowhere and that it never needs its fallback node; DeleteRecords,
  that the nodes it is done with have none of its records.
* `DeletedIsGone`, from the last part: when DeleteRecords answers and no RPC
  failed, its records are on no node, unless a transfer of another call moved
  records meanwhile or a call raced it.
* `DeleteTellsTrue`: `DeleteIsComplete`, that is `DeletedIsGone` and what the call
  reports. The code compares the totals of wrapping counts before and after,
  and the balance of the call itself changes counts in between. The invariant,
  `TInv`, is about a call that is alone (`Lonely`; `Lone` says that then no other
  one is in progress). While it deletes, the records that are left together
  with those it found make the old total (`Working`). Once every node is
  refreshed, old total minus new total is, modulo `Modulus`, the number of
  records it found (`Differing`); between the halves of a transfer, the old total
  plus the records that are counted twice. So the comparison is true exactly if
  it found as many as it was asked for (`Reporting`). Hypothesis: fewer
  identifiers than `Modulus`, 2^64 in the code; with more, the number of records
  found would not be told from its remainder.

The induction theorems of the library take an operator as a parameter, which
the provers cannot instantiate; where a proof needs induction on numbers
(partial sums, loops, finite sets, prefixes of a batch) it takes the least
counterexample of a set of numbers instead.

## 6. What is only model-checked

* Liveness: `WaitersServed`, `ConfigCatchesUp`, `CallsReturn`. Fairness is out of
  the prover's reach.
* `PagesPartition`, `MasterPageIsRight`, `PatchReplacesCalls` and `MergeIgnoresOrder`
  of `MCAlgorithms` compare what folds, sorting and recursive
  definitions compute with references, over all inputs up to a bound; for every
  input that is induction over data.

## 7. Simplifications to know of

* In `Cluster`, UpdateRecord and DeleteRecord serve all nodes in one step, with
  any subset of the nodes reached: there transfers run under the write lock of
  `nodesLock` only. `Parallel` takes these handlers apart, and has the transfers
  that share the lock.
* balance reads the counts in one step. In `Cluster` they can only change
  meanwhile by a CreateRecord call that had already chosen its node; in
  `Internal` it waits until no node is locked.
* UpdateStatus may run at any time, also for a node that is just being added,
  where the code has no goroutine for it yet.
* A crash in the middle of a method of Index is a crash in one WriteFile, or
  after a shorter call.
* `Internal` keeps the list of nodes: AddNode and DeleteNode appear as the writer
  that waits for the lock. The parallel existence test of CreateRecordWithId asks
  the nodes in any order, and the first that has the record ends it.
* `Parallel` follows one call and at most one transfer of one record.
* In `Records` an oracle has one wrapper at a time.
* In `Internal` what ListRecords returns is left out, it is in `Paging`; its
  requests end whatever the nodes answer.
* A master that dies inside the write of its configuration is left out: a torn
  file keeps every master from starting, and there is nothing to follow.

## 8. Plan

Done: all modules of section 2 and the theorems of section 5.
One `NodeInfo` per AddNode call instead of one per address would bring
a node that is added twice into the model.

## 9. Not modelled

`proto` is generated by protoc; what the code relies on (field order, decoding
of prefixes) is in `Index`. `cmd` parses flags, sets TLS up and sends single
requests; `sumcluster` starts processes. Listings of nodes, FindOracle and the
statistics of `Info` read one critical section and change nothing. The
JavaScript engine and parser, gzip, gRPC and the file system are external: they
appear as the outcomes the code has to deal with. The record algebra
(`node/backend`, the dot products, cosine and Jaccard of `record.go`) is pure
floating-point arithmetic: its two backends differ in rounding (float32 in
`blas32.go:42`, float64 in `naive.go:30-33`), and with exact numbers there would be
nothing to compare.
