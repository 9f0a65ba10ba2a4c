# GenMC, modelled and verified in TLA+

This directory is a TLA+ development of GenMC, the stateless model checker for
C/C++ programs under weak memory models whose sources are in `src/src`, with
the library-verification layer (function calls, communication edges, data
structure checks) that this repository adds to it.

## 1. Inventory of the system

| Part | Sources | State it keeps | Operations | Interacts with |
|---|---|---|---|---|
| Verification entry point | `GenMCDriver::verify`, `main.cpp` | the futures, the merged result | transform the module, run one driver or a pool, merge | thread pool, driver |
| Thread pool | `ThreadPool.{hpp,cpp}` | task queue, `remainingTasks_`, `shouldHalt_`, workers | submit, pop, halt, join | driver (`calcRevisits`, `halt`) |
| Exploration driver | `GenMCDriver.cpp` | execution graph, work queue, moot flag, thread priorities, result counters | visit an event, schedule, revisit forwards and backwards, finish an execution | interpreter (callbacks), graph, pool |
| Execution graph | `ExecutionGraph.{hpp,cpp}`, `EventLabel.hpp` | labels per thread, stamps, reads-from, readers lists | add, change rf, cut to a stamp, copy, revisit queries | driver, calculators |
| Coherence, tracked | `MOCalculator.cpp` | stores of each location in order | place, move, coherent stores and revisits, maximality | graph |
| Coherence, writes-before | `WBCalculator.cpp`, `WBIterator.hpp` | sets of stores | the same questions, by closure | graph |
| RC11 views and races | `RC11Driver.cpp`, `View`, `DepView` | hb and porf vector clocks in labels | compute views, find races | driver, graph |
| IMM, LKMM drivers | `IMMDriver.cpp`, `LKMMDriver.cpp`, `ARCalculator*`, `PROP`, `XB`, `RCU*` | dependency views | the same for those models | driver |
| SC, persistency, LAPOR calculators | `PSCCalculator`, `PersistencyChecker`, `PBCalculator`, `LBCalculatorLAPOR` | relations (matrices) | fixpoints, acyclicity | graph |
| Locks and barriers | `visitLock`, `repairDanglingLocks`, `tryRevisitLockInPlace`, BAM | lock and barrier labels, blocked threads | acquire, release, repair | driver |
| Spin loops, liveness, HELPER, confirmations | `checkLiveness`, `SpinAssume*`, `checkReconsiderFaiSpinloop` | blocked threads | block, unblock, report | driver |
| Library layer | `FunctionCall`, `FunctionType`, `DSModel`, `Axioms`, `calculateOrder`, `checkMutex/Queue/Stack/Hp` | function events, COM and SO edges, total orders | record calls, order them, check axioms | driver, graph |
| Interpreter | `Execution.cpp`, `Interpreter.cpp`, `ExternalFunctions.cpp` | thread stacks, registers, the file system's inodes and descriptors | execute an instruction, thread, lock, memory and file operations | driver (callbacks) |
| File system and persistency | `call*FS` in `Execution.cpp`, `PersistencyChecker.cpp` | inodes, file descriptions, disk writes, persists-before views | open, read, write, truncate, rename, link, sync; recovery | driver |
| Load annotations, loop passes | `InstAnnotator`, `SExpr*`, `LoadAnnotationPass`, `SpinAssumePass`, `LoopJumpThreadingPass` | expressions attached to loads | calculate backwards from `assume()`, evaluate at run time | driver (filter of a load's stores) |
| Other LLVM passes | `*Pass.cpp`, `LLVMModule.cpp` | an LLVM module | rewrite | none at run time |
| Containers | `VSet`, `View`, `DepView`, `AdjList`, `SAddrAllocator` | sorted vectors, vector clocks, rows of a closure, pools | insert, unite, close, sort, allocate | everywhere |

What is hard in this code:

* **Concurrency.** Workers pop, submit, halt and leave concurrently. The
  checks in `popTask()` are made outside the mutex that protects the condition
  variable, and `remainingTasks_` is decremented outside any lock.
* **Revisiting.** A backward revisit removes part of the graph, copies and
  restamps the rest, changes what a read reads and continues, recursively,
  while the work queue of the suspended exploration refers to stamps and
  events of the graph it left. An execution must be neither missed nor
  explored twice.
* **Cached views.** Every label stores vector clocks computed when it was
  added; `changeRf()` updates only one label.
* **Read-modify-writes.** A forward or backward revisit can turn a read into
  an RMW, whose store then revisits in turn (nested), and can make two RMWs
  read the same store, in which case the execution is abandoned ("moot").
* **Completion in place.** An unlock, the last arrival at a barrier, the end
  of a thread and the removal of a spin loop's block change labels of *other*
  threads that are already in the graph: what they read, their views and
  whether the thread is blocked.
* **Crashes.** After a crash recovery reads any state of the disk that
  persists-before allows; a size must not cover data that did not arrive.
* **Two evaluators.** The condition of an `assume()` is evaluated by the
  interpreter, and beforehand, symbolically, by the driver.
* **The library layer.** Calls are identified by numbers that are reused after
  revisits, communication lists are inherited from label to label, and every
  check looks at calls of all threads, finished or not.

Properties that make each part correct:

| Part | It is correct if |
|---|---|
| Thread pool | no task is lost, repeated or left behind; the counter is exact; nobody halts early; results are merged when all is done |
| Driver, graph, coherence | each consistent execution is explored exactly once; work items and cached views are never stale; the exploration ends |
| Library labels | a pair of name and number identifies one call; COM and SO lists are what the graph says |
| Library checks | calls are collected as they were made; an error is reported exactly when the axioms of the data structure are violated |
| Hazard pointers | what is accepted lifts and reclaims only what it may |
| Locks, barriers, blocking | nobody holds a mutex twice; a waiting thread is woken when what it waits for happens; every run ends |
| Memory, races, liveness | an error is reported exactly where the graph has one |
| Coherence by writes-before, psc | the same executions are accepted as by the axioms |
| File system | files and directory are what the calls leave, under all interleavings; no lock is kept; who holds a lock finds the newest values, who does not at least values that were written |
| Persistency | recovery sees what some set of persisted writes explains, and no size without its data |
| Annotations | a value is dropped exactly if it would block the thread |
| Containers | each operation agrees with the set or relation that is represented |

## 2. Modules

| Module | Models | Extends |
|---|---|---|
| `TaskPool` | what `verify()` expects of a pool (abstract specification) | |
| `ThreadPool` | `ThreadPool.{hpp,cpp}` and `GenMCDriver::verify()` | |
| `ThreadPoolProofs` | theorems about `ThreadPool`, and that it implements `TaskPool` | `ThreadPool` |
| `InductionLemmas` | induction over the natural numbers, greatest numbers of finite sets, lists that grow, for the proofs | |
| `ExecutionGraph` | graphs, stamps, RC11 views of accesses, cutting and copying, RMW atomicity | |
| `MOCalculator` | coherence, tracked, and the maximality conditions of revisits | `ExecutionGraph` |
| `ExecutionGraphProofs` | lemmas on what adding, changing rf, cutting, copying and placing stores preserve | `MOCalculator`, `InductionLemmas` |
| `WBCalculator` | the same by writes-before (`-wb`) | `ExecutionGraph` |
| `PSCCalculator` | the partial SC order | `ExecutionGraph` |
| `Consistency` | the fixpoint of the calculators, `isConsistent()` | `PSCCalculator`; instances of the two above |
| `GenMCDriver` | the exploration: scheduling, visiting, work queue, revisits | `RC11Driver`; instances of `WBCalculator`, `Consistency` |
| `RC11Executions` | the reference: consistent executions of a program, axiomatically | `ExecutionGraph` |
| `Exploration` | what the exploration promises | `GenMCDriver`, `RC11Executions` |
| `GenMCDriverProofs` | theorems about `Exploration` | `Exploration`, `ExecutionGraphProofs` |
| `Labels` | the labels of `EventLabel.hpp` | `MOCalculator` |
| `RC11Driver` | views of all labels, data races | `Labels` |
| `RuntimeDriver` | the visit functions of the driver: threads, locks, barriers, memory, spin loops | `RC11Driver` |
| `Runtime` | the interpreter's instructions that call them, and scheduling | `RuntimeDriver` |
| `ProgramRuns` | what a run promises | `Runtime` |
| `Persistency` | persists-before and what recovery may read | |
| `FileSystem` | the file calls, crash and recovery, and what they promise | `Persistency` |
| `FileSystemProofs` | theorems about `FileSystem` | `FileSystem`, `InductionLemmas` |
| `VSet`, `Views`, `AdjList` | the containers | |
| `SAddrAllocator` | addresses, and an allocator at work | |
| `SAddrAllocatorProofs` | theorem about `SAddrAllocator` | `SAddrAllocator` |
| `Containers` | the containers, driven and compared with what they stand for | `VSet`, `Views`, `SAddrAllocator`; an instance of `AdjList` |
| `Values` | words, integers of N bits, the instructions on them | |
| `SExpr` | symbolic expressions and their visitors | `Values` |
| `InstAnnotator` | conditions of loads | `SExpr` |
| `Passes` | which loads are annotated, which backedges become `assume()`, which loops are threaded | `InstAnnotator` |
| `Bodies` | functions under the interpreter, compared with what the passes conclude | `Passes` |
| `Algorithms` | containers and functions together, for one run | `Containers`; an instance of `Bodies` |
| `FunctionLabels` | what the library layer stores in labels: numbers of calls, COM, SO | `MOCalculator` |
| `LibraryChecks` | collection of calls, their orders, `checkMutex/Queue/Stack` | `FunctionLabels` |
| `LibraryLayer` | clients of a library running, being revisited and checked | `LibraryChecks` |
| `LibraryLayerProofs` | theorems about `LibraryLayer` | `LibraryLayer`, `ExecutionGraphProofs` |
| `HpChecker` | `checkHp()` and the clients it watches | |
| `HpCheckerProofs` | theorems about `HpChecker` | `HpChecker`, `InductionLemmas` |
| `MCThreadPool`, `MCGenMC`, `MCRuntime`, `MCFileSystem`, `MCAlgorithms`, `MCLibrary` | instances for TLC: bounds and families of programs | |

`HpChecker` is small enough to be instantiated by its `.cfg` files alone.
Definitions keep the names of the C++ functions they model. Operators whose
comment says *Faulty variant* are deliberately wrong versions of the definition
that follows them; they are used nowhere in the specifications and serve to
confirm that the properties can tell the difference.

### Thread pool

One step of `ThreadPool` is one access to shared memory: an atomic load or
store, an operation on the queue under its own mutex, or the acquisition of
`stateMtx_`. Each C++ thread has a program counter `pc`; `submit()` and
`halt()` are called from several places, so `ret` says where a thread
continues. The two loads in the condition of `popTask()` are two steps,
`CheckHalt` and `CheckRemaining`, made without the mutex; `WaitSleep` is the
atomic release-and-sleep of `wait()`, and `SpuriousWakeup` what the C++
standard allows. `remaining`, `shouldHalt`, `queue`, `stateMtx` are the members
of the class; `submitted` and `executed` are history. A task is opaque: it may
submit (`RunSubmit`), report an error (`RunError`) and end (`RunFinish`). The
unsynchronised read of `workers_.size()` in `calcRevisits()` is a data race
with the constructor: while workers are still being added either outcome of the
test is possible (`PoolHasRoom`). `MaxTasks` bounds how many tasks are
submitted altogether.

### Exploration

A program is a sequence of accesses for each thread: loads, stores, CAS,
fetch-and-add and fences, relaxed, acquire, release or SC. A configuration adds
the scheduling policy, the room in the pool, the coherence calculator, and when
and how thoroughly consistency is checked (`-check-consistency-point`,
`-check-consistency-type`). `graph` holds the labels (with
stamp, views, reads-from and the maximality flag) and the coherence order of
each location. `workqueue` maps stamps to sequences of items; `stack` is the
C++ call stack, one frame for each active `calcRevisits()`, which holds the
loads it has still to try and the state put aside by `releaseLocalState()`.
`ctl` says what the driver does next. The actions are

| Action | Code |
|---|---|
| `Visit` (`visitLoad`, `visitStore`) | one instruction of the thread that `scheduleNext()` picks |
| `FinishExecution` | `handleFinishedExecution()` |
| `restrictAndRevisit` (`ForwardRevisit`, `WriteRevisit`) | the next work item, in the loop of `explore()` |
| `BackwardRevisit`, `BreakRevisits`, `EndRevisits` | an iteration, the early exit and the return of `calcRevisits()` |
| `SubmitRevisit`, `EnterExplore`, `ReturnFromExplore` | submission to the pool, the recursive call, its return |
| `TakeTask` | a worker takes a submitted graph |

Replaying the part of an execution that is already in the graph changes nothing
and takes no step. The executions counted are kept in `explored`.

`RC11Executions` defines the consistent executions of a program independently:
all reads-from choices and coherence orders that satisfy coherence, atomicity
and the absence of porf cycles, with happens-before computed from release
sequences, without stamps, views or any order of exploration; for SC accesses
and fences with psc, by its axioms.

`WBCalculator` keeps, as the code does, the stores of a location in the order
in which they were added together with a flag that says whether that order is
forced; `Consistency` instantiates both calculators over the same graphs and
iterates them with `PSCCalculator` until nothing changes.

### Runs of a program

`Runtime` has one action per instruction, which stands for the instruction and
every call it makes into the driver. The calls are operators of
`RuntimeDriver` from the state `d` (graph, blocked threads, errors) to the next,
in the order of the C++ code: checks, adding the label, revisits in place,
repairs, blocks. Labels have one constructor per class of `EventLabel.hpp`
(`Labels`). What is modelled is the first run of `explore()` under random
scheduling, in which each read takes the last store that is coherent for it:
what other choices do is the subject of `Exploration`. Revisits in place, which
happen within a run, are included: an unlock that completes a waiting lock, the
last arrival at a barrier that wakes the others, a store that unblocks a spin
loop. `rescheduleReads` and `handleFinishedExecution` (with `checkLiveness`) are
actions of their own, as they are separate steps of `scheduleNext()` and
`explore()`.

`ProgramRuns` compares the final graph with definitions that do not mention
views or the order of addition: happens-before from program order and
synchronization, races, uses after free, barrier rounds.

### File system and recovery

A call of the file system is split where another thread can see the difference:
where locks are taken and released, and between the bytes and the size of a
block, since readers use no lock. A thread that does not get a lock is rolled
back and replayed by the interpreter; in the model it waits. `fs.disk` lists the
disk writes and fences with their persists-before views (`Persistency`), `spec`
is what files and directory should contain. `ProgramsAssumption` says what
a program is: a sequence of calls (`CallTypes`) for each thread, with any
descriptors, lengths and offsets, valid or not.

*What a read finds.* The driver gives a read of the disk any store of
`getRfsApproximation()`, and a size in memory is read by an ordinary acquire
load. `fs.known[t]` stands for the happens-before view of t, so
`CoherentStores` are all stores to the location, the initial one included,
except those older than one that t knows. Sizes have their history in `sizes`;
`CoherentSizes` compares them by the last disk event before each (`at`): their
writers hold the lock of the inode, and log an event of their own before they
store a size, hence between any two stores of a size. (`made` is what a
description hands on to `pread()` and `pwrite()`, which use its inode without
its lock.) Reads without the lock, of `pread()`, `read()`, `lseek()` and of an
`open()` without `O_CREAT`, choose among these and then know what the store's
writer knew. Reads under the lock take the newest; `LockedReadsExact`
checks that coherence leaves them nothing else.

*Crash and recovery.* As in the code, recovery starts once all threads have
finished (`handleRecoveryStart`). Where the crash fell is the choice of the
writes that had persisted: recovery looks up names, reads sizes and bytes, each
from any write that `isRecFromReadValid` accepts, which may be one before, or
within, any of the calls.

### Containers, annotations and passes

`Containers` drives each structure through its operations and keeps beside it
the set, relation or blocks it stands for. `Bodies` executes functions given as
blocks of instructions (phis, branches, switches, integer arithmetic, loads,
CASes, assumes) on words of `Width` bits. At a load that `LoadAnnotationPass`
annotates, `watch` remembers whether `filterValuesFromAnnotSAVER()` keeps the
value; what the function then does with it must agree.

### Library layer

`FunctionLabels` adds to the labels the call they belong to and the COM and SO
lists; `LibraryChecks` translates the checks into predicates on a graph. In
`LibraryLayer`, clients of a library run: calls start and end where the
interpreter meets the markers (`visitFunctionStart` also ends a call that was
left abnormally), the accesses in between are visited, and any read that is
still revisitable may be revisited at any time, which includes all revisits that
the exploration performs. A dereference that would leave the locations of the
program is not visited (`visitLoad` requires `loc \in Locs`): it is an error
that other checks report. `ConfigurationsAssumption` says what a client is: a
sequence of known instructions for each thread. `conf` stands for what `getConf()` returns (the model of the data
structure, the scheduling policy) and the client; it is chosen initially and
never changes. `violation` is set when a check reports an error. The vector that
`checkQueue()` reads one past its end is a nondeterministic choice (`junk`).

`findallFunctionCalls()` never yields a finished call (section 3,
`library_calls`): each is closed at its start, without matches and values. The
checks are executed on these calls as the code executes them, but with
nothing to look at their verdicts mean little, and no property is stated of
them; `CompletedCallsAreDone` states what they would need first.

In `HpChecker` a call is a name and the address that its first read returns;
its properties speak of positions in the sequence of accepted calls.
`Steps` is the automaton of `checkHp()` as a set of transitions. Two
observations about it that no comment in the code contradicts: addresses from
17 on are not checked at all, and protecting again from states 11, 12, 19 and
20 leads back to the initial state, not to one in which the protection is held.

## 3. Runs

| Run | Instance | Shows |
|---|---|---|
| `pool` | 3 workers, 3 tasks | `Accounting`, `TasksConserved`, `QueuedTaskIsServed`, `NoEarlyHalt`, `VerdictIsComplete`, the refinement `ImplementsTaskPool`, and `TasksFinish`: every task is executed although wake-ups are lost |
| `pool_notification` | 2 workers, 1 task | **violated**: a worker misses the last notification |
| `explore` | 2095 configurations: 1296 programs with 2 threads, 2 instructions and 2 locations; 256 with 2+1+1 instructions on 1 location and RMWs; 30 with release and acquire; 108 under random scheduling with a pool; 162 under `-wb`; 80 with SC accesses and fences, under both calculators and with the check at each step or at the end; 3 with a misplaced SC store | `GraphWellFormed`, `ViewsExact`, `WorkItemsValid`, `Exact`, `Optimal`, `Terminates` |
| `runtime` | 216 programs of three threads with locks, barriers, fences, dynamic memory, hazard pointers and spin loops; up to 2 preemptions | `MutualExclusion`, `NoLostLock`, `BarrierExact`, `NoLivelock`, `HappensBeforeExact`, `MemoryErrorsExact`, `DataRacesExact`, `SpinBlocksJustified`, `LivenessSound` |
| `filesystem` | 8 programs of two threads, 4 journalling configurations; every coherent store for reads without lock; recovery from every set of persisted writes | `FilesExact`, `LocksReleased`, `ReadsInitialized`, `LockedReadsExact`, `RecoveredInitialized`, `RecoveredDirectory`, `RecoveryExact` |
| `algorithms` | containers of up to 5 elements, 4 nodes, 8 events; 17 functions on 3-bit words | `SetsExact`, `RelationsExact`, `BlocksDisjoint`, `AnnotationsExact`, `SpinsEffectFree`, `EntriesJump` |
| `annotations` | two functions with a signed comparison and a remainder | **violated**: a value that would pass the `assume()` is dropped |
| `library` | queue clients under the Herlihy-Wing, weak and relaxed models, stack clients under all stack models, 8 racing clients under random scheduling; all revisits | `CallsIdentified`, `CommunicationExact` |
| `library_calls` | queue clients | **violated**: a finished call is not found as such |
| `library_sync` | lock clients | **violated**: a match counts as synchronising and is not |
| `hp_automaton` | 1 thread, 7 calls, 2 addresses | `LiftsWhatItHolds`, `ReclaimsOnce` |
| `hp_lookup` | 2 threads, 2 calls | **violated**: a label is looked up that does not exist |

The five violated properties state what comments in the code say:

* *Lost wake-up* (`ThreadPool.cpp:88`). A worker finds the queue empty, tests
  `shouldHalt()` and the counter without the mutex, and only then locks and
  waits, without a predicate. If the last task is retired in between, "notify
  everyone" does not reach it. The destructor of the pool notifies once more;
  if the worker misses that too, `join()` never returns. No *task* is affected:
  `QueuedTaskIsServed` holds, and is proved.
* *Calls never done* (`GenMCDriver.cpp:1344`). The branch for `EL_FunStart`
  closes the call that has just been opened, with `done` false and its start as
  its only label; COM and SO, read from the last label, are empty.
* *Synchronisation that is not* (`RC11Driver.cpp:232`). SO is recorded if the
  lock's CAS is an acquire, whatever the unlock's store is.
* *Missing label* (`GenMCDriver.cpp:1860`). `checkHp()` looks up the label
  after the start of every call, also of one that has only started.
* *Values lost* (`SExprVisitor.tcc:505`, `:416`). Conditions on loads are
  evaluated on unsigned words, signed comparisons included, and `urem` as a
  division; `assume(v < 0)` drops every store. With unsigned conditions, as in
  the 17 functions of `algorithms`, the annotation is exact.

### Observations

Other places where the code does less than its comments say, or differs from
what one would expect. They are modelled as they are; where a property has to
make room for one, its comment says so.

* *psc* (`PSCCalculator.cpp`, `addSbHbEdges`). The comment says that
  `[Fsc];hb?` edges are covered by `addSCEcos()`. They are not when the fence
  and the SC access are related by happens-before alone: with T1 `z = 1; Fsc;
  y =rel 1`, T2 `acq y = 1; sc x = 0`, T3 `x =sc 1; sc z = 0` the execution
  is accepted although psc is cyclic. The programs of `explore` do not contain
  this shape.
* *Free after use* (`GenMCDriver.cpp:1010`). When the free is added last, only
  accesses to the first address of the block are compared; for a retired block
  only the last unordered access is.
* *Hazard pointers.* `isHazptrProtected()` ignores `hazptr_clear`.
* *A write of 42 bytes* (`Execution.cpp:4233`). 42 also stands for "lock
  acquisition failed", and the description stays locked. In `FileSystem` the
  number is the constant `LockFailed`; programs in `filesystem` write fewer
  bytes.
* *Liveness.* `checkLiveness()` looks at spin loops only; threads stopped by a
  failed `assume()` do not count.
* *Release fences* (`ExecutionGraph.cpp:91`). The start, creation and end of
  threads count as release fences for later stores; happens-before is then
  larger than in RC11. The reference in `ProgramRuns` follows the code.
* *Acquire fences and joins* are not in the `hb` relation that the slow and
  full consistency checks build; the views have them.
* *Matched twice* (`GenMCDriver.cpp:1576`, `:1724`). Axiom 3 reads "every
  enqueue is matched by at most one dequeue and vice versa" (push and pop
  likewise); the code counts the matches of the insertion only. Nothing follows
  from it as long as calls have no matches at all (`library_calls`).
* *Narrow types.* Casts are dropped from conditions, `srem` and address
  calculations become "true", and values of types narrower than 64 bits are
  compared by their extended words.
* *File sizes.* `lseek` accepts negative results, a write that exceeds the
  maximal size returns 0, and truncating to exactly the maximal size fails.

### Bounds

* *Pool.* Three workers are needed for one to sleep, one to submit and one to
  retire the last task; three tasks for a task submitted by a task while
  another is queued. The threshold of `8 * size` is a parameter, 1 in the runs
  so that it is reached.
* *Programs.* Two threads with two accesses contain the classical litmus tests
  (store buffering, message passing, load buffering, coherence) with RMWs in
  all positions. Three threads on one location are the smallest programs in
  which a revisit makes a read an RMW whose store revisits in turn. The
  programs with a third thread that hands on a message exercise release
  sequences and transitive happens-before.
* *Library.* Two matched pairs can overtake each other; a third enqueue is
  needed for an order that holds only transitively. Slots are written once, so
  that the reader's choice is whether it finds a value.
* *Runs of a program.* Three threads are needed for two to wait for one mutex
  or spin loop. `MaxPreemptions` bounds how often a thread is left that could
  go on; two suffice to stop one thread before and another after the access
  that matters. Threads that block or end are left freely.
* *Writes-before and psc.* Up to five stores to one location, so that the
  order is not forced; store buffering and independent reads with SC accesses
  or fences in all positions.
* *Files.* Blocks of 2 bytes and files of up to 6 make writes cross blocks,
  leave gaps and hit the limit. Two names are needed for a rename.
* *Containers and words.* Five elements allow every order of two sets with
  common elements; four nodes contain cycles with a detour. On words of 3 bits
  sums and products overflow and shifts leave the word. Pools of up to 15
  addresses (`MaxPool`) hold several blocks with padding for every alignment.
* *Hazard pointers.* Seven calls drive the automaton through every transition
  and around its cycles.

No symmetry is used: threads differ by their programs and by their position in
the scheduling order.

### Fairness

`pool` and `pool_notification` assume strong fairness of each thread's
steps: the operating system runs every thread, and a mutex that is released
again and again is eventually granted. Spurious wake-ups are possible but never
promised. `explore` assumes that the thread running the driver is not
stopped. `runtime` needs no fairness: that every run ends is stated as a bound
on the labels added and removed (`NoLivelock`) together with the absence of
deadlock. Nothing is assumed about which of several enabled choices is made.

## 4. Proofs

All theorems hold for every value of the constants that satisfies the named
assumptions of the modules; TLC evaluates these assumptions on the instances of
section 3.

| Theorem | Module | Statement |
|---|---|---|
| `TypeCorrect` | `ThreadPoolProofs` | `Spec => []TypeOK` |
| `AccountingHolds` | `ThreadPoolProofs` | `Spec => []Accounting` |
| `NoEarlyHaltHolds` | `ThreadPoolProofs` | `Spec => []NoEarlyHalt` |
| `QueuedTasksAreServed` | `ThreadPoolProofs` | `Spec => []QueuedTaskIsServed` |
| `TasksAreConserved` | `ThreadPoolProofs` | `Spec => []TasksConserved` |
| `VerdictComplete` | `ThreadPoolProofs` | `Spec => []VerdictIsComplete` |
| `PoolImplementsTaskPool` | `ThreadPoolProofs` | `Spec => ImplementsTaskPool` |
| `LiftsAreOfHeldProtections` | `HpCheckerProofs` | `Spec => []LiftsWhatItHolds` |
| `ReclaimsAreSafe` | `HpCheckerProofs` | `Spec => []ReclaimsOnce` |
| `BlocksAreDisjoint` | `SAddrAllocatorProofs` | `PoolsSpec => []BlocksDisjoint` |
| `GraphsStayWellFormed` | `GenMCDriverProofs` | `Spec => []GraphWellFormed` |
| `WorkItemsStayValid` | `GenMCDriverProofs` | `Spec => []WorkItemsValid` |
| `GraphsAreWellFormed` | `LibraryLayerProofs` | `Spec => []WellFormed(graph)` |
| `CallsAreIdentified` | `LibraryLayerProofs` | `Spec => []CallsIdentified` |
| `FileSystemInvariant` | `FileSystemProofs` | `Spec => []IInv` |
| `FilesAreExact` | `FileSystemProofs` | `Spec => []FilesExact` |
| `ReadsAreInitialized` | `FileSystemProofs` | `Spec => []ReadsInitialized` |
| `LocksAreReleased` | `FileSystemProofs` | `ShortWrites` implies `Spec => []LocksReleased` |
| `SizesAreRecovered` | `FileSystemProofs` | `Spec => []RecoveredInitialized` |
| `DirectoryIsRecovered` | `FileSystemProofs` | `Spec => []RecoveredDirectory` |

### Thread pool

For every number of workers, every threshold and every number of tasks, from
`NAssumption`, `TasksPerWorkerAssumption` and `MaxTasksAssumption`.

The inductive invariant is `IInv == TypeOK /\ Control /\ Accounting`. The type
of `remaining` is not inductive: that a decrement does not go below zero
follows from `Accounting` (the worker that decrements holds a task), and
`Accounting` needs to know that a worker holds a task exactly at the program
counters where its loop does, which is `Control`. For `NoEarlyHalt` the
conjunct `WindDown` adds that every thread on its way into `halt()` or out of
its loop has seen a counter of zero or an error; once the counter is zero with
nobody busy nothing can raise it (`NothingRemains`). `QueuedTaskIsServed` is
inductive relative to `IInv`: whoever pushes is itself going to look at the
queue again, and a worker stops looking only after having found it empty.

`TasksConserved` says that an executed task is held by nobody but a worker that
is about to retire it; `Conserved` adds that such a worker's task *is*
executed, without which two executions of one task could not be excluded. All
steps but four leave tasks alone (`QuietSteps`). `VerdictIsComplete` speaks of
the end only: `Ending` says how many workers have been joined and that joined
workers have left; then nobody holds a task (`Control`), nobody will look at
the queue, so that it is empty (`QueuedTaskIsServed`), and what was submitted
is executed (`TasksConserved`). The refinement maps queue, running and
finished tasks to those of `TaskPool`; besides the above it needs `Supply`,
that the first task comes first and that tasks being submitted count towards
`MaxTasks`. Each step that concerns tasks is one step of `TaskPool`, each other
step a stutter.

### Hazard pointers

For any threads, addresses and number of calls. `checkHp()` runs an automaton
per address. `Meaning` states for each of its states what must have happened
in the calls so far: in `Holds0` (`Holds1`) the protection was taken and not
lifted since, in `Fresh0` (`Fresh1`) taken and not followed by a reclaim, in
`Lifted` taken and lifted with no reclaim since. That every transition of
`Steps` preserves `Meaning` is a finite case distinction; that the state after
n calls has its meaning is an induction over n.

### Address pools

For any `Sizes`, positive `Alignments` (not only powers of two) and any sequence
of allocations as long as the pools stay within `MaxPool`, which is below the
range of an unsigned int (`SizesAssumption`).
`BelowPool` strengthens `BlocksDisjoint`: every block ends at or before its
pool's next free address. An aligned address is at least the old one and at
most `alignment - 1` above it.

### Execution graphs

These lemmas of `ExecutionGraphProofs` are about the operators the exploration
and the library layer share.

`WellFormed` is what the runs check: reads read stores of their location that
are in the graph, coherence lists each store once, stamps are unique and
increase along threads. It is not preserved by cutting and copying on its own:
a store may be cut while a read of it stays. `GraphOk` therefore adds

* `PorfOk`: the porf view of an event is within the graph, ends at the event in
  its own thread and contains the views of the events in it; `RfOk`: the store
  that is read is in the view of the read;
* `CutPoint`: for each read that may still be revisited, the events older than
  it are closed under porf.

`CutPoint` is what makes `cutToStamp()` sound, and it holds only for
*revisitable* reads: `copyGraph` gives new stamps to the predecessors of the
revisiting store and makes the reads among them non-revisitable, and only so is
the invariant restored. This is why `ForwardRevisit` of `LibraryLayer` has the
code's condition `isRevisitable()` as its guard. A revisit passes through a
graph in which the read revisited still has its old store, possibly a missing
one: `GraphOkBut(g, r)` is the invariant without what concerns r, and
`ReadsFromOk` leads back to `GraphOk`. `Keeps` is the condition on a view that
makes restricting a graph to it sound (`RestrictOk`); the views of both kinds
of revisit satisfy it (`StampViewKeeps`, `RevisitViewKeeps`). Offsets in
coherence computed by `splitLocMOBefore()` and its companions are in range
(`SplitRange`, `StoreOffset`), so placing a store completes coherence
(`PlaceStoreOk`).

### Exploration

For any number of threads and locations, programs of any length (sequences of
instructions whose accesses are to locations, `ConfigsAssumption`), the three
scheduling policies, both coherence calculators, and any number of workers that
exchange graphs through the pool. `Exploration.Spec` is the whole driver: every
step of `GenMCDriver` is shown to preserve `DriverInv`, which is

* `StateOk` of the current graph and work queue: `GraphOk`, accesses to
  locations (`LocOk`), and `QueueOk`, that each item is about an event of the
  graph which has the stamp the item is filed under. `WorkItemsValid` says that
  much and that the item can be carried out; `ItemOk` adds why it *stays* so.
  The graph can be cut at the event (`CutPoint`); the store a read is to be
  given is older than the read, so it survives the cut, and it is not the one
  read now; items of one read are about different stores, so that after one of
  them is carried out the others still are about something else. An offset for
  a store is below the number of stores to its location *up to its stamp*,
  rather than of those now in the graph;
* `StackOk`: the same for every state that `calcRevisits()` has put aside
  (`SavedOk`), and the loads each call may still try are revisitable, of the
  location of the store, and outside its prefix (`FrameOk`). Between two steps all
  calls wait (`Waiting`), or all but the innermost (`Running`);
* `TasksOk`: the graphs in the pool satisfy `GraphOk` too.

Stamps are the delicate part: cutting resets the counter, so new events are
given stamps again that older items may have been filed under. It is sound
because an item is always taken under the largest stamp that has any
(`NextItemOk`); what is left in the queue is about events that the cut keeps, and
the two graphs agree up to the stamp (`RemainingOk`, `ForwardOk`). For stores,
`ItemKept` says that what an item promises depends only on the part of the
graph its stamp cuts to. A backward revisit leaves its caller's queue in the
saved state and starts an empty one in a copy (`BackwardOk`), where
`RestrictOk` and `ReadsFromOk` apply.

What a new read is offered is the coherence calculators' business: that they
return stores to the location in the graph, each once, is proved of the tracked
order from the range of its offsets (`MOStores`), and of writes-before from the
sorting of the stores, which is a permutation (`SortedFacts`, `WBStores`).
`DriverInv` was checked by TLC on programs of `MCGenMC` before it was proved.

### Calls of the library layer

For any number of threads, locations and instructions, any client programs
(`ConfigurationsAssumption`), and any sequence of visits and revisits.

`LibraryInv` is `GraphOk` with `LibOk` (the fields of the library layer's
labels; the read of a CAS knows the location its store will have) and `CallsOk`:
every label of a call has a start before it with the same number and no other
start in between, and no two starts have the same method and number. Numbers
are counted over the graph, so a revisit that removes calls makes their numbers
available again; a call that stays keeps its start since graphs are cut to
prefixes of threads.

### Files

For any number of threads and names, any programs of calls, any sizes of blocks
and files, all journalling modes with and without delayed allocation, all
coherent stores for reads without lock, and whichever writes had persisted at
the crash.

`IInv` consists of types, of `Owners` (an inode is locked by t exactly at the
points of t's call where the code between lock and unlock runs), of `ThreadOK`
(what is true of each thread at each point of its call), and of `FileOK` and
`DirOK` (an inode that nobody has locked is what `spec` says). A lookup without
the lock may find an entry that has been replaced, so `NamedInodes`, among the
types, says that earlier entries lead to inodes that exist, too. `FilesExact`
speaks of the moments without any lock; its proof needs to know what is true in
between: a thread in `bytes` has written the block up to some byte, and the file
is the old one up to the size and its own bytes beyond, so that the spec is met
when it stores the size.

Threads interfere only through the inodes they have locked. So each action is
shown to change no inode but those in a set that is its own or free
(`StepFrame`), and to establish `ThreadOK` and the promises for these
(`StepOwn`); `Preserved` draws the conclusion for all threads and inodes once.

*Locks of descriptions.* `LInv` adds that a description is locked only by a
thread at a point where it holds it. The hypothesis `ShortWrites`, no write of
`LockFailed` bytes or more, cannot be dropped: `executeWriteFS()` returns the
number of bytes written, and 42 also means that the lock was not available, in
which case the description is not released (section 3, Observations); a longer
write may be cut to 42 bytes by the limit on the size.

*Reads without the lock.* That a byte below a size has been written does not
help a reader that is given an old store. What does is happens-before from the
data to the size. `Handed` says that each store of a size, the newest or an
older one, comes with the knowledge (`sk`) of a write (`Among`) of every byte
below that size. Whoever reads a size then knows those writes, and
`CoherentStores` contains neither the initial value nor anything older than
they are. This is inductive with `KnownData`: a writer knows writes of all bytes
below the size, which it read under the lock, and of those it has added, so the
size it stores hands on all of them; a reader knows writes of what it is about
to read, and has found no byte unwritten. Both may learn more, and the history
may grow, which takes nothing away (`HandedSteady`, `FileGrows`).

*Sizes after a crash.* `SInv` is `KnownData` of all threads with `DataOK`, which is
the above for all inodes (`AllHanded`) and, in ordered mode, that every size in
the history of the disk is `Justified`: each byte it covers was written by a
write that persists before it, or was covered by an earlier size. `KnownData` is
why this is maintained, too: persists-before of the new size contains what its
thread knows of the range (`updateInodeDisksizeFS`). `PbClosed` says of the
matrix that `calcPb()` computes that it is closed under its direct edges, and
`RInv` that recovery's reads are valid together. By induction over the writes of
the size, a recovered size covers a byte only if recovery can no longer see
the disk before that byte. The frame of these proofs is `Adds`: an operation
only appends to the disk, and to locations of known classes.

*The directory after a crash.* All writes to the directory are made under its
lock, which hands on what its holder knew (`DirInv`); so each of them persists
after all those before it, except earlier ones to the same location, and
recovery sees a prefix of them (`ReadsAreShown`). It remains that every prefix
shows the directory as it was between two operations, or an open transaction,
which makes a lookup give up: `HInv`. A step writes to the directory at most once
(`DirMoves`), which is why a crash within a rename is no exception.

### Recursive functions

The library's induction theorems have an operator as parameter, which the
provers cannot instantiate. `InductionLemmas` states induction for *sets* of
numbers, from the well-foundedness of `<` (`NatLessThanWellFounded`, `WFMin`).
With it the existence and uniqueness of a function defined by recursion is
proved once for each such function (`FirstExists` for `StoresWithin`,
`RunExists` for the states of `checkHp()`, `SortedExists` for the insertion sort
of `-wb`, `ZeroingExists` for the bytes that `zeroDskRangeFS()` writes,
`PassExists` for the rows of `calcPb()`), and the rest of the proofs use its
equations.

### Model-checked only

* `TasksFinish` and `Terminates`: liveness under fairness is out of the
  prover's reach.
* `ViewsExact`, `Exact`, `Optimal` of the exploration. The first compares views
  with a closure over the graph; the other two compare the whole exploration
  with all executions of a program, which needs an argument about runs and not
  only about states.
* `CommunicationExact` of the library layer: its reference is a closure over
  the graph.
* The properties of `Bodies`, `SetsExact` and `RelationsExact`: their modules
  use recursive operators.
* `LockedReadsExact` of the file system: it takes an invariant on what every
  lock hands on, of sizes and bytes and of the directory at once; for the
  directory alone it is part of the proofs (`DirInv`).
* `RecoveryExact` of the file system. That recovery can read at all
  (`RecoveryCanRead`) depends on what descriptors without synchronisation know
  of each other's writes, hence on an invariant about the causal past of every
  event; the other half is close to the definition of `isRecAcyclic()`.
* The properties of `ProgramRuns`. Most compare the state reached with a
  reference over the whole graph; `MutualExclusion` does not, and is the one to
  prove next.

## 5. What is not modelled, and why

* The IMM and LKMM drivers with their calculators: they need dependencies
  between instructions, so the exploration would have to run on registers, and
  an axiomatic reference for each. The vector clocks with holes they rest on
  are in `Views`.
* LAPOR, symmetry reduction, confirmations and helping CASes: options that
  replace part of the exploration modelled here, each with conditions of its
  own on programs.
* The remaining LLVM passes: their correctness is a statement about LLVM's
  types, casts and debug information. Of `SpinAssumePass` the fetch-and-add and
  lock variants and the relation of PHI nodes, of `LoopJumpThreadingPass` the
  rewriting.
* Floating point and vector instructions, variable arguments, calls of native
  functions, dependency tracking.
* Parsing of options and of library models, printing, logging: input and
  output only. The axioms in `Axioms.cpp` are not called.

## 6. Plan

1. *Proofs:* `MutualExclusion` of `ProgramRuns`, then that porf views are exactly the closure of program order
   and reads-from (half of `ViewsExact`; `PorfOk` is one inclusion), and the
   operations of `VSet` and `Views`.
2. *Composition:* the exploration with locks and barriers, so that revisits in
   place meet backward revisits; the library layer on top of it.
3. *Library layer:* mutex clients, the strong queue with its scan past the end.
4. *Dependencies* and the IMM driver.
