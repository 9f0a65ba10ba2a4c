----------------------------- MODULE ThreadPool -----------------------------
(***************************************************************************)
(* The pool of exploration workers (ThreadPool.hpp, ThreadPool.cpp) and    *)
(* its only client, GenMCDriver::verify().                                 *)
(*                                                                         *)
(* Thread 0 is the thread that runs verify(): it constructs the pool,      *)
(* waits for the tasks, destroys the pool (halt, then join) and merges     *)
(* the workers' results.  Threads 1 .. N are the workers.  One step is one *)
(* access to shared memory: an atomic load or store, a queue operation     *)
(* under qMutex, or the acquisition of stateMtx_.                          *)
(*                                                                         *)
(* What a task explores is left out; what matters here is that, while it   *)
(* runs, it may submit further tasks (calcRevisits) and may report an      *)
(* error (GenMCDriver::halt).                                              *)
(***************************************************************************)
EXTENDS Naturals, Sequences, FiniteSets

CONSTANTS N,                \* numWorkers_, the value of -nthreads
          TasksPerWorker,   \* the 8 of calcRevisits' test for idle workers
          MaxTasks          \* bound: how many tasks are submitted altogether

ASSUME NAssumption == N \in Nat \ {0}
ASSUME TasksPerWorkerAssumption == TasksPerWorker \in Nat \ {0}
ASSUME MaxTasksAssumption == MaxTasks \in Nat \ {0}

Workers == 1 .. N
Threads == 0 .. N
Main    == 0
Free    == N + 1            \* stateMtx_ is not held
NoTask  == 0
Tasks   == 1 .. MaxTasks

VARIABLES queue,        \* queue_: the tasks waiting to be popped
          remaining,    \* remainingTasks_
          shouldHalt,   \* shouldHalt_
          stateMtx,     \* the thread that holds stateMtx_, or Free
          pc,           \* where each thread is
          ret,          \* where a thread continues after submit() or halt()
          task,         \* the task a worker has popped and not yet retired
          found,        \* result.status of a worker's driver is an error
          spawned,      \* workers_.size()
          joined,       \* how many workers ~ThreadJoiner has joined
          status,       \* the merged result of verify() is an error
          submitted,    \* history: how many tasks were pushed so far
          executed      \* history: the tasks that were run to the end

vars == <<queue, remaining, shouldHalt, stateMtx, pc, ret, task, found,
          spawned, joined, status, submitted, executed>>

shared == <<queue, remaining, shouldHalt, stateMtx>>
local  == <<ret, task, found, spawned, joined, status, submitted, executed>>

\* A worker blocked in stateCV_.wait() is at "waiting"; one that was
\* notified (or woke spuriously) and must reacquire stateMtx_ is at "woken".
WorkerPCs == {"unborn", "pop", "checkHalt", "checkRemaining", "waitLock",
              "waitSleep", "waiting", "woken", "run", "retire", "exited"}
MainPCs   == {"spawn", "waitHalt", "waitRemaining", "join", "merge", "done"}
CallPCs   == {"submitLock", "submitInc", "submitPush", "submitNotify",
              "haltLock", "haltStore", "haltNotify"}

-----------------------------------------------------------------------------
Goto(t, l) == pc' = [pc EXCEPT ![t] = l]

\* What ThreadPool() does before it creates the first worker: it is about to
\* submit the initial state of driver 0.
Init ==
  /\ queue = <<>>
  /\ remaining = 0
  /\ shouldHalt = FALSE
  /\ stateMtx = Free
  /\ pc = [t \in Threads |-> IF t = Main THEN "submitLock" ELSE "unborn"]
  /\ ret = [t \in Threads |-> IF t = Main THEN "spawn" ELSE "pop"]
  /\ task = [w \in Workers |-> NoTask]
  /\ found = [w \in Workers |-> FALSE]
  /\ spawned = 0
  /\ joined = 0
  /\ status = FALSE
  /\ submitted = 0
  /\ executed = {}

-----------------------------------------------------------------------------
(* submit(): everything happens under stateMtx_, but popTask() reads the   *)
(* queue and remainingTasks_ without it.                                   *)

SubmitLock(t) ==
  /\ pc[t] = "submitLock" /\ stateMtx = Free
  /\ stateMtx' = t
  /\ Goto(t, "submitInc")
  /\ UNCHANGED <<queue, remaining, shouldHalt, local>>

\* Faulty variant: the task is not counted.
SubmitIncDropped(t) ==
  /\ pc[t] = "submitInc"
  /\ Goto(t, "submitPush")
  /\ UNCHANGED <<shared, local>>

SubmitInc(t) ==
  /\ pc[t] = "submitInc"
  /\ remaining' = remaining + 1
  /\ Goto(t, "submitPush")
  /\ UNCHANGED <<queue, shouldHalt, stateMtx, local>>

SubmitPush(t) ==
  /\ pc[t] = "submitPush"
  /\ queue' = Append(queue, submitted + 1)
  /\ submitted' = submitted + 1
  /\ Goto(t, "submitNotify")
  /\ UNCHANGED <<remaining, shouldHalt, stateMtx, ret, task, found, spawned,
                 joined, status, executed>>

Waiting == {w \in Workers : pc[w] = "waiting"}

\* notify_one() wakes some waiter, if there is one; then stateMtx_ is
\* released.
SubmitNotify(t) ==
  /\ pc[t] = "submitNotify"
  /\ stateMtx' = Free
  /\ \/ /\ Waiting = {}
        /\ Goto(t, ret[t])
     \/ \E w \in Waiting :
          pc' = [pc EXCEPT ![t] = ret[t], ![w] = "woken"]
  /\ UNCHANGED <<queue, remaining, shouldHalt, local>>

-----------------------------------------------------------------------------
(* halt() *)

HaltLock(t) ==
  /\ pc[t] = "haltLock" /\ stateMtx = Free
  /\ stateMtx' = t
  /\ Goto(t, "haltStore")
  /\ UNCHANGED <<queue, remaining, shouldHalt, local>>

HaltStore(t) ==
  /\ pc[t] = "haltStore"
  /\ shouldHalt' = TRUE
  /\ Goto(t, "haltNotify")
  /\ UNCHANGED <<queue, remaining, stateMtx, local>>

\* notify_all() and the release of stateMtx_.
HaltNotify(t) ==
  /\ pc[t] = "haltNotify"
  /\ stateMtx' = Free
  /\ pc' = [u \in Threads |-> IF u = t THEN ret[t]
                              ELSE IF pc[u] = "waiting" THEN "woken"
                              ELSE pc[u]]
  /\ UNCHANGED <<queue, remaining, shouldHalt, local>>

-----------------------------------------------------------------------------
(* popTask() *)

\* Faulty variant: the task is read but not removed.
PopTaskCopies(w) ==
  /\ pc[w] = "pop"
  /\ \/ /\ queue # <<>>
        /\ task' = [task EXCEPT ![w] = queue[Len(queue)]]
        /\ Goto(w, "run")
     \/ /\ queue = <<>>
        /\ Goto(w, "checkHalt")
        /\ UNCHANGED task
  /\ UNCHANGED <<shared, ret, found, spawned, joined, status, submitted,
                 executed>>

\* tryPopPoolQueue(); tryStealOtherQueue() finds nothing.
PopTask(w) ==
  /\ pc[w] = "pop"
  /\ \/ /\ queue # <<>>
        /\ task' = [task EXCEPT ![w] = queue[Len(queue)]]
        /\ queue' = SubSeq(queue, 1, Len(queue) - 1)
        /\ Goto(w, "run")
     \/ /\ queue = <<>>
        /\ Goto(w, "checkHalt")
        /\ UNCHANGED <<queue, task>>
  /\ UNCHANGED <<remaining, shouldHalt, stateMtx, ret, found, spawned, joined,
                 status, submitted, executed>>

\* Faulty variant: a worker leaves when the queue is empty.
CheckHaltAlways(w) ==
  /\ pc[w] = "checkHalt"
  /\ Goto(w, "exited")
  /\ UNCHANGED <<shared, local>>

CheckHalt(w) ==
  /\ pc[w] = "checkHalt"
  /\ Goto(w, IF shouldHalt THEN "exited" ELSE "checkRemaining")
  /\ UNCHANGED <<shared, local>>

CheckRemaining(w) ==
  /\ pc[w] = "checkRemaining"
  /\ Goto(w, IF remaining = 0 THEN "exited" ELSE "waitLock")
  /\ UNCHANGED <<shared, local>>

WaitLock(w) ==
  /\ pc[w] = "waitLock" /\ stateMtx = Free
  /\ stateMtx' = w
  /\ Goto(w, "waitSleep")
  /\ UNCHANGED <<queue, remaining, shouldHalt, local>>

\* stateCV_.wait(lock) has no predicate: it releases the mutex and blocks
\* whatever happened since the two checks.
WaitSleep(w) ==
  /\ pc[w] = "waitSleep"
  /\ stateMtx' = Free
  /\ Goto(w, "waiting")
  /\ UNCHANGED <<queue, remaining, shouldHalt, local>>

\* wait() returns with the mutex, which the end of the loop body releases.
WakeUp(w) ==
  /\ pc[w] = "woken" /\ stateMtx = Free
  /\ Goto(w, "pop")
  /\ UNCHANGED <<shared, local>>

\* A condition variable may wake a waiter nobody notified.
SpuriousWakeup(w) ==
  /\ pc[w] = "waiting"
  /\ Goto(w, "woken")
  /\ UNCHANGED <<shared, local>>

-----------------------------------------------------------------------------
(* The body of a worker: driver->run(), then decRemainingTasks(). *)

\* calcRevisits() compares remainingTasks_ with workers_.size().  While the
\* constructor is still pushing to workers_ that size is read in a data
\* race, and the test may go either way.
PoolHasRoom ==
  \/ spawned < N
  \/ remaining < TasksPerWorker * spawned

InFlight == {t \in Threads : pc[t] \in {"submitLock", "submitInc", "submitPush"}}

\* calcRevisits() hands a backward revisit to the pool.  This can happen after
\* halt() too: the items of the explorations that this one is nested in are
\* still revisited.  (A task taken after halt() visits nothing and submits
\* nothing; the model lets it submit.)
RunSubmit(w) ==
  /\ pc[w] = "run"
  /\ PoolHasRoom
  /\ submitted + Cardinality(InFlight) < MaxTasks
  /\ ret' = [ret EXCEPT ![w] = "run"]
  /\ Goto(w, "submitLock")
  /\ UNCHANGED <<shared, task, found, spawned, joined, status, submitted,
                 executed>>

\* visitError() records the error and halts the driver and the pool; a
\* driver that is halting does not visit anything any more.
RunError(w) ==
  /\ pc[w] = "run"
  /\ ~found[w]
  /\ found' = [found EXCEPT ![w] = TRUE]
  /\ ret' = [ret EXCEPT ![w] = "run"]
  /\ Goto(w, "haltLock")
  /\ UNCHANGED <<shared, task, spawned, joined, status, submitted, executed>>

RunFinish(w) ==
  /\ pc[w] = "run"
  /\ executed' = executed \cup {task[w]}
  /\ Goto(w, "retire")
  /\ UNCHANGED <<shared, ret, task, found, spawned, joined, status, submitted>>

\* Faulty variant: a worker leaves after its first task.
RetireAlwaysLeaves(w) ==
  /\ pc[w] = "retire"
  /\ remaining' = remaining - 1
  /\ task' = [task EXCEPT ![w] = NoTask]
  /\ \/ /\ remaining' = 0
        /\ ret' = [ret EXCEPT ![w] = "exited"]
        /\ Goto(w, "haltLock")
     \/ /\ remaining' # 0
        /\ Goto(w, "exited")
        /\ UNCHANGED ret
  /\ UNCHANGED <<queue, shouldHalt, stateMtx, found, spawned, joined, status,
                 submitted, executed>>

\* if (decRemainingTasks() == 0) { halt(); break; }
Retire(w) ==
  /\ pc[w] = "retire"
  /\ remaining' = remaining - 1
  /\ task' = [task EXCEPT ![w] = NoTask]
  /\ \/ /\ remaining' = 0
        /\ ret' = [ret EXCEPT ![w] = "exited"]
        /\ Goto(w, "haltLock")
     \/ /\ remaining' # 0
        /\ Goto(w, "pop")
        /\ UNCHANGED ret
  /\ UNCHANGED <<queue, shouldHalt, stateMtx, found, spawned, joined, status,
                 submitted, executed>>

-----------------------------------------------------------------------------
(* verify(): the rest of ThreadPool(), waitForTasks(), ~ThreadPool(), the  *)
(* destruction of joiner_, and the loop over the futures.                  *)

AddWorker ==
  /\ pc[Main] = "spawn" /\ spawned < N
  /\ spawned' = spawned + 1
  /\ pc' = [pc EXCEPT ![spawned + 1] = "pop"]
  /\ UNCHANGED <<shared, ret, task, found, joined, status, submitted, executed>>

Constructed ==
  /\ pc[Main] = "spawn" /\ spawned = N
  /\ Goto(Main, "waitHalt")
  /\ UNCHANGED <<shared, local>>

Destroy ==
  /\ ret' = [ret EXCEPT ![Main] = "join"]
  /\ Goto(Main, "haltLock")
  /\ UNCHANGED <<shared, task, found, spawned, joined, status, submitted,
                 executed>>

WaitForTasksHalt ==
  /\ pc[Main] = "waitHalt"
  /\ \/ shouldHalt /\ Destroy
     \/ /\ ~shouldHalt
        /\ Goto(Main, "waitRemaining")
        /\ UNCHANGED <<shared, local>>

WaitForTasksRemaining ==
  /\ pc[Main] = "waitRemaining"
  /\ \/ remaining = 0 /\ Destroy
     \/ /\ remaining # 0
        /\ Goto(Main, "waitHalt")
        /\ UNCHANGED <<shared, local>>

\* Faulty variant: the workers are not waited for.
JoinDetached ==
  /\ pc[Main] = "join"
  /\ Goto(Main, "merge")
  /\ UNCHANGED <<shared, local>>

Join ==
  /\ pc[Main] = "join"
  /\ \/ /\ joined < N /\ pc[joined + 1] = "exited"
        /\ joined' = joined + 1
        /\ UNCHANGED pc
     \/ /\ joined = N
        /\ Goto(Main, "merge")
        /\ UNCHANGED joined
  /\ UNCHANGED <<shared, ret, task, found, spawned, status, submitted, executed>>

\* for (auto &f : futures) res += f.get();
Merge ==
  /\ pc[Main] = "merge"
  /\ status' = \E w \in Workers : found[w]
  /\ Goto(Main, "done")
  /\ UNCHANGED <<shared, ret, task, found, spawned, joined, submitted, executed>>

-----------------------------------------------------------------------------
Call(t) == \/ SubmitLock(t) \/ SubmitInc(t) \/ SubmitPush(t) \/ SubmitNotify(t)
           \/ HaltLock(t) \/ HaltStore(t) \/ HaltNotify(t)

WorkerStep(w) ==
  \/ Call(w)
  \/ PopTask(w) \/ CheckHalt(w) \/ CheckRemaining(w)
  \/ WaitLock(w) \/ WaitSleep(w) \/ WakeUp(w)
  \/ RunSubmit(w) \/ RunError(w) \/ RunFinish(w) \/ Retire(w)

MainStep ==
  \/ Call(Main)
  \/ AddWorker \/ Constructed
  \/ WaitForTasksHalt \/ WaitForTasksRemaining
  \/ Join \/ Merge

\* verify() has returned.
Finished ==
  /\ pc[Main] = "done"
  /\ UNCHANGED vars

Next ==
  \/ MainStep
  \/ \E w \in Workers : WorkerStep(w) \/ SpuriousWakeup(w)
  \/ Finished

\* The operating system runs every thread.  The only steps that can be
\* enabled and disabled again are acquisitions of stateMtx_: fairness is
\* strong because a mutex that is released again and again is eventually
\* granted to each thread that wants it.  Nothing is promised of spurious
\* wake-ups.
Fairness == SF_vars(MainStep) /\ \A w \in Workers : SF_vars(WorkerStep(w))

Spec == Init /\ [][Next]_vars
FairSpec == Spec /\ Fairness
-----------------------------------------------------------------------------
(* Properties *)

\* Every variable keeps the type its C++ declaration gives it; the unsigned
\* remainingTasks_ never wraps below zero.
TypeOK ==
  /\ queue \in Seq(Nat \ {0})
  /\ remaining \in Nat
  /\ shouldHalt \in BOOLEAN
  /\ stateMtx \in Threads \cup {Free}
  /\ pc \in [Threads -> WorkerPCs \cup MainPCs \cup CallPCs]
  /\ ret \in [Threads -> {"spawn", "join", "pop", "run", "exited"}]
  /\ task \in [Workers -> Nat]
  /\ found \in [Workers -> BOOLEAN]
  /\ spawned \in 0 .. N
  /\ joined \in 0 .. N
  /\ status \in BOOLEAN
  /\ submitted \in Nat
  /\ executed \subseteq Nat

Busy    == {w \in Workers : task[w] # NoTask}
Pushing == {t \in Threads : pc[t] = "submitPush"}

\* remainingTasks_ is the number of tasks that are queued, being executed, or
\* announced by a submit() that has not pushed yet.  popTask() and the
\* worker's loop read it without a lock and rely on it: a count that is too
\* small ends the verification with graphs left unexplored.
Accounting ==
  remaining = Len(queue) + Cardinality(Busy) + Cardinality(Pushing)

\* Where a thread may be inside a critical section of stateMtx_.
HoldsStateMtx == {"submitInc", "submitPush", "submitNotify",
                  "haltStore", "haltNotify", "waitSleep"}

Queued  == {queue[i] : i \in 1 .. Len(queue)}
Running == {task[w] : w \in Busy}

\* No task is lost and none is executed twice: each task pushed so far is in
\* exactly one place, once in the queue, or with one worker, or done.
TasksConserved ==
  /\ Queued \cup Running \cup executed = 1 .. submitted
  /\ Queued \cap (Running \cup executed) = {}
  /\ \A i, j \in 1 .. Len(queue) : queue[i] = queue[j] => i = j
  /\ \A v, w \in Busy : task[v] = task[w] => v = w
  /\ \A w \in Busy : task[w] \in executed => pc[w] = "retire"

\* A thread that is certain to look at the queue again.
WillPop(t) ==
  \/ t # Main /\ pc[t] \in {"pop", "run", "retire", "woken"}
  \/ t # Main /\ pc[t] \in CallPCs /\ ret[t] = "run"
  \/ t = Main /\ spawned = 0

\* A queued task never depends on a notification: whatever wake-up was lost,
\* some worker is awake that will come back to the queue.
QueuedTaskIsServed == queue # <<>> => \E t \in Threads : WillPop(t)

ErrorFound == \E w \in Workers : found[w]

\* The pool winds down only when nothing is left to do or after an error:
\* no worker leaves, and shouldHalt_ is not set, while graphs remain.
NoEarlyHalt ==
  shouldHalt \/ (\E w \in Workers : pc[w] = "exited")
    => remaining = 0 \/ ErrorFound

\* When verify() has merged the futures, every task that was ever submitted
\* has been executed (even after an error, the queue is drained), and the
\* verdict reflects every worker's result.
VerdictIsComplete ==
  pc[Main] = "done" =>
    /\ executed = 1 .. submitted
    /\ queue = <<>> /\ remaining = 0
    /\ status = ErrorFound

\* The pool implements what verify() expects of it.
Promise == INSTANCE TaskPool WITH
  todo     <- Queued,
  running  <- Running \ executed,
  executed <- executed,
  closed   <- pc[Main] = "done"

ImplementsTaskPool == Promise!ASpec

\* Every task submitted is eventually executed, although wake-ups may be
\* lost.
TasksFinish == <>[](executed = 1 .. submitted)

\* The comment in addWorker(): "If that was the last task, notify everyone".
\* Once the last task is done, every worker learns of it and leaves.
EveryoneNotified ==
  (submitted > 0 /\ remaining = 0) ~> (\A w \in Workers : pc[w] = "exited")
=============================================================================
