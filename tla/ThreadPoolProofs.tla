-------------------------- MODULE ThreadPoolProofs --------------------------
(***************************************************************************)
(* Proofs about ThreadPool, for every number of workers and of tasks.      *)
(*                                                                         *)
(* remainingTasks_ is decremented without a lock, and neither its type nor *)
(* its meaning is inductive alone: that it does not wrap needs Accounting, *)
(* which needs to know which workers hold a task from where they are.      *)
(* Control says that, and IInv is the conjunction that is inductive.       *)
(***************************************************************************)
EXTENDS ThreadPool, TLAPS, FiniteSetTheorems, SequenceTheorems

SubmitPCs == {"submitLock", "submitInc", "submitPush", "submitNotify"}
HaltPCs   == {"haltLock", "haltStore", "haltNotify"}

\* A worker is running a task: in its driver, or in a call its driver makes.
InTask(w) ==
  \/ pc[w] \in {"run", "retire"}
  \/ pc[w] \in CallPCs /\ ret[w] = "run"

MainControl ==
  /\ pc[Main] \in MainPCs \cup CallPCs
  /\ ret[Main] \in {"spawn", "join"}
  /\ pc[Main] \in SubmitPCs => ret[Main] = "spawn" /\ spawned = 0
  /\ pc[Main] \in HaltPCs => ret[Main] = "join"

WorkerControl(w) ==
  /\ pc[w] \in WorkerPCs \cup CallPCs
  /\ ret[w] \in {"pop", "run", "exited"}
  /\ task[w] # NoTask <=> InTask(w)
  /\ pc[w] \in SubmitPCs => ret[w] = "run"
  /\ pc[w] \in HaltPCs => ret[w] \in {"run", "exited"}
  /\ pc[w] = "unborn" <=> spawned < w

Control == MainControl /\ \A w \in Workers : WorkerControl(w)

\* Some thread is winding the pool down, or has.
WindingDown ==
  \/ shouldHalt
  \/ \E t \in Threads : pc[t] \in HaltPCs \cup {"exited"}

WindDown ==
  /\ WindingDown => remaining = 0 \/ ErrorFound
  /\ pc[Main] \in SubmitPCs => ~shouldHalt

IInv == TypeOK /\ Control /\ Accounting
-----------------------------------------------------------------------------
(* Counting *)

\* The sets that Accounting counts are finite.
LEMMA Finite ==
  ASSUME TypeOK
  PROVE  /\ IsFiniteSet(Busy) /\ Cardinality(Busy) \in Nat
         /\ IsFiniteSet(Pushing) /\ Cardinality(Pushing) \in Nat
         /\ Busy \subseteq Workers /\ Pushing \subseteq Threads
<1>1. IsFiniteSet(Workers)
  BY FS_Interval, NAssumption DEF Workers
<1>2. IsFiniteSet(Threads)
  BY FS_Interval, NAssumption DEF Threads
<1>3. Busy \subseteq Workers /\ Pushing \subseteq Threads
  BY DEF Busy, Pushing
<1>4. IsFiniteSet(Busy) /\ IsFiniteSet(Pushing)
  BY <1>1, <1>2, <1>3, FS_Subset
<1> QED
  BY <1>3, <1>4, FS_CardinalityType

\* Workers are threads, and the main thread is not a worker.
LEMMA WorkersAreThreads ==
  /\ Workers \subseteq Threads
  /\ Main \in Threads /\ Main \notin Workers
  /\ Threads = Workers \cup {Main}
BY NAssumption DEF Workers, Threads, Main

\* A worker that runs a task is counted, so remainingTasks_ is not zero.
LEMMA BusyCounted ==
  ASSUME IInv, NEW w \in Workers, InTask(w)
  PROVE  /\ w \in Busy
         /\ Cardinality(Busy \ {w}) = Cardinality(Busy) - 1
         /\ remaining \in Nat /\ remaining > 0
         /\ remaining - 1 = Len(queue) + Cardinality(Busy \ {w}) + Cardinality(Pushing)
<1>1. w \in Busy
  BY DEF IInv, Control, WorkerControl, Busy
<1>2. IsFiniteSet(Busy) /\ Cardinality(Busy) \in Nat /\ Cardinality(Pushing) \in Nat
  BY Finite DEF IInv
<1>3. IsFiniteSet(Busy \ {w}) /\ Cardinality(Busy \ {w}) = Cardinality(Busy) - 1
  BY <1>1, <1>2, FS_RemoveElement
<1>4. Cardinality(Busy \ {w}) \in Nat
  BY <1>3, FS_CardinalityType
<1>5. Len(queue) \in Nat
  BY LenProperties DEF IInv, TypeOK
<1> QED
  BY <1>1, <1>2, <1>3, <1>4, <1>5 DEF IInv, Accounting, TypeOK
-----------------------------------------------------------------------------
(* IInv is inductive *)

\* The constructor has counted nothing and pushed nothing yet.
LEMMA InitIInv == Init => IInv
<1> SUFFICES ASSUME Init PROVE IInv
  OBVIOUS
<1>1. TypeOK
  BY NAssumption DEF Init, TypeOK, Threads, Workers, Main, Free, NoTask,
     WorkerPCs, MainPCs, CallPCs
<1>2. Control
  BY NAssumption DEF Init, Control, MainControl, WorkerControl, InTask, Threads,
     Workers, Main, NoTask, WorkerPCs, CallPCs, SubmitPCs, HaltPCs
<1>3. Busy = {} /\ Pushing = {}
  BY DEF Init, Busy, Pushing
<1>4. Accounting
  BY <1>3, FS_EmptySet DEF Init, Accounting
<1> QED
  BY <1>1, <1>2, <1>4 DEF IInv

\* A step that leaves the queue, the count and the tasks alone, and moves
\* threads between places that are not between increment and push.
LEMMA AccountingUnchanged ==
  ASSUME IInv, UNCHANGED <<queue, remaining, task>>,
         \A t \in Threads : pc'[t] = "submitPush" <=> pc[t] = "submitPush"
  PROVE  Accounting'
<1>1. Busy' = Busy
  BY DEF Busy
<1>2. Pushing' = Pushing
  BY DEF Pushing
<1> QED
  BY <1>1, <1>2 DEF IInv, Accounting

USE DEF Goto

\* submit() preserves IInv: the count and the queue change in turn.
LEMMA SubmitPreserves ==
  ASSUME IInv, NEW t \in Threads,
         SubmitLock(t) \/ SubmitInc(t) \/ SubmitPush(t) \/ SubmitNotify(t)
  PROVE  IInv'
<1>a. TypeOK /\ Control /\ Accounting
  BY DEF IInv
<1>1. CASE SubmitLock(t)
  <2>1. TypeOK'
    BY <1>1, <1>a DEF SubmitLock, local, TypeOK, CallPCs
  <2>2. Control'
    BY <1>1, <1>a, WorkersAreThreads DEF SubmitLock, local, TypeOK, Control, MainControl, WorkerControl,
       InTask, CallPCs, WorkerPCs, MainPCs, SubmitPCs, HaltPCs
  <2>3. Accounting'
    BY <1>1, <1>a, AccountingUnchanged DEF SubmitLock, local, TypeOK
  <2> QED BY <2>1, <2>2, <2>3 DEF IInv
<1>2. CASE SubmitInc(t)
  <2>1. TypeOK'
    BY <1>2, <1>a DEF SubmitInc, local, TypeOK, CallPCs
  <2>2. Control'
    BY <1>2, <1>a, WorkersAreThreads DEF SubmitInc, local, TypeOK, Control, MainControl, WorkerControl,
       InTask, CallPCs, WorkerPCs, MainPCs, SubmitPCs, HaltPCs
  <2>3. Pushing' = Pushing \cup {t} /\ t \notin Pushing /\ Busy' = Busy
    BY <1>2, <1>a DEF SubmitInc, local, TypeOK, Pushing, Busy
  <2>4. Cardinality(Pushing') = Cardinality(Pushing) + 1
    BY <2>3, <1>a, Finite, FS_AddElement
  <2>5. Len(queue) \in Nat
    BY <1>a, LenProperties DEF TypeOK
  <2>6. Accounting'
    BY <1>2, <1>a, <2>3, <2>4, <2>5, Finite DEF SubmitInc, local, TypeOK, Accounting
  <2> QED BY <2>1, <2>2, <2>6 DEF IInv
<1>3. CASE SubmitPush(t)
  <2>0. /\ queue' \in Seq(Nat \ {0}) /\ Len(queue') = Len(queue) + 1
        /\ Len(queue) \in Nat
    <3>1. submitted + 1 \in Nat \ {0} /\ queue \in Seq(Nat \ {0})
      BY <1>a DEF TypeOK
    <3> QED
      BY <1>3, <3>1, AppendProperties, LenProperties DEF SubmitPush
  <2>1. TypeOK'
    BY <1>3, <1>a, <2>0 DEF SubmitPush, TypeOK, CallPCs
  <2>2. Control'
    BY <1>3, <1>a, WorkersAreThreads DEF SubmitPush, TypeOK, Control, MainControl, WorkerControl,
       InTask, CallPCs, WorkerPCs, MainPCs, SubmitPCs, HaltPCs
  <2>3. Pushing' = Pushing \ {t} /\ t \in Pushing /\ Busy' = Busy
    BY <1>3, <1>a DEF SubmitPush, TypeOK, Pushing, Busy
  <2>4. Cardinality(Pushing') = Cardinality(Pushing) - 1
    BY <2>3, <1>a, Finite, FS_RemoveElement
  <2>6. Accounting'
    BY <1>3, <1>a, <2>0, <2>3, <2>4, Finite DEF SubmitPush, TypeOK, Accounting
  <2> QED BY <2>1, <2>2, <2>6 DEF IInv
<1>4. CASE SubmitNotify(t)
  <2>0. PICK w \in Threads :
          \/ w = t /\ pc' = [pc EXCEPT ![t] = ret[t]]
          \/ w \in Workers /\ w # t /\ pc[w] = "waiting"
             /\ pc' = [pc EXCEPT ![t] = ret[t], ![w] = "woken"]
    BY <1>4, WorkersAreThreads DEF SubmitNotify, Waiting
  <2>1. TypeOK'
    BY <1>4, <1>a, <2>0 DEF SubmitNotify, local, TypeOK, WorkerPCs, MainPCs
  <2>2. Control'
    BY <1>4, <1>a, <2>0, WorkersAreThreads DEF SubmitNotify, local, TypeOK, Control, MainControl, WorkerControl,
       InTask, CallPCs, WorkerPCs, MainPCs, SubmitPCs, HaltPCs
  <2>3. Accounting'
    BY <1>4, <1>a, <2>0, AccountingUnchanged DEF SubmitNotify, local, TypeOK
  <2> QED BY <2>1, <2>2, <2>3 DEF IInv
<1> QED
  BY <1>1, <1>2, <1>3, <1>4

\* halt() preserves IInv.
LEMMA HaltPreserves ==
  ASSUME IInv, NEW t \in Threads, HaltLock(t) \/ HaltStore(t) \/ HaltNotify(t)
  PROVE  IInv'
<1>a. TypeOK /\ Control /\ Accounting
  BY DEF IInv
<1>1. CASE HaltLock(t)
  <2>1. TypeOK'
    BY <1>1, <1>a DEF HaltLock, local, TypeOK, CallPCs, WorkerPCs, MainPCs
  <2>2. Control'
    BY <1>1, <1>a, WorkersAreThreads DEF HaltLock, local, TypeOK, Control, MainControl, WorkerControl,
       InTask, CallPCs, WorkerPCs, MainPCs, SubmitPCs, HaltPCs
  <2>3. Accounting'
    BY <1>1, <1>a, AccountingUnchanged DEF HaltLock, local, TypeOK
  <2> QED BY <2>1, <2>2, <2>3 DEF IInv
<1>2. CASE HaltStore(t)
  <2>1. TypeOK'
    BY <1>2, <1>a DEF HaltStore, local, TypeOK, CallPCs, WorkerPCs, MainPCs
  <2>2. Control'
    BY <1>2, <1>a, WorkersAreThreads DEF HaltStore, local, TypeOK, Control, MainControl, WorkerControl,
       InTask, CallPCs, WorkerPCs, MainPCs, SubmitPCs, HaltPCs
  <2>3. Accounting'
    BY <1>2, <1>a, AccountingUnchanged DEF HaltStore, local, TypeOK
  <2> QED BY <2>1, <2>2, <2>3 DEF IInv
<1>3. CASE HaltNotify(t)
  <2>1. TypeOK'
    BY <1>3, <1>a DEF HaltNotify, local, TypeOK, CallPCs, WorkerPCs, MainPCs
  <2>2. Control'
    BY <1>3, <1>a, WorkersAreThreads DEF HaltNotify, local, TypeOK, Control, MainControl, WorkerControl,
       InTask, CallPCs, WorkerPCs, MainPCs, SubmitPCs, HaltPCs
  <2>3. Accounting'
    BY <1>3, <1>a, AccountingUnchanged DEF HaltNotify, local, TypeOK
  <2> QED BY <2>1, <2>2, <2>3 DEF IInv
<1> QED
  BY <1>1, <1>2, <1>3

\* popTask() preserves IInv: a task moves from the queue to a worker.
LEMMA PopPreserves ==
  ASSUME IInv, NEW w \in Workers,
         \/ PopTask(w) \/ CheckHalt(w) \/ CheckRemaining(w)
         \/ WaitLock(w) \/ WaitSleep(w) \/ WakeUp(w) \/ SpuriousWakeup(w)
  PROVE  IInv'
<1>a. TypeOK /\ Control /\ Accounting
  BY DEF IInv
<1>b. w \in Threads /\ w # Main
  BY WorkersAreThreads
<1>1. CASE PopTask(w) /\ queue # <<>>
  <2>0. /\ queue' \in Seq(Nat \ {0}) /\ Len(queue') = Len(queue) - 1
        /\ Len(queue) \in Nat /\ queue[Len(queue)] \in Nat \ {0}
    <3>1. queue \in Seq(Nat \ {0}) /\ Len(queue) \in Nat /\ Len(queue) # 0
      BY <1>1, <1>a, LenProperties, EmptySeq DEF TypeOK
    <3>2. queue' = SubSeq(queue, 1, Len(queue) - 1)
      BY <1>1 DEF PopTask
    <3>3. Len(queue) \in 1 .. Len(queue)
      BY <3>1
    <3>4. queue[Len(queue)] \in Nat \ {0}
      BY <3>1, <3>3, ElementOfSeq
    <3>5. queue' \in Seq(Nat \ {0}) /\ Len(queue') = Len(queue) - 1
      <4>1. \A i \in 1 .. Len(queue) - 1 : queue[i] \in Nat \ {0}
        BY <3>1, ElementOfSeq
      <4>2. PICK n \in Nat : n = Len(queue) - 1
        BY <3>1
      <4>3. /\ SubSeq(queue, 1, n) \in Seq(Nat \ {0})
            /\ Len(SubSeq(queue, 1, n)) = IF 1 <= n THEN n - 1 + 1 ELSE 0
        BY <4>1, <4>2, SubSeqProperties
      <4>4. queue' = SubSeq(queue, 1, n)
        BY <3>2, <4>2
      <4>5. Len(queue') = n
        BY <4>3, <4>4
      <4> QED
        BY <4>2, <4>3, <4>4, <4>5
    <3> QED
      BY <3>1, <3>4, <3>5
  <2>a. /\ pc[w] = "pop" /\ pc' = [pc EXCEPT ![w] = "run"]
        /\ task' = [task EXCEPT ![w] = queue[Len(queue)]]
        /\ UNCHANGED <<remaining, shouldHalt, stateMtx, ret, found, spawned,
                       joined, status, submitted, executed>>
    BY <1>1 DEF PopTask
  <2>1. TypeOK'
    BY <1>a, <1>b, <2>0, <2>a DEF TypeOK, WorkerPCs
  <2>2. Control'
    BY <1>a, <1>b, <2>0, <2>a, WorkersAreThreads DEF NoTask, TypeOK, Control, MainControl, WorkerControl,
       InTask, CallPCs, WorkerPCs, MainPCs, SubmitPCs, HaltPCs
  <2>3. Busy' = Busy \cup {w} /\ w \notin Busy
    BY <1>a, <2>0, <2>a DEF NoTask, TypeOK, Busy, Control, WorkerControl, InTask, CallPCs
  <2>4. Pushing' = Pushing
    BY <1>a, <2>a DEF TypeOK, Pushing
  <2>5. Cardinality(Busy') = Cardinality(Busy) + 1
    BY <2>3, <1>a, Finite, FS_AddElement
  <2>6. Accounting'
    BY <1>a, <2>0, <2>a, <2>4, <2>5, Finite DEF TypeOK, Accounting
  <2> QED BY <2>1, <2>2, <2>6 DEF IInv
<1>2. CASE PopTask(w) /\ queue = <<>>
  <2>1. TypeOK'
    BY <1>2, <1>a, <1>b DEF PopTask, TypeOK, CallPCs, WorkerPCs, MainPCs
  <2>2. Control'
    BY <1>2, <1>a, WorkersAreThreads, <1>b DEF PopTask, TypeOK, Control, MainControl, WorkerControl,
       InTask, CallPCs, WorkerPCs, MainPCs, SubmitPCs, HaltPCs
  <2>3. Accounting'
    BY <1>2, <1>a, AccountingUnchanged, <1>b DEF PopTask, TypeOK
  <2> QED BY <2>1, <2>2, <2>3 DEF IInv
<1>3. CASE CheckHalt(w)
  <2>1. TypeOK'
    BY <1>3, <1>a, <1>b DEF CheckHalt, shared, local, TypeOK, CallPCs, WorkerPCs, MainPCs
  <2>2. Control'
    BY <1>3, <1>a, WorkersAreThreads, <1>b DEF CheckHalt, shared, local, TypeOK, Control, MainControl, WorkerControl,
       InTask, CallPCs, WorkerPCs, MainPCs, SubmitPCs, HaltPCs
  <2>3. Accounting'
    BY <1>3, <1>a, AccountingUnchanged, <1>b DEF CheckHalt, shared, local, TypeOK
  <2> QED BY <2>1, <2>2, <2>3 DEF IInv
<1>4. CASE CheckRemaining(w)
  <2>1. TypeOK'
    BY <1>4, <1>a, <1>b DEF CheckRemaining, shared, local, TypeOK, CallPCs, WorkerPCs, MainPCs
  <2>2. Control'
    BY <1>4, <1>a, WorkersAreThreads, <1>b DEF CheckRemaining, shared, local, TypeOK, Control, MainControl, WorkerControl,
       InTask, CallPCs, WorkerPCs, MainPCs, SubmitPCs, HaltPCs
  <2>3. Accounting'
    BY <1>4, <1>a, AccountingUnchanged, <1>b DEF CheckRemaining, shared, local, TypeOK
  <2> QED BY <2>1, <2>2, <2>3 DEF IInv
<1>5. CASE WaitLock(w)
  <2>1. TypeOK'
    BY <1>5, <1>a, <1>b DEF WaitLock, local, TypeOK, CallPCs, WorkerPCs, MainPCs
  <2>2. Control'
    BY <1>5, <1>a, WorkersAreThreads, <1>b DEF WaitLock, local, TypeOK, Control, MainControl, WorkerControl,
       InTask, CallPCs, WorkerPCs, MainPCs, SubmitPCs, HaltPCs
  <2>3. Accounting'
    BY <1>5, <1>a, AccountingUnchanged, <1>b DEF WaitLock, local, TypeOK
  <2> QED BY <2>1, <2>2, <2>3 DEF IInv
<1>6. CASE WaitSleep(w)
  <2>1. TypeOK'
    BY <1>6, <1>a, <1>b DEF WaitSleep, local, TypeOK, CallPCs, WorkerPCs, MainPCs
  <2>2. Control'
    BY <1>6, <1>a, WorkersAreThreads, <1>b DEF WaitSleep, local, TypeOK, Control, MainControl, WorkerControl,
       InTask, CallPCs, WorkerPCs, MainPCs, SubmitPCs, HaltPCs
  <2>3. Accounting'
    BY <1>6, <1>a, AccountingUnchanged, <1>b DEF WaitSleep, local, TypeOK
  <2> QED BY <2>1, <2>2, <2>3 DEF IInv
<1>7. CASE WakeUp(w)
  <2>1. TypeOK'
    BY <1>7, <1>a, <1>b DEF WakeUp, shared, local, TypeOK, CallPCs, WorkerPCs, MainPCs
  <2>2. Control'
    BY <1>7, <1>a, WorkersAreThreads, <1>b DEF WakeUp, shared, local, TypeOK, Control, MainControl, WorkerControl,
       InTask, CallPCs, WorkerPCs, MainPCs, SubmitPCs, HaltPCs
  <2>3. Accounting'
    BY <1>7, <1>a, AccountingUnchanged, <1>b DEF WakeUp, shared, local, TypeOK
  <2> QED BY <2>1, <2>2, <2>3 DEF IInv
<1>8. CASE SpuriousWakeup(w)
  <2>1. TypeOK'
    BY <1>8, <1>a, <1>b DEF SpuriousWakeup, shared, local, TypeOK, CallPCs, WorkerPCs, MainPCs
  <2>2. Control'
    BY <1>8, <1>a, WorkersAreThreads, <1>b DEF SpuriousWakeup, shared, local, TypeOK, Control, MainControl, WorkerControl,
       InTask, CallPCs, WorkerPCs, MainPCs, SubmitPCs, HaltPCs
  <2>3. Accounting'
    BY <1>8, <1>a, AccountingUnchanged, <1>b DEF SpuriousWakeup, shared, local, TypeOK
  <2> QED BY <2>1, <2>2, <2>3 DEF IInv
<1> QED
  BY <1>1, <1>2, <1>3, <1>4, <1>5, <1>6, <1>7, <1>8

\* The body of a worker preserves IInv: a retired task is uncounted.
LEMMA RunPreserves ==
  ASSUME IInv, NEW w \in Workers,
         RunSubmit(w) \/ RunError(w) \/ RunFinish(w) \/ Retire(w)
  PROVE  IInv'
<1>a. TypeOK /\ Control /\ Accounting
  BY DEF IInv
<1>b. w \in Threads /\ w # Main
  BY WorkersAreThreads
<1>1. CASE RunSubmit(w)
  <2>1. TypeOK'
    BY <1>1, <1>a, <1>b DEF RunSubmit, shared, TypeOK, CallPCs, WorkerPCs, MainPCs
  <2>2. Control'
    BY <1>1, <1>a, WorkersAreThreads, <1>b DEF RunSubmit, shared, TypeOK, Control, MainControl, WorkerControl,
       InTask, CallPCs, WorkerPCs, MainPCs, SubmitPCs, HaltPCs
  <2>3. Accounting'
    BY <1>1, <1>a, AccountingUnchanged, <1>b DEF RunSubmit, shared, TypeOK
  <2> QED BY <2>1, <2>2, <2>3 DEF IInv
<1>2. CASE RunError(w)
  <2>1. TypeOK'
    BY <1>2, <1>a, <1>b DEF RunError, shared, TypeOK, CallPCs, WorkerPCs, MainPCs
  <2>2. Control'
    BY <1>2, <1>a, WorkersAreThreads, <1>b DEF RunError, shared, TypeOK, Control, MainControl, WorkerControl,
       InTask, CallPCs, WorkerPCs, MainPCs, SubmitPCs, HaltPCs
  <2>3. Accounting'
    BY <1>2, <1>a, AccountingUnchanged, <1>b DEF RunError, shared, TypeOK
  <2> QED BY <2>1, <2>2, <2>3 DEF IInv
<1>3. CASE RunFinish(w)
  <2>1. TypeOK'
    BY <1>3, <1>a, <1>b DEF RunFinish, shared, TypeOK, CallPCs, WorkerPCs, MainPCs
  <2>2. Control'
    BY <1>3, <1>a, WorkersAreThreads, <1>b DEF RunFinish, shared, TypeOK, Control, MainControl, WorkerControl,
       InTask, CallPCs, WorkerPCs, MainPCs, SubmitPCs, HaltPCs
  <2>3. Accounting'
    BY <1>3, <1>a, AccountingUnchanged, <1>b DEF RunFinish, shared, TypeOK
  <2> QED BY <2>1, <2>2, <2>3 DEF IInv
<1>4. CASE Retire(w)
  <2>0. /\ w \in Busy /\ Cardinality(Busy \ {w}) = Cardinality(Busy) - 1
        /\ remaining \in Nat /\ remaining > 0
        /\ remaining - 1 = Len(queue) + Cardinality(Busy \ {w}) + Cardinality(Pushing)
    BY <1>4, BusyCounted DEF Retire, InTask
  <2>a. /\ pc[w] = "retire" /\ remaining' = remaining - 1
        /\ task' = [task EXCEPT ![w] = NoTask]
        /\ \/ /\ pc' = [pc EXCEPT ![w] = "haltLock"]
              /\ ret' = [ret EXCEPT ![w] = "exited"]
           \/ /\ pc' = [pc EXCEPT ![w] = "pop"]
              /\ ret' = ret
        /\ UNCHANGED <<queue, shouldHalt, stateMtx, found, spawned, joined,
                       status, submitted, executed>>
    BY <1>4 DEF Retire
  <2>b. remaining' \in Nat
    BY <2>0, <2>a
  <2>1. TypeOK'
    BY <1>a, <1>b, <2>a, <2>b DEF TypeOK, WorkerPCs, CallPCs, NoTask
  <2>2. Control'
    BY <1>a, <1>b, <2>a, WorkersAreThreads DEF NoTask, TypeOK, Control, MainControl, WorkerControl,
       InTask, CallPCs, WorkerPCs, MainPCs, SubmitPCs, HaltPCs
  <2>3. Busy' = Busy \ {w}
    BY <1>a, <2>a DEF TypeOK, Busy
  <2>4. Pushing' = Pushing
    BY <1>a, <2>a DEF TypeOK, Pushing
  <2>5. Accounting'
    BY <2>0, <2>a, <2>3, <2>4 DEF Accounting
  <2> QED BY <2>1, <2>2, <2>5 DEF IInv
<1> QED
  BY <1>1, <1>2, <1>3, <1>4

\* The steps of verify() preserve IInv.
LEMMA MainPreserves ==
  ASSUME IInv,
         \/ AddWorker \/ Constructed \/ WaitForTasksHalt
         \/ WaitForTasksRemaining \/ Join \/ Merge
  PROVE  IInv'
<1>a. TypeOK /\ Control /\ Accounting
  BY DEF IInv
<1>b. Main \in Threads /\ Main \notin Workers
  BY WorkersAreThreads
<1>1. CASE AddWorker
  <2>0. spawned + 1 \in Workers /\ spawned + 1 \in Threads
    BY <1>1, <1>a, NAssumption DEF AddWorker, TypeOK, Workers, Threads
  <2>1. TypeOK'
    BY <1>1, <1>a, <1>b, <2>0, NAssumption DEF AddWorker, shared, TypeOK, WorkerPCs
  <2>2. Control'
    BY <1>1, <1>a, <1>b, <2>0, WorkersAreThreads DEF AddWorker, shared, Workers, TypeOK, Control, MainControl, WorkerControl,
       InTask, CallPCs, WorkerPCs, MainPCs, SubmitPCs, HaltPCs
  <2>3. Accounting'
    <3>1. pc[spawned + 1] = "unborn"
      BY <1>a, <2>0 DEF Control, WorkerControl, TypeOK
    <3> QED
      BY <1>1, <1>a, <2>0, <3>1, AccountingUnchanged DEF AddWorker, shared, TypeOK
  <2> QED BY <2>1, <2>2, <2>3 DEF IInv
<1>2. CASE Constructed
  <2>1. TypeOK'
    BY <1>2, <1>a, <1>b DEF Constructed, shared, local, TypeOK, CallPCs, WorkerPCs, MainPCs
  <2>2. Control'
    BY <1>2, <1>a, WorkersAreThreads, <1>b DEF Constructed, shared, local, TypeOK, Control, MainControl, WorkerControl,
       InTask, CallPCs, WorkerPCs, MainPCs, SubmitPCs, HaltPCs
  <2>3. Accounting'
    BY <1>2, <1>a, AccountingUnchanged, <1>b DEF Constructed, shared, local, TypeOK
  <2> QED BY <2>1, <2>2, <2>3 DEF IInv
<1>3. CASE WaitForTasksHalt
  <2>1. TypeOK'
    BY <1>3, <1>a, <1>b DEF WaitForTasksHalt, Destroy, shared, local, TypeOK, CallPCs, WorkerPCs, MainPCs
  <2>2. Control'
    BY <1>3, <1>a, WorkersAreThreads, <1>b DEF WaitForTasksHalt, Destroy, shared, local, TypeOK, Control, MainControl, WorkerControl,
       InTask, CallPCs, WorkerPCs, MainPCs, SubmitPCs, HaltPCs
  <2>3. Accounting'
    BY <1>3, <1>a, AccountingUnchanged, <1>b DEF WaitForTasksHalt, Destroy, shared, local, TypeOK
  <2> QED BY <2>1, <2>2, <2>3 DEF IInv
<1>4. CASE WaitForTasksRemaining
  <2>1. TypeOK'
    BY <1>4, <1>a, <1>b DEF WaitForTasksRemaining, Destroy, shared, local, TypeOK, CallPCs, WorkerPCs, MainPCs
  <2>2. Control'
    BY <1>4, <1>a, WorkersAreThreads, <1>b DEF WaitForTasksRemaining, Destroy, shared, local, TypeOK, Control, MainControl, WorkerControl,
       InTask, CallPCs, WorkerPCs, MainPCs, SubmitPCs, HaltPCs
  <2>3. Accounting'
    BY <1>4, <1>a, AccountingUnchanged, <1>b DEF WaitForTasksRemaining, Destroy, shared, local, TypeOK
  <2> QED BY <2>1, <2>2, <2>3 DEF IInv
<1>5. CASE Join
  <2>1. TypeOK'
    <3>1. joined' \in 0 .. N
      BY <1>5, <1>a, NAssumption DEF Join, TypeOK
    <3>2. pc' \in [Threads -> WorkerPCs \cup MainPCs \cup CallPCs]
      BY <1>5, <1>a, <1>b DEF Join, TypeOK, MainPCs
    <3> QED
      BY <1>5, <1>a, <3>1, <3>2 DEF Join, shared, TypeOK
  <2>2. Control'
    BY <1>5, <1>a, WorkersAreThreads, <1>b DEF Join, shared, TypeOK, Control, MainControl, WorkerControl,
       InTask, CallPCs, WorkerPCs, MainPCs, SubmitPCs, HaltPCs
  <2>3. Accounting'
    BY <1>5, <1>a, AccountingUnchanged, <1>b DEF Join, shared, TypeOK
  <2> QED BY <2>1, <2>2, <2>3 DEF IInv
<1>6. CASE Merge
  <2>1. TypeOK'
    BY <1>6, <1>a, <1>b DEF Merge, shared, TypeOK, CallPCs, WorkerPCs, MainPCs
  <2>2. Control'
    BY <1>6, <1>a, WorkersAreThreads, <1>b DEF Merge, shared, TypeOK, Control, MainControl, WorkerControl,
       InTask, CallPCs, WorkerPCs, MainPCs, SubmitPCs, HaltPCs
  <2>3. Accounting'
    BY <1>6, <1>a, AccountingUnchanged, <1>b DEF Merge, shared, TypeOK
  <2> QED BY <2>1, <2>2, <2>3 DEF IInv
<1> QED
  BY <1>1, <1>2, <1>3, <1>4, <1>5, <1>6

\* Every step of the pool preserves IInv.
LEMMA NextIInv == IInv /\ [Next]_vars => IInv'
<1> SUFFICES ASSUME IInv, [Next]_vars PROVE IInv'
  OBVIOUS
<1>1. CASE UNCHANGED vars
  <2>1. TypeOK' /\ Control'
    BY <1>1 DEF vars, IInv, TypeOK, Control, MainControl, WorkerControl, InTask
  <2>2. Accounting'
    BY <1>1, AccountingUnchanged DEF vars
  <2> QED
    BY <2>1, <2>2 DEF IInv
<1>2. CASE MainStep
  BY <1>2, SubmitPreserves, HaltPreserves, MainPreserves, WorkersAreThreads
     DEF MainStep, Call
<1>3. ASSUME NEW w \in Workers, WorkerStep(w) \/ SpuriousWakeup(w) PROVE IInv'
  BY <1>3, SubmitPreserves, HaltPreserves, PopPreserves, RunPreserves,
     WorkersAreThreads DEF WorkerStep, Call
<1>4. CASE Finished
  BY <1>1, <1>4 DEF Finished
<1> QED
  BY <1>1, <1>2, <1>3, <1>4 DEF Next

\* IInv holds in every reachable state of the pool.
THEOREM InductiveInvariant == Spec => []IInv
<1> QED
  BY InitIInv, NextIInv, PTL DEF Spec

\* The variables of the pool keep their types for every number of workers; in
\* particular decRemainingTasks() never takes the unsigned counter below 0.
THEOREM TypeCorrect == Spec => []TypeOK
<1>1. IInv => TypeOK
  BY DEF IInv
<1> QED
  BY <1>1, InductiveInvariant, PTL

\* remainingTasks_ always counts the tasks that are queued, running, or about
\* to be pushed, although it is updated in three places under no common lock.
THEOREM AccountingHolds == Spec => []Accounting
<1>1. IInv => Accounting
  BY DEF IInv
<1> QED
  BY <1>1, InductiveInvariant, PTL
-----------------------------------------------------------------------------
(* Winding down *)

\* When nothing remains, nobody runs a task, so nobody can submit one.
LEMMA NothingRemains ==
  IInv /\ remaining = 0 => queue = <<>> /\ \A w \in Workers : ~InTask(w)
<1> SUFFICES ASSUME IInv, remaining = 0
             PROVE  queue = <<>> /\ \A w \in Workers : ~InTask(w)
  OBVIOUS
<1>1. \A w \in Workers : ~InTask(w)
  BY BusyCounted
<1>2. /\ queue \in Seq(Nat \ {0}) /\ Len(queue) \in Nat
      /\ Cardinality(Busy) \in Nat /\ Cardinality(Pushing) \in Nat
  BY Finite, LenProperties DEF IInv, TypeOK
<1>3. Len(queue) = 0
  BY <1>2 DEF IInv, Accounting
<1>4. queue = <<>>
  BY <1>2, <1>3, EmptySeq
<1> QED
  BY <1>1, <1>4

\* Initially the pool is not being wound down.
LEMMA InitWindDown == Init => WindDown
BY WorkersAreThreads DEF Init, WindDown, WindingDown, HaltPCs, Main

\* A worker that has announced an error keeps it.
LEMMA ErrorsAreKept ==
  ASSUME TypeOK, [Next]_vars, ErrorFound
  PROVE  ErrorFound'
<1>1. PICK v \in Workers : found[v]
  BY DEF ErrorFound
<1>2. found' = found \/ \E w \in Workers : found' = [found EXCEPT ![w] = TRUE]
  BY DEF Next, MainStep, WorkerStep, Call, Finished, vars, local, shared,
     SubmitLock, SubmitInc, SubmitPush, SubmitNotify, HaltLock, HaltStore,
     HaltNotify, PopTask, CheckHalt, CheckRemaining, WaitLock, WaitSleep,
     WakeUp, SpuriousWakeup, RunSubmit, RunError, RunFinish, Retire, AddWorker,
     Constructed, WaitForTasksHalt, WaitForTasksRemaining, Destroy, Join, Merge
<1> QED
  BY <1>1, <1>2 DEF ErrorFound, TypeOK

\* A step that does not begin to wind the pool down.
LEMMA WindDownKept ==
  ASSUME IInv, WindDown, [Next]_vars,
         WindingDown' => WindingDown, remaining = 0 => remaining' = 0,
         pc'[Main] \in SubmitPCs /\ shouldHalt' => pc[Main] \in SubmitPCs /\ shouldHalt
  PROVE  WindDown'
BY ErrorsAreKept DEF WindDown, IInv

\* submit() and halt() preserve WindDown: only a busy worker submits.
LEMMA CallWindDown ==
  ASSUME IInv, WindDown, [Next]_vars, NEW t \in Threads, Call(t)
  PROVE  WindDown'
<1>a. TypeOK /\ Control
  BY DEF IInv
<1>1. CASE SubmitLock(t) \/ SubmitPush(t)
  BY <1>1, <1>a, WindDownKept, WorkersAreThreads DEF SubmitLock, SubmitPush, local, TypeOK,
     WindingDown, SubmitPCs, HaltPCs
<1>2. CASE SubmitNotify(t)
  <2>1. ret[t] \notin {"exited"} \cup HaltPCs \cup SubmitPCs
    BY <1>2, <1>a, WorkersAreThreads DEF SubmitNotify, Control, MainControl, WorkerControl,
       SubmitPCs, HaltPCs
  <2>2. PICK w \in Threads :
          \/ w = t /\ pc' = [pc EXCEPT ![t] = ret[t]]
          \/ w \in Workers /\ w # t /\ pc[w] = "waiting"
             /\ pc' = [pc EXCEPT ![t] = ret[t], ![w] = "woken"]
    BY <1>2, WorkersAreThreads DEF SubmitNotify, Waiting
  <2>3. \A u \in Threads : pc'[u] \in HaltPCs \cup SubmitPCs \cup {"exited"} => pc'[u] = pc[u]
    BY <1>a, <2>1, <2>2 DEF TypeOK, SubmitPCs, HaltPCs
  <2>4. remaining' = remaining /\ shouldHalt' = shouldHalt
    BY <1>2 DEF SubmitNotify
  <2> QED
    BY <2>3, <2>4, WindDownKept, WorkersAreThreads DEF WindingDown
<1>3. CASE SubmitInc(t)
  <2>1. CASE t = Main
    <3>1. spawned = 0 /\ \A w \in Workers : pc[w] = "unborn"
      BY <1>3, <1>a, <2>1 DEF SubmitInc, Control, MainControl, WorkerControl, SubmitPCs,
         Workers, TypeOK
    <3>2. ~shouldHalt
      BY <1>3, <2>1 DEF SubmitInc, WindDown, SubmitPCs
    <3>3. ~WindingDown' /\ ~shouldHalt'
      BY <1>3, <1>a, <2>1, <3>1, <3>2, WorkersAreThreads DEF SubmitInc, TypeOK, WindingDown, HaltPCs
    <3> QED
      BY <3>3 DEF WindDown
  <2>2. CASE t # Main
    <3>1. t \in Workers /\ InTask(t)
      BY <1>3, <1>a, <2>2, WorkersAreThreads DEF SubmitInc, Control, WorkerControl, InTask,
         SubmitPCs, CallPCs
    <3>2. remaining \in Nat /\ remaining > 0
      BY <3>1, BusyCounted
    <3> QED
      BY <1>3, <1>a, <3>2, WorkersAreThreads, WindDownKept DEF SubmitInc, TypeOK,
         WindingDown, SubmitPCs, HaltPCs
  <2> QED
    BY <2>1, <2>2
<1>4. CASE HaltLock(t) \/ HaltNotify(t)
  <2>1. WindingDown
    BY <1>4 DEF HaltLock, HaltNotify, WindingDown, HaltPCs
  <2>2. remaining' = remaining /\ shouldHalt' = shouldHalt
    BY <1>4 DEF HaltLock, HaltNotify
  <2>3. pc'[Main] \in SubmitPCs => pc[Main] \in SubmitPCs
    BY <1>4, <1>a, WorkersAreThreads DEF HaltLock, HaltNotify, TypeOK, SubmitPCs
  <2> QED
    BY <2>1, <2>2, <2>3, WindDownKept
<1>5. CASE HaltStore(t)
  <2>1. WindingDown /\ remaining' = remaining
    BY <1>5 DEF HaltStore, WindingDown, HaltPCs
  <2>2. pc'[Main] \notin SubmitPCs
    <3>1. CASE t = Main
      BY <1>5, <1>a, <3>1, WorkersAreThreads DEF HaltStore, TypeOK, SubmitPCs
    <3>2. CASE t # Main
      BY <1>5, <1>a, <3>2, WorkersAreThreads DEF HaltStore, TypeOK, SubmitPCs, Control, MainControl,
         WorkerControl, Workers
    <3> QED
      BY <3>1, <3>2
  <2> QED
    BY <2>1, <2>2, WindDownKept
<1> QED
  BY <1>1, <1>2, <1>3, <1>4, <1>5 DEF Call

\* The steps of a worker preserve WindDown.
LEMMA WorkerWindDown ==
  ASSUME IInv, WindDown, [Next]_vars, NEW w \in Workers,
         WorkerStep(w) \/ SpuriousWakeup(w)
  PROVE  WindDown'
<1>a. TypeOK /\ w \in Threads /\ w # Main /\ Main \in Threads
  BY WorkersAreThreads DEF IInv
<1>1. CASE Call(w)
  BY <1>1, <1>a, CallWindDown
<1>2. CASE \/ PopTask(w) \/ WaitLock(w) \/ WaitSleep(w) \/ WakeUp(w)
           \/ SpuriousWakeup(w) \/ RunSubmit(w) \/ RunFinish(w)
  <2>1. \A t \in Threads : pc'[t] \in HaltPCs \cup {"exited"} => pc'[t] = pc[t]
    BY <1>2, <1>a DEF PopTask, WaitLock, WaitSleep, WakeUp, SpuriousWakeup,
       RunSubmit, RunFinish, TypeOK, HaltPCs
  <2>2. pc'[Main] = pc[Main] /\ remaining' = remaining /\ shouldHalt' = shouldHalt
    BY <1>2, <1>a DEF PopTask, WaitLock, WaitSleep, WakeUp, SpuriousWakeup,
       RunSubmit, RunFinish, TypeOK, shared
  <2> QED
    BY <2>1, <2>2, WindDownKept DEF WindingDown
<1>3. CASE CheckHalt(w)
  <2>1. pc'[Main] = pc[Main] /\ remaining' = remaining /\ shouldHalt' = shouldHalt
    BY <1>3, <1>a DEF CheckHalt, shared, TypeOK
  <2>2. WindingDown' => WindingDown
    BY <1>3, <1>a, <2>1 DEF CheckHalt, WindingDown, HaltPCs, TypeOK
  <2> QED
    BY <2>1, <2>2, WindDownKept
<1>4. CASE CheckRemaining(w)
  <2>1. pc'[Main] = pc[Main] /\ remaining' = remaining /\ shouldHalt' = shouldHalt
    BY <1>4, <1>a DEF CheckRemaining, shared, TypeOK
  <2>2. CASE remaining = 0
    BY <2>1, <2>2 DEF WindDown
  <2>3. CASE remaining # 0
    <3>1. WindingDown' => WindingDown
      BY <1>4, <1>a, <2>1, <2>3 DEF CheckRemaining, WindingDown, HaltPCs, TypeOK
    <3> QED
      BY <2>1, <3>1, WindDownKept
  <2> QED
    BY <2>2, <2>3
<1>5. CASE RunError(w)
  <2>1. ErrorFound' /\ pc'[Main] = pc[Main] /\ shouldHalt' = shouldHalt
    BY <1>5, <1>a DEF RunError, shared, TypeOK, ErrorFound
  <2> QED
    BY <2>1 DEF WindDown
<1>6. CASE Retire(w)
  <2>1. remaining \in Nat /\ remaining > 0
    BY <1>6, BusyCounted DEF Retire, InTask
  <2>2. pc'[Main] = pc[Main] /\ shouldHalt' = shouldHalt
    BY <1>6, <1>a DEF Retire, TypeOK
  <2>3. CASE remaining' = 0
    BY <2>2, <2>3 DEF WindDown
  <2>4. CASE remaining' # 0
    <3>1. WindingDown' => WindingDown
      BY <1>6, <1>a, <2>2, <2>4 DEF Retire, WindingDown, HaltPCs, TypeOK
    <3> QED
      BY <2>1, <2>2, <3>1, WindDownKept
  <2> QED
    BY <2>3, <2>4
<1> QED
  BY <1>1, <1>2, <1>3, <1>4, <1>5, <1>6 DEF WorkerStep

\* The steps of verify() preserve WindDown.
LEMMA MainWindDown ==
  ASSUME IInv, WindDown, [Next]_vars, MainStep
  PROVE  WindDown'
<1>a. TypeOK /\ Main \in Threads
  BY WorkersAreThreads DEF IInv
<1>1. CASE Call(Main)
  BY <1>1, <1>a, CallWindDown
<1>2. CASE AddWorker \/ Constructed \/ Join \/ Merge
  <2>0. remaining' = remaining /\ shouldHalt' = shouldHalt
    BY <1>2 DEF AddWorker, Constructed, Join, Merge, shared
  <2>1. \A t \in Threads : pc'[t] \in HaltPCs \cup SubmitPCs \cup {"exited"} => pc'[t] = pc[t]
    <3>1. CASE AddWorker
      BY <3>1, <1>a DEF AddWorker, TypeOK, HaltPCs, SubmitPCs
    <3>2. CASE Constructed \/ Join \/ Merge
      BY <3>2, <1>a DEF Constructed, Join, Merge, TypeOK, HaltPCs, SubmitPCs
    <3> QED
      BY <1>2, <3>1, <3>2
  <2> QED
    BY <1>a, <2>0, <2>1, WindDownKept DEF WindingDown
<1>3. CASE WaitForTasksHalt \/ WaitForTasksRemaining
  <2>0. remaining' = remaining /\ shouldHalt' = shouldHalt /\ found' = found
    BY <1>3 DEF WaitForTasksHalt, WaitForTasksRemaining, Destroy, shared, local
  <2>1. pc'[Main] \notin SubmitPCs
    BY <1>3, <1>a DEF WaitForTasksHalt, WaitForTasksRemaining, Destroy, TypeOK, SubmitPCs
  <2>2. CASE shouldHalt \/ remaining = 0
    BY <2>0, <2>1, <2>2 DEF WindDown, WindingDown, ErrorFound
  <2>3. CASE ~shouldHalt /\ remaining # 0
    <3>1. \A t \in Threads : pc'[t] \in HaltPCs \cup {"exited"} => pc'[t] = pc[t]
      BY <1>3, <1>a, <2>3 DEF WaitForTasksHalt, WaitForTasksRemaining, TypeOK, HaltPCs
    <3> QED
      BY <2>0, <2>1, <3>1, WindDownKept DEF WindingDown
  <2> QED
    BY <2>2, <2>3
<1> QED
  BY <1>1, <1>2, <1>3 DEF MainStep

\* For every number of workers: the pool is wound down only when no task is
\* left or an error was found; no worker leaves while there is work.
THEOREM NoEarlyHaltHolds == Spec => []NoEarlyHalt
<1>1. IInv /\ WindDown /\ [Next]_vars => WindDown'
  <2> SUFFICES ASSUME IInv, WindDown, [Next]_vars PROVE WindDown'
    OBVIOUS
  <2>1. CASE UNCHANGED vars
    BY <2>1 DEF vars, WindDown, WindingDown, ErrorFound
  <2>2. CASE MainStep
    BY <2>2, MainWindDown
  <2>3. ASSUME NEW w \in Workers, WorkerStep(w) \/ SpuriousWakeup(w) PROVE WindDown'
    BY <2>3, WorkerWindDown
  <2> QED
    BY <2>1, <2>2, <2>3 DEF Next, Finished
<1>2. WindDown => NoEarlyHalt
  BY WorkersAreThreads DEF WindDown, WindingDown, NoEarlyHalt
<1> QED
  BY <1>1, <1>2, InitWindDown, InductiveInvariant, PTL DEF Spec
-----------------------------------------------------------------------------
(* Lost wake-ups do not lose tasks *)

\* The thread that pushes a task will look at the queue itself later.
LEMMA PusherPops ==
  ASSUME Control, NEW t \in Threads, pc[t] = "submitPush"
  PROVE  WillPop(t)
BY WorkersAreThreads DEF Control, MainControl, WorkerControl, WillPop, SubmitPCs, CallPCs

\* A step that adds nothing to the queue and after which whoever was going to
\* look at the queue still is.
LEMMA ServedKept ==
  ASSUME QueuedTaskIsServed, queue' # <<>> => queue # <<>>,
         \A t \in Threads : WillPop(t) => WillPop(t)'
  PROVE  QueuedTaskIsServed'
BY DEF QueuedTaskIsServed

\* submit() and halt() leave someone who serves the queue.
LEMMA CallServed ==
  ASSUME IInv, QueuedTaskIsServed, NEW t \in Threads, Call(t)
  PROVE  QueuedTaskIsServed'
<1>a. TypeOK /\ Control
  BY DEF IInv
<1>1. CASE SubmitLock(t) \/ SubmitInc(t) \/ HaltLock(t) \/ HaltStore(t)
  <2>1. \A u \in Threads : WillPop(u) => WillPop(u)'
    BY <1>1, <1>a DEF SubmitLock, SubmitInc, HaltLock, HaltStore, local, TypeOK, WillPop, CallPCs
  <2>2. queue' = queue
    BY <1>1 DEF SubmitLock, SubmitInc, HaltLock, HaltStore
  <2> QED
    BY <2>1, <2>2, ServedKept
<1>2. CASE SubmitPush(t)
  <2>1. WillPop(t)
    BY <1>2, <1>a, PusherPops DEF SubmitPush
  <2>2. WillPop(t)'
    BY <1>2, <1>a, <2>1 DEF SubmitPush, TypeOK, WillPop, CallPCs
  <2> QED
    BY <2>2 DEF QueuedTaskIsServed
<1>3. CASE SubmitNotify(t)
  <2>1. PICK w \in Threads :
          \/ w = t /\ pc' = [pc EXCEPT ![t] = ret[t]]
          \/ w \in Workers /\ w # t /\ pc[w] = "waiting"
             /\ pc' = [pc EXCEPT ![t] = ret[t], ![w] = "woken"]
    BY <1>3, WorkersAreThreads DEF SubmitNotify, Waiting
  <2>2. \A u \in Threads : WillPop(u) => WillPop(u)'
    BY <1>3, <1>a, <2>1, WorkersAreThreads DEF SubmitNotify, local, TypeOK, WillPop, CallPCs
  <2>3. queue' = queue
    BY <1>3 DEF SubmitNotify
  <2> QED
    BY <2>2, <2>3, ServedKept
<1>4. CASE HaltNotify(t)
  <2>1. \A u \in Threads : WillPop(u) => WillPop(u)'
    BY <1>4, <1>a DEF HaltNotify, local, TypeOK, WillPop, CallPCs
  <2>2. queue' = queue
    BY <1>4 DEF HaltNotify
  <2> QED
    BY <2>1, <2>2, ServedKept
<1> QED
  BY <1>1, <1>2, <1>3, <1>4 DEF Call

\* A worker leaves the queue only if it is empty or another serves it.
LEMMA WorkerServed ==
  ASSUME IInv, IInv', QueuedTaskIsServed, NEW w \in Workers,
         WorkerStep(w) \/ SpuriousWakeup(w)
  PROVE  QueuedTaskIsServed'
<1>a. TypeOK /\ w \in Threads /\ w # Main
  BY WorkersAreThreads DEF IInv
<1>1. CASE Call(w)
  BY <1>1, <1>a, CallServed
<1>2. CASE PopTask(w)
  <2>1. CASE queue = <<>>
    BY <1>2, <2>1 DEF PopTask, QueuedTaskIsServed
  <2>2. CASE queue # <<>>
    <3>1. WillPop(w)'
      BY <1>2, <1>a, <2>2 DEF PopTask, TypeOK, WillPop
    <3> QED
      BY <1>a, <3>1 DEF QueuedTaskIsServed
  <2> QED
    BY <2>1, <2>2
<1>3. CASE \/ CheckHalt(w) \/ CheckRemaining(w) \/ WaitLock(w) \/ WaitSleep(w)
           \/ WakeUp(w) \/ SpuriousWakeup(w)
  <2>1. \A u \in Threads : WillPop(u) => WillPop(u)'
    BY <1>3, <1>a DEF CheckHalt, CheckRemaining, WaitLock, WaitSleep, WakeUp,
       SpuriousWakeup, shared, local, TypeOK, WillPop, CallPCs
  <2>2. queue' = queue
    BY <1>3 DEF CheckHalt, CheckRemaining, WaitLock, WaitSleep, WakeUp, SpuriousWakeup, shared
  <2> QED
    BY <2>1, <2>2, ServedKept
<1>4. CASE RunSubmit(w) \/ RunError(w) \/ RunFinish(w)
  <2>1. WillPop(w)'
    BY <1>4, <1>a DEF RunSubmit, RunError, RunFinish, TypeOK, WillPop, CallPCs
  <2> QED
    BY <1>a, <2>1 DEF QueuedTaskIsServed
<1>5. CASE Retire(w)
  <2>1. CASE remaining' = 0
    <3>1. queue' = <<>>
      <4>1. (IInv /\ remaining = 0 => queue = <<>>)'
        BY NothingRemains, PTL
      <4> QED
        BY <2>1, <4>1
    <3> QED
      BY <3>1 DEF QueuedTaskIsServed
  <2>2. CASE remaining' # 0
    <3>1. WillPop(w)'
      BY <1>5, <1>a, <2>2 DEF Retire, TypeOK, WillPop
    <3> QED
      BY <1>a, <3>1 DEF QueuedTaskIsServed
  <2> QED
    BY <2>1, <2>2
<1> QED
  BY <1>1, <1>2, <1>3, <1>4, <1>5 DEF WorkerStep

\* verify() leaves the queue to the first worker it creates.
LEMMA MainServed ==
  ASSUME IInv, QueuedTaskIsServed, MainStep
  PROVE  QueuedTaskIsServed'
<1>a. TypeOK /\ Main \in Threads /\ Main \notin Workers /\ Workers \subseteq Threads
  BY WorkersAreThreads DEF IInv
<1>1. CASE Call(Main)
  BY <1>1, <1>a, CallServed
<1>2. CASE AddWorker
  <2>1. PICK w \in Workers : w = spawned + 1
    BY <1>2, <1>a, NAssumption DEF AddWorker, TypeOK, Workers
  <2>2. w \in Threads /\ w # Main
    BY <1>a
  <2>3. WillPop(w)'
    BY <1>2, <1>a, <2>1, <2>2 DEF AddWorker, TypeOK, WillPop
  <2> QED
    BY <2>2, <2>3 DEF QueuedTaskIsServed
<1>3. CASE \/ Constructed \/ WaitForTasksHalt \/ WaitForTasksRemaining \/ Join \/ Merge
  <2>1. \A u \in Threads : WillPop(u) => WillPop(u)'
    BY <1>3, <1>a DEF Constructed, WaitForTasksHalt, WaitForTasksRemaining, Destroy,
       Join, Merge, shared, local, TypeOK, WillPop, CallPCs
  <2>2. queue' = queue
    BY <1>3 DEF Constructed, WaitForTasksHalt, WaitForTasksRemaining, Destroy,
       Join, Merge, shared
  <2> QED
    BY <2>1, <2>2, ServedKept
<1> QED
  BY <1>1, <1>2, <1>3 DEF MainStep

\* For every number of workers: a queued task never waits for a notification
\* that may have been lost; some thread is awake that will look at the queue.
THEOREM QueuedTasksAreServed == Spec => []QueuedTaskIsServed
<1>1. Init => QueuedTaskIsServed
  BY DEF Init, QueuedTaskIsServed
<1>2. IInv /\ IInv' /\ QueuedTaskIsServed /\ [Next]_vars => QueuedTaskIsServed'
  <2> SUFFICES ASSUME IInv, IInv', QueuedTaskIsServed, [Next]_vars
               PROVE  QueuedTaskIsServed'
    OBVIOUS
  <2>1. CASE UNCHANGED vars
    BY <2>1 DEF vars, QueuedTaskIsServed, WillPop
  <2>2. CASE MainStep
    BY <2>2, MainServed
  <2>3. ASSUME NEW w \in Workers, WorkerStep(w) \/ SpuriousWakeup(w)
        PROVE  QueuedTaskIsServed'
    BY <2>3, WorkerServed
  <2> QED
    BY <2>1, <2>2, <2>3 DEF Next, Finished
<1> QED
  BY <1>1, <1>2, InductiveInvariant, PTL DEF Spec
-----------------------------------------------------------------------------
(***************************************************************************)
(* No task is lost or repeated, verify() returns a complete verdict, and   *)
(* ThreadPool implements TaskPool.                                         *)
(*                                                                         *)
(* The three build on each other.  TasksConserved becomes inductive with   *)
(* the converse of its last conjunct (a worker at "retire" has executed    *)
(* its task).  VerdictIsComplete follows at the end from it, Accounting    *)
(* and QueuedTaskIsServed, once Ending relates the workers joined so far   *)
(* to where they are.  The refinement needs both, and the bound on tasks.  *)
(***************************************************************************)

Conserved ==
  /\ TasksConserved
  /\ \A w \in Workers : pc[w] = "retire" => task[w] \in executed

\* What verify() has waited for, and what it has found then.
Ending ==
  /\ \A w \in 1 .. joined : pc[w] = "exited"
  /\ pc[Main] \in {"merge", "done"} => joined = N
  /\ pc[Main] = "done" => status = ErrorFound

Starting == {"submitLock", "submitInc", "submitPush"}

\* The first task is submitted before anything else happens, and no more
\* tasks are submitted than there may be.
Supply ==
  /\ pc[Main] \in Starting <=> submitted = 0
  /\ submitted + Cardinality(InFlight) <= MaxTasks

\* The steps that concern tasks; every other step is quiet.
Quiet ==
  /\ UNCHANGED <<queue, task, executed, submitted>>
  /\ \A w \in Workers : pc'[w] = "retire" <=> pc[w] = "retire"

Pop(w) == PopTask(w) /\ queue # <<>>

TaskStep ==
  \/ \E t \in Threads : SubmitPush(t)
  \/ \E w \in Workers : Pop(w) \/ RunFinish(w) \/ Retire(w)

USE DEF Goto

\* Outside these steps neither tasks nor the set of retiring workers change.
LEMMA QuietSteps == IInv /\ [Next]_vars => TaskStep \/ Quiet
<1> SUFFICES ASSUME IInv, [Next]_vars PROVE TaskStep \/ Quiet
  OBVIOUS
<1>a. TypeOK /\ Control
  BY DEF IInv
<1>1. CASE UNCHANGED vars
  BY <1>1 DEF vars, Quiet
<1>2. ASSUME NEW t \in Threads, Call(t) PROVE TaskStep \/ Quiet
  <2>1. CASE SubmitPush(t)
    BY <2>1 DEF TaskStep
  <2>2. CASE SubmitLock(t) \/ SubmitInc(t) \/ HaltLock(t) \/ HaltStore(t)
    BY <2>2, <1>a, WorkersAreThreads DEF SubmitLock, SubmitInc, HaltLock, HaltStore, local, TypeOK, Quiet
  <2>3. CASE SubmitNotify(t) \/ HaltNotify(t)
    <3>1. ret[t] # "retire"
      BY <1>a DEF TypeOK
    <3>2. pc[t] # "retire"
      BY <2>3 DEF SubmitNotify, HaltNotify
    <3>3. \A u \in Threads : pc'[u] = "retire" <=> pc[u] = "retire"
      BY <2>3, <1>a, <3>1, <3>2, WorkersAreThreads
         DEF SubmitNotify, HaltNotify, TypeOK, Waiting
    <3> QED
      BY <2>3, <3>3, WorkersAreThreads DEF SubmitNotify, HaltNotify, local, Quiet
  <2> QED
    BY <1>2, <2>1, <2>2, <2>3 DEF Call
<1>3. CASE MainStep
  <2>1. CASE Call(Main)
    BY <2>1, <1>2, WorkersAreThreads
  <2>2. CASE AddWorker
    <3>1. pc[spawned + 1] = "unborn" /\ spawned + 1 \in Threads
      BY <2>2, <1>a, NAssumption DEF AddWorker, Control, WorkerControl, Workers, Threads, TypeOK
    <3> QED
      BY <2>2, <1>a, <3>1, WorkersAreThreads DEF AddWorker, TypeOK, Quiet, shared
  <2>3. CASE Constructed \/ WaitForTasksHalt \/ WaitForTasksRemaining \/ Join \/ Merge
    BY <2>3, <1>a, WorkersAreThreads DEF Constructed, WaitForTasksHalt, WaitForTasksRemaining,
       Destroy, Join, Merge, shared, local, TypeOK, Quiet
  <2> QED
    BY <1>3, <2>1, <2>2, <2>3 DEF MainStep
<1>4. ASSUME NEW w \in Workers, WorkerStep(w) \/ SpuriousWakeup(w) PROVE TaskStep \/ Quiet
  <2>1. CASE Call(w)
    BY <2>1, <1>2, WorkersAreThreads
  <2>2. CASE Pop(w) \/ RunFinish(w) \/ Retire(w)
    BY <2>2 DEF TaskStep
  <2>3. CASE PopTask(w) /\ queue = <<>>
    BY <2>3, <1>a, WorkersAreThreads DEF PopTask, TypeOK, Quiet
  <2>4. CASE \/ CheckHalt(w) \/ CheckRemaining(w) \/ WaitLock(w) \/ WaitSleep(w)
             \/ WakeUp(w) \/ SpuriousWakeup(w) \/ RunSubmit(w) \/ RunError(w)
    BY <2>4, <1>a, WorkersAreThreads DEF CheckHalt, CheckRemaining, WaitLock, WaitSleep,
       WakeUp, SpuriousWakeup, RunSubmit, RunError, shared, local, TypeOK, Quiet
  <2> QED
    BY <1>4, <2>1, <2>2, <2>3, <2>4 DEF WorkerStep, Pop
<1> QED
  BY <1>1, <1>3, <1>4 DEF Next, Finished
-----------------------------------------------------------------------------
(* No task is lost or executed twice *)

\* Whether a worker holds a task can be seen from where it is.
LEMMA HoldsTask ==
  ASSUME IInv, NEW w \in Workers
  PROVE  w \in Busy <=> InTask(w)
BY DEF IInv, Control, WorkerControl, Busy

\* Quiet steps keep tasks where they are.
LEMMA QuietConserved ==
  ASSUME Conserved, Quiet
  PROVE  Conserved'
<1>1. Busy' = Busy /\ Queued' = Queued
  BY DEF Quiet, Busy, Queued
<1>2. Running' = Running
  BY <1>1 DEF Quiet, Running
<1>3. Busy \subseteq Workers
  BY DEF Busy
<1> QED
  BY <1>1, <1>2, <1>3 DEF Quiet, Conserved, TasksConserved

\* A pushed task has a new number.
LEMMA PushConserved ==
  ASSUME IInv, Conserved, NEW t \in Threads, SubmitPush(t)
  PROVE  Conserved'
<1>a. TypeOK /\ TasksConserved /\ queue \in Seq(Nat \ {0}) /\ submitted \in Nat
  BY DEF IInv, TypeOK, Conserved
<1>1. /\ queue' = Append(queue, submitted + 1) /\ submitted' = submitted + 1
      /\ UNCHANGED <<task, executed>>
      /\ \A w \in Workers : pc'[w] = "retire" <=> pc[w] = "retire"
  BY <1>a, WorkersAreThreads DEF SubmitPush, TypeOK
<1>2. /\ Len(queue) \in Nat /\ Len(queue') = Len(queue) + 1
      /\ \A i \in 1 .. Len(queue) : queue'[i] = queue[i]
      /\ queue'[Len(queue) + 1] = submitted + 1
  BY <1>1, <1>a, AppendProperties, LenProperties
<1>3. Busy' = Busy /\ Running' = Running /\ Busy \subseteq Workers
  BY <1>1 DEF Busy, Running
<1>4. Queued' = Queued \cup {submitted + 1}
  BY <1>2 DEF Queued
<1>5. 1 .. submitted + 1 = (1 .. submitted) \cup {submitted + 1} /\ submitted + 1 \notin 1 .. submitted
  BY <1>a
<1>6. \A i \in 1 .. Len(queue) : queue[i] # submitted + 1
  BY <1>a, <1>5 DEF TasksConserved, Queued
<1>7. Queued' \cup Running' \cup executed' = 1 .. submitted'
  BY <1>1, <1>3, <1>4, <1>5, <1>a DEF TasksConserved
<1>8. Queued' \cap (Running' \cup executed') = {}
  BY <1>1, <1>3, <1>4, <1>5, <1>a DEF TasksConserved
<1>9. \A i, j \in 1 .. Len(queue') : queue'[i] = queue'[j] => i = j
  BY <1>2, <1>6, <1>a DEF TasksConserved
<1> QED
  BY <1>1, <1>3, <1>7, <1>8, <1>9, <1>a DEF TasksConserved, Conserved

\* A popped task leaves the queue for a worker that held none.
LEMMA PopConserved ==
  ASSUME IInv, Conserved, NEW w \in Workers, Pop(w)
  PROVE  /\ Conserved'
         /\ queue[Len(queue)] \in Queued
         /\ Queued' = Queued \ {queue[Len(queue)]}
         /\ Running' = Running \cup {queue[Len(queue)]}
         /\ UNCHANGED executed
<1> DEFINE x == queue[Len(queue)]
<1>a. TypeOK /\ TasksConserved /\ queue \in Seq(Nat \ {0})
  BY DEF IInv, TypeOK, Conserved
<1>1. /\ queue # <<>> /\ queue' = SubSeq(queue, 1, Len(queue) - 1)
      /\ task' = [task EXCEPT ![w] = x] /\ UNCHANGED <<executed, submitted>>
      /\ \A v \in Workers : pc'[v] = "retire" <=> pc[v] = "retire"
  BY <1>a, WorkersAreThreads DEF Pop, PopTask, TypeOK
<1>2. Len(queue) \in Nat /\ Len(queue) > 0 /\ x \in Nat \ {0}
  BY <1>1, <1>a, LenProperties, EmptySeq
<1>3. /\ Len(queue') = Len(queue) - 1
      /\ \A i \in 1 .. Len(queue) - 1 : queue'[i] = queue[i]
  <2>1. \A i \in 1 .. Len(queue) - 1 : queue[i] \in Nat \ {0}
    BY <1>2, <1>a, ElementOfSeq
  <2>2. PICK n \in Nat : n = Len(queue) - 1
    BY <1>2
  <2>3. /\ Len(SubSeq(queue, 1, n)) = IF 1 <= n THEN n - 1 + 1 ELSE 0
        /\ \A i \in 1 .. n - 1 + 1 : SubSeq(queue, 1, n)[i] = queue[1 + i - 1]
    BY <2>1, <2>2, SubSeqProperties
  <2> QED
    BY <1>1, <2>2, <2>3
<1>4. x \in Queued
  BY <1>2 DEF Queued
<1>5. Queued' = Queued \ {x}
  <2>1. \A i \in 1 .. Len(queue) : queue[i] = x => i = Len(queue)
    BY <1>2, <1>a DEF TasksConserved
  <2>2. Queued' = {queue[i] : i \in 1 .. Len(queue) - 1}
    BY <1>3 DEF Queued
  <2> QED
    BY <1>2, <2>1, <2>2 DEF Queued
<1>6. w \notin Busy
  BY HoldsTask DEF Pop, PopTask, InTask, CallPCs
<1>7. Busy' = Busy \cup {w} /\ task'[w] = x /\ \A v \in Busy : task'[v] = task[v]
  BY <1>1, <1>2, <1>6, <1>a DEF Busy, TypeOK, NoTask
<1>8. Running' = Running \cup {x}
  BY <1>7 DEF Running
<1>9. x \notin Running /\ x \notin executed
  BY <1>4, <1>a DEF TasksConserved
<1>10. \A u, v \in Busy' : task'[u] = task'[v] => u = v
  <2>1. \A v \in Busy : task[v] # x
    BY <1>9 DEF Running
  <2> QED
    BY <1>7, <2>1, <1>a DEF TasksConserved
<1>11. \A v \in Busy' : task'[v] \in executed' => pc'[v] = "retire"
  BY <1>1, <1>7, <1>9, <1>a DEF TasksConserved, Busy
<1>12. \A v \in Workers : pc'[v] = "retire" => task'[v] \in executed'
  <2>1. pc[w] # "retire"
    BY DEF Pop, PopTask
  <2>2. \A v \in Workers \ {w} : task'[v] = task[v]
    BY <1>1, <1>a DEF TypeOK
  <2> QED
    BY <1>1, <2>1, <2>2 DEF Conserved
<1>13. \A i, j \in 1 .. Len(queue') : queue'[i] = queue'[j] => i = j
  <2>1. \A i \in 1 .. Len(queue') : i \in 1 .. Len(queue) /\ queue'[i] = queue[i]
    BY <1>2, <1>3
  <2> QED
    BY <2>1, <1>a DEF TasksConserved
<1>14. Queued' \cup Running' \cup executed' = 1 .. submitted'
  BY <1>1, <1>4, <1>5, <1>8, <1>a DEF TasksConserved
<1>15. Queued' \cap (Running' \cup executed') = {}
  BY <1>1, <1>5, <1>8, <1>a DEF TasksConserved
<1> QED
  BY <1>1, <1>4, <1>5, <1>8, <1>10, <1>11, <1>12, <1>13, <1>14, <1>15 DEF TasksConserved, Conserved

\* A finished task was running, with this worker only.
LEMMA FinishConserved ==
  ASSUME IInv, Conserved, NEW w \in Workers, RunFinish(w)
  PROVE  /\ Conserved'
         /\ task[w] \in Running \ executed /\ executed' = executed \cup {task[w]}
         /\ Queued' = Queued /\ Running' = Running
<1>a. TypeOK /\ TasksConserved
  BY DEF IInv, Conserved
<1>1. w \in Busy
  BY HoldsTask DEF RunFinish, InTask
<1>2. /\ UNCHANGED <<queue, task, submitted>> /\ executed' = executed \cup {task[w]}
      /\ pc[w] = "run" /\ pc'[w] = "retire" /\ \A v \in Workers \ {w} : pc'[v] = pc[v]
  BY <1>a, WorkersAreThreads DEF RunFinish, shared, TypeOK
<1>3. Busy' = Busy /\ Queued' = Queued /\ Running' = Running /\ Busy \subseteq Workers
  BY <1>2 DEF Busy, Queued, Running
<1>4. task[w] \in Running /\ task[w] \notin executed
  BY <1>1, <1>2, <1>a DEF Running, TasksConserved
<1>5. \A v \in Busy : task[v] \in executed' => pc'[v] = "retire"
  BY <1>1, <1>2, <1>3, <1>a DEF TasksConserved
<1>6. \A v \in Workers : pc'[v] = "retire" => task'[v] \in executed'
  BY <1>2 DEF Conserved
<1>7. /\ Queued' \cup Running' \cup executed' = 1 .. submitted'
      /\ Queued' \cap (Running' \cup executed') = {}
  BY <1>2, <1>3, <1>4, <1>a DEF TasksConserved
<1> QED
  BY <1>2, <1>3, <1>4, <1>5, <1>6, <1>7, <1>a DEF TasksConserved, Conserved

\* A worker gives up its task when it has been executed.
LEMMA RetireConserved ==
  ASSUME IInv, Conserved, NEW w \in Workers, Retire(w)
  PROVE  /\ Conserved'
         /\ Queued' = Queued /\ executed' = executed
         /\ Running' \ executed = Running \ executed
<1>a. TypeOK /\ TasksConserved
  BY DEF IInv, Conserved
<1>1. /\ UNCHANGED <<queue, executed, submitted>> /\ task' = [task EXCEPT ![w] = NoTask]
      /\ pc[w] = "retire" /\ pc'[w] # "retire" /\ \A v \in Workers \ {w} : pc'[v] = pc[v]
  BY <1>a, WorkersAreThreads DEF Retire, TypeOK
<1>2. Busy' = Busy \ {w} /\ \A v \in Busy' : task'[v] = task[v]
  BY <1>1, <1>a DEF Busy, TypeOK
<1>3. Queued' = Queued /\ Busy' \subseteq Busy /\ Busy \subseteq Workers
  BY <1>1, <1>2 DEF Queued, Busy
<1>4. task[w] \in executed
  BY <1>1 DEF Conserved
<1>5. Running' \subseteq Running /\ Running \subseteq Running' \cup {task[w]}
  BY <1>2 DEF Running
<1>6. /\ Queued' \cup Running' \cup executed' = 1 .. submitted'
      /\ Queued' \cap (Running' \cup executed') = {}
  BY <1>1, <1>3, <1>4, <1>5, <1>a DEF TasksConserved
<1>7. /\ \A i, j \in 1 .. Len(queue') : queue'[i] = queue'[j] => i = j
      /\ \A u, v \in Busy' : task'[u] = task'[v] => u = v
      /\ \A v \in Busy' : task'[v] \in executed' => pc'[v] = "retire"
  BY <1>1, <1>2, <1>3, <1>a DEF TasksConserved
<1>8. \A v \in Workers : pc'[v] = "retire" => task'[v] \in executed'
  BY <1>1, <1>a DEF Conserved, TypeOK
<1>9. Running' \ executed = Running \ executed
  BY <1>4, <1>5
<1> QED
  BY <1>1, <1>3, <1>6, <1>7, <1>8, <1>9 DEF TasksConserved, Conserved

\* Conserved holds in every reachable state.
LEMMA ConservedHolds == Spec => []Conserved
<1>1. Init => Conserved
  <2> SUFFICES ASSUME Init PROVE Conserved
    OBVIOUS
  <2>1. Queued = {} /\ Busy = {} /\ Running = {}
    BY DEF Init, Queued, Busy, Running
  <2> QED
    BY <2>1, WorkersAreThreads DEF Init, Conserved, TasksConserved
<1>2. IInv /\ Conserved /\ [Next]_vars => Conserved'
  BY QuietSteps, QuietConserved, PushConserved, PopConserved, FinishConserved, RetireConserved
     DEF TaskStep
<1> QED
  BY <1>1, <1>2, InductiveInvariant, PTL DEF Spec

\* Whatever the interleaving, for every number of workers: each task that was
\* pushed is once in the queue, or with one worker, or executed, so that
\* popTask() loses no graph and hands none out twice.
THEOREM TasksAreConserved == Spec => []TasksConserved
<1>1. Conserved => TasksConserved
  BY DEF Conserved
<1> QED
  BY <1>1, ConservedHolds, PTL
-----------------------------------------------------------------------------
(* The verdict *)

\* A worker that has left its loop does nothing any more.
LEMMA ExitedStays ==
  ASSUME IInv, [Next]_vars, NEW w \in Workers, pc[w] = "exited"
  PROVE  pc'[w] = "exited" /\ found'[w] = found[w]
<1>a. TypeOK /\ Control /\ w \in Threads /\ w # Main
  BY WorkersAreThreads DEF IInv
<1>1. CASE UNCHANGED vars
  BY <1>1 DEF vars
<1>2. ASSUME NEW t \in Threads, Call(t) PROVE pc'[w] = "exited" /\ UNCHANGED found
  <2>1. pc[t] # "exited"
    BY <1>2 DEF Call, SubmitLock, SubmitInc, SubmitPush, SubmitNotify, HaltLock, HaltStore,
       HaltNotify
  <2>2. pc'[w] = pc[w]
    BY <1>2, <1>a, <2>1 DEF Call, SubmitLock, SubmitInc, SubmitPush, SubmitNotify, HaltLock,
       HaltStore, HaltNotify, Waiting, TypeOK
  <2> QED
    BY <1>2, <2>2 DEF Call, SubmitLock, SubmitInc, SubmitPush, SubmitNotify, HaltLock,
       HaltStore, HaltNotify, local
<1>3. CASE MainStep
  <2>1. CASE Call(Main)
    BY <2>1, <1>2, WorkersAreThreads
  <2>2. CASE AddWorker
    <3>1. pc[spawned + 1] = "unborn" /\ spawned + 1 \in Threads
      BY <2>2, <1>a, NAssumption DEF AddWorker, Control, WorkerControl, Workers, Threads, TypeOK
    <3> QED
      BY <2>2, <1>a, <3>1 DEF AddWorker, TypeOK
  <2>3. CASE Constructed \/ WaitForTasksHalt \/ WaitForTasksRemaining \/ Join \/ Merge
    BY <2>3, <1>a DEF Constructed, WaitForTasksHalt, WaitForTasksRemaining,
       Destroy, Join, Merge, shared, local, TypeOK
  <2> QED
    BY <1>3, <2>1, <2>2, <2>3 DEF MainStep
<1>4. ASSUME NEW v \in Workers, WorkerStep(v) \/ SpuriousWakeup(v)
      PROVE  pc'[w] = "exited" /\ found'[w] = found[w]
  <2>1. CASE Call(v)
    BY <2>1, <1>2, WorkersAreThreads
  <2>2. CASE ~Call(v)
    <3>1. pc[v] # "exited" /\ v \in Threads
      BY <1>4, <2>2, WorkersAreThreads DEF WorkerStep, PopTask, CheckHalt, CheckRemaining,
         WaitLock, WaitSleep, WakeUp, SpuriousWakeup, RunSubmit, RunError, RunFinish, Retire
    <3>2. pc'[w] = pc[w]
      BY <1>4, <1>a, <2>2, <3>1 DEF WorkerStep, PopTask, CheckHalt, CheckRemaining,
         WaitLock, WaitSleep, WakeUp, SpuriousWakeup, RunSubmit, RunError, RunFinish, Retire, TypeOK
    <3>3. found' = found \/ found' = [found EXCEPT ![v] = TRUE]
      BY <1>4, <2>2 DEF WorkerStep, PopTask, CheckHalt, CheckRemaining, WaitLock, WaitSleep,
         WakeUp, SpuriousWakeup, RunSubmit, RunError, RunFinish, Retire, local
    <3> QED
      BY <1>a, <3>1, <3>2, <3>3 DEF TypeOK
  <2> QED
    BY <2>1, <2>2
<1> QED
  BY <1>1, <1>3, <1>4 DEF Next, Finished

\* Only verify() itself moves towards its end.
LEMMA EndSteps ==
  ASSUME IInv, [Next]_vars
  PROVE  \/ Join \/ Merge
         \/ /\ UNCHANGED <<joined, status>>
            /\ {pc[Main], pc'[Main]} \cap {"merge", "done"} # {} => pc'[Main] = pc[Main]
<1>a. TypeOK /\ Control /\ Main \in Threads /\ Main \notin Workers
  BY WorkersAreThreads DEF IInv
<1> DEFINE Same == /\ UNCHANGED <<joined, status>>
                   /\ {pc[Main], pc'[Main]} \cap {"merge", "done"} # {} => pc'[Main] = pc[Main]
<1>1. CASE UNCHANGED vars
  BY <1>1 DEF vars
<1>2. ASSUME NEW t \in Threads, Call(t) PROVE Same
  <2>1. UNCHANGED <<joined, status>>
    BY <1>2 DEF Call, SubmitLock, SubmitInc, SubmitPush, SubmitNotify, HaltLock,
       HaltStore, HaltNotify, local
  <2>2. ret[Main] \notin {"merge", "done"} /\ pc[Main] # "waiting"
    BY <1>a DEF Control, MainControl, MainPCs, CallPCs
  <2>3. CASE t # Main
    BY <2>1, <2>2, <2>3, <1>2, <1>a DEF Call, SubmitLock, SubmitInc, SubmitPush, SubmitNotify, HaltLock,
       HaltStore, HaltNotify, Waiting, TypeOK
  <2>4. CASE t = Main
    BY <2>1, <2>2, <2>4, <1>2, <1>a DEF Call, SubmitLock, SubmitInc, SubmitPush, SubmitNotify, HaltLock,
       HaltStore, HaltNotify, Waiting, TypeOK
  <2> QED
    BY <2>3, <2>4
<1>3. CASE MainStep
  <2>1. CASE Call(Main)
    BY <2>1, <1>2, <1>a
  <2>2. CASE AddWorker
    <3>1. spawned + 1 # Main
      BY <1>a DEF TypeOK, Main
    <3> QED
      BY <2>2, <1>a, <3>1 DEF AddWorker, TypeOK
  <2>3. CASE Constructed \/ WaitForTasksHalt \/ WaitForTasksRemaining
    BY <2>3, <1>a DEF Constructed, WaitForTasksHalt, WaitForTasksRemaining,
       Destroy, shared, local, TypeOK
  <2> QED
    BY <1>3, <2>1, <2>2, <2>3 DEF MainStep
<1>4. ASSUME NEW w \in Workers, WorkerStep(w) \/ SpuriousWakeup(w) PROVE Same
  <2>1. CASE Call(w)
    BY <2>1, <1>2, WorkersAreThreads
  <2>2. CASE ~Call(w)
    BY <1>4, <1>a, <2>2 DEF WorkerStep, PopTask, CheckHalt, CheckRemaining, WaitLock, WaitSleep,
         WakeUp, SpuriousWakeup, RunSubmit, RunError, RunFinish, Retire, shared, local, TypeOK
  <2> QED
    BY <2>1, <2>2
<1> QED
  BY <1>1, <1>3, <1>4 DEF Next, Finished

\* Ending is inductive: what has been joined has left, and stays away.
LEMMA EndingKept == IInv /\ Ending /\ [Next]_vars => Ending'
<1> SUFFICES ASSUME IInv, Ending, [Next]_vars PROVE Ending'
  OBVIOUS
<1>a. TypeOK /\ Main \in Threads /\ N \in Nat /\ joined \in 0 .. N
  BY WorkersAreThreads, NAssumption DEF IInv, TypeOK
<1>1. \A w \in 1 .. joined : w \in Workers /\ pc'[w] = "exited"
  BY <1>a, ExitedStays DEF Ending, Workers
<1>2. CASE Join
  <2>1. CASE joined < N /\ pc[joined + 1] = "exited" /\ joined' = joined + 1 /\ UNCHANGED pc
    <3>1. \A w \in 1 .. joined + 1 : w \in 1 .. joined \/ w = joined + 1
      BY <1>a
    <3>2. pc[Main] = "join"
      BY <1>2 DEF Join
    <3> QED
      BY <1>1, <2>1, <3>1, <3>2 DEF Ending
  <2>2. CASE joined = N /\ pc' = [pc EXCEPT ![Main] = "merge"] /\ UNCHANGED joined
    BY <1>1, <1>a, <2>2 DEF Ending, TypeOK
  <2> QED
    BY <1>2, <2>1, <2>2 DEF Join
<1>3. CASE Merge
  <2>1. /\ joined = N /\ joined' = joined /\ found' = found
        /\ status' = ErrorFound
    BY <1>3 DEF Merge, Ending, ErrorFound
  <2> QED
    BY <1>1, <2>1 DEF Ending, ErrorFound
<1>4. CASE /\ UNCHANGED <<joined, status>>
           /\ {pc[Main], pc'[Main]} \cap {"merge", "done"} # {} => pc'[Main] = pc[Main]
  <2>1. pc'[Main] \in {"merge", "done"} => pc[Main] = pc'[Main]
    BY <1>4
  <2>2. pc'[Main] = "done" => \A w \in Workers : found'[w] = found[w]
    BY <2>1, ExitedStays DEF Ending, Workers
  <2> QED
    BY <1>1, <1>4, <2>1, <2>2 DEF Ending, ErrorFound
<1> QED
  BY <1>2, <1>3, <1>4, EndSteps

\* When verify() is about to merge, or has merged, nobody else is left.
LEMMA AllHaveLeft ==
  ASSUME IInv, Ending, pc[Main] \in {"merge", "done"}
  PROVE  \A w \in Workers : pc[w] = "exited" /\ w \notin Busy
BY HoldsTask DEF Ending, Workers, InTask, CallPCs

\* At that point all tasks have been executed.
LEMMA NothingLeft ==
  ASSUME IInv, Ending, Conserved, QueuedTaskIsServed, pc[Main] \in {"merge", "done"}
  PROVE  /\ queue = <<>> /\ remaining = 0
         /\ Running = {} /\ executed = 1 .. submitted
<1>1. \A w \in Workers : pc[w] = "exited" /\ w \notin Busy
  BY AllHaveLeft
<1>2. 1 \in Workers /\ ~(spawned = 0)
  BY <1>1, NAssumption DEF Workers, IInv, Control, WorkerControl
<1>3. queue = <<>>
  BY <1>1, <1>2, WorkersAreThreads DEF QueuedTaskIsServed, WillPop, CallPCs
<1>4. Busy = {} /\ Pushing = {} /\ Running = {}
  BY <1>1, WorkersAreThreads DEF Busy, Pushing, Running
<1>5. remaining = 0
  BY <1>3, <1>4, FS_EmptySet DEF IInv, Accounting
<1>6. Queued = {}
  BY <1>3 DEF Queued
<1> QED
  BY <1>3, <1>4, <1>5, <1>6 DEF Conserved, TasksConserved

\* The conjunction that the last two theorems rest on.
LEMMA Invariants == Spec => [](IInv /\ Conserved /\ QueuedTaskIsServed /\ Ending)
<1>1. Init => Ending
  BY WorkersAreThreads DEF Init, Ending
<1> QED
  BY <1>1, EndingKept, ConservedHolds, InductiveInvariant, QueuedTasksAreServed, PTL DEF Spec

\* For every number of workers: when verify() returns, every task submitted
\* has been executed, also after an error, nothing is queued or counted, and
\* the verdict is an error exactly if some worker found one.
THEOREM VerdictComplete == Spec => []VerdictIsComplete
<1>1. IInv /\ Conserved /\ QueuedTaskIsServed /\ Ending => VerdictIsComplete
  BY NothingLeft DEF VerdictIsComplete, Ending
<1> QED
  BY <1>1, Invariants, PTL
-----------------------------------------------------------------------------
(* The pool implements TaskPool *)

\* A task enters through RunSubmit (or Init) and SubmitPush only.
LEMMA SupplySteps ==
  ASSUME IInv, [Next]_vars
  PROVE  \/ \E t \in Threads : SubmitPush(t)
         \/ \E w \in Workers : RunSubmit(w)
         \/ /\ submitted' = submitted
            /\ \A t \in Threads : pc'[t] \in Starting <=> pc[t] \in Starting
<1>a. TypeOK /\ Control /\ Main \in Threads /\ Workers \subseteq Threads
  BY WorkersAreThreads DEF IInv
<1> DEFINE Same == /\ submitted' = submitted
                   /\ \A t \in Threads : pc'[t] \in Starting <=> pc[t] \in Starting
<1>1. CASE UNCHANGED vars
  BY <1>1 DEF vars
<1>2. ASSUME NEW t \in Threads, Call(t), ~SubmitPush(t) PROVE Same
  <2>1. ret[t] \notin Starting
    BY <1>a DEF TypeOK, Starting
  <2>2. CASE SubmitLock(t) \/ SubmitInc(t) \/ HaltLock(t) \/ HaltStore(t)
    BY <2>2, <1>a DEF SubmitLock, SubmitInc, HaltLock, HaltStore, local, TypeOK, Starting
  <2>3. CASE SubmitNotify(t) \/ HaltNotify(t)
    BY <2>1, <2>3, <1>a DEF SubmitNotify, HaltNotify, Waiting, local, TypeOK, Starting
  <2> QED
    BY <1>2, <2>2, <2>3 DEF Call
<1>3. CASE MainStep /\ ~SubmitPush(Main)
  <2>1. CASE Call(Main)
    BY <2>1, <1>2, <1>3, <1>a
  <2>2. CASE AddWorker
    <3>1. pc[spawned + 1] = "unborn" /\ spawned + 1 \in Threads
      BY <2>2, <1>a, NAssumption DEF AddWorker, Control, WorkerControl, Workers, Threads, TypeOK
    <3> QED
      BY <2>2, <1>a, <3>1 DEF AddWorker, TypeOK, Starting
  <2>3. CASE Constructed \/ WaitForTasksHalt \/ WaitForTasksRemaining \/ Join \/ Merge
    BY <2>3, <1>a DEF Constructed, WaitForTasksHalt, WaitForTasksRemaining,
       Destroy, Join, Merge, shared, local, TypeOK, Starting
  <2> QED
    BY <1>3, <2>1, <2>2, <2>3 DEF MainStep
<1>4. ASSUME NEW w \in Workers, WorkerStep(w) \/ SpuriousWakeup(w),
             ~SubmitPush(w), ~RunSubmit(w)
      PROVE  Same
  <2>1. CASE Call(w)
    BY <2>1, <1>2, <1>4, <1>a
  <2>2. CASE PopTask(w) \/ RunError(w) \/ RunFinish(w) \/ Retire(w)
    BY <2>2, <1>a DEF PopTask, RunError, RunFinish, Retire, local, TypeOK, Starting
  <2>3. CASE \/ CheckHalt(w) \/ CheckRemaining(w) \/ WaitLock(w) \/ WaitSleep(w)
             \/ WakeUp(w) \/ SpuriousWakeup(w)
    BY <2>3, <1>a DEF CheckHalt, CheckRemaining, WaitLock, WaitSleep, WakeUp,
       SpuriousWakeup, local, TypeOK, Starting
  <2> QED
    BY <1>4, <2>1, <2>2, <2>3 DEF WorkerStep
<1> QED
  BY <1>1, <1>3, <1>4, <1>a DEF Next, Finished

\* Supply is inductive: RunSubmit counts those on their way to the queue.
LEMMA SupplyKept == IInv /\ Supply /\ [Next]_vars => Supply'
<1> SUFFICES ASSUME IInv, Supply, [Next]_vars PROVE Supply'
  OBVIOUS
<1>a. /\ TypeOK /\ Control /\ Main \in Threads /\ Workers \subseteq Threads
      /\ submitted \in Nat /\ Main \notin Workers
  BY WorkersAreThreads DEF IInv, TypeOK
<1>b. InFlight = {t \in Threads : pc[t] \in Starting}
  BY DEF InFlight, Starting
<1>c. IsFiniteSet(InFlight) /\ Cardinality(InFlight) \in Nat
  <2>1. IsFiniteSet(Threads)
    BY FS_Interval, NAssumption DEF Threads
  <2> QED
    BY <2>1, FS_Subset, FS_CardinalityType DEF InFlight
<1>1. ASSUME NEW t \in Threads, SubmitPush(t) PROVE Supply'
  <2>1. /\ submitted' = submitted + 1
        /\ pc[t] = "submitPush" /\ pc' = [pc EXCEPT ![t] = "submitNotify"]
    BY <1>1 DEF SubmitPush
  <2>2. InFlight' = InFlight \ {t} /\ t \in InFlight
    BY <2>1, <1>a DEF InFlight, TypeOK
  <2>3. Cardinality(InFlight') = Cardinality(InFlight) - 1
    BY <2>2, <1>c, FS_RemoveElement
  <2>4. pc'[Main] \notin Starting
    <3>1. CASE t = Main
      BY <2>1, <3>1, <1>a DEF TypeOK, Starting
    <3>2. CASE t # Main
      <4>1. t \in Workers /\ pc[t] # "unborn"
        BY <3>2, <2>1, WorkersAreThreads
      <4>2. pc[Main] \notin SubmitPCs
        BY <4>1, <1>a DEF Control, MainControl, WorkerControl, Workers, TypeOK
      <4> QED
        BY <4>2, <2>1, <3>2, <1>a DEF TypeOK, SubmitPCs, Starting
    <3> QED
      BY <3>1, <3>2
  <2> QED
    BY <2>1, <2>3, <2>4, <1>a, <1>c, MaxTasksAssumption DEF Supply
<1>2. ASSUME NEW w \in Workers, RunSubmit(w) PROVE Supply'
  <2>1. /\ submitted' = submitted /\ submitted + Cardinality(InFlight) < MaxTasks
        /\ pc[w] = "run" /\ pc' = [pc EXCEPT ![w] = "submitLock"]
    BY <1>2 DEF RunSubmit
  <2>2. InFlight' = InFlight \cup {w} /\ w \notin InFlight
    BY <2>1, <1>a DEF InFlight, TypeOK
  <2>3. Cardinality(InFlight') = Cardinality(InFlight) + 1
    BY <2>2, <1>c, FS_AddElement
  <2>4. pc'[Main] = pc[Main]
    BY <2>1, <1>a DEF TypeOK
  <2> QED
    BY <2>1, <2>3, <2>4, <1>a, <1>c, MaxTasksAssumption DEF Supply
<1>3. CASE /\ submitted' = submitted
           /\ \A t \in Threads : pc'[t] \in Starting <=> pc[t] \in Starting
  <2>1. InFlight' = InFlight
    BY <1>3 DEF InFlight, Starting
  <2> QED
    BY <1>3, <2>1, <1>a DEF Supply
<1> QED
  BY <1>1, <1>2, <1>3, SupplySteps

\* A thread that holds a task, or pushes one, keeps verify() from returning.
LEMMA NotClosed ==
  ASSUME IInv, Ending, NEW w \in Workers, pc[w] # "exited"
  PROVE  pc[Main] # "done"
BY AllHaveLeft

\* Pushing submits a task of the abstract pool: the first one, or one that a
\* running task asks for.
LEMMA PushRefines ==
  ASSUME IInv, Conserved, Ending, Supply, NEW t \in Threads, SubmitPush(t)
  PROVE  Promise!ASubmit(submitted + 1)
<1>a. TypeOK /\ Control /\ TasksConserved /\ queue \in Seq(Nat \ {0}) /\ submitted \in Nat
  BY DEF IInv, TypeOK, Conserved
<1>1. /\ queue' = Append(queue, submitted + 1)
      /\ UNCHANGED <<task, executed>> /\ pc[t] = "submitPush" /\ pc' = [pc EXCEPT ![t] = "submitNotify"]
  BY DEF SubmitPush
<1>2. submitted + 1 \in Tasks
  <2>1. t \in InFlight /\ IsFiniteSet(Threads)
    BY <1>1, FS_Interval, NAssumption DEF InFlight, Threads
  <2>2. IsFiniteSet(InFlight) /\ Cardinality(InFlight) \in Nat /\ Cardinality(InFlight) # 0
    BY <2>1, FS_Subset, FS_CardinalityType, FS_EmptySet DEF InFlight
  <2> QED
    BY <2>2, <1>a, MaxTasksAssumption DEF Supply, Tasks
<1>3. Busy' = Busy /\ Running' = Running
  BY <1>1 DEF Busy, Running
<1>4. Queued' = Queued \cup {submitted + 1}
  <2>1. /\ Len(queue) \in Nat /\ Len(queue') = Len(queue) + 1
        /\ \A i \in 1 .. Len(queue) : queue'[i] = queue[i]
        /\ queue'[Len(queue) + 1] = submitted + 1
    BY <1>1, <1>a, AppendProperties, LenProperties
  <2> QED
    BY <2>1 DEF Queued
<1>5. submitted + 1 \notin Queued \cup (Running \ executed) \cup executed
  BY <1>a DEF TasksConserved
<1>6. CASE t = Main
  <2>1. submitted = 0
    BY <1>1, <1>6 DEF Supply, Starting
  <2>2. Queued \cup (Running \ executed) \cup executed = {}
    BY <2>1, <1>a DEF TasksConserved
  <2>3. pc[Main] # "done" /\ pc'[Main] # "done"
    BY <1>1, <1>6, <1>a DEF TypeOK
  <2> QED
    BY <1>1, <1>2, <1>3, <1>4, <1>5, <2>2, <2>3 DEF Promise!ASubmit, Promise!Known
<1>7. CASE t # Main
  <2>1. t \in Workers
    BY <1>7, WorkersAreThreads
  <2>2. t \in Busy
    BY <1>1, <1>a, <2>1, HoldsTask DEF Control, WorkerControl, InTask, SubmitPCs, CallPCs
  <2>3. task[t] \in Running \ executed
    BY <1>1, <1>a, <2>2 DEF Running, TasksConserved
  <2>4. pc[Main] # "done" /\ pc'[Main] = pc[Main]
    BY <1>1, <1>7, <1>a, <2>1, NotClosed DEF TypeOK
  <2> QED
    BY <1>1, <1>2, <1>3, <1>4, <1>5, <2>3, <2>4 DEF Promise!ASubmit, Promise!Known
<1> QED
  BY <1>6, <1>7

\* Popping starts a task of the abstract pool.
LEMMA PopRefines ==
  ASSUME IInv, Conserved, Ending, NEW w \in Workers, Pop(w)
  PROVE  Promise!AStart(queue[Len(queue)])
<1>1. /\ queue[Len(queue)] \in Queued
      /\ Queued' = Queued \ {queue[Len(queue)]}
      /\ Running' = Running \cup {queue[Len(queue)]}
      /\ executed' = executed
  BY PopConserved
<1>2. queue[Len(queue)] \notin executed
  BY <1>1 DEF Conserved, TasksConserved
<1>3. pc[Main] # "done" /\ pc'[Main] = pc[Main]
  BY NotClosed, WorkersAreThreads DEF Pop, PopTask, IInv, TypeOK
<1> QED
  BY <1>1, <1>2, <1>3 DEF Promise!AStart

\* The end of driver->run() finishes a task of the abstract pool.
LEMMA FinishRefines ==
  ASSUME IInv, Conserved, NEW w \in Workers, RunFinish(w)
  PROVE  Promise!AFinish(task[w])
<1>1. /\ task[w] \in Running \ executed /\ executed' = executed \cup {task[w]}
      /\ Queued' = Queued /\ Running' = Running
  BY FinishConserved
<1>2. pc'[Main] = pc[Main]
  BY WorkersAreThreads DEF RunFinish, IInv, TypeOK
<1> QED
  BY <1>1, <1>2 DEF Promise!AFinish

\* Merging the results closes the abstract pool, which is empty then.
LEMMA MergeRefines ==
  ASSUME IInv, Conserved, Ending, QueuedTaskIsServed, Supply, Merge
  PROVE  Promise!AClose
<1>1. /\ queue = <<>> /\ Running = {} /\ executed = 1 .. submitted
  BY NothingLeft DEF Merge
<1>2. submitted \in Nat /\ submitted # 0
  BY DEF Merge, Supply, Starting, IInv, TypeOK
<1>3. Queued = {} /\ executed # {}
  BY <1>1, <1>2 DEF Queued
<1>4. /\ UNCHANGED <<queue, task, executed>> /\ pc'[Main] = "done"
  BY WorkersAreThreads DEF Merge, shared, IInv, TypeOK
<1>5. Queued' = Queued /\ Running' = Running
  BY <1>4 DEF Queued, Running, Busy
<1> QED
  BY <1>1, <1>3, <1>4, <1>5 DEF Promise!AClose

\* Every step of the pool is a step of the abstract pool or changes nothing
\* of it.
LEMMA StepRefines ==
  IInv /\ Conserved /\ QueuedTaskIsServed /\ Ending /\ Supply /\ [Next]_vars
    => [Promise!ANext]_(Promise!abstractVars)
<1> SUFFICES ASSUME IInv, Conserved, QueuedTaskIsServed, Ending, Supply, [Next]_vars
             PROVE  Promise!ANext \/ UNCHANGED Promise!abstractVars
  OBVIOUS
<1>a. TypeOK /\ TasksConserved /\ submitted \in Nat /\ MaxTasks \in Nat
  BY MaxTasksAssumption DEF IInv, TypeOK, Conserved
<1>b. 1 .. submitted \subseteq Tasks
  <2>1. IsFiniteSet(Threads)
    BY FS_Interval, NAssumption DEF Threads
  <2>2. Cardinality(InFlight) \in Nat
    BY <2>1, FS_Subset, FS_CardinalityType DEF InFlight
  <2> QED
    BY <2>2, <1>a DEF Supply, Tasks
<1>1. ASSUME NEW t \in Threads, SubmitPush(t) PROVE Promise!ANext
  <2>1. Promise!ASubmit(submitted + 1)
    BY <1>1, PushRefines
  <2>2. submitted + 1 \in Tasks
    BY <2>1 DEF Promise!ASubmit
  <2> QED
    BY <2>1, <2>2 DEF Promise!ANext
<1>2. ASSUME NEW w \in Workers, Pop(w) PROVE Promise!ANext
  <2>1. Promise!AStart(queue[Len(queue)]) /\ queue[Len(queue)] \in Queued
    BY <1>2, PopRefines, PopConserved
  <2>2. queue[Len(queue)] \in Tasks
    BY <2>1, <1>a, <1>b DEF TasksConserved
  <2> QED
    BY <2>1, <2>2 DEF Promise!ANext
<1>3. ASSUME NEW w \in Workers, RunFinish(w) PROVE Promise!ANext
  <2>1. Promise!AFinish(task[w]) /\ task[w] \in Running
    BY <1>3, FinishRefines, FinishConserved
  <2>2. task[w] \in Tasks
    BY <2>1, <1>a, <1>b DEF TasksConserved
  <2> QED
    BY <2>1, <2>2 DEF Promise!ANext
<1>4. ASSUME NEW w \in Workers, Retire(w) PROVE UNCHANGED Promise!abstractVars
  <2>1. /\ Queued' = Queued /\ executed' = executed
        /\ Running' \ executed = Running \ executed
    BY <1>4, RetireConserved
  <2>2. pc'[Main] = pc[Main]
    BY <1>4, <1>a, WorkersAreThreads DEF Retire, TypeOK
  <2> QED
    BY <2>1, <2>2 DEF Promise!abstractVars
<1>5. CASE Merge
  BY <1>5, MergeRefines DEF Promise!ANext
<1>6. CASE Quiet /\ ~Merge
  <2>1. Busy' = Busy /\ Queued' = Queued /\ Running' = Running /\ executed' = executed
    BY <1>6 DEF Quiet, Busy, Queued, Running
  <2>2. (pc[Main] = "done")' = (pc[Main] = "done")
    <3>1. CASE Join
      BY <3>1, <1>a, WorkersAreThreads DEF Join, TypeOK
    <3>2. CASE {pc[Main], pc'[Main]} \cap {"merge", "done"} # {} => pc'[Main] = pc[Main]
      <4>1. pc[Main] = "done" => pc'[Main] = pc[Main]
        BY <3>2
      <4>2. pc'[Main] = "done" => pc'[Main] = pc[Main]
        BY <3>2
      <4> QED
        BY <4>1, <4>2
    <3> QED
      BY <1>6, <3>1, <3>2, EndSteps
  <2> QED
    BY <2>1, <2>2 DEF Promise!abstractVars
<1> QED
  BY <1>1, <1>2, <1>3, <1>4, <1>5, <1>6, QuietSteps DEF TaskStep

\* For every number of workers, threshold and number of tasks, the pool does
\* what verify() expects of one: tasks are handed out once, only running
\* tasks submit more, and results are collected when nothing is left.
THEOREM PoolImplementsTaskPool == Spec => ImplementsTaskPool
<1>1. Init => Supply
  <2> SUFFICES ASSUME Init PROVE Supply
    OBVIOUS
  <2>1. InFlight = {Main}
    BY WorkersAreThreads DEF Init, InFlight
  <2>2. Cardinality(InFlight) = 1
    BY <2>1, FS_Singleton
  <2> QED
    BY <2>2, MaxTasksAssumption, WorkersAreThreads DEF Init, Supply, Starting
<1>2. Init => Promise!AInit
  <2> SUFFICES ASSUME Init PROVE Promise!AInit
    OBVIOUS
  <2>1. Queued = {} /\ Running = {} /\ executed = {} /\ pc[Main] # "done"
    BY WorkersAreThreads DEF Init, Queued, Busy, Running
  <2> QED
    BY <2>1 DEF Promise!AInit
<1> QED
  BY <1>1, <1>2, SupplyKept, StepRefines, Invariants, PTL DEF Spec, ImplementsTaskPool, Promise!ASpec
=============================================================================
