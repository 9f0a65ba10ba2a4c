------------------------------- MODULE Runtime -------------------------------
(***************************************************************************)
(* One run of a program: the interpreter (Execution.cpp) executes the      *)
(* instructions of the threads the driver schedules.  An action is an      *)
(* instruction with all the calls it makes into the driver, which are      *)
(* operators of RuntimeDriver.  Each thread has one register, where loads  *)
(* and calls leave their result; an operand is a constant or the register. *)
(***************************************************************************)
EXTENDS RuntimeDriver

CONSTANTS Programs,      \* the programs: functions from threads to sequences
          MaxPreemptions \* bound: times a thread is left that could go on

VARIABLES prog,       \* the program
          d,          \* the driver's and the interpreter's state
          pc,         \* of each thread: the next instruction
          reg,        \* of each thread: its register
          sched,      \* the thread that was scheduled last, and the preemptions
          status      \* "running", or how the run ended

vars == <<prog, d, pc, reg, sched, status>>

Init ==
  /\ prog \in Programs
  /\ d = InitialState
  /\ pc = [t \in Threads |-> 1]
  /\ reg = [t \in Threads |-> 0]
  /\ sched = [last |-> 1, preemptions |-> 0]
  /\ status = "running"

-----------------------------------------------------------------------------
(* Instructions *)

HasInstr(t) == pc[t] <= Len(prog[t])
Instr(t)    == prog[t][pc[t]]
Addr(t)     == Instr(t).a + (IF Instr(t).ptr THEN reg[t] ELSE 0)
Val(t)      == IF Instr(t).vr THEN reg[t] ELSE Instr(t).v

\* Thread t is the one the policy in use picks.  The random policy may pick
\* any thread that can go on; the others only some of them.
Scheduled(t) ==
  /\ status = "running" /\ t \in scheduleNext(d)
  /\ sched' = [last |-> t,
                preemptions |-> IF t # sched.last /\ sched.last \in scheduleNext(d)
                                THEN sched.preemptions + 1 ELSE sched.preemptions]
  /\ sched'.preemptions <= MaxPreemptions

\* Thread t is scheduled and its next instruction is an op.
Executes(t, op) ==
  /\ Scheduled(t)
  /\ HasInstr(t) /\ Instr(t).op = op

Goto(t, n) == pc' = [pc EXCEPT ![t] = n]
\* The call returns without a result, or with result v.
Return        == UNCHANGED reg
ReturnVal(t, v) == reg' = [reg EXCEPT ![t] = v]

\* The state after the instruction is s, and the thread goes on.
Step(t, s) == d' = s /\ Goto(t, pc[t] + 1) /\ UNCHANGED <<prog, status>>

\* The value of the read that visitLoad() has just added at r.
Loaded(s, r) == ReadValue(s.g, r)

visitLoadInst(t) ==
  /\ Executes(t, "load")
  /\ \E s \in {visitLoad(d, t, ReadLabel(Instr(t).ord, Addr(t)))} :
       Step(t, s) /\ ReturnVal(t, Loaded(s, NextEvent(d.g, t)))

visitStoreInst(t) ==
  /\ Executes(t, "store")
  /\ Step(t, visitStore(d, t, WriteLabel(Instr(t).ord, Addr(t), Val(t)))) /\ Return

visitFenceInst(t) ==
  Executes(t, "fence") /\ Step(t, visitFence(d, t, Instr(t).ord)) /\ Return

executeAtomicRMWOperation(old, val, op) ==
  CASE op = "xchg" -> val
    [] op = "add"  -> old + val
    [] op = "sub"  -> old - val

visitAtomicRMWInst(t) ==
  /\ Executes(t, "rmw")
  /\ \E s \in {visitLoad(d, t, FaiReadLabel(Instr(t).ord, Addr(t), Instr(t).f, Val(t)))} :
       LET old == Loaded(s, NextEvent(d.g, t))
           new == executeAtomicRMWOperation(old, Val(t), Instr(t).f)
       IN /\ Step(t, IF s.thr[t] = "blocked" THEN s
                     ELSE visitStore(s, t, FaiWriteLabel(Instr(t).ord, Addr(t), new)))
          /\ ReturnVal(t, old)

visitAtomicCmpXchgInst(t) ==
  /\ Executes(t, "cas")
  /\ \E s \in {visitLoad(d, t, CasReadLabel(Instr(t).ord, Addr(t), Instr(t).exp, Val(t)))} :
       LET old == Loaded(s, NextEvent(d.g, t))
       IN /\ Step(t, IF s.thr[t] # "blocked" /\ old = Instr(t).exp
                     THEN visitStore(s, t, CasWriteLabel(Instr(t).ord, Addr(t), Val(t))) ELSE s)
          /\ ReturnVal(t, old)

\* A conditional branch on the register.
visitBranchInst(t) ==
  /\ Executes(t, "br")
  /\ Goto(t, IF reg[t] = Instr(t).v THEN Instr(t).to ELSE pc[t] + 1)
  /\ UNCHANGED <<prog, d, reg, status>>

-----------------------------------------------------------------------------
(* Mutexes and barriers *)

callMutexInit(t) ==
  Executes(t, "mutex_init") /\ Step(t, visitStore(d, t, WriteLabel("na", Addr(t), 0))) /\ Return

callMutexLock(t) == Executes(t, "lock") /\ Step(t, visitLock(d, t, Addr(t))) /\ Return

callMutexUnlock(t) == Executes(t, "unlock") /\ Step(t, visitUnlock(d, t, Addr(t))) /\ Return

\* The register tells whether the lock was taken: 0 if so.
callMutexTrylock(t) ==
  /\ Executes(t, "trylock")
  /\ \E s \in {visitLoad(d, t, TrylockCasReadLabel(Addr(t)))} :
       LET free == Loaded(s, NextEvent(d.g, t)) = 0
       IN /\ Step(t, IF free THEN visitStore(s, t, TrylockCasWriteLabel(Addr(t))) ELSE s)
          /\ ReturnVal(t, IF free THEN 0 ELSE 1)

callMutexDestroy(t) ==
  /\ Executes(t, "mutex_destroy")
  /\ Step(t, visitStore(d, t, WriteLabel("na", Addr(t), -1))) /\ Return

callBarrierInit(t) ==
  /\ Executes(t, "barrier_init")
  /\ Step(t, visitStore(d, t, BInitWriteLabel(Addr(t), Val(t)))) /\ Return

callBarrierWait(t) ==
  /\ Executes(t, "barrier_wait")
  /\ \E s \in {visitLoad(d, t, BIncFaiReadLabel(Addr(t)))} :
       LET old == Loaded(s, NextEvent(d.g, t))
           new == executeAtomicRMWOperation(old, 1, "sub")
       IN IF old <= 0 \/ s.thr[t] = "blocked" THEN Step(t, s) /\ Return
          ELSE /\ \E s1 \in {visitStore(s, t, BIncFaiWriteLabel(Addr(t), new))} :
                    Step(t, visitLoad(s1, t, BWaitReadLabel(Addr(t))))
               /\ ReturnVal(t, IF new # 0 THEN 0 ELSE 1)

callBarrierDestroy(t) ==
  /\ Executes(t, "barrier_destroy")
  /\ Step(t, visitStore(d, t, BDestroyWriteLabel(Addr(t)))) /\ Return

-----------------------------------------------------------------------------
(* Memory *)

PowersOfTwo == {1, 2, 4, 8}

\* malloc(), whose alignment is 1 here, and aligned_alloc(): they check their
\* arguments.
callMalloc(t) ==
  /\ Executes(t, "malloc")
  /\ IF Instr(t).v <= 0 \/ Instr(t).align \notin PowersOfTwo \/ Instr(t).v % Instr(t).align # 0
     THEN Step(t, visitError(d, "Allocation")) /\ Return
     ELSE \E s \in {visitMalloc(d, t, Instr(t).v, Instr(t).align)} :
            Step(t, s) /\ ReturnVal(t, LastLabel(s.g, t).base)

\* Storage on the stack is freed when its function returns.
visitAllocaInst(t) ==
  /\ Executes(t, "alloca")
  /\ LET s    == visitMalloc(d, t, Instr(t).v, Instr(t).align)
         base == LastLabel(s.g, t).base
     IN Step(t, [s EXCEPT !.allocas[t] = Append(@, base)]) /\ ReturnVal(t, base)

callFree(t) == Executes(t, "free") /\ Step(t, visitFree(d, t, Addr(t), FALSE)) /\ Return

callHazptrRetire(t) ==
  Executes(t, "hp_retire") /\ Step(t, visitFree(d, t, Addr(t), TRUE)) /\ Return

\* Operand v is the hazard pointer.
callHazptrProtect(t) ==
  Executes(t, "hp_protect") /\ Step(t, visitHpProtect(d, t, Instr(t).v, Addr(t))) /\ Return

callHazptrClear(t) ==
  Executes(t, "hp_clear") /\ Step(t, visitStore(d, t, WriteLabel("rel", Instr(t).v, 0))) /\ Return

-----------------------------------------------------------------------------
(* Threads *)

callThreadCreate(t) ==
  Executes(t, "create") /\ Step(t, visitThreadCreate(d, t)) /\ Return

callThreadJoin(t) == Executes(t, "join") /\ Step(t, visitThreadJoin(d, t, Val(t))) /\ Return

freeAllocas(s, t) ==
  LET Free(x, a) == visitFree(x, t, a, FALSE)
  IN [Seqs!FoldLeft(Free, s, s.allocas[t]) EXCEPT !.allocas[t] = <<>>]

\* The outermost function of the thread returns: its frame is popped, what
\* it allocated on the stack is freed, and the thread ends.
popStackAndReturnValueToCaller(t) ==
  /\ Scheduled(t)
  /\ HasInstr(t) => Instr(t).op = "exit"
  /\ Step(t, visitThreadFinish(freeAllocas(d, t), t)) /\ Return

\* What the unrolling of loops inserts to end a thread without a trace.
callKillThread(t) == Executes(t, "kill") /\ Step(t, [d EXCEPT !.thr[t] = "gone"]) /\ Return

callAssume(t) ==
  /\ Executes(t, "assume")
  /\ Step(t, IF reg[t] = 0 THEN visitBlock(d, t, "User") ELSE d) /\ Return

callAssertFail(t) ==
  /\ Executes(t, "assert")
  /\ Step(t, IF reg[t] = 0 THEN visitError(d, "Safety") ELSE d) /\ Return

-----------------------------------------------------------------------------
(* Spin loops *)

callOptBegin(t) == Executes(t, "opt_begin") /\ Step(t, visitOptional(d, t)) /\ ReturnVal(t, 0)
callLoopBegin(t) == Executes(t, "loop_begin") /\ Step(t, visitLoopBegin(d, t)) /\ Return
callSpinStart(t) == Executes(t, "spin_start") /\ Step(t, visitSpinStart(d, t)) /\ Return

callSpinEnd(t) ==
  /\ Executes(t, "spin_end")
  /\ Step(t, IF reg[t] = 0 THEN visitBlock(d, t, "Spinloop") ELSE d) /\ Return

callFaiZNESpinEnd(t) == Executes(t, "faizne_end") /\ Step(t, visitFaiZNESpinEnd(d, t)) /\ Return
callLockZNESpinEnd(t) == Executes(t, "lockzne_end") /\ Step(t, visitLockZNESpinEnd(d, t)) /\ Return

-----------------------------------------------------------------------------
(* The run *)

\* Faulty variant: the read is not remembered as one that was rescheduled.
rescheduleReadsForgotten ==
  /\ status = "running" /\ ToReschedule(d) # {}
  /\ LET t == MinOf(ToReschedule(d))
     IN /\ d' = [d EXCEPT !.g = removeLast(removeLast(@, t), t), !.thr[t] = "run"]
        /\ Goto(t, pc[t] - 1)
  /\ UNCHANGED <<prog, reg, sched, status>>

\* No thread can go on: the first read that waits because of an optimization
\* is removed and executed again.
rescheduleReads ==
  /\ status = "running" /\ ToReschedule(d) # {}
  /\ LET t == MinOf(ToReschedule(d))
         n == Len(d.g.ev[t])
     IN /\ d' = [d EXCEPT !.g = removeLast(removeLast(@, t), t), !.thr[t] = "run",
                          !.resched = <<t, n - 1>>]
        /\ Goto(t, pc[t] - 1)
  /\ UNCHANGED <<prog, reg, sched, status>>

\* handleFinishedExecution().
handleFinishedExecution ==
  /\ status = "running" /\ scheduleNext(d) = {} /\ ToReschedule(d) = {}
  /\ LET blocked == isExecutionBlocked(d)
         s == IF blocked /\ ~d.moot /\ d.err = "none" THEN checkLiveness(d) ELSE d
     IN /\ d' = s
        /\ status' = CASE s.err # "none" -> "error"
                       [] d.moot         -> "moot"
                       [] blocked        -> "blocked"
                       [] OTHER          -> "complete"
  /\ UNCHANGED <<prog, pc, reg, sched>>

Execute(t) ==
  \/ visitLoadInst(t) \/ visitStoreInst(t) \/ visitFenceInst(t) \/ visitAtomicRMWInst(t)
  \/ visitAtomicCmpXchgInst(t) \/ visitBranchInst(t)
  \/ callMutexInit(t) \/ callMutexLock(t) \/ callMutexUnlock(t) \/ callMutexTrylock(t)
  \/ callMutexDestroy(t) \/ callBarrierInit(t) \/ callBarrierWait(t) \/ callBarrierDestroy(t)
  \/ callMalloc(t) \/ visitAllocaInst(t) \/ callFree(t) \/ callHazptrRetire(t)
  \/ callHazptrProtect(t) \/ callHazptrClear(t)
  \/ callThreadCreate(t) \/ callThreadJoin(t) \/ popStackAndReturnValueToCaller(t)
  \/ callKillThread(t) \/ callAssume(t) \/ callAssertFail(t)
  \/ callOptBegin(t) \/ callLoopBegin(t) \/ callSpinStart(t) \/ callSpinEnd(t)
  \/ callFaiZNESpinEnd(t) \/ callLockZNESpinEnd(t)

Ended    == status # "running"
Finished == Ended /\ UNCHANGED vars

Next == (\E t \in Threads : Execute(t)) \/ rescheduleReads \/ handleFinishedExecution \/ Finished

Spec == Init /\ [][Next]_vars
=============================================================================
