--------------------------- MODULE RuntimeDriver ---------------------------
(***************************************************************************)
(* The driver during one run of a program: the visit functions of          *)
(* GenMCDriver.cpp, which add labels to the graph, block and unblock       *)
(* threads and check for errors.  Runtime has the instructions that call   *)
(* them.                                                                   *)
(*                                                                         *)
(* This is the run of explore() that starts from the empty graph, under    *)
(* -schedule-policy=random: a read reads the last store of its coherence-  *)
(* consistent choices.  Other choices go to the work queue, and the nested *)
(* explorations of backward revisits leave the state of this run as it was *)
(* (GenMCDriver is about those); revisits in place, of locks and barriers, *)
(* are part of the run.  Every run is therefore an interleaving, hence     *)
(* RC11-consistent, and ensureConsistentRf/Store() change nothing.         *)
(*                                                                         *)
(* A handler is an operator from the state d of the driver and the         *)
(* interpreter's threads to the next.  Addresses from DynBase on are       *)
(* dynamic, 0 is null, Static are the globals.                             *)
(***************************************************************************)
EXTENDS RC11Driver

CONSTANTS Static,     \* addresses of global variables
          DynBase     \* the least dynamic address

ASSUME AddressAssumption ==
  /\ Static \subseteq 1 .. DynBase - 1
  /\ Static \subseteq Locs
  /\ DynBase \in Nat

isDynamic(a) == a >= DynBase

\* handleExecutionBeginning(): the main thread has started.
InitialState ==
  [g       |-> addViewed(EmptyGraph, 1, ThreadStartLabel(Init0)),
   thr     |-> [t \in Threads |-> IF t = 1 THEN "run" ELSE "absent"],
   allocas |-> [t \in Threads |-> <<>>],
   prios   |-> {},        \* threadPrios
   moot    |-> FALSE,     \* isMootExecution
   resched |-> Init0,     \* readToReschedule
   heap    |-> DynBase,   \* the allocator's next free address
   err     |-> "none"]    \* the status given to halt()

\* visitError(): only the first error counts.
visitError(s, e) == [s EXCEPT !.err = IF @ = "none" THEN e ELSE @]

ReadValue(g, r) == IF Lab(g, r).rf = Bottom THEN 0 ELSE ReadVal(g, r)

-----------------------------------------------------------------------------
(* Blocking and scheduling *)

\* visitBlock().  All reads of this run are revisitable and maximal, so that
\* mootExecutionIfFullyBlocked() does nothing.
visitBlock(s, t, type) ==
  [s EXCEPT !.thr[t] = "blocked", !.g = addLabel(@, t, BlockLabel(type))]

isBlockedAs(g, t, type) ==
  LastLabel(g, t).kind = "Block" /\ LastLabel(g, t).type = type

isSchedulable(s, t) ==
  s.thr[t] = "run" /\ ~denotesThreadEnd(LastLabel(s.g, t))

\* The threads scheduleNext() may choose.
scheduleNext(s) ==
  LET prio  == {t \in s.prios : isSchedulable(s, t)}
      ready == {t \in Threads : isSchedulable(s, t)}
  IN IF s.moot \/ s.err # "none" THEN {} ELSE IF prio # {} THEN prio ELSE ready

\* Faulty variant: reads that wait are never taken up again.
ToRescheduleNothing(s) == {}

\* The reads rescheduleReads() may take back, once no thread can be scheduled.
ToReschedule(s) ==
  IF s.moot \/ s.err # "none" \/ scheduleNext(s) # {} THEN {}
  ELSE {t \in Created(s.g) : isBlockedAs(s.g, t, "ReadOptBlock")}

-----------------------------------------------------------------------------
(* Memory errors *)

\* The order in which labels(g) visits events.
Before(a, b) == a[1] < b[1] \/ (a[1] = b[1] /\ a[2] < b[2])
FirstOf(S)   == CHOOSE e \in S : \A f \in S : e = f \/ Before(e, f)
LastOf(S)    == CHOOSE e \in S : \A f \in S : e = f \/ Before(f, e)

\* Faulty variant: the label right before the access is left out.
isHazptrProtectedEarlier(g, alloc, e) ==
  \E i \in 1 .. e[2] - 2 : /\ g.ev[e[1]][i].kind = "HpProtect"
                           /\ contains(Lab(g, alloc), g.ev[e[1]][i].prot)

\* The last protection of the block before access e, if there is one, has
\* not been overwritten by another use of its hazard pointer.
isHazptrProtected(g, alloc, e) ==
  LET ls   == g.ev[e[1]]
      prot == {i \in 1 .. e[2] - 1 :
                 ls[i].kind = "HpProtect" /\ contains(Lab(g, alloc), ls[i].prot)}
  IN /\ prot # {}
     /\ \A j \in MaxOf(prot) + 1 .. e[2] - 1 :
          ls[j].kind = "HpProtect" => ls[j].hp # ls[MaxOf(prot)].hp

\* checkForMemoryRaces() for an access: the error it reports, or "none".
checkAccessRaces(g, e) ==
  LET a      == Lab(g, e).loc
      before == PrevHb(g, e)
      At(k)  == {o \in Events(g) : Lab(g, o).kind = k /\ contains(Lab(g, o), a)}
      freed  == At("Free")
      early  == {o \in At("Malloc") : ~Contains(before, o)}
      stores == {o \in Writes(g) : Lab(g, o).loc = a /\ Contains(before, o)}
  IN CASE freed \cup early # {} ->
            IF FirstOf(freed \cup early) \in freed THEN "AccessFreed" ELSE "AccessNonMalloc"
       [] At("Malloc") = {} -> "AccessNonMalloc"
       [] Lab(g, e).op = "R" /\ stores = {} -> "UninitializedMem"
       [] /\ At("HpRetire") # {}
          /\ ~isHazptrProtected(g, LastOf(At("Malloc")), e) -> "AccessFreed"
       [] OTHER -> "none"

\* Faulty variant: accesses that are not ordered before the free are fine.
checkFreeRacesOrdered(g, e) ==
  LET a      == Lab(g, e).base
      allocs == {o \in Events(g) : /\ Lab(g, o).kind = "Malloc" /\ Lab(g, o).base = a
                                   /\ Contains(Lab(g, e).hb, o)}
      twice  == {o \in Events(g) \ {e} : isFree(Lab(g, o)) /\ Lab(g, o).base = a}
  IN CASE ~isDynamic(a) -> "none"
       [] twice # {} -> "DoubleFree"
       [] allocs = {} -> "FreeNonMalloc"
       [] OTHER -> "none"

\* checkForMemoryRaces() for a free or a retire.
checkFreeRaces(g, e) ==
  LET a      == Lab(g, e).base
      before == Lab(g, e).hb
      allocs == {o \in Events(g) : /\ Lab(g, o).kind = "Malloc" /\ Lab(g, o).base = a
                                   /\ Contains(before, o)}
      twice  == {o \in Events(g) \ {e} : isFree(Lab(g, o)) /\ Lab(g, o).base = a}
      uses   == {o \in Reads(g) \cup Writes(g) :
                   Lab(g, o).loc = a /\ ~Contains(before, o)}
      plain  == IF Lab(g, e).kind = "Free" THEN uses ELSE {}
  IN CASE ~isDynamic(a) -> "none"
       [] twice \cup plain # {} ->
            IF FirstOf(twice \cup plain) \in twice THEN "DoubleFree" ELSE "AccessFreed"
       [] allocs = {} -> "FreeNonMalloc"
       [] uses # {} /\ ~isHazptrProtected(g, LastOf(allocs), LastOf(uses)) -> "AccessFreed"
       [] OTHER -> "none"

\* isAccessValid(), as the error that is reported.
accessError(g, e) ==
  IF isDynamic(Lab(g, e).loc) THEN checkAccessRaces(g, e)
  ELSE IF Lab(g, e).loc \in Static THEN "none" ELSE "AccessNonMalloc"

checkForDataRaces(s, e) ==
  IF findDataRaceForMemAccess(s.g, e) # {} THEN visitError(s, "RaceNotAtomic") ELSE s

-----------------------------------------------------------------------------
(* Locks and barriers *)

\* The value given to barrier_init(): that of the first non-atomic store.
getBarrierInitValue(g, a) ==
  LET s == SelectSeq(g.co[a], LAMBDA w : Lab(g, w).ord = "na")
  IN WriteVal(g, s[1])

\* Faulty variant: any store of the lock counts, whoever made it.
getMatchingLockOfAny(g, e) == Len(g.co[Lab(g, e).loc]) - 1

\* The lock of the same thread that an unlock at e releases, as the position
\* of its store; 0 if there is none.
getMatchingLock(g, e) ==
  LET ls == g.ev[e[1]]
      a  == ls[e[2]].loc
      Num(P(_), i) == Cardinality({j \in i + 1 .. e[2] - 1 : P(ls[j]) /\ ls[j].loc = a})
      Unlock(l) == l.kind = "UnlockWrite"
  IN MaxOf({0} \cup {i \in 1 .. e[2] - 1 :
                       /\ isLockWrite(ls[i]) /\ ls[i].loc = a
                       /\ Num(Unlock, i) = Num(isLockWrite, i)})

\* checkLockValidity() and checkBIncValidity(), over all stores the read
\* could have read from.
checkReadValidity(s, r, stores) ==
  LET lab  == Lab(s.g, r)
      vals == {WriteVal(s.g, w) : w \in Seqs!ToSet(stores)}
  IN CASE lab.kind = "LockCasRead" /\ -1 \in vals -> visitError(s, "UninitializedMem")
       [] lab.kind = "BIncFaiRead" /\ Init0 \in Seqs!ToSet(stores) ->
            visitError(s, "UninitializedMem")
       [] lab.kind = "BIncFaiRead" /\ 0 \in vals -> visitError(s, "AccessFreed")
       [] OTHER -> s

\* checkUnlockValidity() and checkBInitValidity().
checkStoreValidity(s, w) ==
  LET lab   == Lab(s.g, w)
      again == {o \in Writes(s.g) \ {w} :
                  Lab(s.g, o).loc = lab.loc /\ Lab(s.g, o).kind = "BInitWrite"}
  IN CASE lab.kind = "UnlockWrite" /\ getMatchingLock(s.g, w) = 0 ->
            visitError(s, "InvalidUnlock")
       [] lab.kind = "BInitWrite" /\ (again # {} \/ lab.val = 0) ->
            visitError(s, "InvalidBInit")
       [] OTHER -> s

\* A lock that is held is waited for, unless the read has been rescheduled.
filterAcquiredLocks(s, r, stores) ==
  LET Locking(w) == w # Init0 /\ isLockWrite(Lab(s.g, w))
      last       == Seqs!Last(stores)
  IN IF Locking(last) /\ s.resched # r THEN <<last>>
     ELSE SelectSeq(stores, LAMBDA w : ~Locking(w) \/ w = last)

filterConflictingBarriers(g, stores) ==
  SelectSeq(stores, LAMBDA w : ~\E q \in Readers(g, w) : isRMWLoad(g, q))

\* The stores that keep an RMW atomic.
getRfsApproximation(g, r) ==
  LET lab == Lab(g, r)
      Settled(w) == isStoreReadBySettledRMW(g, w, lab.loc, lab.porf)
      Violates(w) ==
        \/ lab.rmw = "fai" /\ Settled(w)
        \/ lab.rmw = "cas" /\ WriteVal(g, w) = lab.expected /\ Settled(w)
  IN SelectSeq(getCoherentStores(g, lab.loc, r), LAMBDA w : ~Violates(w))

filterOptimizeRfs(s, r, stores) ==
  CASE Lab(s.g, r).kind = "BIncFaiRead" -> filterConflictingBarriers(s.g, stores)
    [] Lab(s.g, r).kind = "LockCasRead" -> filterAcquiredLocks(s, r, stores)
    [] OTHER -> stores

\* Faulty variant: a thread that waits at a barrier stays blocked.
tryOptimizeBarrierRevisitsAsleep(s, w, loads) == s

\* The last arrival at a barrier revisits in place the reads that wait.
tryOptimizeBarrierRevisits(s, w, loads) ==
  LET Wake(x, r) ==
        [x EXCEPT !.g = removeLast(changeRf(@, r, w), r[1]), !.thr[r[1]] = "run"]
  IN IF Lab(s.g, w).val # getBarrierInitValue(s.g, Lab(s.g, w).loc) THEN s
     ELSE Seqs!FoldLeft(Wake, s, loads)

revisitModifiesGraph(g, r, w) ==
  LET v == getRevisitView(g, r, w)
  IN \E t \in Created(g) :
       v[t] < Len(g.ev[t]) /\ ~denotesThreadEnd(g.ev[t][v[t] + 1])

\* A thread that waits for the lock takes it at once, if only the label that
\* blocks it has been added since.
canRevisitInPlace(g, r, w) ==
  r[2] + 1 = Len(g.ev[r[1]]) /\ ~revisitModifiesGraph(g, r, w)

tryRevisitLockInPlace(s, r, w) ==
  LET a  == Lab(s.g, r).loc
      g1 == changeRf(removeLast(s.g, r[1]), r, w)
      g2 == addViewed(g1, r[1], LockCasWriteLabel(a))
  IN [s EXCEPT !.g = addStoreToLocAfter(g2, a, Succ(r), w),
               !.thr[r[1]] = "run", !.prios = {r[1]}]

\* The loop of calcRevisits() as far as it changes this run: it stops at the
\* first read that is revisited in place or that may not be revisited; a
\* lock that cannot be revisited in place is left to the nested exploration.
revisitLocks(s, loads, w) ==
  LET Stop(r)  == ~inMaximalPath(s.g, r, w)
      Place(r) == Lab(s.g, r).kind = "LockCasRead" /\ canRevisitInPlace(s.g, r, w)
      ends     == {i \in 1 .. Len(loads) : Stop(loads[i]) \/ Place(loads[i])}
      n        == IF ends = {} THEN Len(loads) ELSE MinOf(ends)
      passed   == {i \in 1 .. n : i \notin ends /\ Lab(s.g, loads[i]).kind = "LockCasRead"}
      s1       == [s EXCEPT !.moot = @ \/ passed # {}]
  IN IF ends # {} /\ ~Stop(loads[n]) THEN tryRevisitLockInPlace(s1, loads[n], w) ELSE s1

calcRevisits(s, w) ==
  LET g     == s.g
      lab   == Lab(g, w)
      loads == Seqs!SetToSortSeq(getCoherentRevisits(g, w),
                            LAMBDA a, b : Lab(g, a).stamp > Lab(g, b).stamp)
      open  == SelectSeq(loads, LAMBDA r : ~isOptBlockedRead(g, r))
  IN CASE lab.kind = "BIncFaiWrite" -> tryOptimizeBarrierRevisits(s, w, loads)
       [] lab.kind = "UnlockWrite"  -> revisitLocks(s, open, w)
       [] OTHER -> s

-----------------------------------------------------------------------------
(* Accesses *)

\* Faulty variant: a thread that was blocked stays so.
checkReconsiderFaiSpinloopNever(s, e) == s

\* An access that is not a fetch-and-add and does not happen before the last
\* fetch-and-add of a thread blocked in a zero-net-effect spin loop lets
\* that thread go on.
checkReconsiderFaiSpinloop(s, e) ==
  LET lab == Lab(s.g, e)
      FaiOf(t) == <<t, MaxOf({i \in 1 .. Len(s.g.ev[t]) : isFaiWrite(s.g.ev[t][i])})>>
      Wakes(t) == /\ isBlockedAs(s.g, t, "FaiZNESpinloop")
                  /\ Lab(s.g, FaiOf(t)).loc = lab.loc
                  /\ ~isFaiRead(lab) /\ ~isFaiWrite(lab)
                  /\ ~isHbBefore(s.g, e, FaiOf(t))
      awake == {t \in Created(s.g) : Wakes(t)}
  IN [s EXCEPT !.g.ev = [t \in Threads |->
                           IF t \in awake THEN SubSeq(@[t], 1, Len(@[t]) - 1) ELSE @[t]],
               !.thr  = [t \in Threads |-> IF t \in awake THEN "run" ELSE @[t]]]

\* getReadRetValueAndMaybeBlock(): a barrier that is not full is waited for.
maybeBlock(s, r) ==
  LET lab == Lab(s.g, r)
  IN IF lab.kind = "BWaitRead" /\ ReadVal(s.g, r) # getBarrierInitValue(s.g, lab.loc)
     THEN visitBlock(s, r[1], "Barrier") ELSE s

\* The read has been rescheduled by now; visitLock() asks once more.
forgetRescheduled(s, r) ==
  [s EXCEPT !.resched = IF @ = r /\ Lab(s.g, r).kind # "LockCasRead" THEN Init0 ELSE @]

\* The read takes the last of the stores it may read from.
readLast(s, r, stores) ==
  LET s1 == [s EXCEPT !.g = changeRf(@, r, Seqs!Last(stores))]
      s2 == checkForDataRaces(checkReconsiderFaiSpinloop(s1, r), r)
  IN maybeBlock(forgetRescheduled(checkReadValidity(s2, r, stores), r), r)

loadNew(s, r, err) ==
  IF err # "none" THEN visitError(s, err)
  ELSE readLast(s, r, filterOptimizeRfs(s, r, getRfsApproximation(s.g, r)))

visitLoad(s, t, lab) ==
  LET r  == NextEvent(s.g, t)
      s0 == [s EXCEPT !.g = addViewed(@, t, lab)]
  IN loadNew(s0, r, accessError(s0.g, r))

\* The last arrival at a barrier resets it.
BIncValue(g, lab) ==
  IF lab.kind = "BIncFaiWrite" /\ lab.val = 0 THEN getBarrierInitValue(g, lab.loc)
  ELSE lab.val

\* A new store goes last in coherence, or right after what its RMW read.
placeLast(g, w) ==
  addStoreToLoc(g, Lab(g, w).loc, w, getPossiblePlacings(g, Lab(g, w).loc, w)[2])

storeNew(s, w, err) ==
  IF err # "none" THEN visitError(s, err)
  ELSE LET s1 == calcRevisits([s EXCEPT !.g = placeLast(@, w)], w)
       IN checkStoreValidity(checkForDataRaces(checkReconsiderFaiSpinloop(s1, w), w), w)

visitStore(s, t, lab) ==
  LET w  == NextEvent(s.g, t)
      s0 == [s EXCEPT !.g = addViewed(@, t, [lab EXCEPT !.val = BIncValue(s.g, lab)])]
  IN storeNew(s0, w, accessError(s0.g, w))

-----------------------------------------------------------------------------
(* Locks, threads, memory *)

\* What visitLock() does once its read is in the graph.
lockOrBlock(s, r, late) ==
  LET s1 == [s EXCEPT !.resched = IF late THEN Init0 ELSE @]
  IN IF Lab(s.g, r).rf # Bottom /\ ReadVal(s.g, r) = 0
     THEN visitStore(s1, r[1], LockCasWriteLabel(Lab(s.g, r).loc))
     ELSE visitBlock(s1, r[1], IF late THEN "LockNotAcq" ELSE "ReadOptBlock")

visitLock(s, t, a) ==
  lockOrBlock(visitLoad(s, t, LockCasReadLabel(a)), NextEvent(s.g, t), s.resched = NextEvent(s.g, t))

visitUnlock(s, t, a) == visitStore(s, t, UnlockWriteLabel(a))

visitFence(s, t, o) == [s EXCEPT !.g = addViewed(@, t, FenceLabel(o))]

visitThreadCreate(s, t) ==
  LET cid == Cardinality(Created(s.g)) + 1
      e   == NextEvent(s.g, t)
      g1  == addViewed(s.g, t, ThreadCreateLabel(cid))
  IN [s EXCEPT !.g = addViewed(g1, cid, ThreadStartLabel(e)), !.thr[cid] = "run"]

visitThreadJoin(s, t, cid) ==
  LET j  == NextEvent(s.g, t)
      g1 == addViewed(s.g, t, ThreadJoinLabel(cid))
      s1 == [s EXCEPT !.g = g1]
  IN IF cid \notin Created(g1) \/ cid = t THEN visitError(s1, "InvalidJoin")
     ELSE IF LastLabel(g1, cid).kind = "ThreadFinish"
     THEN [s1 EXCEPT !.g = updateJoin(@, j, <<cid, Len(g1.ev[cid])>>)]
     ELSE [s1 EXCEPT !.thr[t] = "blocked"]

\* The threads that wait for the end of t.
JoinsOf(g, t) == {u \in Created(g) :
                    LastLabel(g, u).kind = "ThreadJoin" /\ LastLabel(g, u).child = t}

\* The joins that wait for the thread meet its end.
relieveJoins(g, t) ==
  LET Relieve(x, u) == updateJoin(x, <<u, Len(x.ev[u])>>, <<t, Len(x.ev[t])>>)
  IN Seqs!FoldLeft(Relieve, g, Seqs!SetToSeq(JoinsOf(g, t)))

visitThreadFinish(s, t) ==
  LET g1 == addViewed(s.g, t, ThreadFinishLabel)
  IN IF t = 1 THEN [s EXCEPT !.g = g1, !.thr[t] = "gone"]
     ELSE [s EXCEPT !.g = relieveJoins(g1, t),
                    !.thr = [u \in Threads |-> IF u = t THEN "gone"
                                              ELSE IF u \in JoinsOf(g1, t) THEN "run" ELSE @[u]]]

visitMalloc(s, t, size, align) ==
  LET base == ((s.heap + align - 1) \div align) * align
  IN [s EXCEPT !.heap = @ + align - 1 + size,
               !.g = addViewed(@, t, MallocLabel(base, size))]

getMallocCounterpart(g, a) ==
  {o \in Events(g) : Lab(g, o).kind = "Malloc" /\ Lab(g, o).base = a}

\* callFree() and callHazptrRetire(); freeing a null pointer does nothing.
visitFree(s, t, a, retire) ==
  LET e    == NextEvent(s.g, t)
      m    == getMallocCounterpart(s.g, a)
      size == IF m = {} THEN 0 ELSE Lab(s.g, FirstOf(m)).size
      g1   == addViewed(s.g, t, IF retire THEN HpRetireLabel(a, size) ELSE FreeLabel(a, size))
      s1   == [s EXCEPT !.g = g1]
  IN IF a = 0 THEN s
     ELSE IF checkFreeRaces(g1, e) = "none" THEN s1
     ELSE visitError(s1, checkFreeRaces(g1, e))

visitHpProtect(s, t, hp, a) == [s EXCEPT !.g = addViewed(@, t, HpProtectLabel(hp, a))]

-----------------------------------------------------------------------------
(* Spin loops *)

visitOptional(s, t) ==
  LET off == \E e \in Events(s.g) : Lab(s.g, e).kind = "Optional" /\ ~Lab(s.g, e).expandable
  IN [s EXCEPT !.g = addViewed(@, t, [OptionalLabel EXCEPT !.expandable = ~off])]

visitLoopBegin(s, t) == [s EXCEPT !.g = addViewed(@, t, LoopBeginLabel)]

\* An exchange that writes what it read has no effect.
isWriteEffectful(g, w) ==
  LET rd == Lab(g, Prev(w))
  IN ~(isFaiWrite(Lab(g, w)) /\ rd.fop = "xchg" /\ ReadValue(g, Prev(w)) = Lab(g, w).val)

\* A store to memory that the thread has allocated cannot be observed as
\* long as nothing was released since, and the thread itself has not read
\* the location.
isWriteObservable(g, w) ==
  LET ls  == g.ev[w[1]]
      lab == Lab(g, w)
      own == {i \in 1 .. w[2] - 1 : ls[i].kind = "Malloc" /\ contains(ls[i], lab.loc)}
  IN \/ lab.rel \/ ~isDynamic(lab.loc) \/ own = {}
     \/ \E j \in MaxOf(own) + 1 .. w[2] - 1 :
          ls[j].rel \/ (ls[j].op = "R" /\ ls[j].loc = lab.loc)

isIdleIteration(g, t, from, to) ==
  \A i \in from + 1 .. to - 1 :
    ~(/\ g.ev[t][i].op = "W"
      /\ isWriteEffectful(g, <<t, i>>) /\ isWriteObservable(g, <<t, i>>))

visitSpinStart(s, t) ==
  LET s1    == [s EXCEPT !.g = addViewed(@, t, SpinStartLabel)]
      ls    == s1.g.ev[t]
      n     == Len(ls)
      begin == MaxOf({i \in 1 .. n - 1 : ls[i].kind = "LoopBegin"})
      starts == {i \in begin + 1 .. n - 1 : ls[i].kind = "SpinStart"}
  IN IF starts # {} /\ isIdleIteration(s1.g, t, MaxOf(starts), n)
     THEN visitBlock(s1, t, "Spinloop") ELSE s1

areFaiZNEConstraintsSat(g, e) ==
  LET t    == e[1]
      ls   == g.ev[t]
      from == MaxOf({i \in 1 .. e[2] - 1 : ls[i].kind = "SpinStart"})
      fai  == <<t, MaxOf({i \in 1 .. e[2] - 1 : isFaiWrite(ls[i])})>>
  IN /\ \A i \in from + 1 .. e[2] - 1 : ls[i].op = "W" => isFaiWrite(ls[i])
     /\ \A o \in Reads(g) \cup Writes(g) :
          /\ Lab(g, o).loc = Lab(g, fai).loc
          /\ ~isFaiRead(Lab(g, o)) /\ ~isFaiWrite(Lab(g, o))
          => isHbBefore(g, o, fai)

visitFaiZNESpinEnd(s, t) ==
  LET e  == NextEvent(s.g, t)
      s1 == [s EXCEPT !.g = addViewed(@, t, FaiZNESpinEndLabel)]
  IN IF areFaiZNEConstraintsSat(s1.g, e) THEN visitBlock(s1, t, "FaiZNESpinloop") ELSE s1

visitLockZNESpinEnd(s, t) ==
  visitBlock([s EXCEPT !.g = addViewed(@, t, LockZNESpinEndLabel)], t, "LockZNESpinloop")

\* Faulty variant: some read of the last iteration is maximal.
threadReadsMaximalSome(g, t) ==
  \E i \in 1 .. Len(g.ev[t]) :
    g.ev[t][i].op = "R" /\ isCoMaximal(g, g.ev[t][i].loc, g.ev[t][i].rf)

\* The reads of the last iteration of a blocked spin loop read maximal stores.
threadReadsMaximal(g, t) ==
  LET ls    == g.ev[t]
      last  == Len(ls) - 1
      start == IF ls[last].kind = "SpinStart" THEN last - 1 ELSE last
      from  == MaxOf({i \in 1 .. start : ls[i].kind = "SpinStart"})
  IN \A i \in from + 1 .. start :
       ls[i].op = "R" => isCoMaximal(g, ls[i].loc, ls[i].rf)

SpinBlocked(g) == {t \in Created(g) : isBlockedAs(g, t, "Spinloop")}

checkLiveness(s) ==
  IF SpinBlocked(s.g) # {} /\ \A t \in SpinBlocked(s.g) : threadReadsMaximal(s.g, t)
  THEN visitError(s, "Liveness") ELSE s

isExecutionBlocked(s) ==
  \E t \in Created(s.g) : LastLabel(s.g, t).kind = "Block" \/ s.thr[t] = "blocked"
=============================================================================
