----------------------------- MODULE GenMCDriver -----------------------------
(***************************************************************************)
(* The exploration algorithm of GenMCDriver.cpp for the RC11 model, with   *)
(* modification order tracked (-mo, the default) or by writes-before       *)
(* (-wb), for programs that consist of atomic accesses and fences.         *)
(*                                                                         *)
(* The program under verification is a sequence of instructions for each   *)
(* thread.  The driver runs it, adding one event at a time; it records     *)
(* alternative reads-from and coherence choices in its work queue, and it  *)
(* follows backward revisits (a new store changing what an older read      *)
(* reads) as soon as it meets them, by calling explore() recursively from  *)
(* calcRevisits() or by submitting them to the thread pool.                *)
(*                                                                         *)
(* The C++ call stack is the variable stack: one frame for each active     *)
(* call of calcRevisits(), holding the loads still to be tried and, while  *)
(* a nested explore() runs, the LocalState saved by releaseLocalState().   *)
(* Replaying the part of the execution that is already in the graph        *)
(* changes nothing and takes no step.                                      *)
(***************************************************************************)
EXTENDS RC11Driver

CONSTANT Configs        \* the programs to verify, with the options:
  \* code: [Threads -> Seq(Instr)]
  \* policy (-schedule-policy): "ltr", "wf" or "random"
  \* room: how many tasks the pool accepts (0: no pool)
  \* coherence: "mo" or "wb"
  \* point, type (-check-consistency-*): "error", "exec" or "step"; "slow", "full"

\* Threads run sequences of instructions, and accesses have a location.
ASSUME ConfigsAssumption ==
  \A c \in Configs :
    /\ c.policy \in {"ltr", "wf", "random"}
    /\ \A t \in Threads :
         /\ Len(c.code[t]) \in Nat
         /\ \A i \in 1 .. Len(c.code[t]) :
              c.code[t][i].op \in {"R", "W"} => c.code[t][i].loc \in Locs

VARIABLES conf,         \* one of them
          ctl,          \* what the driver does next
          graph,        \* execGraph
          workqueue,    \* workqueue: stamp -> WorkSet
          moot,         \* isMootExecution
          blocked,      \* all threads are blocked (BlockageType::Cons)
          stack,        \* the active calls of calcRevisits(), innermost last
          tasks,        \* graphs submitted to the pool
          explored,     \* the complete executions counted by result.explored
          repeated      \* an execution was counted twice

vars == <<conf, ctl, graph, workqueue, moot, blocked, stack, tasks, explored, repeated>>

prog == conf.code

NoWork == [s \in {} |-> <<>>]

-----------------------------------------------------------------------------
(* The coherence calculator of the graph *)

WB == INSTANCE WBCalculator
Cons == INSTANCE Consistency

isWB == conf.coherence = "wb"

StoreAdded(g, loc, e, off) ==
  IF isWB THEN WB!addStoreToLoc(g, loc, e) ELSE addStoreToLoc(g, loc, e, off)
StoreAddedAfter(g, loc, e, pred) ==
  IF isWB THEN WB!addStoreToLocAfter(g, loc, e, pred)
  ELSE addStoreToLocAfter(g, loc, e, pred)
PlacingsOf(g, loc, e) ==
  IF isWB THEN WB!getPossiblePlacings(g, loc, e) ELSE getPossiblePlacings(g, loc, e)
RevisitsOf(g, w) == IF isWB THEN WB!getCoherentRevisits(g, w) ELSE getCoherentRevisits(g, w)
isMaximalExtension(g, r, w) ==
  IF isWB THEN WB!inMaximalPath(g, r, w) ELSE inMaximalPath(g, r, w)

\* The stores a read may read, and those of them that other reads-from
\* options are marked as maximal for (none with -mo).
CoherentStores(g, loc, e) ==
  IF isWB THEN WB!getCoherentStores(g, loc, e)
  ELSE {[stores |-> getCoherentStores(g, loc, e), maximal |-> {}]}

\* getCheckConsType() and isConsistent() at a program point below "error".
Points == [exec |-> 1, step |-> 2, error |-> 0]
getCheckConsType(p) == IF Points[p] <= Points[conf.point] THEN conf.type ELSE "fast"
isConsistent(g, p)  == Cons!isConsistent(g, isWB, getCheckConsType(p))

isLast(g, loc, w) == IF isWB THEN WB!isCoMaximal(g, loc, w) ELSE isCoMaximal(g, loc, w)

Cut(g, stamp)  == WB!removeAfter(cutToStamp(g, stamp))
Copy(g, r, w)  == IF isWB THEN WB!Retracked(copyGraph(g, r, w)) ELSE copyGraph(g, r, w)

-----------------------------------------------------------------------------
(* The interpreter's view of the program *)

\* An instruction adds one label, or two if it is an RMW that succeeds.
Executed(g, t) == Cardinality({i \in 1 .. Len(g.ev[t]) : ~isRMWStore(g, <<t, i>>)})
HasNext(g, t)  == Executed(g, t) < Len(prog[t])
NextInstr(g, t) == prog[t][Executed(g, t) + 1]

\* The RMW that read lab belongs to succeeds if it reads val.
Succeeds(lab, val) ==
  lab.rmw = "fai" \/ (lab.rmw = "cas" /\ val = lab.expected)

\* The value its store then writes (executeAtomicRMWOperation for an add).
ResultOf(lab, val) == IF lab.rmw = "fai" THEN val + lab.operand ELSE lab.operand

\* A thread is in the middle of an RMW: its read succeeded and its store has
\* not been added.
PendingStore(g, t) ==
  LET e == <<t, Len(g.ev[t])>>
  IN /\ g.ev[t] # <<>>
     /\ Lab(g, e).op = "R"
     /\ Succeeds(Lab(g, e), ReadVal(g, e))

NewRead(ins) ==
  [kind |-> "Read", op |-> "R", ord |-> ins.ord,
   rmw |-> ins.rmw, loc |-> ins.loc, acq |-> ins.acq,
   rel |-> ins.rel, expected |-> ins.expected, operand |-> ins.val,
   rf |-> Init0, rev |-> TRUE, max |-> TRUE, stamp |-> 0,
   hb |-> ZeroView, porf |-> ZeroView]

NewWrite(rmw, loc, ord, val) ==
  [kind |-> "Write", op |-> "W", ord |-> ord,
   rmw |-> rmw, loc |-> loc, rel |-> isAtLeastRelease(ord), val |-> val,
   max |-> TRUE, stamp |-> 0,
   hb |-> ZeroView, porf |-> ZeroView, msg |-> ZeroView]

\* The store of an RMW whose read is at the end of the thread.
StoreOfRMW(g, r) ==
  LET lab == Lab(g, r)
  IN NewWrite(lab.rmw, lab.loc, lab.ord, ResultOf(lab, ReadVal(g, r)))

-----------------------------------------------------------------------------
(* Scheduling.  The store of an RMW belongs to the instruction that has    *)
(* already been scheduled.                                                 *)

Schedulable(g) == {t \in Threads : HasNext(g, t)}
InRMW(g) == {t \in Threads : PendingStore(g, t)}

NextIsLoad(g, t) == NextInstr(g, t).op = "R"

Scheduled(g) ==
  IF InRMW(g) # {} THEN InRMW(g)
  ELSE IF Schedulable(g) = {} THEN {}
  ELSE CASE conf.policy = "random" -> Schedulable(g)
         [] conf.policy = "ltr"    -> {MinOf(Schedulable(g))}
         [] conf.policy = "wf"     ->
              LET writers == {t \in Schedulable(g) : ~NextIsLoad(g, t)}
              IN {MinOf(IF writers # {} THEN writers ELSE Schedulable(g))}

-----------------------------------------------------------------------------
(* The work queue *)

Forward(r, w, m) == [kind |-> "forward", pos |-> r, rev |-> w, max |-> m]
MOChange(w, off) == [kind |-> "mo", pos |-> w, off |-> off]

\* Faulty variant: items are filed under the next stamp.
addToWorklistLate(q, stamp, items) ==
  [s \in DOMAIN q \cup {stamp + 1} |->
     (IF s \in DOMAIN q THEN q[s] ELSE <<>>) \o
     (IF s = stamp + 1 THEN items ELSE <<>>)]

\* addToWorklist() for a sequence of items about the same event.
addToWorklist(q, stamp, items) ==
  [s \in DOMAIN q \cup {stamp} |->
     (IF s \in DOMAIN q THEN q[s] ELSE <<>>) \o
     (IF s = stamp THEN items ELSE <<>>)]

NonEmpty(q) == {s \in DOMAIN q : q[s] # <<>>}

\* Faulty variant: the item stays in the queue.
WithoutNone(q) == q

\* getNextItem() takes the last item of the largest stamp that has one.
NextStamp(q) == MaxOf(NonEmpty(q))
NextItem(q)  == q[NextStamp(q)][Len(q[NextStamp(q)])]
WithoutNext(q) == [q EXCEPT ![NextStamp(q)] = SubSeq(@, 1, Len(@) - 1)]

\* restrictWorklist() forgets the empty sets of later stamps.
restrictWorklist(q, stamp) ==
  LET keep == {s \in DOMAIN q : s <= stamp \/ q[s] # <<>>}
  IN [s \in keep |-> q[s]]

-----------------------------------------------------------------------------
(* calcRevisits() *)

\* The loads to try: they are sorted, and the latest one is tried first.
getRevisitableApproximation(g, w) == RevisitsOf(g, w)
NextLoad(g, loads) ==
  CHOOSE r \in loads : \A q \in loads : Lab(g, q).stamp <= Lab(g, r).stamp

\* A call of calcRevisits(w).  Its caller is visitStore() ("visit"),
\* restrictAndRevisit() ("restrict"), or revisitRead() on behalf of another
\* calcRevisits() ("nested").
Frame(caller, g, w) ==
  [caller |-> caller, write |-> w,
   loads |-> getRevisitableApproximation(g, w), saved |-> <<>>]

Top == stack[Len(stack)]
Pop == SubSeq(stack, 1, Len(stack) - 1)
SetTop(f) == [stack EXCEPT ![Len(stack)] = f]

\* Faulty variant: the store becomes the last in coherence.
completeRevisitedRMWLast(g, r) ==
  LET w == Succ(r)
      lab == calcWriteViews(g, w, StoreOfRMW(g, r))
  IN StoreAdded(addLabel(g, r[1], lab), lab.loc, w, Len(g.co[lab.loc]))

\* completeRevisitedRMW(): the store of a revisited read that has become a
\* successful RMW is added right after the store the read reads from.
completeRevisitedRMW(g, r) ==
  LET w == Succ(r)
      lab == calcWriteViews(g, w, StoreOfRMW(g, r))
  IN StoreAddedAfter(addLabel(g, r[1], lab), lab.loc, w, Lab(g, r).rf)

BecomesRMW(g, r) == Succeeds(Lab(g, r), ReadVal(g, r))

-----------------------------------------------------------------------------
Init ==
  /\ conf \in Configs
  /\ ctl = "run"
  /\ graph = EmptyGraph
  /\ workqueue = NoWork
  /\ moot = FALSE
  /\ blocked = FALSE
  /\ stack = <<>>
  /\ tasks = <<>>
  /\ explored = {}
  /\ repeated = FALSE

(* visitLoad() *)

\* getRfsApproximation(): an RMW does not read a store that another RMW,
\* which no revisit can change, already reads.
getRfsApproximation(g, e, stores) ==
  LET lab == Lab(g, e)
      Settled(s) == /\ Succeeds(lab, WriteVal(g, s))
                    /\ isStoreReadBySettledRMW(g, s, lab.loc, lab.porf)
  IN Kept(stores, {i \in DOMAIN stores : ~Settled(stores[i])})

\* ensureConsistentRf() drops options from the end until one is consistent,
\* and stops (BUG_ON) if none is: there is no result then.
ensureConsistentRf(g, e, stores) ==
  {SubSeq(stores, 1, n) : n \in
     {i \in DOMAIN stores :
        /\ isConsistent(changeRf(g, e, stores[i]), "step")
        /\ \A j \in i + 1 .. Len(stores) : ~isConsistent(changeRf(g, e, stores[j]), "step")}}

visitLoad(t) ==
  /\ ~PendingStore(graph, t)
  /\ NextInstr(graph, t).op = "R"
  /\ LET e   == NextEvent(graph, t)
         lab == calcReadViews(graph, e, NewRead(NextInstr(graph, t)))
     IN \E g \in {addLabel(graph, t, lab)} :
        \E cs \in CoherentStores(g, lab.loc, e) :
        \E stores \in ensureConsistentRf(g, e, getRfsApproximation(g, e, cs.stores)) :
          LET others == SubSeq(stores, 1, Len(stores) - 1)
          IN /\ graph' = changeRf(g, e, stores[Len(stores)])
             /\ workqueue' =
                  IF others = <<>> THEN workqueue
                  ELSE addToWorklist(workqueue, Lab(g, e).stamp,
                         [i \in 1 .. Len(others) |->
                            Forward(e, others[i], others[i] \in cs.maximal)])
  /\ UNCHANGED <<conf, ctl, moot, blocked, stack, tasks, explored, repeated>>

(* visitFence() *)

visitFence(t) ==
  /\ ~PendingStore(graph, t)
  /\ NextInstr(graph, t).op = "F"
  /\ graph' = addLabel(graph, t,
                calcFenceViews(graph, NextEvent(graph, t), FenceLabel(NextInstr(graph, t).ord)))
  /\ UNCHANGED <<conf, ctl, workqueue, moot, blocked, stack, tasks, explored, repeated>>

(* visitStore() *)

\* The offsets before the last at which the store may be placed: not right
\* before the store of an RMW.
OtherPlacings(g, loc, places) ==
  Kept([i \in 1 .. places[2] - places[1] |-> places[1] + i - 1],
       {i \in 1 .. places[2] - places[1] : ~isRMWStore(g, g.co[loc][places[1] + i])})

\* ensureConsistentStore(): an inconsistent graph is not continued (though
\* revisits are still calculated).
AddStore(t, new) ==
  LET e   == NextEvent(graph, t)
      lab == calcWriteViews(graph, e, new)
  IN \E g \in {addLabel(graph, t, lab)} :
     \E ng \in {StoreAdded(g, lab.loc, e, PlacingsOf(g, lab.loc, e)[2])} :
       LET offs == OtherPlacings(g, lab.loc, PlacingsOf(g, lab.loc, e))
       IN /\ graph' = ng
          /\ workqueue' =
               IF offs = <<>> THEN workqueue
               ELSE addToWorklist(workqueue, Lab(g, e).stamp,
                      [i \in 1 .. Len(offs) |-> MOChange(e, offs[i])])
          /\ moot' = (moot \/ violatesAtomicity(ng, e))
          /\ blocked' = (violatesAtomicity(ng, e) \/ ~isConsistent(ng, "step"))
          /\ stack' = Append(stack, Frame("visit", ng, e))
          /\ ctl' = "revisit"
          /\ UNCHANGED <<conf, tasks, explored, repeated>>

visitStore(t) ==
  \/ /\ PendingStore(graph, t)
     /\ AddStore(t, StoreOfRMW(graph, <<t, Len(graph.ev[t])>>))
  \/ /\ ~PendingStore(graph, t)
     /\ LET ins == NextInstr(graph, t)
        IN /\ ins.op = "W"
           /\ AddStore(t, NewWrite("none", ins.loc, ins.ord, ins.val))

\* One step of the interpreter.
Visit ==
  /\ ctl = "run" /\ ~moot /\ ~blocked
  /\ \E t \in Scheduled(graph) : visitLoad(t) \/ visitFence(t) \/ visitStore(t)

\* What distinguishes one execution from another: its labels, what its
\* reads read and, if it is tracked, coherence.
ExecutionOf(g) ==
  [rf |-> [r \in Reads(g) |-> Lab(g, r).rf],
   co |-> IF isWB THEN {} ELSE g.co]

\* scheduleNext() finds nothing to do: handleFinishedExecution().
FinishExecution ==
  /\ ctl = "run"
  /\ moot \/ blocked \/ Scheduled(graph) = {}
  /\ IF moot \/ blocked \/ (conf.point = "exec" /\ ~isConsistent(graph, "exec"))
     THEN UNCHANGED <<explored, repeated>>
     ELSE /\ explored' = explored \cup {ExecutionOf(graph)}
          /\ repeated' = (repeated \/ ExecutionOf(graph) \in explored)
  /\ ctl' = "next"
  /\ UNCHANGED <<conf, graph, workqueue, moot, blocked, stack, tasks>>

-----------------------------------------------------------------------------
(* The inner loop of explore(): take the next item and restrict the graph. *)

\* revisitRead() in graph g: if the read becomes an RMW, its store performs
\* revisits first.  ctl' = after otherwise.
revisitRead(g, r, frames, caller, after) ==
  IF BecomesRMW(g, r)
  THEN \E ng \in {completeRevisitedRMW(g, r)} :
         /\ graph' = ng
         /\ stack' = Append(frames, Frame(caller, ng, Succ(r)))
         /\ ctl' = "revisit"
  ELSE /\ graph' = g
       /\ stack' = frames
       /\ ctl' = after

\* A read reads from another of the stores found when it was added.
ForwardRevisit(item, q) ==
  LET r == item.pos
  IN /\ item.kind = "forward"
     /\ workqueue' = restrictWorklist(q, Lab(graph, r).stamp)
     /\ \E cut \in {Cut(graph, Lab(graph, r).stamp)} :
        \E g \in {setAddedMax(changeRf(cut, r, item.rev), r, item.max)} :
          revisitRead(g, r, stack, "restrict", IF isConsistent(g, "step") THEN "run" ELSE "next")

\* A store is placed elsewhere in coherence.
WriteRevisit(item, q) ==
  LET w == item.pos
  IN /\ item.kind = "mo"
     /\ workqueue' = restrictWorklist(q, Lab(graph, w).stamp)
     /\ \E cut \in {Cut(graph, Lab(graph, w).stamp)} :
        \E g \in {setAddedMax(changeStoreOffset(cut, Lab(cut, w).loc, w, item.off), w, FALSE)} :
          /\ graph' = g
          /\ stack' = Append(stack, Frame("restrict", g, w))
     /\ ctl' = "revisit"

restrictAndRevisit ==
  /\ ctl = "next"
  /\ NonEmpty(workqueue) # {}
  /\ moot' = FALSE /\ blocked' = FALSE
  /\ \/ ForwardRevisit(NextItem(workqueue), WithoutNext(workqueue))
     \/ WriteRevisit(NextItem(workqueue), WithoutNext(workqueue))
  /\ UNCHANGED <<conf, tasks, explored, repeated>>

\* explore() returns when the work queue is empty: to the calcRevisits()
\* that called it (restoreLocalState), or to the worker's loop.
ReturnFromExplore ==
  /\ ctl = "next"
  /\ NonEmpty(workqueue) = {}
  /\ IF stack = <<>>
     THEN /\ ctl' = "idle"
          /\ graph' = EmptyGraph
          /\ workqueue' = NoWork
          /\ moot' = FALSE /\ blocked' = FALSE
          /\ UNCHANGED stack
     ELSE LET s == Top.saved[1]
          IN /\ graph' = s.graph
             /\ workqueue' = s.workqueue
             /\ moot' = s.moot /\ blocked' = s.blocked
             /\ stack' = SetTop([Top EXCEPT !.saved = <<>>])
             /\ ctl' = "revisit"
  /\ UNCHANGED <<conf, tasks, explored, repeated>>

-----------------------------------------------------------------------------
(* The loop of calcRevisits() *)

\* The removed events must form a maximal extension; at the first load for
\* which they do not, the loop ends.
BreakRevisits ==
  /\ ctl = "revisit"
  /\ Top.loads # {}
  /\ ~isMaximalExtension(graph, NextLoad(graph, Top.loads), Top.write)
  /\ stack' = SetTop([Top EXCEPT !.loads = {}])
  /\ UNCHANGED <<conf, ctl, graph, workqueue, moot, blocked, tasks, explored, repeated>>

\* Copy the graph and revisit the load in the copy.  If the load becomes an
\* RMW, its store performs revisits of its own first.
BackwardRevisit ==
  /\ ctl = "revisit"
  /\ Top.loads # {}
  /\ isMaximalExtension(graph, NextLoad(graph, Top.loads), Top.write)
  /\ workqueue' = NoWork
  /\ LET r == NextLoad(graph, Top.loads)
         w == Top.write
         state == [graph |-> graph, workqueue |-> workqueue, moot |-> moot, blocked |-> blocked]
         rest == SetTop([Top EXCEPT !.loads = @ \ {r}, !.saved = <<state>>])
     IN \E copy \in {Copy(graph, r, w)} : \E og \in {changeRf(copy, r, w)} :
        \E g \in {setAddedMax(og, r, isLast(og, Lab(og, r).loc, w))} :
          revisitRead(g, r, rest, "nested", "enter")
  /\ UNCHANGED <<conf, moot, blocked, tasks, explored, repeated>>

\* Faulty variant: the released state is submitted.
SubmitReleased ==
  /\ ctl = "enter"
  /\ Len(tasks) < conf.room
  /\ LET s == Top.saved[1]
     IN /\ tasks' = Append(tasks, s.graph)
        /\ graph' = s.graph
        /\ workqueue' = s.workqueue
        /\ moot' = s.moot /\ blocked' = s.blocked
        /\ stack' = SetTop([Top EXCEPT !.saved = <<>>])
  /\ ctl' = "revisit"
  /\ UNCHANGED <<conf, explored, repeated>>

\* The revisited graph is submitted to the pool if it has room ...
SubmitRevisit ==
  /\ ctl = "enter"
  /\ Len(tasks) < conf.room
  /\ tasks' = Append(tasks, graph)
  /\ LET s == Top.saved[1]
     IN /\ graph' = s.graph
        /\ workqueue' = s.workqueue
        /\ moot' = s.moot /\ blocked' = s.blocked
        /\ stack' = SetTop([Top EXCEPT !.saved = <<>>])
  /\ ctl' = "revisit"
  /\ UNCHANGED <<conf, explored, repeated>>

\* ... and explored at once otherwise.  Whether there is room depends on how
\* far the other workers have come, so with a pool either may happen.
EnterExplore ==
  /\ ctl = "enter"
  /\ isConsistent(graph, "step")
  /\ moot' = FALSE /\ blocked' = FALSE
  /\ ctl' = "run"
  /\ UNCHANGED <<conf, graph, workqueue, stack, tasks, explored, repeated>>

\* An inconsistent graph is dropped: restoreLocalState().
DropRevisit ==
  /\ ctl = "enter"
  /\ ~isConsistent(graph, "step")
  /\ LET s == Top.saved[1]
     IN /\ graph' = s.graph
        /\ workqueue' = s.workqueue
        /\ moot' = s.moot /\ blocked' = s.blocked
        /\ stack' = SetTop([Top EXCEPT !.saved = <<>>])
  /\ ctl' = "revisit"
  /\ UNCHANGED <<conf, tasks, explored, repeated>>

\* calcRevisits() returns.  visitStore() ignores the result (a moot
\* execution is not continued anyway), restrictAndRevisit() drops the item,
\* and the result of a nested call is ignored.
EndRevisits ==
  /\ ctl = "revisit"
  /\ Top.loads = {}
  /\ LET m == moot \/ violatesAtomicity(graph, Top.write)
     IN /\ moot' = m
        /\ ctl' = CASE Top.caller = "visit"    -> "run"
                    [] Top.caller = "restrict" ->
                         IF m \/ ~isConsistent(graph, "step") THEN "next" ELSE "run"
                    [] Top.caller = "nested"   -> "enter"
  /\ stack' = Pop
  /\ UNCHANGED <<conf, graph, workqueue, blocked, tasks, explored, repeated>>

\* A worker takes a submitted graph; with several workers, any may be next.
TakeTask ==
  /\ ctl = "idle"
  /\ \E i \in 1 .. Len(tasks) :
       /\ graph' = tasks[i]
       /\ tasks' = SubSeq(tasks, 1, i - 1) \o SubSeq(tasks, i + 1, Len(tasks))
  /\ ctl' = "run"
  /\ UNCHANGED <<conf, workqueue, moot, blocked, stack, explored, repeated>>

Finished == ctl = "idle" /\ tasks = <<>>

Done == Finished /\ UNCHANGED vars

Next ==
  \/ Visit \/ FinishExecution
  \/ restrictAndRevisit \/ ReturnFromExplore
  \/ BreakRevisits \/ BackwardRevisit \/ SubmitRevisit \/ EnterExplore
  \/ DropRevisit
  \/ EndRevisits
  \/ TakeTask \/ Done

\* The thread that runs the driver is never stopped: it takes steps until it
\* has finished.  (This is weak fairness of Next, whose steps are enabled
\* exactly until then, in a form that spares TLC the evaluation of ENABLED.)
Fairness == []<>Finished \/ []<><<TRUE>>_vars

Spec == Init /\ [][Next]_vars
FairSpec == Spec /\ Fairness
=============================================================================
