------------------------------- MODULE Bodies -------------------------------
(***************************************************************************)
(* The interpreter at work on functions of integers with loads, CASes and  *)
(* assume()s, one instruction at a time, together with what the passes and *)
(* the driver conclude about the function beforehand: after a load, watch  *)
(* remembers whether filterValuesFromAnnotSAVER() keeps the value read, to *)
(* be compared with what the function then does with it.                   *)
(***************************************************************************)
EXTENDS Passes

CONSTANTS Funs,      \* sequence of functions [blocks, params, loops]
          MemVals    \* the values that memory may hold, as SVals

VARIABLES run,       \* [f, at, prev, regs, status]
          watch      \* [open, keep, annotated, closed, blocked, changed]
vars == <<run, watch>>

Idle == [open |-> FALSE, keep |-> TRUE, annotated |-> FALSE,
         closed |-> FALSE, blocked |-> FALSE, changed |-> FALSE]

Init ==
  /\ \E f \in DOMAIN Funs : \E vals \in [Funs[f].params -> 0 .. Word - 1] :
       run = [f |-> f, at |-> <<1, 1>>, prev |-> 0, regs |-> vals, status |-> "running"]
  /\ watch = Idle

Annotations == [f \in DOMAIN Funs |-> LoadAnnotations(Funs[f])]

Fun == Funs[run.f]
Inst == At(Fun, run.at)
Value(o) == IF IsReg(o) THEN run.regs[o.reg] ELSE o.val
Arg(k) == Value(Inst.args[k])

SetValue(r, v) == [q \in DOMAIN run.regs \cup {r} |-> IF q = r THEN v ELSE run.regs[q]]

\* A watch ends where the annotation does: at an assume(), another load, an
\* effect, or a jump that is not a branch.
Close(blocked) ==
  [watch EXCEPT !.open = FALSE, !.closed = watch.open, !.blocked = blocked]
Pass == [watch EXCEPT !.closed = FALSE]

-----------------------------------------------------------------------------
Calculated ==
  CASE Inst.op \in BinaryOps -> visitBinaryOperator(Inst.op, Inst.w, Arg(1), Arg(2))
    [] Inst.op \in ShiftOps -> visitShift(Inst.op, Inst.w, Arg(1), Arg(2))
    [] Inst.op \in CompareOps -> visitICmpInst(Inst.op, Inst.args[1].w, Arg(1), Arg(2))
    [] Inst.op \in CastOps -> visitCast(Inst.op, Inst.args[1].w, Inst.w, Arg(1))
    [] Inst.op = "Select" -> executeSelectInst(Arg(1), Arg(2), Arg(3))
    [] Inst.op = "GEP" -> executeGEPOperation(Arg(1), Inst.size, Inst.args[2].w, Arg(2))
    [] Inst.op = "Extract" -> IF Inst.idx = 0 THEN Arg(1) ELSE run.regs[Inst.ok]
    [] Inst.op = "BitCast" -> Arg(1)

Calculate ==
  /\ run.status = "running"
  /\ Inst.op \in BinaryOps \cup ShiftOps \cup CompareOps \cup CastOps
                 \cup {"Select", "GEP", "Extract", "BitCast"}
  /\ run' = [run EXCEPT !.at = NextNode(@), !.regs = SetValue(Inst.dst, Calculated)]
  /\ watch' = Pass

visitFenceInst ==
  /\ run.status = "running" /\ Inst.op = "Fence"
  /\ run' = [run EXCEPT !.at = NextNode(@)]
  /\ watch' = Pass

\* All phis of the block read their inputs before any of them changes.
SwitchToNewBasicBlock(dest, w) ==
  LET phis == 1 .. LeadingPhis(Fun, dest)
      dsts == {Fun.blocks[dest][k].dst : k \in phis}
      Read(r) == LET phi == Fun.blocks[dest][CHOOSE k \in phis : Fun.blocks[dest][k].dst = r]
                 IN Value(IncomingFor(phi, run.at[1]))
  IN /\ run' = [run EXCEPT !.at = <<dest, Cardinality(phis) + 1>>,
                           !.prev = run.at[1],
                           !.regs = [q \in DOMAIN run.regs \cup dsts |->
                                       IF q \in dsts THEN Read(q) ELSE run.regs[q]]]
     /\ watch' = IF \E l \in Fun.loops : l.header = dest THEN [w EXCEPT !.changed = FALSE] ELSE w

Target ==
  IF Len(Inst.succs) = 1 \/ Arg(1) # 0 THEN Inst.succs[1] ELSE Inst.succs[2]

visitBranchInst ==
  /\ run.status = "running" /\ Inst.op = "Br"
  /\ SwitchToNewBasicBlock(Target, Pass)

SwitchStep ==
  /\ run.status = "running" /\ Inst.op = "Switch"
  /\ SwitchToNewBasicBlock(visitSwitchInst(Inst.args[1].w, Arg(1), Inst.cases, Inst.default),
                           Close(FALSE))

\* The registers of the stack frame, except for the load itself.
getCurrentAnnotConcretized(annot) ==
  concretize(annot, [r \in DOMAIN run.regs \ {Inst.dst} |-> run.regs[r]])

\* The driver chooses a value; those that the annotation rules out are tried
\* only if they come from the last store.
filterValuesFromAnnotSAVER(annots, v) ==
  run.at \in DOMAIN annots => getBool(evaluate(getCurrentAnnotConcretized(annots[run.at]), v))

WatchLoad(v) ==
  [Close(FALSE) EXCEPT !.open = TRUE,
                       !.keep = filterValuesFromAnnotSAVER(Annotations[run.f], v),
                       !.annotated = run.at \in DOMAIN Annotations[run.f]]

visitLoadInst ==
  /\ run.status = "running" /\ Inst.op = "Load"
  /\ ~watch.open
  /\ \E v \in MemVals :
       /\ run' = [run EXCEPT !.at = NextNode(@), !.regs = SetValue(Inst.dst, SVAL_TO_GV(v, Inst.w))]
       /\ watch' = WatchLoad(v)

\* The value read is compared with the sign-extended expected value.
visitAtomicCmpXchgInst ==
  /\ run.status = "running" /\ Inst.op = "CAS"
  /\ ~watch.open
  /\ \E v \in MemVals :
       LET done == v = signExtendBottom(GV_TO_SVAL(Arg(1), Inst.w), Inst.w)
       IN /\ run' = [run EXCEPT !.at = NextNode(@),
                                !.regs = (Inst.ok :> (IF done THEN 1 ELSE 0)) @@
                                           SetValue(Inst.dst, SVAL_TO_GV(v, Inst.w))]
          /\ watch' = [WatchLoad(v) EXCEPT !.changed = @ \/ done]

\* A load or CAS ends the watch of the load before it.
Unwatch ==
  /\ run.status = "running" /\ Inst.op \in {"Load", "CAS"} /\ watch.open
  /\ UNCHANGED run /\ watch' = Close(FALSE)

visitStoreInst ==
  /\ run.status = "running" /\ Inst.op = "Store"
  /\ run' = [run EXCEPT !.at = NextNode(@)]
  /\ watch' = [Close(FALSE) EXCEPT !.changed = @ \/ ~Inst.local]

callAssume ==
  /\ run.status = "running" /\ Inst.op = "Assume"
  /\ run' = [run EXCEPT !.at = NextNode(@), !.status = IF Arg(1) # 0 THEN @ ELSE "blocked"]
  /\ watch' = Close(Arg(1) = 0)

visitReturnInst ==
  /\ run.status = "running" /\ Inst.op = "Ret"
  /\ run' = [run EXCEPT !.status = "done"]
  /\ watch' = Close(FALSE)

Next ==
  \/ Calculate \/ visitFenceInst \/ visitBranchInst \/ SwitchStep \/ visitLoadInst
  \/ visitAtomicCmpXchgInst \/ Unwatch \/ visitStoreInst \/ callAssume \/ visitReturnInst

-----------------------------------------------------------------------------
\* Values that an annotation rules out block the thread.
Sound == watch.closed => watch.keep \/ watch.blocked

\* In functions without loops, the values that block are ruled out.
Complete ==
  watch.closed /\ watch.annotated /\ Fun.loops = {} => (watch.keep => ~watch.blocked)

\* An iteration that comes back over a backedge found free of effects has not
\* changed memory.
EffectFree ==
  run.status = "running" /\ Inst.op = "Br" =>
    \A l \in Fun.loops :
      Target = l.header /\ run.at[1] = l.latch /\ isPathToHeaderEffectFree(Fun, l.latch, l)
        => ~watch.changed

\* A loop that is to be entered through its body is entered by all executions.
EntryJumps ==
  run.status = "running" /\ Inst.op = "Br" =>
    \A l \in Fun.loops :
      run.at[1] = l.header /\ run.prev = l.pred /\ MayInvert(Fun, l) => inLoopBody(l, Target)
=============================================================================
