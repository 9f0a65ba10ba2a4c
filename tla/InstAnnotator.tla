--------------------------- MODULE InstAnnotator ----------------------------
(***************************************************************************)
(* Conditions on loads, calculated backwards from the assume()s that       *)
(* follow them (InstAnnotator.cpp).                                        *)
(*                                                                         *)
(* A function f has f.blocks, a sequence of blocks, each a sequence of     *)
(* instructions; <<b, i>> is the place of an instruction.  An instruction  *)
(* has an operation op, the register dst it writes ("" if none), the width *)
(* w of its result, and operands args.  An operand is a constant           *)
(* [val, w] or a register [reg, w].                                        *)
(***************************************************************************)
EXTENDS SExpr, FiniteSets

Reg(r, w) == [reg |-> r, w |-> w]
Const(v, w) == [val |-> v, w |-> w]
IsReg(o) == "reg" \in DOMAIN o

At(f, p) == f.blocks[p[1]][p[2]]
Places(f) == UNION {{b} \X DOMAIN f.blocks[b] : b \in DOMAIN f.blocks}
IsTerminator(f, p) == p[2] = Len(f.blocks[p[1]])
Terminator(f, b) == <<b, Len(f.blocks[b])>>
NextNode(p) == <<p[1], p[2] + 1>>

\* hasSideEffects(): loads, fences and calls to clean internal functions
\* have none.
hasSideEffects(i) == i.op \in {"Store", "RMW", "CAS", "Alloca", "Call"}

\* mayReadOrWriteMemory(), of LLVM: all but the instructions on registers.
mayReadOrWriteMemory(i) ==
  i.op \in {"Load", "Store", "RMW", "CAS", "Fence", "Call", "Assume", "Error"}

IncomingFor(phi, b) == phi.args[CHOOSE k \in DOMAIN phi.args : phi.from[k] = b]

generateOperandExpr(o) ==
  IF IsReg(o) THEN RegisterExpr(o.w, o.reg) ELSE ConcreteExpr(o.w, o.val)

\* What an instruction calculates; "true" for the ones not handled: srem,
\* pointer arithmetic, calls.
generateInstExpr(i) ==
  LET Arg(k) == generateOperandExpr(i.args[k])
  IN CASE i.op \in CastKinds -> CastExpr(i.op, i.w, Arg(1))
       [] i.op = "Select" -> SelectExpr(Arg(1), Arg(2), Arg(3))
       [] i.op \in (BinaryOps \ {"SRem"}) \cup ShiftOps ->
            ArithmeticExpr(i.op, i.w, Arg(1), Arg(2))
       [] i.op \in CmpKinds -> CmpExpr(i.op, Arg(1), Arg(2))
       [] i.op = "Extract" /\ i.idx = 0 -> Arg(1)
       [] i.op = "Extract" /\ i.idx = 1 -> CmpExpr("Eq", Arg(1), generateOperandExpr(i.cmp))
       [] i.op = "BitCast" -> Arg(1)
       [] OTHER -> createTrue

CFGSuccessors(f, p) ==
  IF ~IsTerminator(f, p) THEN <<NextNode(p)>>
  ELSE IF At(f, p).op = "Br" THEN [k \in DOMAIN At(f, p).succs |-> <<At(f, p).succs[k], 1>>]
  ELSE <<>>

\* Faulty variant: the search stops at fences too.
getNextOrBranchSuccessorsFences(f, p) ==
  IF At(f, p).op \in {"Load", "Assume", "Error", "Fence"} \/ hasSideEffects(At(f, p)) THEN <<>>
  ELSE CFGSuccessors(f, p)

getNextOrBranchSuccessors(f, p) ==
  IF At(f, p).op \in {"Load", "Assume", "Error"} \/ hasSideEffects(At(f, p)) THEN <<>>
  ELSE CFGSuccessors(f, p)

LeadingPhis(f, b) ==
  SelectInSeq(f.blocks[b], LAMBDA i : i.op # "Phi") - 1

\* Faulty variant: a phi always has its first incoming value.
SubstitutePhisFirst(f, e, from, to) ==
  IF from = to THEN e
  ELSE FoldLeft(LAMBDA x, k : LET phi == f.blocks[to][k]
                              IN substitute(x, phi.dst, generateOperandExpr(phi.args[1])),
                e, [k \in 1 .. LeadingPhis(f, to) |-> k])

\* The phis of a block are replaced one after the other.
SubstitutePhis(f, e, from, to) ==
  IF from = to THEN e
  ELSE FoldLeft(LAMBDA x, k : LET phi == f.blocks[to][k]
                              IN substitute(x, phi.dst, generateOperandExpr(IncomingFor(phi, from))),
                e, [k \in 1 .. LeadingPhis(f, to) |-> k])

propagateAnnotFromSucc(f, annot, p, q) ==
  LET e == SubstitutePhis(f, annot[q], p[1], q[1])
  IN IF At(f, p).op \in {"Br", "Phi"} THEN e
     ELSE substitute(e, At(f, p).dst, generateInstExpr(At(f, p)))

AnnotOf(f, annot, p, succs) ==
  CASE succs = <<>> ->
         IF At(f, p).op = "Assume" THEN generateOperandExpr(At(f, p).args[1]) ELSE createTrue
    [] Len(succs) = 2 ->
         SelectExpr(generateOperandExpr(At(f, p).args[1]),
                    propagateAnnotFromSucc(f, annot, p, succs[1]),
                    propagateAnnotFromSucc(f, annot, p, succs[2]))
    [] OTHER -> propagateAnnotFromSucc(f, annot, p, succs[1])

\* The depth-first search: s has the status of each place and the annotations
\* so far.  A place met again before it is left counts as "true".
RECURSIVE annotateDFS(_, _, _)
annotateDFS(f, p, s) ==
  LET succs == getNextOrBranchSuccessors(f, p)
      Below == FoldLeft(LAMBDA t, q :
                          CASE t.status[q] = "unseen" -> annotateDFS(f, q, t)
                            [] t.status[q] = "entered" -> [t EXCEPT !.annot[q] = createTrue]
                            [] OTHER -> t,
                        [s EXCEPT !.status[p] = "entered"], succs)
  IN [status |-> [Below.status EXCEPT ![p] = "left"],
      annot |-> [Below.annot EXCEPT ![p] = AnnotOf(f, Below.annot, p, succs)]]

Unseen(f) == [status |-> [p \in Places(f) |-> "unseen"],
              annot |-> [p \in Places(f) |-> createTrue]]

annotate(f, p) == annotateDFS(f, NextNode(p), Unseen(f)).annot[NextNode(p)]

-----------------------------------------------------------------------------
(* Conditions of jumps *)

\* The condition of the branch at the end of a block, in terms of what holds
\* at its beginning, or at the end of a predecessor.  Nothing is known
\* before an instruction that may use the memory.
annotateBBCond(f, b, pred) ==
  LET term == At(f, Terminator(f, b))
      n == Len(f.blocks[b])
      Back[k \in 1 .. n] ==
        IF k = n THEN generateOperandExpr(term.args[1])
        ELSE IF mayReadOrWriteMemory(f.blocks[b][k]) THEN createFalse
        ELSE propagateAnnotFromSucc(f, (<<b, k + 1>> :> Back[k + 1]), <<b, k>>, <<b, k + 1>>)
  IN CASE term.op # "Br" -> createFalse
       [] Len(term.succs) = 1 -> createTrue
       [] OTHER -> propagateAnnotFromSucc(f, (<<b, 1>> :> Back[1]), Terminator(f, pred), <<b, 1>>)

\* The paths back from a block to another one, without repetitions.
RECURSIVE BackPaths(_, _, _)
BackPaths(f, path, to) ==
  LET b == Last(path)
      preds == {c \in DOMAIN f.blocks : /\ At(f, Terminator(f, c)).op = "Br"
                                        /\ b \in Range(At(f, Terminator(f, c)).succs)
                                        /\ c \notin Range(path)}
  IN IF b = to THEN <<path>>
     ELSE FlattenSeq([k \in 1 .. Cardinality(preds) |->
            BackPaths(f, Append(path, SetToSortSeq(preds, LAMBDA x, y : x < y)[k]), to)])

\* The places that foreachInBackPathTo() visits, in its order.
foreachInBackPathTo(f, from, to) ==
  LET InBlock(b) == [k \in DOMAIN f.blocks[b] |-> <<b, Len(f.blocks[b]) + 1 - k>>]
  IN FlattenSeq([n \in DOMAIN BackPaths(f, <<from>>, to) |->
       FlattenSeq([k \in DOMAIN BackPaths(f, <<from>>, to)[n] |->
         InBlock(BackPaths(f, <<from>>, to)[n][k])])])

BlocksBackTo(f, from, to) == {p[1] : p \in Range(foreachInBackPathTo(f, from, to))}

\* In a loop [header, latch, blocks], with the blocks on the way to a latch.
getNextOrBranchSuccessorsInLoop(f, p, onPath, l) ==
  IF p[1] \notin onPath \/ p = <<l.header, 1>> THEN <<>> ELSE CFGSuccessors(f, p)

propagateAnnotFromSuccInLoop(f, annot, p, q) ==
  LET e == SubstitutePhis(f, annot[q], p[1], q[1])
  IN IF At(f, p).op \in {"Br", "Phi", "CAS", "Extract", "Load", "Call", "Assume"} THEN e
     ELSE substitute(e, At(f, p).dst, generateInstExpr(At(f, p)))

\* "False" where the path is left, "true" at the header.
AnnotInLoopOf(f, annot, p, succs, onPath) ==
  CASE succs = <<>> -> IF p[1] \notin onPath THEN createFalse ELSE createTrue
    [] Len(succs) = 2 ->
         SelectExpr(generateOperandExpr(At(f, p).args[1]),
                    propagateAnnotFromSuccInLoop(f, annot, p, succs[1]),
                    propagateAnnotFromSuccInLoop(f, annot, p, succs[2]))
    [] OTHER -> propagateAnnotFromSuccInLoop(f, annot, p, succs[1])

RECURSIVE annotateCASWithBackedgeCondDFS(_, _, _, _, _)
annotateCASWithBackedgeCondDFS(f, p, s, onPath, l) ==
  LET succs == getNextOrBranchSuccessorsInLoop(f, p, onPath, l)
      Below == FoldLeft(LAMBDA t, q :
                          CASE t.status[q] = "unseen" ->
                                 annotateCASWithBackedgeCondDFS(f, q, t, onPath, l)
                            [] t.status[q] = "entered" -> [t EXCEPT !.annot[q] = createTrue]
                            [] OTHER -> t,
                        [s EXCEPT !.status[p] = "entered"], succs)
  IN [status |-> [Below.status EXCEPT ![p] = "left"],
      annot |-> [Below.annot EXCEPT ![p] = AnnotInLoopOf(f, Below.annot, p, succs, onPath)]]

annotateCASWithBackedgeCond(f, p, latch, l) ==
  LET q == NextNode(p)
  IN annotateCASWithBackedgeCondDFS(f, q, Unseen(f), BlocksBackTo(f, latch, l.header), l).annot[q]
=============================================================================
