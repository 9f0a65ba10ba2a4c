------------------------------- MODULE Passes -------------------------------
(***************************************************************************)
(* Which loads are annotated (LoadAnnotationPass.cpp), which backedges of  *)
(* loops become assume()s (SpinAssumePass.cpp), and which loops are        *)
(* entered through their body (LoopJumpThreadingPass.cpp).                 *)
(***************************************************************************)
EXTENDS InstAnnotator

DefOf(f, r) == {p \in Places(f) : At(f, p).dst = r}

\* The loads and CASes a register is calculated from.  phis are the ones
\* already on the way; a constant that a phi takes over a conditional jump
\* depends on the jump's condition.
RECURSIVE calcSourceLoads(_, _, _)
calcSourceLoads(f, p, phis) ==
  LET i == At(f, p)
      OfReg(r) == UNION {calcSourceLoads(f, q, phis \cup (IF i.op = "Phi" THEN {p} ELSE {})) :
                           q \in DefOf(f, r)}
      OfConst(k) ==
        LET term == At(f, Terminator(f, i.from[k]))
        IN IF i.op = "Phi" /\ term.op = "Br" /\ Len(term.succs) = 2 /\ IsReg(term.args[1])
           THEN OfReg(term.args[1].reg) ELSE {}
  IN CASE i.op \in {"Store", "RMW", "Alloca"} -> {}
       [] i.op \in {"Load", "CAS"} -> {p}
       [] p \in phis -> {}
       [] OTHER -> UNION {IF IsReg(i.args[k]) THEN OfReg(i.args[k].reg) ELSE OfConst(k) :
                            k \in DOMAIN i.args}

getSourceLoads(f, assm) ==
  IF IsReg(At(f, assm).args[1])
  THEN UNION {calcSourceLoads(f, q, {}) : q \in DefOf(f, At(f, assm).args[1].reg)} ELSE {}

\* One place on a path back from an assume() to a load li.
ScanPlace(f, assm, li, s, p) ==
  IF ~s.assumeFound THEN [s EXCEPT !.assumeFound = (p = assm)]
  ELSE LET effects == s.sideEffects \/ (p # li /\ (hasSideEffects(At(f, p)) \/ At(f, p).op = "Load"))
       IN IF p # li THEN [s EXCEPT !.sideEffects = effects]
          ELSE [assumeFound |-> FALSE, sideEffects |-> FALSE, clear |-> s.clear \/ ~effects]

\* The loads with a path to the assume() without other loads or effects.
filterAnnotatableFromSource(f, assm, source) ==
  {li \in source :
     FoldLeft(LAMBDA s, p : ScanPlace(f, assm, li, s, p),
              [assumeFound |-> FALSE, sideEffects |-> FALSE, clear |-> FALSE],
              foreachInBackPathTo(f, assm[1], li[1])).clear}

getAnnotatableLoads(f, assm) == filterAnnotatableFromSource(f, assm, getSourceLoads(f, assm))

\* runOnFunction(), and the transformation when the module is loaded.
LoadAnnotations(f) ==
  [li \in UNION {getAnnotatableLoads(f, p) : p \in {q \in Places(f) : At(f, q).op = "Assume"}}
     |-> transform(annotate(f, li))]

-----------------------------------------------------------------------------
\* The registers that hold whether the CASes succeeded, or {} if one of them
\* has none in the two instructions after it.
tryGetCASResultExtracts(f, cass) ==
  LET Extracts(c) == {p \in {NextNode(c), NextNode(NextNode(c))} \cap Places(f) :
                        /\ At(f, p).op = "Extract" /\ At(f, p).idx = 1
                        /\ At(f, p).args[1].reg = At(f, c).dst}
  IN IF \E c \in cass : Extracts(c) = {} THEN {}
     ELSE {At(f, CHOOSE p \in Extracts(c) : TRUE).dst : c \in cass}

\* Faulty variant: only the case that all of them succeed is checked.
failedCASesLeadToHeaderAll(f, cass, latch, l) ==
  LET extracts == tryGetCASResultExtracts(f, cass)
      places == SetToSortSeq(cass, LAMBDA p, q : p[1] < q[1] \/ (p[1] = q[1] /\ p[2] < q[2]))
      cond == ConjunctionExpr([k \in DOMAIN places |->
                                 annotateCASWithBackedgeCond(f, places[k], latch, l)])
  IN \/ cass = {}
     \/ extracts # {} /\ ~getBool(evaluateMap(cond, [r \in extracts |-> 1]))

\* Whenever some of the CASes succeed, the path to the header is left.
failedCASesLeadToHeader(f, cass, latch, l) ==
  LET extracts == tryGetCASResultExtracts(f, cass)
      places == SetToSortSeq(cass, LAMBDA p, q : p[1] < q[1] \/ (p[1] = q[1] /\ p[2] < q[2]))
      cond == ConjunctionExpr([k \in DOMAIN places |->
                                 annotateCASWithBackedgeCond(f, places[k], latch, l)])
  IN \/ cass = {}
     \/ /\ extracts # {}
        /\ \A m \in {n \in [extracts -> {0, 1}] : \E r \in extracts : n[r] = 1} :
             unknown(cond, m) = {} /\ ~getBool(evaluateMap(cond, m))

isPathToHeaderEffectFree(f, latch, l) ==
  LET onPath == Range(foreachInBackPathTo(f, latch, l.header))
      cass == {p \in onPath : At(f, p).op = "CAS"}
      local == {p \in onPath : At(f, p).op = "Store" /\ At(f, p).local}
  IN /\ \A p \in onPath \ (cass \cup local) : ~hasSideEffects(At(f, p))
     /\ failedCASesLeadToHeader(f, cass, latch, l)

-----------------------------------------------------------------------------
inLoopBody(l, b) == b \in l.blocks /\ b # l.header

\* A phi of the header that is constant at the entry and that the header's
\* jump depends on.
getPHIConstEntryValueUsedInCond(f, l) ==
  {k \in 1 .. LeadingPhis(f, l.header) :
     /\ ~IsReg(IncomingFor(f.blocks[l.header][k], l.pred))
     /\ <<l.header, k>> \in
          FoldLeft(LAMBDA D, n : D \cup UNION {DefOf(f, o.reg) : o \in
                     {o \in UNION {Range(At(f, p).args) : p \in D} : IsReg(o)}},
                   {Terminator(f, l.header)}, [n \in 1 .. Cardinality(Places(f)) |-> n])}

generateExprJumpsToBody(f, l) ==
  LET e == annotateBBCond(f, l.header, l.pred)
      term == At(f, Terminator(f, l.header))
  IN CASE term.op # "Br" -> createFalse
       [] inLoopBody(l, term.succs[1]) -> e
       [] OTHER -> NotExpr(e)

\* Faulty variant: unknown registers are taken for the value 42.
entryAlwaysJumpsToBodyUnknown(f, l) ==
  LET e == generateExprJumpsToBody(f, l)
  IN /\ \E b \in Range(At(f, Terminator(f, l.header)).succs) : inLoopBody(l, b)
     /\ getBool(evaluateMap(e, <<>>))

entryAlwaysJumpsToBody(f, l) ==
  LET e == generateExprJumpsToBody(f, l)
  IN /\ \E b \in Range(At(f, Terminator(f, l.header)).succs) : inLoopBody(l, b)
     /\ unknown(e, <<>>) = {} /\ getBool(evaluateMap(e, <<>>))

\* LoopJumpThreadingPass::runOnLoop(), up to the check of the phis' uses.
MayInvert(f, l) == getPHIConstEntryValueUsedInCond(f, l) # {} /\ entryAlwaysJumpsToBody(f, l)
=============================================================================
