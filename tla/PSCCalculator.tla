--------------------------- MODULE PSCCalculator ----------------------------
(***************************************************************************)
(* The partial SC order of RC11 (PSCCalculator.cpp): which sequentially    *)
(* consistent accesses and fences must precede which others, given hb and  *)
(* coherence.  A relation is a set of pairs of events; hb is strict, and   *)
(* co[l] is coherence at location l.                                       *)
(***************************************************************************)
EXTENDS ExecutionGraph

isSC(g, e)     == Lab(g, e).ord = "sc"
isFence(g, e)  == Lab(g, e).kind = "Fence"
isAccess(g, e) == Lab(g, e).op \in {"R", "W"}

\* getSCs(): the SC events, and the fences among them.
SCs(g) == {e \in Events(g) : isSC(g, e) /\ ~isRMWLoad(g, e)}
FCs(g) == {e \in SCs(g) : isFence(g, e)}

\* Locations that are accessed more than once.
getDoubleLocs(g) ==
  {l \in Locs : Cardinality({e \in Events(g) : isAccess(g, e) /\ Lab(g, e).loc = l}) > 1}

calcSCFencesSuccs(g, hb, e) ==
  {f \in FCs(g) : ~isRMWLoad(g, e) /\ <<e, f>> \in hb}
calcSCFencesPreds(g, hb, e) ==
  {f \in FCs(g) : ~isRMWLoad(g, e) /\ <<f, e>> \in hb}

\* The SC events that stand for an event: itself, or the fences around it.
calcSCSuccs(g, hb, e) ==
  IF isRMWLoad(g, e) THEN {}
  ELSE IF isSC(g, e) THEN {e} ELSE calcSCFencesSuccs(g, hb, e)
calcSCPreds(g, hb, e) ==
  IF isRMWLoad(g, e) THEN {}
  ELSE IF isSC(g, e) THEN {e} ELSE calcSCFencesPreds(g, hb, e)

calcRfSCSuccs(g, hb, w) == UNION {calcSCSuccs(g, hb, r) : r \in Readers(g, w)}
calcRfSCFencesSuccs(g, hb, w) ==
  UNION {calcSCFencesSuccs(g, hb, r) : r \in Readers(g, w)}

\* From the readers of a store to what follows the store in coherence.
addRbEdges(g, hb, coAfter, coRfAfter, w) ==
  UNION {(calcSCPreds(g, hb, r) \X coAfter)
           \cup (calcSCFencesPreds(g, hb, r) \X coRfAfter) : r \in Readers(g, w)}

\* From a store to its readers and to what follows it in coherence.
addMoRfEdges(g, hb, coAfter, coRfAfter, w) ==
  (calcSCPreds(g, hb, w) \X (coAfter \cup calcRfSCSuccs(g, hb, w)))
    \cup (calcSCFencesPreds(g, hb, w) \X coRfAfter)

\* Faulty variant: reads are not before the stores that overwrite what they
\* read.
addSCEcosLocMo(g, hb, stores, co) ==
  LET After(w) == {s \in stores : <<w, s>> \in co}
  IN UNION {addMoRfEdges(g, hb, UNION {calcSCSuccs(g, hb, s) : s \in After(w)},
                         UNION {calcRfSCFencesSuccs(g, hb, s) : s \in After(w)}, w)
              : w \in stores}

addSCEcosLoc(g, hb, stores, co) ==
  LET After(w)     == {s \in stores : <<w, s>> \in co}
      coAfter(w)   == UNION {calcSCSuccs(g, hb, s) : s \in After(w)}
      coRfAfter(w) == UNION {calcRfSCFencesSuccs(g, hb, s) : s \in After(w)}
  IN UNION {addRbEdges(g, hb, coAfter(w), coRfAfter(w), w)
              \cup addMoRfEdges(g, hb, coAfter(w), coRfAfter(w), w) : w \in stores}

addSCEcos(g, hb, co) ==
  UNION {addSCEcosLoc(g, hb, {w \in Writes(g) : Lab(g, w).loc = l}, co[l])
           : l \in getDoubleLocs(g)}

\* Program order; and from one access to another via hb, if the events next
\* to the two are accesses to other locations.
addSbHbEdges(g, hb) ==
  {p \in SCs(g) \X SCs(g) :
     LET i == p[1]
         j == p[2]
     IN IF i[1] = j[1] THEN i[2] < j[2]
        ELSE /\ isAccess(g, i) /\ i[2] < Len(g.ev[i[1]])
             /\ isAccess(g, j) /\ j[2] > 1
             /\ isAccess(g, Prev(j)) /\ Lab(g, Prev(j)).loc # Lab(g, j).loc
             /\ isAccess(g, Succ(i)) /\ Lab(g, Succ(i)).loc # Lab(g, i).loc
             /\ <<Succ(i), Prev(j)>> \in hb}

\* Reads of the initializer are before all stores of the location.
addInitEdges(g, hb) ==
  UNION {UNION {(calcSCPreds(g, hb, r) \X calcSCSuccs(g, hb, w))
                  \cup (calcSCFencesPreds(g, hb, r) \X calcRfSCFencesSuccs(g, hb, w))
                  : w \in {w \in Writes(g) : Lab(g, w).loc = Lab(g, r).loc}}
           : r \in {r \in Readers(g, Init0) : ~isRMWLoad(g, r)}}

calcPscRelation(g, hb, co) ==
  TransClosure(SCs(g), addInitEdges(g, hb) \cup addSbHbEdges(g, hb) \cup addSCEcos(g, hb, co))
=============================================================================
