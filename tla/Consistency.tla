---------------------------- MODULE Consistency -----------------------------
(***************************************************************************)
(* Consistency checks beyond what the views guarantee: the fixpoint of the *)
(* calculators that a graph owns (ExecutionGraph.cpp), for RC11, that is,  *)
(* coherence (-mo or -wb) and PSC.  A check is "fast" (nothing to do),     *)
(* "slow" (coherence only) or "full".  The fixpoint is a function of the   *)
(* graph: every change of a graph marks the stored one as stale.           *)
(***************************************************************************)
EXTENDS PSCCalculator

MO == INSTANCE MOCalculator
WB == INSTANCE WBCalculator

StoresAt(g, l) == {w \in Writes(g) : Lab(g, w).loc = l}

isIrreflexive(R) == \A p \in R : p[1] # p[2]

\* The hb relation: program order, and what each read of a store adds to the
\* view of the event before it.  (Fences add nothing.)
populateHbEntries(g) ==
  LET Learnt(r) == {<<t, Lab(g, r).hb[t]>> : t \in {u \in Threads \ {r[1]} :
                      /\ Lab(g, r).hb[u] > 0
                      /\ Lab(g, r).hb[u] > PrevHb(g, r)[u]}}
  IN {p \in Events(g) \X Events(g) : p[1] = Prev(p[2])}
     \cup UNION {{<<e, r>> : e \in Learnt(r)} : r \in {q \in Reads(g) : Lab(g, q).rf # Init0}}

\* doInits(): hb, and the order of the stores as far as it is known.
InitialHb(g) == TransClosure(Events(g), populateHbEntries(g))
TrackedCo(g, l) ==
  {p \in StoresAt(g, l) \X StoresAt(g, l) :
     MO!getStoreOffset(g, l, p[1]) < MO!getStoreOffset(g, l, p[2])}
InitialCo(g, wb) ==
  [l \in Locs |-> IF wb THEN WB!calcWb(g, l) ELSE TrackedCo(g, l)]

\* Stores that must be ordered because of a relation on the events in E:
\* j, or a read of it, comes before i or a read of i.
isWriteRfBeforeRel(g, E, rel, j, e) ==
  <<j, e>> \in rel \/ \E r \in Readers(g, j) \cap E : <<r, e>> \in rel
OrderedBy(g, S, E, rel) ==
  {p \in S \X S : /\ p[1] # p[2] /\ p[1] \in E
                  /\ \E e \in ({p[2]} \cup Readers(g, p[2])) \cap E :
                       isWriteRfBeforeRel(g, E, rel, p[1], e)}

\* calcWbRelation(): coherence, extended by what rel implies.
calcWbRelation(g, E, rel, co) ==
  [l \in Locs |->
     UNION {IF ~lim.atomic THEN {<<w, w>> : w \in StoresAt(g, l)}
            ELSE TransClosure(StoresAt(g, l),
                   co[l] \cup WB!WbEdges(StoresAt(g, l), lim,
                                         OrderedBy(g, StoresAt(g, l), E, rel)))
              : lim \in {WB!calcRMWLimits(g, StoresAt(g, l))}}]

\* What doCalc() of the -mo calculator tests.
Coherent(co) == \A l \in Locs : isIrreflexive(co[l])

\* doCalc() of the coherence calculator, then of PSC: the new coherence, and
\* whether an inconsistency has been found.
CohCalc(g, wb, hb, co) == IF wb THEN calcWbRelation(g, Events(g), hb, co) ELSE co

PscCalc(g, wb, hb, co) ==
  {LET nco == IF wb THEN calcWbRelation(g, SCs(g), psc, co) ELSE co
   IN [cons |-> isIrreflexive(psc) /\ Coherent(nco), co |-> nco]
     : psc \in {calcPscRelation(g, hb, co)}}

doCalcs(g, wb, full, hb, co) ==
  LET Coh == {CohCalc(g, wb, hb, co)}
  IN UNION {IF ~full \/ ~Coherent(c) THEN {[cons |-> Coherent(c), co |-> c]}
            ELSE PscCalc(g, wb, hb, c) : c \in Coh}

\* The rounds of isConsistent(), until nothing changes.
Fixpoint(g, wb, full, hb, co) ==
  LET from[c \in [Locs -> SUBSET (Events(g) \X Events(g))]] ==
        UNION {IF ~res.cons \/ res.co = c THEN {res} ELSE from[res.co]
                 : res \in doCalcs(g, wb, full, hb, c)}
  IN from[co]

\* The total orders that extend a relation: all topological sortings.
Extensions(S, R) ==
  {s \in Seqs!SetToSeqs(S) : \A i, j \in DOMAIN s : i < j => <<s[j], s[i]>> \notin R}

\* With -wb, some total extension of coherence must be consistent.
doFinalConsChecks(g, wb, full, hb, co) ==
  wb /\ full =>
    \E ext \in {f \in [Locs -> UNION {Extensions(StoresAt(g, l), co[l]) : l \in Locs}] :
                  \A l \in Locs : f[l] \in Extensions(StoresAt(g, l), co[l])} :
      LET total == [l \in Locs |-> {<<ext[l][i], ext[l][i + 1]>> : i \in 1 .. Len(ext[l]) - 1}]
      IN \E res \in doCalcs(g, wb, full, hb, total) : res.cons

isConsistent(g, wb, type) ==
  type # "fast" =>
    \E hb \in {InitialHb(g)} :
      /\ type = "full" => isIrreflexive(hb)
      /\ \E res \in Fixpoint(g, wb, type = "full", hb, InitialCo(g, wb)) :
           /\ res.cons
           /\ doFinalConsChecks(g, wb, type = "full", hb, res.co)
=============================================================================
