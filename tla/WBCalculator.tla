---------------------------- MODULE WBCalculator ----------------------------
(***************************************************************************)
(* Coherence by writes-before (option -wb): WBCalculator.cpp, for models   *)
(* that add events in program order.  The stores of a location are kept in *)
(* the order in which they were added (graph.co), together with a flag     *)
(* (graph.ordered) that says that this order is forced.  While it is, the  *)
(* order serves as coherence; otherwise coherence is what the reads imply, *)
(* the relation wb: a set of pairs, closed by AdjList.                     *)
(***************************************************************************)
EXTENDS ExecutionGraph

getStoresToLoc(g, loc) == g.co[loc]
StoresIn(g, loc, v)    == StoresWithin(g.co[loc], v)
isLocOrdered(g, loc)   == g.ordered[loc]
isLocEmpty(g, loc)     == g.co[loc] = <<>>

WholeView(g) == [t \in Threads |-> Len(g.ev[t])]

isWriteRfBefore(g, w, hb) ==
  Contains(hb, w) \/ \E r \in Readers(g, w) : Contains(hb, r)

-----------------------------------------------------------------------------
(* Adding and removing stores *)

\* Faulty variant: the flag is not lowered.
addStoreToLocOrdered(g, loc, e) == [g EXCEPT !.co[loc] = Append(@, e)]

\* Any offset is ignored: the store is put last.
addStoreToLoc(g, loc, e) ==
  [g EXCEPT !.ordered[loc] =
              @ /\ (isLocEmpty(g, loc) \/ isWriteRfBefore(g, Seqs!Last(g.co[loc]), Lab(g, e).hb)),
            !.co[loc] = Append(@, e)]

addStoreToLocAfter(g, loc, e, pred) == addStoreToLoc(g, loc, e)

getPossiblePlacings(g, loc, e) == <<Len(g.co[loc]), Len(g.co[loc])>>

\* After a cut, locations that are no longer accessed are forgotten.
removeAfter(g) ==
  [g EXCEPT !.ordered =
     [l \in Locs |->
        @[l] \/ \A e \in Reads(g) \cup Writes(g) : Lab(g, e).loc # l]]

\* The copy of a graph adds the stores of each location anew.
Retracked(g) ==
  [g EXCEPT !.ordered =
     [l \in Locs |->
        \A i \in 2 .. Len(g.co[l]) : isWriteRfBefore(g, g.co[l][i - 1], Lab(g, g.co[l][i]).hb)]]

\* The stores in the view are forced to be in the order they were added in.
isLocOrderedRestricted(g, loc, v) ==
  LET s == StoresIn(g, loc, v)
  IN \/ isLocOrdered(g, loc)
     \/ \A i \in 2 .. Len(s) : isWriteRfBefore(g, s[i - 1], Lab(g, s[i]).hb)

-----------------------------------------------------------------------------
(* The relation *)

\* The stores of RMWs, each with the store it follows immediately.
RMWPairs(g, S) == {<<Lab(g, Prev(w)).rf, w>> : w \in {s \in S : isRMWStore(g, s)}}

\* The ends of the chain of RMWs that each store of S belongs to.  There are
\* none if two RMWs read the same store.
calcRMWLimits(g, S) ==
  LET All == S \cup {Init0}
      Ends(next, chain) ==
        [atomic |-> \A p, q \in next : p[1] = q[1] => p = q,
         upper  |-> [w \in All |-> CHOOSE u \in All :
                       (u = w \/ <<u, w>> \in chain) /\ \A p \in next : p[2] # u],
         lower  |-> [w \in All |-> CHOOSE u \in All :
                       (u = w \/ <<w, u>> \in chain) /\ \A p \in next : p[1] # u]]
  IN Ends(RMWPairs(g, S), TransClosure(All, RMWPairs(g, S)))

\* The edges that follow from the direct ones: if j precedes i, the whole
\* chain of j precedes the whole chain of i.  The chain that starts at the
\* initializer precedes all others.
WbEdges(S, lim, direct) ==
  LET up == lim.upper
      lo == lim.lower
  IN direct
     \cup {<<lo[p[1]], up[p[2]]>> :
             p \in {q \in direct : up[q[2]] # Init0 /\ up[q[2]] # up[q[1]]}}
     \cup (IF lo[Init0] = Init0 THEN {}
           ELSE {lo[Init0]} \X {i \in S : up[i] # Init0})

\* Store j precedes store i if j, or a read of it, is before i or a read of i.
DirectlyBefore(g, S, v) ==
  {p \in S \X S :
     /\ p[1] # p[2]
     /\ \E e \in {p[2]} \cup {r \in Readers(g, p[2]) : Contains(v, r)} :
          isWriteRfBefore(g, p[1], Lab(g, e).hb)}

\* The relation on the stores in the view, given the reads in the view.  It
\* has a loop at each store if atomicity is violated.
calcWbRestricted(g, loc, v) ==
  LET S == Seqs!ToSet(StoresIn(g, loc, v))
  IN IF Cardinality(S) <= 1 THEN {}
     ELSE UNION {IF lim.atomic
                 THEN TransClosure(S, WbEdges(S, lim, DirectlyBefore(g, S, v)))
                 ELSE {<<w, w>> : w \in S} : lim \in {calcRMWLimits(g, S)}}

calcWb(g, loc) == calcWbRestricted(g, loc, WholeView(g))

\* Successors of a store, for a partial (wb) and a total order (stores).
wb_po_succs(wb, S, a) == {s \in S : s # a /\ (a = Init0 \/ <<a, s>> \in wb)}
wb_to_succs(s, a) ==
  IF a = Init0 THEN Seqs!ToSet(s)
  ELSE {s[i] : i \in {j \in DOMAIN s : \E k \in 1 .. j - 1 : s[k] = a}}

\* The successors of a store among those in the view.
SuccsIn(g, loc, a, v) ==
  LET s == StoresIn(g, loc, v)
  IN IF isLocOrderedRestricted(g, loc, v) THEN wb_to_succs(s, a)
     ELSE wb_po_succs(calcWbRestricted(g, loc, v), Seqs!ToSet(s), a)

\* Without a view, the flag alone decides which order is used.
Succs(g, loc, a) ==
  IF isLocOrdered(g, loc) THEN wb_to_succs(g.co[loc], a)
  ELSE wb_po_succs(calcWb(g, loc), Seqs!ToSet(g.co[loc]), a)

isCoMaximal(g, loc, e) ==
  IF e = Init0 THEN isLocEmpty(g, loc) ELSE Succs(g, loc, e) = {}

-----------------------------------------------------------------------------
(* The stores a new read may read from *)

\* The stores that the view or a read in the view has seen, as a view.  A
\* store is seen by the first such read in its readers list; readers lists
\* are not modelled, so any may be the first.
getRfOptHbBeforeStores(g, loc, hb) ==
  LET S    == Seqs!ToSet(g.co[loc])
      sees == [w \in S |-> IF Contains(hb, w) THEN {w}
                           ELSE {r \in Readers(g, w) : r[1] # w[1] /\ Contains(hb, r)}]
      seen == {w \in S : sees[w] # {}}
      picks == {p \in [seen -> UNION {sees[w] : w \in S}] : \A w \in seen : p[w] \in sees[w]}
  IN {[t \in Threads |-> MaxOf({0} \cup {e[2] : e \in {d \in seen \cup {p[w] : w \in seen} : d[1] = t}})]
        : p \in picks}

ExternalReaders(g, w) == {r \in Readers(g, w) : r[1] # w[1]}

\* A last store in the view, one of whose readers has later read something
\* else, has been overwritten.
MarkOverwritten(g, v, w) ==
  IF /\ w[2] = v[w[1]]
     /\ \E r \in ExternalReaders(g, w) :
          LET last == g.ev[r[1]][v[r[1]]]
          IN r[2] < v[r[1]] /\ last.op = "R" /\ last.rf # w
  THEN [v EXCEPT ![w[1]] = IF @ + 1 < Len(g.ev[w[1]]) THEN @ + 1 ELSE Len(g.ev[w[1]])]
  ELSE v

expandMaximalAndMarkOverwritten(g, loc, view) ==
  LET Expand(v, w) ==
        IF w[2] # v[w[1]] THEN v
        ELSE [t \in Threads |->
                MaxOf({v[t]} \cup {r[2] : r \in {q \in ExternalReaders(g, w) : q[1] = t}})]
  IN Seqs!FoldLeft(LAMBDA v, w : MarkOverwritten(g, v, w),
              Seqs!FoldLeft(Expand, view, g.co[loc]), g.co[loc])

\* The initializer, if nothing overwrites it, and the stores that the view
\* has not passed.  If there is at most one such store, no relation needs to
\* be calculated.
tryOptimizeWBCalculation(g, loc, view) ==
  LET init  == IF view = ZeroView THEN <<Init0>> ELSE <<>>
      after == expandMaximalAndMarkOverwritten(g, loc, view)
      cands == Kept(g.co[loc], {i \in DOMAIN g.co[loc] : g.co[loc][i][2] >= after[g.co[loc][i][1]]})
  IN [ok |-> Len(cands) <= 1, init |-> init, stores |-> init \o cands]

isCoherentRf(g, loc, e, s) ==
  \A x \in Succs(g, loc, s) : ~isWriteRfBefore(g, x, PrevHb(g, e))

\* std::sort() of a short vector: each element is moved to the left as long
\* as it is less, which is what less, a set of pairs, says.  (The comparison
\* need not be transitive.)
InsertionSorted(s, less) ==
  LET Place(acc, x) ==
        IF acc # <<>> /\ <<x, acc[1]>> \in less THEN 0
        ELSE MaxOf({0} \cup {i \in 1 .. Len(acc) : <<x, acc[i]>> \notin less})
      sorted[n \in 0 .. Len(s)] ==        \* the first n
        IF n = 0 THEN <<>>
        ELSE InsertAtOffset(sorted[n - 1], Place(sorted[n - 1], s[n]), s[n])
  IN sorted[Len(s)]

\* The coherent stores by wb: predecessors first, older ones first otherwise.
SortedByWb(g, stores, wb) ==
  LET S == Seqs!ToSet(stores)
  IN InsertionSorted(stores, {p \in S \X S :
       /\ p[2] # Init0
       /\ \/ p[1] = Init0 \/ p \in wb
          \/ <<p[2], p[1]>> \notin wb /\ Lab(g, p[1]).stamp < Lab(g, p[2]).stamp})

\* What getCoherentStores() returns (several results, if readers lists
\* matter), and which of the stores isCachedCoMaximal() then deems maximal.
getCoherentStores(g, loc, e) ==
  LET all == Seqs!ToSet(g.co[loc])
      Outcomes(opt) ==
        IF isLocEmpty(g, loc) THEN {[stores |-> opt.stores, maximal |-> {Init0}]}
        ELSE LET stores == IF opt.ok THEN opt.stores
                           ELSE opt.init \o Kept(g.co[loc], {i \in DOMAIN g.co[loc] : isCoherentRf(g, loc, e, g.co[loc][i])})
             IN IF isLocOrdered(g, loc)
                THEN {[stores |-> stores, maximal |-> {Seqs!Last(g.co[loc])}]}
                ELSE IF opt.ok
                THEN {[stores |-> stores, maximal |-> Seqs!ToSet(stores) \ {Init0}]}
                ELSE {[stores  |-> SortedByWb(g, stores, wb),
                       maximal |-> {w \in all : \A x \in all : <<w, x>> \notin wb}]
                        : wb \in {calcWb(g, loc)}}
  IN UNION {Outcomes(tryOptimizeWBCalculation(g, loc, view))
              : view \in getRfOptHbBeforeStores(g, loc, PrevHb(g, e))}

-----------------------------------------------------------------------------
(* Revisits *)

isWbMaximal(g, w, ls) ==
  isRMWStore(g, w) =>
    /\ Cardinality(ls) > 1
    /\ Succs(g, Lab(g, w).loc, w) = {}
    /\ ~isLocOrdered(g, Lab(g, w).loc) => <<w, w>> \notin calcWb(g, Lab(g, w).loc)

isCoherentRevisit(g, r, w) ==
  \A s \in SuccsIn(g, Lab(g, w).loc, w, getRevisitView(g, r, w)) :
    ~isWriteRfBefore(g, s, PrevHb(g, r))

getCoherentRevisits(g, w) ==
  LET ls == getRevisitable(g, w)
  IN IF isWbMaximal(g, w, ls) THEN ls ELSE {r \in ls : isCoherentRevisit(g, r, w)}

Without(v, e) == [v EXCEPT ![e[1]] = @ - 1]

\* What read e reads is overwritten by a store of w's prefix that was added
\* after r.
isRbBeforeSavedPrefix(g, r, w, e) ==
  LET lab == Lab(g, e)
      p   == Without(getViewFromStamp(g, Lab(g, w).stamp), w)
  IN /\ lab.op = "R"
     /\ \E s \in SuccsIn(g, lab.loc, lab.rf, p) :
          /\ Contains(Lab(g, w).porf, s) /\ s # w
          /\ Lab(g, s).stamp > Lab(g, r).stamp

\* The first-added successor of w remains in the graph.
coherenceSuccRemainInGraph(g, r, w) ==
  LET loc   == Lab(g, w).loc
      succs == Succs(g, loc, w)
      first == CHOOSE s \in succs : \A x \in succs : Lab(g, s).stamp <= Lab(g, x).stamp
  IN ~isRMWStore(g, w) /\ succs # {} =>
       /\ ~isLocOrdered(g, loc)
       /\ Lab(g, first).stamp <= Lab(g, r).stamp \/ Contains(Lab(g, w).porf, first)

\* The stores that the revisit deletes, among those added before read e.
DeletedBefore(g, r, w, e) ==
  {s \in Seqs!ToSet(g.co[Lab(g, e).loc]) :
     ~Contains(getRevisitView(g, r, w), s) /\ Lab(g, s).stamp < Lab(g, e).stamp}

StampOf(g, w) == IF w = Init0 THEN 0 ELSE Lab(g, w).stamp

getTiebraker(g, r, w, e) ==
  LET rf == Lab(g, e).rf
  IN Seqs!FoldLeft(LAMBDA tb, s : IF /\ s \in DeletedBefore(g, r, w, e)
                                /\ StampOf(g, s) > StampOf(g, tb) THEN s ELSE tb,
              rf, g.co[Lab(g, e).loc])

\* The maximal store in the view: the last one added, if there are several.
getOrInsertWbMaximal(g, loc, v) ==
  LET s == StoresIn(g, loc, v)
      Maximals(wb) == {w \in Seqs!ToSet(s) : \A x \in Seqs!ToSet(s) : <<w, x>> \notin wb}
      Latest(S) == CHOOSE w \in S : \A x \in S : Lab(g, x).stamp <= Lab(g, w).stamp
  IN IF s = <<>> THEN Init0
     ELSE IF isLocOrderedRestricted(g, loc, v) THEN Seqs!Last(s)
     ELSE Latest(Maximals(calcWbRestricted(g, loc, v)))

\* Faulty variant: any store that remains will do.
wasAddedMaximallyAny(g, r, w, e) ==
  Lab(g, e).op = "R" =>
    IF ~Contains(getRevisitView(g, r, w), Lab(g, e).rf)
    THEN Lab(g, e).rf = getTiebraker(g, r, w, e)
    ELSE TRUE

wasAddedMaximally(g, r, w, e) ==
  LET lab == Lab(g, e)
      v   == getRevisitView(g, r, w)
  IN lab.op = "R" =>
       IF ~Contains(v, lab.rf) THEN lab.rf = getTiebraker(g, r, w, e)
       ELSE /\ DeletedBefore(g, r, w, e) = {}       \* ignoresDeletedStore()
            /\ lab.rf = getOrInsertWbMaximal(g, lab.loc, Without(Without(v, r), w))

inMaximalPath(g, r, w) ==
  LET kept == getRevisitView(g, r, w)
  IN /\ coherenceSuccRemainInGraph(g, r, w)
     /\ \A e \in Events(g) :
          (e = r \/ ~Contains(kept, e)) /\ ~isOptBlockedRead(g, e) =>
            /\ ~isRbBeforeSavedPrefix(g, r, w, e)
            /\ ~hasBeenRevisitedByDeleted(g, kept, e)
            /\ wasAddedMaximally(g, r, w, e)
=============================================================================
