---------------------------- MODULE MOCalculator ----------------------------
(***************************************************************************)
(* Coherence (modification order), tracked explicitly: MOCalculator.cpp,   *)
(* for models that add events in program order (RC11).  Offsets are those  *)
(* of the code: the first store of a location has offset 0, and the        *)
(* initializer precedes all stores at offset -1.                           *)
(***************************************************************************)
EXTENDS ExecutionGraph

getStoreOffset(g, loc, e) ==
  IF e = Init0 THEN -1
  ELSE (CHOOSE i \in 1 .. Len(g.co[loc]) : g.co[loc][i] = e) - 1

addStoreToLoc(g, loc, e, off) ==
  [g EXCEPT !.co[loc] = InsertAtOffset(@, off, e)]

addStoreToLocAfter(g, loc, e, pred) ==
  addStoreToLoc(g, loc, e, getStoreOffset(g, loc, pred) + 1)

changeStoreOffset(g, loc, e, off) ==
  LET old == getStoreOffset(g, loc, e)
  IN [g EXCEPT !.co[loc] =
        InsertAtOffset(SubSeq(@, 1, old) \o SubSeq(@, old + 2, Len(@)), off, e)]

isCoMaximal(g, loc, e) ==
  LET s == g.co[loc]
  IN IF s = <<>> THEN e = Init0 ELSE e = s[Len(s)]

\* The store, or a read of it, is in the hb view.
isWriteRfBefore(g, w, hb) ==
  Contains(hb, w) \/ \E r \in Readers(g, w) : Contains(hb, r)

\* Faulty variant: reads do not count.
splitLocMOBeforeStores(g, loc, e) ==
  MaxOf({0} \cup {i \in 1 .. Len(g.co[loc]) :
                    Contains(PrevHb(g, e), g.co[loc][i])})

\* How many stores, in coherence order, precede the first one that an event
\* at e could overwrite or read past.
splitLocMOBefore(g, loc, e) ==
  MaxOf({0} \cup {i \in 1 .. Len(g.co[loc]) :
                    isWriteRfBefore(g, g.co[loc][i], PrevHb(g, e))})

\* The offsets at which a store may be put into coherence: <<first, last>>.
getPossiblePlacings(g, loc, e) ==
  IF isRMWStore(g, e)
  THEN LET off == getStoreOffset(g, loc, Lab(g, Prev(e)).rf) + 1
       IN <<off, off>>
  ELSE <<splitLocMOBefore(g, loc, e), Len(g.co[loc])>>

\* The stores a new read may read from, in coherence order.
getCoherentStores(g, loc, e) ==
  LET begO == splitLocMOBefore(g, loc, e)
      s    == g.co[loc]
  IN <<IF begO = 0 THEN Init0 ELSE s[begO]>> \o SubSeq(s, begO + 1, Len(s))

\* The coherence successors of a store of the location.
CoAfter(g, loc, w) ==
  {g.co[loc][i] : i \in getStoreOffset(g, loc, w) + 2 .. Len(g.co[loc])}

getMOOptRfAfter(g, w) ==
  LET after == CoAfter(g, Lab(g, w).loc, w)
  IN after \cup UNION {Readers(g, s) : s \in after}

\* Reads that w may revisit without violating coherence.
getCoherentRevisits(g, w) ==
  LET ls == getRevisitable(g, w)
  IN IF isCoMaximal(g, Lab(g, w).loc, w) THEN ls
     ELSE {r \in ls : \A e \in getMOOptRfAfter(g, w) :
                        ~Contains(PrevHb(g, r), e)}

\* Faulty variant: the check is skipped.
isCoBeforeSavedPrefixNever(g, kept, w, e) == FALSE

\* The access (or the store it reads) is followed in coherence by a store of
\* the part of the graph that is kept, other than w.  (The code also asks
\* that the access's index exceed the store's pporf view; RC11 never fills
\* that view, so the test always succeeds.)
isCoBeforeSavedPrefix(g, kept, w, e) ==
  LET lab == Lab(g, e)
      s0  == IF lab.op = "R" THEN lab.rf ELSE e
  IN /\ lab.op \in {"R", "W"}
     /\ \E s \in CoAfter(g, lab.loc, s0) :
          /\ Contains(kept, s)
          /\ s # w

\* Faulty variant: the check is skipped.
coherenceSuccAny(g, kept, w) == TRUE

coherenceSuccRemainInGraph(g, kept, w) ==
  LET loc == Lab(g, w).loc
      off == getStoreOffset(g, loc, w)
  IN ~isRMWStore(g, w) /\ off + 2 <= Len(g.co[loc]) =>
       Contains(kept, g.co[loc][off + 2])

\* Faulty variant: removed events need not have been added maximally.
inMaximalPathUnchecked(g, r, w) ==
  LET kept == getRevisitView(g, r, w)
  IN /\ coherenceSuccRemainInGraph(g, kept, w)
     /\ \A e \in Events(g) :
          (e = r \/ ~Contains(kept, e)) =>
            /\ ~isCoBeforeSavedPrefix(g, kept, w, e)
            /\ ~hasBeenRevisitedByDeleted(g, kept, e)

\* What the revisit removes was added in the one canonical (maximal) way, so
\* that no other exploration performs the same revisit.
inMaximalPath(g, r, w) ==
  LET kept == getRevisitView(g, r, w)
  IN /\ coherenceSuccRemainInGraph(g, kept, w)
     /\ \A e \in Events(g) :
          (e = r \/ ~Contains(kept, e)) /\ ~isOptBlockedRead(g, e) =>
            /\ Lab(g, e).max
            /\ ~isCoBeforeSavedPrefix(g, kept, w, e)
            /\ ~hasBeenRevisitedByDeleted(g, kept, e)
=============================================================================
