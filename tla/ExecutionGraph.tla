--------------------------- MODULE ExecutionGraph ---------------------------
(***************************************************************************)
(* Execution graphs (ExecutionGraph.cpp, EventLabel.hpp) and the vector    *)
(* clocks an RC11 driver stores in their labels (RC11Driver.cpp).          *)
(*                                                                         *)
(* A graph keeps, for each thread, the sequence of its labels; for each    *)
(* location, its stores in coherence order; and the next stamp.  Stamps    *)
(* order the labels by when they were added.  An event is a pair           *)
(* <<thread, index>>, and Init0 is the initializer, which writes 0 to      *)
(* every location.  GenMCDriver takes all threads to be created before the *)
(* first access and leaves out thread start and create labels (index 0);   *)
(* Runtime has them.                                                       *)
(*                                                                         *)
(* A read-modify-write is two labels, a read and, if it succeeds, a store  *)
(* right after it.  Readers lists are not stored: Readers computes them.   *)
(***************************************************************************)
EXTENDS Integers, Sequences, FiniteSets

Sets == INSTANCE FiniteSetsExt
Seqs == INSTANCE SequencesExt

CONSTANTS NumThreads, Locs

ASSUME NumThreadsAssumption == NumThreads \in Nat \ {0}

Threads == 1 .. NumThreads
Init0   == <<0, 0>>
Bottom  == <<-1, -1>>     \* what a read reads that may not read anything

MaxOf(S) == CHOOSE x \in S : \A y \in S : y <= x
MinOf(S) == CHOOSE x \in S : \A y \in S : x <= y

EmptyGraph == [ev      |-> [t \in Threads |-> <<>>],
               co      |-> [l \in Locs |-> <<>>],
               ordered |-> [l \in Locs |-> TRUE],    \* used by WBCalculator
               stamp   |-> 1]

Events(g) == UNION {{<<t, i>> : i \in 1 .. Len(g.ev[t])} : t \in Threads}
Lab(g, e) == g.ev[e[1]][e[2]]
Prev(e)   == <<e[1], e[2] - 1>>
Succ(e)   == <<e[1], e[2] + 1>>
InGraph(g, e) == e = Init0 \/ e \in Events(g)

Reads(g)   == {e \in Events(g) : Lab(g, e).op = "R"}
Writes(g)  == {e \in Events(g) : Lab(g, e).op = "W"}
Readers(g, w) == {r \in Reads(g) : Lab(g, r).rf = w}

WriteVal(g, w) == IF w = Init0 THEN 0 ELSE Lab(g, w).val
ReadVal(g, r)  == WriteVal(g, Lab(g, r).rf)

isRMWStore(g, e) == Lab(g, e).op = "W" /\ Lab(g, e).rmw # "none"

\* The read of an RMW that has succeeded: its store follows it.
isRMWLoad(g, e) ==
  /\ Lab(g, e).op = "R" /\ Lab(g, e).rmw # "none"
  /\ Succ(e) \in Events(g)
  /\ isRMWStore(g, Succ(e))
  /\ Lab(g, Succ(e)).loc = Lab(g, e).loc

\* A read at which its thread waits because of an optimization: the thread's
\* last label says so.
isOptBlockedRead(g, e) ==
  /\ Lab(g, e).op = "R"
  /\ e[2] + 1 = Len(g.ev[e[1]])
  /\ Lab(g, Succ(e)).op = "B"
  /\ Lab(g, Succ(e)).type = "ReadOptBlock"

\* The closure of relation R (a set of pairs) on S.
TransClosure(S, R) ==
  Sets!FoldSet(LAMBDA e, r : r \cup ({p[1] : p \in {q \in r : q[2] = e}}
                                \X {p[2] : p \in {q \in r : q[1] = e}}), R, S)

-----------------------------------------------------------------------------
(* Views *)

ZeroView       == [t \in Threads |-> 0]
Contains(v, e) == e = Init0 \/ e[2] <= v[e[1]]
Update(v, w)   == [t \in Threads |-> IF v[t] < w[t] THEN w[t] ELSE v[t]]

PrevHb(g, e)   == IF e[2] = 1 THEN ZeroView ELSE Lab(g, Prev(e)).hb
PrevPorf(g, e) == IF e[2] = 1 THEN ZeroView ELSE Lab(g, Prev(e)).porf

calcBasicHbView(g, e)   == [PrevHb(g, e) EXCEPT ![e[1]] = @ + 1]
calcBasicPorfView(g, e) == [PrevPorf(g, e) EXCEPT ![e[1]] = @ + 1]

\* A read takes the porf view of the store it reads from and, if it is an
\* acquire, the view that the store publishes.
calcReadViews(g, e, lab) ==
  LET hb   == calcBasicHbView(g, e)
      porf == calcBasicPorfView(g, e)
  IN IF lab.rf \in {Init0, Bottom}
     THEN [lab EXCEPT !.hb = hb, !.porf = porf]
     ELSE [lab EXCEPT
             !.porf = Update(porf, Lab(g, lab.rf).porf),
             !.hb   = IF lab.acq THEN Update(hb, Lab(g, lab.rf).msg) ELSE hb]

\* hb view of the last label of the thread before e that releases for the
\* location: a release store to it, a release fence, a thread creation or,
\* failing these, the thread's start.
LastReleaseView(g, e, loc) ==
  LET rel == {i \in 1 .. e[2] - 1 :
                LET l == g.ev[e[1]][i]
                IN \/ l.op = "W" /\ l.loc = loc /\ l.rel
                   \/ l.op = "F" /\ l.rel
                   \/ l.op = "S"}
  IN IF rel = {} THEN ZeroView ELSE g.ev[e[1]][MaxOf(rel)].hb

\* Faulty variant: RMW stores do not continue release sequences.
calcWriteMsgViewOwn(g, e, lab, hb) ==
  IF lab.rel THEN hb ELSE LastReleaseView(g, e, lab.loc)

\* What an acquire read of this store learns; an RMW store passes on what
\* the store it reads from published (a release sequence).
calcWriteMsgView(g, e, lab, hb) ==
  LET own == IF lab.rel THEN hb ELSE LastReleaseView(g, e, lab.loc)
      rf  == Lab(g, Prev(e)).rf
  IN IF lab.rmw = "none" \/ rf = Init0 THEN own
     ELSE Update(Lab(g, rf).msg, own)

calcWriteViews(g, e, lab) ==
  LET hb == calcBasicHbView(g, e)
  IN [lab EXCEPT !.hb = hb, !.porf = calcBasicPorfView(g, e),
                 !.msg = calcWriteMsgView(g, e, lab, hb)]

-----------------------------------------------------------------------------
(* Additions and changes *)

NextEvent(g, t) == <<t, Len(g.ev[t]) + 1>>

\* addOtherLabelToGraph() for a label at the end of its thread.
addLabel(g, t, lab) ==
  [g EXCEPT !.ev[t] = Append(@, [lab EXCEPT !.stamp = g.stamp]),
            !.stamp = @ + 1]

\* Faulty variant: the views of the read are not recomputed.
changeRfOnly(g, r, w) == [g EXCEPT !.ev[r[1]][r[2]].rf = w]

changeRf(g, r, w) ==
  [g EXCEPT !.ev[r[1]][r[2]] =
     calcReadViews(g, r, [Lab(g, r) EXCEPT !.rf = w])]

setAddedMax(g, e, b) == [g EXCEPT !.ev[e[1]][e[2]].max = b]

\* The last event of each thread whose stamp is not above s.
getViewFromStamp(g, s) ==
  [t \in Threads |->
     MaxOf({0} \cup {i \in 1 .. Len(g.ev[t]) : g.ev[t][i].stamp <= s})]

\* The elements of sequence s with an index in I.
Kept(s, I) ==
  LET first[n \in 0 .. Len(s)] ==      \* those among the first n
        IF n = 0 THEN <<>>
        ELSE IF n \in I THEN Append(first[n - 1], s[n]) ELSE first[n - 1]
  IN first[Len(s)]

\* Sequence s with e after its first off elements.
InsertAtOffset(s, off, e) ==
  SubSeq(s, 1, off) \o <<e>> \o SubSeq(s, off + 1, Len(s))

\* The stores of s that are in view v.
StoresWithin(s, v) == Kept(s, {i \in 1 .. Len(s) : Contains(v, s[i])})

\* removeAfter(): the tracked coherence, without the stores outside view v.
CoRemoveAfter(co, v) == [l \in Locs |-> StoresWithin(co[l], v)]

\* The part of the graph that view v contains: labels and coherence.
RestrictGraph(g, v) ==
  [g EXCEPT !.ev = [t \in Threads |-> SubSeq(@[t], 1, v[t])],
            !.co = CoRemoveAfter(@, v)]

\* cutToStamp() and the reset of the stamp that follows it.
cutToStamp(g, s) ==
  [RestrictGraph(g, getViewFromStamp(g, s)) EXCEPT !.stamp = s + 1]

-----------------------------------------------------------------------------
(* RMW atomicity *)

\* The earliest other successful RMW that reads from the same store.
getPendingRMW(g, w) ==
  LET p == Prev(w)
      pending == {r \in Reads(g) :
                    /\ r # p
                    /\ Lab(g, r).rf = Lab(g, p).rf
                    /\ Lab(g, r).loc = Lab(g, p).loc
                    /\ isRMWLoad(g, r)}
  IN IF ~isRMWStore(g, w) \/ pending = {} THEN Init0
     ELSE CHOOSE r \in pending :
            \A q \in pending : Lab(g, r).stamp <= Lab(g, q).stamp

violatesAtomicity(g, w) == isRMWStore(g, w) /\ getPendingRMW(g, w) # Init0

\* The store is read by a successful RMW that no revisit can change.
isStoreReadBySettledRMW(g, w, loc, prefix) ==
  \E r \in Reads(g) :
    /\ Lab(g, r).rf = w /\ Lab(g, r).loc = loc
    /\ isRMWLoad(g, r)
    /\ ~Lab(g, r).rev \/ Contains(prefix, r)

-----------------------------------------------------------------------------
(* Backward revisits: store w changes what read r reads. *)

\* Reads of w's location that w may revisit, as far as porf is concerned.
getRevisitable(g, w) ==
  LET pending == getPendingRMW(g, w)
  IN {r \in Reads(g) :
        /\ Lab(g, r).loc = Lab(g, w).loc
        /\ ~Contains(Lab(g, w).porf, r)
        /\ Lab(g, r).rev /\ Lab(g, r).max
        /\ pending = Init0 \/ Lab(g, r).stamp <= Lab(g, pending).stamp}

\* What remains of the graph: what was there when r was added, and the
\* porf-prefix of w.
getRevisitView(g, r, w) ==
  Update(getViewFromStamp(g, Lab(g, r).stamp), Lab(g, w).porf)

\* The read was itself revisited by a store that this revisit removes.
hasBeenRevisitedByDeleted(g, kept, e) ==
  /\ Lab(g, e).op = "R"
  /\ Lab(g, e).rf # Init0
  /\ ~Contains(kept, Lab(g, e).rf)
  /\ Lab(g, Lab(g, e).rf).stamp > Lab(g, e).stamp

\* Faulty variant: the prefix keeps the stamps it had.
copyGraphOldStamps(g, r, w) ==
  [RestrictGraph(g, getRevisitView(g, r, w)) EXCEPT
     !.stamp = Lab(g, r).stamp + 1]

\* What was added after stamp base is stamped afresh, thread by thread.
Late(g, base) == {e \in Events(g) : Lab(g, e).stamp > base}
VisitedBefore(d, e) == d[1] < e[1] \/ (d[1] = e[1] /\ d[2] < e[2])
FreshStamp(base, late, e) ==
  base + 1 + Cardinality({d \in late : VisitedBefore(d, e)})

\* The reads of prefix porf may not be revisited again.
CopyLabel(lab, stamp, e, porf) ==
  LET l == [lab EXCEPT !.stamp = stamp]
  IN IF lab.op = "R" /\ Contains(porf, e) THEN [l EXCEPT !.rev = FALSE] ELSE l

\* The graph a backward revisit starts from.
copyGraph(g, r, w) ==
  LET og   == RestrictGraph(g, getRevisitView(g, r, w))
      base == Lab(g, r).stamp
      late == Late(og, base)
      StampOf(e) == IF e \in late THEN FreshStamp(base, late, e) ELSE Lab(og, e).stamp
  IN [og EXCEPT
        !.ev = [t \in Threads |->
                  [i \in 1 .. Len(og.ev[t]) |->
                     CopyLabel(Lab(og, <<t, i>>), StampOf(<<t, i>>), <<t, i>>, Lab(g, w).porf)]],
        !.stamp = base + 1 + Cardinality(late)]

-----------------------------------------------------------------------------
\* What ExecutionGraph::validate() asserts of rf, and what the calculators
\* rely on besides: a read reads a store to its location that is in the
\* graph (however often the graph was cut, copied and restamped), coherence
\* lists each store of a location once, and stamps are distinct and increase
\* along each thread.
WellFormed(g) ==
  /\ \A r \in Reads(g) :
       Lab(g, r).rf # Init0 =>
         Lab(g, r).rf \in Writes(g) /\ Lab(g, Lab(g, r).rf).loc = Lab(g, r).loc
  /\ \A l \in Locs :
       /\ {g.co[l][i] : i \in 1 .. Len(g.co[l])} = {w \in Writes(g) : Lab(g, w).loc = l}
       /\ \A i, j \in 1 .. Len(g.co[l]) : g.co[l][i] = g.co[l][j] => i = j
  /\ \A d, e \in Events(g) :
       /\ Lab(g, e).stamp < g.stamp
       /\ Lab(g, d).stamp = Lab(g, e).stamp => d = e
       /\ d[1] = e[1] /\ d[2] < e[2] => Lab(g, d).stamp < Lab(g, e).stamp
=============================================================================
