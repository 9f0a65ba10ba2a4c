----------------------------- MODULE Containers -----------------------------
(***************************************************************************)
(* The data structures underneath the graphs, driven through all their     *)
(* operations.  A behaviour is about one of them: kind says which, impl is *)
(* the structure as the code keeps it, and abs what it stands for: a set   *)
(* of elements or events, or a set of edges.  The allocator has variables  *)
(* of its own (SAddrAllocator).                                            *)
(***************************************************************************)
EXTENDS VSet, Views, SAddrAllocator, FiniteSets

CONSTANTS Elements,    \* what VSets contain
          NumNodes, MaxEdges,
          Events,      \* what views contain, as pairs <<thread, index>>
          MaxUpdates

L == INSTANCE AdjList

LOCAL INSTANCE SequencesExt

VARIABLES kind, impl, abs, steps
vars == <<kind, impl, abs, steps, pools, blocks>>

Listed(S) == SetToSortSeq(S, LAMBDA x, y : x < y)

Init ==
  /\ steps = 0 /\ PoolsInit
  /\ \/ kind = "vset"    /\ impl = <<>>              /\ abs = {}
     \/ kind = "view"    /\ impl = EmptyView         /\ abs = {}
     \/ kind = "depview" /\ impl = EmptyDepView      /\ abs = {}
     \/ kind = "adjlist" /\ impl = L!NewAdjList(NumNodes) /\ abs = {}
     \/ kind = "pools"   /\ impl = <<>>              /\ abs = {}

Becomes(i, a) == impl' = i /\ abs' = a /\ UNCHANGED <<kind, pools, blocks>>

-----------------------------------------------------------------------------
VSetInsert ==
  \E x \in Elements : Becomes(insert(impl, x), abs \cup {x})
VSetErase ==
  \E x \in Elements : Becomes(erase(impl, x), abs \ {x})
VSetInsertAll ==
  \E S \in SUBSET Elements : Becomes(insertAll(impl, Listed(S)), abs \cup S)
VSetInsertRange ==
  \E s \in Elements \X Elements : Becomes(insertRange(impl, s), abs \cup {s[1], s[2]})
VSetEraseAll ==
  \E S \in SUBSET Elements : Becomes(eraseAll(impl, Listed(S)), abs \ S)
VSetIntersect ==
  \E S \in SUBSET Elements : Becomes(intersectWith(impl, Listed(S)), abs \cap S)

VSetStep ==
  /\ kind = "vset" /\ UNCHANGED steps
  /\ VSetInsert \/ VSetErase \/ VSetInsertAll \/ VSetInsertRange \/ VSetEraseAll \/ VSetIntersect

\* A VSet lists the elements it should contain, in order and once each, and
\* comparisons with other sets give the right answer: the in-place merging
\* and squeezing of the bulk operations neither lose nor repeat elements.
VSetExact ==
  kind = "vset" =>
    /\ impl = Listed(abs)
    /\ \A x \in Elements : count(impl, x) <=> x \in abs
    /\ \A S \in SUBSET Elements :
         /\ subsetOf(impl, Listed(S)) <=> abs \subseteq S
         /\ intersects(impl, Listed(S)) <=> abs \cap S # {}

-----------------------------------------------------------------------------
\* The events that a maximal event of its thread stands for.
Below(e) == {d \in Events : d[1] = e[1] /\ d[2] <= e[2]}

ViewStep ==
  /\ kind = "view" /\ steps < MaxUpdates /\ steps' = steps + 1
  /\ \/ \E e \in Events : Becomes(updateIdx(impl, e), abs \cup Below(e))
     \/ \E d, e \in Events :
          Becomes(ViewUpdate(impl, updateIdx(updateIdx(EmptyView, d), e)),
                  abs \cup Below(d) \cup Below(e))

\* A view contains an event exactly if it was updated with it or with a
\* later one of its thread, whatever sizes the two vectors had; comparing
\* views compares what they contain.
ViewExact ==
  kind = "view" =>
    /\ \A e \in Events : ViewContains(impl, e) <=> e \in abs
    /\ \A e \in Events : ViewLeq(updateIdx(EmptyView, e), impl) <=> Below(e) \subseteq abs

\* A clock as drivers build them: the maximum of a thread, with holes below.
Clock(e, holes) ==
  FoldLeft(LAMBDA d, i : addHole(d, <<e[1], i>>), PutIdx(EmptyDepView, e[1], e[2]), Listed(holes))

DepSeen(e) ==
  /\ e[2] > At(impl.view, e[1])
  /\ Becomes(addHolesInRange(PutIdx(impl, e[1], e[2]), <<e[1], At(impl.view, e[1]) + 1>>, e[2]),
             abs \cup {e})
DepHole(e) ==
  /\ e[2] <= At(impl.view, e[1])
  /\ Becomes(addHole(impl, e), abs \ {e})
DepUnhole(e) ==
  /\ e[2] <= At(impl.view, e[1])
  /\ Becomes(removeHole(impl, e), abs \cup {e})
DepUnholeAll(t) ==
  /\ Becomes(removeAllHoles(impl, t), abs \cup {e \in Events : e[1] = t /\ e[2] <= At(impl.view, t)})
DepUnholeRange(e) ==
  /\ Becomes(removeHolesInRange(impl, e, At(impl.view, e[1]) + 1),
             abs \cup {d \in Events : /\ d[1] = e[1] /\ d[2] >= e[2]
                                      /\ d[2] <= At(impl.view, e[1])})
DepMerge(e) ==
  \E h \in SUBSET (1 .. e[2] - 1) :
    Becomes(DepUpdate(impl, Clock(e, h)),
            abs \cup {d \in Below(e) : d[2] \notin h})

DepViewStep ==
  /\ kind = "depview" /\ steps < MaxUpdates /\ steps' = steps + 1
  /\ \E e \in Events : \/ DepSeen(e) \/ DepHole(e) \/ DepUnhole(e)
                       \/ DepUnholeAll(e[1]) \/ DepUnholeRange(e) \/ DepMerge(e)

\* A dependency view contains exactly the events it was told of: joining two
\* clocks fills a hole as soon as either of them has seen the event.
DepViewExact ==
  kind = "depview" => \A e \in Events : DepContains(impl, e) <=> e \in abs

\* Sorted vectors and vector clocks, with and without holes, answer as the
\* sets do that they stand for.
SetsExact == VSetExact /\ ViewExact /\ DepViewExact

-----------------------------------------------------------------------------
Node == 1 .. NumNodes

AdjListStep ==
  /\ kind = "adjlist" /\ UNCHANGED steps
  /\ \/ \E i, j \in Node :
          /\ i # j /\ Cardinality(abs) < MaxEdges
          /\ Becomes(L!addEdge(impl, i, j), abs \cup {<<i, j>>})
     \/ \E i, j, k \in Node :
          /\ i # k /\ j # k /\ Cardinality(abs) + 2 <= MaxEdges
          /\ Becomes(L!addEdgesFromTo(impl, <<i, j>>, <<k>>), abs \cup {<<i, k>>, <<j, k>>})
     \/ /\ ~impl.closed /\ Becomes(L!transClosure(impl), abs)

\* The transitive closure of a set of edges.
ClosureOf(E) ==
  LET c[n \in 0 .. NumNodes] ==
        IF n = 0 THEN E
        ELSE c[n - 1] \cup {<<p[1], q[2]>> : <<p, q>> \in
                              {r \in c[n - 1] \X c[n - 1] : r[1][2] = r[2][1]}}
  IN c[NumNodes]

Acyclic(E) == \A i \in Node : <<i, i>> \notin ClosureOf(E)

IsSorting(s, E) == \A i, j \in DOMAIN s : <<s[i], s[j]>> \in E => i < j

\* After transClosure(), cycles are found, and the rows are the transitive
\* closure of the edges if there is none, even if edges were added to a
\* relation that had been closed before and some were left out as redundant.
ClosureExact ==
  kind = "adjlist" /\ impl.closed =>
    /\ L!isIrreflexive(impl) <=> Acyclic(abs)
    /\ Acyclic(abs) =>
         {p \in Node \X Node : L!HasEdge(impl, p[1], p[2])} = ClosureOf(abs)

\* topoSort() is a sorting of the nodes, and allTopoSort() tries each
\* sorting exactly once, although edges implied by others may be missing
\* from the successor lists and the degrees.
SortingsExact ==
  kind = "adjlist" /\ Acyclic(abs) =>
    LET all == {s \in [Node -> Node] : /\ \A i, j \in Node : i # j => s[i] # s[j]
                                       /\ IsSorting(s, abs)}
    IN /\ L!topoSort(impl) \in all
       /\ L!allTopoSort(impl) = all

\* Adjacency lists answer as the relation does that they stand for.
RelationsExact == ClosureExact /\ SortingsExact

-----------------------------------------------------------------------------
PoolsStep == kind = "pools" /\ UNCHANGED <<kind, impl, abs, steps>> /\ PoolsNext

-----------------------------------------------------------------------------
Next == VSetStep \/ ViewStep \/ DepViewStep \/ AdjListStep \/ PoolsStep

Spec == Init /\ [][Next]_vars
=============================================================================
