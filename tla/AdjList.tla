------------------------------- MODULE AdjList ------------------------------
(***************************************************************************)
(* The relations on events that the calculators fill (AdjList.hpp,         *)
(* AdjList.tcc).  Nodes are numbered 1 .. n.  succ keeps the successors of *)
(* a node in the order in which they were added; transC, the rows of the   *)
(* closure, also answers whether an edge is there; inDegree counts the     *)
(* edges in succ; closed says that transC is up to date.                   *)
(***************************************************************************)
EXTENDS Integers, Sequences

LOCAL INSTANCE SequencesExt

NewAdjList(n) == [succ     |-> [i \in 1 .. n |-> <<>>],
                  transC   |-> [i \in 1 .. n |-> {}],
                  inDegree |-> [i \in 1 .. n |-> 0],
                  closed   |-> FALSE]
Nodes(a)      == DOMAIN a.succ
HasEdge(a, i, j) == j \in a.transC[i]

\* An edge that is there already, directly or by closure, is not added.
addEdge(a, i, j) ==
  IF HasEdge(a, i, j) THEN a
  ELSE [a EXCEPT !.succ[i] = Append(@, j), !.transC[i] = @ \cup {j},
                 !.inDegree[j] = @ + 1, !.closed = FALSE]

addEdgesFromTo(a, froms, tos) ==
  FoldLeft(LAMBDA b, i : FoldLeft(LAMBDA c, j : addEdge(c, i, j), b, tos), a, froms)

-----------------------------------------------------------------------------
(* Depth-first search.  st.seen are the nodes entered, st.left those that  *)
(* have been left, in that order; st.back tells whether a back edge was    *)
(* met.                                                                    *)

RECURSIVE dfsUtil(_, _, _, _)
dfsUtil(a, i, k, st) ==
  IF k > Len(a.succ[i]) THEN [st EXCEPT !.left = Append(@, i)]
  ELSE LET j == a.succ[i][k]
       IN IF j \notin st.seen
          THEN dfsUtil(a, i, k + 1, dfsUtil(a, j, 1, [st EXCEPT !.seen = @ \cup {j}]))
          ELSE dfsUtil(a, i, k + 1,
                 [st EXCEPT !.back = @ \/ ~Contains(st.left, j)])

dfs(a) ==
  FoldLeft(LAMBDA st, i : IF i \in st.seen THEN st
                          ELSE dfsUtil(a, i, 1, [st EXCEPT !.seen = @ \cup {i}]),
           [seen |-> {}, left |-> <<>>, back |-> FALSE],
           [i \in Nodes(a) |-> i])

\* Faulty variant: nodes are completed in the order of their numbers.
transClosureInOrder(a) ==
  IF a.closed THEN a
  ELSE FoldLeft(LAMBDA b, i :
                  [b EXCEPT !.transC[i] =
                     @ \cup UNION {b.transC[j] \cup {j} : j \in {a.succ[i][k] : k \in DOMAIN a.succ[i]}}],
                [a EXCEPT !.closed = TRUE], [i \in Nodes(a) |-> i])

\* When a node is left it takes over the rows of its successors.
transClosure(a) ==
  IF a.closed THEN a
  ELSE FoldLeft(LAMBDA b, i :
                  [b EXCEPT !.transC[i] =
                     @ \cup UNION {b.transC[j] \cup {j} : j \in {a.succ[i][k] : k \in DOMAIN a.succ[i]}}],
                [a EXCEPT !.closed = TRUE], dfs(a).left)

isIrreflexive(a) == \A i \in Nodes(a) : ~HasEdge(a, i, i)

\* topoSort() is called on relations without cycles only (BUG at a back edge).
topoSort(a) == Reverse(dfs(a).left)

\* Faulty variant: degrees are not lowered when a node is scheduled.
ScheduleOnly(a, deg, i) == deg

\* The degrees that remain when node i is put into the sorting.
Schedule(a, deg, i) ==
  [j \in Nodes(a) |-> IF Contains(a.succ[i], j) THEN deg[j] - 1 ELSE deg[j]]

\* The sortings that allTopoSortUtil() tries: every node without remaining
\* predecessors is scheduled in turn; if there is none, one is complete.
RECURSIVE allTopoSortUtil(_, _, _)
allTopoSortUtil(a, current, deg) ==
  LET ready == {i \in Nodes(a) : deg[i] = 0 /\ ~Contains(current, i)}
  IN IF ready = {} THEN {current}
     ELSE UNION {allTopoSortUtil(a, Append(current, i), Schedule(a, deg, i)) : i \in ready}

allTopoSort(a) == allTopoSortUtil(a, <<>>, a.inDegree)
=============================================================================
