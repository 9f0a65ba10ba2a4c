---------------------------- MODULE Exploration ----------------------------
(***************************************************************************)
(* What the exploration of GenMCDriver promises, in terms of the axiomatic *)
(* definition of RC11 in RC11Executions.                                   *)
(***************************************************************************)
EXTENDS GenMCDriver, RC11Executions

\* The graph is well-formed, as ExecutionGraph::validate() asserts of rf and
\* as the calculators rely on, however it was cut, copied and restamped.
GraphWellFormed == WellFormed(graph)

\* The views kept in the labels are up to date: although changeRf() only
\* recomputes the views of the read it changes, the porf view of each event
\* is exactly what reaches it by program order and reads-from, and its hb
\* view what happens before it.
ViewsExact ==
  LET g  == graph
      k  == [ev |-> Events(g), rd |-> Reads(g), wr |-> Writes(g),
             ins |-> [e \in Events(g) |->
               [op  |-> IF isRMWStore(g, e) THEN "R" ELSE Lab(g, e).op,
                loc |-> IF Cons!isAccess(g, e) THEN Lab(g, e).loc ELSE "none",
                rel |-> Lab(g, e).rel,
                acq |-> Lab(g, e).op # "W" /\ Lab(g, e).acq]]]
      rf == [r \in k.rd |-> Lab(g, r).rf]
  IN \A porf \in {PorfOf(k, rf)}, hb \in {HbOf(k, rf)} : \A d, e \in k.ev :
       /\ (d = e \/ <<d, e>> \in porf) <=> Contains(Lab(g, e).porf, d)
       /\ (d = e \/ <<d, e>> \in hb) <=> Contains(Lab(g, e).hb, d)

\* Work items do not go stale.  An item is filed under the stamp of the event
\* it revisits, and stamps are reused after a cut: as long as the item is in
\* the queue, that event must be in the graph with that stamp, and what the
\* event is to read, or where in coherence it is to go, must exist once the
\* graph is cut to that stamp.
WorkItemsValid ==
  \A s \in NonEmpty(workqueue) : \A i \in 1 .. Len(workqueue[s]) :
      LET item == workqueue[s][i]
          g    == graph
      IN /\ item.pos \in Events(g) /\ Lab(g, item.pos).stamp = s
         /\ LET cut == cutToStamp(g, s)
                l   == Lab(g, item.pos).loc
            IN IF item.kind = "forward"
               THEN InGraph(cut, item.rev) /\ item.rev # Lab(g, item.pos).rf
               ELSE item.off < Len(cut.co[l])

\* What is compared of an execution: coherence only where it is tracked.
Observed(X) == {[rf |-> x.rf, co |-> IF isWB THEN {} ELSE x.co] : x \in X}

\* Executions are checked for psc.
ChecksPsc == conf.point # "error" /\ conf.type = "full"

\* Soundness and completeness: when the driver is done it has explored the
\* consistent executions of the program, all of them and no others, however
\* coherence is maintained.  If executions are checked for psc, those that
\* remain are the ones RC11 allows with its SC axiom.
Exact ==
  Finished =>
    explored = Observed(IF ChecksPsc THEN ScConsistentExecutions(prog)
                                     ELSE ConsistentExecutions(prog))

\* Optimality: no execution is explored twice, in whatever order revisits,
\* forward and backward, nested or submitted to the pool, are performed.
Optimal == ~repeated

\* The exploration ends: no revisit leads back to a graph that was explored.
Terminates == <>Finished
=============================================================================
