---------------------------- MODULE LibraryChecks ----------------------------
(***************************************************************************)
(* The checks of library executions in GenMCDriver.cpp: the library calls  *)
(* of a graph, the orders between them, and the axioms for mutexes, queues *)
(* and stacks.  A check is a predicate on a graph and on the event that    *)
(* triggers it, true if the code reports a model violation.                *)
(***************************************************************************)
EXTENDS FunctionLabels

\* The two ends of each reads-from edge that made a COM list longer.
COMVertices(g) ==
  LET Grows(e) == Cardinality(Lab(g, e).com) > Cardinality(calcBasicCOM(g, e))
      readOf(e) == IF Lab(g, e).op = "R" THEN e ELSE Prev(e)
      grown == {e \in Events(g) : /\ Lab(g, e).op \in {"R", "W"}
                                  /\ Lab(g, e).op = "W" => Lab(g, e).rmw = "cas"
                                  /\ Grows(e)}
  IN UNION {{readOf(e), Lab(g, readOf(e)).rf} : e \in grown}

\* A FunctionCall with the events lbl; it has a value if one of its accesses
\* is the end of a COM edge.
FunctionCall(g, lbl, done) ==
  [done   |-> done,
   event  |-> FunctionEvent(Lab(g, lbl[1])),
   labels |-> lbl,
   valid  |-> \E i \in 1 .. Len(lbl) : lbl[i] \in COMVertices(g)]

\* One label of a thread, given the method being collected (cur), its labels
\* so far (lbl) and the calls found (calls).
CollectLabel(g, acc, e) ==
  LET lab   == Lab(g, e)
      cur   == IF lab.op = "start" THEN lab.method ELSE acc.cur
      lbl   == Append(acc.lbl, e)
      Close(done) == [cur |-> NoMethod, lbl |-> <<>>,
                      calls |-> Append(acc.calls, FunctionCall(g, lbl, done))]
  IN IF lab.method # cur \/ cur = NoMethod THEN [acc EXCEPT !.cur = cur]
     ELSE CASE lab.op = "end"   -> Close(TRUE)
            [] lab.op = "start" -> Close(FALSE)
            [] lab.op \notin {"start", "end"} /\ e[2] = Len(g.ev[e[1]])
                                -> Close(FALSE)
            [] OTHER            -> [acc EXCEPT !.cur = cur, !.lbl = lbl]

\* The calls in the graph, thread by thread.
findallFunctionCalls(g) ==
  LET none == [cur |-> NoMethod, lbl |-> <<>>, calls |-> <<>>]
      ofThread(t) ==
        Seqs!FoldLeft(LAMBDA acc, i : CollectLabel(g, acc, <<t, i>>), none,
                   [i \in 1 .. Len(g.ev[t]) |-> i]).calls
  IN Seqs!FlattenSeq([t \in Threads |-> ofThread(t)])

-----------------------------------------------------------------------------
(* Orders between calls: functions from calls to sets of calls. *)

EventsOf(calls) == {calls[i].event : i \in 1 .. Len(calls)}
LastEvent(call) == call.labels[Len(call.labels)]
Image(E, pairs) == [e \in E |-> {p[2] : p \in {q \in pairs : q[1] = e}}]

\* From each call, follow po and so as long as this leads to a new call.
closeLHB(E, step) ==
  LET poso(e) == LET after[n \in Nat] ==
                       IF n = 0 THEN step[e]
                       ELSE UNION {T \cup UNION {step[f] : f \in T} : T \in {after[n - 1]}}
                 IN after[Cardinality(E)]
  IN [e \in E |-> poso(e)]

calculateOrder(g, calls) ==
  LET E == EventsOf(calls)
      po == {<<calls[i].event, calls[i + 1].event>> :
               i \in {j \in 1 .. Len(calls) - 1 :
                        calls[j].labels[1][1] = calls[j + 1].labels[1][1]}}
      listed(field(_)) ==
        UNION {{<<c, calls[i].event>> : c \in field(Lab(g, LastEvent(calls[i])))} :
                 i \in 1 .. Len(calls)}
      com == listed(LAMBDA l : l.com)
      so  == listed(LAMBDA l : l.so)
      Inverse(pairs) == {<<p[2], p[1]>> : p \in pairs}
      step == [e \in E |-> Image(E, po)[e] \cup Image(E, so)[e]]
  IN [PO |-> Image(E, po), COM |-> Image(E, com), INVCOM |-> Image(E, Inverse(com)),
      SO |-> Image(E, so), INVSO |-> Image(E, Inverse(so)), LHB |-> closeLHB(E, step)]

The(T) == CHOOSE x \in T : TRUE
Matched(R, A) == Cardinality(R[A]) = 1

\* tryCalcTO(): the calls from the last to the first, as long as there is one
\* that precedes the call found before it and, of those not yet found, none.
tryCalcTO(calls, lhb) ==
  LET Fits(to, f) == LET found == {to[i] : i \in 1 .. Len(to)}
                     IN /\ f \notin found
                        /\ to # <<>> => to[Len(to)] \in lhb[f]
                        /\ lhb[f] \subseteq found
      grow[n \in Nat] ==
        IF n = 0 THEN <<>>
        ELSE LET to  == grow[n - 1]
                 fit == {i \in 1 .. Len(calls) : Fits(to, calls[i].event)}
             IN IF fit = {} THEN to ELSE Append(to, calls[MinOf(fit)].event)
  IN grow[Len(calls)]

-----------------------------------------------------------------------------
(* The axioms *)

\* An insertion matches at most one removal, and is no removal itself.
InsertError(rel, cur) == Cardinality(rel.COM[cur]) > 1 \/ rel.INVCOM[cur] # {}

\* A removal is no insertion.  One that ends unmatched has no value and,
\* unless the model is weak, no unmatched insertion that is done precedes it.
RemoveError(g, pos, cur, calls, rel, insert) ==
  \/ rel.COM[cur] # {}
  \/ /\ rel.INVCOM[cur] = {} /\ Lab(g, pos).op = "end"
     /\ \/ \E i \in 1 .. Len(calls) : calls[i].event = cur /\ calls[i].valid
        \/ \E i \in 1 .. Len(calls) :
             LET A == calls[i].event
             IN /\ A[1] = insert /\ rel.COM[A] = {} /\ calls[i].done
                /\ conf.ds \notin {"M_Weak_Queue", "M_Weak_Stack"}
                /\ cur \in rel.LHB[A]

\* Matching edges synchronise, unless the model is relaxed.
SyncError(calls, rel) ==
  /\ conf.ds \notin {"M_Rel_Queue", "M_Rel_Stack"}
  /\ \E A \in EventsOf(calls) : Cardinality(rel.COM[A]) # Cardinality(rel.SO[A])

\* Two dequeues, or two enqueues, in lhb order with partners in the opposite
\* order.
FifoError(calls, rel) ==
  \E A \in EventsOf(calls) : \E B \in rel.LHB[A] :
    \/ /\ A[1] = "FN_Deq" /\ B[1] = "FN_Deq"
       /\ Matched(rel.INVCOM, A) /\ Matched(rel.INVCOM, B)
       /\ The(rel.INVCOM[A]) \in rel.LHB[The(rel.INVCOM[B])]
    \/ /\ A[1] = "FN_Enq" /\ B[1] = "FN_Enq"
       /\ Matched(rel.COM, A) /\ Matched(rel.COM, B)
       /\ The(rel.COM[A]) \in rel.LHB[The(rel.COM[B])]

\* The strong queue: all calls must be ordered, and in the scan of that order
\* the outer loop starts one past its end, where it reads whatever is there
\* (junk, which may be a call).
StrongFifoError(calls, rel, junk) ==
  LET to == tryCalcTO(calls, rel.LHB)
      at(i) == IF i = Len(to) THEN junk ELSE to[i + 1]
      find(C) == MinOf({Len(to)} \cup {i \in 0 .. Len(to) - 1 : to[i + 1] = C})
      Known(A) == A \in EventsOf(calls)
  IN \/ Len(to) # Len(calls)
     \/ \E i \in 1 .. Len(to) : \E j \in 0 .. i - 1 :
          LET A == at(i)
              B == at(j)
          IN /\ Known(A) /\ A[1] = B[1] /\ A[1] \in {"FN_Enq", "FN_Deq"}
             /\ Matched(rel.COM, A) /\ Matched(rel.COM, B)
             /\ find(The(rel.COM[A])) < find(The(rel.COM[B]))

checkQueue(g, pos, calls, junk) ==
  LET cur == FunctionEvent(Lab(g, pos))
      rel == calculateOrder(g, calls)
  IN \/ cur[1] = "FN_Enq" /\ InsertError(rel, cur)
     \/ cur[1] = "FN_Deq" /\ RemoveError(g, pos, cur, calls, rel, "FN_Enq")
     \/ SyncError(calls, rel)
     \/ IF conf.ds = "M_Strong_Queue" THEN StrongFifoError(calls, rel, junk)
        ELSE FifoError(calls, rel)

\* Two pops (pushes) in lhb order whose partners are in the same order,
\* although the second push precedes the first pop.
FiloError(calls, rel) ==
  \E A \in EventsOf(calls) : \E B \in rel.LHB[A] :
    \/ /\ A[1] = "FN_Pop" /\ B[1] = "FN_Pop"
       /\ Matched(rel.INVCOM, A) /\ Matched(rel.INVCOM, B)
       /\ LET C == The(rel.INVCOM[A])
              D == The(rel.INVCOM[B])
          IN D \in rel.LHB[C] /\ A \in rel.LHB[D]
    \/ /\ A[1] = "FN_Push" /\ B[1] = "FN_Push"
       /\ Matched(rel.COM, A) /\ Matched(rel.COM, B)
       /\ LET C == The(rel.COM[A])
              D == The(rel.COM[B])
          IN D \in rel.LHB[C] /\ C \in rel.LHB[B]

checkStack(g, pos, calls) ==
  LET cur == FunctionEvent(Lab(g, pos))
      rel == calculateOrder(g, calls)
  IN \/ cur[1] = "FN_Push" /\ InsertError(rel, cur)
     \/ cur[1] = "FN_Pop" /\ RemoveError(g, pos, cur, calls, rel, "FN_Push")
     \/ SyncError(calls, rel)
     \/ FiloError(calls, rel)

checkMutex(g, pos, calls) ==
  LET cur == FunctionEvent(Lab(g, pos))
      rel == calculateOrder(g, calls)
  IN /\ cur[1] # "FN_Init"
     /\ \/ cur[1] = "FN_Lock" /\ (rel.COM[cur] # {} \/ ~Matched(rel.INVCOM, cur))
        \/ cur[1] = "FN_Unlock" /\ rel.INVCOM[cur] # {}
        \/ rel.COM[cur] # rel.SO[cur]

\* checkModelViolations(), for a list of the calls in the graph.
checkModelViolations(g, pos, calls, junk) ==
  CASE conf.ds = "M_Mutex"  -> checkMutex(g, pos, calls)
    [] conf.ds \in Queues   -> checkQueue(g, pos, calls, junk)
    [] conf.ds \in Stacks   -> checkStack(g, pos, calls)
=============================================================================
