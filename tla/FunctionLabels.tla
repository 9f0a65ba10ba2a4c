--------------------------- MODULE FunctionLabels ---------------------------
(***************************************************************************)
(* What the library-verification layer stores in the labels of an          *)
(* execution graph (RC11Driver.cpp, ExecutionGraph.cpp): the library call  *)
(* that a label belongs to, as a method and an invocation number, and the  *)
(* calls that its call communicates (COM) and synchronises (SO) with, as   *)
(* known when the label was added.                                         *)
(*                                                                         *)
(* Labels are those of ExecutionGraph with four more fields, method, inv,  *)
(* com and so, and two more kinds, "start" and "end" (EL_FunStart and      *)
(* EL_FunEnd).  Lists of calls are sets: they never hold a call twice.     *)
(***************************************************************************)
EXTENDS MOCalculator

VARIABLE conf   \* getConf(): the data structure model, the scheduling policy
                \* and the program to verify; it never changes

Queues == {"M_Rel_Queue", "M_Weak_Queue", "M_HW_Queue", "M_Strong_Queue"}
Stacks == {"M_Rel_Stack", "M_Weak_Stack", "M_C_Stack"}

\* A FunctionEvent identifies a call.
FunctionEvent(l) == <<l.method, l.inv>>
NoMethod == "FN_NON"

previousEventMethod(g, e) ==
  IF e[2] = 1 \/ Lab(g, Prev(e)).op = "end" THEN NoMethod
  ELSE Lab(g, Prev(e)).method

previousEventInvocation(g, e) == IF e[2] = 1 THEN 0 ELSE Lab(g, Prev(e)).inv

FunStarts(g) == {e \in Events(g) : Lab(g, e).op = "start"}

\* Faulty variant: counts the calls that are in the graph.
getFunInvocationCountNow(g, name) ==
  Cardinality({e \in FunStarts(g) : Lab(g, e).method = name})

\* One more than the largest number in use.
getFunInvocationCount(g, name) ==
  MaxOf({0} \cup {Lab(g, e).inv + 1 :
                    e \in {d \in FunStarts(g) : Lab(g, d).method = name}})

AddFunInfoToLbl(g, e, lab) ==
  IF lab.op = "start"
  THEN [lab EXCEPT !.inv = getFunInvocationCount(g, lab.method)]
  ELSE [lab EXCEPT !.method = previousEventMethod(g, e),
                   !.inv = previousEventInvocation(g, e)]

calcBasicCOM(g, e) == IF e[2] = 1 THEN {} ELSE Lab(g, Prev(e)).com
calcBasicSO(g, e)  == IF e[2] = 1 THEN {} ELSE Lab(g, Prev(e)).so

\* A call starts without communication.
calcBasicViews(g, e, lab) ==
  LET fresh == lab.op = "start"
  IN [lab EXCEPT !.hb = calcBasicHbView(g, e), !.porf = calcBasicPorfView(g, e),
                 !.com = IF fresh THEN {} ELSE calcBasicCOM(g, e),
                 !.so  = IF fresh THEN {} ELSE calcBasicSO(g, e)]

\* The earlier reads of the call that the read at e belongs to.
EarlierReads(g, e) ==
  LET starts == {i \in 1 .. e[2] - 1 : g.ev[e[1]][i].op = "start"}
  IN {<<e[1], i>> : i \in {j \in MaxOf({0} \cup starts) + 1 .. e[2] - 1 :
                             g.ev[e[1]][j].op = "R"}}

\* A read matches call B if it reads B's data (a non-atomic store w of B) and
\* an earlier read of its call reads a later store of B, which published it.
MatchesCall(g, e, lab) ==
  LET w == lab.rf
      A == FunctionEvent(lab)
      B == FunctionEvent(Lab(g, w))
  IN /\ conf.ds # "M_Mutex"
     /\ w # Init0
     /\ A[1] # NoMethod /\ B[1] # NoMethod /\ A # B
     /\ \E r \in EarlierReads(g, e) :
          LET nw == Lab(g, r).rf
          IN nw # Init0 /\ FunctionEvent(Lab(g, nw)) = B /\ nw[2] > w[2]
     /\ Lab(g, w).na

\* What calcReadViews() adds to the lists, besides computing the views.  The
\* match is synchronising if the data was written before it was read.
calcReadCOM(g, e, lab) ==
  LET B == {FunctionEvent(Lab(g, lab.rf))}
      synced == lab.acq \/ Contains(calcBasicHbView(g, e), lab.rf)
  IN IF MatchesCall(g, e, lab)
     THEN [lab EXCEPT !.com = calcBasicCOM(g, e) \cup B,
                      !.so  = calcBasicSO(g, e) \cup (IF synced THEN B ELSE {})]
     ELSE [lab EXCEPT !.com = calcBasicCOM(g, e), !.so = calcBasicSO(g, e)]

\* tryFindComSoPath(): the store of an RMW matches the call whose store of 0
\* (an unlock) the RMW reads; the match counts as synchronising if the RMW
\* is an acquire.
tryFindComSoPath(g, e, lab) ==
  LET r == Lab(g, Prev(e))
      w == r.rf
      com == calcBasicCOM(g, e)
      so  == calcBasicSO(g, e)
      W   == FunctionEvent(Lab(g, w))
  IN IF /\ conf.ds = "M_Mutex" /\ lab.method # NoMethod
        /\ lab.rmw # "none" /\ w # Init0
        /\ W \notin com /\ W[1] # NoMethod /\ W # FunctionEvent(r)
        /\ Lab(g, w).val = 0
     THEN [lab EXCEPT !.com = com \cup {W},
                      !.so  = so \cup (IF r.acq THEN {W} ELSE {})]
     ELSE [lab EXCEPT !.com = com, !.so = so]

\* updateLabelViews(): all that is computed for a label to be put at e.
updateLabelViews(g, e, new) ==
  LET lab == AddFunInfoToLbl(g, e, new)
  IN CASE lab.op = "R" -> calcReadCOM(g, e, calcReadViews(g, e, lab))
       [] lab.op = "W" -> tryFindComSoPath(g, e, calcWriteViews(g, e, lab))
       [] OTHER        -> calcBasicViews(g, e, lab)

\* Faulty variant: the lists of the read are left as they are.
changeRfViewsOnly(g, r, w) == changeRf(g, r, w)

\* RC11Driver::changeRf() recomputes the views and the lists of the read.
changeRfAndCOM(g, r, w) ==
  [g EXCEPT !.ev[r[1]][r[2]] =
     calcReadCOM(g, r, calcReadViews(g, r, [Lab(g, r) EXCEPT !.rf = w]))]
=============================================================================
