---------------------------- MODULE LibraryLayer ----------------------------
(***************************************************************************)
(* The library-verification layer at work: the interpreter announces where *)
(* library calls start and end (Interpreter::run), labels are added with   *)
(* what FunctionLabels computes for them, the graph is cut and copied by   *)
(* revisits, and the checks of LibraryChecks run when a call ends and when *)
(* a store extends a COM list.                                             *)
(*                                                                         *)
(* Which revisits are performed, and in what order, is the subject of      *)
(* GenMCDriver; here any read may be revisited, forwards at any time and   *)
(* backwards by the store added last.                                      *)
(***************************************************************************)
EXTENDS LibraryChecks

CONSTANT Configurations         \* what may be verified, and how

ASSUME ConfigurationsAssumption ==
  \A c \in Configurations :
    /\ c.ds \in Queues \cup Stacks \cup {"M_Mutex"}
    /\ c.policy \in {"ltr", "wf", "random"}
    /\ DOMAIN c.prog = Threads
    /\ \A t \in Threads : DOMAIN c.prog[t] = 1 .. Len(c.prog[t]) /\ Len(c.prog[t]) \in Nat
    /\ \A t \in Threads : \A i \in DOMAIN c.prog[t] :
         LET ins == c.prog[t][i]
         IN /\ ins.op \in {"start", "end", "R", "W", "deref"}
            /\ ins.op \in {"R", "W"} => ins.loc \in Locs
            /\ ins.op = "deref" => ins.rmw # "cas"

VARIABLES graph,        \* the execution graph
          violation     \* visitModelViolation() was called

vars == <<conf, graph, violation>>
prog == conf.prog

\* An instruction is the start of a call of fn, the end of a call, a read, a
\* store, or a read through the pointer that was read last ("deref", skipped
\* if that pointer is null).  next is the instruction after the label.
NewLabel(op, fn, next) ==
  [op |-> op, method |-> fn, inv |-> 0, com |-> {}, so |-> {}, next |-> next,
   stamp |-> 0, hb |-> ZeroView, porf |-> ZeroView]

NewRead(loc, ins, next) ==
  [op |-> "R", rmw |-> ins.rmw, loc |-> loc, acq |-> ins.acq, na |-> ins.na,
   rf |-> Init0, rev |-> TRUE, max |-> TRUE, next |-> next,
   method |-> NoMethod, inv |-> 0, com |-> {}, so |-> {},
   stamp |-> 0, hb |-> ZeroView, porf |-> ZeroView]

NewWrite(rmw, ins, val, next) ==
  [op |-> "W", rmw |-> rmw, loc |-> ins.loc, rel |-> ins.rel, na |-> ins.na,
   val |-> val, max |-> TRUE, next |-> next,
   method |-> NoMethod, inv |-> 0, com |-> {}, so |-> {},
   stamp |-> 0, hb |-> ZeroView, porf |-> ZeroView, msg |-> ZeroView]

LastOf(g, t) == <<t, Len(g.ev[t])>>
PC(g, t) == IF g.ev[t] = <<>> THEN 1 ELSE Lab(g, LastOf(g, t)).next

\* A CAS of a lock, from 0 to 1, that has been read but not stored: it
\* succeeds, or it spins.
InCAS(g, t) ==
  /\ g.ev[t] # <<>>
  /\ Lab(g, LastOf(g, t)).op = "R" /\ Lab(g, LastOf(g, t)).rmw = "cas"

At(g, t) ==
  LET i == PC(g, t)
  IN IF i <= Len(prog[t]) /\ prog[t][i].op = "deref" /\ ReadVal(g, LastOf(g, t)) = 0
     THEN i + 1 ELSE i

HasNext(g, t) == ~InCAS(g, t) /\ At(g, t) <= Len(prog[t])
Ins(t) == prog[t][At(graph, t)]

\* The store of a CAS belongs to the instruction already scheduled; otherwise
\* the policy decides.  Where calls start and end there is an instruction
\* that is not a load.
Storing(g)     == {t \in Threads : InCAS(g, t) /\ ReadVal(g, LastOf(g, t)) = 0}
Schedulable(g) == {t \in Threads : HasNext(g, t)}

Scheduled(g) ==
  LET writers == {t \in Schedulable(g) : prog[t][At(g, t)].op \notin {"R", "deref"}}
  IN IF Storing(g) # {} THEN Storing(g)
     ELSE IF conf.policy = "random" \/ Schedulable(g) = {} THEN Schedulable(g)
     ELSE {MinOf(IF conf.policy = "wf" /\ writers # {} THEN writers ELSE Schedulable(g))}

\* Interpreter::run() has started a call in thread t.
FunStarted(g, t) == g.ev[t] # <<>> /\ Lab(g, LastOf(g, t)).op # "end"
                      /\ Lab(g, LastOf(g, t)).method # NoMethod

AddLabel(g, t, new) == addLabel(g, t, updateLabelViews(g, NextEvent(g, t), new))

\* The graph is checked after the label at e was added.  One past the end of
\* a vector of calls there may be any call, or none.
Check(g, e) ==
  \E junk \in EventsOf(findallFunctionCalls(g)) \cup {<<NoMethod, 0>>} :
    violation' = checkModelViolations(g, e, findallFunctionCalls(g), junk)

Init ==
  /\ conf \in Configurations
  /\ graph = EmptyGraph
  /\ violation = FALSE

visitFunctionEnd(t) ==
  /\ HasNext(graph, t) /\ Ins(t).op = "end"
  /\ FunStarted(graph, t)
  /\ LET g == AddLabel(graph, t, NewLabel("end", NoMethod, At(graph, t) + 1))
     IN graph' = g /\ Check(g, LastOf(g, t))
  /\ UNCHANGED conf

\* A call that starts while another is in progress (which returned in an
\* unusual way) ends that one first.
visitFunctionStart(t) ==
  /\ HasNext(graph, t) /\ Ins(t).op = "start"
  /\ LET next == At(graph, t) + 1
         new  == NewLabel("start", Ins(t).fn, next)
         g    == AddLabel(graph, t, NewLabel("end", NoMethod, At(graph, t)))
     IN IF FunStarted(graph, t)
        THEN graph' = AddLabel(g, t, new) /\ Check(g, LastOf(g, t))
        ELSE graph' = AddLabel(graph, t, new) /\ UNCHANGED violation
  /\ UNCHANGED conf

visitLoad(t) ==
  /\ HasNext(graph, t) /\ Ins(t).op \in {"R", "deref"}
  /\ LET e   == NextEvent(graph, t)
         loc == IF Ins(t).op = "R" THEN Ins(t).loc ELSE ReadVal(graph, LastOf(graph, t))
         g   == AddLabel(graph, t, NewRead(loc, Ins(t), At(graph, t) + 1))
         stores == getCoherentStores(g, loc, e)
     IN /\ loc \in Locs            \* an error is reported otherwise
        /\ \E i \in 1 .. Len(stores) :
             /\ (Ins(t).rmw = "cas" /\ WriteVal(g, stores[i]) = 0)
                  => ~isStoreReadBySettledRMW(g, stores[i], loc, Lab(g, e).porf)
             /\ graph' = changeRfAndCOM(g, e, stores[i])
  /\ UNCHANGED <<conf, violation>>

\* A store goes where coherence allows; it is checked if it has extended the
\* COM list of its call.
AddStore(t, new) ==
  LET e == NextEvent(graph, t)
      g == AddLabel(graph, t, new)
      places == getPossiblePlacings(g, new.loc, e)
  IN \E off \in places[1] .. places[2] :
       LET ng == addStoreToLoc(g, new.loc, e, off)
       IN /\ off < Len(g.co[new.loc]) /\ new.rmw = "none"
               => ~isRMWStore(g, g.co[new.loc][off + 1])
          /\ ~violatesAtomicity(ng, e)
          /\ graph' = ng
          /\ IF Cardinality(calcBasicCOM(g, e)) < Cardinality(Lab(ng, e).com)
             THEN Check(ng, e) ELSE UNCHANGED violation
          /\ UNCHANGED conf

visitStore(t) ==
  \/ /\ HasNext(graph, t) /\ Ins(t).op = "W"
     /\ AddStore(t, NewWrite("none", Ins(t), Ins(t).val, At(graph, t) + 1))
  \/ /\ InCAS(graph, t) /\ ReadVal(graph, LastOf(graph, t)) = 0
     /\ AddStore(t, NewWrite("cas", prog[t][PC(graph, t) - 1], 1, PC(graph, t)))

\* A read reads from another of the stores it could have read from.  (There
\* is no work item for a read in the prefix of a revisit: the queue is empty
\* when the exploration of the copy starts.)
ForwardRevisit(r) ==
  LET cut == cutToStamp(graph, Lab(graph, r).stamp)
      stores == getCoherentStores(cut, Lab(cut, r).loc, r)
  IN \E i \in 1 .. Len(stores) :
       /\ Lab(graph, r).rev
       /\ stores[i] # Lab(cut, r).rf
       /\ graph' = changeRfAndCOM(cut, r, stores[i])
       /\ UNCHANGED <<conf, violation>>

\* The store that was added last revisits a read.  calcRevisits() runs before
\* the store is checked, so this happens even if that check finds an error.
BackwardRevisit(w) ==
  /\ Lab(graph, w).stamp = graph.stamp - 1
  /\ \E r \in getCoherentRevisits(graph, w) :
       graph' = changeRfAndCOM(copyGraph(graph, r, w), r, w)
  /\ violation' = FALSE
  /\ UNCHANGED conf

Done == /\ violation \/ Scheduled(graph) = {}
        /\ UNCHANGED vars

Next ==
  \/ /\ ~violation
     /\ \/ \E t \in Scheduled(graph) : \/ visitFunctionStart(t) \/ visitFunctionEnd(t)
                                       \/ visitLoad(t) \/ visitStore(t)
        \/ \E r \in Reads(graph) : ForwardRevisit(r)
  \/ \E w \in Writes(graph) : BackwardRevisit(w)
  \/ Done

Spec == Init /\ [][Next]_vars

-----------------------------------------------------------------------------
(* Properties *)

InCall(e) == Lab(graph, e).method # NoMethod
SameCall(d, e) == FunctionEvent(Lab(graph, d)) = FunctionEvent(Lab(graph, e))

\* The pair of a method and an invocation number identifies a call, as the
\* lookups by FunctionEvent in calculateOrder() and in the checks assume:
\* two labels carry the same pair only if they are in one thread with no
\* start of a call in between.  Numbers are reused once revisits have removed
\* a call, and calls of other threads are removed in any order.
CallsIdentified ==
  \A d, e \in Events(graph) :
    InCall(d) /\ InCall(e) /\ SameCall(d, e) /\ d # e =>
      /\ d[1] = e[1]
      /\ d[2] < e[2] => \A i \in d[2] + 1 .. e[2] :
                          graph.ev[d[1]][i].op # "start"

\* The COM and SO lists that labels inherit from one another are up to date:
\* a label of a call lists the calls whose data a read of this call, up to
\* that label, reads after having found it, and as synchronising exactly
\* those whose data was then written before.  Reads change what they read,
\* and lists hold numbers of calls that may since have been removed.
CommunicationExact ==
  \A e \in Events(graph) : conf.ds # "M_Mutex" /\ InCall(e) =>
    LET l == Lab(graph, e)
        upto == {d \in Events(graph) : d[1] = e[1] /\ d[2] <= e[2] /\ SameCall(d, e)}
        reads == {d \in upto : Lab(graph, d).op = "R" /\ Lab(graph, d).rf # Init0}
        Target(r) == Lab(graph, Lab(graph, r).rf)
        matches == {r \in reads :
                      /\ Target(r).na
                      /\ FunctionEvent(Target(r)) \notin {FunctionEvent(l)}
                      /\ Target(r).method # NoMethod
                      /\ \E q \in reads :
                           /\ q[2] < r[2]
                           /\ FunctionEvent(Target(q)) = FunctionEvent(Target(r))
                           /\ Lab(graph, q).rf[2] > Lab(graph, r).rf[2]}
    IN /\ l.com = {FunctionEvent(Target(r)) : r \in matches}
       /\ l.so  = {FunctionEvent(Target(r)) :
                     r \in {q \in matches :
                              Contains(Lab(graph, q).hb, Lab(graph, q).rf)}}

\* A call whose end is in the graph is found as one that is fully executed,
\* with its last label ("if the function is fully executed", "All eventlabels
\* of the methodcall" in FunctionCall.hpp).
CompletedCallsAreDone ==
  \A e \in Events(graph) : Lab(graph, e).op = "end" =>
    \E i \in 1 .. Len(findallFunctionCalls(graph)) :
      LET call == findallFunctionCalls(graph)[i]
      IN call.done /\ LastEvent(call) = e

\* A call in the SO list of a label happens before it (the store of the lock
\* "contributes to HB" in tryFindComSoPath).
SynchronisationIsReal ==
  \A e \in Events(graph) : \A A \in Lab(graph, e).so : InCall(e) =>
    \E w \in Writes(graph) : /\ FunctionEvent(Lab(graph, w)) = A
                             /\ Contains(Lab(graph, e).hb, w)
=============================================================================
