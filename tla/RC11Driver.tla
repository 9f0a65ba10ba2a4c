----------------------------- MODULE RC11Driver -----------------------------
(***************************************************************************)
(* The model-specific part of the driver for RC11 (RC11Driver.cpp): the    *)
(* views of every class of label, and data races.  The views of reads and  *)
(* stores are in ExecutionGraph.                                           *)
(***************************************************************************)
EXTENDS Labels

LastLabel(g, t) == g.ev[t][Len(g.ev[t])]
Created(g)      == {t \in Threads : g.ev[t] # <<>>}
removeLast(g, t) == [g EXCEPT !.ev[t] = SubSeq(@, 1, Len(@) - 1)]

isHbBefore(g, d, e) == d # e /\ Contains(Lab(g, e).hb, d)

calcBasicViews(g, e, lab) ==
  [lab EXCEPT !.hb = calcBasicHbView(g, e), !.porf = calcBasicPorfView(g, e)]

\* An acquire fence learns what the stores published that earlier relaxed
\* reads read from, back to the previous acquire fence.
calcFenceRelRfPoBefore(g, e, v) ==
  LET ls    == g.ev[e[1]]
      since == MaxOf({0} \cup {i \in 1 .. e[2] - 1 : ls[i].kind = "Fence" /\ ls[i].acq})
      read  == {i \in since + 1 .. e[2] - 1 :
                  ls[i].op = "R" /\ isAtMostRelease(ls[i].ord) /\ ls[i].rf # Init0}
      msgs  == {Lab(g, ls[i].rf).msg : i \in read}
  IN [t \in Threads |-> MaxOf({v[t]} \cup {m[t] : m \in msgs})]

\* Faulty variant: fences do not acquire.
calcFenceViewsRelaxed(g, e, lab) == calcBasicViews(g, e, lab)

calcFenceViews(g, e, lab) ==
  LET basic == calcBasicViews(g, e, lab)
  IN IF lab.acq THEN [basic EXCEPT !.hb = calcFenceRelRfPoBefore(g, e, @)] ELSE basic

\* The start of a thread acquires from its creation.
calcStartViews(g, e, lab) ==
  IF lab.parent = Init0 THEN calcBasicViews(g, e, lab)
  ELSE [lab EXCEPT !.hb   = [Lab(g, lab.parent).hb EXCEPT ![e[1]] = e[2]],
                   !.porf = [Lab(g, lab.parent).porf EXCEPT ![e[1]] = e[2]]]

\* A join acquires from the end of the thread, if that has been reached.
calcJoinViews(g, e, lab) ==
  LET basic == calcBasicViews(g, e, lab)
      valid == lab.child \in Created(g)
      fLab  == LastLabel(g, lab.child)
  IN IF valid /\ fLab.kind = "ThreadFinish"
     THEN [basic EXCEPT !.hb = Update(@, fLab.hb), !.porf = Update(@, fLab.porf)]
     ELSE basic

updateLabelViews(g, e, lab) ==
  CASE lab.op = "R"              -> calcReadViews(g, e, lab)
    [] lab.op = "W"              -> calcWriteViews(g, e, lab)
    [] lab.kind = "Fence"        -> calcFenceViews(g, e, lab)
    [] lab.kind = "ThreadStart"  -> calcStartViews(g, e, lab)
    [] lab.kind = "ThreadJoin"   -> calcJoinViews(g, e, lab)
    [] OTHER                     -> calcBasicViews(g, e, lab)

\* updateLabelViews() followed by the addition of the label to the graph.
addViewed(g, t, lab) == addLabel(g, t, updateLabelViews(g, NextEvent(g, t), lab))

\* The graph once a join has met the end of its thread.  The graph is left
\* alone if that thread has not ended.
updateJoin(g, join, last) ==
  IF Lab(g, last).kind # "ThreadFinish" THEN g
  ELSE LET fLab == Lab(g, last)
           jLab == calcBasicViews(g, join, Lab(g, join))
       IN [g EXCEPT
             !.ev[join[1]][join[2]] =
                [jLab EXCEPT !.hb = Update(@, fLab.hb), !.porf = Update(@, fLab.porf),
                             !.childLast = last],
             !.ev[last[1]][last[2]].parentJoin = join]

-----------------------------------------------------------------------------
(* Data races *)

areInDataRace(g, a, b) ==
  /\ a # b /\ ~isHbBefore(g, a, b) /\ ~isHbBefore(g, b, a)
  /\ Lab(g, a).ord = "na" \/ Lab(g, b).ord = "na"
  /\ Lab(g, a).loc = Lab(g, b).loc

findRaceForNewLoad(g, r) ==
  {w \in Writes(g) : /\ Lab(g, w).loc = Lab(g, r).loc
                     /\ ~Contains(PrevHb(g, r), w)
                     /\ areInDataRace(g, r, w)}

\* Faulty variant: a store is compared with stores only.
findRaceForNewStoreStores(g, w) ==
  {e \in Writes(g) : ~Contains(PrevHb(g, w), e) /\ areInDataRace(g, w, e)}

findRaceForNewStore(g, w) ==
  {e \in Reads(g) \cup Writes(g) :
     ~Contains(PrevHb(g, w), e) /\ areInDataRace(g, w, e)}

findDataRaceForMemAccess(g, e) ==
  IF Lab(g, e).op = "R" THEN findRaceForNewLoad(g, e) ELSE findRaceForNewStore(g, e)
=============================================================================
