-------------------------------- MODULE Views -------------------------------
(***************************************************************************)
(* The vector clocks stored in labels (VectorClock, View, DepView).  A     *)
(* View is a vector of indices that grows when a thread is first written;  *)
(* a thread beyond its end counts as 0.  A DepView also keeps, for each    *)
(* thread, the indices below its maximum that it does not contain, its     *)
(* holes.  Events are pairs <<thread, index>>; threads are numbered from 1 *)
(* here and from 0 in the code.                                            *)
(***************************************************************************)
EXTENDS VSet, TLC

LOCAL INSTANCE SequencesExt

EmptyView == <<>>

\* operator[] on a constant view, and its growing form.
At(v, t)    == IF t <= Len(v) THEN v[t] ELSE 0
Grown(v, t) == v \o [i \in 1 .. (IF t > Len(v) THEN t - Len(v) ELSE 0) |-> 0]
Put(v, t, n) == [Grown(v, t) EXCEPT ![t] = n]

ViewContains(v, e) == e[2] <= At(v, e[1])

updateIdx(v, e) == IF At(v, e[1]) < e[2] THEN Put(v, e[1], e[2]) ELSE v

\* Faulty variant: threads that v does not know are not updated.
ViewUpdateWithin(v, w) ==
  [t \in DOMAIN v |-> IF v[t] < At(w, t) THEN At(w, t) ELSE v[t]]

ViewUpdate(v, w) ==
  [t \in 1 .. (IF Len(v) < Len(w) THEN Len(w) ELSE Len(v)) |->
     IF At(v, t) < At(w, t) THEN At(w, t) ELSE At(v, t)]

ViewLeq(v, w) == \A t \in DOMAIN v : v[t] <= At(w, t)

-----------------------------------------------------------------------------
EmptyDepView == [view |-> <<>>, holes |-> <<>>]

HolesOf(d, t) == IF t <= Len(d.holes) THEN d.holes[t] ELSE <<>>
GrownHoles(d, t) ==
  d.holes \o [i \in 1 .. (IF t > Len(d.holes) THEN t - Len(d.holes) ELSE 0) |-> <<>>]
PutHoles(d, t, h) == [d EXCEPT !.holes = [GrownHoles(d, t) EXCEPT ![t] = h]]

\* Writing through operator[] makes room for the thread in both vectors.
PutIdx(d, t, n) == [view |-> Put(d.view, t, n), holes |-> GrownHoles(d, t)]

DepContains(d, e) ==
  /\ e[1] <= Len(d.view) /\ e[2] <= At(d.view, e[1])
  /\ e[1] <= Len(d.holes) /\ ~count(HolesOf(d, e[1]), e[2])

\* addHole() demands that the index has been seen.
addHole(d, e) ==
  IF e[2] > At(d.view, e[1]) THEN Assert(FALSE, "addHole: BUG_ON")
  ELSE PutHoles(d, e[1], insert(HolesOf(d, e[1]), e[2]))
addHolesInRange(d, e, end) ==
  FoldLeft(LAMBDA c, i : addHole(c, <<e[1], i>>), d,
           [i \in 1 .. (IF end > e[2] THEN end - e[2] ELSE 0) |-> e[2] + i - 1])

removeHole(d, e)      == PutHoles(d, e[1], erase(HolesOf(d, e[1]), e[2]))
removeAllHoles(d, t)  == PutHoles(d, t, <<>>)
removeHolesInRange(d, e, end) ==
  FoldLeft(LAMBDA c, i : removeHole(c, <<e[1], i>>), d,
           [i \in 1 .. (IF end > e[2] THEN end - e[2] ELSE 0) |-> e[2] + i - 1])

\* The part of sorted h that is above n.
HolesAbove(h, n) == SubSeq(h, lower_bound(h, n + 1), Len(h))

\* Faulty variant: a hole stays only if both clocks have it.
DepUpdateThreadCommon(d, w, t) ==
  LET n == At(d.view, t)
      m == At(w.view, t)
      both == intersectWith(HolesOf(d, t), HolesOf(w, t))
  IN PutHoles(PutIdx(d, t, IF n < m THEN m ELSE n), t, both)

\* One round of update(): a hole stays if both clocks have it, or if it is
\* above the maximum of the clock that has it not.
DepUpdateThread(d, w, t) ==
  LET n == At(d.view, t)
      m == At(w.view, t)
      both == intersectWith(HolesOf(d, t), HolesOf(w, t))
  IN IF n < m
     THEN PutHoles(PutIdx(d, t, m), t, insertRange(both, HolesAbove(HolesOf(w, t), n)))
     ELSE PutHoles(PutIdx(d, t, n), t, insertRange(both, HolesAbove(HolesOf(d, t), m)))

DepUpdate(d, w) ==
  FoldLeft(LAMBDA c, t : DepUpdateThread(c, w, t), d, [t \in 1 .. Len(w.view) |-> t])
=============================================================================
