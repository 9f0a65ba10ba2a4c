-------------------------------- MODULE VSet --------------------------------
(***************************************************************************)
(* The sets that GenMC keeps as sorted vectors (VSet.hpp, VSet.tcc).  A    *)
(* VSet is a strictly increasing sequence.  The bulk operations walk over  *)
(* two sets in parallel and move elements within the vector they change,   *)
(* which is modelled position by position.                                 *)
(***************************************************************************)
EXTENDS Integers, Sequences

LOCAL INSTANCE SequencesExt

\* The first position of sorted v that does not hold less than x.
lower_bound(v, x) == 1 + Len(SelectSeq(v, LAMBDA y : y < x))

count(v, x) == LET i == lower_bound(v, x) IN i <= Len(v) /\ v[i] = x

insert(v, x) == IF count(v, x) THEN v ELSE InsertAt(v, lower_bound(v, x), x)

\* insert(begin, end), and the constructors that take elements one by one:
\* an element above the maximum is put at the end without a search.
insertRange(v, s) ==
  FoldLeft(LAMBDA w, x : IF w # <<>> /\ Last(w) < x THEN Append(w, x)
                                                    ELSE insert(w, x), v, s)

\* How many elements of s, from b on, are not among those of v from a on.
RECURSIVE Missing(_, _, _, _)
Missing(v, s, a, b) ==
  CASE a > Len(v) \/ b > Len(s) -> Len(s) + 1 - b
    [] v[a] < s[b] -> Missing(v, s, a + 1, b)
    [] v[a] = s[b] -> Missing(v, s, a + 1, b + 1)
    [] OTHER       -> 1 + Missing(v, s, a, b + 1)

\* Faulty variant: what is new is put behind the old elements.
FillBehind(v, s, i, a, b) == SubSeq(v, 1, a) \o SubSeq(s, b + a + 1 - i, b)

\* Positions i and below of v are filled, from the end, with the larger of
\* the elements a and b that are next.
RECURSIVE Fill(_, _, _, _, _)
Fill(v, s, i, a, b) ==
  CASE i = 0 -> v
    [] i > 0 /\ (a = 0 \/ (b > 0 /\ v[a] < s[b])) ->
         Fill([v EXCEPT ![i] = s[b]], s, i - 1, a, b - 1)
    [] i > 0 /\ a > 0 /\ b > 0 /\ v[a] = s[b] ->
         Fill([v EXCEPT ![i] = v[a]], s, i - 1, a - 1, b - 1)
    [] OTHER -> Fill([v EXCEPT ![i] = v[a]], s, i - 1, a - 1, b)

\* insert(const VSet &): the elements of s are merged into v in place.
insertAll(v, s) ==
  LET n == Missing(v, s, 1, 1)
  IN CASE v = <<>> -> s
       [] v # <<>> /\ s = <<>> -> v
       [] v # <<>> /\ Len(s) = 1 -> insert(v, s[1])
       [] OTHER -> IF n = 0 THEN v
                   ELSE Fill(v \o [i \in 1 .. n |-> v[1]], s, Len(v) + n, Len(v), Len(s))

erase(v, x) == IF count(v, x) THEN RemoveAt(v, lower_bound(v, x)) ELSE v

\* The loop of erase(const VSet &): a and b walk over the sets, m is the
\* next position of v to be filled.
RECURSIVE Squeeze(_, _, _, _, _)
Squeeze(v, s, a, b, m) ==
  CASE a > Len(v) \/ b > Len(s) -> [v |-> v, a |-> a, m |-> m]
    [] v[a] = s[b] -> Squeeze(v, s, a + 1, b + 1, m)
    [] v[a] < s[b] -> Squeeze([v EXCEPT ![m] = v[a]], s, a + 1, b, m + 1)
    [] OTHER       -> Squeeze(v, s, a, b + 1, m)

\* What was not looked at is moved down behind what stays.
eraseAll(v, s) ==
  LET q == Squeeze(v, s, 1, 1, 1)
  IN IF v = <<>> \/ s = <<>> \/ q.m = q.a THEN v
     ELSE SubSeq(q.v, 1, q.m - 1) \o SubSeq(q.v, q.a, Len(v))

RECURSIVE SubsetFrom(_, _, _, _)
SubsetFrom(v, s, a, b) ==
  CASE a > Len(v) -> TRUE
    [] a <= Len(v) /\ Len(v) - a > Len(s) - b -> FALSE
    [] OTHER -> /\ v[a] >= s[b]
                /\ SubsetFrom(v, s, IF v[a] = s[b] THEN a + 1 ELSE a, b + 1)

subsetOf(v, s) == Len(v) <= Len(s) /\ SubsetFrom(v, s, 1, 1)

\* The elements that a parallel walk finds in both sets, in that order.
RECURSIVE Common(_, _, _, _)
Common(v, s, a, b) ==
  CASE a > Len(v) \/ b > Len(s) -> <<>>
    [] v[a] = s[b] -> <<v[a]>> \o Common(v, s, a + 1, b + 1)
    [] v[a] < s[b] -> Common(v, s, a + 1, b)
    [] OTHER       -> Common(v, s, a, b + 1)

intersects(v, s) == Common(v, s, 1, 1) # <<>>

intersectWith(v, s) == insertRange(<<>>, Common(v, s, 1, 1))
=============================================================================
