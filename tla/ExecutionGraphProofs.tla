------------------------ MODULE ExecutionGraphProofs ------------------------
(***************************************************************************)
(* What the operations on execution graphs preserve, for graphs of any     *)
(* size.  The invariant of graphs is WellFormed, strengthened by what the  *)
(* porf views say: the view of an event is closed under porf and within    *)
(* the graph, and the graph as it was just before a read that may still be *)
(* revisited is closed as well.                                            *)
(***************************************************************************)
EXTENDS MOCalculator, InductionLemmas, FiniteSetTheorems

\* The shape of a graph.
IsGraph(g) ==
  /\ DOMAIN g = {"ev", "co", "ordered", "stamp"}
  /\ DOMAIN g.ev = Threads /\ \A t \in Threads : IsSeq(g.ev[t])
  /\ DOMAIN g.co = Locs /\ \A l \in Locs : IsSeq(g.co[l])
  /\ g.stamp \in Nat

\* The shape of a label.
IsLabel(l) ==
  /\ {"op", "stamp", "hb", "porf"} \subseteq DOMAIN l
  /\ l.stamp \in Nat /\ l.porf \in [Threads -> Nat]
  /\ l.op = "R" => {"rf", "rev", "loc"} \subseteq DOMAIN l
  /\ l.op = "W" => "loc" \in DOMAIN l
LabelsOk(g) == \A e \in Events(g) : IsLabel(Lab(g, e))

StampsOk(g) ==
  \A d, e \in Events(g) :
    /\ Lab(g, e).stamp < g.stamp
    /\ Lab(g, d).stamp = Lab(g, e).stamp => d = e
    /\ d[1] = e[1] /\ d[2] < e[2] => Lab(g, d).stamp < Lab(g, e).stamp

\* Coherence lists the stores to each location once, except for the stores in
\* P, which are still to be placed.
CoOk(g, P) ==
  \A l \in Locs :
    /\ {g.co[l][i] : i \in 1 .. Len(g.co[l])} = {w \in Writes(g) \ P : Lab(g, w).loc = l}
    /\ \A i, j \in 1 .. Len(g.co[l]) : g.co[l][i] = g.co[l][j] => i = j

\* The porf view of e: it is within the graph, and contains the views of the
\* events in it.  E are the events that this is claimed of.
PorfOk(g, E) ==
  \A e \in E :
    /\ Lab(g, e).porf[e[1]] = e[2]
    /\ \A t \in Threads : Lab(g, e).porf[t] <= Len(g.ev[t])
    /\ \A d \in E : d[2] <= Lab(g, e).porf[d[1]] =>
         \A t \in Threads : Lab(g, d).porf[t] <= Lab(g, e).porf[t]

\* A read reads a store in its view.
RfOk(g, E) ==
  \A r \in E : Lab(g, r).op = "R" /\ Lab(g, r).rf # Init0 =>
    LET w == Lab(g, r).rf
    IN /\ w \in Writes(g) /\ Lab(g, w).loc = Lab(g, r).loc
       /\ w[2] <= Lab(g, r).porf[w[1]]

\* The events that are older than c are closed under porf.
CutPoint(g, E, c) ==
  \A d, e \in E :
    /\ Lab(g, e).stamp < Lab(g, c).stamp
    /\ d[2] <= Lab(g, e).porf[d[1]]
    => Lab(g, d).stamp < Lab(g, c).stamp

Revisitable(g) == {r \in Reads(g) : Lab(g, r).rev}

\* The invariant of graphs.
GraphOk(g, P) ==
  /\ IsGraph(g) /\ LabelsOk(g) /\ StampsOk(g) /\ CoOk(g, P)
  /\ PorfOk(g, Events(g)) /\ RfOk(g, Events(g))
  /\ \A r \in Revisitable(g) : CutPoint(g, Events(g), r)

\* The same for a graph in which it remains to say what r reads.  r is the
\* last event of its thread, no other event has it in its view, and no read
\* after it may be revisited.
GraphOkBut(g, r) ==
  LET E == Events(g) \ {r}
  IN /\ IsGraph(g) /\ LabelsOk(g) /\ StampsOk(g) /\ CoOk(g, {})
     /\ r \in Reads(g) /\ r[2] = Len(g.ev[r[1]])
     /\ PorfOk(g, E) /\ RfOk(g, E)
     /\ \A e \in E : Lab(g, e).porf[r[1]] < r[2]
     /\ \A c \in Revisitable(g) : Lab(g, c).stamp <= Lab(g, r).stamp
     /\ \A c \in Revisitable(g) : CutPoint(g, E, c)

-----------------------------------------------------------------------------
(* Events and maxima *)

\* An event of a graph is a thread and a position in it.
LEMMA InEvents ==
  ASSUME NEW g, NEW e
  PROVE  /\ e \in Events(g) <=> \E t \in Threads : \E i \in 1 .. Len(g.ev[t]) : e = <<t, i>>
         /\ e \in Events(g) => /\ e = <<e[1], e[2]>> /\ e[1] \in Threads
                               /\ e[2] \in 1 .. Len(g.ev[e[1]]) /\ e # Init0
<1>1. e \in Events(g) <=> \E t \in Threads : \E i \in 1 .. Len(g.ev[t]) : e = <<t, i>>
  BY DEF Events
<1>2. \A t \in Threads : t # 0
  BY NumThreadsAssumption DEF Threads
<1> QED BY <1>1, <1>2 DEF Init0

\* The label of the event at a position.
LEMMA PairInEvents ==
  ASSUME NEW g, NEW t \in Threads, NEW i
  PROVE  /\ <<t, i>> \in Events(g) <=> i \in 1 .. Len(g.ev[t])
         /\ Lab(g, <<t, i>>) = g.ev[t][i]
BY InEvents DEF Lab

\* The positions of a sequence that grows by one.
LEMMA OneMore ==
  ASSUME NEW n \in Nat
  PROVE  1 .. n + 1 = 1 .. n \cup {n + 1}
OBVIOUS

\* What appending does to each position.
LEMMA AppendSeq ==
  ASSUME NEW s, IsSeq(s), NEW x
  PROVE  LET b == Append(s, x)
         IN /\ IsSeq(b) /\ Len(b) = Len(s) + 1 /\ b[Len(s) + 1] = x
            /\ \A i \in 1 .. Len(s) : b[i] = s[i]
BY AppendFacts

\* A set of natural numbers with an upper bound has a greatest element.
LEMMA MaxOfBounded ==
  ASSUME NEW S \in SUBSET Nat, S # {}, NEW n \in Nat, \A x \in S : x <= n
  PROVE  MaxOf(S) \in S /\ \A x \in S : x <= MaxOf(S)
<1> DEFINE D == {m \in Nat : \A x \in S : x <= m}
<1>1. PICK m \in D : \A k \in D : m <= k
  <2>1. D \in SUBSET Nat /\ n \in D
    OBVIOUS
  <2> HIDE DEF D
  <2> QED BY <2>1, LeastNat
<1>2. m \in S
  <2> SUFFICES ASSUME m \notin S PROVE FALSE
    OBVIOUS
  <2>1. \A x \in S : x <= m - 1
    BY <1>1
  <2>2. m - 1 \in Nat
    <3>1. PICK x \in S : TRUE
      OBVIOUS
    <3> QED BY <2>1, <1>1, <3>1
  <2> QED BY <2>1, <2>2, <1>1
<1>3. \E x \in S : \A y \in S : y <= x
  BY <1>1, <1>2
<1> QED BY <1>3 DEF MaxOf

\* So does a finite set.
LEMMA MaxOfFinite ==
  ASSUME NEW S \in SUBSET Nat, S # {}, IsFiniteSet(S)
  PROVE  MaxOf(S) \in S /\ \A x \in S : x <= MaxOf(S)
<1>0. \A n \in Nat : n + 1 \in Nat
  OBVIOUS
<1> DEFINE B == {n \in Nat : \A T \in SUBSET Nat :
                   IsFiniteSet(T) /\ Cardinality(T) = n => \E b \in Nat : \A x \in T : x <= b}
<1>1. 0 \in B
  BY FS_EmptySet
<1>2. \A n \in B : n + 1 \in B
  <2> SUFFICES ASSUME NEW n \in Nat, n \in B, NEW T \in SUBSET Nat,
                      IsFiniteSet(T), Cardinality(T) = n + 1
               PROVE  \E b \in Nat : \A x \in T : x <= b
    BY <1>0, Zenon
  <2>1. PICK y \in T : TRUE
    <3>1. Cardinality(T) # 0
      OBVIOUS
    <3> QED BY <3>1, FS_EmptySet
  <2>2. IsFiniteSet(T \ {y}) /\ Cardinality(T \ {y}) = n
    <3>1. IsFiniteSet(T \ {y}) /\ Cardinality(T \ {y}) = Cardinality(T) - 1
      BY FS_RemoveElement, <2>1, Zenon
    <3> QED BY <3>1
  <2>3. PICK b \in Nat : \A x \in T \ {y} : x <= b
    BY <2>2
  <2>4. CASE y <= b
    BY <2>3, <2>4
  <2>5. CASE ~(y <= b)
    <3>1. \A x \in T : x <= y
      BY <2>3, <2>5, <2>1
    <3> QED BY <3>1, <2>1
  <2> QED BY <2>4, <2>5
<1>3. B = Nat
  <2> HIDE DEF B
  <2>1. B \in SUBSET Nat
    BY DEF B
  <2> QED BY <1>1, <1>2, <2>1, SetInduction
<1>4. Cardinality(S) \in Nat
  BY FS_CardinalityType
<1>5. PICK b \in Nat : \A x \in S : x <= b
  BY <1>3, <1>4
<1> QED BY <1>5, MaxOfBounded

\* A graph has finitely many events.
LEMMA FiniteEvents ==
  ASSUME NEW g, IsGraph(g)
  PROVE  IsFiniteSet(Events(g))
<1> DEFINE Row(t) == {t} \X (1 .. Len(g.ev[t]))
           Rows == {Row(t) : t \in Threads}
<1>1. IsFiniteSet(Threads)
  BY FS_Interval, NumThreadsAssumption DEF Threads
<1>2. IsFiniteSet(Rows)
  <2> DEFINE f == [t \in Threads |-> Row(t)]
  <2>1. f \in Surjection(Threads, Rows)
    BY DEF Surjection
  <2> QED BY <1>1, <2>1, FS_Surjection
<1>3. ASSUME NEW T \in Rows PROVE IsFiniteSet(T)
  <2>1. PICK t \in Threads : T = Row(t)
    OBVIOUS
  <2>2. IsFiniteSet({t}) /\ IsFiniteSet(1 .. Len(g.ev[t]))
    <3>1. Len(g.ev[t]) \in Int
      BY DEF IsGraph, IsSeq
    <3>2. IsFiniteSet(1 .. Len(g.ev[t]))
      BY <3>1, FS_Interval
    <3> QED BY <3>2, FS_Singleton, Zenon
  <2> QED BY <2>1, <2>2, FS_Product
<1>4. IsFiniteSet(UNION Rows)
  <2> HIDE DEF Rows
  <2> QED BY <1>2, <1>3, FS_UNION
<1>5. Events(g) \subseteq UNION Rows
  BY DEF Events
<1> QED BY <1>4, <1>5, FS_Subset

-----------------------------------------------------------------------------
(* A label is added *)

\* addLabel adds one event and changes no other.
LEMMA AddLabelShape ==
  ASSUME NEW g, IsGraph(g), NEW t \in Threads, NEW lab, "stamp" \in DOMAIN lab
  PROVE  LET h == addLabel(g, t, lab)
             n == NextEvent(g, t)
         IN /\ IsGraph(h) /\ h.co = g.co /\ h.stamp = g.stamp + 1
            /\ Events(h) = Events(g) \cup {n} /\ n \notin Events(g)
            /\ \A e \in Events(g) : Lab(h, e) = Lab(g, e)
            /\ Lab(h, n) = [lab EXCEPT !.stamp = g.stamp]
            /\ \A u \in Threads : Len(g.ev[u]) \in Nat
            /\ Len(h.ev[t]) = Len(g.ev[t]) + 1
            /\ \A u \in Threads \ {t} : Len(h.ev[u]) = Len(g.ev[u])
<1> DEFINE h == addLabel(g, t, lab)
           n == NextEvent(g, t)
           new == [lab EXCEPT !.stamp = g.stamp]
<1>1. /\ DOMAIN h = DOMAIN g /\ DOMAIN h.ev = DOMAIN g.ev
      /\ h.ev[t] = Append(g.ev[t], new) /\ \A u \in Threads \ {t} : h.ev[u] = g.ev[u]
      /\ h.co = g.co /\ h.stamp = g.stamp + 1
  BY DEF addLabel, IsGraph
<1> HIDE DEF h, new
<1>2. \A u \in Threads : IsSeq(g.ev[u])
  BY DEF IsGraph
<1>3. IsSeq(h.ev[t]) /\ Len(h.ev[t]) = Len(g.ev[t]) + 1 /\ h.ev[t][Len(g.ev[t]) + 1] = new
      /\ \A i \in 1 .. Len(g.ev[t]) : h.ev[t][i] = g.ev[t][i]
  BY <1>1, <1>2 DEF IsSeq
<1>4. \A u \in Threads : IsSeq(h.ev[u])
  BY <1>1, <1>2, <1>3
<1>5. IsGraph(h)
  BY <1>1, <1>4 DEF IsGraph
<1>6. /\ \A u \in Threads : Len(g.ev[u]) \in Nat
      /\ Len(h.ev[t]) = Len(g.ev[t]) + 1
      /\ \A u \in Threads \ {t} : Len(h.ev[u]) = Len(g.ev[u])
  BY <1>1, <1>2, <1>3 DEF IsSeq
<1>7. Events(h) = Events(g) \cup {n} /\ n \notin Events(g)
  <2>1. \A u \in Threads : \A i : <<u, i>> \in Events(h) <=> <<u, i>> \in Events(g) \cup {n}
    <3> TAKE u \in Threads
    <3> TAKE i
    <3>1. CASE u = t
      <4>1. i \in 1 .. Len(h.ev[t]) <=> i \in 1 .. Len(g.ev[t]) \/ i = Len(g.ev[t]) + 1
        <5>1. Len(g.ev[t]) \in Nat /\ Len(h.ev[t]) = Len(g.ev[t]) + 1
          BY <1>2, <1>3 DEF IsSeq
        <5>2. 1 .. Len(h.ev[t]) = 1 .. Len(g.ev[t]) \cup {Len(g.ev[t]) + 1}
          BY <5>1, OneMore, Zenon
        <5> QED BY <5>2, Zenon
      <4> QED BY <3>1, <4>1, PairInEvents DEF NextEvent
    <3>2. CASE u # t
      <4>1. Len(h.ev[u]) = Len(g.ev[u])
        BY <3>2, <1>1
      <4> QED BY <3>2, <4>1, PairInEvents DEF NextEvent
    <3> QED BY <3>1, <3>2
  <2>2. n \notin Events(g)
    BY <1>6, PairInEvents DEF NextEvent
  <2>3. n = <<n[1], n[2]>> /\ n[1] \in Threads
    BY DEF NextEvent
  <2> HIDE DEF n
  <2> QED BY <2>1, <2>2, <2>3, InEvents
<1>8. \A e \in Events(g) : Lab(h, e) = Lab(g, e)
  BY <1>1, <1>3, InEvents DEF Lab
<1>9. Lab(h, n) = new
  BY <1>3 DEF Lab, NextEvent
<1> QED BY <1>1, <1>5, <1>6, <1>7, <1>8, <1>9 DEF h, new

\* The view of an event whose predecessor is in E, apart from what it reads.
LEMMA BasicPorf ==
  ASSUME NEW g, IsGraph(g), LabelsOk(g), NEW E \in SUBSET Events(g), PorfOk(g, E),
         NEW t \in Threads, NEW i \in Nat \ {0}, i = 1 \/ <<t, i - 1>> \in E
  PROVE  LET p == calcBasicPorfView(g, <<t, i>>)
         IN /\ p \in [Threads -> Nat] /\ p[t] = i
            /\ \A u \in Threads \ {t} : p[u] <= Len(g.ev[u])
            /\ \A d \in E : d[2] <= p[d[1]] /\ d # <<t, i>> =>
                 \A u \in Threads : Lab(g, d).porf[u] <= p[u]
<1> DEFINE p == calcBasicPorfView(g, <<t, i>>)
<1>1. \A u \in Threads : Len(g.ev[u]) \in Nat
  BY DEF IsGraph, IsSeq
<1>2. \A d \in E : /\ d[1] \in Threads /\ d[2] \in Nat \ {0} /\ d = <<d[1], d[2]>>
                   /\ Lab(g, d).porf \in [Threads -> Nat]
  BY <1>1, InEvents DEF LabelsOk, IsLabel
<1>3. CASE i = 1
  <2>1. p = [ZeroView EXCEPT ![t] = @ + 1]
    BY <1>3 DEF calcBasicPorfView, PrevPorf
  <2>2. /\ p \in [Threads -> Nat] /\ p[t] = 1
        /\ \A u \in Threads \ {t} : p[u] = 0
    BY <2>1 DEF ZeroView
  <2> HIDE DEF p
  <2>3. \A d \in E : d[2] <= p[d[1]] => d = <<t, 1>>
    BY <2>2, <1>2
  <2> QED BY <2>2, <2>3, <1>1, <1>3 DEF p
<1>4. CASE i # 1
  <2> DEFINE q == <<t, i - 1>>
  <2>1. q \in E /\ Prev(<<t, i>>) = q
    BY <1>4 DEF Prev
  <2>2. p = [Lab(g, q).porf EXCEPT ![t] = @ + 1]
    BY <1>4, <2>1 DEF calcBasicPorfView, PrevPorf
  <2>3. /\ Lab(g, q).porf \in [Threads -> Nat] /\ Lab(g, q).porf[t] = i - 1
        /\ \A u \in Threads : Lab(g, q).porf[u] <= Len(g.ev[u])
        /\ \A d \in E : d[2] <= Lab(g, q).porf[d[1]] =>
             \A u \in Threads : Lab(g, d).porf[u] <= Lab(g, q).porf[u]
    BY <2>1, <1>2 DEF PorfOk
  <2> HIDE DEF p, q
  <2>4. p \in [Threads -> Nat] /\ p[t] = i /\ \A u \in Threads \ {t} : p[u] = Lab(g, q).porf[u]
    BY <2>2, <2>3
  <2>5. ASSUME NEW d \in E, d[2] <= p[d[1]], d # <<t, i>>, NEW u \in Threads
        PROVE  Lab(g, d).porf[u] <= p[u]
    <3>1. d[2] <= Lab(g, q).porf[d[1]]
      BY <2>3, <2>4, <2>5, <1>2
    <3>2. Lab(g, d).porf[u] <= Lab(g, q).porf[u]
      BY <3>1, <2>3
    <3>3. Lab(g, q).porf[u] <= p[u]
      BY <2>3, <2>4
    <3>4. Lab(g, d).porf[u] \in Nat /\ Lab(g, q).porf[u] \in Nat /\ p[u] \in Nat
      BY <1>2, <2>3, <2>4
    <3> QED BY <3>2, <3>3, <3>4
  <2> QED BY <2>3, <2>4, <2>5 DEF p
<1> QED BY <1>3, <1>4

\* A label whose view is that of its predecessor, one event later.
LEMMA AddLabelOk ==
  ASSUME NEW g, GraphOk(g, {}), NEW t \in Threads, NEW lab, IsLabel(lab),
         lab.porf = calcBasicPorfView(g, NextEvent(g, t)),
         lab.op = "R" => lab.rf = Init0
  PROVE  GraphOk(addLabel(g, t, lab), IF lab.op = "W" THEN {NextEvent(g, t)} ELSE {})
<1> DEFINE h == addLabel(g, t, lab)
           n == NextEvent(g, t)
           m == Len(g.ev[t]) + 1
           new == [lab EXCEPT !.stamp = g.stamp]
<1>1. /\ IsGraph(h) /\ h.co = g.co /\ h.stamp = g.stamp + 1
      /\ Events(h) = Events(g) \cup {n} /\ n \notin Events(g)
      /\ \A e \in Events(g) : Lab(h, e) = Lab(g, e)
      /\ Lab(h, n) = new
      /\ \A u \in Threads : Len(g.ev[u]) \in Nat
      /\ Len(h.ev[t]) = Len(g.ev[t]) + 1
      /\ \A u \in Threads \ {t} : Len(h.ev[u]) = Len(g.ev[u])
  BY AddLabelShape DEF GraphOk, IsLabel
<1>2. /\ new.op = lab.op /\ new.stamp = g.stamp /\ new.porf = lab.porf
      /\ DOMAIN new = DOMAIN lab
      /\ new.op = "R" => new.rf = Init0
  BY DEF IsLabel
<1>3. n = <<t, m>> /\ n[1] = t /\ n[2] = m /\ m \in Nat \ {0} /\ g.stamp \in Nat
  BY <1>1 DEF NextEvent, GraphOk, IsGraph
<1>4. /\ IsGraph(g) /\ LabelsOk(g) /\ StampsOk(g) /\ CoOk(g, {})
      /\ PorfOk(g, Events(g)) /\ RfOk(g, Events(g))
      /\ \A r \in Revisitable(g) : CutPoint(g, Events(g), r)
  BY DEF GraphOk
<1> HIDE DEF h, n, m, new
<1>5. \A e \in Events(g) :
        /\ e[1] \in Threads /\ e[2] \in Nat \ {0} /\ e = <<e[1], e[2]>> /\ e[2] <= Len(g.ev[e[1]])
        /\ Lab(g, e).porf \in [Threads -> Nat] /\ Lab(g, e).stamp \in Nat
        /\ Lab(g, e).stamp < g.stamp
  BY <1>1, <1>4, InEvents DEF LabelsOk, IsLabel, StampsOk
<1>6. LabelsOk(h)
  <2>1. IsLabel(new)
    BY <1>2, <1>3 DEF IsLabel
  <2> QED BY <2>1, <1>1, <1>4 DEF LabelsOk
<1>7. StampsOk(h)
  <2> SUFFICES ASSUME NEW d \in Events(h), NEW e \in Events(h)
               PROVE  /\ Lab(h, e).stamp < h.stamp
                      /\ Lab(h, d).stamp = Lab(h, e).stamp => d = e
                      /\ d[1] = e[1] /\ d[2] < e[2] => Lab(h, d).stamp < Lab(h, e).stamp
    BY DEF StampsOk
  <2>1. CASE d = n /\ e = n
    BY <2>1, <1>1, <1>2, <1>3
  <2>2. CASE d = n /\ e \in Events(g)
    BY <2>2, <1>1, <1>2, <1>3, <1>5 DEF m
  <2>3. CASE d \in Events(g) /\ e = n
    BY <2>3, <1>1, <1>2, <1>3, <1>5
  <2>4. CASE d \in Events(g) /\ e \in Events(g)
    BY <2>4, <1>1, <1>3, <1>4, <1>5 DEF StampsOk
  <2> QED BY <2>1, <2>2, <2>3, <2>4, <1>1
<1>8. CoOk(h, IF lab.op = "W" THEN {n} ELSE {})
  <2>1. \A w : w \in Writes(h) \ (IF lab.op = "W" THEN {n} ELSE {}) <=> w \in Writes(g)
    BY <1>1, <1>2 DEF Writes
  <2>2. \A w \in Writes(g) : Lab(h, w) = Lab(g, w)
    BY <1>1 DEF Writes
  <2> QED BY <2>1, <2>2, <1>1, <1>4 DEF CoOk
<1>9. PorfOk(h, Events(h))
  <2>1. /\ lab.porf \in [Threads -> Nat] /\ lab.porf[t] = m
        /\ \A u \in Threads \ {t} : lab.porf[u] <= Len(g.ev[u])
        /\ \A d \in Events(g) : d[2] <= lab.porf[d[1]] /\ d # n =>
             \A u \in Threads : Lab(g, d).porf[u] <= lab.porf[u]
    <3>1. m = 1 \/ <<t, m - 1>> \in Events(g)
      BY <1>1, PairInEvents DEF m
    <3>2. calcBasicPorfView(g, <<t, m>>) = lab.porf
      BY <1>3 DEF n
    <3>3. Events(g) \in SUBSET Events(g)
      OBVIOUS
    <3>4. LET p == calcBasicPorfView(g, <<t, m>>)
          IN /\ p \in [Threads -> Nat] /\ p[t] = m
             /\ \A u \in Threads \ {t} : p[u] <= Len(g.ev[u])
             /\ \A d \in Events(g) : d[2] <= p[d[1]] /\ d # <<t, m>> =>
                  \A u \in Threads : Lab(g, d).porf[u] <= p[u]
      BY <3>1, <3>3, <1>3, <1>4, BasicPorf
    <3> QED BY <3>2, <3>4, <1>3
  <2> SUFFICES ASSUME NEW e \in Events(h)
               PROVE  /\ Lab(h, e).porf[e[1]] = e[2]
                      /\ \A u \in Threads : Lab(h, e).porf[u] <= Len(h.ev[u])
                      /\ \A d \in Events(h) : d[2] <= Lab(h, e).porf[d[1]] =>
                           \A u \in Threads : Lab(h, d).porf[u] <= Lab(h, e).porf[u]
    BY DEF PorfOk
  <2>2. CASE e = n
    <3>1. Lab(h, e).porf = lab.porf
      BY <2>2, <1>1, <1>2
    <3>2. \A u \in Threads : lab.porf[u] <= Len(h.ev[u])
      BY <1>1, <1>3, <2>1 DEF m
    <3>3. \A u \in Threads : Lab(h, n).porf[u] <= lab.porf[u]
      BY <1>1, <1>2, <2>1
    <3> QED BY <2>1, <2>2, <3>1, <3>2, <3>3, <1>1, <1>3
  <2>3. CASE e \in Events(g)
    <3>1. /\ Lab(g, e).porf[e[1]] = e[2]
          /\ \A u \in Threads : Lab(g, e).porf[u] <= Len(g.ev[u])
          /\ \A d \in Events(g) : d[2] <= Lab(g, e).porf[d[1]] =>
               \A u \in Threads : Lab(g, d).porf[u] <= Lab(g, e).porf[u]
      BY <2>3, <1>4 DEF PorfOk
    <3>2. \A u \in Threads : Lab(g, e).porf[u] <= Len(h.ev[u])
      <4> TAKE u \in Threads
      <4>1. Lab(g, e).porf[u] \in Nat /\ Lab(g, e).porf[u] <= Len(g.ev[u])
        BY <3>1, <1>5, <2>3
      <4>2. Len(g.ev[u]) \in Nat /\ Len(h.ev[u]) \in Nat /\ Len(g.ev[u]) <= Len(h.ev[u])
        BY <1>1
      <4> QED BY <4>1, <4>2
    <3>3. ~(n[2] <= Lab(g, e).porf[n[1]])
      BY <3>1, <1>1, <1>3, <1>5, <2>3 DEF m
    <3> QED BY <2>3, <3>1, <3>2, <3>3, <1>1
  <2> QED BY <2>2, <2>3, <1>1
<1>10. RfOk(h, Events(h))
  <2>1. \A w \in Writes(g) : w \in Writes(h) /\ Lab(h, w) = Lab(g, w)
    BY <1>1 DEF Writes
  <2> SUFFICES ASSUME NEW r \in Events(h), Lab(h, r).op = "R", Lab(h, r).rf # Init0
               PROVE  LET w == Lab(h, r).rf
                      IN /\ w \in Writes(h) /\ Lab(h, w).loc = Lab(h, r).loc
                         /\ w[2] <= Lab(h, r).porf[w[1]]
    BY DEF RfOk
  <2>2. r \in Events(g) /\ Lab(h, r) = Lab(g, r)
    BY <1>1, <1>2
  <2> QED BY <2>1, <2>2, <1>4 DEF RfOk
<1>11. \A r \in Revisitable(h) : CutPoint(h, Events(h), r)
  <2> SUFFICES ASSUME NEW r \in Revisitable(h), NEW d \in Events(h), NEW e \in Events(h),
                      Lab(h, e).stamp < Lab(h, r).stamp, d[2] <= Lab(h, e).porf[d[1]]
               PROVE  Lab(h, d).stamp < Lab(h, r).stamp
    BY DEF CutPoint
  <2>1. r \in Events(h) /\ (r # n => r \in Revisitable(g) /\ Lab(h, r) = Lab(g, r))
    BY <1>1 DEF Revisitable, Reads
  <2>2. e \in Events(g)
    <3>1. Lab(h, n).stamp = g.stamp
      BY <1>1, <1>2
    <3>2. CASE r = n
      BY <3>1, <3>2, <1>1, <1>3
    <3>3. CASE r # n
      <4>1. r \in Events(g) /\ Lab(h, r).stamp \in Nat /\ Lab(h, r).stamp < g.stamp
        BY <3>3, <2>1, <1>1, <1>5
      <4> QED BY <3>1, <4>1, <1>1, <1>3
    <3> QED BY <3>2, <3>3
  <2>3. d \in Events(g)
    <3>1. Lab(g, e).porf[t] <= Len(g.ev[t])
      BY <2>2, <1>4 DEF PorfOk
    <3>2. ~(n[2] <= Lab(g, e).porf[n[1]])
      BY <3>1, <2>2, <1>1, <1>3, <1>5 DEF m
    <3> QED BY <3>2, <2>2, <1>1
  <2>4. CASE r = n
    BY <2>3, <2>4, <1>1, <1>2, <1>5
  <2>5. CASE r # n
    BY <2>1, <2>2, <2>3, <2>5, <1>1, <1>4 DEF CutPoint
  <2> QED BY <2>4, <2>5
<1> QED BY <1>1, <1>6, <1>7, <1>8, <1>9, <1>10, <1>11 DEF GraphOk, h, n

-----------------------------------------------------------------------------
(* A read is given a store to read *)

\* Replacing a label changes no other.
LEMMA SetLabelShape ==
  ASSUME NEW g, IsGraph(g), NEW r \in Events(g), NEW lab
  PROVE  LET h == [g EXCEPT !.ev[r[1]][r[2]] = lab]
         IN /\ IsGraph(h) /\ h.co = g.co /\ h.stamp = g.stamp
            /\ Events(h) = Events(g)
            /\ Lab(h, r) = lab
            /\ \A e \in Events(g) \ {r} : Lab(h, e) = Lab(g, e)
            /\ \A u \in Threads : Len(h.ev[u]) = Len(g.ev[u]) /\ Len(g.ev[u]) \in Nat
<1> DEFINE h == [g EXCEPT !.ev[r[1]][r[2]] = lab]
<1> PICK t \in Threads : \E i \in 1 .. Len(g.ev[t]) : r = <<t, i>>
  BY InEvents
<1>0. PICK i \in 1 .. Len(g.ev[t]) : r = <<t, i>>
  OBVIOUS
<1>1. r[1] = t /\ r[2] = i
  BY <1>0
<1>2. /\ DOMAIN h = DOMAIN g /\ h.co = g.co /\ h.stamp = g.stamp
      /\ h.ev = [g.ev EXCEPT ![t] = [g.ev[t] EXCEPT ![i] = lab]]
  BY <1>1 DEF IsGraph
<1> HIDE DEF h
<1>3. /\ DOMAIN h.ev = Threads /\ h.ev[t] = [g.ev[t] EXCEPT ![i] = lab]
      /\ \A u \in Threads \ {t} : h.ev[u] = g.ev[u]
  BY <1>2 DEF IsGraph
<1>4. \A u \in Threads : IsSeq(g.ev[u]) /\ Len(g.ev[u]) \in Nat
  BY DEF IsGraph, IsSeq
<1>5. /\ IsSeq(h.ev[t]) /\ Len(h.ev[t]) = Len(g.ev[t]) /\ h.ev[t][i] = lab
      /\ \A j \in 1 .. Len(g.ev[t]) : j # i => h.ev[t][j] = g.ev[t][j]
  <2> DEFINE n == Len(g.ev[t])
             f == [j \in 1 .. n |-> IF j = i THEN lab ELSE g.ev[t][j]]
  <2>1. n \in Nat /\ g.ev[t] = [j \in 1 .. n |-> g.ev[t][j]]
    BY <1>4 DEF IsSeq
  <2>2. h.ev[t] = f
    BY <1>3, <2>1
  <2> HIDE DEF n
  <2>3. Len(f) = n
    BY <2>1
  <2> QED BY <2>1, <2>2, <2>3 DEF IsSeq, n
<1>6. \A u \in Threads : IsSeq(h.ev[u]) /\ Len(h.ev[u]) = Len(g.ev[u])
  BY <1>3, <1>4, <1>5
<1>7. IsGraph(h)
  BY <1>2, <1>3, <1>6 DEF IsGraph
<1>8. Events(h) = Events(g)
  <2>1. \A e : e \in Events(h) <=> e \in Events(g)
    BY <1>6, InEvents
  <2> QED BY <2>1
<1>9. Lab(h, r) = lab
  BY <1>1, <1>5 DEF Lab
<1>10. \A e \in Events(g) \ {r} : Lab(h, e) = Lab(g, e)
  <2> TAKE e \in Events(g) \ {r}
  <2> PICK u \in Threads : \E j \in 1 .. Len(g.ev[u]) : e = <<u, j>>
    BY InEvents
  <2>1. PICK j \in 1 .. Len(g.ev[u]) : e = <<u, j>>
    OBVIOUS
  <2>2. u # t \/ j # i
    BY <2>1, <1>0
  <2>3. h.ev[u][j] = g.ev[u][j]
    BY <2>2, <1>3, <1>5
  <2> QED BY <2>1, <2>3 DEF Lab
<1> QED BY <1>2, <1>4, <1>6, <1>7, <1>8, <1>9, <1>10 DEF h

\* The label of a read after it was given w to read.
ReadsFrom(g, r, w, lab) ==
  /\ IsLabel(lab) /\ lab.op = "R" /\ lab.rf = w
  /\ lab.stamp = Lab(g, r).stamp /\ lab.loc = Lab(g, r).loc /\ lab.rev = Lab(g, r).rev
  /\ lab.porf = IF w = Init0 THEN calcBasicPorfView(g, r)
                ELSE Update(calcBasicPorfView(g, r), Lab(g, w).porf)

\* Once the only open read of a graph is told what it reads, with the views
\* that go with it, the graph satisfies the invariant: changeRf() of a read
\* that has just been added, or that a revisit has just cut to.
LEMMA ReadsFromOk ==
  ASSUME NEW g, NEW r, GraphOkBut(g, r), NEW w, NEW lab, ReadsFrom(g, r, w, lab),
         w = Init0 \/ (w \in Writes(g) /\ Lab(g, w).loc = Lab(g, r).loc)
  PROVE  LET h == [g EXCEPT !.ev[r[1]][r[2]] = lab]
         IN /\ GraphOk(h, {}) /\ Events(h) = Events(g) /\ Lab(h, r) = lab
            /\ \A e \in Events(g) \ {r} : Lab(h, e) = Lab(g, e)
<1> DEFINE h == [g EXCEPT !.ev[r[1]][r[2]] = lab]
           E == Events(g) \ {r}
<1>1. /\ IsGraph(g) /\ LabelsOk(g) /\ StampsOk(g) /\ CoOk(g, {})
      /\ r \in Reads(g) /\ r \in Events(g) /\ Lab(g, r).op = "R" /\ r[2] = Len(g.ev[r[1]])
      /\ PorfOk(g, E) /\ RfOk(g, E)
      /\ \A e \in E : Lab(g, e).porf[r[1]] < r[2]
      /\ \A c \in Revisitable(g) : Lab(g, c).stamp <= Lab(g, r).stamp
      /\ \A c \in Revisitable(g) : CutPoint(g, E, c)
  BY DEF GraphOkBut, Reads
<1>2. /\ IsGraph(h) /\ h.co = g.co /\ h.stamp = g.stamp
      /\ Events(h) = Events(g)
      /\ Lab(h, r) = lab
      /\ \A e \in E : Lab(h, e) = Lab(g, e)
      /\ \A u \in Threads : Len(h.ev[u]) = Len(g.ev[u]) /\ Len(g.ev[u]) \in Nat
  BY <1>1, SetLabelShape
<1> HIDE DEF h
<1>3. \A e \in Events(g) :
        /\ e[1] \in Threads /\ e[2] \in Nat \ {0} /\ e = <<e[1], e[2]>> /\ e[2] <= Len(g.ev[e[1]])
        /\ Lab(g, e).porf \in [Threads -> Nat] /\ Lab(g, e).stamp \in Nat
  BY <1>1, <1>2, InEvents DEF LabelsOk, IsLabel
<1>4. w # Init0 => w \in E /\ Lab(g, w).op = "W" /\ Lab(h, w) = Lab(g, w)
  BY <1>1, <1>2 DEF Writes
<1>5. Writes(h) = Writes(g) /\ \A v \in Writes(g) : v \in E /\ Lab(h, v) = Lab(g, v)
  <2>1. \A v : v \in Writes(h) <=> v \in Writes(g)
    BY <1>1, <1>2 DEF Writes, ReadsFrom
  <2> QED BY <2>1, <1>1, <1>2 DEF Writes
<1>6. LabelsOk(h)
  BY <1>1, <1>2 DEF LabelsOk, ReadsFrom
<1>7. \A e \in Events(g) : Lab(h, e).stamp = Lab(g, e).stamp
  BY <1>2 DEF ReadsFrom
<1>8. StampsOk(h)
  BY <1>1, <1>2, <1>7 DEF StampsOk
<1>9. CoOk(h, {})
  BY <1>1, <1>2, <1>5 DEF CoOk
<1> DEFINE p == calcBasicPorfView(g, r)
           q == lab.porf
<1>10. /\ p \in [Threads -> Nat] /\ p[r[1]] = r[2]
       /\ \A u \in Threads \ {r[1]} : p[u] <= Len(g.ev[u])
       /\ \A d \in E : d[2] <= p[d[1]] =>
            \A u \in Threads : Lab(g, d).porf[u] <= p[u]
  <2>1. r = <<r[1], r[2]>> /\ r[1] \in Threads /\ r[2] \in Nat \ {0} /\ r[2] - 1 <= Len(g.ev[r[1]])
    BY <1>1, <1>2, <1>3
  <2>2. r[2] = 1 \/ <<r[1], r[2] - 1>> \in E
    <3>1. ASSUME r[2] # 1 PROVE <<r[1], r[2] - 1>> \in Events(g)
      BY <2>1, <3>1, <1>2, PairInEvents
    <3>2. <<r[1], r[2] - 1>> # r
      BY <2>1
    <3> QED BY <3>1, <3>2
  <2>3. E \in SUBSET Events(g)
    OBVIOUS
  <2> HIDE DEF E
  <2>4. LET p0 == calcBasicPorfView(g, <<r[1], r[2]>>)
        IN /\ p0 \in [Threads -> Nat] /\ p0[r[1]] = r[2]
           /\ \A u \in Threads \ {r[1]} : p0[u] <= Len(g.ev[u])
           /\ \A d \in E : d[2] <= p0[d[1]] /\ d # <<r[1], r[2]>> =>
                \A u \in Threads : Lab(g, d).porf[u] <= p0[u]
    BY <2>1, <2>2, <2>3, <1>1, BasicPorf
  <2>5. r \notin E
    BY DEF E
  <2> QED BY <2>1, <2>4, <2>5
<1>11. w # Init0 => /\ Lab(g, w).porf \in [Threads -> Nat]
                    /\ Lab(g, w).porf[w[1]] = w[2] /\ Lab(g, w).porf[r[1]] < r[2]
                    /\ \A u \in Threads : Lab(g, w).porf[u] <= Len(g.ev[u])
                    /\ \A d \in E : d[2] <= Lab(g, w).porf[d[1]] =>
                         \A u \in Threads : Lab(g, d).porf[u] <= Lab(g, w).porf[u]
  BY <1>1, <1>3, <1>4 DEF PorfOk
<1>12. /\ w = Init0 => q = p
       /\ w # Init0 => q = [u \in Threads |-> IF p[u] < Lab(g, w).porf[u]
                                             THEN Lab(g, w).porf[u] ELSE p[u]]
       /\ q = Lab(h, r).porf
  BY <1>2 DEF ReadsFrom, Update
<1> HIDE DEF p, q
<1>13. /\ q \in [Threads -> Nat] /\ q[r[1]] = r[2]
       /\ \A u \in Threads : q[u] <= Len(g.ev[u])
       /\ \A u \in Threads : p[u] <= q[u] /\ (w # Init0 => Lab(g, w).porf[u] <= q[u])
       /\ \A u \in Threads : q[u] = p[u] \/ (w # Init0 /\ q[u] = Lab(g, w).porf[u])
  <2>1. r[1] \in Threads /\ r[2] \in Nat
    BY <1>1, <1>3
  <2>2. CASE w = Init0
    BY <2>1, <2>2, <1>1, <1>2, <1>10, <1>12
  <2>3. CASE w # Init0
    <3> DEFINE v == Lab(g, w).porf
    <3>1. /\ q = [u \in Threads |-> IF p[u] < v[u] THEN v[u] ELSE p[u]]
          /\ v \in [Threads -> Nat] /\ v[r[1]] < r[2] /\ \A u \in Threads : v[u] <= Len(g.ev[u])
      BY <2>3, <1>11, <1>12
    <3> HIDE DEF v
    <3>2. q \in [Threads -> Nat] /\ q[r[1]] = r[2]
      BY <3>1, <2>1, <1>10
    <3>3. ASSUME NEW u \in Threads
          PROVE  q[u] <= Len(g.ev[u]) /\ p[u] <= q[u] /\ v[u] <= q[u] /\ (q[u] = p[u] \/ q[u] = v[u])
      <4>1. p[u] <= Len(g.ev[u]) /\ Len(g.ev[u]) \in Nat /\ p[u] \in Nat /\ v[u] \in Nat
        BY <1>1, <1>2, <1>10, <2>1, <3>1
      <4> QED BY <3>1, <4>1
    <3> QED BY <2>3, <3>2, <3>3 DEF v
  <2> QED BY <2>2, <2>3
<1>14. PorfOk(h, Events(h))
  <2> SUFFICES ASSUME NEW e \in Events(g)
               PROVE  /\ Lab(h, e).porf[e[1]] = e[2]
                      /\ \A u \in Threads : Lab(h, e).porf[u] <= Len(h.ev[u])
                      /\ \A d \in Events(g) : d[2] <= Lab(h, e).porf[d[1]] =>
                           \A u \in Threads : Lab(h, d).porf[u] <= Lab(h, e).porf[u]
    BY <1>2 DEF PorfOk
  <2>1. CASE e = r
    <3>1. ASSUME NEW d \in Events(g), d[2] <= q[d[1]], NEW u \in Threads
          PROVE  Lab(h, d).porf[u] <= q[u]
      <4>1. CASE d = r
        BY <4>1, <1>12, <1>13
      <4>2. CASE d # r
        <5>1. d \in E /\ Lab(h, d) = Lab(g, d) /\ d[1] \in Threads /\ Lab(g, d).porf[u] \in Nat
          BY <4>2, <1>2, <1>3
        <5>2. CASE q[d[1]] = p[d[1]]
          <6>1. Lab(g, d).porf[u] <= p[u]
            BY <5>1, <5>2, <3>1, <1>10
          <6> QED BY <6>1, <5>1, <1>10, <1>13
        <5>3. CASE w # Init0 /\ q[d[1]] = Lab(g, w).porf[d[1]]
          <6>1. Lab(g, d).porf[u] <= Lab(g, w).porf[u]
            BY <5>1, <5>3, <3>1, <1>11
          <6>2. Lab(g, w).porf[u] \in Nat /\ q[u] \in Nat /\ Lab(g, w).porf[u] <= q[u]
            BY <5>3, <1>11, <1>13
          <6> QED BY <6>1, <6>2, <5>1
        <5> QED BY <5>1, <5>2, <5>3, <1>13
      <4> QED BY <4>1, <4>2
    <3> QED BY <2>1, <3>1, <1>2, <1>12, <1>13
  <2>2. CASE e # r
    <3>1. e \in E /\ Lab(h, e) = Lab(g, e)
      BY <2>2, <1>2
    <3>2. ~(r[2] <= Lab(g, e).porf[r[1]])
      <4>1. Lab(g, e).porf[r[1]] \in Nat /\ r[2] \in Nat /\ Lab(g, e).porf[r[1]] < r[2]
        BY <3>1, <1>1, <1>3
      <4> QED BY <4>1
    <3>3. /\ Lab(g, e).porf[e[1]] = e[2]
          /\ \A u \in Threads : Lab(g, e).porf[u] <= Len(g.ev[u])
          /\ \A d \in E : d[2] <= Lab(g, e).porf[d[1]] =>
               \A u \in Threads : Lab(g, d).porf[u] <= Lab(g, e).porf[u]
      BY <3>1, <1>1 DEF PorfOk
    <3> QED BY <3>1, <3>2, <3>3, <1>2
  <2> QED BY <2>1, <2>2
<1>15. RfOk(h, Events(h))
  <2> SUFFICES ASSUME NEW e \in Events(g), Lab(h, e).op = "R", Lab(h, e).rf # Init0
               PROVE  LET v == Lab(h, e).rf
                      IN /\ v \in Writes(h) /\ Lab(h, v).loc = Lab(h, e).loc
                         /\ v[2] <= Lab(h, e).porf[v[1]]
    BY <1>2 DEF RfOk
  <2>1. CASE e = r
    <3>1. Lab(h, e).rf = w /\ w # Init0 /\ w \in Writes(g) /\ Lab(h, e).porf = q
      BY <2>1, <1>2, <1>12 DEF ReadsFrom
    <3>2. Lab(h, w).loc = Lab(h, e).loc
      BY <2>1, <3>1, <1>2, <1>4 DEF ReadsFrom
    <3>3. w[2] <= q[w[1]]
      BY <3>1, <1>3, <1>4, <1>11, <1>13
    <3> QED BY <3>1, <3>2, <3>3, <1>5
  <2>2. CASE e # r
    <3>1. e \in E /\ Lab(h, e) = Lab(g, e)
      BY <2>2, <1>2
    <3>2. LET v == Lab(g, e).rf
          IN /\ v \in Writes(g) /\ Lab(g, v).loc = Lab(g, e).loc
             /\ v[2] <= Lab(g, e).porf[v[1]]
      BY <3>1, <1>1 DEF RfOk
    <3> QED BY <3>1, <3>2, <1>5
  <2> QED BY <2>1, <2>2
<1>16. \A c \in Revisitable(h) : CutPoint(h, Events(h), c)
  <2> SUFFICES ASSUME NEW c \in Revisitable(h), NEW d \in Events(g), NEW e \in Events(g),
                      Lab(h, e).stamp < Lab(h, c).stamp, d[2] <= Lab(h, e).porf[d[1]]
               PROVE  Lab(h, d).stamp < Lab(h, c).stamp
    BY <1>2 DEF CutPoint
  <2>1. c \in Revisitable(g) /\ c \in Events(g)
    BY <1>1, <1>2 DEF Revisitable, Reads, ReadsFrom
  <2>2. Lab(g, c).stamp <= Lab(g, r).stamp /\ Lab(g, e).stamp < Lab(g, c).stamp
    BY <2>1, <1>1, <1>7
  <2>3. e \in E /\ Lab(h, e) = Lab(g, e)
    BY <2>1, <2>2, <1>1, <1>2, <1>3
  <2>4. d # r
    <3>1. Lab(g, e).porf[r[1]] \in Nat /\ r[2] \in Nat /\ Lab(g, e).porf[r[1]] < r[2]
      BY <2>3, <1>1, <1>3
    <3> QED BY <3>1, <2>3
  <2> QED BY <2>1, <2>2, <2>3, <2>4, <1>1, <1>7 DEF CutPoint
<1> QED BY <1>2, <1>6, <1>8, <1>9, <1>14, <1>15, <1>16 DEF GraphOk, h

-----------------------------------------------------------------------------
(* The elements of a sequence with certain indices *)

\* f lists, for each i up to n, the elements with index in I among the first
\* i of s.
IsFirst(s, I, n, f) ==
  f = [i \in 0 .. n |-> IF i = 0 THEN <<>>
                        ELSE IF i \in I THEN Append(f[i - 1], s[i]) ELSE f[i - 1]]

\* The recursion of Kept has a solution of every length.
LEMMA FirstExists ==
  ASSUME NEW s, NEW I
  PROVE  \A n \in Nat : \E f : IsFirst(s, I, n, f)
<1> DEFINE S == {n \in Nat : \E f : IsFirst(s, I, n, f)}
<1>1. 0 \in S
  <2> DEFINE f == [i \in 0 .. 0 |-> <<>>]
  <2>1. IsFirst(s, I, 0, f)
    BY DEF IsFirst
  <2> QED BY <2>1
<1>2. ASSUME NEW n \in S PROVE n + 1 \in S
  <2>1. PICK f : IsFirst(s, I, n, f)
    OBVIOUS
  <2> DEFINE next == IF n + 1 \in I THEN Append(f[n], s[n + 1]) ELSE f[n]
             g == [i \in 0 .. n + 1 |-> IF i = n + 1 THEN next ELSE f[i]]
  <2>2. n \in Nat
    OBVIOUS
  <2>3. \A i \in 0 .. n : g[i] = f[i]
    BY <2>2
  <2>4. g[n + 1] = next
    BY <2>2
  <2>5. ASSUME NEW i \in 0 .. n + 1
        PROVE  g[i] = IF i = 0 THEN <<>>
                      ELSE IF i \in I THEN Append(g[i - 1], s[i]) ELSE g[i - 1]
    <3>1. CASE i = n + 1
      <4>1. g[i - 1] = f[n] /\ i # 0
        BY <2>2, <2>3, <3>1
      <4>2. g[i] = next
        BY <2>4, <3>1
      <4> HIDE DEF g
      <4> QED BY <3>1, <4>1, <4>2, Zenon
    <3>2. CASE i \in 1 .. n
      <4>1. g[i] = f[i] /\ g[i - 1] = f[i - 1]
        BY <2>2, <2>3, <3>2
      <4>2. i \in 0 .. n /\ i # 0
        BY <2>2, <3>2
      <4> HIDE DEF g, next
      <4>3. f[i] = IF i = 0 THEN <<>>
                   ELSE IF i \in I THEN Append(f[i - 1], s[i]) ELSE f[i - 1]
        BY <2>1, <4>2, Zenon DEF IsFirst
      <4> QED BY <4>1, <4>3, Zenon
    <3>3. CASE i = 0
      <4> HIDE DEF g, next
      <4> QED BY <2>1, <2>2, <2>3, <3>3 DEF IsFirst
    <3> QED BY <2>2, <3>1, <3>2, <3>3
  <2>6. g = [i \in 0 .. n + 1 |-> g[i]]
    OBVIOUS
  <2> HIDE DEF g, next
  <2>7. IsFirst(s, I, n + 1, g)
    BY <2>5, <2>6 DEF IsFirst
  <2> QED BY <2>2, <2>7
<1> HIDE DEF S
<1>3. S \in SUBSET Nat
  BY DEF S
<1>4. S = Nat
  BY <1>1, <1>2, <1>3, SetInduction
<1> QED BY <1>4 DEF S

\* Kept is its last value.
LEMMA KeptIsFirst ==
  ASSUME NEW s, Len(s) \in Nat, NEW I
  PROVE  \E f : IsFirst(s, I, Len(s), f) /\ Kept(s, I) = f[Len(s)]
<1> DEFINE D(f) == IsFirst(s, I, Len(s), f)
<1>1. \E f : D(f)
  BY FirstExists
<1>2. Kept(s, I) = (CHOOSE f : D(f))[Len(s)]
  BY Zenon DEF Kept, IsFirst
<1>3. D(CHOOSE f : D(f))
  <2> HIDE DEF D
  <2> QED BY <1>1, Zenon
<1> QED BY <1>2, <1>3, Zenon

\* Of a sequence without repetitions, the elements with index in I, each once.
LEMMA KeptFacts ==
  ASSUME NEW s, IsSeq(s), NEW I,
         \A i, j \in 1 .. Len(s) : s[i] = s[j] => i = j
  PROVE  LET k == Kept(s, I)
         IN /\ IsSeq(k)
            /\ \A x : (\E i \in 1 .. Len(k) : k[i] = x)
                       <=> \E i \in 1 .. Len(s) : i \in I /\ s[i] = x
            /\ \A i, j \in 1 .. Len(k) : k[i] = k[j] => i = j
<1>0. Len(s) \in Nat
  BY DEF IsSeq
<1>1. PICK f : IsFirst(s, I, Len(s), f) /\ Kept(s, I) = f[Len(s)]
  BY <1>0, KeptIsFirst
<1> DEFINE Q(n) == /\ IsSeq(f[n])
                   /\ \A x : (\E i \in 1 .. Len(f[n]) : f[n][i] = x)
                              <=> \E i \in 1 .. n : i \in I /\ s[i] = x
                   /\ \A i, j \in 1 .. Len(f[n]) : f[n][i] = f[n][j] => i = j
           S == {n \in 0 .. Len(s) : Q(n)}
<1>2. 0 \in S
  <2>1. f[0] = <<>>
    BY <1>0, <1>1 DEF IsFirst
  <2>2. Len(f[0]) = 0
    BY <2>1
  <2>3. IsSeq(f[0])
    BY <2>1 DEF IsSeq
  <2> QED BY <2>2, <2>3, <1>0
<1>3. ASSUME NEW n \in 0 .. Len(s) - 1, n \in S PROVE n + 1 \in S
  <2> DEFINE a == f[n]
             b == f[n + 1]
             y == s[n + 1]
             m == Len(a)
  <2>1. n \in Nat /\ n + 1 \in 1 .. Len(s) /\ Q(n)
    <3>1. Q(n)
      BY <1>3, Zenon
    <3>2. n \in Nat /\ n + 1 \in 1 .. Len(s)
      <4> HIDE DEF Q
      <4> QED BY <1>0
    <3> QED BY <3>1, <3>2, Zenon
  <2>2. b = IF n + 1 \in I THEN Append(a, y) ELSE a
    <3>1. n + 1 \in 0 .. Len(s) /\ n + 1 # 0 /\ (n + 1) - 1 = n
      BY <1>0, <2>1
    <3>2. f[n + 1] = IF n + 1 = 0 THEN <<>>
                     ELSE IF n + 1 \in I THEN Append(f[(n + 1) - 1], s[n + 1])
                     ELSE f[(n + 1) - 1]
      BY <1>1, <3>1, Zenon DEF IsFirst
    <3> QED BY <3>1, <3>2, Zenon
  <2>3. /\ IsSeq(a) /\ m \in Nat
        /\ \A x : (\E i \in 1 .. m : a[i] = x) <=> \E i \in 1 .. n : i \in I /\ s[i] = x
        /\ \A i, j \in 1 .. m : a[i] = a[j] => i = j
    <3>1. m \in Nat
      BY <2>1 DEF IsSeq
    <3> QED BY <2>1, <3>1, Zenon
  <2>4. \A x : (\E i \in 1 .. n + 1 : i \in I /\ s[i] = x)
                <=> (n + 1 \in I /\ x = y) \/ \E i \in 1 .. n : i \in I /\ s[i] = x
    BY <2>1, OneMore
  <2>5. ~\E i \in 1 .. n : s[i] = y
    BY <2>1
  <2> HIDE DEF a, b, y, m
  <2>6. CASE n + 1 \notin I
    <3>1. \A x : (\E i \in 1 .. m : a[i] = x) <=> \E i \in 1 .. n + 1 : i \in I /\ s[i] = x
      BY <2>3, <2>4, <2>6
    <3>2. b = a
      BY <2>2, <2>6
    <3>3. Q(n + 1)
      BY <2>3, <3>1, <3>2, Zenon DEF a, b, m
    <3> QED BY <2>1, <3>3
  <2>7. CASE n + 1 \in I
    <3>1. b = Append(a, y)
      BY <2>2, <2>7
    <3>2. IsSeq(b) /\ Len(b) = m + 1 /\ b[m + 1] = y /\ \A i \in 1 .. m : b[i] = a[i]
      BY <2>3, <3>1, AppendSeq DEF m
    <3>3. \A x : (\E i \in 1 .. m + 1 : b[i] = x) <=> x = y \/ \E i \in 1 .. m : a[i] = x
      BY <2>3, <3>2, OneMore
    <3>4. \A x : (\E i \in 1 .. m + 1 : b[i] = x) <=> \E i \in 1 .. n + 1 : i \in I /\ s[i] = x
      BY <2>3, <2>4, <2>7, <3>3
    <3>5. \A i \in 1 .. m : a[i] # y
      BY <2>3, <2>5
    <3>6. \A i, j \in 1 .. m + 1 : b[i] = b[j] => i = j
      BY <2>3, <3>2, <3>5, OneMore
    <3>7. Q(n + 1)
      BY <3>2, <3>4, <3>6, Zenon DEF b
    <3> QED BY <2>1, <3>7
  <2> QED BY <2>6, <2>7
<1> HIDE DEF S
<1>4. Len(s) \in S
  <2>1. \A n \in 0 .. Len(s) : n \in S
    BY <1>0, <1>2, <1>3, BoundedInduction
  <2> QED BY <2>1, <1>0
<1> QED BY <1>1, <1>4 DEF S

\* Of a sequence without repetitions, the stores within v, each once.
LEMMA StoresWithinFacts ==
  ASSUME NEW s, IsSeq(s), NEW v,
         \A i, j \in 1 .. Len(s) : s[i] = s[j] => i = j
  PROVE  LET k == StoresWithin(s, v)
         IN /\ IsSeq(k)
            /\ \A x : (\E i \in 1 .. Len(k) : k[i] = x)
                       <=> Contains(v, x) /\ \E i \in 1 .. Len(s) : s[i] = x
            /\ \A i, j \in 1 .. Len(k) : k[i] = k[j] => i = j
<1> DEFINE I == {i \in 1 .. Len(s) : Contains(v, s[i])}
           k == Kept(s, I)
<1>1. StoresWithin(s, v) = k
  BY DEF StoresWithin
<1>2. /\ IsSeq(k)
      /\ \A x : (\E i \in 1 .. Len(k) : k[i] = x) <=> \E i \in 1 .. Len(s) : i \in I /\ s[i] = x
      /\ \A i, j \in 1 .. Len(k) : k[i] = k[j] => i = j
  <2> HIDE DEF I
  <2> QED BY KeptFacts
<1>3. \A x : (\E i \in 1 .. Len(s) : i \in I /\ s[i] = x)
              <=> Contains(v, x) /\ \E i \in 1 .. Len(s) : s[i] = x
  OBVIOUS
<1> HIDE DEF k, I
<1> QED BY <1>1, <1>2, <1>3

-----------------------------------------------------------------------------
(* Graphs are restricted to a view *)

\* What a prefix has at each position.
LEMMA PrefixSeq ==
  ASSUME NEW s, IsSeq(s), NEW n \in 0 .. Len(s)
  PROVE  LET b == SubSeq(s, 1, n)
         IN IsSeq(b) /\ Len(b) = n /\ \A i \in 1 .. n : b[i] = s[i]
<1> DEFINE b == SubSeq(s, 1, n)
           S == {s[i] : i \in 1 .. Len(s)}
<1>1. Len(s) \in Nat /\ s = [i \in 1 .. Len(s) |-> s[i]]
  BY DEF IsSeq
<1>2. s \in Seq(S)
  BY <1>1
<1> HIDE DEF S
<1>3. b \in Seq(S) /\ Len(b) = n /\ \A i \in 1 .. n : b[i] = s[i]
  BY <1>1, <1>2
<1> HIDE DEF b
<1>4. b = [i \in 1 .. n |-> b[i]]
  BY <1>3
<1> QED BY <1>1, <1>3, <1>4 DEF IsSeq, b

\* Restricting a graph to a view keeps a prefix of each thread, and the order
\* of the stores that remain.
LEMMA RestrictShape ==
  ASSUME NEW g, IsGraph(g), NEW P, CoOk(g, P),
         NEW v \in [Threads -> Nat], \A t \in Threads : v[t] <= Len(g.ev[t])
  PROVE  LET h == RestrictGraph(g, v)
         IN /\ IsGraph(h) /\ h.stamp = g.stamp
            /\ Events(h) = {e \in Events(g) : e[2] <= v[e[1]]}
            /\ \A e \in Events(h) : Lab(h, e) = Lab(g, e)
            /\ \A t \in Threads : Len(h.ev[t]) = v[t]
            /\ \A l \in Locs :
                 /\ \A x : (\E i \in 1 .. Len(h.co[l]) : h.co[l][i] = x)
                            <=> Contains(v, x) /\ \E i \in 1 .. Len(g.co[l]) : g.co[l][i] = x
                 /\ \A i, j \in 1 .. Len(h.co[l]) : h.co[l][i] = h.co[l][j] => i = j
<1> DEFINE h == RestrictGraph(g, v)
<1>1. /\ DOMAIN h = DOMAIN g /\ h.stamp = g.stamp
      /\ h.ev = [t \in Threads |-> SubSeq(g.ev[t], 1, v[t])]
      /\ h.co = [l \in Locs |-> StoresWithin(g.co[l], v)]
  BY DEF RestrictGraph, CoRemoveAfter, IsGraph
<1> HIDE DEF h
<1>2. \A t \in Threads : /\ IsSeq(g.ev[t]) /\ v[t] \in 0 .. Len(g.ev[t]) /\ Len(g.ev[t]) \in Nat
  BY DEF IsGraph, IsSeq
<1>3. \A t \in Threads : /\ IsSeq(h.ev[t]) /\ Len(h.ev[t]) = v[t]
                         /\ \A i \in 1 .. v[t] : h.ev[t][i] = g.ev[t][i]
  <2> TAKE t \in Threads
  <2>1. h.ev[t] = SubSeq(g.ev[t], 1, v[t])
    BY <1>1
  <2> QED BY <2>1, <1>2, PrefixSeq
<1>4. \A l \in Locs :
        /\ IsSeq(h.co[l])
        /\ \A x : (\E i \in 1 .. Len(h.co[l]) : h.co[l][i] = x)
                   <=> Contains(v, x) /\ \E i \in 1 .. Len(g.co[l]) : g.co[l][i] = x
        /\ \A i, j \in 1 .. Len(h.co[l]) : h.co[l][i] = h.co[l][j] => i = j
  <2> TAKE l \in Locs
  <2>1. h.co[l] = StoresWithin(g.co[l], v)
    BY <1>1
  <2>2. IsSeq(g.co[l]) /\ \A i, j \in 1 .. Len(g.co[l]) : g.co[l][i] = g.co[l][j] => i = j
    BY DEF IsGraph, CoOk
  <2>3. LET k == StoresWithin(g.co[l], v)
        IN /\ IsSeq(k)
           /\ \A x : (\E i \in 1 .. Len(k) : k[i] = x)
                      <=> Contains(v, x) /\ \E i \in 1 .. Len(g.co[l]) : g.co[l][i] = x
           /\ \A i, j \in 1 .. Len(k) : k[i] = k[j] => i = j
    BY <2>2, StoresWithinFacts
  <2> QED BY <2>1, <2>3, Zenon
<1>5. IsGraph(h)
  BY <1>1, <1>3, <1>4 DEF IsGraph
<1>6. Events(h) = {e \in Events(g) : e[2] <= v[e[1]]}
  <2>1. ASSUME NEW t \in Threads, NEW i
        PROVE  <<t, i>> \in Events(h) <=> <<t, i>> \in Events(g) /\ i <= v[t]
    <3>1. i \in 1 .. v[t] <=> i \in 1 .. Len(g.ev[t]) /\ i <= v[t]
      BY <1>2
    <3> QED BY <3>1, <1>3, PairInEvents
  <2>2. ASSUME NEW e PROVE e \in Events(h) <=> e \in Events(g) /\ e[2] <= v[e[1]]
    <3>1. CASE e = <<e[1], e[2]>> /\ e[1] \in Threads
      BY <3>1, <2>1
    <3>2. CASE ~(e = <<e[1], e[2]>> /\ e[1] \in Threads)
      BY <3>2, InEvents
    <3> QED BY <3>1, <3>2
  <2> QED BY <2>2
<1>7. \A e \in Events(h) : Lab(h, e) = Lab(g, e)
  BY <1>3, InEvents DEF Lab
<1> QED BY <1>1, <1>3, <1>4, <1>5, <1>6, <1>7 DEF h

\* v is closed under porf but for r, which is the last event of its thread.
Keeps(g, r, v) ==
  /\ v \in [Threads -> Nat] /\ \A t \in Threads : v[t] <= Len(g.ev[t])
  /\ v[r[1]] = r[2]
  /\ \A e \in Events(g) \ {r} : e[2] <= v[e[1]] =>
       /\ \A t \in Threads : Lab(g, e).porf[t] <= v[t]
       /\ Lab(g, e).porf[r[1]] < r[2]

\* What GraphOkBut says, except for which reads may be revisited.
RestrictedOk(g, r) ==
  LET E == Events(g) \ {r}
  IN /\ IsGraph(g) /\ LabelsOk(g) /\ StampsOk(g) /\ CoOk(g, {})
     /\ r \in Reads(g) /\ r[2] = Len(g.ev[r[1]])
     /\ PorfOk(g, E) /\ RfOk(g, E)
     /\ \A e \in E : Lab(g, e).porf[r[1]] < r[2]
     /\ \A c \in Revisitable(g) : CutPoint(g, E, c)

\* A graph restricted to a view that keeps what it must is well formed, up to
\* the read being revisited.
LEMMA RestrictOk ==
  ASSUME NEW g, GraphOk(g, {}), NEW r \in Reads(g), NEW v, Keeps(g, r, v)
  PROVE  RestrictedOk(RestrictGraph(g, v), r)
<1> DEFINE h == RestrictGraph(g, v)
           E == Events(h) \ {r}
<1>0. /\ IsGraph(g) /\ LabelsOk(g) /\ StampsOk(g) /\ CoOk(g, {})
      /\ PorfOk(g, Events(g)) /\ RfOk(g, Events(g))
      /\ \A c \in Revisitable(g) : CutPoint(g, Events(g), c)
  BY DEF GraphOk
<1>1. /\ v \in [Threads -> Nat] /\ \A t \in Threads : v[t] <= Len(g.ev[t])
      /\ v[r[1]] = r[2]
      /\ \A e \in Events(g) \ {r} : e[2] <= v[e[1]] =>
           /\ \A t \in Threads : Lab(g, e).porf[t] <= v[t]
           /\ Lab(g, e).porf[r[1]] < r[2]
  BY DEF Keeps
<1>2. /\ IsGraph(h) /\ h.stamp = g.stamp
      /\ Events(h) = {e \in Events(g) : e[2] <= v[e[1]]}
      /\ \A e \in Events(h) : Lab(h, e) = Lab(g, e)
      /\ \A t \in Threads : Len(h.ev[t]) = v[t]
      /\ \A l \in Locs :
           /\ \A x : (\E i \in 1 .. Len(h.co[l]) : h.co[l][i] = x)
                      <=> Contains(v, x) /\ \E i \in 1 .. Len(g.co[l]) : g.co[l][i] = x
           /\ \A i, j \in 1 .. Len(h.co[l]) : h.co[l][i] = h.co[l][j] => i = j
  BY <1>0, <1>1, RestrictShape
<1> HIDE DEF h
<1>3. \A e \in Events(h) : e \in Events(g) /\ Lab(h, e) = Lab(g, e)
  BY <1>2
<1>4. \A e \in Events(g) : /\ e[1] \in Threads /\ e[2] \in Nat \ {0} /\ e # Init0
                           /\ Lab(g, e).porf \in [Threads -> Nat] /\ Lab(g, e).stamp \in Nat
  <2> TAKE e \in Events(g)
  <2>1. \A t \in Threads : Len(g.ev[t]) \in Nat
    BY <1>0 DEF IsGraph, IsSeq
  <2> QED BY <2>1, <1>0, InEvents DEF LabelsOk, IsLabel
<1>5. LabelsOk(h)
  BY <1>0, <1>3 DEF LabelsOk
<1>6. StampsOk(h)
  BY <1>0, <1>2, <1>3 DEF StampsOk
<1>7. Writes(h) = {w \in Writes(g) : w[2] <= v[w[1]]}
  BY <1>2 DEF Writes
<1>8. CoOk(h, {})
  <2> SUFFICES ASSUME NEW l \in Locs, NEW x
               PROVE  (\E i \in 1 .. Len(h.co[l]) : h.co[l][i] = x)
                        <=> x \in Writes(h) /\ Lab(h, x).loc = l
    BY <1>2 DEF CoOk
  <2>1. (\E i \in 1 .. Len(g.co[l]) : g.co[l][i] = x) <=> x \in Writes(g) /\ Lab(g, x).loc = l
    <3>1. {g.co[l][i] : i \in 1 .. Len(g.co[l])} = {w \in Writes(g) \ {} : Lab(g, w).loc = l}
      BY <1>0 DEF CoOk
    <3> QED BY <3>1
  <2>2. x \in Writes(g) => (Contains(v, x) <=> x[2] <= v[x[1]])
    BY <1>4 DEF Contains, Writes
  <2>3. x \in Writes(h) => Lab(h, x) = Lab(g, x)
    BY <1>3 DEF Writes
  <2> QED BY <2>1, <2>2, <2>3, <1>2, <1>7
<1>9. r \in Reads(h) /\ r[2] = Len(h.ev[r[1]])
  <2>1. r \in Events(g) /\ Lab(g, r).op = "R" /\ r[1] \in Threads /\ r[2] \in Nat
    BY <1>4 DEF Reads
  <2>2. r \in Events(h)
    BY <2>1, <1>1, <1>2
  <2> QED BY <2>1, <2>2, <1>1, <1>2 DEF Reads
<1>10. PorfOk(h, E)
  <2> SUFFICES ASSUME NEW e \in E
               PROVE  /\ Lab(h, e).porf[e[1]] = e[2]
                      /\ \A t \in Threads : Lab(h, e).porf[t] <= Len(h.ev[t])
                      /\ \A d \in E : d[2] <= Lab(h, e).porf[d[1]] =>
                           \A t \in Threads : Lab(h, d).porf[t] <= Lab(h, e).porf[t]
    BY DEF PorfOk
  <2>1. e \in Events(g) \ {r} /\ e[2] <= v[e[1]] /\ Lab(h, e) = Lab(g, e)
    BY <1>2
  <2>2. \A t \in Threads : Lab(h, e).porf[t] <= Len(h.ev[t])
    BY <2>1, <1>1, <1>2
  <2> QED BY <2>1, <2>2, <1>0, <1>3 DEF PorfOk
<1>11. RfOk(h, E)
  <2> SUFFICES ASSUME NEW e \in E, Lab(h, e).op = "R", Lab(h, e).rf # Init0
               PROVE  LET w == Lab(h, e).rf
                      IN /\ w \in Writes(h) /\ Lab(h, w).loc = Lab(h, e).loc
                         /\ w[2] <= Lab(h, e).porf[w[1]]
    BY DEF RfOk
  <2>1. e \in Events(g) \ {r} /\ e[2] <= v[e[1]] /\ Lab(h, e) = Lab(g, e)
    BY <1>2
  <2> DEFINE w == Lab(g, e).rf
  <2>2. w \in Writes(g) /\ Lab(g, w).loc = Lab(g, e).loc /\ w[2] <= Lab(g, e).porf[w[1]]
    BY <2>1, <1>0 DEF RfOk
  <2> HIDE DEF w
  <2>3. w \in Events(g) /\ w[1] \in Threads /\ w[2] \in Nat /\ v[w[1]] \in Nat
        /\ Lab(g, e).porf[w[1]] \in Nat
    BY <2>1, <2>2, <1>1, <1>4 DEF Writes
  <2>4. w[2] <= v[w[1]]
    BY <2>1, <2>2, <2>3, <1>1
  <2>5. w \in Writes(h) /\ Lab(h, w) = Lab(g, w)
    BY <2>2, <2>3, <2>4, <1>2, <1>7
  <2> QED BY <2>1, <2>2, <2>5 DEF w
<1>12. \A e \in E : Lab(h, e).porf[r[1]] < r[2]
  BY <1>1, <1>2
<1>13. \A c \in Revisitable(h) : CutPoint(h, E, c)
  <2> TAKE c \in Revisitable(h)
  <2>1. c \in Revisitable(g) /\ Lab(h, c) = Lab(g, c)
    BY <1>3 DEF Revisitable, Reads
  <2> QED BY <2>1, <1>0, <1>3 DEF CutPoint
<1> QED BY <1>2, <1>5, <1>6, <1>8, <1>9, <1>10, <1>11, <1>12, <1>13 DEF RestrictedOk, h

\* The events that a view from a stamp contains.
LEMMA ViewFromStamp ==
  ASSUME NEW g, IsGraph(g), LabelsOk(g), StampsOk(g), NEW s \in Nat
  PROVE  LET v == getViewFromStamp(g, s)
         IN /\ v \in [Threads -> Nat] /\ \A t \in Threads : v[t] <= Len(g.ev[t])
            /\ \A e \in Events(g) : e[2] <= v[e[1]] <=> Lab(g, e).stamp <= s
<1> DEFINE v == getViewFromStamp(g, s)
           S(t) == {0} \cup {i \in 1 .. Len(g.ev[t]) : g.ev[t][i].stamp <= s}
<1>1. v = [t \in Threads |-> MaxOf(S(t))]
  BY DEF getViewFromStamp
<1> HIDE DEF v
<1>2. \A t \in Threads : Len(g.ev[t]) \in Nat
  BY DEF IsGraph, IsSeq
<1>3. ASSUME NEW t \in Threads
      PROVE  /\ v[t] \in Nat /\ v[t] <= Len(g.ev[t])
             /\ \A i \in 1 .. Len(g.ev[t]) : i <= v[t] <=> g.ev[t][i].stamp <= s
  <2> DEFINE n == Len(g.ev[t])
  <2>1. n \in Nat
    BY <1>2
  <2>2. S(t) \in SUBSET Nat /\ S(t) # {} /\ \A x \in S(t) : x <= n
    BY <2>1
  <2>3. v[t] \in S(t) /\ \A x \in S(t) : x <= v[t]
    <3>1. v[t] = MaxOf(S(t))
      BY <1>1
    <3> HIDE DEF S, n
    <3> QED BY <3>1, <2>1, <2>2, MaxOfBounded
  <2>4. \A i, j \in 1 .. n : /\ g.ev[t][i].stamp \in Nat
                             /\ i < j => g.ev[t][i].stamp < g.ev[t][j].stamp
    <3> TAKE i, j \in 1 .. n
    <3>1. /\ <<t, i>> \in Events(g) /\ <<t, j>> \in Events(g)
          /\ Lab(g, <<t, i>>) = g.ev[t][i] /\ Lab(g, <<t, j>>) = g.ev[t][j]
      BY PairInEvents
    <3> QED BY <3>1 DEF LabelsOk, IsLabel, StampsOk
  <2>5. ASSUME NEW i \in 1 .. n PROVE i <= v[t] <=> g.ev[t][i].stamp <= s
    <3>1. ASSUME g.ev[t][i].stamp <= s PROVE i <= v[t]
      BY <2>3, <3>1
    <3>2. ASSUME i <= v[t] PROVE g.ev[t][i].stamp <= s
      <4>1. v[t] \in 1 .. n /\ g.ev[t][v[t]].stamp <= s
        BY <2>1, <2>3, <3>2
      <4> QED BY <2>1, <2>4, <3>2, <4>1
    <3> QED BY <3>1, <3>2
  <2> QED BY <2>1, <2>2, <2>3, <2>5
<1>4. v \in [Threads -> Nat]
  BY <1>1, <1>3
<1>5. \A e \in Events(g) : e[2] <= v[e[1]] <=> Lab(g, e).stamp <= s
  BY <1>3, InEvents DEF Lab
<1> QED BY <1>3, <1>4, <1>5 DEF v

\* What stamping a label afresh may change.
SameButStamp(l, m) == DOMAIN l = DOMAIN m /\ \A f \in DOMAIN m \ {"stamp", "rev"} : l[f] = m[f]

\* A restricted graph whose events are stamped afresh, from r on.
LEMMA RestampOk ==
  ASSUME NEW h, NEW r, RestrictedOk(h, r), NEW k, IsGraph(k), k.co = h.co,
         Events(k) = Events(h), \A t \in Threads : Len(k.ev[t]) = Len(h.ev[t]),
         LabelsOk(k), StampsOk(k),
         \A e \in Events(h) : SameButStamp(Lab(k, e), Lab(h, e)),
         \A c \in Revisitable(k) : c \in Revisitable(h) /\ Lab(k, c).stamp <= Lab(k, r).stamp,
         \A c, e \in Events(h) : Lab(k, c).stamp <= Lab(k, r).stamp =>
           (Lab(k, e).stamp < Lab(k, c).stamp <=> Lab(h, e).stamp < Lab(h, c).stamp)
  PROVE  GraphOkBut(k, r)
<1> DEFINE E == Events(h) \ {r}
<1>1. /\ CoOk(h, {}) /\ r \in Reads(h) /\ r[2] = Len(h.ev[r[1]])
      /\ PorfOk(h, E) /\ RfOk(h, E)
      /\ \A e \in E : Lab(h, e).porf[r[1]] < r[2]
      /\ \A c \in Revisitable(h) : CutPoint(h, E, c)
  BY DEF RestrictedOk
<1>0. \A e \in Events(h) :
        LET l == Lab(k, e)
            m == Lab(h, e)
        IN /\ l.op = m.op /\ l.porf = m.porf /\ (m.op \in {"R", "W"} => l.loc = m.loc)
           /\ m.op = "R" => l.rf = m.rf
  <2> TAKE e \in Events(h)
  <2>1. IsLabel(Lab(h, e)) /\ SameButStamp(Lab(k, e), Lab(h, e))
    BY DEF RestrictedOk, LabelsOk
  <2> QED BY <2>1 DEF IsLabel, SameButStamp
<1>2. Writes(k) = Writes(h) /\ Reads(k) = Reads(h) /\ \A w \in Writes(h) : w \in Events(h) /\ Lab(h, w).op = "W"
  BY <1>0 DEF Writes, Reads
<1>3. CoOk(k, {})
  BY <1>0, <1>1, <1>2 DEF CoOk
<1>4. r \in Reads(k) /\ r[2] = Len(k.ev[r[1]]) /\ r \in Events(h)
  <2>1. r \in Events(h)
    BY <1>1 DEF Reads
  <2> QED BY <2>1, <1>1, <1>2, InEvents
<1>5. PorfOk(k, E)
  BY <1>0, <1>1 DEF PorfOk
<1>6. RfOk(k, E)
  <2> SUFFICES ASSUME NEW e \in E, Lab(k, e).op = "R", Lab(k, e).rf # Init0
               PROVE  LET w == Lab(k, e).rf
                      IN /\ w \in Writes(k) /\ Lab(k, w).loc = Lab(k, e).loc
                         /\ w[2] <= Lab(k, e).porf[w[1]]
    BY DEF RfOk
  <2>1. LET w == Lab(h, e).rf
        IN /\ w \in Writes(h) /\ Lab(h, w).loc = Lab(h, e).loc
           /\ w[2] <= Lab(h, e).porf[w[1]]
    BY <1>0, <1>1 DEF RfOk
  <2> QED BY <2>1, <1>0, <1>2
<1>7. \A c \in Revisitable(k) : CutPoint(k, E, c)
  <2> SUFFICES ASSUME NEW c \in Revisitable(k), NEW d \in E, NEW e \in E,
                      Lab(k, e).stamp < Lab(k, c).stamp, d[2] <= Lab(k, e).porf[d[1]]
               PROVE  Lab(k, d).stamp < Lab(k, c).stamp
    BY DEF CutPoint
  <2>1. c \in Revisitable(h) /\ c \in Events(h) /\ Lab(k, c).stamp <= Lab(k, r).stamp
    BY DEF Revisitable, Reads
  <2>2. Lab(h, e).stamp < Lab(h, c).stamp
    BY <2>1
  <2>3. Lab(h, d).stamp < Lab(h, c).stamp
    BY <2>1, <2>2, <1>0, <1>1 DEF CutPoint
  <2> QED BY <2>1, <2>3
<1> QED BY <1>0, <1>1, <1>3, <1>4, <1>5, <1>6, <1>7 DEF GraphOkBut

\* What was there when a read that may be revisited was added.
LEMMA StampViewKeeps ==
  ASSUME NEW g, GraphOk(g, {}), NEW r \in Revisitable(g)
  PROVE  Keeps(g, r, getViewFromStamp(g, Lab(g, r).stamp))
<1> DEFINE s == Lab(g, r).stamp
           v == getViewFromStamp(g, s)
<1>0. /\ IsGraph(g) /\ LabelsOk(g) /\ StampsOk(g) /\ CoOk(g, {})
      /\ PorfOk(g, Events(g)) /\ CutPoint(g, Events(g), r)
      /\ r \in Reads(g) /\ r \in Events(g) /\ s \in Nat
  BY DEF GraphOk, Revisitable, Reads, LabelsOk, IsLabel
<1>1. /\ v \in [Threads -> Nat] /\ \A t \in Threads : v[t] <= Len(g.ev[t])
      /\ \A e \in Events(g) : e[2] <= v[e[1]] <=> Lab(g, e).stamp <= s
  BY <1>0, ViewFromStamp
<1>2. /\ \A t \in Threads : Len(g.ev[t]) \in Nat
      /\ \A e \in Events(g) :
           /\ e[1] \in Threads /\ e[2] \in Nat \ {0} /\ e = <<e[1], e[2]>> /\ e[2] <= Len(g.ev[e[1]])
           /\ Lab(g, e).porf \in [Threads -> Nat] /\ Lab(g, e).stamp \in Nat
  <2>1. \A t \in Threads : Len(g.ev[t]) \in Nat
    BY <1>0 DEF IsGraph, IsSeq
  <2> QED BY <2>1, <1>0, InEvents DEF LabelsOk, IsLabel
<1> HIDE DEF v
<1>3. Keeps(g, r, v)
  <2>1. v[r[1]] = r[2]
    <3>1. r[2] <= v[r[1]] /\ v[r[1]] \in Nat /\ v[r[1]] <= Len(g.ev[r[1]])
      BY <1>0, <1>1, <1>2
    <3> DEFINE e == <<r[1], v[r[1]]>>
    <3>2. e \in Events(g) /\ e[1] = r[1] /\ e[2] = v[r[1]]
      BY <3>1, <1>0, <1>2, PairInEvents
    <3>3. Lab(g, e).stamp <= s
      BY <3>1, <3>2, <1>1
    <3> HIDE DEF e
    <3>4. ~(r[2] < e[2])
      BY <3>2, <3>3, <1>0, <1>2 DEF StampsOk
    <3> QED BY <3>1, <3>2, <3>4, <1>0, <1>2
  <2>2. ASSUME NEW e \in Events(g) \ {r}, e[2] <= v[e[1]], NEW d \in Events(g),
               d[2] <= Lab(g, e).porf[d[1]]
        PROVE  Lab(g, d).stamp < s
    <3>1. Lab(g, e).stamp < s
      BY <2>2, <1>0, <1>1, <1>2 DEF StampsOk
    <3> QED BY <2>2, <3>1, <1>0 DEF CutPoint
  <2>3. ASSUME NEW e \in Events(g) \ {r}, e[2] <= v[e[1]], NEW t \in Threads
        PROVE  Lab(g, e).porf[t] <= v[t]
    <3> DEFINE n == Lab(g, e).porf[t]
    <3>1. n \in Nat /\ n <= Len(g.ev[t]) /\ v[t] \in Nat
      BY <1>0, <1>1, <1>2 DEF PorfOk
    <3>2. CASE n = 0
      BY <3>1, <3>2
    <3>3. CASE n # 0
      <4> DEFINE d == <<t, n>>
      <4>1. d \in Events(g) /\ d[1] = t /\ d[2] = n
        BY <3>1, <3>3, <1>2, PairInEvents
      <4>2. Lab(g, d).stamp < s
        BY <4>1, <3>1, <2>2, <2>3
      <4> HIDE DEF d
      <4> QED BY <4>1, <4>2, <1>0, <1>1, <1>2
    <3> QED BY <3>2, <3>3
  <2>4. ASSUME NEW e \in Events(g) \ {r}, e[2] <= v[e[1]]
        PROVE  Lab(g, e).porf[r[1]] < r[2]
    <3>1. ~(r[2] <= Lab(g, e).porf[r[1]])
      BY <2>2, <2>4, <1>0, <1>2
    <3> QED BY <3>1, <1>0, <1>2
  <2> QED BY <2>1, <2>3, <2>4, <1>1 DEF Keeps
<1> QED BY <1>3 DEF v

\* The cut just after a read that may be revisited.
LEMMA CutOk ==
  ASSUME NEW g, GraphOk(g, {}), NEW r \in Revisitable(g)
  PROVE  /\ GraphOkBut(cutToStamp(g, Lab(g, r).stamp), r)
         /\ LET k == cutToStamp(g, Lab(g, r).stamp)
            IN \A e \in Events(k) : e \in Events(g) /\ Lab(k, e) = Lab(g, e)
<1> DEFINE s == Lab(g, r).stamp
           v == getViewFromStamp(g, s)
           h == RestrictGraph(g, v)
           k == cutToStamp(g, s)
<1>0. /\ IsGraph(g) /\ LabelsOk(g) /\ StampsOk(g) /\ CoOk(g, {})
      /\ PorfOk(g, Events(g)) /\ CutPoint(g, Events(g), r)
      /\ r \in Reads(g) /\ r \in Events(g) /\ s \in Nat
  BY DEF GraphOk, Revisitable, Reads, LabelsOk, IsLabel
<1>1. /\ v \in [Threads -> Nat] /\ \A t \in Threads : v[t] <= Len(g.ev[t])
      /\ \A e \in Events(g) : e[2] <= v[e[1]] <=> Lab(g, e).stamp <= s
  BY <1>0, ViewFromStamp
<1>2. /\ \A t \in Threads : Len(g.ev[t]) \in Nat
      /\ \A e \in Events(g) :
           /\ e[1] \in Threads /\ e[2] \in Nat \ {0} /\ e = <<e[1], e[2]>> /\ e[2] <= Len(g.ev[e[1]])
           /\ Lab(g, e).porf \in [Threads -> Nat] /\ Lab(g, e).stamp \in Nat
  <2>1. \A t \in Threads : Len(g.ev[t]) \in Nat
    BY <1>0 DEF IsGraph, IsSeq
  <2> QED BY <2>1, <1>0, InEvents DEF LabelsOk, IsLabel
<1>3. Keeps(g, r, v)
  BY StampViewKeeps
<1> HIDE DEF v
<1>4. RestrictedOk(h, r)
  BY <1>0, <1>3, RestrictOk
<1>5. /\ IsGraph(h) /\ Events(h) = {e \in Events(g) : e[2] <= v[e[1]]}
      /\ \A e \in Events(h) : Lab(h, e) = Lab(g, e)
  BY <1>0, <1>1, RestrictShape
<1>6. k = [h EXCEPT !.stamp = s + 1]
  BY DEF cutToStamp, v
<1> HIDE DEF h, k
<1>7. /\ DOMAIN k = DOMAIN h /\ k.ev = h.ev /\ k.co = h.co /\ k.stamp = s + 1
  BY <1>5, <1>6 DEF IsGraph
<1> HIDE DEF s
<1>8. IsGraph(k)
  BY <1>0, <1>5, <1>7 DEF IsGraph
<1>9. Events(k) = Events(h) /\ \A e : Lab(k, e) = Lab(h, e)
  BY <1>7 DEF Events, Lab
<1>10. \A e \in Events(h) : Lab(h, e).stamp \in Nat /\ Lab(h, e).stamp <= s
  BY <1>1, <1>2, <1>5
<1>11. LabelsOk(k) /\ StampsOk(k)
  <2>1. LabelsOk(h) /\ StampsOk(h)
    BY <1>4 DEF RestrictedOk
  <2>2. \A e \in Events(h) : Lab(h, e).stamp < s + 1
    BY <1>0, <1>10
  <2> QED BY <2>1, <2>2, <1>7, <1>9 DEF LabelsOk, StampsOk
<1>12. r \in Events(h) /\ Lab(h, r).stamp = s
  BY <1>0, <1>2, <1>3, <1>5 DEF Keeps, s
<1>13. Revisitable(k) = Revisitable(h) /\ \A c \in Revisitable(h) : c \in Events(h)
  BY <1>9 DEF Revisitable, Reads
<1>14. \A c \in Revisitable(k) : c \in Revisitable(h) /\ Lab(k, c).stamp <= Lab(k, r).stamp
  BY <1>9, <1>10, <1>12, <1>13
<1>15. GraphOkBut(k, r)
  <2>1. \A t \in Threads : Len(k.ev[t]) = Len(h.ev[t])
    BY <1>7
  <2>2. \A e \in Events(h) : SameButStamp(Lab(k, e), Lab(h, e))
    BY <1>9 DEF SameButStamp
  <2>3. \A c, e \in Events(h) : Lab(k, c).stamp <= Lab(k, r).stamp =>
          (Lab(k, e).stamp < Lab(k, c).stamp <=> Lab(h, e).stamp < Lab(h, c).stamp)
    BY <1>9
  <2> QED BY <2>1, <2>2, <2>3, <1>4, <1>7, <1>8, <1>9, <1>11, <1>14, RestampOk
<1> QED BY <1>5, <1>9, <1>15 DEF k, s

\* Fresh stamps follow the order in which threads are visited.
LEMMA FreshStamps ==
  ASSUME NEW base \in Nat, NEW late, IsFiniteSet(late),
         \A e \in late : e = <<e[1], e[2]>> /\ e[1] \in Int /\ e[2] \in Int
  PROVE  /\ Cardinality(late) \in Nat
         /\ \A e \in late :
              LET s == FreshStamp(base, late, e)
              IN s \in Nat /\ base < s /\ s < base + 1 + Cardinality(late)
         /\ \A d, e \in late : VisitedBefore(d, e) =>
              FreshStamp(base, late, d) < FreshStamp(base, late, e)
<1> DEFINE B(e) == {d \in late : VisitedBefore(d, e)}
<1>0. Cardinality(late) \in Nat
  BY FS_CardinalityType
<1>1. ASSUME NEW e \in late
      PROVE  IsFiniteSet(B(e)) /\ Cardinality(B(e)) \in Nat /\ Cardinality(B(e)) < Cardinality(late)
  <2>1. B(e) \in SUBSET late /\ B(e) # late
    <3>1. e \notin B(e)
      BY DEF VisitedBefore
    <3> QED BY <3>1
  <2> HIDE DEF B
  <2>2. /\ IsFiniteSet(B(e)) /\ Cardinality(B(e)) <= Cardinality(late)
        /\ Cardinality(B(e)) # Cardinality(late)
    BY <2>1, FS_Subset
  <2>3. Cardinality(B(e)) \in Nat
    BY <2>2, FS_CardinalityType
  <2> QED BY <2>2, <2>3, <1>0
<1>2. ASSUME NEW d \in late, NEW e \in late, VisitedBefore(d, e)
      PROVE  Cardinality(B(d)) < Cardinality(B(e))
  <2>1. B(d) \in SUBSET B(e) /\ B(d) # B(e)
    <3>1. d \in B(e) /\ d \notin B(d)
      BY <1>2 DEF VisitedBefore
    <3>2. ASSUME NEW c \in late, VisitedBefore(c, d) PROVE VisitedBefore(c, e)
      BY <3>2, <1>2 DEF VisitedBefore
    <3> QED BY <3>1, <3>2
  <2>2. /\ IsFiniteSet(B(e)) /\ Cardinality(B(e)) \in Nat /\ Cardinality(B(d)) \in Nat
    BY <1>1
  <2> HIDE DEF B
  <2>3. Cardinality(B(d)) <= Cardinality(B(e)) /\ Cardinality(B(d)) # Cardinality(B(e))
    BY <2>1, <2>2, FS_Subset
  <2> QED BY <2>2, <2>3
<1>3. \A e : FreshStamp(base, late, e) = base + 1 + Cardinality(B(e))
  BY DEF FreshStamp
<1> HIDE DEF B
<1>4. ASSUME NEW e \in late
      PROVE  LET s == FreshStamp(base, late, e)
             IN s \in Nat /\ base < s /\ s < base + 1 + Cardinality(late)
  BY <1>0, <1>1, <1>3
<1>5. ASSUME NEW d \in late, NEW e \in late, VisitedBefore(d, e)
      PROVE  FreshStamp(base, late, d) < FreshStamp(base, late, e)
  BY <1>1, <1>2, <1>3, <1>5
<1> QED BY <1>0, <1>4, <1>5

\* What remains when w revisits r.
LEMMA RevisitViewKeeps ==
  ASSUME NEW g, GraphOk(g, {}), NEW r \in Revisitable(g), NEW w \in Writes(g),
         ~Contains(Lab(g, w).porf, r)
  PROVE  LET v == getRevisitView(g, r, w)
         IN /\ Keeps(g, r, v)
            /\ w[2] <= v[w[1]]
            /\ \A e \in Events(g) : e[2] <= v[e[1]] =>
                 Lab(g, e).stamp <= Lab(g, r).stamp \/ Contains(Lab(g, w).porf, e)
<1> DEFINE a == getViewFromStamp(g, Lab(g, r).stamp)
           b == Lab(g, w).porf
           v == getRevisitView(g, r, w)
<1>0. /\ IsGraph(g) /\ LabelsOk(g) /\ StampsOk(g) /\ PorfOk(g, Events(g))
      /\ r \in Events(g) /\ w \in Events(g)
  BY DEF GraphOk, Revisitable, Reads, Writes
<1>1. \A e \in Events(g) :
        /\ e[1] \in Threads /\ e[2] \in Nat \ {0} /\ e # Init0
        /\ Lab(g, e).porf \in [Threads -> Nat] /\ Lab(g, e).stamp \in Nat
  <2>1. \A t \in Threads : Len(g.ev[t]) \in Nat
    BY <1>0 DEF IsGraph, IsSeq
  <2> QED BY <2>1, <1>0, InEvents DEF LabelsOk, IsLabel
<1>2. Keeps(g, r, a)
  BY StampViewKeeps
<1>3. \A e \in Events(g) : e[2] <= a[e[1]] <=> Lab(g, e).stamp <= Lab(g, r).stamp
  BY <1>0, <1>1, ViewFromStamp
<1>4. /\ b \in [Threads -> Nat] /\ b[w[1]] = w[2] /\ \A t \in Threads : b[t] <= Len(g.ev[t])
      /\ \A d \in Events(g) : d[2] <= b[d[1]] =>
           \A t \in Threads : Lab(g, d).porf[t] <= b[t]
  BY <1>0, <1>1 DEF PorfOk
<1>5. b[r[1]] < r[2]
  BY <1>0, <1>1, <1>4 DEF Contains
<1>6. v = [t \in Threads |-> IF a[t] < b[t] THEN b[t] ELSE a[t]]
  BY DEF getRevisitView, Update
<1> HIDE DEF a, b, v
<1>7. /\ a \in [Threads -> Nat] /\ a[r[1]] = r[2] /\ \A t \in Threads : a[t] <= Len(g.ev[t])
      /\ \A e \in Events(g) \ {r} : e[2] <= a[e[1]] =>
           /\ \A t \in Threads : Lab(g, e).porf[t] <= a[t]
           /\ Lab(g, e).porf[r[1]] < r[2]
  BY <1>2 DEF Keeps
<1>8. /\ v \in [Threads -> Nat]
      /\ \A t \in Threads : a[t] <= v[t] /\ b[t] <= v[t] /\ (v[t] = a[t] \/ v[t] = b[t])
  BY <1>4, <1>6, <1>7
<1>9. \A t \in Threads : v[t] <= Len(g.ev[t])
  BY <1>4, <1>7, <1>8
<1>10. v[r[1]] = r[2]
  <2>1. r[1] \in Threads /\ r[2] \in Nat
    BY <1>0, <1>1
  <2> QED BY <2>1, <1>4, <1>5, <1>7, <1>8
<1>11. ASSUME NEW e \in Events(g) \ {r}, e[2] <= v[e[1]]
       PROVE  /\ \A t \in Threads : Lab(g, e).porf[t] <= v[t]
              /\ Lab(g, e).porf[r[1]] < r[2]
  <2>1. CASE e[2] <= a[e[1]]
    <3>1. /\ \A t \in Threads : Lab(g, e).porf[t] <= a[t]
          /\ Lab(g, e).porf[r[1]] < r[2]
      BY <2>1, <1>7
    <3>2. \A t \in Threads : Lab(g, e).porf[t] \in Nat /\ a[t] \in Nat /\ v[t] \in Nat
      BY <1>1, <1>7, <1>8
    <3> QED BY <3>1, <3>2, <1>8
  <2>2. CASE e[2] <= b[e[1]]
    <3>1. \A t \in Threads : Lab(g, e).porf[t] <= b[t]
      BY <2>2, <1>4
    <3>2. \A t \in Threads : Lab(g, e).porf[t] \in Nat /\ b[t] \in Nat /\ v[t] \in Nat
      BY <1>1, <1>4, <1>8
    <3>3. r[1] \in Threads /\ r[2] \in Nat
      BY <1>0, <1>1
    <3> QED BY <3>1, <3>2, <3>3, <1>5, <1>8
  <2> QED BY <2>1, <2>2, <1>1, <1>8, <1>11
<1>12. w[2] <= v[w[1]]
  BY <1>0, <1>1, <1>4, <1>8
<1>13. ASSUME NEW e \in Events(g), e[2] <= v[e[1]]
       PROVE  Lab(g, e).stamp <= Lab(g, r).stamp \/ Contains(b, e)
  BY <1>1, <1>3, <1>8, <1>13 DEF Contains
<1>14. Keeps(g, r, v)
  BY <1>8, <1>9, <1>10, <1>11 DEF Keeps
<1> QED BY <1>12, <1>13, <1>14 DEF v, b

\* The graph a backward revisit starts from: what it keeps, stamped afresh.
LEMMA CopyOk ==
  ASSUME NEW g, GraphOk(g, {}), NEW r \in Revisitable(g), NEW w \in Writes(g),
         ~Contains(Lab(g, w).porf, r)
  PROVE  LET k == copyGraph(g, r, w)
         IN /\ GraphOkBut(k, r)
            /\ w \in Writes(k) /\ Events(k) \subseteq Events(g)
            /\ \A e \in Events(k) : SameButStamp(Lab(k, e), Lab(g, e))
<1> DEFINE b == Lab(g, w).porf
           v == getRevisitView(g, r, w)
           h == RestrictGraph(g, v)
           base == Lab(g, r).stamp
           late == Late(h, base)
           StampOf(e) == IF e \in late THEN FreshStamp(base, late, e) ELSE Lab(h, e).stamp
           New(e) == CopyLabel(Lab(h, e), StampOf(e), e, b)
           k == copyGraph(g, r, w)
<1>0. /\ IsGraph(g) /\ LabelsOk(g) /\ StampsOk(g) /\ CoOk(g, {})
      /\ r \in Reads(g) /\ r \in Events(g) /\ Lab(g, r).op = "R" /\ base \in Nat
      /\ w \in Events(g) /\ Lab(g, w).op = "W"
  BY DEF GraphOk, Revisitable, Reads, Writes, LabelsOk, IsLabel
<1>1. /\ Keeps(g, r, v) /\ w[2] <= v[w[1]]
      /\ \A e \in Events(g) : e[2] <= v[e[1]] => Lab(g, e).stamp <= base \/ Contains(b, e)
  BY RevisitViewKeeps
<1> HIDE DEF v
<1>2. /\ IsGraph(h) /\ Events(h) = {e \in Events(g) : e[2] <= v[e[1]]}
      /\ \A e \in Events(h) : Lab(h, e) = Lab(g, e)
  BY <1>0, <1>1, RestrictShape DEF Keeps
<1>3. RestrictedOk(h, r)
  BY <1>0, <1>1, RestrictOk
<1>4. k = [h EXCEPT !.ev = [t \in Threads |-> [i \in 1 .. Len(h.ev[t]) |-> New(<<t, i>>)]],
                    !.stamp = base + 1 + Cardinality(late)]
  BY DEF copyGraph, v
<1> HIDE DEF h, k, New, late, base
<1>5. /\ DOMAIN k = DOMAIN h /\ k.co = h.co /\ k.stamp = base + 1 + Cardinality(late)
      /\ k.ev = [t \in Threads |-> [i \in 1 .. Len(h.ev[t]) |-> New(<<t, i>>)]]
  BY <1>2, <1>4 DEF IsGraph
<1>6. \A t \in Threads : /\ Len(h.ev[t]) \in Nat /\ IsSeq(k.ev[t]) /\ Len(k.ev[t]) = Len(h.ev[t])
                         /\ \A i \in 1 .. Len(h.ev[t]) : k.ev[t][i] = New(<<t, i>>)
  <2> TAKE t \in Threads
  <2>1. k.ev[t] = [i \in 1 .. Len(h.ev[t]) |-> New(<<t, i>>)] /\ Len(h.ev[t]) \in Nat
    BY <1>2, <1>5 DEF IsGraph, IsSeq
  <2>2. Len(k.ev[t]) = Len(h.ev[t])
    BY <2>1
  <2> QED BY <2>1, <2>2 DEF IsSeq
<1>7. Events(k) = Events(h) /\ \A e \in Events(h) : Lab(k, e) = New(e)
  <2>1. \A e : e \in Events(k) <=> e \in Events(h)
    BY <1>6, InEvents
  <2>2. ASSUME NEW e \in Events(h) PROVE Lab(k, e) = New(e)
    <3>1. e[1] \in Threads /\ e[2] \in 1 .. Len(h.ev[e[1]]) /\ e = <<e[1], e[2]>>
      BY InEvents
    <3>2. k.ev[e[1]][e[2]] = New(<<e[1], e[2]>>)
      BY <3>1, <1>6
    <3> QED BY <3>1, <3>2, Zenon DEF Lab
  <2> QED BY <2>1, <2>2
<1>8. \A e \in Events(h) : /\ e = <<e[1], e[2]>> /\ e[1] \in Threads /\ e[1] \in Int /\ e[2] \in Int
                           /\ IsLabel(Lab(h, e)) /\ Lab(h, e).stamp \in Nat
  <2> TAKE e \in Events(h)
  <2>1. e[1] \in Threads /\ e[2] \in 1 .. Len(h.ev[e[1]]) /\ e = <<e[1], e[2]>>
    BY InEvents
  <2>2. IsLabel(Lab(h, e))
    BY <1>3 DEF RestrictedOk, LabelsOk
  <2> QED BY <2>1, <2>2, <1>6, NumThreadsAssumption DEF Threads, IsLabel
<1>9. late = {e \in Events(h) : Lab(h, e).stamp > base}
  BY DEF late, Late
<1>10. /\ Cardinality(late) \in Nat
       /\ \A e \in late : LET s == FreshStamp(base, late, e)
                          IN s \in Nat /\ base < s /\ s < base + 1 + Cardinality(late)
       /\ \A d, e \in late : VisitedBefore(d, e) =>
            FreshStamp(base, late, d) < FreshStamp(base, late, e)
  <2>1. IsFiniteSet(late)
    <3>1. late \in SUBSET Events(h)
      BY <1>9
    <3> QED BY <3>1, <1>2, FiniteEvents, FS_Subset
  <2> QED BY <2>1, <1>0, <1>8, <1>9, FreshStamps
<1>11. ASSUME NEW e \in Events(h)
       PROVE  /\ e \in late => Lab(k, e).stamp = FreshStamp(base, late, e)
              /\ e \notin late => Lab(k, e).stamp = Lab(h, e).stamp
              /\ SameButStamp(Lab(k, e), Lab(h, e))
              /\ Lab(h, e).op = "R" /\ Lab(k, e).rev => Lab(h, e).rev /\ ~Contains(b, e)
  <2> DEFINE l == Lab(h, e)
             s == StampOf(e)
  <2>0. Lab(k, e) = CopyLabel(l, s, e, b)
    BY <1>7 DEF New
  <2>1. IsLabel(l)
    BY <1>8
  <2>2. (e \in late => s = FreshStamp(base, late, e)) /\ (e \notin late => s = Lab(h, e).stamp)
    OBVIOUS
  <2> HIDE DEF l, s
  <2>3. CASE l.op = "R" /\ Contains(b, e)
    <3>1. Lab(k, e) = [[l EXCEPT !.stamp = s] EXCEPT !.rev = FALSE]
      BY <2>0, <2>3 DEF CopyLabel
    <3>2. {"stamp", "rev"} \subseteq DOMAIN l
      BY <2>1, <2>3 DEF IsLabel
    <3>3. Lab(k, e).stamp = s /\ ~Lab(k, e).rev /\ SameButStamp(Lab(k, e), l)
      BY <3>1, <3>2 DEF SameButStamp
    <3> QED BY <2>2, <3>3 DEF l
  <2>4. CASE ~(l.op = "R" /\ Contains(b, e))
    <3>1. Lab(k, e) = [l EXCEPT !.stamp = s]
      BY <2>0, <2>4 DEF CopyLabel
    <3>2. "stamp" \in DOMAIN l
      BY <2>1 DEF IsLabel
    <3>3. Lab(k, e).stamp = s /\ SameButStamp(Lab(k, e), l)
      BY <3>1, <3>2 DEF SameButStamp
    <3>4. l.op = "R" => Lab(k, e).rev = l.rev
      BY <2>1, <3>1 DEF IsLabel
    <3> QED BY <2>2, <2>4, <3>3, <3>4 DEF l
  <2> QED BY <2>3, <2>4
<1>12. \A e \in Events(h) : /\ Lab(k, e).stamp \in Nat /\ Lab(k, e).stamp < k.stamp
                            /\ e \in late => base < Lab(k, e).stamp
                            /\ e \notin late => Lab(k, e).stamp = Lab(h, e).stamp /\ Lab(k, e).stamp <= base
  <2> TAKE e \in Events(h)
  <2>0. base \in Nat /\ Cardinality(late) \in Nat /\ k.stamp = base + 1 + Cardinality(late)
    BY <1>0, <1>5, <1>10
  <2>1. CASE e \in late
    <3> DEFINE s == FreshStamp(base, late, e)
    <3>1. s \in Nat /\ base < s /\ s < base + 1 + Cardinality(late) /\ Lab(k, e).stamp = s
      BY <2>1, <1>10, <1>11
    <3> HIDE DEF s
    <3> QED BY <2>0, <2>1, <3>1
  <2>2. CASE e \notin late
    <3>1. Lab(h, e).stamp \in Nat /\ ~(Lab(h, e).stamp > base) /\ Lab(k, e).stamp = Lab(h, e).stamp
      BY <2>2, <1>8, <1>9, <1>11
    <3> QED BY <2>0, <2>2, <3>1
  <2> QED BY <2>1, <2>2
<1>13. IsGraph(k)
  <2>1. k.stamp \in Nat
    BY <1>0, <1>5, <1>10
  <2> QED BY <2>1, <1>2, <1>5, <1>6 DEF IsGraph
<1>14. LabelsOk(k)
  <2> SUFFICES ASSUME NEW e \in Events(h) PROVE IsLabel(Lab(k, e))
    BY <1>7 DEF LabelsOk
  <2> QED BY <1>8, <1>11, <1>12 DEF IsLabel, SameButStamp
<1>15. StampsOk(k)
  <2> SUFFICES ASSUME NEW d \in Events(h), NEW e \in Events(h)
               PROVE  /\ Lab(k, e).stamp < k.stamp
                      /\ Lab(k, d).stamp = Lab(k, e).stamp => d = e
                      /\ d[1] = e[1] /\ d[2] < e[2] => Lab(k, d).stamp < Lab(k, e).stamp
    BY <1>7 DEF StampsOk
  <2>0. StampsOk(h)
    BY <1>3 DEF RestrictedOk
  <2>1. CASE d \in late /\ e \in late
    <3>1. VisitedBefore(d, e) \/ VisitedBefore(e, d) \/ d = e
      BY <1>8 DEF VisitedBefore
    <3>2. d[1] = e[1] /\ d[2] < e[2] => VisitedBefore(d, e)
      BY DEF VisitedBefore
    <3> QED BY <2>1, <3>1, <3>2, <1>10, <1>11, <1>12
  <2>2. CASE d \notin late /\ e \notin late
    BY <2>0, <2>2, <1>12 DEF StampsOk
  <2>3. CASE d \in late /\ e \notin late
    <3>1. ~(d[1] = e[1] /\ d[2] < e[2])
      BY <2>0, <2>3, <1>0, <1>8, <1>9 DEF StampsOk
    <3> QED BY <2>3, <3>1, <1>0, <1>12
  <2>4. CASE d \notin late /\ e \in late
    BY <2>4, <1>0, <1>12
  <2> QED BY <2>1, <2>2, <2>3, <2>4
<1>16. r \in Events(h) /\ r \notin late /\ Lab(k, r).stamp = base
  <2>1. r \in Events(h)
    BY <1>3 DEF RestrictedOk, Reads
  <2> QED BY <2>1, <1>0, <1>2, <1>9, <1>12 DEF base
<1>17. ASSUME NEW c \in Revisitable(k)
       PROVE  c \in Revisitable(h) /\ Lab(k, c).stamp <= Lab(k, r).stamp
  <2>1. c \in Events(h) /\ Lab(k, c).op = "R" /\ Lab(k, c).rev
    BY <1>7 DEF Revisitable, Reads
  <2>2. Lab(h, c).op = "R"
    BY <2>1, <1>8, <1>11 DEF SameButStamp, IsLabel
  <2>3. Lab(h, c).rev /\ ~Contains(b, c)
    BY <2>1, <2>2, <1>11
  <2>4. c \notin late
    BY <2>1, <2>3, <1>0, <1>1, <1>2, <1>8, <1>9
  <2> QED BY <2>1, <2>2, <2>3, <2>4, <1>12, <1>16 DEF Revisitable, Reads
<1>18. ASSUME NEW c \in Events(h), NEW e \in Events(h), Lab(k, c).stamp <= Lab(k, r).stamp
       PROVE  Lab(k, e).stamp < Lab(k, c).stamp <=> Lab(h, e).stamp < Lab(h, c).stamp
  <2>1. c \notin late
    BY <1>0, <1>12, <1>16, <1>18
  <2>2. CASE e \in late
    BY <2>1, <2>2, <1>0, <1>8, <1>9, <1>12
  <2>3. CASE e \notin late
    BY <2>1, <2>3, <1>12
  <2> QED BY <2>2, <2>3
<1>19. GraphOkBut(k, r)
  <2>1. \A t \in Threads : Len(k.ev[t]) = Len(h.ev[t])
    BY <1>6
  <2>2. \A e \in Events(h) : SameButStamp(Lab(k, e), Lab(h, e))
    BY <1>11
  <2> QED BY <2>1, <2>2, <1>3, <1>5, <1>7, <1>13, <1>14, <1>15, <1>17, <1>18, RestampOk
<1>20. w \in Writes(k) /\ Events(k) \subseteq Events(g)
  <2>1. w \in Events(h) /\ Lab(h, w).op = "W"
    BY <1>0, <1>1, <1>2
  <2>2. Lab(k, w).op = "W"
    BY <2>1, <1>8, <1>11 DEF SameButStamp, IsLabel
  <2> QED BY <2>1, <2>2, <1>2, <1>7 DEF Writes
<1>21. \A e \in Events(k) : SameButStamp(Lab(k, e), Lab(g, e))
  BY <1>2, <1>7, <1>11
<1> QED BY <1>19, <1>20, <1>21 DEF k

-----------------------------------------------------------------------------
(* Stores are placed in coherence *)

\* What inserting does to each position.
LEMMA InsertSeq ==
  ASSUME NEW s, IsSeq(s), NEW off \in 0 .. Len(s), NEW e
  PROVE  LET b == InsertAtOffset(s, off, e)
         IN /\ IsSeq(b) /\ Len(b) = Len(s) + 1 /\ b[off + 1] = e
            /\ \A i \in 1 .. off : b[i] = s[i]
            /\ \A i \in off + 1 .. Len(s) : b[i + 1] = s[i]
<1> DEFINE S == {s[i] : i \in 1 .. Len(s)} \cup {e}
           p == SubSeq(s, 1, off)
           q == SubSeq(s, off + 1, Len(s))
           b == p \o <<e>> \o q
<1>1. Len(s) \in Nat /\ s = [i \in 1 .. Len(s) |-> s[i]]
  BY DEF IsSeq
<1>2. s \in Seq(S) /\ e \in S
  BY <1>1
<1> HIDE DEF S
<1>3. p \in Seq(S) /\ Len(p) = off /\ \A i \in 1 .. off : p[i] = s[i]
  BY <1>1, <1>2
<1>4. q \in Seq(S) /\ Len(q) = Len(s) - off /\ \A i \in 1 .. Len(s) - off : q[i] = s[i + off]
  BY <1>1, <1>2
<1> HIDE DEF p, q
<1> DEFINE a == p \o <<e>>
<1>5. a \in Seq(S) /\ Len(a) = off + 1 /\ a[off + 1] = e /\ \A i \in 1 .. off : a[i] = s[i]
  BY <1>2, <1>3
<1> HIDE DEF a
<1>6. /\ a \o q \in Seq(S) /\ Len(a \o q) = Len(s) + 1 /\ (a \o q)[off + 1] = e
      /\ \A i \in 1 .. off : (a \o q)[i] = s[i]
      /\ \A i \in off + 1 .. Len(s) : (a \o q)[i + 1] = s[i]
  <2>0. Len(s) \in Nat /\ off \in Nat /\ off <= Len(s)
    BY <1>1
  <2>1. a \o q \in Seq(S) /\ Len(a \o q) = Len(s) + 1
    <3>0. a \in Seq(S) /\ q \in Seq(S)
      BY <1>4, <1>5
    <3>1. a \o q \in Seq(S) /\ Len(a \o q) = Len(a) + Len(q)
      BY <3>0
    <3>2. (off + 1) + (Len(s) - off) = Len(s) + 1
      BY <2>0
    <3> QED BY <3>1, <3>2, <1>4, <1>5
  <2>2. \A i \in 1 .. off + 1 : (a \o q)[i] = a[i]
    BY <2>0, <1>4, <1>5
  <2>3. \A i \in off + 2 .. Len(s) + 1 : (a \o q)[i] = q[i - (off + 1)]
    BY <2>0, <1>4, <1>5
  <2>4. ASSUME NEW i \in off + 1 .. Len(s) PROVE (a \o q)[i + 1] = s[i]
    <3>1. i + 1 \in off + 2 .. Len(s) + 1 /\ (i + 1) - (off + 1) = i - off
          /\ i - off \in 1 .. Len(s) - off /\ (i - off) + off = i
      BY <2>0
    <3>2. (a \o q)[i + 1] = q[i - off]
      BY <2>3, <3>1
    <3> QED BY <1>4, <3>1, <3>2
  <2> QED BY <2>1, <2>2, <2>4, <1>5
<1>7. b = a \o q
  BY DEF a
<1>8. b = InsertAtOffset(s, off, e)
  BY DEF InsertAtOffset, p, q
<1> HIDE DEF b
<1>9. b \in Seq(S) /\ Len(b) = Len(s) + 1
  BY <1>6, <1>7
<1>10. IsSeq(b)
  <2>1. b = [i \in 1 .. Len(b) |-> b[i]]
    BY <1>9
  <2> QED BY <2>1, <1>1, <1>9 DEF IsSeq
<1> QED BY <1>6, <1>7, <1>8, <1>10

\* addStoreToLoc() with any offset in range completes coherence.
LEMMA PlaceStoreOk ==
  ASSUME NEW g, NEW e \in Writes(g), GraphOk(g, {e}), NEW loc \in Locs, loc = Lab(g, e).loc,
         NEW off \in 0 .. Len(g.co[loc])
  PROVE  LET h == addStoreToLoc(g, loc, e, off)
         IN GraphOk(h, {}) /\ h.ev = g.ev /\ h.stamp = g.stamp
<1> DEFINE h == addStoreToLoc(g, loc, e, off)
           s == g.co[loc]
           b == InsertAtOffset(s, off, e)
<1>0. /\ IsGraph(g) /\ LabelsOk(g) /\ StampsOk(g) /\ CoOk(g, {e})
      /\ PorfOk(g, Events(g)) /\ RfOk(g, Events(g))
      /\ \A r \in Revisitable(g) : CutPoint(g, Events(g), r)
  BY DEF GraphOk
<1>1. /\ DOMAIN h = DOMAIN g /\ h.ev = g.ev /\ h.stamp = g.stamp
      /\ h.co = [g.co EXCEPT ![loc] = b]
  BY <1>0 DEF addStoreToLoc, IsGraph
<1>2. DOMAIN g.co = Locs /\ IsSeq(s) /\ Len(s) \in Nat
  BY <1>0 DEF IsGraph, IsSeq
<1>3. /\ IsSeq(b) /\ Len(b) = Len(s) + 1 /\ b[off + 1] = e
      /\ \A i \in 1 .. off : b[i] = s[i]
      /\ \A i \in off + 1 .. Len(s) : b[i + 1] = s[i]
  BY <1>2, InsertSeq
<1> HIDE DEF h, b
<1>4. h.co[loc] = b /\ \A l \in Locs \ {loc} : h.co[l] = g.co[l]
  BY <1>1, <1>2
<1>5. IsGraph(h)
  BY <1>0, <1>1, <1>2, <1>3, <1>4 DEF IsGraph
<1>6. Events(h) = Events(g) /\ \A d : Lab(h, d) = Lab(g, d)
  BY <1>1 DEF Events, Lab
<1>7. Writes(h) = Writes(g) /\ Revisitable(h) = Revisitable(g)
  BY <1>6 DEF Writes, Revisitable, Reads
<1>8. CoOk(h, {})
  <2> SUFFICES ASSUME NEW l \in Locs
               PROVE  /\ \A x : (\E i \in 1 .. Len(h.co[l]) : h.co[l][i] = x)
                                 <=> x \in Writes(g) /\ Lab(g, x).loc = l
                      /\ \A i, j \in 1 .. Len(h.co[l]) : h.co[l][i] = h.co[l][j] => i = j
    BY <1>6, <1>7 DEF CoOk
  <2>0. /\ {g.co[l][i] : i \in 1 .. Len(g.co[l])} = {w \in Writes(g) \ {e} : Lab(g, w).loc = l}
        /\ \A i, j \in 1 .. Len(g.co[l]) : g.co[l][i] = g.co[l][j] => i = j
    BY <1>0 DEF CoOk
  <2>1. \A x : (\E i \in 1 .. Len(g.co[l]) : g.co[l][i] = x)
                <=> x \in Writes(g) /\ x # e /\ Lab(g, x).loc = l
    BY <2>0
  <2>2. CASE l # loc
    BY <2>0, <2>1, <2>2, <1>4
  <2>3. CASE l = loc
    <3>1. \A j \in 1 .. Len(s) + 1 : j \in 1 .. off \/ j = off + 1 \/ j - 1 \in off + 1 .. Len(s)
      BY <1>2
    <3>2. ASSUME NEW j \in 1 .. Len(s) + 1
          PROVE  \/ j \in 1 .. off /\ b[j] = s[j]
                 \/ j = off + 1 /\ b[j] = e
                 \/ j - 1 \in off + 1 .. Len(s) /\ b[j] = s[j - 1]
      <4>1. (j - 1) + 1 = j
        OBVIOUS
      <4> QED BY <4>1, <3>1, <1>3
    <3>3. \A i \in 1 .. Len(s) : s[i] # e
      BY <2>1, <2>3
    <3>4. \A x : (\E j \in 1 .. Len(s) + 1 : b[j] = x) <=> x = e \/ \E i \in 1 .. Len(s) : s[i] = x
      <4> TAKE x
      <4>1. ASSUME NEW j \in 1 .. Len(s) + 1, b[j] = x
            PROVE  x = e \/ \E i \in 1 .. Len(s) : s[i] = x
        <5>1. off \in Nat /\ off <= Len(s)
          BY <1>2
        <5>2. j \in 1 .. off => j \in 1 .. Len(s)
          BY <5>1, <1>2
        <5>3. j - 1 \in off + 1 .. Len(s) => j - 1 \in 1 .. Len(s)
          BY <5>1, <1>2
        <5> QED BY <4>1, <3>2, <5>2, <5>3
      <4>2. ASSUME x = e PROVE \E j \in 1 .. Len(s) + 1 : b[j] = x
        <5>1. off + 1 \in 1 .. Len(s) + 1
          BY <1>2
        <5> QED BY <4>2, <5>1, <1>3
      <4>3. ASSUME NEW i \in 1 .. Len(s), s[i] = x PROVE \E j \in 1 .. Len(s) + 1 : b[j] = x
        <5>1. CASE i \in 1 .. off
          <6>1. i \in 1 .. Len(s) + 1
            BY <1>2
          <6> QED BY <4>3, <5>1, <6>1, <1>3
        <5>2. CASE i \in off + 1 .. Len(s)
          <6>1. i + 1 \in 1 .. Len(s) + 1
            BY <1>2
          <6> QED BY <4>3, <5>2, <6>1, <1>3
        <5> QED BY <5>1, <5>2, <1>2
      <4> QED BY <4>1, <4>2, <4>3
    <3>5. ASSUME NEW i \in 1 .. Len(s) + 1, NEW j \in 1 .. Len(s) + 1, b[i] = b[j]
          PROVE  i = j
      <4>1. off \in Nat /\ off <= Len(s) /\ Len(s) \in Nat
        BY <1>2
      <4>2. \A n \in 1 .. off : n \in 1 .. Len(s)
        BY <4>1
      <4>3. \A n \in off + 1 .. Len(s) : n \in 1 .. Len(s)
        BY <4>1
      <4>4. \A m, n \in 1 .. Len(s) : s[m] = s[n] => m = n
        BY <2>0, <2>3
      <4>5. i = off + 1 <=> j = off + 1
        <5>1. ASSUME NEW n \in 1 .. Len(s) + 1 PROVE n = off + 1 <=> b[n] = e
          <6>1. n \in 1 .. off => n # off + 1 /\ s[n] # e
            BY <4>1, <4>2, <3>3
          <6>2. n - 1 \in off + 1 .. Len(s) => n # off + 1 /\ s[n - 1] # e
            BY <4>1, <4>3, <3>3
          <6> QED BY <6>1, <6>2, <3>2
        <5> QED BY <5>1, <3>5
      <4>6. ASSUME i # off + 1, j # off + 1 PROVE i = j
        <5> DEFINE m == IF i \in 1 .. off THEN i ELSE i - 1
                   n == IF j \in 1 .. off THEN j ELSE j - 1
        <5>1. m \in 1 .. Len(s) /\ b[i] = s[m]
          BY <3>2, <4>2, <4>3, <4>6
        <5>2. n \in 1 .. Len(s) /\ b[j] = s[n]
          BY <3>2, <4>2, <4>3, <4>6
        <5>3. m = n
          BY <5>1, <5>2, <4>4, <3>5
        <5> QED BY <5>3, <3>1, <4>1, <4>6
      <4> QED BY <4>5, <4>6
    <3>6. e \in Writes(g) /\ Lab(g, e).loc = l
      BY <2>3
    <3>7. h.co[l] = b /\ Len(b) = Len(s) + 1 /\ s = g.co[l]
      BY <2>3, <1>3, <1>4
    <3>8. \A x : (\E j \in 1 .. Len(s) + 1 : b[j] = x) <=> x \in Writes(g) /\ Lab(g, x).loc = l
      BY <2>1, <3>4, <3>6, <3>7, Zenon
    <3>9. \A i, j \in 1 .. Len(s) + 1 : b[i] = b[j] => i = j
      BY <3>5, Zenon
    <3> HIDE DEF s
    <3>10. /\ \A x : (\E i \in 1 .. Len(b) : b[i] = x) <=> x \in Writes(g) /\ Lab(g, x).loc = l
           /\ \A i, j \in 1 .. Len(b) : b[i] = b[j] => i = j
      BY <3>7, <3>8, <3>9
    <3> QED BY <3>7, <3>10
  <2> QED BY <2>2, <2>3
<1>9. LabelsOk(h) /\ StampsOk(h) /\ PorfOk(h, Events(h)) /\ RfOk(h, Events(h))
  BY <1>0, <1>1, <1>6, <1>7 DEF LabelsOk, StampsOk, PorfOk, RfOk
<1>10. \A r \in Revisitable(h) : CutPoint(h, Events(h), r)
  BY <1>0, <1>6, <1>7 DEF CutPoint
<1> QED BY <1>1, <1>5, <1>8, <1>9, <1>10 DEF GraphOk, h

\* splitLocMOBefore() returns an offset in range.
LEMMA SplitRange ==
  ASSUME NEW g, NEW loc, NEW e, Len(g.co[loc]) \in Nat
  PROVE  splitLocMOBefore(g, loc, e) \in 0 .. Len(g.co[loc])
<1> DEFINE n == Len(g.co[loc])
           S == {0} \cup {i \in 1 .. n : isWriteRfBefore(g, g.co[loc][i], PrevHb(g, e))}
<1>1. S \in SUBSET Nat /\ S # {} /\ \A x \in S : x <= n
  OBVIOUS
<1>2. splitLocMOBefore(g, loc, e) = MaxOf(S)
  BY DEF splitLocMOBefore
<1> HIDE DEF S
<1>3. MaxOf(S) \in S
  BY <1>1, MaxOfBounded
<1>4. MaxOf(S) \in Nat /\ MaxOf(S) <= n
  BY <1>1, <1>3
<1> QED BY <1>2, <1>4

\* A read is offered the initializer or stores to its location.
LEMMA CoherentStoresOk ==
  ASSUME NEW g, NEW P, IsGraph(g), CoOk(g, P), NEW loc \in Locs, NEW e,
         NEW i \in 1 .. Len(getCoherentStores(g, loc, e))
  PROVE  LET w == getCoherentStores(g, loc, e)[i]
         IN w = Init0 \/ (w \in Writes(g) /\ Lab(g, w).loc = loc)
<1> DEFINE n == splitLocMOBefore(g, loc, e)
           s == g.co[loc]
           S == {Init0} \cup {w \in Writes(g) : Lab(g, w).loc = loc}
           x == IF n = 0 THEN Init0 ELSE s[n]
           q == SubSeq(s, n + 1, Len(s))
<1>1. Len(s) \in Nat /\ s = [j \in 1 .. Len(s) |-> s[j]]
  BY DEF IsGraph, IsSeq
<1>2. n \in 0 .. Len(s)
  BY <1>1, SplitRange
<1>3. \A j \in 1 .. Len(s) : s[j] \in S
  <2>1. {s[j] : j \in 1 .. Len(s)} = {w \in Writes(g) \ P : Lab(g, w).loc = loc}
    BY DEF CoOk
  <2> QED BY <2>1
<1>4. getCoherentStores(g, loc, e) = <<x>> \o q
  BY DEF getCoherentStores
<1>5. Init0 \in S
  OBVIOUS
<1> HIDE DEF S, n, s
<1>6. s \in Seq(S)
  BY <1>1, <1>3
<1>7. x \in S
  BY <1>1, <1>2, <1>3, <1>5
<1>8. q \in Seq(S)
  BY <1>1, <1>2, <1>6
<1> HIDE DEF x, q
<1>9. <<x>> \in Seq(S)
  BY <1>7
<1>10. getCoherentStores(g, loc, e) \in Seq(S)
  BY <1>4, <1>8, <1>9
<1>11. getCoherentStores(g, loc, e)[i] \in S
  BY <1>10
<1> QED BY <1>11 DEF S

\* The offset of a store that is in coherence.
LEMMA StoreOffset ==
  ASSUME NEW g, IsGraph(g), NEW P, CoOk(g, P), NEW loc \in Locs, NEW w,
         w = Init0 \/ (w \in Writes(g) \ P /\ Lab(g, w).loc = loc)
  PROVE  getStoreOffset(g, loc, w) + 1 \in 0 .. Len(g.co[loc])
<1>1. Len(g.co[loc]) \in Nat
  BY DEF IsGraph, IsSeq
<1>2. CASE w = Init0
  BY <1>1, <1>2 DEF getStoreOffset
<1>3. CASE w # Init0
  <2>1. {g.co[loc][j] : j \in 1 .. Len(g.co[loc])} = {d \in Writes(g) \ P : Lab(g, d).loc = loc}
    BY DEF CoOk
  <2>2. \E j \in 1 .. Len(g.co[loc]) : g.co[loc][j] = w
    BY <2>1, <1>3
  <2> DEFINE j == CHOOSE i \in 1 .. Len(g.co[loc]) : g.co[loc][i] = w
  <2>3. j \in 1 .. Len(g.co[loc])
    BY <2>2
  <2>4. getStoreOffset(g, loc, w) = j - 1
    BY <1>3 DEF getStoreOffset
  <2> HIDE DEF j
  <2> QED BY <2>3, <2>4, <1>1
<1> QED BY <1>2, <1>3

-----------------------------------------------------------------------------
(* The invariant of graphs *)

\* The graph at the start of an exploration.
LEMMA EmptyGraphOk == GraphOk(EmptyGraph, {})
<1> DEFINE g == EmptyGraph
<1>1. /\ g.ev = [t \in Threads |-> <<>>] /\ g.co = [l \in Locs |-> <<>>] /\ g.stamp = 1
      /\ DOMAIN g = {"ev", "co", "ordered", "stamp"}
  BY DEF EmptyGraph
<1> HIDE DEF g
<1>2. IsSeq(<<>>) /\ Len(<<>>) = 0
  BY DEF IsSeq
<1>3. IsGraph(g)
  BY <1>1, <1>2 DEF IsGraph
<1>4. Events(g) = {}
  <2>1. \A t \in Threads : 1 .. Len(g.ev[t]) = {}
    BY <1>1, <1>2
  <2>2. \A e : e \notin Events(g)
    BY <2>1, InEvents
  <2> QED BY <2>2
<1>5. CoOk(g, {})
  <2>1. Writes(g) = {}
    BY <1>4 DEF Writes
  <2>2. \A l \in Locs : 1 .. Len(g.co[l]) = {}
    BY <1>1, <1>2
  <2> QED BY <2>1, <2>2 DEF CoOk
<1>6. LabelsOk(g) /\ StampsOk(g) /\ PorfOk(g, Events(g)) /\ RfOk(g, Events(g))
  BY <1>4 DEF LabelsOk, StampsOk, PorfOk, RfOk
<1>7. Revisitable(g) = {}
  BY <1>4 DEF Revisitable, Reads
<1> QED BY <1>3, <1>5, <1>6, <1>7 DEF GraphOk, g

\* The invariant implies what the runs check.
LEMMA GraphOkWellFormed ==
  ASSUME NEW g, GraphOk(g, {})
  PROVE  WellFormed(g)
<1>1. \A r \in Reads(g) : Lab(g, r).rf # Init0 =>
        Lab(g, r).rf \in Writes(g) /\ Lab(g, Lab(g, r).rf).loc = Lab(g, r).loc
  BY DEF GraphOk, RfOk, Reads
<1>2. \A l \in Locs :
        /\ {g.co[l][i] : i \in 1 .. Len(g.co[l])} = {w \in Writes(g) : Lab(g, w).loc = l}
        /\ \A i, j \in 1 .. Len(g.co[l]) : g.co[l][i] = g.co[l][j] => i = j
  BY DEF GraphOk, CoOk
<1>3. StampsOk(g)
  BY DEF GraphOk
<1> QED BY <1>1, <1>2, <1>3 DEF WellFormed, StampsOk

\* A read that has just been added may be given any store to read.
LEMMA NewReadOk ==
  ASSUME NEW g, GraphOk(g, {}), NEW t \in Threads, NEW lab, IsLabel(lab), lab.op = "R",
         GraphOk(addLabel(g, t, lab), {})
  PROVE  GraphOkBut(addLabel(g, t, lab), NextEvent(g, t))
<1> DEFINE h == addLabel(g, t, lab)
           n == NextEvent(g, t)
           E == Events(h) \ {n}
<1>1. /\ IsGraph(h) /\ h.stamp = g.stamp + 1
      /\ Events(h) = Events(g) \cup {n} /\ n \notin Events(g)
      /\ \A e \in Events(g) : Lab(h, e) = Lab(g, e)
      /\ Lab(h, n) = [lab EXCEPT !.stamp = g.stamp]
      /\ \A u \in Threads : Len(g.ev[u]) \in Nat
      /\ Len(h.ev[t]) = Len(g.ev[t]) + 1
  BY AddLabelShape DEF GraphOk, IsLabel
<1>2. n[1] = t /\ n[2] = Len(g.ev[t]) + 1
  BY DEF NextEvent
<1>3. Lab(h, n).op = "R" /\ Lab(h, n).stamp = g.stamp
  BY <1>1 DEF IsLabel
<1> HIDE DEF h, n
<1>4. /\ LabelsOk(h) /\ StampsOk(h) /\ CoOk(h, {})
      /\ PorfOk(h, Events(h)) /\ RfOk(h, Events(h))
      /\ \A r \in Revisitable(h) : CutPoint(h, Events(h), r)
  BY DEF GraphOk, h
<1>5. n \in Reads(h) /\ n[2] = Len(h.ev[n[1]])
  BY <1>1, <1>2, <1>3 DEF Reads
<1>6. PorfOk(h, E) /\ RfOk(h, E) /\ \A r \in Revisitable(h) : CutPoint(h, E, r)
  BY <1>4 DEF PorfOk, RfOk, CutPoint
<1>7. ASSUME NEW e \in E PROVE Lab(h, e).porf[n[1]] < n[2]
  <2>1. e \in Events(g) /\ Lab(h, e) = Lab(g, e)
    BY <1>1
  <2>2. Lab(g, e).porf[t] <= Len(g.ev[t]) /\ Lab(g, e).porf[t] \in Nat
    BY <2>1 DEF GraphOk, PorfOk, LabelsOk, IsLabel
  <2> QED BY <2>1, <2>2, <1>1, <1>2
<1>8. ASSUME NEW c \in Revisitable(h) PROVE Lab(h, c).stamp <= Lab(h, n).stamp
  <2>1. c \in Events(h) /\ Lab(h, c).stamp < g.stamp + 1 /\ Lab(h, c).stamp \in Nat
    BY <1>1, <1>4 DEF Revisitable, Reads, StampsOk, LabelsOk, IsLabel
  <2>2. g.stamp \in Nat
    BY DEF GraphOk, IsGraph
  <2> QED BY <2>1, <2>2, <1>3
<1> QED BY <1>1, <1>4, <1>5, <1>6, <1>7, <1>8 DEF GraphOkBut, h, n

-----------------------------------------------------------------------------
(* Changes that the invariant does not depend on *)

\* What the invariant asks of a label is the same.
SameLabel(l, m) ==
  /\ IsLabel(l) /\ l.op = m.op /\ l.stamp = m.stamp /\ l.porf = m.porf
  /\ m.op = "R" => l.rf = m.rf /\ l.rev = m.rev /\ l.loc = m.loc
  /\ m.op = "W" => l.loc = m.loc

\* A graph with the same labels, as far as the invariant is concerned.
LEMMA SimilarOk ==
  ASSUME NEW g, NEW h, NEW P, GraphOk(g, P), IsGraph(h), h.co = g.co, h.stamp = g.stamp,
         Events(h) = Events(g), \A t \in Threads : Len(h.ev[t]) = Len(g.ev[t]),
         \A e \in Events(g) : SameLabel(Lab(h, e), Lab(g, e))
  PROVE  GraphOk(h, P)
<1>0. /\ IsGraph(g) /\ LabelsOk(g) /\ StampsOk(g) /\ CoOk(g, P)
      /\ PorfOk(g, Events(g)) /\ RfOk(g, Events(g))
      /\ \A r \in Revisitable(g) : CutPoint(g, Events(g), r)
  BY DEF GraphOk
<1>1. \A e \in Events(g) :
        LET l == Lab(h, e)
            m == Lab(g, e)
        IN /\ IsLabel(l) /\ l.op = m.op /\ l.stamp = m.stamp /\ l.porf = m.porf
           /\ m.op = "R" => l.rf = m.rf /\ l.rev = m.rev /\ l.loc = m.loc
           /\ m.op = "W" => l.loc = m.loc
  BY DEF SameLabel
<1>2. Writes(h) = Writes(g) /\ \A w \in Writes(g) : w \in Events(g) /\ Lab(g, w).op = "W"
  BY <1>1 DEF Writes
<1>3. Revisitable(h) = Revisitable(g) /\ \A r \in Revisitable(g) : r \in Events(g)
  BY <1>1 DEF Revisitable, Reads
<1>4. LabelsOk(h) /\ StampsOk(h)
  BY <1>0, <1>1 DEF LabelsOk, StampsOk
<1>5. CoOk(h, P)
  BY <1>0, <1>1, <1>2 DEF CoOk
<1>6. PorfOk(h, Events(h))
  BY <1>0, <1>1 DEF PorfOk
<1>7. RfOk(h, Events(h))
  <2> SUFFICES ASSUME NEW e \in Events(g), Lab(h, e).op = "R", Lab(h, e).rf # Init0
               PROVE  LET w == Lab(h, e).rf
                      IN /\ w \in Writes(h) /\ Lab(h, w).loc = Lab(h, e).loc
                         /\ w[2] <= Lab(h, e).porf[w[1]]
    BY DEF RfOk
  <2>1. LET w == Lab(g, e).rf
        IN /\ w \in Writes(g) /\ Lab(g, w).loc = Lab(g, e).loc
           /\ w[2] <= Lab(g, e).porf[w[1]]
    BY <1>0, <1>1 DEF RfOk
  <2> QED BY <2>1, <1>1, <1>2
<1>8. \A r \in Revisitable(h) : CutPoint(h, Events(h), r)
  BY <1>0, <1>1, <1>3 DEF CutPoint
<1> QED BY <1>4, <1>5, <1>6, <1>7, <1>8 DEF GraphOk

\* The flags of -wb are not part of the invariant.
LEMMA OrderedOk ==
  ASSUME NEW g, IsGraph(g), NEW x
  PROVE  LET h == [g EXCEPT !.ordered = x]
         IN /\ IsGraph(h) /\ h.ev = g.ev /\ h.co = g.co /\ h.stamp = g.stamp
            /\ Events(h) = Events(g) /\ \A e : Lab(h, e) = Lab(g, e)
            /\ \A P : GraphOk(g, P) => GraphOk(h, P)
            /\ \A r : GraphOkBut(g, r) => GraphOkBut(h, r)
<1> DEFINE h == [g EXCEPT !.ordered = x]
<1>1. DOMAIN h = DOMAIN g /\ h.ev = g.ev /\ h.co = g.co /\ h.stamp = g.stamp
  BY DEF IsGraph
<1> HIDE DEF h
<1>2. IsGraph(h) /\ Events(h) = Events(g) /\ \A e : Lab(h, e) = Lab(g, e)
  BY <1>1 DEF IsGraph, Events, Lab
<1>3. Reads(h) = Reads(g) /\ Writes(h) = Writes(g)
  BY <1>2 DEF Reads, Writes
<1>4. Revisitable(h) = Revisitable(g)
  BY <1>2, <1>3 DEF Revisitable
<1>5. /\ LabelsOk(g) <=> LabelsOk(h)
      /\ StampsOk(g) <=> StampsOk(h)
      /\ \A P : CoOk(g, P) <=> CoOk(h, P)
  BY <1>1, <1>2, <1>3 DEF LabelsOk, StampsOk, CoOk
<1>6. /\ \A E : PorfOk(g, E) <=> PorfOk(h, E)
      /\ \A E : RfOk(g, E) <=> RfOk(h, E)
      /\ \A E, c : CutPoint(g, E, c) <=> CutPoint(h, E, c)
  BY <1>1, <1>2, <1>3 DEF PorfOk, RfOk, CutPoint
<1>7. \A P : GraphOk(g, P) => GraphOk(h, P)
  BY <1>2, <1>4, <1>5, <1>6 DEF GraphOk
<1>8. ASSUME NEW r, GraphOkBut(g, r) PROVE GraphOkBut(h, r)
  <2> DEFINE E == Events(g) \ {r}
  <2>1. /\ LabelsOk(g) /\ StampsOk(g) /\ CoOk(g, {}) /\ PorfOk(g, E) /\ RfOk(g, E)
        /\ \A c \in Revisitable(g) : CutPoint(g, E, c)
    BY <1>8 DEF GraphOkBut
  <2>2. /\ LabelsOk(h) /\ StampsOk(h) /\ CoOk(h, {}) /\ PorfOk(h, E) /\ RfOk(h, E)
        /\ \A c \in Revisitable(h) : CutPoint(h, E, c)
    BY <2>1, <1>4, <1>5, <1>6
  <2>3. /\ r \in Reads(h) /\ r[2] = Len(h.ev[r[1]])
        /\ \A e \in E : Lab(h, e).porf[r[1]] < r[2]
        /\ \A c \in Revisitable(h) : Lab(h, c).stamp <= Lab(h, r).stamp
    BY <1>8, <1>1, <1>2, <1>3, <1>4 DEF GraphOkBut
  <2> QED BY <2>2, <2>3, <1>2 DEF GraphOkBut
<1> QED BY <1>1, <1>2, <1>7, <1>8 DEF h

\* Nor is anything else that a label may say.
LEMMA SetSimilarOk ==
  ASSUME NEW g, NEW P, GraphOk(g, P), NEW c \in Events(g), NEW lab, SameLabel(lab, Lab(g, c))
  PROVE  LET h == [g EXCEPT !.ev[c[1]][c[2]] = lab]
         IN /\ GraphOk(h, P) /\ h.co = g.co /\ h.stamp = g.stamp /\ Events(h) = Events(g)
            /\ \A t \in Threads : Len(h.ev[t]) = Len(g.ev[t])
            /\ \A e \in Events(g) : SameLabel(Lab(h, e), Lab(g, e))
<1> DEFINE h == [g EXCEPT !.ev[c[1]][c[2]] = lab]
<1>0. IsGraph(g) /\ LabelsOk(g)
  BY DEF GraphOk
<1>1. /\ IsGraph(h) /\ h.co = g.co /\ h.stamp = g.stamp
      /\ Events(h) = Events(g)
      /\ Lab(h, c) = lab
      /\ \A e \in Events(g) \ {c} : Lab(h, e) = Lab(g, e)
      /\ \A t \in Threads : Len(h.ev[t]) = Len(g.ev[t]) /\ Len(g.ev[t]) \in Nat
  BY <1>0, SetLabelShape
<1> HIDE DEF h
<1>2. \A e \in Events(g) : SameLabel(Lab(g, e), Lab(g, e))
  BY <1>0 DEF LabelsOk, SameLabel
<1>3. \A e \in Events(g) : SameLabel(Lab(h, e), Lab(g, e))
  BY <1>1, <1>2
<1>4. GraphOk(h, P)
  BY <1>1, <1>3, SimilarOk
<1> QED BY <1>1, <1>3, <1>4 DEF h

\* In particular setAddedMax().
LEMMA SetMaxOk ==
  ASSUME NEW g, NEW P, GraphOk(g, P), NEW c \in Events(g), NEW b
  PROVE  LET h == setAddedMax(g, c, b)
         IN /\ GraphOk(h, P) /\ h.co = g.co /\ h.stamp = g.stamp /\ Events(h) = Events(g)
            /\ \A t \in Threads : Len(h.ev[t]) = Len(g.ev[t])
            /\ \A e \in Events(g) : SameLabel(Lab(h, e), Lab(g, e))
<1> DEFINE m == Lab(g, c)
           lab == [m EXCEPT !.max = b]
<1>1. SameLabel(lab, m)
  <2>1. IsLabel(m)
    BY DEF GraphOk, LabelsOk
  <2> HIDE DEF m
  <2>2. DOMAIN lab = DOMAIN m /\ \A f \in DOMAIN m \ {"max"} : lab[f] = m[f]
    OBVIOUS
  <2> HIDE DEF lab
  <2> QED BY <2>1, <2>2 DEF IsLabel, SameLabel
<1>2. setAddedMax(g, c, b) = [g EXCEPT !.ev[c[1]][c[2]] = lab]
  BY DEF setAddedMax, Lab
<1> HIDE DEF lab
<1> QED BY <1>1, <1>2, SetSimilarOk

-----------------------------------------------------------------------------
(* Cuts to a stamp, and stores that are moved in coherence *)

\* What is left after a cut, in terms of stamps.
LEMMA CutShape ==
  ASSUME NEW g, GraphOk(g, {}), NEW s \in Nat
  PROVE  LET k == cutToStamp(g, s)
         IN /\ IsGraph(k) /\ k.stamp = s + 1
            /\ Events(k) = {e \in Events(g) : Lab(g, e).stamp <= s}
            /\ \A e \in Events(k) : Lab(k, e) = Lab(g, e)
            /\ \A t \in Threads : Len(k.ev[t]) <= Len(g.ev[t])
            /\ LabelsOk(k) /\ StampsOk(k) /\ CoOk(k, {})
<1> DEFINE v == getViewFromStamp(g, s)
           h == RestrictGraph(g, v)
           k == cutToStamp(g, s)
<1>0. IsGraph(g) /\ LabelsOk(g) /\ StampsOk(g) /\ CoOk(g, {})
  BY DEF GraphOk
<1>1. /\ v \in [Threads -> Nat] /\ \A t \in Threads : v[t] <= Len(g.ev[t])
      /\ \A e \in Events(g) : e[2] <= v[e[1]] <=> Lab(g, e).stamp <= s
  BY <1>0, ViewFromStamp
<1>2. k = [h EXCEPT !.stamp = s + 1]
  BY DEF cutToStamp
<1> HIDE DEF v
<1>3. /\ IsGraph(h)
      /\ Events(h) = {e \in Events(g) : e[2] <= v[e[1]]}
      /\ \A e \in Events(h) : Lab(h, e) = Lab(g, e)
      /\ \A t \in Threads : Len(h.ev[t]) = v[t]
      /\ \A l \in Locs :
           /\ \A x : (\E i \in 1 .. Len(h.co[l]) : h.co[l][i] = x)
                      <=> Contains(v, x) /\ \E i \in 1 .. Len(g.co[l]) : g.co[l][i] = x
           /\ \A i, j \in 1 .. Len(h.co[l]) : h.co[l][i] = h.co[l][j] => i = j
  BY <1>0, <1>1, RestrictShape
<1> HIDE DEF h, k
<1>4. DOMAIN k = DOMAIN h /\ k.ev = h.ev /\ k.co = h.co /\ k.stamp = s + 1
  BY <1>2, <1>3 DEF IsGraph
<1>5. IsGraph(k) /\ \A t \in Threads : Len(k.ev[t]) <= Len(g.ev[t])
  BY <1>1, <1>3, <1>4 DEF IsGraph
<1>6. Events(k) = Events(h) /\ \A e : Lab(k, e) = Lab(h, e)
  BY <1>4 DEF Events, Lab
<1>7. /\ Events(k) = {e \in Events(g) : Lab(g, e).stamp <= s}
      /\ \A e \in Events(k) : Lab(k, e) = Lab(g, e)
  BY <1>1, <1>3, <1>6
<1>8. LabelsOk(k) /\ StampsOk(k)
  <2>1. \A e \in Events(k) : Lab(k, e).stamp \in Nat /\ Lab(k, e).stamp <= s
    BY <1>0, <1>7 DEF LabelsOk, IsLabel
  <2>2. \A e \in Events(k) : Lab(k, e).stamp < k.stamp
    BY <2>1, <1>4
  <2> QED BY <2>2, <1>0, <1>7 DEF LabelsOk, StampsOk
<1>9. CoOk(k, {})
  <2> SUFFICES ASSUME NEW l \in Locs, NEW x
               PROVE  (\E i \in 1 .. Len(h.co[l]) : h.co[l][i] = x)
                        <=> x \in Writes(k) /\ Lab(k, x).loc = l
    BY <1>3, <1>4 DEF CoOk
  <2>1. (\E i \in 1 .. Len(g.co[l]) : g.co[l][i] = x) <=> x \in Writes(g) /\ Lab(g, x).loc = l
    <3>1. {g.co[l][i] : i \in 1 .. Len(g.co[l])} = {w \in Writes(g) \ {} : Lab(g, w).loc = l}
      BY <1>0 DEF CoOk
    <3> QED BY <3>1
  <2>2. x \in Writes(g) => x # Init0 /\ x \in Events(g)
    BY InEvents DEF Writes
  <2>3. x \in Writes(k) <=> x \in Writes(g) /\ x[2] <= v[x[1]]
    BY <1>3, <1>6 DEF Writes
  <2>4. x \in Writes(k) => Lab(k, x) = Lab(g, x)
    BY <1>7 DEF Writes
  <2> QED BY <2>1, <2>2, <2>3, <2>4, <1>3 DEF Contains
<1> QED BY <1>4, <1>5, <1>7, <1>8, <1>9 DEF k

\* What c has in its view is not newer than c.
Closed(g, c) ==
  \A d \in Events(g) : d[2] <= Lab(g, c).porf[d[1]] => Lab(g, d).stamp <= Lab(g, c).stamp

\* The cut just after an event that brought nothing newer into the graph.
LEMMA CutClosedOk ==
  ASSUME NEW g, GraphOk(g, {}), NEW c \in Events(g), CutPoint(g, Events(g), c), Closed(g, c)
  PROVE  GraphOk(cutToStamp(g, Lab(g, c).stamp), {})
<1> DEFINE s == Lab(g, c).stamp
           k == cutToStamp(g, s)
<1>0. /\ IsGraph(g) /\ LabelsOk(g) /\ StampsOk(g)
      /\ PorfOk(g, Events(g)) /\ RfOk(g, Events(g))
      /\ \A r \in Revisitable(g) : CutPoint(g, Events(g), r)
      /\ \A e \in Events(g) : Lab(g, e).stamp \in Nat /\ Lab(g, e).porf \in [Threads -> Nat]
      /\ \A t \in Threads : Len(g.ev[t]) \in Nat
  BY DEF GraphOk, LabelsOk, IsLabel, IsGraph, IsSeq
<1>1. /\ IsGraph(k)
      /\ Events(k) = {e \in Events(g) : Lab(g, e).stamp <= s}
      /\ \A e \in Events(k) : Lab(k, e) = Lab(g, e)
      /\ LabelsOk(k) /\ StampsOk(k) /\ CoOk(k, {})
  BY <1>0, CutShape
<1>2. s \in Nat
  BY <1>0
<1> HIDE DEF k
<1>3. \A e \in Events(k) : e \in Events(g) /\ Lab(k, e) = Lab(g, e)
  BY <1>1
<1>4. ASSUME NEW e \in Events(k), NEW d \in Events(g), d[2] <= Lab(g, e).porf[d[1]]
      PROVE  d \in Events(k)
  <2>1. Lab(g, e).stamp < s \/ e = c
    BY <1>0, <1>1, <1>2 DEF StampsOk
  <2>2. CASE Lab(g, e).stamp < s
    <3>1. Lab(g, d).stamp < s
      BY <1>4, <2>2, <1>3 DEF CutPoint
    <3> QED BY <3>1, <1>0, <1>1, <1>2
  <2>3. CASE e = c
    BY <2>3, <1>4, <1>1 DEF Closed
  <2> QED BY <2>1, <2>2, <2>3
<1>5. ASSUME NEW e \in Events(k), NEW t \in Threads
      PROVE  Lab(g, e).porf[t] <= Len(k.ev[t])
  <2> DEFINE n == Lab(g, e).porf[t]
             d == <<t, n>>
  <2>1. n \in Nat /\ n <= Len(g.ev[t]) /\ Len(k.ev[t]) \in Nat
    BY <1>0, <1>1, <1>3 DEF PorfOk, IsGraph, IsSeq
  <2>2. CASE n = 0
    BY <2>1, <2>2
  <2>3. CASE n # 0
    <3>1. d \in Events(g) /\ d[1] = t /\ d[2] = n
      BY <2>1, <2>3, <1>0, PairInEvents
    <3>2. d \in Events(k)
      BY <3>1, <2>1, <1>4
    <3>3. n \in 1 .. Len(k.ev[t])
      BY <3>2, PairInEvents
    <3> QED BY <3>3, <2>1
  <2> QED BY <2>2, <2>3
<1>6. PorfOk(k, Events(k))
  BY <1>0, <1>3, <1>5 DEF PorfOk
<1>7. RfOk(k, Events(k))
  <2> SUFFICES ASSUME NEW e \in Events(k), Lab(k, e).op = "R", Lab(k, e).rf # Init0
               PROVE  LET w == Lab(k, e).rf
                      IN /\ w \in Writes(k) /\ Lab(k, w).loc = Lab(k, e).loc
                         /\ w[2] <= Lab(k, e).porf[w[1]]
    BY DEF RfOk
  <2> DEFINE w == Lab(g, e).rf
  <2>1. w \in Writes(g) /\ Lab(g, w).loc = Lab(g, e).loc /\ w[2] <= Lab(g, e).porf[w[1]]
    BY <1>0, <1>3 DEF RfOk
  <2>2. w \in Events(k)
    BY <2>1, <1>4 DEF Writes
  <2> QED BY <2>1, <2>2, <1>3 DEF Writes
<1>8. \A r \in Revisitable(k) : CutPoint(k, Events(k), r)
  <2> TAKE r \in Revisitable(k)
  <2>1. r \in Revisitable(g) /\ Lab(k, r) = Lab(g, r)
    BY <1>3 DEF Revisitable, Reads
  <2> QED BY <2>1, <1>0, <1>3 DEF CutPoint
<1> QED BY <1>1, <1>6, <1>7, <1>8 DEF GraphOk, k

\* What concatenation has at each position.
LEMMA ConcatSeq ==
  ASSUME NEW a, IsSeq(a), NEW b, IsSeq(b)
  PROVE  LET c == a \o b
         IN /\ IsSeq(c) /\ Len(c) = Len(a) + Len(b)
            /\ \A i \in 1 .. Len(a) : c[i] = a[i]
            /\ \A i \in 1 .. Len(b) : c[Len(a) + i] = b[i]
<1> DEFINE S == {a[i] : i \in 1 .. Len(a)} \cup {b[i] : i \in 1 .. Len(b)}
           c == a \o b
<1>1. /\ Len(a) \in Nat /\ a = [i \in 1 .. Len(a) |-> a[i]]
      /\ Len(b) \in Nat /\ b = [i \in 1 .. Len(b) |-> b[i]]
  BY DEF IsSeq
<1>2. a \in Seq(S)
  <2>1. \A i \in 1 .. Len(a) : a[i] \in S
    OBVIOUS
  <2> HIDE DEF S
  <2> QED BY <2>1, <1>1
<1>3. b \in Seq(S)
  <2>1. \A i \in 1 .. Len(b) : b[i] \in S
    OBVIOUS
  <2> HIDE DEF S
  <2> QED BY <2>1, <1>1
<1> HIDE DEF S
<1>4. c \in Seq(S) /\ Len(c) = Len(a) + Len(b)
  BY <1>2, <1>3
<1>5. \A i \in 1 .. Len(a) : c[i] = a[i]
  BY <1>1, <1>2, <1>3
<1>6. \A i \in 1 .. Len(b) : c[Len(a) + i] = b[i]
  BY <1>1, <1>2, <1>3
<1> HIDE DEF c
<1>7. c = [i \in 1 .. Len(c) |-> c[i]] /\ Len(c) \in Nat
  BY <1>1, <1>4
<1> QED BY <1>4, <1>5, <1>6, <1>7 DEF IsSeq, c

\* What the rest of a sequence has at each position.
LEMMA SuffixSeq ==
  ASSUME NEW s, IsSeq(s), NEW n \in 0 .. Len(s)
  PROVE  LET b == SubSeq(s, n + 1, Len(s))
         IN IsSeq(b) /\ Len(b) = Len(s) - n /\ \A i \in 1 .. Len(s) - n : b[i] = s[n + i]
<1> DEFINE b == SubSeq(s, n + 1, Len(s))
           S == {s[i] : i \in 1 .. Len(s)}
<1>1. Len(s) \in Nat /\ s = [i \in 1 .. Len(s) |-> s[i]] /\ n \in Nat /\ n <= Len(s)
  BY DEF IsSeq
<1>2. s \in Seq(S)
  <2>1. \A i \in 1 .. Len(s) : s[i] \in S
    OBVIOUS
  <2> HIDE DEF S
  <2> QED BY <2>1, <1>1
<1> HIDE DEF S
<1>3. b \in Seq(S) /\ Len(b) = Len(s) - n
  BY <1>1, <1>2
<1>4. \A i \in 1 .. Len(s) - n : b[i] = s[n + i]
  BY <1>1, <1>2
<1> HIDE DEF b
<1>5. b = [i \in 1 .. Len(b) |-> b[i]] /\ Len(b) \in Nat
  BY <1>1, <1>3
<1> QED BY <1>3, <1>4, <1>5 DEF IsSeq, b

\* A sequence without repetitions, without its element at m + 1.
LEMMA WithoutSeq ==
  ASSUME NEW s, IsSeq(s), NEW m \in 0 .. Len(s) - 1,
         \A i, j \in 1 .. Len(s) : s[i] = s[j] => i = j
  PROVE  LET b == SubSeq(s, 1, m) \o SubSeq(s, m + 2, Len(s))
         IN /\ IsSeq(b) /\ Len(b) = Len(s) - 1
            /\ \A x : (\E i \in 1 .. Len(b) : b[i] = x)
                       <=> x # s[m + 1] /\ \E i \in 1 .. Len(s) : s[i] = x
            /\ \A i, j \in 1 .. Len(b) : b[i] = b[j] => i = j
<1> DEFINE n == Len(s)
           p == SubSeq(s, 1, m)
           q == SubSeq(s, m + 2, n)
           b == p \o q
           y == s[m + 1]
           at(i) == IF i <= m THEN i ELSE i + 1
<1>1. n \in Nat /\ m \in Nat /\ m + 1 \in 1 .. n /\ m \in 0 .. n /\ m + 1 \in 0 .. n /\ (m + 1) + 1 = m + 2
  BY DEF IsSeq
<1>2. IsSeq(p) /\ Len(p) = m /\ \A i \in 1 .. m : p[i] = s[i]
  BY <1>1, PrefixSeq
<1>3. IsSeq(q) /\ Len(q) = n - (m + 1) /\ \A i \in 1 .. n - (m + 1) : q[i] = s[(m + 1) + i]
  <2> DEFINE r == SubSeq(s, (m + 1) + 1, n)
  <2>1. IsSeq(r) /\ Len(r) = n - (m + 1) /\ \A i \in 1 .. n - (m + 1) : r[i] = s[(m + 1) + i]
    BY <1>1, SuffixSeq
  <2>2. q = r
    BY <1>1
  <2> QED BY <2>1, <2>2
<1> HIDE DEF p, q
<1>4. /\ IsSeq(b) /\ Len(b) = m + (n - (m + 1))
      /\ \A i \in 1 .. m : b[i] = p[i]
      /\ \A i \in 1 .. n - (m + 1) : b[m + i] = q[i]
  BY <1>2, <1>3, ConcatSeq
<1> HIDE DEF b
<1>5. Len(b) = n - 1
  BY <1>1, <1>4
<1>6. ASSUME NEW i \in 1 .. n - 1
      PROVE  at(i) \in 1 .. n /\ at(i) # m + 1 /\ b[i] = s[at(i)]
  <2>1. CASE i <= m
    BY <2>1, <1>1, <1>2, <1>4
  <2>2. CASE i > m
    <3>1. i - m \in 1 .. n - (m + 1) /\ m + (i - m) = i /\ (m + 1) + (i - m) = i + 1
      BY <2>2, <1>1
    <3>2. b[i] = q[i - m] /\ q[i - m] = s[i + 1]
      BY <3>1, <1>3, <1>4
    <3> QED BY <2>2, <3>2, <1>1
  <2> QED BY <2>1, <2>2, <1>1
<1>7. \A i, j \in 1 .. n - 1 : at(i) = at(j) => i = j
  BY <1>1
<1>8. ASSUME NEW k \in 1 .. n, k # m + 1 PROVE \E i \in 1 .. n - 1 : at(i) = k
  <2>1. CASE k <= m
    <3>1. k \in 1 .. n - 1 /\ at(k) = k
      BY <2>1, <1>1
    <3> QED BY <3>1
  <2>2. CASE k > m
    <3>1. k - 1 \in 1 .. n - 1 /\ at(k - 1) = k
      BY <2>2, <1>1, <1>8
    <3> QED BY <3>1
  <2> QED BY <2>1, <2>2, <1>1
<1> HIDE DEF at
<1>9. \A i, j \in 1 .. n - 1 : b[i] = b[j] => i = j
  BY <1>6, <1>7
<1>10. ASSUME NEW x
       PROVE  (\E i \in 1 .. n - 1 : b[i] = x) <=> x # y /\ \E i \in 1 .. n : s[i] = x
  <2>1. ASSUME NEW i \in 1 .. n - 1, b[i] = x PROVE x # y /\ \E j \in 1 .. n : s[j] = x
    BY <2>1, <1>1, <1>6
  <2>2. ASSUME NEW k \in 1 .. n, s[k] = x, x # y PROVE \E i \in 1 .. n - 1 : b[i] = x
    BY <2>2, <1>6, <1>8
  <2> QED BY <2>1, <2>2
<1> HIDE DEF n, y
<1>11. /\ \A x : (\E i \in 1 .. Len(b) : b[i] = x) <=> x # y /\ \E i \in 1 .. n : s[i] = x
       /\ \A i, j \in 1 .. Len(b) : b[i] = b[j] => i = j
  BY <1>5, <1>9, <1>10
<1> QED BY <1>4, <1>5, <1>11 DEF b, p, q, n, y

\* changeStoreOffset() moves a store to any offset among the others.
LEMMA MoveStoreOk ==
  ASSUME NEW g, GraphOk(g, {}), NEW w \in Writes(g), NEW loc \in Locs, loc = Lab(g, w).loc,
         NEW off \in Nat, off < Len(g.co[loc])
  PROVE  LET h == changeStoreOffset(g, loc, w, off)
         IN GraphOk(h, {}) /\ h.ev = g.ev /\ h.stamp = g.stamp
<1> DEFINE s == g.co[loc]
           m == getStoreOffset(g, loc, w)
           b == SubSeq(s, 1, m) \o SubSeq(s, m + 2, Len(s))
           k == [g EXCEPT !.co[loc] = b]
           h == changeStoreOffset(g, loc, w, off)
<1>0. /\ IsGraph(g) /\ LabelsOk(g) /\ StampsOk(g) /\ CoOk(g, {})
      /\ PorfOk(g, Events(g)) /\ RfOk(g, Events(g))
      /\ \A r \in Revisitable(g) : CutPoint(g, Events(g), r)
  BY DEF GraphOk
<1>1. DOMAIN g.co = Locs /\ IsSeq(s) /\ Len(s) \in Nat
  BY <1>0 DEF IsGraph, IsSeq
<1>2. /\ {s[i] : i \in 1 .. Len(s)} = {d \in Writes(g) \ {} : Lab(g, d).loc = loc}
      /\ \A i, j \in 1 .. Len(s) : s[i] = s[j] => i = j
  BY <1>0 DEF CoOk
<1>3. m \in 0 .. Len(s) - 1 /\ s[m + 1] = w
  <2>1. \E i \in 1 .. Len(s) : s[i] = w
    BY <1>2
  <2> DEFINE j == CHOOSE i \in 1 .. Len(s) : s[i] = w
  <2>2. j \in 1 .. Len(s) /\ s[j] = w
    BY <2>1
  <2>3. w # Init0
    BY InEvents DEF Writes
  <2>4. m = j - 1
    BY <2>3 DEF getStoreOffset
  <2> HIDE DEF j, m
  <2>5. m + 1 = j
    BY <2>2, <2>4, <1>1
  <2> QED BY <2>2, <2>4, <2>5, <1>1
<1> HIDE DEF m
<1>4. /\ IsSeq(b) /\ Len(b) = Len(s) - 1
      /\ \A x : (\E i \in 1 .. Len(b) : b[i] = x)
                 <=> x # s[m + 1] /\ \E i \in 1 .. Len(s) : s[i] = x
      /\ \A i, j \in 1 .. Len(b) : b[i] = b[j] => i = j
  BY <1>1, <1>2, <1>3, WithoutSeq
<1> HIDE DEF b
<1>5. DOMAIN k = DOMAIN g /\ k.ev = g.ev /\ k.stamp = g.stamp /\ k.co = [g.co EXCEPT ![loc] = b]
  BY <1>0 DEF IsGraph
<1> HIDE DEF k
<1>6. k.co[loc] = b /\ \A l \in Locs \ {loc} : k.co[l] = g.co[l]
  BY <1>1, <1>5
<1>7. IsGraph(k)
  BY <1>0, <1>1, <1>4, <1>5, <1>6 DEF IsGraph
<1>8. Events(k) = Events(g) /\ \A d : Lab(k, d) = Lab(g, d)
  BY <1>5 DEF Events, Lab
<1>9. Writes(k) = Writes(g) /\ Revisitable(k) = Revisitable(g)
  BY <1>8 DEF Writes, Revisitable, Reads
<1>10. CoOk(k, {w})
  <2> SUFFICES ASSUME NEW l \in Locs
               PROVE  /\ \A x : (\E i \in 1 .. Len(k.co[l]) : k.co[l][i] = x)
                                 <=> x \in Writes(g) \ {w} /\ Lab(g, x).loc = l
                      /\ \A i, j \in 1 .. Len(k.co[l]) : k.co[l][i] = k.co[l][j] => i = j
    BY <1>8, <1>9 DEF CoOk
  <2>1. CASE l = loc
    <3>1. \A x : (\E i \in 1 .. Len(s) : s[i] = x) <=> x \in Writes(g) /\ Lab(g, x).loc = loc
      BY <1>2
    <3> HIDE DEF s
    <3>2. \A x : (\E i \in 1 .. Len(b) : b[i] = x) <=> x \in Writes(g) \ {w} /\ Lab(g, x).loc = l
      BY <2>1, <3>1, <1>3, <1>4
    <3>3. \A i, j \in 1 .. Len(b) : b[i] = b[j] => i = j
      BY <1>4
    <3>4. k.co[l] = b
      BY <2>1, <1>6
    <3> QED BY <3>2, <3>3, <3>4
  <2>2. CASE l # loc
    <3>1. /\ {g.co[l][i] : i \in 1 .. Len(g.co[l])} = {d \in Writes(g) \ {} : Lab(g, d).loc = l}
          /\ \A i, j \in 1 .. Len(g.co[l]) : g.co[l][i] = g.co[l][j] => i = j
      BY <1>0 DEF CoOk
    <3>2. \A x : (\E i \in 1 .. Len(g.co[l]) : g.co[l][i] = x) <=> x \in Writes(g) /\ Lab(g, x).loc = l
      BY <3>1
    <3> QED BY <2>2, <3>1, <3>2, <1>6
  <2> QED BY <2>1, <2>2
<1>11. LabelsOk(k) /\ StampsOk(k) /\ PorfOk(k, Events(k)) /\ RfOk(k, Events(k))
  BY <1>0, <1>5, <1>8, <1>9 DEF LabelsOk, StampsOk, PorfOk, RfOk
<1>12. \A r \in Revisitable(k) : CutPoint(k, Events(k), r)
  BY <1>0, <1>8, <1>9 DEF CutPoint
<1>13. GraphOk(k, {w})
  BY <1>7, <1>10, <1>11, <1>12 DEF GraphOk
<1>14. w \in Writes(k) /\ Lab(k, w).loc = loc /\ off \in 0 .. Len(k.co[loc])
  BY <1>1, <1>4, <1>6, <1>8, <1>9
<1>15. h = addStoreToLoc(k, loc, w, off)
  <2>1. h = [g EXCEPT !.co[loc] = InsertAtOffset(b, off, w)]
    BY DEF changeStoreOffset, b, m
  <2>2. addStoreToLoc(k, loc, w, off) = [k EXCEPT !.co[loc] = InsertAtOffset(b, off, w)]
    BY <1>6 DEF addStoreToLoc
  <2>3. k = [g EXCEPT !.co[loc] = b]
    BY DEF k
  <2> DEFINE c == InsertAtOffset(b, off, w)
  <2> HIDE DEF c, h
  <2>4. [k EXCEPT !.co[loc] = c] = [g EXCEPT !.co[loc] = c]
    BY <2>3, <1>0, <1>1 DEF IsGraph
  <2> QED BY <2>1, <2>2, <2>4 DEF c
<1>16. LET a == addStoreToLoc(k, loc, w, off)
       IN GraphOk(a, {}) /\ a.ev = k.ev /\ a.stamp = k.stamp
  BY <1>13, <1>14, PlaceStoreOk
<1> HIDE DEF h
<1> QED BY <1>5, <1>15, <1>16 DEF h

\* A sequence without repetitions is as long as its range is large.
LEMMA DistinctLength ==
  ASSUME NEW s, IsSeq(s), \A i, j \in 1 .. Len(s) : s[i] = s[j] => i = j
  PROVE  /\ IsFiniteSet({s[i] : i \in 1 .. Len(s)})
         /\ Cardinality({s[i] : i \in 1 .. Len(s)}) = Len(s)
<1> DEFINE n == Len(s)
           T == {s[i] : i \in 1 .. n}
           f == [i \in 1 .. n |-> s[i]]
<1>1. n \in Nat
  BY DEF IsSeq
<1>2. f \in Bijection(1 .. n, T)
  <2>1. f \in [1 .. n -> T]
    OBVIOUS
  <2>2. \A i, j \in 1 .. n : f[i] = f[j] => i = j
    OBVIOUS
  <2>3. \A x \in T : \E i \in 1 .. n : f[i] = x
    OBVIOUS
  <2> HIDE DEF f, T, n
  <2> QED BY <2>1, <2>2, <2>3 DEF Bijection, Injection, Surjection, IsInjective
<1> HIDE DEF f, T
<1>3. IsFiniteSet(1 .. n) /\ Cardinality(1 .. n) = n
  <2> HIDE DEF n
  <2>1. 1 \in Int /\ n \in Int
    BY <1>1
  <2>2. IsFiniteSet(1 .. n) /\ Cardinality(1 .. n) = IF 1 > n THEN 0 ELSE n - 1 + 1
    BY <2>1, FS_Interval
  <2>3. (IF 1 > n THEN 0 ELSE n - 1 + 1) = n
    BY <1>1
  <2> QED BY <2>2, <2>3
<1>4. ExistsBijection(1 .. n, T)
  BY <1>2 DEF ExistsBijection
<1>5. IsFiniteSet(T) /\ Cardinality(T) = Cardinality(1 .. n)
  BY <1>3, <1>4, FS_Bijection
<1> QED BY <1>3, <1>5 DEF T, n
=============================================================================
