------------------------- MODULE GenMCDriverProofs --------------------------
(***************************************************************************)
(* Every execution graph that the exploration builds, cuts, copies and     *)
(* restores is well formed, and no item of its work queues goes stale, for *)
(* programs of any size, any scheduling and either coherence calculator.   *)
(***************************************************************************)
EXTENDS Exploration, ExecutionGraphProofs

\* Accesses are to locations.
LocOk(g) == \A e \in Events(g) : Lab(g, e).op \in {"R", "W"} => Lab(g, e).loc \in Locs

\* The stores to a location that a cut to stamp s keeps.
StoresUpTo(g, l, s) == {w \in Writes(g) : Lab(g, w).loc = l /\ Lab(g, w).stamp <= s}

\* An item filed under s revisits the event with that stamp, and the graph
\* can be cut there.  A read is to read something else that was there before
\* it; a store is to go to an offset among the stores that remain.
ItemOk(g, s, it) ==
  /\ it.pos \in Events(g) /\ Lab(g, it.pos).stamp = s
  /\ CutPoint(g, Events(g), it.pos)
  /\ it.kind \in {"forward", "mo"}
  /\ it.kind = "forward" =>
       /\ it.pos \in Revisitable(g) /\ it.rev # Lab(g, it.pos).rf
       /\ it.rev = Init0 \/ (/\ it.rev \in Writes(g) /\ Lab(g, it.rev).stamp < s
                             /\ Lab(g, it.rev).loc = Lab(g, it.pos).loc)
  /\ it.kind = "mo" =>
       /\ it.pos \in Writes(g) /\ Closed(g, it.pos)
       /\ it.off \in Nat /\ it.off < Cardinality(StoresUpTo(g, Lab(g, it.pos).loc, s))

\* Items of the same read are about different stores.
QueueOk(g, q) ==
  /\ DOMAIN q \subseteq Nat
  /\ \A s \in DOMAIN q :
       /\ IsSeq(q[s])
       /\ \A i \in 1 .. Len(q[s]) : ItemOk(g, s, q[s][i])
       /\ \A i, j \in 1 .. Len(q[s]) :
            i # j /\ q[s][i].kind = "forward" /\ q[s][j].kind = "forward" =>
              q[s][i].rev # q[s][j].rev

StateOk(g, q) == GraphOk(g, {}) /\ LocOk(g) /\ QueueOk(g, q)

\* A call of calcRevisits(): the loads it may still try.
FrameOk(g, f) ==
  /\ f.write \in Writes(g)
  /\ \A r \in f.loads : /\ r \in Revisitable(g) /\ Lab(g, r).loc = Lab(g, f.write).loc
                        /\ ~Contains(Lab(g, f.write).porf, r)

\* A call that waits for a nested exploration has put its state aside.
SavedOk(f) ==
  /\ StateOk(f.saved[1].graph, f.saved[1].workqueue)
  /\ FrameOk(f.saved[1].graph, f)

IsFrame(f) ==
  /\ DOMAIN f = {"caller", "write", "loads", "saved"}
  /\ f.caller \in {"visit", "restrict", "nested"}

\* The active calls of calcRevisits(): all wait, or all but the innermost,
\* which works on graph g.
Framed(s) ==
  /\ IsSeq(s) /\ Len(s) # 0
  /\ \A i \in 1 .. Len(s) : /\ IsFrame(s[i])
                            /\ s[i].caller = "nested" => i # 1
                            /\ i < Len(s) => SavedOk(s[i])
Waiting(s) == s = <<>> \/ (Framed(s) /\ SavedOk(s[Len(s)]))
Running(g, s) == Framed(s) /\ FrameOk(g, s[Len(s)])

StackOk ==
  IF ctl = "revisit" THEN Running(graph, stack)
  ELSE Waiting(stack) /\ (ctl = "enter" => stack # <<>>)

\* The graphs in the pool.
TasksOk(ts) == IsSeq(ts) /\ \A i \in 1 .. Len(ts) : GraphOk(ts[i], {}) /\ LocOk(ts[i])

\* The inductive invariant.
DriverInv ==
  /\ conf \in Configs
  /\ ctl \in {"run", "next", "revisit", "enter", "idle"}
  /\ StateOk(graph, workqueue)
  /\ StackOk
  /\ TasksOk(tasks)
  /\ ctl = "idle" => workqueue = NoWork

-----------------------------------------------------------------------------
(* Labels *)

\* The label of a read, before it is given a store to read.
LEMMA ReadLabelOk ==
  ASSUME NEW g, NEW e, NEW ins, calcBasicPorfView(g, e) \in [Threads -> Nat]
  PROVE  LET l == calcReadViews(g, e, NewRead(ins))
         IN /\ IsLabel(l) /\ l.op = "R" /\ l.rf = Init0 /\ l.loc = ins.loc /\ l.rev
            /\ l.porf = calcBasicPorfView(g, e)
<1> DEFINE m == NewRead(ins)
           l == calcReadViews(g, e, m)
           porf == calcBasicPorfView(g, e)
<1>1. /\ {"op", "rf", "rev", "loc", "stamp", "hb", "porf"} \subseteq DOMAIN m
      /\ m.op = "R" /\ m.rf = Init0 /\ m.loc = ins.loc /\ m.rev = TRUE /\ m.stamp = 0
  BY DEF NewRead
<1> HIDE DEF m
<1>2. l = [m EXCEPT !.hb = calcBasicHbView(g, e), !.porf = porf]
  BY <1>1 DEF calcReadViews
<1> HIDE DEF l, porf
<1>3. /\ DOMAIN l = DOMAIN m /\ l.porf = porf
      /\ l.op = m.op /\ l.rf = m.rf /\ l.loc = m.loc /\ l.rev = m.rev /\ l.stamp = m.stamp
  BY <1>1, <1>2
<1>4. IsLabel(l)
  BY <1>1, <1>3 DEF IsLabel, porf
<1> QED BY <1>1, <1>3, <1>4 DEF l, porf, m

\* The label of a store.
LEMMA WriteLabelOk ==
  ASSUME NEW g, NEW e, NEW rmw, NEW loc, NEW ord, NEW val,
         calcBasicPorfView(g, e) \in [Threads -> Nat]
  PROVE  LET l == calcWriteViews(g, e, NewWrite(rmw, loc, ord, val))
         IN /\ IsLabel(l) /\ l.op = "W" /\ l.loc = loc /\ l.rmw = rmw
            /\ l.porf = calcBasicPorfView(g, e)
<1> DEFINE m == NewWrite(rmw, loc, ord, val)
           l == calcWriteViews(g, e, m)
           porf == calcBasicPorfView(g, e)
           hb == calcBasicHbView(g, e)
           msg == calcWriteMsgView(g, e, m, hb)
<1>1. /\ {"op", "rmw", "loc", "stamp", "hb", "porf", "msg"} \subseteq DOMAIN m
      /\ m.op = "W" /\ m.loc = loc /\ m.rmw = rmw /\ m.stamp = 0
  BY DEF NewWrite
<1>2. l = [m EXCEPT !.hb = hb, !.porf = porf, !.msg = msg]
  BY DEF calcWriteViews
<1> HIDE DEF m, l, porf, hb, msg
<1>3. /\ DOMAIN l = DOMAIN m /\ l.porf = porf
      /\ l.op = m.op /\ l.rmw = m.rmw /\ l.loc = m.loc /\ l.stamp = m.stamp
  BY <1>1, <1>2
<1>4. IsLabel(l)
  BY <1>1, <1>3 DEF IsLabel, porf
<1> QED BY <1>1, <1>3, <1>4 DEF l, porf, m

\* The label of a fence.
LEMMA FenceLabelOk ==
  ASSUME NEW g, NEW e, NEW ord, calcBasicPorfView(g, e) \in [Threads -> Nat]
  PROVE  LET l == calcFenceViews(g, e, FenceLabel(ord))
         IN IsLabel(l) /\ l.op = "F" /\ l.porf = calcBasicPorfView(g, e)
<1> DEFINE m == FenceLabel(ord)
           b == calcBasicViews(g, e, m)
           l == calcFenceViews(g, e, m)
           porf == calcBasicPorfView(g, e)
           hb == calcBasicHbView(g, e)
<1>1. /\ {"op", "stamp", "hb", "porf"} \subseteq DOMAIN m
      /\ m.op = "F" /\ m.stamp = 0
  BY DEF FenceLabel, EventLabel
<1>2. b = [m EXCEPT !.hb = hb, !.porf = porf]
  BY DEF calcBasicViews
<1>3. l = b \/ \E v : l = [b EXCEPT !.hb = v]
  BY DEF calcFenceViews
<1> HIDE DEF m, b, l, porf, hb
<1>4. DOMAIN b = DOMAIN m /\ b.porf = porf /\ b.op = m.op /\ b.stamp = m.stamp
  BY <1>1, <1>2
<1>5. DOMAIN l = DOMAIN m /\ l.porf = porf /\ l.op = m.op /\ l.stamp = m.stamp
  BY <1>1, <1>3, <1>4
<1>6. IsLabel(l)
  BY <1>1, <1>5 DEF IsLabel, porf
<1> QED BY <1>1, <1>5, <1>6 DEF l, porf, m

\* The porf view of the next event of a thread.
LEMMA NextPorf ==
  ASSUME NEW g, GraphOk(g, {}), NEW t \in Threads
  PROVE  calcBasicPorfView(g, NextEvent(g, t)) \in [Threads -> Nat]
<1> DEFINE n == Len(g.ev[t]) + 1
<1>0. IsGraph(g) /\ LabelsOk(g) /\ PorfOk(g, Events(g)) /\ Len(g.ev[t]) \in Nat
  BY DEF GraphOk, IsGraph, IsSeq
<1>1. n \in Nat \ {0} /\ n - 1 = Len(g.ev[t])
  BY <1>0
<1>2. n = 1 \/ <<t, n - 1>> \in Events(g)
  BY <1>0, <1>1, PairInEvents
<1>3. Events(g) \in SUBSET Events(g)
  OBVIOUS
<1> HIDE DEF n
<1>4. calcBasicPorfView(g, <<t, n>>) \in [Threads -> Nat]
  BY <1>0, <1>1, <1>2, <1>3, BasicPorf
<1> QED BY <1>4 DEF NextEvent, n

\* The label of a read that is given w to read.
LEMMA ChangedLabel ==
  ASSUME NEW g, NEW r, NEW w, IsLabel(Lab(g, r)), Lab(g, r).op = "R", w # Bottom
  PROVE  LET l == calcReadViews(g, r, [Lab(g, r) EXCEPT !.rf = w])
             a == Lab(g, r)
         IN /\ DOMAIN l = DOMAIN a /\ \A f \in DOMAIN a \ {"rf", "hb", "porf"} : l[f] = a[f]
            /\ l.rf = w
            /\ l.porf = IF w = Init0 THEN calcBasicPorfView(g, r)
                        ELSE Update(calcBasicPorfView(g, r), Lab(g, w).porf)
<1> DEFINE a == Lab(g, r)
           m == [a EXCEPT !.rf = w]
           l == calcReadViews(g, r, m)
<1>1. {"op", "hb", "porf", "rf"} \subseteq DOMAIN a
  BY DEF IsLabel
<1> HIDE DEF a
<1>2. DOMAIN m = DOMAIN a /\ m.rf = w /\ \A f \in DOMAIN a \ {"rf"} : m[f] = a[f]
  BY <1>1
<1> HIDE DEF m
<1>3. CASE w = Init0
  <2>1. l = [m EXCEPT !.hb = calcBasicHbView(g, r), !.porf = calcBasicPorfView(g, r)]
    BY <1>3, <1>2 DEF calcReadViews
  <2> HIDE DEF l
  <2> QED BY <1>3, <2>1, <1>1, <1>2 DEF l, m, a
<1>4. CASE w # Init0
  <2>1. \E H : l = [m EXCEPT !.porf = Update(calcBasicPorfView(g, r), Lab(g, w).porf), !.hb = H]
    BY <1>4, <1>2 DEF calcReadViews
  <2> HIDE DEF l
  <2> QED BY <1>4, <2>1, <1>1, <1>2 DEF l, m, a
<1> QED BY <1>3, <1>4

\* Whatever store of its location an open read is given, the graph is well
\* formed afterwards; the other labels are as they were.
LEMMA ChangeRfOk ==
  ASSUME NEW k, NEW r, GraphOkBut(k, r), LocOk(k), NEW w,
         w = Init0 \/ (w \in Writes(k) /\ Lab(k, w).loc = Lab(k, r).loc)
  PROVE  LET h == changeRf(k, r, w)
         IN /\ GraphOk(h, {}) /\ LocOk(h) /\ Events(h) = Events(k)
            /\ h.co = k.co /\ h.stamp = k.stamp
            /\ \A t \in Threads : Len(h.ev[t]) = Len(k.ev[t])
            /\ \A e \in Events(k) \ {r} : Lab(h, e) = Lab(k, e)
            /\ Lab(h, r).op = "R" /\ Lab(h, r).rf = w /\ Lab(h, r).rev = Lab(k, r).rev
            /\ Lab(h, r).loc = Lab(k, r).loc /\ Lab(h, r).stamp = Lab(k, r).stamp
<1> DEFINE a == Lab(k, r)
           l == calcReadViews(k, r, [a EXCEPT !.rf = w])
           h == changeRf(k, r, w)
<1>1. /\ IsGraph(k) /\ LabelsOk(k) /\ r \in Events(k) /\ a.op = "R" /\ IsLabel(a) /\ PorfOk(k, Events(k) \ {r})
  BY DEF GraphOkBut, Reads, LabelsOk
<1>2. w # Bottom /\ (w # Init0 => Lab(k, w).porf \in [Threads -> Nat])
  <2>1. w # Init0 => w \in Events(k) /\ w[1] \in Threads
    BY InEvents DEF Writes
  <2>2. -1 \notin Threads
    BY NumThreadsAssumption DEF Threads
  <2>3. Init0 # Bottom
    BY DEF Init0, Bottom
  <2> QED BY <2>1, <2>2, <2>3, <1>1 DEF Bottom, LabelsOk, IsLabel
<1>3. /\ DOMAIN l = DOMAIN a /\ \A f \in DOMAIN a \ {"rf", "hb", "porf"} : l[f] = a[f]
      /\ l.rf = w
      /\ l.porf = IF w = Init0 THEN calcBasicPorfView(k, r)
                  ELSE Update(calcBasicPorfView(k, r), Lab(k, w).porf)
  BY <1>1, <1>2, ChangedLabel
<1>4. h = [k EXCEPT !.ev[r[1]][r[2]] = l]
  BY DEF changeRf
<1> HIDE DEF l, h
<1>5. l.op = a.op /\ l.stamp = a.stamp /\ l.loc = a.loc /\ l.rev = a.rev
  BY <1>1, <1>3 DEF IsLabel
<1>6. l.porf \in [Threads -> Nat]
  <2>1. calcBasicPorfView(k, r) \in [Threads -> Nat]
    <3>1. r = <<r[1], r[2]>> /\ r[1] \in Threads /\ r[2] \in 1 .. Len(k.ev[r[1]])
      BY <1>1, InEvents
    <3>2. Len(k.ev[r[1]]) \in Nat
      BY <3>1, <1>1 DEF IsGraph, IsSeq
    <3>3. r[2] = 1 \/ <<r[1], r[2] - 1>> \in Events(k) \ {r}
      <4>1. r[2] # 1 => <<r[1], r[2] - 1>> \in Events(k)
        BY <3>1, <3>2, PairInEvents
      <4>2. <<r[1], r[2] - 1>> # r
        BY <3>1
      <4> QED BY <4>1, <4>2
    <3>4. Events(k) \ {r} \in SUBSET Events(k) /\ r[2] \in Nat \ {0}
      BY <3>1, <3>2
    <3>5. calcBasicPorfView(k, <<r[1], r[2]>>) \in [Threads -> Nat]
      BY <3>1, <3>3, <3>4, <1>1, BasicPorf
    <3> QED BY <3>1, <3>5
  <2>2. CASE w = Init0
    BY <2>1, <2>2, <1>3
  <2>3. CASE w # Init0
    <3>1. \A x, y \in [Threads -> Nat] : Update(x, y) \in [Threads -> Nat]
      BY DEF Update
    <3> QED BY <2>1, <2>3, <3>1, <1>2, <1>3
  <2> QED BY <2>2, <2>3
<1>7. IsLabel(l)
  BY <1>1, <1>3, <1>5, <1>6 DEF IsLabel
<1>8. ReadsFrom(k, r, w, l)
  BY <1>1, <1>3, <1>5, <1>7 DEF ReadsFrom
<1>9. GraphOk(h, {}) /\ Events(h) = Events(k) /\ Lab(h, r) = l
      /\ \A e \in Events(k) \ {r} : Lab(h, e) = Lab(k, e)
  BY <1>4, <1>8, ReadsFromOk
<1>10. /\ IsGraph(h) /\ h.co = k.co /\ h.stamp = k.stamp
       /\ Events(h) = Events(k)
       /\ Lab(h, r) = l
       /\ \A e \in Events(k) \ {r} : Lab(h, e) = Lab(k, e)
       /\ \A t \in Threads : Len(h.ev[t]) = Len(k.ev[t]) /\ Len(k.ev[t]) \in Nat
  <2>1. LET b == [k EXCEPT !.ev[r[1]][r[2]] = l]
        IN /\ IsGraph(b) /\ b.co = k.co /\ b.stamp = k.stamp
           /\ Events(b) = Events(k)
           /\ Lab(b, r) = l
           /\ \A e \in Events(k) \ {r} : Lab(b, e) = Lab(k, e)
           /\ \A t \in Threads : Len(b.ev[t]) = Len(k.ev[t]) /\ Len(k.ev[t]) \in Nat
    BY <1>1, SetLabelShape
  <2> QED BY <2>1, <1>4, Zenon
<1>11. LocOk(h)
  BY <1>1, <1>5, <1>10 DEF LocOk
<1> QED BY <1>1, <1>3, <1>5, <1>9, <1>10, <1>11 DEF h

-----------------------------------------------------------------------------
(* Work items *)

\* The graphs agree on the events with stamps up to s, except that a read
\* with stamp s may read something else.
SameUpTo(g, h, s) ==
  /\ \A e : (e \in Events(g) /\ Lab(g, e).stamp <= s) <=> (e \in Events(h) /\ Lab(h, e).stamp <= s)
  /\ \A e \in Events(g) : Lab(g, e).stamp <= s =>
       LET l == Lab(h, e)
           m == Lab(g, e)
       IN /\ l.op = m.op /\ l.stamp = m.stamp
          /\ m.op = "R" => l.rev = m.rev
          /\ m.op \in {"R", "W"} => l.loc = m.loc
          /\ m.op # "R" \/ m.stamp < s => l.porf = m.porf

\* What an item says depends on the part of the graph that its stamp cuts to.
LEMMA ItemKept ==
  ASSUME NEW g, GraphOk(g, {}), NEW h, IsGraph(h), LabelsOk(h), NEW n \in Nat, SameUpTo(g, h, n),
         NEW s \in Nat, s <= n, NEW it, ItemOk(g, s, it),
         it.kind = "forward" => it.rev # Lab(h, it.pos).rf
  PROVE  ItemOk(h, s, it)
<1> DEFINE c == it.pos
<1>0. /\ LabelsOk(g) /\ PorfOk(g, Events(g)) /\ StampsOk(g)
      /\ \A e \in Events(g) : Lab(g, e).stamp \in Nat /\ Lab(g, e).porf \in [Threads -> Nat]
      /\ \A t \in Threads : Len(g.ev[t]) \in Nat
      /\ \A t \in Threads : Len(h.ev[t]) \in Nat
  BY DEF GraphOk, LabelsOk, IsLabel, IsGraph, IsSeq
<1>1. /\ c \in Events(g) /\ Lab(g, c).stamp = s
      /\ CutPoint(g, Events(g), c)
      /\ it.kind \in {"forward", "mo"}
  BY DEF ItemOk
<1>2. ASSUME NEW e
      PROVE  (e \in Events(g) /\ Lab(g, e).stamp <= n) <=> (e \in Events(h) /\ Lab(h, e).stamp <= n)
  BY DEF SameUpTo
<1>3. ASSUME NEW e \in Events(g), Lab(g, e).stamp <= n
      PROVE  /\ e \in Events(h) /\ Lab(h, e).op = Lab(g, e).op /\ Lab(h, e).stamp = Lab(g, e).stamp
             /\ Lab(g, e).op = "R" => Lab(h, e).rev = Lab(g, e).rev
             /\ Lab(g, e).op \in {"R", "W"} => Lab(h, e).loc = Lab(g, e).loc
             /\ Lab(g, e).op # "R" \/ Lab(g, e).stamp < n => Lab(h, e).porf = Lab(g, e).porf
  BY <1>2, <1>3 DEF SameUpTo
<1>4. c \in Events(h) /\ Lab(h, c).stamp = s /\ Lab(h, c).op = Lab(g, c).op
  BY <1>1, <1>3
<1>5. ASSUME NEW e \in Events(h), Lab(h, e).stamp <= n
      PROVE  e \in Events(g) /\ Lab(g, e).stamp <= n /\ Lab(h, e).stamp = Lab(g, e).stamp
  BY <1>2, <1>3, <1>5
<1>6. ASSUME NEW e \in Events(g), NEW d \in Events(h), d[2] <= Lab(g, e).porf[d[1]]
      PROVE  d \in Events(g)
  <2>1. d = <<d[1], d[2]>> /\ d[1] \in Threads /\ d[2] \in 1 .. Len(h.ev[d[1]])
    BY InEvents
  <2>2. Lab(g, e).porf[d[1]] \in Nat /\ Lab(g, e).porf[d[1]] <= Len(g.ev[d[1]])
    BY <2>1, <1>0 DEF PorfOk
  <2>3. d[2] \in 1 .. Len(g.ev[d[1]])
    BY <2>1, <2>2, <1>0, <1>6
  <2>4. <<d[1], d[2]>> \in Events(g)
    BY <2>1, <2>3, PairInEvents
  <2> QED BY <2>1, <2>4
<1>7. CutPoint(h, Events(h), c)
  <2> SUFFICES ASSUME NEW d \in Events(h), NEW e \in Events(h), Lab(h, e).stamp < s,
                      d[2] <= Lab(h, e).porf[d[1]]
               PROVE  Lab(h, d).stamp < s
    BY <1>4 DEF CutPoint
  <2>1. Lab(h, e).stamp \in Nat
    BY DEF LabelsOk, IsLabel
  <2>2. e \in Events(g) /\ Lab(g, e).stamp <= n /\ Lab(h, e).stamp = Lab(g, e).stamp
    BY <2>1, <1>5
  <2>3. Lab(h, e).porf = Lab(g, e).porf
    BY <2>2, <1>0, <1>3
  <2>4. d \in Events(g)
    BY <2>2, <2>3, <1>6
  <2>5. Lab(g, d).stamp < s
    BY <2>2, <2>3, <2>4, <1>1 DEF CutPoint
  <2> QED BY <2>4, <2>5, <1>0, <1>3
<1>8. ASSUME it.kind = "forward"
      PROVE  /\ c \in Revisitable(h) /\ it.rev # Lab(h, c).rf
             /\ it.rev = Init0 \/ (/\ it.rev \in Writes(h) /\ Lab(h, it.rev).stamp < s
                                   /\ Lab(h, it.rev).loc = Lab(h, c).loc)
  <2>1. /\ c \in Revisitable(g)
        /\ it.rev = Init0 \/ (/\ it.rev \in Writes(g) /\ Lab(g, it.rev).stamp < s
                              /\ Lab(g, it.rev).loc = Lab(g, c).loc)
    BY <1>8 DEF ItemOk
  <2>2. Lab(g, c).op = "R" /\ c \in Revisitable(h) /\ Lab(h, c).loc = Lab(g, c).loc
    BY <2>1, <1>1, <1>3, <1>4 DEF Revisitable, Reads
  <2>3. CASE it.rev # Init0
    <3>1. it.rev \in Events(g) /\ Lab(g, it.rev).op = "W" /\ Lab(g, it.rev).stamp <= n
      BY <2>1, <2>3, <1>0 DEF Writes
    <3> QED BY <3>1, <2>1, <2>2, <2>3, <1>3, <1>8 DEF Writes
  <2> QED BY <2>2, <2>3, <1>8
<1>9. ASSUME it.kind = "mo"
      PROVE  /\ c \in Writes(h) /\ Closed(h, c)
             /\ it.off \in Nat /\ it.off < Cardinality(StoresUpTo(h, Lab(h, c).loc, s))
  <2>1. /\ c \in Writes(g) /\ Closed(g, c)
        /\ it.off \in Nat /\ it.off < Cardinality(StoresUpTo(g, Lab(g, c).loc, s))
    BY <1>9 DEF ItemOk
  <2>2. /\ Lab(g, c).op = "W" /\ c \in Writes(h) /\ Lab(h, c).loc = Lab(g, c).loc
        /\ Lab(h, c).porf = Lab(g, c).porf
    BY <2>1, <1>1, <1>3, <1>4 DEF Writes
  <2>3. Closed(h, c)
    <3> SUFFICES ASSUME NEW d \in Events(h), d[2] <= Lab(g, c).porf[d[1]]
                 PROVE  Lab(h, d).stamp <= s
      BY <2>2, <1>4 DEF Closed
    <3>1. d \in Events(g)
      BY <1>1, <1>6
    <3>2. Lab(g, d).stamp <= s
      BY <3>1, <2>1, <1>1 DEF Closed
    <3> QED BY <3>1, <3>2, <1>0, <1>3
  <2>4. StoresUpTo(h, Lab(h, c).loc, s) = StoresUpTo(g, Lab(g, c).loc, s)
    <3> DEFINE l == Lab(g, c).loc
    <3> SUFFICES ASSUME NEW w
                 PROVE  w \in StoresUpTo(h, l, s) <=> w \in StoresUpTo(g, l, s)
      BY <2>2
    <3>1. ASSUME w \in StoresUpTo(h, l, s) PROVE w \in StoresUpTo(g, l, s)
      <4>1. w \in Events(h) /\ Lab(h, w).op = "W" /\ Lab(h, w).loc = l /\ Lab(h, w).stamp <= s
            /\ Lab(h, w).stamp \in Nat
        BY <3>1 DEF StoresUpTo, Writes, LabelsOk, IsLabel
      <4>2. w \in Events(g) /\ Lab(g, w).stamp <= n /\ Lab(h, w).stamp = Lab(g, w).stamp
        BY <4>1, <1>5
      <4> QED BY <4>1, <4>2, <1>3 DEF StoresUpTo, Writes
    <3>2. ASSUME w \in StoresUpTo(g, l, s) PROVE w \in StoresUpTo(h, l, s)
      <4>1. w \in Events(g) /\ Lab(g, w).op = "W" /\ Lab(g, w).loc = l /\ Lab(g, w).stamp <= s
            /\ Lab(g, w).stamp \in Nat
        BY <3>2, <1>0 DEF StoresUpTo, Writes
      <4> QED BY <4>1, <1>3 DEF StoresUpTo, Writes
    <3> QED BY <3>1, <3>2
  <2> QED BY <2>1, <2>2, <2>3, <2>4
<1> QED BY <1>1, <1>4, <1>7, <1>8, <1>9 DEF ItemOk

\* A queue whose items have stamps up to n.
LEMMA QueueKept ==
  ASSUME NEW g, GraphOk(g, {}), NEW h, GraphOk(h, {}), NEW n \in Nat, SameUpTo(g, h, n),
         NEW q, QueueOk(g, q),
         \A s \in DOMAIN q : Len(q[s]) # 0 => s <= n,
         \A s \in DOMAIN q : \A i \in 1 .. Len(q[s]) :
           q[s][i].kind = "forward" => q[s][i].rev # Lab(h, q[s][i].pos).rf
  PROVE  QueueOk(h, q)
<1>1. IsGraph(h) /\ LabelsOk(h)
  BY DEF GraphOk
<1>2. ASSUME NEW s \in DOMAIN q, NEW i \in 1 .. Len(q[s]) PROVE ItemOk(h, s, q[s][i])
  <2>1. s \in Nat /\ ItemOk(g, s, q[s][i]) /\ Len(q[s]) \in Nat
    BY DEF QueueOk, IsSeq
  <2>2. s <= n
    BY <2>1
  <2> QED BY <2>1, <2>2, <1>1, ItemKept
<1> QED BY <1>2 DEF QueueOk

-----------------------------------------------------------------------------
(* A store is added *)

\* Inserting at the end is appending.
LEMMA InsertLast ==
  ASSUME NEW s, IsSeq(s), NEW e
  PROVE  InsertAtOffset(s, Len(s), e) = Append(s, e)
<1> DEFINE n == Len(s)
           a == InsertAtOffset(s, n, e)
           b == Append(s, e)
<1>0. n \in Nat
  BY DEF IsSeq
<1>1. /\ IsSeq(a) /\ Len(a) = n + 1 /\ a[n + 1] = e
      /\ \A i \in 1 .. n : a[i] = s[i]
  <2>1. n \in 0 .. n
    BY <1>0
  <2> QED BY <2>1, InsertSeq
<1>2. /\ IsSeq(b) /\ Len(b) = n + 1 /\ b[n + 1] = e
      /\ \A i \in 1 .. n : b[i] = s[i]
  BY AppendSeq
<1> HIDE DEF n, a, b
<1>3. a = [i \in 1 .. n + 1 |-> a[i]] /\ b = [i \in 1 .. n + 1 |-> b[i]]
  BY <1>1, <1>2 DEF IsSeq
<1>4. \A i \in 1 .. n + 1 : a[i] = b[i]
  BY <1>0, <1>1, <1>2
<1>5. a = b
  BY <1>3, <1>4
<1> QED BY <1>5 DEF a, b, n

\* With -wb a store goes to the end.
LEMMA WBAddStore ==
  ASSUME NEW g, NEW e \in Writes(g), GraphOk(g, {e}), NEW loc \in Locs, loc = Lab(g, e).loc
  PROVE  LET h == WB!addStoreToLoc(g, loc, e)
         IN GraphOk(h, {}) /\ h.ev = g.ev /\ h.stamp = g.stamp
<1> DEFINE n == Len(g.co[loc])
           k == addStoreToLoc(g, loc, e, n)
           h == WB!addStoreToLoc(g, loc, e)
<1>0. IsGraph(g) /\ IsSeq(g.co[loc]) /\ n \in Nat
  BY DEF GraphOk, IsGraph, IsSeq
<1>1. GraphOk(k, {}) /\ k.ev = g.ev /\ k.stamp = g.stamp
  <2>1. n \in 0 .. n
    BY <1>0
  <2> HIDE DEF n
  <2> QED BY <2>1, PlaceStoreOk DEF n
<1>2. k = [g EXCEPT !.co[loc] = Append(g.co[loc], e)]
  <2>1. k = [g EXCEPT !.co[loc] = InsertAtOffset(g.co[loc], n, e)]
    BY DEF addStoreToLoc
  <2> QED BY <2>1, <1>0, InsertLast
<1>3. \E x : h = [g EXCEPT !.ordered[loc] = x, !.co[loc] = Append(g.co[loc], e)]
  BY DEF WB!addStoreToLoc
<1> HIDE DEF h, k, n
<1>4. \E x : h = [k EXCEPT !.ordered = x]
  <2>1. PICK x : h = [g EXCEPT !.ordered[loc] = x, !.co[loc] = Append(g.co[loc], e)]
    BY <1>3
  <2> DEFINE y == [g.ordered EXCEPT ![loc] = x]
             c == [g.co EXCEPT ![loc] = Append(g.co[loc], e)]
             h0 == [g EXCEPT !.ordered = y, !.co = c]
             k0 == [g EXCEPT !.co = c]
  <2>2. h = h0 /\ k = k0
    BY <2>1, <1>0, <1>2 DEF IsGraph
  <2> HIDE DEF y, c
  <2>3. DOMAIN g = {"ev", "co", "ordered", "stamp"}
    BY <1>0 DEF IsGraph
  <2>4. h0 = [k0 EXCEPT !.ordered = y]
    BY <2>3
  <2> QED BY <2>2, <2>4
<1>5. PICK x : h = [k EXCEPT !.ordered = x]
  BY <1>4
<1>6. IsGraph(k)
  BY <1>1 DEF GraphOk
<1>7. GraphOk(h, {}) /\ h.ev = k.ev /\ h.stamp = k.stamp
  BY <1>1, <1>5, <1>6, OrderedOk
<1> QED BY <1>1, <1>7 DEF h

\* A store that is put where it may go.
LEMMA StoreAddedOk ==
  ASSUME NEW g, NEW e \in Writes(g), GraphOk(g, {e}), NEW loc \in Locs, loc = Lab(g, e).loc,
         NEW off \in 0 .. Len(g.co[loc])
  PROVE  LET h == StoreAdded(g, loc, e, off)
         IN GraphOk(h, {}) /\ h.ev = g.ev /\ h.stamp = g.stamp
BY PlaceStoreOk, WBAddStore DEF StoreAdded

\* A store that is put right after another one, or after the initializer.
LEMMA StoreAddedAfterOk ==
  ASSUME NEW g, NEW e \in Writes(g), GraphOk(g, {e}), NEW loc \in Locs, loc = Lab(g, e).loc,
         NEW w, w = Init0 \/ (w \in Writes(g) \ {e} /\ Lab(g, w).loc = loc)
  PROVE  LET h == StoreAddedAfter(g, loc, e, w)
         IN GraphOk(h, {}) /\ h.ev = g.ev /\ h.stamp = g.stamp
<1>1. IsGraph(g) /\ CoOk(g, {e})
  BY DEF GraphOk
<1>2. getStoreOffset(g, loc, w) + 1 \in 0 .. Len(g.co[loc])
  BY <1>1, StoreOffset
<1>3. CASE isWB
  <2>1. StoreAddedAfter(g, loc, e, w) = WB!addStoreToLoc(g, loc, e)
    BY <1>3 DEF StoreAddedAfter, WB!addStoreToLocAfter
  <2> QED BY <2>1, WBAddStore
<1>4. CASE ~isWB
  <2>1. StoreAddedAfter(g, loc, e, w) = addStoreToLoc(g, loc, e, getStoreOffset(g, loc, w) + 1)
    BY <1>4 DEF StoreAddedAfter, addStoreToLocAfter
  <2> QED BY <2>1, <1>2, PlaceStoreOk
<1> QED BY <1>3, <1>4

\* The offsets at which a store may go.
LEMMA PlacingsOk ==
  ASSUME NEW g, IsGraph(g), NEW e, CoOk(g, {e}), NEW loc \in Locs,
         isRMWStore(g, e) =>
           LET w == Lab(g, Prev(e)).rf
           IN w = Init0 \/ (w \in Writes(g) \ {e} /\ Lab(g, w).loc = loc)
  PROVE  LET p == PlacingsOf(g, loc, e)
         IN /\ p[1] \in 0 .. Len(g.co[loc]) /\ p[2] \in 0 .. Len(g.co[loc])
            /\ p = <<p[1], p[2]>>
<1>0. Len(g.co[loc]) \in Nat
  BY DEF IsGraph, IsSeq
<1>1. CASE isWB
  <2>1. PlacingsOf(g, loc, e) = <<Len(g.co[loc]), Len(g.co[loc])>>
    BY <1>1 DEF PlacingsOf, WB!getPossiblePlacings
  <2> QED BY <2>1, <1>0
<1>2. CASE ~isWB /\ isRMWStore(g, e)
  <2> DEFINE off == getStoreOffset(g, loc, Lab(g, Prev(e)).rf) + 1
  <2>1. PlacingsOf(g, loc, e) = <<off, off>>
    BY <1>2 DEF PlacingsOf, getPossiblePlacings
  <2>2. off \in 0 .. Len(g.co[loc])
    BY <1>2, StoreOffset
  <2> HIDE DEF off
  <2> QED BY <2>1, <2>2
<1>3. CASE ~isWB /\ ~isRMWStore(g, e)
  <2> DEFINE off == splitLocMOBefore(g, loc, e)
  <2>1. PlacingsOf(g, loc, e) = <<off, Len(g.co[loc])>>
    BY <1>3 DEF PlacingsOf, getPossiblePlacings
  <2>2. off \in 0 .. Len(g.co[loc])
    BY <1>0, SplitRange
  <2> HIDE DEF off
  <2> QED BY <2>1, <2>2, <1>0
<1> QED BY <1>1, <1>2, <1>3

\* The other offsets are below the last one.
LEMMA OtherPlacingsOk ==
  ASSUME NEW g, NEW loc, NEW a \in Nat, NEW b \in Nat
  PROVE  LET offs == OtherPlacings(g, loc, <<a, b>>)
         IN /\ IsSeq(offs) /\ \A i \in 1 .. Len(offs) : offs[i] \in Nat /\ offs[i] < b
<1> DEFINE n == b - a
           s == [i \in 1 .. n |-> a + i - 1]
           I == {i \in 1 .. n : ~isRMWStore(g, g.co[loc][a + i])}
           offs == Kept(s, I)
<1>0. OtherPlacings(g, loc, <<a, b>>) = offs
  BY DEF OtherPlacings
<1>1. IsSeq(s) /\ \A i \in 1 .. Len(s) : s[i] \in Nat /\ s[i] < b
  <2>1. CASE n \in Nat
    <3>1. Len(s) = n
      BY <2>1
    <3> QED BY <2>1, <3>1 DEF IsSeq
  <2>2. CASE n \notin Nat
    <3>1. 1 .. n = {}
      BY <2>2
    <3>2. s = <<>>
      BY <3>1
    <3> HIDE DEF s
    <3> QED BY <3>2 DEF IsSeq
  <2> QED BY <2>1, <2>2
<1>2. \A i, j \in 1 .. Len(s) : s[i] = s[j] => i = j
  <2>1. CASE n \in Nat
    <3>1. Len(s) = n
      BY <2>1
    <3> QED BY <2>1, <3>1
  <2>2. CASE n \notin Nat
    <3>1. 1 .. n = {}
      BY <2>2
    <3>2. s = <<>>
      BY <3>1
    <3> HIDE DEF s
    <3> QED BY <3>2
  <2> QED BY <2>1, <2>2
<1> HIDE DEF s, I
<1>3. /\ IsSeq(offs)
      /\ \A x : (\E i \in 1 .. Len(offs) : offs[i] = x) <=> \E i \in 1 .. Len(s) : i \in I /\ s[i] = x
  BY <1>1, <1>2, KeptFacts
<1> QED BY <1>0, <1>1, <1>3

\* h is g with one more event, e.
Grown(g, h, e) ==
  /\ h.stamp = g.stamp + 1 /\ Events(h) = Events(g) \cup {e} /\ e \notin Events(g)
  /\ \A d \in Events(g) : Lab(h, d) = Lab(g, d)
  /\ Lab(h, e).stamp = g.stamp
Extended(g, h, e) == GraphOk(h, {}) /\ LocOk(h) /\ Grown(g, h, e)

\* The label of a store, added and still to be placed.
LEMMA AddWriteOk ==
  ASSUME NEW g, GraphOk(g, {}), LocOk(g), NEW t \in Threads, NEW rmw, NEW loc \in Locs, NEW ord, NEW val,
         NEW e, e = NextEvent(g, t),
         NEW lab, lab = calcWriteViews(g, e, NewWrite(rmw, loc, ord, val)),
         NEW h, h = addLabel(g, t, lab)
  PROVE  /\ e \in Writes(h) /\ GraphOk(h, {e}) /\ Grown(g, h, e)
         /\ Lab(h, e).loc = loc /\ Lab(h, e).rmw = rmw /\ lab.loc = loc
<1> DEFINE m == NewWrite(rmw, loc, ord, val)
<1>1. calcBasicPorfView(g, e) \in [Threads -> Nat]
  BY NextPorf
<1>2. /\ IsLabel(lab) /\ lab.op = "W" /\ lab.loc = loc /\ lab.rmw = rmw
      /\ lab.porf = calcBasicPorfView(g, e)
  BY <1>1, WriteLabelOk
<1>3. {"op", "loc", "rmw", "stamp"} \subseteq DOMAIN lab
  <2>1. {"op", "loc", "rmw", "stamp"} \subseteq DOMAIN m
    BY DEF NewWrite
  <2> HIDE DEF m
  <2>2. DOMAIN calcWriteViews(g, e, m) = DOMAIN m
    BY DEF calcWriteViews
  <2> QED BY <2>1, <2>2 DEF m
<1>4. GraphOk(h, {e})
  BY <1>2, AddLabelOk
<1>5. /\ h.co = g.co /\ h.stamp = g.stamp + 1
      /\ Events(h) = Events(g) \cup {e} /\ e \notin Events(g)
      /\ \A d \in Events(g) : Lab(h, d) = Lab(g, d)
      /\ Lab(h, e) = [lab EXCEPT !.stamp = g.stamp]
  BY <1>3, AddLabelShape DEF GraphOk
<1>6. Lab(h, e).op = "W" /\ Lab(h, e).loc = loc /\ Lab(h, e).rmw = rmw /\ Lab(h, e).stamp = g.stamp
  BY <1>2, <1>3, <1>5
<1>7. e \in Writes(h)
  BY <1>5, <1>6 DEF Writes
<1>8. Grown(g, h, e)
  BY <1>5, <1>6 DEF Grown
<1> QED BY <1>2, <1>4, <1>6, <1>7, <1>8

-----------------------------------------------------------------------------
(* The work queue while the graph grows *)

\* The graph can be cut just before and just after its newest event.
LEMMA NewestCut ==
  ASSUME NEW g, GraphOk(g, {}), NEW h, NEW e, Extended(g, h, e)
  PROVE  CutPoint(h, Events(h), e) /\ Closed(h, e)
<1>0. /\ IsGraph(g) /\ LabelsOk(g) /\ PorfOk(g, Events(g)) /\ StampsOk(g) /\ g.stamp \in Nat
      /\ IsGraph(h) /\ LabelsOk(h) /\ StampsOk(h)
      /\ h.stamp = g.stamp + 1 /\ Events(h) = Events(g) \cup {e} /\ e \notin Events(g)
      /\ \A d \in Events(g) : Lab(h, d) = Lab(g, d)
      /\ Lab(h, e).stamp = g.stamp
  BY DEF Extended, Grown, GraphOk, IsGraph
<1>1. \A d \in Events(h) : Lab(h, d).stamp \in Nat
  BY <1>0 DEF LabelsOk, IsLabel
<1>2. \A d \in Events(h) : Lab(h, d).stamp <= g.stamp
  BY <1>0, <1>1 DEF StampsOk
<1>3. Closed(h, e)
  BY <1>0, <1>2 DEF Closed
<1>4. CutPoint(h, Events(h), e)
  <2> SUFFICES ASSUME NEW d \in Events(h), NEW c \in Events(h), Lab(h, c).stamp < g.stamp,
                      d[2] <= Lab(h, c).porf[d[1]]
               PROVE  Lab(h, d).stamp < g.stamp
    BY <1>0 DEF CutPoint
  <2>1. c \in Events(g) /\ Lab(h, c) = Lab(g, c)
    BY <1>0
  <2>2. d = <<d[1], d[2]>> /\ d[1] \in Threads /\ d[2] \in 1 .. Len(h.ev[d[1]])
    BY InEvents
  <2>3. Len(h.ev[d[1]]) \in Nat /\ Len(g.ev[d[1]]) \in Nat
    BY <1>0, <2>2 DEF IsGraph, IsSeq
  <2>4. Lab(g, c).porf[d[1]] \in Nat /\ Lab(g, c).porf[d[1]] <= Len(g.ev[d[1]])
    BY <1>0, <2>1, <2>2 DEF PorfOk, LabelsOk, IsLabel
  <2>5. d[2] \in 1 .. Len(g.ev[d[1]])
    BY <2>1, <2>2, <2>3, <2>4
  <2>6. d \in Events(g)
    BY <2>2, <2>5, PairInEvents
  <2> QED BY <2>6, <1>0 DEF StampsOk
<1> QED BY <1>3, <1>4

\* The stamps that items are filed under are those of events.
LEMMA QueueStamps ==
  ASSUME NEW g, GraphOk(g, {}), NEW q, QueueOk(g, q), NEW s \in DOMAIN q, Len(q[s]) # 0
  PROVE  s \in Nat /\ s < g.stamp
<1>1. Len(q[s]) \in Nat /\ s \in Nat /\ \A i \in 1 .. Len(q[s]) : ItemOk(g, s, q[s][i])
  BY DEF QueueOk, IsSeq
<1>2. ItemOk(g, s, q[s][1])
  BY <1>1
<1>3. StampsOk(g)
  BY DEF GraphOk
<1> QED BY <1>1, <1>2, <1>3 DEF ItemOk, StampsOk

\* The items already in the queue are not affected by a new event.
LEMMA ExtendedQueue ==
  ASSUME NEW g, GraphOk(g, {}), NEW h, NEW e, Extended(g, h, e), NEW q, QueueOk(g, q)
  PROVE  QueueOk(h, q)
<1>0. /\ IsGraph(g) /\ LabelsOk(g) /\ StampsOk(g) /\ g.stamp \in Nat
      /\ IsGraph(h) /\ LabelsOk(h) /\ StampsOk(h)
      /\ h.stamp = g.stamp + 1 /\ Events(h) = Events(g) \cup {e} /\ e \notin Events(g)
      /\ \A d \in Events(g) : Lab(h, d) = Lab(g, d)
      /\ Lab(h, e).stamp = g.stamp
  BY DEF Extended, Grown, GraphOk, IsGraph
<1>1. \A d \in Events(g) : Lab(g, d).stamp \in Nat /\ Lab(g, d).stamp <= g.stamp - 1
  BY <1>0 DEF StampsOk, LabelsOk, IsLabel
<1>2. ASSUME NEW s \in DOMAIN q, NEW i \in 1 .. Len(q[s]) PROVE ItemOk(h, s, q[s][i])
  <2>1. ItemOk(g, s, q[s][i]) /\ Len(q[s]) \in Nat
    BY DEF QueueOk, IsSeq
  <2>2. s \in Nat /\ s < g.stamp
    <3>1. Len(q[s]) # 0
      BY <2>1
    <3> QED BY <3>1, QueueStamps
  <2>3. g.stamp - 1 \in Nat /\ s <= g.stamp - 1
    BY <2>2, <1>0
  <2>4. SameUpTo(g, h, g.stamp - 1)
    <3>1. ASSUME NEW d
          PROVE  (d \in Events(g) /\ Lab(g, d).stamp <= g.stamp - 1)
                   <=> (d \in Events(h) /\ Lab(h, d).stamp <= g.stamp - 1)
      BY <1>0, <1>1
    <3> QED BY <3>1, <1>0 DEF SameUpTo
  <2>5. q[s][i].kind = "forward" => q[s][i].rev # Lab(h, q[s][i].pos).rf
    BY <2>1, <1>0 DEF ItemOk
  <2> HIDE DEF SameUpTo
  <2> QED BY <2>1, <2>2, <2>3, <2>4, <2>5, <1>0, ItemKept
<1> QED BY <1>2 DEF QueueOk

\* Items are filed under a stamp that has none.
LEMMA AddItems ==
  ASSUME NEW g, NEW q, QueueOk(g, q), NEW n \in Nat, n \in DOMAIN q => Len(q[n]) = 0,
         NEW items, IsSeq(items), \A i \in 1 .. Len(items) : ItemOk(g, n, items[i]),
         \A i, j \in 1 .. Len(items) :
           i # j /\ items[i].kind = "forward" /\ items[j].kind = "forward" =>
             items[i].rev # items[j].rev
  PROVE  QueueOk(g, addToWorklist(q, n, items))
<1> DEFINE p == addToWorklist(q, n, items)
           A(s) == IF s \in DOMAIN q THEN q[s] ELSE <<>>
           B(s) == IF s = n THEN items ELSE <<>>
<1>0. DOMAIN q \subseteq Nat /\ \A s \in DOMAIN q : IsSeq(q[s])
  BY DEF QueueOk
<1>1. DOMAIN p = DOMAIN q \cup {n} /\ \A s \in DOMAIN p : p[s] = A(s) \o B(s)
  BY DEF addToWorklist
<1>2. IsSeq(<<>>) /\ Len(<<>>) = 0
  BY DEF IsSeq
<1> HIDE DEF p
<1>3. ASSUME NEW s \in DOMAIN p
      PROVE  /\ IsSeq(p[s])
             /\ s = n => Len(p[s]) = Len(items) /\ \A i \in 1 .. Len(p[s]) : p[s][i] = items[i]
             /\ s # n => s \in DOMAIN q /\ Len(p[s]) = Len(q[s]) /\ \A i \in 1 .. Len(p[s]) : p[s][i] = q[s][i]
  <2>1. IsSeq(A(s)) /\ IsSeq(B(s))
    BY <1>0, <1>2
  <2>2. p[s] = A(s) \o B(s)
    BY <1>1
  <2>3. s = n => Len(A(s)) = 0
    BY <1>2
  <2>4. s # n => s \in DOMAIN q /\ A(s) = q[s] /\ Len(B(s)) = 0
    BY <1>1, <1>2
  <2>5. s = n => B(s) = items
    OBVIOUS
  <2> HIDE DEF A, B
  <2>6. /\ IsSeq(p[s]) /\ Len(p[s]) = Len(A(s)) + Len(B(s))
        /\ \A i \in 1 .. Len(A(s)) : p[s][i] = A(s)[i]
        /\ \A i \in 1 .. Len(B(s)) : p[s][Len(A(s)) + i] = B(s)[i]
    BY <2>1, <2>2, ConcatSeq
  <2>7. Len(A(s)) \in Nat /\ Len(B(s)) \in Nat
    BY <2>1 DEF IsSeq
  <2> QED BY <2>3, <2>4, <2>5, <2>6, <2>7
<1> HIDE DEF A, B
<1>4. DOMAIN p \subseteq Nat
  BY <1>0, <1>1
<1>5. ASSUME NEW s \in DOMAIN p
      PROVE  /\ \A i \in 1 .. Len(p[s]) : ItemOk(g, s, p[s][i])
             /\ \A i, j \in 1 .. Len(p[s]) :
                  i # j /\ p[s][i].kind = "forward" /\ p[s][j].kind = "forward" =>
                    p[s][i].rev # p[s][j].rev
  <2>1. CASE s = n
    BY <2>1, <1>3
  <2>2. CASE s # n
    BY <2>2, <1>3 DEF QueueOk
  <2> QED BY <2>1, <2>2
<1> QED BY <1>3, <1>4, <1>5 DEF QueueOk, p

-----------------------------------------------------------------------------
(* visitStore() *)

\* Coherence has as many entries as there are stores.
LEMMA StoresCounted ==
  ASSUME NEW g, IsGraph(g), NEW P, CoOk(g, P), NEW loc \in Locs
  PROVE  LET S == {w \in Writes(g) \ P : Lab(g, w).loc = loc}
         IN IsFiniteSet(S) /\ Cardinality(S) = Len(g.co[loc]) /\ Len(g.co[loc]) \in Nat
<1> DEFINE s == g.co[loc]
           S == {w \in Writes(g) \ P : Lab(g, w).loc = loc}
<1>1. IsSeq(s) /\ \A i, j \in 1 .. Len(s) : s[i] = s[j] => i = j
  BY DEF IsGraph, CoOk
<1>2. {s[i] : i \in 1 .. Len(s)} = S
  BY DEF CoOk
<1> HIDE DEF s, S
<1>3. /\ IsFiniteSet({s[i] : i \in 1 .. Len(s)})
      /\ Cardinality({s[i] : i \in 1 .. Len(s)}) = Len(s)
  BY <1>1, DistinctLength
<1>4. IsFiniteSet(S) /\ Cardinality(S) = Len(s) /\ Len(s) \in Nat
  BY <1>1, <1>2, <1>3 DEF IsSeq
<1> QED BY <1>4 DEF s, S

\* The items that visitStore() and visitLoad() add to the queue.
PlaceItems(e, offs) == [i \in 1 .. Len(offs) |-> MOChange(e, offs[i])]
ReadItems(e, others, maximal) ==
  [i \in 1 .. Len(others) |-> Forward(e, others[i], others[i] \in maximal)]

\* A store that visitStore() adds, and the items for its other places.
LEMMA StoreOk ==
  ASSUME NEW g, GraphOk(g, {}), LocOk(g), NEW q, QueueOk(g, q),
         NEW t \in Threads, NEW rmw, NEW loc \in Locs, NEW ord, NEW val,
         rmw # "none" => LET r == <<t, Len(g.ev[t])>>
                         IN r \in Reads(g) /\ Lab(g, r).loc = loc,
         NEW e, e = NextEvent(g, t),
         NEW lab, lab = calcWriteViews(g, e, NewWrite(rmw, loc, ord, val)),
         NEW h, h = addLabel(g, t, lab),
         NEW p, p = PlacingsOf(h, lab.loc, e),
         NEW ng, ng = StoreAdded(h, lab.loc, e, p[2]),
         NEW offs, offs = OtherPlacings(h, lab.loc, p)
  PROVE  /\ Extended(g, ng, e) /\ e \in Writes(ng)
         /\ QueueOk(ng, q)
         /\ QueueOk(ng, addToWorklist(q, Lab(h, e).stamp, PlaceItems(e, offs)))
<1> DEFINE items == PlaceItems(e, offs)
<1>0. /\ e \in Writes(h) /\ GraphOk(h, {e}) /\ Grown(g, h, e)
      /\ Lab(h, e).loc = loc /\ Lab(h, e).rmw = rmw /\ lab.loc = loc
  BY AddWriteOk
<1>1. /\ e \in Writes(h) /\ GraphOk(h, {e})
      /\ h.stamp = g.stamp + 1 /\ Events(h) = Events(g) \cup {e} /\ e \notin Events(g)
      /\ \A d \in Events(g) : Lab(h, d) = Lab(g, d)
      /\ Lab(h, e).stamp = g.stamp /\ Lab(h, e).loc = loc /\ Lab(h, e).rmw = rmw
      /\ lab.loc = loc
  BY <1>0 DEF Grown
<1>2. IsGraph(g) /\ RfOk(g, Events(g)) /\ g.stamp \in Nat /\ Len(g.ev[t]) \in Nat
      /\ IsGraph(h) /\ CoOk(h, {e})
  BY <1>1 DEF GraphOk, IsGraph, IsSeq
<1>3. Prev(e) = <<t, Len(g.ev[t])>>
  BY <1>2 DEF Prev, NextEvent
<1>4. ASSUME isRMWStore(h, e)
      PROVE  LET w == Lab(h, Prev(e)).rf
             IN w = Init0 \/ (w \in Writes(h) \ {e} /\ Lab(h, w).loc = loc)
  <2>1. rmw # "none"
    BY <1>1, <1>4 DEF isRMWStore
  <2>2. Prev(e) \in Reads(g) /\ Lab(g, Prev(e)).loc = loc /\ Lab(g, Prev(e)).op = "R"
    BY <2>1, <1>3 DEF Reads
  <2>3. Prev(e) \in Events(g) /\ Lab(h, Prev(e)) = Lab(g, Prev(e))
    BY <2>2, <1>1 DEF Reads
  <2> DEFINE w == Lab(g, Prev(e)).rf
  <2>4. w # Init0 => w \in Writes(g) /\ Lab(g, w).loc = loc
    BY <2>2, <2>3, <1>2 DEF RfOk
  <2>5. w \in Writes(g) => w \in Writes(h) \ {e} /\ Lab(h, w) = Lab(g, w)
    BY <1>1 DEF Writes
  <2> QED BY <2>3, <2>4, <2>5
<1>5. /\ p[1] \in 0 .. Len(h.co[loc]) /\ p[2] \in 0 .. Len(h.co[loc])
      /\ p = <<p[1], p[2]>>
  <2>1. p = PlacingsOf(h, loc, e)
    BY <1>1
  <2>2. LET x == PlacingsOf(h, loc, e)
        IN /\ x[1] \in 0 .. Len(h.co[loc]) /\ x[2] \in 0 .. Len(h.co[loc])
           /\ x = <<x[1], x[2]>>
    BY <1>2, <1>4, PlacingsOk, Zenon
  <2> QED BY <2>1, <2>2
<1>6. Len(h.co[loc]) \in Nat
  BY <1>2 DEF IsGraph, IsSeq
<1>7. GraphOk(ng, {}) /\ ng.ev = h.ev /\ ng.stamp = h.stamp
  BY <1>1, <1>5, StoreAddedOk
<1>8. Events(ng) = Events(h) /\ (\A d : Lab(ng, d) = Lab(h, d)) /\ Writes(ng) = Writes(h)
  BY <1>7 DEF Events, Lab, Writes
<1>9. Extended(g, ng, e) /\ e \in Writes(ng)
  <2>1. LocOk(ng)
    BY <1>1, <1>8 DEF LocOk
  <2>2. Grown(g, ng, e)
    BY <1>1, <1>7, <1>8 DEF Grown
  <2> QED BY <2>1, <2>2, <1>1, <1>7, <1>8 DEF Extended
<1>10. QueueOk(ng, q)
  BY <1>9, ExtendedQueue
<1>11. IsSeq(offs) /\ \A i \in 1 .. Len(offs) : offs[i] \in Nat /\ offs[i] < p[2]
  <2>1. p[1] \in Nat /\ p[2] \in Nat
    BY <1>5, <1>6
  <2> DEFINE a == p[1]
             b == p[2]
             o == OtherPlacings(h, loc, <<a, b>>)
  <2>2. o = offs
    BY <1>1, <1>5
  <2> HIDE DEF a, b
  <2>3. IsSeq(o) /\ \A i \in 1 .. Len(o) : o[i] \in Nat /\ o[i] < b
    <3>1. a \in Nat /\ b \in Nat
      BY <2>1 DEF a, b
    <3> QED BY <3>1, OtherPlacingsOk
  <2> HIDE DEF o
  <2> QED BY <2>2, <2>3 DEF b
<1>12. Len(h.co[loc]) <= Cardinality(StoresUpTo(ng, loc, g.stamp))
       /\ Cardinality(StoresUpTo(ng, loc, g.stamp)) \in Nat
  <2> DEFINE S == {w \in Writes(h) \ {e} : Lab(h, w).loc = loc}
             T == {w \in Writes(ng) \ {} : Lab(ng, w).loc = loc}
             U == StoresUpTo(ng, loc, g.stamp)
  <2>1. IsFiniteSet(S) /\ Cardinality(S) = Len(h.co[loc])
    BY <1>2, StoresCounted
  <2>2. IsFiniteSet(T) /\ Cardinality(T) \in Nat
    <3>1. IsGraph(ng) /\ CoOk(ng, {})
      BY <1>7 DEF GraphOk
    <3>2. IsFiniteSet(T) /\ Cardinality(T) = Len(ng.co[loc])
      BY <3>1, StoresCounted
    <3>3. Len(ng.co[loc]) \in Nat
      BY <3>1 DEF IsGraph, IsSeq
    <3> HIDE DEF T
    <3> QED BY <3>2, <3>3
  <2>3. U = T
    <3>1. StampsOk(ng) /\ LabelsOk(ng)
      BY <1>7 DEF GraphOk
    <3>2. \A w \in Events(ng) : Lab(ng, w).stamp \in Nat /\ Lab(ng, w).stamp < g.stamp + 1
      BY <3>1, <1>1, <1>7 DEF StampsOk, LabelsOk, IsLabel
    <3>3. \A w \in Events(ng) : Lab(ng, w).stamp <= g.stamp
      BY <3>2, <1>2
    <3> QED BY <3>3 DEF StoresUpTo, Writes
  <2>4. S \subseteq T
    BY <1>8
  <2>5. Cardinality(S) <= Cardinality(T)
    BY <2>2, <2>4, FS_Subset
  <2> QED BY <2>1, <2>2, <2>3, <2>5
<1>13. IsSeq(items) /\ Len(items) = Len(offs) /\ \A i \in 1 .. Len(items) : items[i] = MOChange(e, offs[i])
  BY <1>11 DEF IsSeq, PlaceItems
<1> HIDE DEF items
<1>14. ASSUME NEW i \in 1 .. Len(items) PROVE ItemOk(ng, g.stamp, items[i])
  <2>1. items[i] = MOChange(e, offs[i]) /\ offs[i] \in Nat /\ offs[i] < p[2]
    BY <1>11, <1>13
  <2>2. offs[i] < Cardinality(StoresUpTo(ng, loc, g.stamp))
    BY <2>1, <1>5, <1>6, <1>12
  <2>3. /\ items[i].pos = e /\ items[i].kind = "mo" /\ items[i].off = offs[i]
    BY <2>1 DEF MOChange
  <2>4. e \in Events(ng) /\ Lab(ng, e).stamp = g.stamp /\ Lab(ng, e).loc = loc
    BY <1>1, <1>8
  <2>5. CutPoint(ng, Events(ng), e) /\ Closed(ng, e)
    BY <1>9, NewestCut
  <2> QED BY <2>1, <2>2, <2>3, <2>4, <2>5, <1>9 DEF ItemOk
<1>15. g.stamp \in DOMAIN q => Len(q[g.stamp]) = 0
  <2>1. \A s \in DOMAIN q : Len(q[s]) # 0 => s < g.stamp
    BY QueueStamps
  <2> QED BY <2>1, <1>2
<1>16. \A i \in 1 .. Len(items) : items[i].kind # "forward"
  <2>1. \A o : MOChange(e, o).kind # "forward"
    BY DEF MOChange
  <2> QED BY <1>13, <2>1
<1>17. QueueOk(ng, addToWorklist(q, g.stamp, items))
  BY <1>2, <1>10, <1>13, <1>14, <1>15, <1>16, AddItems
<1> QED BY <1>1, <1>9, <1>10, <1>17 DEF items

-----------------------------------------------------------------------------
(* Revisits *)

\* The store of a revisited read that has become a successful RMW.
LEMMA CompleteOk ==
  ASSUME NEW g, GraphOk(g, {}), LocOk(g), NEW r \in Reads(g), r[2] = Len(g.ev[r[1]])
  PROVE  LET ng == completeRevisitedRMW(g, r)
         IN Extended(g, ng, Succ(r)) /\ Succ(r) \in Writes(ng)
<1> DEFINE t == r[1]
           e == Succ(r)
           a == Lab(g, r)
           loc == a.loc
           val == ResultOf(a, ReadVal(g, r))
           lab == calcWriteViews(g, e, NewWrite(a.rmw, loc, a.ord, val))
           h == addLabel(g, t, lab)
           ng == StoreAddedAfter(h, lab.loc, e, a.rf)
<1>0. completeRevisitedRMW(g, r) = ng
  BY DEF completeRevisitedRMW, StoreOfRMW
<1>1. /\ r \in Events(g) /\ t \in Threads /\ a.op = "R" /\ loc \in Locs
      /\ e = NextEvent(g, t)
  BY InEvents DEF Reads, LocOk, Succ, NextEvent
<1>2. /\ e \in Writes(h) /\ GraphOk(h, {e}) /\ Grown(g, h, e)
      /\ Lab(h, e).loc = loc /\ Lab(h, e).rmw = a.rmw /\ lab.loc = loc
  <2> DEFINE rmw == a.rmw
             ord == a.ord
  <2>1. lab = calcWriteViews(g, e, NewWrite(rmw, loc, ord, val)) /\ h = addLabel(g, t, lab)
    OBVIOUS
  <2>2. loc \in Locs /\ t \in Threads /\ e = NextEvent(g, t)
    BY <1>1
  <2> HIDE DEF t, e, loc, val, rmw, ord, lab, h
  <2>3. /\ e \in Writes(h) /\ GraphOk(h, {e}) /\ Grown(g, h, e)
        /\ Lab(h, e).loc = loc /\ Lab(h, e).rmw = rmw /\ lab.loc = loc
    BY <2>1, <2>2, AddWriteOk
  <2> QED BY <2>3 DEF rmw
<1> HIDE DEF h, lab
<1>3. a.rf = Init0 \/ (a.rf \in Writes(h) \ {e} /\ Lab(h, a.rf).loc = loc)
  <2>1. RfOk(g, Events(g))
    BY DEF GraphOk
  <2>2. a.rf = Init0 \/ (a.rf \in Writes(g) /\ Lab(g, a.rf).loc = loc)
    BY <1>1, <2>1 DEF RfOk
  <2>3. a.rf \in Writes(g) => a.rf \in Writes(h) \ {e} /\ Lab(h, a.rf) = Lab(g, a.rf)
    BY <1>2 DEF Writes, Grown
  <2> QED BY <2>2, <2>3
<1>4. GraphOk(ng, {}) /\ ng.ev = h.ev /\ ng.stamp = h.stamp
  <2> DEFINE k == StoreAddedAfter(h, loc, e, a.rf)
  <2>1. k = ng
    BY <1>2
  <2>2. GraphOk(k, {}) /\ k.ev = h.ev /\ k.stamp = h.stamp
    <3> DEFINE w == a.rf
    <3>1. /\ e \in Writes(h) /\ GraphOk(h, {e}) /\ loc \in Locs /\ loc = Lab(h, e).loc
          /\ w = Init0 \/ (w \in Writes(h) \ {e} /\ Lab(h, w).loc = loc)
      BY <1>1, <1>2, <1>3
    <3> HIDE DEF e, a, loc, w, t, val
    <3>2. GraphOk(StoreAddedAfter(h, loc, e, w), {})
          /\ StoreAddedAfter(h, loc, e, w).ev = h.ev
          /\ StoreAddedAfter(h, loc, e, w).stamp = h.stamp
      BY <3>1, StoreAddedAfterOk, SMTT(60)
    <3> QED BY <3>2 DEF w
  <2> HIDE DEF k, ng
  <2> QED BY <2>1, <2>2
<1> HIDE DEF ng
<1>5. Events(ng) = Events(h) /\ (\A d : Lab(ng, d) = Lab(h, d)) /\ Writes(ng) = Writes(h)
  BY <1>4 DEF Events, Lab, Writes
<1>6. Grown(g, ng, e)
  BY <1>2, <1>4, <1>5 DEF Grown
<1>7. LocOk(ng)
  BY <1>1, <1>2, <1>5 DEF LocOk, Grown
<1>8. Extended(g, ng, e) /\ e \in Writes(ng)
  BY <1>2, <1>4, <1>5, <1>6, <1>7 DEF Extended
<1> QED BY <1>0, <1>8

\* The reads that calcRevisits() tries are of the store's location, may be
\* revisited, and are not in its prefix.
LEMMA RevisitsOk ==
  ASSUME NEW g, NEW w, NEW r \in RevisitsOf(g, w)
  PROVE  r \in Revisitable(g) /\ Lab(g, r).loc = Lab(g, w).loc /\ ~Contains(Lab(g, w).porf, r)
<1>1. CASE isWB
  <2>1. r \in WB!getRevisitable(g, w)
    BY <1>1 DEF RevisitsOf, WB!getCoherentRevisits
  <2>2. /\ r \in WB!Reads(g) /\ WB!Lab(g, r).loc = WB!Lab(g, w).loc
        /\ ~WB!Contains(WB!Lab(g, w).porf, r) /\ WB!Lab(g, r).rev
    BY <2>1 DEF WB!getRevisitable
  <2>3. /\ WB!Reads(g) = Reads(g) /\ WB!Lab(g, r) = Lab(g, r) /\ WB!Lab(g, w) = Lab(g, w)
        /\ WB!Contains(WB!Lab(g, w).porf, r) = Contains(WB!Lab(g, w).porf, r)
    BY DEF WB!Reads, WB!Events, WB!Lab, WB!Threads, WB!Contains, WB!Init0,
           Reads, Events, Lab, Threads, Contains, Init0
  <2> QED BY <2>2, <2>3 DEF Revisitable
<1>2. CASE ~isWB
  <2>1. r \in getRevisitable(g, w)
    BY <1>2 DEF RevisitsOf, getCoherentRevisits
  <2> QED BY <2>1 DEF getRevisitable, Revisitable
<1> QED BY <1>1, <1>2

\* A call of calcRevisits() as it starts.
LEMMA NewFrame ==
  ASSUME NEW g, NEW w \in Writes(g), NEW caller \in {"visit", "restrict", "nested"}
  PROVE  LET f == Frame(caller, g, w)
         IN FrameOk(g, f) /\ IsFrame(f) /\ f.caller = caller
<1> DEFINE L == RevisitsOf(g, w)
           f == Frame(caller, g, w)
<1>1. \A r \in L : r \in Revisitable(g) /\ Lab(g, r).loc = Lab(g, w).loc /\ ~Contains(Lab(g, w).porf, r)
  BY RevisitsOk
<1> HIDE DEF L
<1>2. f = [caller |-> caller, write |-> w, loads |-> L, saved |-> <<>>]
  BY DEF Frame, getRevisitableApproximation, L
<1> QED BY <1>1, <1>2 DEF FrameOk, IsFrame

\* The load tried next is one of those that remain.
LEMMA NextLoadOk ==
  ASSUME NEW g, GraphOk(g, {}), NEW L \in SUBSET Events(g), L # {}
  PROVE  NextLoad(g, L) \in L
<1>1. \A e \in Events(g) : Lab(g, e).stamp \in Nat /\ Lab(g, e).stamp <= g.stamp /\ g.stamp \in Nat
  BY DEF GraphOk, StampsOk, LabelsOk, IsLabel, IsGraph
<1> DEFINE S == {Lab(g, r).stamp : r \in L}
<1>2. S \in SUBSET Nat /\ S # {} /\ \A x \in S : x <= g.stamp /\ g.stamp \in Nat
  BY <1>1
<1>3. MaxOf(S) \in S /\ \A x \in S : x <= MaxOf(S)
  BY <1>2, MaxOfBounded
<1>4. \E r \in L : \A q \in L : Lab(g, q).stamp <= Lab(g, r).stamp
  <2>1. PICK r \in L : Lab(g, r).stamp = MaxOf(S)
    BY <1>3
  <2> QED BY <2>1, <1>3
<1> QED BY <1>4 DEF NextLoad

-----------------------------------------------------------------------------
(* The stores a read may read from *)

\* With -wb: where x goes among the elements that are already sorted, and
\* the recursion of InsertionSorted.
PlaceIn(less, acc, x) ==
  IF acc # <<>> /\ <<x, acc[1]>> \in less THEN 0
  ELSE WB!MaxOf({0} \cup {i \in 1 .. Len(acc) : <<x, acc[i]>> \notin less})
IsSorted(s, less, n, f) ==
  f = [i \in 0 .. n |-> IF i = 0 THEN <<>>
                        ELSE WB!InsertAtOffset(f[i - 1], PlaceIn(less, f[i - 1], s[i]), s[i])]

\* It has a solution of every length.
LEMMA SortedExists ==
  ASSUME NEW s, NEW less
  PROVE  \A n \in Nat : \E f : IsSorted(s, less, n, f)
<1> DEFINE S == {n \in Nat : \E f : IsSorted(s, less, n, f)}
<1>1. 0 \in S
  <2> DEFINE f == [i \in 0 .. 0 |-> <<>>]
  <2>1. IsSorted(s, less, 0, f)
    BY DEF IsSorted
  <2> QED BY <2>1
<1>2. ASSUME NEW n \in S PROVE n + 1 \in S
  <2>1. PICK f : IsSorted(s, less, n, f)
    OBVIOUS
  <2> DEFINE next == WB!InsertAtOffset(f[n], PlaceIn(less, f[n], s[n + 1]), s[n + 1])
             g == [i \in 0 .. n + 1 |-> IF i = n + 1 THEN next ELSE f[i]]
  <2>2. n \in Nat
    OBVIOUS
  <2>3. \A i \in 0 .. n : g[i] = f[i]
    BY <2>2
  <2>4. g[n + 1] = next
    BY <2>2
  <2>5. ASSUME NEW i \in 0 .. n + 1
        PROVE  g[i] = IF i = 0 THEN <<>>
                      ELSE WB!InsertAtOffset(g[i - 1], PlaceIn(less, g[i - 1], s[i]), s[i])
    <3>1. CASE i = n + 1
      <4>1. g[i - 1] = f[n] /\ i # 0
        BY <2>2, <2>3, <3>1
      <4>2. g[i] = next
        BY <2>4, <3>1
      <4> HIDE DEF g
      <4> QED BY <3>1, <4>1, <4>2, Zenon
    <3>2. CASE i \in 1 .. n
      <4>1. g[i] = f[i] /\ g[i - 1] = f[i - 1]
        BY <2>2, <2>3, <3>2
      <4>2. i \in 0 .. n /\ i # 0
        BY <2>2, <3>2
      <4> HIDE DEF g, next
      <4>3. f[i] = IF i = 0 THEN <<>>
                   ELSE WB!InsertAtOffset(f[i - 1], PlaceIn(less, f[i - 1], s[i]), s[i])
        BY <2>1, <4>2, Zenon DEF IsSorted
      <4> QED BY <4>1, <4>3, Zenon
    <3>3. CASE i = 0
      <4> HIDE DEF g, next
      <4> QED BY <2>1, <2>2, <2>3, <3>3 DEF IsSorted
    <3> QED BY <2>2, <3>1, <3>2, <3>3
  <2>6. g = [i \in 0 .. n + 1 |-> g[i]]
    OBVIOUS
  <2> HIDE DEF g, next
  <2>7. IsSorted(s, less, n + 1, g)
    BY <2>5, <2>6 DEF IsSorted
  <2> QED BY <2>2, <2>7
<1> HIDE DEF S
<1>3. S \in SUBSET Nat
  BY DEF S
<1>4. S = Nat
  BY <1>1, <1>2, <1>3, SetInduction
<1> QED BY <1>4 DEF S

\* InsertionSorted is its last value.
LEMMA SortedIsLast ==
  ASSUME NEW s, Len(s) \in Nat, NEW less
  PROVE  \E f : IsSorted(s, less, Len(s), f) /\ WB!InsertionSorted(s, less) = f[Len(s)]
<1> DEFINE D(f) == IsSorted(s, less, Len(s), f)
<1>1. \E f : D(f)
  BY SortedExists
<1>2. WB!InsertionSorted(s, less) = (CHOOSE f : D(f))[Len(s)]
  BY Zenon DEF WB!InsertionSorted, IsSorted, PlaceIn
<1>3. D(CHOOSE f : D(f))
  <2> HIDE DEF D
  <2> QED BY <1>1, Zenon
<1> QED BY <1>2, <1>3, Zenon

\* Sorting changes the order only.
LEMMA SortedFacts ==
  ASSUME NEW s, IsSeq(s), NEW less,
         \A i, j \in 1 .. Len(s) : s[i] = s[j] => i = j
  PROVE  LET k == WB!InsertionSorted(s, less)
         IN /\ IsSeq(k)
            /\ \A x : (\E i \in 1 .. Len(k) : k[i] = x) <=> \E i \in 1 .. Len(s) : s[i] = x
            /\ \A i, j \in 1 .. Len(k) : k[i] = k[j] => i = j
<1>0. Len(s) \in Nat
  BY DEF IsSeq
<1>1. PICK f : IsSorted(s, less, Len(s), f) /\ WB!InsertionSorted(s, less) = f[Len(s)]
  BY <1>0, SortedIsLast
<1> DEFINE Q(n) == /\ IsSeq(f[n])
                   /\ \A x : (\E i \in 1 .. Len(f[n]) : f[n][i] = x) <=> \E i \in 1 .. n : s[i] = x
                   /\ \A i, j \in 1 .. Len(f[n]) : f[n][i] = f[n][j] => i = j
           S == {n \in 0 .. Len(s) : Q(n)}
<1>2. 0 \in S
  <2>1. f[0] = <<>>
    BY <1>0, <1>1 DEF IsSorted
  <2>2. Len(f[0]) = 0
    BY <2>1
  <2>3. IsSeq(f[0])
    BY <2>1 DEF IsSeq
  <2> QED BY <2>2, <2>3, <1>0
<1>3. ASSUME NEW n \in 0 .. Len(s) - 1, n \in S PROVE n + 1 \in S
  <2> DEFINE a == f[n]
             b == f[n + 1]
             y == s[n + 1]
             m == Len(a)
             p == PlaceIn(less, a, y)
  <2>1. n \in Nat /\ n + 1 \in 1 .. Len(s) /\ Q(n)
    <3>1. Q(n)
      BY <1>3, Zenon
    <3>2. n \in Nat /\ n + 1 \in 1 .. Len(s)
      <4> HIDE DEF Q
      <4> QED BY <1>0
    <3> QED BY <3>1, <3>2, Zenon
  <2>2. b = InsertAtOffset(a, p, y)
    <3>1. n + 1 \in 0 .. Len(s) /\ n + 1 # 0 /\ (n + 1) - 1 = n
      BY <1>0, <2>1
    <3>2. f[n + 1] = IF n + 1 = 0 THEN <<>>
                     ELSE WB!InsertAtOffset(f[(n + 1) - 1], PlaceIn(less, f[(n + 1) - 1], s[n + 1]), s[n + 1])
      BY <1>1, <3>1, Zenon DEF IsSorted
    <3>3. b = WB!InsertAtOffset(a, p, y)
      BY <3>1, <3>2, Zenon
    <3> QED BY <3>3 DEF WB!InsertAtOffset, InsertAtOffset
  <2>3. /\ IsSeq(a) /\ m \in Nat
        /\ \A x : (\E i \in 1 .. m : a[i] = x) <=> \E i \in 1 .. n : s[i] = x
        /\ \A i, j \in 1 .. m : a[i] = a[j] => i = j
    <3>1. m \in Nat
      BY <2>1 DEF IsSeq
    <3> QED BY <2>1, <3>1, Zenon
  <2>4. \A x : (\E i \in 1 .. n + 1 : s[i] = x) <=> x = y \/ \E i \in 1 .. n : s[i] = x
    BY <2>1, OneMore
  <2>5. ~\E i \in 1 .. n : s[i] = y
    BY <2>1
  <2> HIDE DEF a, b, y, m
  <2>6. p \in 0 .. m
    <3> DEFINE T == {0} \cup {i \in 1 .. m : <<y, a[i]>> \notin less}
    <3>1. T \in SUBSET Nat /\ T # {} /\ \A x \in T : x <= m
      BY <2>3
    <3>2. p = 0 \/ p = MaxOf(T)
      BY DEF PlaceIn, WB!MaxOf, MaxOf, m
    <3> HIDE DEF T, p
    <3>3. MaxOf(T) \in T
      BY <3>1, <2>3, MaxOfBounded
    <3>4. MaxOf(T) \in 0 .. m
      <4>1. \A x \in T : x \in Nat /\ x <= m
        BY <3>1
      <4>2. MaxOf(T) \in Nat /\ MaxOf(T) <= m
        BY <3>3, <4>1
      <4> QED BY <4>2, <2>3
    <3>5. 0 \in 0 .. m
      BY <2>3
    <3> QED BY <3>2, <3>4, <3>5
  <2> HIDE DEF p
  <2>7. /\ IsSeq(b) /\ Len(b) = m + 1 /\ b[p + 1] = y
        /\ \A i \in 1 .. p : b[i] = a[i]
        /\ \A i \in p + 1 .. m : b[i + 1] = a[i]
    BY <2>2, <2>3, <2>6, InsertSeq DEF m
  <2>8. \A i \in 1 .. m + 1 : \/ i <= p /\ i \in 1 .. m /\ b[i] = a[i]
                              \/ i = p + 1 /\ b[i] = y
                              \/ i > p + 1 /\ i - 1 \in 1 .. m /\ b[i] = a[i - 1]
    <3> SUFFICES ASSUME NEW i \in 1 .. m + 1, ~(i <= p), i # p + 1
                 PROVE  i > p + 1 /\ i - 1 \in 1 .. m /\ b[i] = a[i - 1]
      BY <2>3, <2>6, <2>7
    <3>1. i > p + 1 /\ i - 1 \in p + 1 .. m /\ (i - 1) + 1 = i
      BY <2>3, <2>6
    <3> QED BY <3>1, <2>7, <2>6, <2>3
  <2>9. \A x : (\E i \in 1 .. m + 1 : b[i] = x) <=> x = y \/ \E i \in 1 .. m : a[i] = x
    <3> SUFFICES ASSUME NEW x
                 PROVE  (\E i \in 1 .. m + 1 : b[i] = x) <=> x = y \/ \E i \in 1 .. m : a[i] = x
      OBVIOUS
    <3>1. (\E i \in 1 .. m + 1 : b[i] = x) => x = y \/ \E i \in 1 .. m : a[i] = x
      BY <2>8
    <3>2. ASSUME x = y PROVE \E i \in 1 .. m + 1 : b[i] = x
      BY <3>2, <2>3, <2>6, <2>7
    <3>3. ASSUME NEW i \in 1 .. m, a[i] = x PROVE \E j \in 1 .. m + 1 : b[j] = x
      <4>1. CASE i <= p
        BY <3>3, <4>1, <2>3, <2>6, <2>7
      <4>2. CASE ~(i <= p)
        <5>1. i \in p + 1 .. m /\ i + 1 \in 1 .. m + 1
          BY <4>2, <2>3, <2>6
        <5>2. b[i + 1] = a[i]
          BY <5>1, <2>7
        <5> QED BY <3>3, <5>1, <5>2
      <4> QED BY <4>1, <4>2
    <3> QED BY <3>1, <3>2, <3>3
  <2>10. \A i \in 1 .. m : a[i] # y
    BY <2>3, <2>5
  <2>11. \A i, j \in 1 .. m + 1 : b[i] = b[j] => i = j
    <3> SUFFICES ASSUME NEW i \in 1 .. m + 1, NEW j \in 1 .. m + 1, b[i] = b[j] PROVE i = j
      OBVIOUS
    <3> QED BY <2>3, <2>6, <2>8, <2>10
  <2>12. Q(n + 1)
    <3>1. \A x : (\E i \in 1 .. m + 1 : b[i] = x) <=> \E i \in 1 .. n + 1 : s[i] = x
      BY <2>3, <2>4, <2>9
    <3> QED BY <2>7, <2>11, <3>1, Zenon DEF b
  <2> QED BY <2>1, <2>12
<1> HIDE DEF S
<1>4. Len(s) \in S
  <2>1. \A n \in 0 .. Len(s) : n \in S
    BY <1>0, <1>2, <1>3, BoundedInduction
  <2> QED BY <2>1, <1>0
<1> QED BY <1>1, <1>4 DEF S

\* Different stores to loc, or the initializer.
StoresOk(g, loc, s) ==
  /\ IsSeq(s) /\ \A i, j \in 1 .. Len(s) : s[i] = s[j] => i = j
  /\ \A i \in 1 .. Len(s) : s[i] = Init0 \/ (s[i] \in Writes(g) /\ Lab(g, s[i]).loc = loc)

\* Coherence itself, and the part of a choice that is kept.
LEMMA CoStores ==
  ASSUME NEW g, IsGraph(g), CoOk(g, {}), NEW loc \in Locs
  PROVE  /\ StoresOk(g, loc, g.co[loc])
         /\ \A i \in 1 .. Len(g.co[loc]) : g.co[loc][i] # Init0
<1>1. IsSeq(g.co[loc]) /\ \A i, j \in 1 .. Len(g.co[loc]) : g.co[loc][i] = g.co[loc][j] => i = j
  BY DEF IsGraph, CoOk
<1>2. \A i \in 1 .. Len(g.co[loc]) : g.co[loc][i] \in Writes(g) /\ Lab(g, g.co[loc][i]).loc = loc
  BY DEF CoOk
<1>3. \A w \in Writes(g) : w # Init0
  BY InEvents DEF Writes
<1> QED BY <1>1, <1>2, <1>3 DEF StoresOk

\* Dropping entries leaves a list of stores to the location, each once.
LEMMA KeptStores ==
  ASSUME NEW g, NEW loc, NEW s, StoresOk(g, loc, s), NEW I
  PROVE  /\ StoresOk(g, loc, Kept(s, I))
         /\ \A x : (\E i \in 1 .. Len(Kept(s, I)) : Kept(s, I)[i] = x) => \E i \in 1 .. Len(s) : s[i] = x
<1> DEFINE k == Kept(s, I)
<1>1. IsSeq(s) /\ \A i, j \in 1 .. Len(s) : s[i] = s[j] => i = j
  BY DEF StoresOk
<1>2. /\ IsSeq(k)
      /\ \A x : (\E i \in 1 .. Len(k) : k[i] = x) <=> \E i \in 1 .. Len(s) : i \in I /\ s[i] = x
      /\ \A i, j \in 1 .. Len(k) : k[i] = k[j] => i = j
  BY <1>1, KeptFacts
<1> HIDE DEF k
<1>3. \A i \in 1 .. Len(k) : \E j \in 1 .. Len(s) : s[j] = k[i]
  BY <1>2
<1>4. StoresOk(g, loc, k)
  BY <1>2, <1>3 DEF StoresOk
<1> QED BY <1>2, <1>4 DEF k

\* The initializer may come first.
LEMMA InitFirst ==
  ASSUME NEW g, NEW loc, NEW s, StoresOk(g, loc, s), \A i \in 1 .. Len(s) : s[i] # Init0
  PROVE  /\ StoresOk(g, loc, <<Init0>> \o s)
         /\ StoresOk(g, loc, <<>> \o s)
<1>0. IsSeq(s) /\ Len(s) \in Nat
  BY DEF StoresOk, IsSeq
<1>1. IsSeq(<<Init0>>) /\ Len(<<Init0>>) = 1 /\ <<Init0>>[1] = Init0
  BY DEF IsSeq
<1>2. IsSeq(<<>>) /\ Len(<<>>) = 0
  BY DEF IsSeq
<1>3. ASSUME NEW a, a = <<Init0>> \/ a = <<>>
      PROVE  StoresOk(g, loc, a \o s)
  <2> DEFINE c == a \o s
  <2>1. /\ IsSeq(a) /\ Len(a) \in {0, 1} /\ \A i \in 1 .. Len(a) : i = 1 /\ a[i] = Init0
    <3>1. CASE a = <<Init0>>
      <4>1. Len(a) = 1 /\ a[1] = Init0 /\ IsSeq(a)
        BY <1>1, <3>1
      <4> QED BY <4>1
    <3>2. CASE a = <<>>
      <4>1. Len(a) = 0 /\ IsSeq(a)
        BY <1>2, <3>2
      <4> QED BY <4>1
    <3> QED BY <1>3, <3>1, <3>2
  <2>2. /\ IsSeq(c) /\ Len(c) = Len(a) + Len(s)
        /\ \A i \in 1 .. Len(a) : c[i] = a[i]
        /\ \A i \in 1 .. Len(s) : c[Len(a) + i] = s[i]
    BY <1>0, <2>1, ConcatSeq
  <2> DEFINE m == Len(a)
  <2> HIDE DEF c, m
  <2>3. m \in {0, 1} /\ Len(c) = m + Len(s)
    BY <2>1, <2>2 DEF m
  <2>4. \A i \in 1 .. Len(c) : \/ i = 1 /\ m = 1 /\ c[i] = Init0
                               \/ i > m /\ i - m \in 1 .. Len(s) /\ c[i] = s[i - m]
    <3> SUFFICES ASSUME NEW i \in 1 .. Len(c)
                 PROVE  \/ i = 1 /\ m = 1 /\ c[i] = Init0
                        \/ i > m /\ i - m \in 1 .. Len(s) /\ c[i] = s[i - m]
      OBVIOUS
    <3>1. CASE i <= m
      BY <3>1, <2>1, <2>2, <2>3 DEF m
    <3>2. CASE i > m
      <4>1. i - m \in 1 .. Len(s) /\ m + (i - m) = i
        BY <3>2, <2>3, <1>0
      <4>2. c[m + (i - m)] = s[i - m]
        BY <4>1, <2>2 DEF m
      <4> QED BY <3>2, <4>1, <4>2
    <3> QED BY <3>1, <3>2, <2>3, <1>0
  <2>5. ASSUME NEW i \in 1 .. Len(c), NEW j \in 1 .. Len(c), c[i] = c[j] PROVE i = j
    <3>1. \A k, l \in 1 .. Len(s) : s[k] = s[l] => k = l
      BY DEF StoresOk
    <3>2. \A k \in 1 .. Len(s) : s[k] # Init0
      OBVIOUS
    <3>3. CASE i > m /\ i - m \in 1 .. Len(s) /\ c[i] = s[i - m]
      <4>1. j > m /\ j - m \in 1 .. Len(s) /\ c[j] = s[j - m]
        BY <2>4, <2>5, <3>2, <3>3
      <4>2. i - m = j - m
        BY <2>5, <3>1, <3>3, <4>1
      <4> QED BY <4>2, <2>3, <1>0
    <3>4. CASE i = 1 /\ m = 1 /\ c[i] = Init0
      <4>1. j = 1
        BY <2>4, <2>5, <3>2, <3>4
      <4> QED BY <3>4, <4>1
    <3> QED BY <2>4, <3>3, <3>4
  <2>6. \A i \in 1 .. Len(c) : c[i] = Init0 \/ (c[i] \in Writes(g) /\ Lab(g, c[i]).loc = loc)
    BY <2>4 DEF StoresOk
  <2>7. StoresOk(g, loc, c)
    BY <2>2, <2>5, <2>6 DEF StoresOk
  <2> QED BY <2>7 DEF c
<1> QED BY <1>3

\* With -mo.
LEMMA MOStores ==
  ASSUME NEW g, IsGraph(g), CoOk(g, {}), NEW loc \in Locs, NEW e
  PROVE  StoresOk(g, loc, getCoherentStores(g, loc, e))
<1> DEFINE b == splitLocMOBefore(g, loc, e)
           s == g.co[loc]
           n == Len(s)
           c == getCoherentStores(g, loc, e)
<1>0. StoresOk(g, loc, s) /\ (\A i \in 1 .. Len(s) : s[i] # Init0) /\ IsSeq(s) /\ n \in Nat
  BY CoStores DEF StoresOk, IsSeq
<1>1. b \in 0 .. n
  BY <1>0, SplitRange
<1> HIDE DEF b
<1>2. IsSeq(<<Init0>>) /\ Len(<<Init0>>) = 1
  BY DEF IsSeq
<1>3. CASE b = 0
  <2>1. c = <<Init0>> \o SubSeq(s, 1, n)
    BY <1>3 DEF getCoherentStores, b
  <2>2. SubSeq(s, 1, n) = s
    <3>1. n \in 0 .. Len(s)
      BY <1>0
    <3> DEFINE d == SubSeq(s, 1, n)
    <3>2. IsSeq(d) /\ Len(d) = n /\ \A i \in 1 .. n : d[i] = s[i]
      BY <1>0, <3>1, PrefixSeq
    <3> HIDE DEF d
    <3>3. d = [i \in 1 .. n |-> d[i]] /\ s = [i \in 1 .. n |-> s[i]]
      BY <3>2, <1>0 DEF IsSeq
    <3>4. d = s
      BY <3>2, <3>3
    <3> QED BY <3>4 DEF d
  <2> QED BY <2>1, <2>2, <1>0, InitFirst
<1>4. CASE b # 0
  <2> DEFINE a == <<s[b]>>
             d == SubSeq(s, b + 1, n)
  <2>1. c = a \o d
    BY <1>4 DEF getCoherentStores, b
  <2>2. IsSeq(a) /\ Len(a) = 1 /\ a[1] = s[b]
    BY DEF IsSeq
  <2>3. IsSeq(d) /\ Len(d) = n - b /\ \A i \in 1 .. n - b : d[i] = s[b + i]
    <3> HIDE DEF n
    <3>1. b \in 0 .. Len(s)
      BY <1>1 DEF n
    <3> QED BY <1>0, <3>1, SuffixSeq DEF n
  <2>9. n = Len(s)
    OBVIOUS
  <2> HIDE DEF a, d, n, s
  <2>4. /\ IsSeq(c) /\ Len(c) = 1 + (n - b)
        /\ c[1] = s[b] /\ \A i \in 1 .. n - b : c[1 + i] = s[b + i]
    <3> HIDE DEF c
    <3>1. /\ IsSeq(c) /\ Len(c) = Len(a) + Len(d)
          /\ \A i \in 1 .. Len(a) : c[i] = a[i]
          /\ \A i \in 1 .. Len(d) : c[Len(a) + i] = d[i]
      <4> DEFINE x == a \o d
      <4>1. /\ IsSeq(x) /\ Len(x) = Len(a) + Len(d)
            /\ \A i \in 1 .. Len(a) : x[i] = a[i]
            /\ \A i \in 1 .. Len(d) : x[Len(a) + i] = d[i]
        <5> HIDE DEF x
        <5>1. IsSeq(a) /\ IsSeq(d)
          BY <2>2, <2>3
        <5> QED BY <5>1, ConcatSeq DEF x
      <4>2. c = x
        BY <2>1
      <4> HIDE DEF x
      <4> QED BY <4>1, <4>2
    <3> QED BY <2>2, <2>3, <3>1
  <2> HIDE DEF c
  <2>5. \A i \in 1 .. Len(c) : b + i - 1 \in 1 .. n /\ c[i] = s[b + i - 1]
    <3> SUFFICES ASSUME NEW i \in 1 .. Len(c)
                 PROVE  b + i - 1 \in 1 .. n /\ c[i] = s[b + i - 1]
      OBVIOUS
    <3>1. CASE i = 1
      BY <3>1, <2>4, <1>0, <1>1, <1>4
    <3>2. CASE i # 1
      <4>1. i - 1 \in 1 .. n - b /\ 1 + (i - 1) = i /\ b + (i - 1) = b + i - 1 /\ b + i - 1 \in 1 .. n
        BY <3>2, <2>4, <1>0, <1>1, <1>4
      <4>2. c[1 + (i - 1)] = s[b + (i - 1)]
        BY <4>1, <2>4
      <4> QED BY <4>1, <4>2
    <3> QED BY <3>1, <3>2
  <2>6. ASSUME NEW i \in 1 .. Len(c), NEW j \in 1 .. Len(c), c[i] = c[j] PROVE i = j
    <3>1. b + i - 1 = b + j - 1
      BY <2>5, <2>6, <2>9, <1>0 DEF StoresOk
    <3> QED BY <3>1, <2>4, <1>0, <1>1
  <2>7. \A i \in 1 .. Len(c) : c[i] = Init0 \/ (c[i] \in Writes(g) /\ Lab(g, c[i]).loc = loc)
    BY <2>5, <2>9, <1>0 DEF StoresOk
  <2>8. StoresOk(g, loc, c)
    BY <2>4, <2>6, <2>7 DEF StoresOk
  <2> QED BY <2>8 DEF c
<1> QED BY <1>3, <1>4

\* With -wb.
LEMMA WBStores ==
  ASSUME NEW g, IsGraph(g), CoOk(g, {}), NEW loc \in Locs, NEW e,
         NEW cs \in WB!getCoherentStores(g, loc, e)
  PROVE  StoresOk(g, loc, cs.stores)
<1> DEFINE s == g.co[loc]
           IsChoice(c, I) == c = <<Init0>> \o Kept(s, I) \/ c = <<>> \o Kept(s, I)
<1>1. StoresOk(g, loc, s) /\ \A i \in 1 .. Len(s) : s[i] # Init0
  BY CoStores
<1>2. ASSUME NEW I, NEW c, IsChoice(c, I) PROVE StoresOk(g, loc, c)
  <2> DEFINE k == Kept(s, I)
  <2>1. /\ StoresOk(g, loc, k)
        /\ \A x : (\E i \in 1 .. Len(k) : k[i] = x) => \E i \in 1 .. Len(s) : s[i] = x
    BY <1>1, KeptStores
  <2>2. c = <<Init0>> \o k \/ c = <<>> \o k
    BY <1>2
  <2> HIDE DEF k, s
  <2>3. \A i \in 1 .. Len(k) : k[i] # Init0
    BY <2>1, <1>1
  <2> QED BY <2>1, <2>2, <2>3, InitFirst
<1>3. ASSUME NEW view
      PROVE  LET opt == WB!tryOptimizeWBCalculation(g, loc, view)
             IN /\ \E I : IsChoice(opt.stores, I)
                /\ \A J : \E I : IsChoice(opt.init \o Kept(s, J), I)
  BY DEF WB!tryOptimizeWBCalculation, WB!Kept, Kept, WB!Init0, Init0
<1>4. ASSUME NEW c, NEW I, IsChoice(c, I), NEW wb
      PROVE  StoresOk(g, loc, WB!SortedByWb(g, c, wb))
  <2>1. StoresOk(g, loc, c)
    BY <1>2, <1>4
  <2>2. PICK less : WB!SortedByWb(g, c, wb) = WB!InsertionSorted(c, less)
    BY DEF WB!SortedByWb
  <2> DEFINE k == WB!InsertionSorted(c, less)
  <2>3. /\ IsSeq(k)
        /\ \A x : (\E i \in 1 .. Len(k) : k[i] = x) <=> \E i \in 1 .. Len(c) : c[i] = x
        /\ \A i, j \in 1 .. Len(k) : k[i] = k[j] => i = j
    BY <2>1, SortedFacts DEF StoresOk
  <2> HIDE DEF k
  <2>4. \A i \in 1 .. Len(k) : \E j \in 1 .. Len(c) : c[j] = k[i]
    BY <2>3
  <2>5. StoresOk(g, loc, k)
    BY <2>1, <2>3, <2>4 DEF StoresOk
  <2> QED BY <2>2, <2>5 DEF k
<1>5. PICK view : \/ cs.stores = WB!tryOptimizeWBCalculation(g, loc, view).stores
                  \/ \E J : cs.stores = WB!tryOptimizeWBCalculation(g, loc, view).init \o Kept(s, J)
                  \/ \E wb, c : /\ cs.stores = WB!SortedByWb(g, c, wb)
                                /\ \/ c = WB!tryOptimizeWBCalculation(g, loc, view).stores
                                   \/ \E J : c = WB!tryOptimizeWBCalculation(g, loc, view).init \o Kept(s, J)
  <2>1. \A J : WB!Kept(s, J) = Kept(s, J)
    BY DEF WB!Kept, Kept
  <2> DEFINE Outcome(opt) ==
               \/ cs.stores = opt.stores
               \/ \E J : cs.stores = opt.init \o WB!Kept(s, J)
               \/ \E wb, c : /\ cs.stores = WB!SortedByWb(g, c, wb)
                             /\ c = opt.stores \/ \E J : c = opt.init \o WB!Kept(s, J)
             J0 == {i \in DOMAIN s : WB!isCoherentRf(g, loc, e, s[i])}
             all == WB!Seqs!ToSet(s)
             Stores(opt) == IF opt.ok THEN opt.stores ELSE opt.init \o WB!Kept(s, J0)
             Outs(opt) ==
               IF WB!isLocEmpty(g, loc) THEN {[stores |-> opt.stores, maximal |-> {WB!Init0}]}
               ELSE IF WB!isLocOrdered(g, loc)
               THEN {[stores |-> Stores(opt), maximal |-> {WB!Seqs!Last(s)}]}
               ELSE IF opt.ok
               THEN {[stores |-> Stores(opt), maximal |-> WB!Seqs!ToSet(Stores(opt)) \ {WB!Init0}]}
               ELSE {[stores |-> WB!SortedByWb(g, Stores(opt), wb),
                      maximal |-> {w \in all : \A x \in all : <<w, x>> \notin wb}]
                       : wb \in {WB!calcWb(g, loc)}}
             V == WB!getRfOptHbBeforeStores(g, loc, WB!PrevHb(g, e))
  <2>2. cs \in UNION {Outs(WB!tryOptimizeWBCalculation(g, loc, view)) : view \in V}
    BY Zenon DEF WB!getCoherentStores
  <2> HIDE DEF J0, all, V, s
  <2>3. ASSUME NEW opt, cs \in Outs(opt)
        PROVE  \/ cs.stores = opt.stores
               \/ cs.stores = opt.init \o WB!Kept(s, J0)
               \/ \E wb : cs.stores = WB!SortedByWb(g, Stores(opt), wb)
    <3>1. Stores(opt) = opt.stores \/ Stores(opt) = opt.init \o WB!Kept(s, J0)
      OBVIOUS
    <3> HIDE DEF Stores
    <3>2. cs.stores \in {opt.stores, Stores(opt)} \/ \E wb : cs.stores = WB!SortedByWb(g, Stores(opt), wb)
      BY <2>3
    <3> QED BY <3>1, <3>2
  <2>4. \A opt : Stores(opt) = opt.stores \/ Stores(opt) = opt.init \o WB!Kept(s, J0)
    OBVIOUS
  <2> HIDE DEF Outs, Stores
  <2>5. PICK view : cs \in Outs(WB!tryOptimizeWBCalculation(g, loc, view))
    BY <2>2
  <2> DEFINE opt == WB!tryOptimizeWBCalculation(g, loc, view)
  <2> HIDE DEF opt
  <2>6. Outcome(opt)
    BY <2>3, <2>4, <2>5 DEF opt
  <2> QED BY <2>1, <2>6 DEF opt, s
<1> HIDE DEF IsChoice
<1> QED BY <1>2, <1>3, <1>4, <1>5

\* What a new read is offered.
LEMMA ChosenOk ==
  ASSUME NEW g, IsGraph(g), CoOk(g, {}), NEW loc \in Locs, NEW e,
         NEW cs \in CoherentStores(g, loc, e),
         NEW stores \in ensureConsistentRf(g, e, getRfsApproximation(g, e, cs.stores))
  PROVE  StoresOk(g, loc, stores) /\ Len(stores) \in Nat \ {0}
<1> DEFINE s == getRfsApproximation(g, e, cs.stores)
<1>1. StoresOk(g, loc, cs.stores)
  <2>1. CASE isWB
    BY <2>1, WBStores DEF CoherentStores
  <2>2. CASE ~isWB
    <3>1. cs.stores = getCoherentStores(g, loc, e)
      BY <2>2 DEF CoherentStores
    <3> QED BY <3>1, MOStores
  <2> QED BY <2>1, <2>2
<1>2. \E I : s = Kept(cs.stores, I)
  BY DEF getRfsApproximation
<1>3. StoresOk(g, loc, s)
  BY <1>1, <1>2, KeptStores
<1> HIDE DEF s
<1>4. IsSeq(s) /\ Len(s) \in Nat
  BY <1>3 DEF StoresOk, IsSeq
<1>5. DOMAIN s = 1 .. Len(s)
  BY <1>4 DEF IsSeq
<1>6. PICK n \in 1 .. Len(s) : stores = SubSeq(s, 1, n)
  BY <1>5 DEF ensureConsistentRf, s
<1>7. IsSeq(stores) /\ Len(stores) = n /\ \A i \in 1 .. n : stores[i] = s[i]
  BY <1>4, <1>6, PrefixSeq
<1>8. StoresOk(g, loc, stores)
  BY <1>3, <1>4, <1>6, <1>7 DEF StoresOk
<1> QED BY <1>4, <1>7, <1>8

-----------------------------------------------------------------------------
(* visitLoad() *)

\* A read is added and reads the last store it was offered; there is an item
\* for each of the others.
LEMMA LoadOk ==
  ASSUME NEW g, GraphOk(g, {}), LocOk(g), NEW q, QueueOk(g, q),
         NEW t \in Threads, NEW ins, ins.loc \in Locs,
         NEW e, e = NextEvent(g, t),
         NEW lab, lab = calcReadViews(g, e, NewRead(ins)),
         NEW h, h = addLabel(g, t, lab),
         NEW cs \in CoherentStores(h, lab.loc, e),
         NEW stores \in ensureConsistentRf(h, e, getRfsApproximation(h, e, cs.stores)),
         NEW others, others = SubSeq(stores, 1, Len(stores) - 1),
         NEW ng, ng = changeRf(h, e, stores[Len(stores)])
  PROVE  /\ Extended(g, ng, e)
         /\ QueueOk(ng, q)
         /\ QueueOk(ng, addToWorklist(q, Lab(h, e).stamp, ReadItems(e, others, cs.maximal)))
<1> DEFINE w == stores[Len(stores)]
           items == ReadItems(e, others, cs.maximal)
<1>1. calcBasicPorfView(g, e) \in [Threads -> Nat]
  BY NextPorf
<1>2. /\ IsLabel(lab) /\ lab.op = "R" /\ lab.rf = Init0 /\ lab.loc = ins.loc /\ lab.rev
      /\ lab.porf = calcBasicPorfView(g, e)
  BY <1>1, ReadLabelOk
<1>3. GraphOk(h, {})
  BY <1>2, AddLabelOk
<1>4. IsGraph(g) /\ StampsOk(g) /\ g.stamp \in Nat /\ IsGraph(h) /\ CoOk(h, {})
  BY <1>3 DEF GraphOk, IsGraph
<1>5. /\ h.stamp = g.stamp + 1
      /\ Events(h) = Events(g) \cup {e} /\ e \notin Events(g)
      /\ \A d \in Events(g) : Lab(h, d) = Lab(g, d)
      /\ Lab(h, e) = [lab EXCEPT !.stamp = g.stamp]
  BY <1>2, <1>4, AddLabelShape DEF IsLabel
<1>6. /\ Lab(h, e).op = "R" /\ Lab(h, e).loc = ins.loc /\ Lab(h, e).rev = lab.rev
      /\ Lab(h, e).stamp = g.stamp
  BY <1>2, <1>5 DEF IsLabel
<1>7. LocOk(h)
  BY <1>5, <1>6 DEF LocOk
<1>8. GraphOkBut(h, e)
  BY <1>2, <1>3, NewReadOk
<1>9. StoresOk(h, ins.loc, stores) /\ Len(stores) \in Nat \ {0} /\ IsSeq(stores)
  <2>1. cs \in CoherentStores(h, ins.loc, e)
    BY <1>2
  <2>2. StoresOk(h, ins.loc, stores) /\ Len(stores) \in Nat \ {0}
    BY <2>1, <1>4, ChosenOk
  <2> QED BY <2>2 DEF StoresOk
<1>10. w = Init0 \/ (w \in Writes(h) /\ Lab(h, w).loc = Lab(h, e).loc)
  BY <1>6, <1>9 DEF StoresOk
<1>11. /\ GraphOk(ng, {}) /\ LocOk(ng) /\ Events(ng) = Events(h)
       /\ ng.co = h.co /\ ng.stamp = h.stamp
       /\ \A d \in Threads : Len(ng.ev[d]) = Len(h.ev[d])
       /\ \A d \in Events(h) \ {e} : Lab(ng, d) = Lab(h, d)
       /\ Lab(ng, e).op = "R" /\ Lab(ng, e).rf = w /\ Lab(ng, e).rev = Lab(h, e).rev
       /\ Lab(ng, e).loc = Lab(h, e).loc /\ Lab(ng, e).stamp = Lab(h, e).stamp
  <2> HIDE DEF w
  <2>1. LET x == changeRf(h, e, w)
        IN /\ GraphOk(x, {}) /\ LocOk(x) /\ Events(x) = Events(h)
           /\ x.co = h.co /\ x.stamp = h.stamp
           /\ \A d \in Threads : Len(x.ev[d]) = Len(h.ev[d])
           /\ \A d \in Events(h) \ {e} : Lab(x, d) = Lab(h, d)
           /\ Lab(x, e).op = "R" /\ Lab(x, e).rf = w /\ Lab(x, e).rev = Lab(h, e).rev
           /\ Lab(x, e).loc = Lab(h, e).loc /\ Lab(x, e).stamp = Lab(h, e).stamp
    BY <1>7, <1>8, <1>10, ChangeRfOk
  <2>2. ng = changeRf(h, e, w)
    BY DEF w
  <2> QED BY <2>1, <2>2
<1>12. Extended(g, ng, e)
  BY <1>5, <1>6, <1>11 DEF Extended, Grown
<1>13. QueueOk(ng, q)
  BY <1>12, ExtendedQueue
<1>14. IsSeq(others) /\ Len(others) = Len(stores) - 1 /\ \A i \in 1 .. Len(others) : others[i] = stores[i]
  <2>1. Len(stores) - 1 \in 0 .. Len(stores)
    BY <1>9
  <2>2. IsSeq(others) /\ Len(others) = Len(stores) - 1
        /\ \A i \in 1 .. Len(stores) - 1 : others[i] = stores[i]
    BY <1>9, <2>1, PrefixSeq
  <2> QED BY <2>2
<1>15. IsSeq(items) /\ Len(items) = Len(others)
       /\ \A i \in 1 .. Len(items) : /\ items[i].kind = "forward" /\ items[i].pos = e
                                     /\ items[i].rev = stores[i]
  <2>1. Len(others) \in Nat
    BY <1>14 DEF IsSeq
  <2>2. \A x, b : /\ Forward(e, x, b).kind = "forward" /\ Forward(e, x, b).pos = e
                  /\ Forward(e, x, b).rev = x
    BY DEF Forward
  <2> QED BY <1>14, <2>1, <2>2 DEF IsSeq, ReadItems
<1> HIDE DEF items
<1>16. ASSUME NEW i \in 1 .. Len(items) PROVE ItemOk(ng, g.stamp, items[i])
  <2> DEFINE o == stores[i]
  <2>1. i \in 1 .. Len(stores) /\ i # Len(stores)
    BY <1>9, <1>14, <1>15
  <2>2. o # w
    BY <2>1, <1>9 DEF StoresOk
  <2>3. o = Init0 \/ (o \in Writes(h) /\ Lab(h, o).loc = ins.loc)
    BY <2>1, <1>9 DEF StoresOk
  <2> HIDE DEF o, w
  <2>4. o \in Writes(h) => /\ o \in Writes(ng) /\ Lab(ng, o).stamp < g.stamp
                           /\ Lab(ng, o).loc = Lab(h, o).loc
    <3> SUFFICES ASSUME o \in Writes(h)
                 PROVE  /\ o \in Writes(ng) /\ Lab(ng, o).stamp < g.stamp
                        /\ Lab(ng, o).loc = Lab(h, o).loc
      OBVIOUS
    <3>1. o \in Events(h) /\ Lab(h, o).op = "W" /\ o # e
      BY <1>6 DEF Writes
    <3>2. o \in Events(g) /\ Lab(ng, o) = Lab(h, o) /\ Lab(h, o) = Lab(g, o)
      BY <3>1, <1>5, <1>11
    <3>3. Lab(g, o).stamp < g.stamp
      BY <3>2, <1>4 DEF StampsOk
    <3> QED BY <3>1, <3>2, <3>3, <1>11 DEF Writes
  <2>5. /\ e \in Revisitable(ng) /\ e \in Events(ng)
        /\ Lab(ng, e).stamp = g.stamp /\ Lab(ng, e).loc = ins.loc /\ Lab(ng, e).rf = w
    BY <1>2, <1>5, <1>6, <1>11 DEF Revisitable, Reads
  <2>6. CutPoint(ng, Events(ng), e)
    BY <1>12, NewestCut
  <2>7. items[i].kind = "forward" /\ items[i].pos = e /\ items[i].rev = o
    BY <1>15 DEF o
  <2> QED BY <2>2, <2>3, <2>4, <2>5, <2>6, <2>7 DEF ItemOk
<1>17. g.stamp \in DOMAIN q => Len(q[g.stamp]) = 0
  <2>1. \A s \in DOMAIN q : Len(q[s]) # 0 => s < g.stamp
    BY QueueStamps
  <2> QED BY <2>1, <1>4
<1>18. \A i, j \in 1 .. Len(items) : i # j => items[i].rev # items[j].rev
  BY <1>9, <1>14, <1>15 DEF StoresOk
<1>19. QueueOk(ng, addToWorklist(q, g.stamp, items))
  BY <1>4, <1>13, <1>15, <1>16, <1>17, <1>18, AddItems
<1> QED BY <1>6, <1>12, <1>13, <1>19 DEF items

\* visitFence().
LEMMA FenceOk ==
  ASSUME NEW g, GraphOk(g, {}), LocOk(g), NEW t \in Threads, NEW ord,
         NEW e, e = NextEvent(g, t),
         NEW lab, lab = calcFenceViews(g, e, FenceLabel(ord)),
         NEW h, h = addLabel(g, t, lab)
  PROVE  Extended(g, h, e)
<1>1. calcBasicPorfView(g, e) \in [Threads -> Nat]
  BY NextPorf
<1>2. IsLabel(lab) /\ lab.op = "F" /\ lab.porf = calcBasicPorfView(g, e)
  BY <1>1, FenceLabelOk
<1>3. GraphOk(h, {})
  BY <1>2, AddLabelOk
<1>4. /\ h.stamp = g.stamp + 1
      /\ Events(h) = Events(g) \cup {e} /\ e \notin Events(g)
      /\ \A d \in Events(g) : Lab(h, d) = Lab(g, d)
      /\ Lab(h, e) = [lab EXCEPT !.stamp = g.stamp]
  BY <1>2, AddLabelShape DEF IsLabel, GraphOk
<1>5. Lab(h, e).op = "F" /\ Lab(h, e).stamp = g.stamp
  BY <1>2, <1>4 DEF IsLabel
<1>6. LocOk(h)
  BY <1>4, <1>5 DEF LocOk
<1> QED BY <1>3, <1>4, <1>5, <1>6 DEF Extended, Grown
-----------------------------------------------------------------------------
(* The next item *)

\* getNextItem() takes an item of the event with the largest stamp; what is
\* left in the queue is about that event or about older ones.
LEMMA NextItemOk ==
  ASSUME NEW g, GraphOk(g, {}), NEW q, QueueOk(g, q), NonEmpty(q) # {},
         NEW n, n = NextStamp(q), NEW it, it = NextItem(q),
         NEW p, p = WithoutNext(q)
  PROVE  /\ n \in Nat /\ ItemOk(g, n, it) /\ QueueOk(g, p)
         /\ \A s \in DOMAIN p : Len(p[s]) # 0 => s <= n
         /\ n \in DOMAIN p /\ it.kind = "forward" =>
              \A i \in 1 .. Len(p[n]) : p[n][i].kind = "forward" => p[n][i].rev # it.rev
<1>0. /\ DOMAIN q \subseteq Nat
      /\ \A s \in DOMAIN q : IsSeq(q[s]) /\ Len(q[s]) \in Nat
  BY DEF QueueOk, IsSeq
<1>1. \A s \in DOMAIN q : s \in NonEmpty(q) <=> Len(q[s]) # 0
  <2> SUFFICES ASSUME NEW s \in DOMAIN q PROVE q[s] # <<>> <=> Len(q[s]) # 0
    BY DEF NonEmpty
  <2>1. IsSeq(q[s])
    BY <1>0
  <2> QED BY <2>1 DEF IsSeq
<1>2. n \in NonEmpty(q) /\ \A s \in NonEmpty(q) : s <= n
  <2>1. NonEmpty(q) \in SUBSET Nat
    BY <1>0 DEF NonEmpty
  <2>2. g.stamp \in Nat
    BY DEF GraphOk, IsGraph
  <2>3. ASSUME NEW s \in NonEmpty(q) PROVE s <= g.stamp
    <3>1. s \in DOMAIN q /\ Len(q[s]) # 0
      BY <1>1 DEF NonEmpty
    <3>2. s \in Nat /\ s < g.stamp
      BY <3>1, QueueStamps
    <3> QED BY <3>2, <2>2
  <2> QED BY <2>1, <2>2, <2>3, MaxOfBounded DEF NextStamp
<1>3. n \in DOMAIN q /\ Len(q[n]) # 0 /\ n \in Nat
  BY <1>0, <1>1, <1>2 DEF NonEmpty
<1> DEFINE m == Len(q[n])
<1>4. m \in Nat \ {0} /\ it = q[n][m]
  BY <1>0, <1>3 DEF NextItem
<1>5. /\ DOMAIN p = DOMAIN q /\ p[n] = SubSeq(q[n], 1, m - 1)
      /\ \A s \in DOMAIN q \ {n} : p[s] = q[s]
  BY <1>3 DEF WithoutNext
<1>6. IsSeq(p[n]) /\ Len(p[n]) = m - 1 /\ \A i \in 1 .. m - 1 : p[n][i] = q[n][i]
  <2>1. m - 1 \in 0 .. Len(q[n]) /\ IsSeq(q[n])
    BY <1>0, <1>3, <1>4
  <2> HIDE DEF m
  <2> QED BY <2>1, <1>5, PrefixSeq
<1>7. ItemOk(g, n, it)
  BY <1>3, <1>4 DEF QueueOk
<1> HIDE DEF m
<1>8. \A s \in DOMAIN p : \A i \in 1 .. Len(p[s]) : i \in 1 .. Len(q[s]) /\ p[s][i] = q[s][i]
  <2> SUFFICES ASSUME NEW s \in DOMAIN p, NEW i \in 1 .. Len(p[s])
               PROVE  i \in 1 .. Len(q[s]) /\ p[s][i] = q[s][i]
    OBVIOUS
  <2>1. CASE s = n
    BY <2>1, <1>4, <1>6 DEF m
  <2>2. CASE s # n
    BY <2>2, <1>5
  <2> QED BY <2>1, <2>2
<1>9. QueueOk(g, p)
  <2>1. \A s \in DOMAIN p : IsSeq(p[s])
    BY <1>0, <1>5, <1>6
  <2>2. ASSUME NEW s \in DOMAIN p
        PROVE  /\ \A i \in 1 .. Len(p[s]) : ItemOk(g, s, p[s][i])
               /\ \A i, j \in 1 .. Len(p[s]) :
                    i # j /\ p[s][i].kind = "forward" /\ p[s][j].kind = "forward" =>
                      p[s][i].rev # p[s][j].rev
    BY <1>5, <1>8 DEF QueueOk
  <2> QED BY <2>1, <2>2, <1>0, <1>5 DEF QueueOk
<1>10. \A s \in DOMAIN p : Len(p[s]) # 0 => s <= n
  BY <1>1, <1>2, <1>3, <1>5
<1>11. ASSUME it.kind = "forward", NEW i \in 1 .. Len(p[n]), p[n][i].kind = "forward"
       PROVE  p[n][i].rev # it.rev
  <2>1. i \in 1 .. Len(q[n]) /\ m \in 1 .. Len(q[n]) /\ i # m /\ p[n][i] = q[n][i]
    BY <1>4, <1>6 DEF m
  <2> QED BY <2>1, <1>3, <1>4, <1>11 DEF QueueOk
<1> QED BY <1>3, <1>7, <1>9, <1>10, <1>11

\* After the event of an item has been revisited, what is left in the queue
\* is as good as before.
LEMMA RemainingOk ==
  ASSUME NEW g, GraphOk(g, {}), NEW q, QueueOk(g, q), NonEmpty(q) # {},
         NEW n, n = NextStamp(q), NEW it, it = NextItem(q),
         NEW h, GraphOk(h, {}), SameUpTo(g, h, n),
         \A e \in Events(g) : Lab(g, e).op = "R" /\ Lab(g, e).stamp < n => Lab(h, e).rf = Lab(g, e).rf,
         it.kind = "forward" => Lab(h, it.pos).rf = it.rev
  PROVE  QueueOk(h, restrictWorklist(WithoutNext(q), n))
<1> DEFINE p == WithoutNext(q)
           r == restrictWorklist(p, n)
<1>1. /\ n \in Nat /\ ItemOk(g, n, it) /\ QueueOk(g, p)
      /\ \A s \in DOMAIN p : Len(p[s]) # 0 => s <= n
      /\ n \in DOMAIN p /\ it.kind = "forward" =>
           \A i \in 1 .. Len(p[n]) : p[n][i].kind = "forward" => p[n][i].rev # it.rev
  <2> DEFINE P(x) ==
              /\ n \in Nat /\ ItemOk(g, n, it) /\ QueueOk(g, x)
              /\ \A s \in DOMAIN x : Len(x[s]) # 0 => s <= n
              /\ n \in DOMAIN x /\ it.kind = "forward" =>
                   \A i \in 1 .. Len(x[n]) : x[n][i].kind = "forward" => x[n][i].rev # it.rev
  <2>1. \A x : x = WithoutNext(q) => P(x)
    BY NextItemOk
  <2> QED BY <2>1
<1> HIDE DEF p
<1>2. DOMAIN r \subseteq DOMAIN p /\ \A s \in DOMAIN r : r[s] = p[s]
  BY DEF restrictWorklist
<1> HIDE DEF r
<1>3. QueueOk(g, r)
  BY <1>1, <1>2 DEF QueueOk
<1>4. \A s \in DOMAIN r : Len(r[s]) # 0 => s <= n
  BY <1>1, <1>2
<1>5. ASSUME NEW s \in DOMAIN r, NEW i \in 1 .. Len(r[s]), r[s][i].kind = "forward"
      PROVE  r[s][i].rev # Lab(h, r[s][i].pos).rf
  <2> DEFINE o == r[s][i]
  <2>1. ItemOk(g, s, o) /\ s \in Nat /\ Len(r[s]) \in Nat
    BY <1>3 DEF QueueOk, IsSeq
  <2>2. s <= n
    BY <1>4, <2>1
  <2>3. /\ o.pos \in Events(g) /\ Lab(g, o.pos).stamp = s /\ Lab(g, o.pos).op = "R"
        /\ o.rev # Lab(g, o.pos).rf
    BY <2>1, <1>5 DEF ItemOk, Revisitable, Reads
  <2>4. CASE s < n
    BY <2>3, <2>4
  <2>5. CASE s = n
    <3>1. it.pos \in Events(g) /\ Lab(g, it.pos).stamp = n /\ StampsOk(g)
      BY <1>1 DEF ItemOk, GraphOk
    <3>2. it.pos = o.pos
      BY <2>3, <2>5, <3>1 DEF StampsOk
    <3>3. it.kind = "forward"
      BY <1>1, <2>3, <3>2 DEF ItemOk, Writes
    <3>4. o.rev # it.rev
      BY <1>1, <1>2, <1>5, <2>5, <3>3
    <3> QED BY <3>2, <3>3, <3>4
  <2> QED BY <2>1, <2>2, <2>4, <2>5, <1>1
<1>6. QueueOk(h, r)
  BY <1>1, <1>3, <1>4, <1>5, QueueKept
<1> QED BY <1>6 DEF r, p
-----------------------------------------------------------------------------
(* restrictAndRevisit() *)

\* Forgetting that locations are ordered changes nothing else.
LEMMA CutFacts ==
  ASSUME NEW g, GraphOk(g, {}), LocOk(g), NEW n \in Nat, NEW k, k = Cut(g, n)
  PROVE  /\ IsGraph(k) /\ StampsOk(k) /\ CoOk(k, {}) /\ LabelsOk(k) /\ LocOk(k)
         /\ Events(k) = {e \in Events(g) : Lab(g, e).stamp <= n}
         /\ \A e \in Events(k) : Lab(k, e) = Lab(g, e)
         /\ GraphOk(cutToStamp(g, n), {}) => GraphOk(k, {})
         /\ \A r : GraphOkBut(cutToStamp(g, n), r) => GraphOkBut(k, r)
<1> DEFINE c == cutToStamp(g, n)
<1>1. /\ IsGraph(c) /\ StampsOk(c) /\ CoOk(c, {}) /\ LabelsOk(c)
      /\ Events(c) = {e \in Events(g) : Lab(g, e).stamp <= n}
      /\ \A e \in Events(c) : Lab(c, e) = Lab(g, e)
  BY CutShape
<1> HIDE DEF c
<1>2. \E x : k = [c EXCEPT !.ordered = x]
  BY DEF Cut, WB!removeAfter, c
<1>3. /\ IsGraph(k) /\ k.ev = c.ev /\ k.co = c.co /\ k.stamp = c.stamp
      /\ Events(k) = Events(c) /\ \A e : Lab(k, e) = Lab(c, e)
      /\ \A P : GraphOk(c, P) => GraphOk(k, P)
      /\ \A r : GraphOkBut(c, r) => GraphOkBut(k, r)
  <2> DEFINE P(h) == /\ IsGraph(h) /\ h.ev = c.ev /\ h.co = c.co /\ h.stamp = c.stamp
                     /\ Events(h) = Events(c) /\ \A e : Lab(h, e) = Lab(c, e)
                     /\ \A Q : GraphOk(c, Q) => GraphOk(h, Q)
                     /\ \A r : GraphOkBut(c, r) => GraphOkBut(h, r)
  <2>1. \A x : P([c EXCEPT !.ordered = x])
    BY <1>1, OrderedOk, Zenon
  <2> HIDE DEF P
  <2>2. P(k)
    BY <1>2, <2>1
  <2> QED BY <2>2 DEF P
<1>4. StampsOk(k) /\ LabelsOk(k)
  BY <1>1, <1>3 DEF StampsOk, LabelsOk
<1>5. Writes(k) = Writes(c)
  BY <1>3 DEF Writes
<1>6. CoOk(k, {})
  BY <1>1, <1>3, <1>5 DEF CoOk
<1>7. LocOk(k)
  BY <1>1, <1>3 DEF LocOk
<1> QED BY <1>1, <1>3, <1>4, <1>6, <1>7 DEF c

\* A read is made to read what a work item says, in the graph cut to its
\* stamp; the rest of the queue remains valid.
LEMMA ForwardOk ==
  ASSUME NEW g, NEW q, StateOk(g, q), NonEmpty(q) # {},
         NEW n, n = NextStamp(q), NEW it, it = NextItem(q), it.kind = "forward",
         NEW r, r = it.pos, NEW w, w = it.rev, NEW b,
         NEW cut, cut = Cut(g, n), NEW og, og = changeRf(cut, r, w),
         NEW h, h = setAddedMax(og, r, b)
  PROVE  /\ StateOk(h, restrictWorklist(WithoutNext(q), n))
         /\ r \in Reads(h) /\ r[2] = Len(h.ev[r[1]])
<1>0. GraphOk(g, {}) /\ LocOk(g) /\ QueueOk(g, q)
  BY DEF StateOk
<1>1. n \in Nat /\ ItemOk(g, n, it)
  BY <1>0, NextItemOk
<1>2. /\ r \in Revisitable(g) /\ r \in Events(g) /\ Lab(g, r).stamp = n /\ w # Lab(g, r).rf
      /\ w = Init0 \/ (w \in Writes(g) /\ Lab(g, w).stamp < n /\ Lab(g, w).loc = Lab(g, r).loc)
      /\ Lab(g, r).op = "R"
  BY <1>1 DEF ItemOk, Revisitable, Reads
<1>3. GraphOkBut(cutToStamp(g, n), r)
  BY <1>0, <1>2, CutOk
<1>4. /\ GraphOkBut(cut, r) /\ LocOk(cut)
      /\ Events(cut) = {e \in Events(g) : Lab(g, e).stamp <= n}
      /\ \A e \in Events(cut) : Lab(cut, e) = Lab(g, e)
  BY <1>0, <1>1, <1>3, CutFacts
<1>5. \A e \in Events(g) : Lab(g, e).stamp \in Nat
  BY <1>0 DEF GraphOk, LabelsOk, IsLabel
<1>6. r \in Events(cut) /\ Lab(cut, r) = Lab(g, r)
  BY <1>1, <1>2, <1>4
<1>7. w = Init0 \/ (w \in Writes(cut) /\ Lab(cut, w).loc = Lab(cut, r).loc)
  <2>1. w \in Writes(g) /\ Lab(g, w).stamp < n => w \in Events(cut)
    BY <1>1, <1>4, <1>5 DEF Writes
  <2> QED BY <2>1, <1>2, <1>4, <1>6 DEF Writes
<1>8. /\ GraphOk(og, {}) /\ LocOk(og) /\ Events(og) = Events(cut)
      /\ \A t \in Threads : Len(og.ev[t]) = Len(cut.ev[t])
      /\ \A e \in Events(cut) \ {r} : Lab(og, e) = Lab(cut, e)
      /\ Lab(og, r).op = "R" /\ Lab(og, r).rf = w /\ Lab(og, r).rev = Lab(cut, r).rev
      /\ Lab(og, r).loc = Lab(cut, r).loc /\ Lab(og, r).stamp = Lab(cut, r).stamp
  BY <1>4, <1>7, ChangeRfOk
<1>9. /\ GraphOk(h, {}) /\ Events(h) = Events(og)
      /\ \A t \in Threads : Len(h.ev[t]) = Len(og.ev[t])
      /\ \A e \in Events(og) : SameLabel(Lab(h, e), Lab(og, e))
  BY <1>6, <1>8, SetMaxOk
<1>10. ASSUME NEW e \in Events(cut), e # r
       PROVE  SameLabel(Lab(h, e), Lab(g, e))
  BY <1>4, <1>8, <1>9, <1>10
<1>11. /\ Lab(h, r).op = "R" /\ Lab(h, r).rf = w /\ Lab(h, r).rev = Lab(g, r).rev
       /\ Lab(h, r).loc = Lab(g, r).loc /\ Lab(h, r).stamp = n
  BY <1>2, <1>6, <1>8, <1>9 DEF SameLabel
<1>12. LocOk(h)
  BY <1>8, <1>9 DEF LocOk, SameLabel
<1>13. ASSUME NEW e \in Events(g), Lab(g, e).stamp <= n
       PROVE  /\ e \in Events(h) /\ Lab(h, e).op = Lab(g, e).op /\ Lab(h, e).stamp = Lab(g, e).stamp
              /\ Lab(g, e).op = "R" => Lab(h, e).rev = Lab(g, e).rev
              /\ Lab(g, e).op \in {"R", "W"} => Lab(h, e).loc = Lab(g, e).loc
              /\ Lab(g, e).op # "R" \/ Lab(g, e).stamp < n => Lab(h, e).porf = Lab(g, e).porf
              /\ Lab(g, e).op = "R" /\ Lab(g, e).stamp < n => Lab(h, e).rf = Lab(g, e).rf
  <2>1. e \in Events(cut) /\ e \in Events(h)
    BY <1>4, <1>8, <1>9, <1>13
  <2>2. CASE e = r
    BY <2>1, <2>2, <1>1, <1>2, <1>11
  <2>3. CASE e # r
    BY <2>1, <2>3, <1>10 DEF SameLabel
  <2> QED BY <2>2, <2>3
<1>14. \A e : (e \in Events(g) /\ Lab(g, e).stamp <= n) <=> (e \in Events(h) /\ Lab(h, e).stamp <= n)
  BY <1>4, <1>8, <1>9, <1>13
<1>15. SameUpTo(g, h, n)
  BY <1>13, <1>14 DEF SameUpTo
<1>16. QueueOk(h, restrictWorklist(WithoutNext(q), n))
  <2>1. \A e \in Events(g) : Lab(g, e).op = "R" /\ Lab(g, e).stamp < n => Lab(h, e).rf = Lab(g, e).rf
    BY <1>1, <1>5, <1>13
  <2> QED BY <2>1, <1>0, <1>9, <1>11, <1>15, RemainingOk
<1>17. r \in Reads(h)
  BY <1>6, <1>8, <1>9, <1>11 DEF Reads
<1>18. r[2] = Len(h.ev[r[1]])
  <2>1. r[1] \in Threads
    BY <1>2, InEvents
  <2> QED BY <2>1, <1>4, <1>8, <1>9 DEF GraphOkBut
<1> QED BY <1>9, <1>12, <1>16, <1>17, <1>18 DEF StateOk
\* A store is moved to where a work item says, in the graph cut to its stamp.
LEMMA MoveOk ==
  ASSUME NEW g, NEW q, StateOk(g, q), NonEmpty(q) # {},
         NEW n, n = NextStamp(q), NEW it, it = NextItem(q), it.kind = "mo",
         NEW w, w = it.pos, NEW off, off = it.off, NEW b,
         NEW cut, cut = Cut(g, n), NEW loc, loc = Lab(cut, w).loc,
         NEW og, og = changeStoreOffset(cut, loc, w, off),
         NEW h, h = setAddedMax(og, w, b)
  PROVE  /\ StateOk(h, restrictWorklist(WithoutNext(q), n))
         /\ w \in Writes(h)
<1>0. GraphOk(g, {}) /\ LocOk(g) /\ QueueOk(g, q)
  BY DEF StateOk
<1>1. n \in Nat /\ ItemOk(g, n, it)
  BY <1>0, NextItemOk
<1>2. /\ w \in Writes(g) /\ w \in Events(g) /\ Lab(g, w).stamp = n /\ Lab(g, w).op = "W"
      /\ CutPoint(g, Events(g), w) /\ Closed(g, w)
      /\ off \in Nat /\ off < Cardinality(StoresUpTo(g, Lab(g, w).loc, n))
  BY <1>1 DEF ItemOk, Writes
<1>3. GraphOk(cutToStamp(g, n), {})
  BY <1>0, <1>2, CutClosedOk
<1>4. /\ GraphOk(cut, {}) /\ LocOk(cut) /\ IsGraph(cut) /\ CoOk(cut, {})
      /\ Events(cut) = {e \in Events(g) : Lab(g, e).stamp <= n}
      /\ \A e \in Events(cut) : Lab(cut, e) = Lab(g, e)
  BY <1>0, <1>1, <1>3, CutFacts
<1>5. w \in Events(cut) /\ Lab(cut, w) = Lab(g, w) /\ w \in Writes(cut)
  BY <1>1, <1>2, <1>4 DEF Writes
<1>6. loc \in Locs /\ loc = Lab(g, w).loc
  BY <1>2, <1>4, <1>5 DEF LocOk
<1>7. off < Len(cut.co[loc])
  <2> DEFINE S == {x \in Writes(cut) \ {} : Lab(cut, x).loc = loc}
  <2>1. S = StoresUpTo(g, loc, n)
    <3>1. \A x : x \in S <=> x \in Events(cut) /\ Lab(cut, x).op = "W" /\ Lab(cut, x).loc = loc
      BY DEF Writes
    <3>2. \A x : x \in StoresUpTo(g, loc, n) <=>
                   x \in Events(g) /\ Lab(g, x).op = "W" /\ Lab(g, x).loc = loc /\ Lab(g, x).stamp <= n
      BY DEF StoresUpTo, Writes
    <3> HIDE DEF S
    <3>3. \A x : x \in S <=> x \in StoresUpTo(g, loc, n)
      BY <3>1, <3>2, <1>4
    <3>4. S \subseteq Events(cut) /\ StoresUpTo(g, loc, n) \subseteq Events(g)
      BY <3>1, <3>2
    <3> QED BY <3>3, <3>4
  <2>2. Cardinality(S) = Len(cut.co[loc])
    BY <1>4, <1>6, StoresCounted
  <2> QED BY <2>1, <2>2, <1>2, <1>6
<1>8. GraphOk(og, {}) /\ og.ev = cut.ev
  BY <1>2, <1>4, <1>5, <1>6, <1>7, MoveStoreOk
<1>9. Events(og) = Events(cut) /\ \A e : Lab(og, e) = Lab(cut, e)
  <2>1. \A x, y : x.ev = y.ev => Events(x) = Events(y) /\ \A e : Lab(x, e) = Lab(y, e)
    BY DEF Events, Lab
  <2> QED BY <2>1, <1>8
<1>10. /\ GraphOk(h, {}) /\ Events(h) = Events(og)
       /\ \A e \in Events(og) : SameLabel(Lab(h, e), Lab(og, e))
  BY <1>5, <1>8, <1>9, SetMaxOk
<1>11. \A e \in Events(cut) : SameLabel(Lab(h, e), Lab(g, e))
  BY <1>4, <1>9, <1>10
<1>12. LocOk(h)
  BY <1>4, <1>9, <1>10 DEF LocOk, SameLabel
<1>13. ASSUME NEW e \in Events(g), Lab(g, e).stamp <= n
       PROVE  /\ e \in Events(h) /\ Lab(h, e).op = Lab(g, e).op /\ Lab(h, e).stamp = Lab(g, e).stamp
              /\ Lab(g, e).op = "R" => Lab(h, e).rev = Lab(g, e).rev /\ Lab(h, e).rf = Lab(g, e).rf
              /\ Lab(g, e).op \in {"R", "W"} => Lab(h, e).loc = Lab(g, e).loc
              /\ Lab(h, e).porf = Lab(g, e).porf
  <2>1. e \in Events(cut) /\ e \in Events(h)
    BY <1>4, <1>9, <1>10, <1>13
  <2> QED BY <2>1, <1>11 DEF SameLabel
<1>14. \A e : (e \in Events(g) /\ Lab(g, e).stamp <= n) <=> (e \in Events(h) /\ Lab(h, e).stamp <= n)
  BY <1>4, <1>9, <1>10, <1>13
<1>15. SameUpTo(g, h, n)
  BY <1>13, <1>14 DEF SameUpTo
<1>16. QueueOk(h, restrictWorklist(WithoutNext(q), n))
  <2>1. \A e \in Events(g) : Lab(g, e).op = "R" /\ Lab(g, e).stamp < n => Lab(h, e).rf = Lab(g, e).rf
    <3>1. \A e \in Events(g) : Lab(g, e).stamp \in Nat
      BY <1>0 DEF GraphOk, LabelsOk, IsLabel
    <3> QED BY <3>1, <1>1, <1>13
  <2>2. it.kind # "forward"
    OBVIOUS
  <2> QED BY <2>1, <2>2, <1>0, <1>10, <1>15, RemainingOk
<1>17. w \in Writes(h)
  BY <1>2, <1>5, <1>9, <1>10, <1>11 DEF Writes, SameLabel
<1> QED BY <1>10, <1>12, <1>16, <1>17 DEF StateOk

-----------------------------------------------------------------------------
(* A backward revisit *)

\* A load is made to read the store, in a copy of the graph.
LEMMA BackwardOk ==
  ASSUME NEW g, GraphOk(g, {}), LocOk(g), NEW r \in Revisitable(g), NEW w \in Writes(g),
         Lab(g, r).loc = Lab(g, w).loc, ~Contains(Lab(g, w).porf, r), NEW b,
         NEW copy, copy = Copy(g, r, w), NEW og, og = changeRf(copy, r, w),
         NEW h, h = setAddedMax(og, r, b)
  PROVE  StateOk(h, NoWork) /\ r \in Reads(h) /\ r[2] = Len(h.ev[r[1]])
<1> DEFINE k == copyGraph(g, r, w)
<1>1. /\ GraphOkBut(k, r)
      /\ w \in Writes(k) /\ Events(k) \subseteq Events(g)
      /\ \A e \in Events(k) : SameButStamp(Lab(k, e), Lab(g, e))
  BY CopyOk
<1> HIDE DEF k
<1>2. /\ GraphOkBut(copy, r) /\ Events(copy) = Events(k) /\ \A e : Lab(copy, e) = Lab(k, e)
  <2>1. CASE isWB
    <3> DEFINE P(x) == GraphOkBut(x, r) /\ Events(x) = Events(k) /\ \A e : Lab(x, e) = Lab(k, e)
    <3>1. IsGraph(k)
      BY <1>1 DEF GraphOkBut
    <3>2. \A x : P([k EXCEPT !.ordered = x])
      BY <1>1, <3>1, OrderedOk
    <3> HIDE DEF P
    <3>3. copy = WB!Retracked(k)
      BY <2>1 DEF Copy, k
    <3>4. \E x : copy = [k EXCEPT !.ordered = x]
      BY <3>3 DEF WB!Retracked
    <3>5. P(copy)
      BY <3>2, <3>4
    <3> QED BY <3>5 DEF P
  <2>2. CASE ~isWB
    <3>1. copy = k
      BY <2>2 DEF Copy, k
    <3> QED BY <3>1, <1>1
  <2> QED BY <2>1, <2>2
<1>3. \A e \in Events(copy) : /\ e \in Events(g) /\ IsLabel(Lab(g, e))
                              /\ SameButStamp(Lab(copy, e), Lab(g, e))
  BY <1>1, <1>2 DEF GraphOk, LabelsOk
<1>4. \A e \in Events(copy) :
        /\ Lab(copy, e).op = Lab(g, e).op
        /\ Lab(g, e).op \in {"R", "W"} => Lab(copy, e).loc = Lab(g, e).loc
  <2> SUFFICES ASSUME NEW e \in Events(copy)
               PROVE  /\ Lab(copy, e).op = Lab(g, e).op
                      /\ Lab(g, e).op \in {"R", "W"} => Lab(copy, e).loc = Lab(g, e).loc
    OBVIOUS
  <2>1. IsLabel(Lab(g, e)) /\ SameButStamp(Lab(copy, e), Lab(g, e))
    BY <1>3
  <2>2. "op" \in DOMAIN Lab(g, e) /\ (Lab(g, e).op \in {"R", "W"} => "loc" \in DOMAIN Lab(g, e))
    BY <2>1 DEF IsLabel
  <2> QED BY <2>1, <2>2 DEF SameButStamp
<1>5. LocOk(copy)
  BY <1>3, <1>4 DEF LocOk
<1>6. r \in Events(copy) /\ Lab(copy, r).op = "R" /\ Lab(copy, r).loc = Lab(g, r).loc
  BY <1>2, <1>4 DEF GraphOkBut, Reads
<1>7. w \in Writes(copy) /\ Lab(copy, w).loc = Lab(copy, r).loc
  <2>1. w \in Events(copy) /\ Lab(copy, w).op = "W"
    BY <1>1, <1>2 DEF Writes
  <2> QED BY <2>1, <1>4, <1>6 DEF Writes
<1>8. /\ GraphOk(og, {}) /\ LocOk(og) /\ Events(og) = Events(copy)
      /\ \A t \in Threads : Len(og.ev[t]) = Len(copy.ev[t])
      /\ Lab(og, r).op = "R"
  BY <1>2, <1>5, <1>7, ChangeRfOk
<1>9. /\ GraphOk(h, {}) /\ Events(h) = Events(og)
      /\ \A t \in Threads : Len(h.ev[t]) = Len(og.ev[t])
      /\ \A e \in Events(og) : SameLabel(Lab(h, e), Lab(og, e))
  BY <1>6, <1>8, SetMaxOk
<1>10. LocOk(h)
  BY <1>8, <1>9 DEF LocOk, SameLabel
<1>11. r \in Reads(h)
  BY <1>6, <1>8, <1>9 DEF Reads, SameLabel
<1>12. r[2] = Len(h.ev[r[1]])
  <2>1. r[1] \in Threads
    BY <1>6, InEvents
  <2> QED BY <2>1, <1>2, <1>8, <1>9 DEF GraphOkBut
<1>13. QueueOk(h, NoWork)
  BY DEF QueueOk, NoWork
<1> QED BY <1>9, <1>10, <1>11, <1>12, <1>13 DEF StateOk
-----------------------------------------------------------------------------
(* The calls of calcRevisits() *)

\* A sequence is empty when it has no elements.
LEMMA EmptySeq ==
  ASSUME NEW s, IsSeq(s)
  PROVE  s = <<>> <=> Len(s) = 0
BY DEF IsSeq

\* A call is entered.
LEMMA PushOk ==
  ASSUME NEW s, Waiting(s), NEW g, NEW f, IsFrame(f), FrameOk(g, f),
         f.caller = "nested" => s # <<>>
  PROVE  Running(g, Append(s, f))
<1>1. IsSeq(s) /\ Len(s) \in Nat /\ (s = <<>> <=> Len(s) = 0)
  <2>1. IsSeq(<<>>)
    BY DEF IsSeq
  <2>2. IsSeq(s)
    BY <2>1 DEF Waiting, Framed
  <2> QED BY <2>2, EmptySeq DEF IsSeq
<1>2. \A i \in 1 .. Len(s) : IsFrame(s[i]) /\ (s[i].caller = "nested" => i # 1) /\ SavedOk(s[i])
  <2> SUFFICES ASSUME NEW i \in 1 .. Len(s)
               PROVE  IsFrame(s[i]) /\ (s[i].caller = "nested" => i # 1) /\ SavedOk(s[i])
    OBVIOUS
  <2>1. s # <<>>
    BY <1>1
  <2>2. Framed(s) /\ SavedOk(s[Len(s)])
    BY <2>1 DEF Waiting
  <2> QED BY <2>2, <1>1 DEF Framed
<1> DEFINE b == Append(s, f)
<1>3. /\ IsSeq(b) /\ Len(b) = Len(s) + 1 /\ b[Len(s) + 1] = f
      /\ \A i \in 1 .. Len(s) : b[i] = s[i]
  BY <1>1, AppendSeq
<1> HIDE DEF b
<1>4. ASSUME NEW i \in 1 .. Len(b)
      PROVE  /\ IsFrame(b[i])
             /\ b[i].caller = "nested" => i # 1
             /\ i < Len(b) => SavedOk(b[i])
  <2>1. CASE i \in 1 .. Len(s)
    BY <2>1, <1>2, <1>3
  <2>2. CASE i = Len(s) + 1
    BY <2>2, <1>1, <1>3
  <2> QED BY <2>1, <2>2, <1>1, <1>3
<1>5. Len(b) # 0
  BY <1>1, <1>3
<1>6. Framed(b)
  BY <1>3, <1>4, <1>5 DEF Framed
<1> QED BY <1>3, <1>6 DEF Running, b

\* A call returns.
LEMMA PopOk ==
  ASSUME NEW s, Framed(s)
  PROVE  LET b == SubSeq(s, 1, Len(s) - 1)
         IN Waiting(b) /\ (s[Len(s)].caller = "nested" => b # <<>>)
<1> DEFINE b == SubSeq(s, 1, Len(s) - 1)
<1>1. IsSeq(s) /\ Len(s) \in Nat \ {0}
  BY DEF Framed, IsSeq
<1>2. IsSeq(b) /\ Len(b) = Len(s) - 1 /\ \A i \in 1 .. Len(s) - 1 : b[i] = s[i]
  <2>1. Len(s) - 1 \in 0 .. Len(s)
    BY <1>1
  <2> QED BY <1>1, <2>1, PrefixSeq
<1> HIDE DEF b
<1>3. b = <<>> <=> Len(b) = 0
  BY <1>2, EmptySeq
<1>4. \A i \in 1 .. Len(b) : IsFrame(b[i]) /\ (b[i].caller = "nested" => i # 1) /\ SavedOk(b[i])
  BY <1>1, <1>2 DEF Framed
<1>5. Waiting(b)
  <2>1. CASE Len(b) = 0
    BY <2>1, <1>3 DEF Waiting
  <2>2. CASE Len(b) # 0
    <3>1. Len(b) \in 1 .. Len(b)
      BY <2>2, <1>1, <1>2
    <3>2. Framed(b)
      BY <2>2, <1>2, <1>4 DEF Framed
    <3> QED BY <3>1, <3>2, <1>4 DEF Waiting
  <2> QED BY <2>1, <2>2
<1>6. s[Len(s)].caller = "nested" => Len(b) # 0
  <2>1. s[Len(s)].caller = "nested" => Len(s) # 1
    BY <1>1 DEF Framed
  <2> QED BY <2>1, <1>1, <1>2
<1> QED BY <1>3, <1>5, <1>6 DEF b

\* The innermost call goes on, or waits.
LEMMA SetTopOk ==
  ASSUME NEW s, Framed(s), NEW f, IsFrame(f), f.caller = s[Len(s)].caller,
         NEW b, b = [s EXCEPT ![Len(s)] = f]
  PROVE  /\ Framed(b) /\ b # <<>>
         /\ \A g : FrameOk(g, f) => Running(g, b)
         /\ SavedOk(f) => Waiting(b)
<1>1. IsSeq(s) /\ Len(s) \in Nat \ {0}
  BY DEF Framed, IsSeq
<1>2. DOMAIN s = 1 .. Len(s)
  BY <1>1 DEF IsSeq
<1> DEFINE new(i) == IF i = Len(s) THEN f ELSE s[i]
           n == Len(s)
<1>3. b = [i \in 1 .. n |-> new(i)]
  BY <1>2
<1>4. IsSeq(b) /\ Len(b) = Len(s) /\ b[Len(s)] = f /\ \A i \in 1 .. Len(s) : i # Len(s) => b[i] = s[i]
  <2>1. new(n) = f /\ (\A i \in 1 .. n : i # n => new(i) = s[i]) /\ n \in Nat /\ n \in 1 .. n
    BY <1>1
  <2> HIDE DEF new, n
  <2>2. Len(b) = n /\ b = [i \in 1 .. n |-> b[i]] /\ \A i \in 1 .. n : b[i] = new(i)
    <3>1. \A c : c = [i \in 1 .. n |-> new(i)] =>
                    /\ Len(c) = n /\ c = [i \in 1 .. n |-> c[i]] /\ \A i \in 1 .. n : c[i] = new(i)
      BY <2>1
    <3> QED BY <3>1, <1>3
  <2>3. IsSeq(b) /\ Len(b) = n /\ b[n] = f /\ \A i \in 1 .. n : i # n => b[i] = s[i]
    BY <2>1, <2>2 DEF IsSeq
  <2> QED BY <2>3 DEF n
<1>5. ASSUME NEW i \in 1 .. Len(b)
      PROVE  /\ IsFrame(b[i])
             /\ b[i].caller = "nested" => i # 1
             /\ i < Len(b) => SavedOk(b[i])
  <2>1. /\ IsFrame(s[i]) /\ (s[i].caller = "nested" => i # 1) /\ (i < Len(s) => SavedOk(s[i]))
    BY <1>4 DEF Framed
  <2>2. CASE i = Len(s)
    BY <2>1, <2>2, <1>1, <1>4
  <2>3. CASE i # Len(s)
    BY <2>1, <2>3, <1>4
  <2> QED BY <2>2, <2>3
<1>6. Framed(b)
  BY <1>1, <1>4, <1>5 DEF Framed
<1>7. b # <<>>
  BY <1>1, <1>4, EmptySeq
<1> QED BY <1>4, <1>6, <1>7 DEF Running, Waiting

\* The innermost of the waiting calls.
LEMMA TopWaits ==
  ASSUME NEW s, Waiting(s), s # <<>>
  PROVE  Framed(s) /\ SavedOk(s[Len(s)]) /\ IsFrame(s[Len(s)])
<1>1. Framed(s) /\ SavedOk(s[Len(s)])
  BY DEF Waiting
<1>2. Len(s) \in 1 .. Len(s)
  BY <1>1 DEF Framed, IsSeq
<1> QED BY <1>1, <1>2 DEF Framed

-----------------------------------------------------------------------------
(* The interpreter *)

\* Only threads are scheduled, and they have something to do.
LEMMA ScheduledOk ==
  ASSUME conf \in Configs, NEW g, NEW t \in Scheduled(g)
  PROVE  t \in Threads /\ (PendingStore(g, t) \/ HasNext(g, t))
<1>1. ASSUME NEW S \in SUBSET Threads, S # {} PROVE MinOf(S) \in S
  <2>1. S \in SUBSET Nat
    BY NumThreadsAssumption DEF Threads
  <2>2. \E x \in S : \A y \in S : x <= y
    BY <2>1, <1>1, LeastNat
  <2> QED BY <2>2 DEF MinOf
<1>2. CASE InRMW(g) # {}
  BY <1>2 DEF Scheduled, InRMW
<1>3. CASE InRMW(g) = {}
  <2> DEFINE S == Schedulable(g)
             writers == {u \in S : ~NextIsLoad(g, u)}
             W == IF writers # {} THEN writers ELSE S
  <2>1. S \subseteq Threads /\ \A u \in S : HasNext(g, u)
    BY DEF Schedulable
  <2>2. writers \subseteq S
    OBVIOUS
  <2>3. S # {} /\ conf.policy \in {"ltr", "wf", "random"}
    BY <1>3, ConfigsAssumption DEF Scheduled
  <2>4. W \subseteq S /\ W # {}
    BY <2>2, <2>3
  <2>5. conf.policy = "wf" => Scheduled(g) = {MinOf(W)}
    BY <1>3, <2>3 DEF Scheduled
  <2>6. conf.policy = "ltr" => Scheduled(g) = {MinOf(S)}
    BY <1>3, <2>3 DEF Scheduled
  <2>7. conf.policy = "random" => Scheduled(g) = S
    BY <1>3, <2>3 DEF Scheduled
  <2> HIDE DEF S, W
  <2>8. MinOf(W) \in S /\ MinOf(S) \in S
    BY <1>1, <2>1, <2>3, <2>4
  <2>9. t \in S
    BY <2>3, <2>5, <2>6, <2>7, <2>8
  <2> QED BY <2>1, <2>9
<1> QED BY <1>2, <1>3

\* The instruction that a thread is at.
LEMMA NextInstruction ==
  ASSUME conf \in Configs, NEW g, IsGraph(g), NEW t \in Threads, HasNext(g, t)
  PROVE  NextInstr(g, t).op \in {"R", "W"} => NextInstr(g, t).loc \in Locs
<1> DEFINE n == Executed(g, t)
<1>1. n \in Nat
  <2> DEFINE I == {i \in 1 .. Len(g.ev[t]) : ~isRMWStore(g, <<t, i>>)}
  <2>1. Len(g.ev[t]) \in Nat
    BY DEF IsGraph, IsSeq
  <2>2. IsFiniteSet(1 .. Len(g.ev[t]))
    BY <2>1, FS_Interval
  <2>3. I \subseteq 1 .. Len(g.ev[t])
    OBVIOUS
  <2>4. IsFiniteSet(I)
    BY <2>2, <2>3, FS_Subset
  <2> QED BY <2>4, FS_CardinalityType DEF Executed
<1> HIDE DEF n
<1>2. /\ Len(prog[t]) \in Nat
      /\ \A i \in 1 .. Len(prog[t]) : prog[t][i].op \in {"R", "W"} => prog[t][i].loc \in Locs
  BY ConfigsAssumption DEF prog
<1>3. n < Len(prog[t])
  BY DEF HasNext, n
<1>4. n + 1 \in 1 .. Len(prog[t])
  BY <1>1, <1>2, <1>3
<1>5. NextInstr(g, t) = prog[t][n + 1]
  BY DEF NextInstr, n
<1> QED BY <1>2, <1>4, <1>5

\* A thread whose store is pending is at the read of an RMW.
LEMMA PendingRead ==
  ASSUME NEW g, IsGraph(g), LocOk(g), NEW t \in Threads, PendingStore(g, t)
  PROVE  LET e == <<t, Len(g.ev[t])>>
         IN e \in Reads(g) /\ Lab(g, e).loc \in Locs
<1> DEFINE e == <<t, Len(g.ev[t])>>
<1>1. g.ev[t] # <<>> /\ Lab(g, e).op = "R"
  BY DEF PendingStore
<1>2. IsSeq(g.ev[t]) /\ Len(g.ev[t]) \in Nat
  BY DEF IsGraph, IsSeq
<1>3. Len(g.ev[t]) # 0
  BY <1>1, <1>2, EmptySeq
<1>4. e \in Events(g)
  BY <1>2, <1>3, PairInEvents
<1> QED BY <1>1, <1>4 DEF Reads, LocOk
-----------------------------------------------------------------------------
(* Steps *)

\* What a step has to establish.
LEMMA StepOk ==
  ASSUME DriverInv, conf' = conf, TasksOk(tasks'), StateOk(graph', workqueue'),
         ctl' \in {"run", "next", "revisit", "enter"},
         IF ctl' = "revisit" THEN Running(graph', stack')
         ELSE Waiting(stack') /\ (ctl' = "enter" => stack' # <<>>)
  PROVE  DriverInv'
BY DEF DriverInv, StackOk

\* visitLoad().
LEMMA LoadStep ==
  ASSUME DriverInv, NEW t \in Scheduled(graph), ctl = "run", visitLoad(t)
  PROVE  DriverInv'
<1> DEFINE ins == NextInstr(graph, t)
           e == NextEvent(graph, t)
           lab == calcReadViews(graph, e, NewRead(ins))
           h == addLabel(graph, t, lab)
           Others(stores) == SubSeq(stores, 1, Len(stores) - 1)
           NewQueue(cs, others) ==
             IF others = <<>> THEN workqueue
             ELSE addToWorklist(workqueue, Lab(h, e).stamp, ReadItems(e, others, cs.maximal))
<1>0. /\ conf \in Configs /\ GraphOk(graph, {}) /\ LocOk(graph) /\ QueueOk(graph, workqueue)
      /\ IsGraph(graph) /\ Waiting(stack) /\ TasksOk(tasks)
  BY DEF DriverInv, StateOk, StackOk, GraphOk
<1>1. t \in Threads /\ ins.loc \in Locs
  <2>1. ~PendingStore(graph, t) /\ ins.op = "R"
    BY DEF visitLoad
  <2>2. t \in Threads /\ HasNext(graph, t)
    BY <1>0, <2>1, ScheduledOk
  <2> QED BY <1>0, <2>1, <2>2, NextInstruction
<1> DEFINE Options(cs) == ensureConsistentRf(h, e, getRfsApproximation(h, e, cs.stores))
<1>2a. \E cs \in CoherentStores(h, lab.loc, e) : \E stores \in Options(cs) :
         /\ graph' = changeRf(h, e, stores[Len(stores)])
         /\ workqueue' = NewQueue(cs, Others(stores))
  <2>1. \E g \in {h} : \E cs \in CoherentStores(g, lab.loc, e) :
        \E stores \in ensureConsistentRf(g, e, getRfsApproximation(g, e, cs.stores)) :
          LET oth == SubSeq(stores, 1, Len(stores) - 1)
          IN /\ graph' = changeRf(g, e, stores[Len(stores)])
             /\ workqueue' =
                  IF oth = <<>> THEN workqueue
                  ELSE addToWorklist(workqueue, Lab(g, e).stamp,
                         [i \in 1 .. Len(oth) |-> Forward(e, oth[i], oth[i] \in cs.maximal)])
    BY Zenon DEF visitLoad
  <2> QED BY <2>1, Zenon DEF ReadItems
<1>2b. PICK cs \in CoherentStores(h, lab.loc, e) : \E stores \in Options(cs) :
         /\ graph' = changeRf(h, e, stores[Len(stores)])
         /\ workqueue' = NewQueue(cs, Others(stores))
  BY <1>2a
<1>2. PICK stores \in Options(cs) :
        /\ graph' = changeRf(h, e, stores[Len(stores)])
        /\ workqueue' = NewQueue(cs, Others(stores))
  BY <1>2b
<1> DEFINE others == Others(stores)
           items == ReadItems(e, others, cs.maximal)
<1>3. others = Others(stores)
  OBVIOUS
<1>4. workqueue' = workqueue \/ workqueue' = addToWorklist(workqueue, Lab(h, e).stamp, items)
  BY <1>2
<1> HIDE DEF ins, e, lab, h, others, items
<1>5. StateOk(graph', workqueue')
  <2>1. /\ Extended(graph, graph', e)
        /\ QueueOk(graph', workqueue)
        /\ QueueOk(graph', addToWorklist(workqueue, Lab(h, e).stamp, items))
    BY <1>0, <1>1, <1>2, <1>3, LoadOk DEF ins, e, lab, h, items
  <2> QED BY <2>1, <1>4 DEF StateOk, Extended
<1>6. conf' = conf /\ tasks' = tasks /\ stack' = stack /\ ctl' = "run"
  BY DEF visitLoad
<1> QED BY <1>0, <1>5, <1>6, StepOk

\* visitFence().
LEMMA FenceStep ==
  ASSUME DriverInv, NEW t \in Scheduled(graph), ctl = "run", visitFence(t)
  PROVE  DriverInv'
<1> DEFINE e == NextEvent(graph, t)
           ord == NextInstr(graph, t).ord
           lab == calcFenceViews(graph, e, FenceLabel(ord))
<1>0. /\ conf \in Configs /\ GraphOk(graph, {}) /\ LocOk(graph) /\ QueueOk(graph, workqueue)
      /\ Waiting(stack) /\ TasksOk(tasks)
  BY DEF DriverInv, StateOk, StackOk
<1>1. t \in Threads
  BY <1>0, ScheduledOk
<1>2. graph' = addLabel(graph, t, lab)
  BY DEF visitFence
<1>3. Extended(graph, graph', e)
  <2> HIDE DEF ord
  <2> QED BY <1>0, <1>1, <1>2, FenceOk
<1>4. conf' = conf /\ tasks' = tasks /\ stack' = stack /\ ctl' = "run" /\ workqueue' = workqueue
  BY DEF visitFence
<1>5. StateOk(graph', workqueue')
  BY <1>0, <1>3, <1>4, ExtendedQueue DEF StateOk, Extended
<1> QED BY <1>0, <1>4, <1>5, StepOk

\* Adding a store, of an RMW or not.
LEMMA AddStoreStep ==
  ASSUME DriverInv, ctl = "run", NEW t \in Threads,
         NEW rmw, NEW loc \in Locs, NEW ord, NEW val,
         rmw # "none" => LET r == <<t, Len(graph.ev[t])>>
                         IN r \in Reads(graph) /\ Lab(graph, r).loc = loc,
         AddStore(t, NewWrite(rmw, loc, ord, val))
  PROVE  DriverInv'
<1> DEFINE e == NextEvent(graph, t)
           lab == calcWriteViews(graph, e, NewWrite(rmw, loc, ord, val))
           h == addLabel(graph, t, lab)
           p == PlacingsOf(h, lab.loc, e)
           offs == OtherPlacings(h, lab.loc, p)
           items == PlaceItems(e, offs)
<1>0. /\ GraphOk(graph, {}) /\ LocOk(graph) /\ QueueOk(graph, workqueue)
      /\ Waiting(stack) /\ TasksOk(tasks)
  BY DEF DriverInv, StateOk, StackOk
<1>1. /\ graph' = StoreAdded(h, lab.loc, e, p[2])
      /\ workqueue' = IF offs = <<>> THEN workqueue
                      ELSE addToWorklist(workqueue, Lab(h, e).stamp, items)
      /\ stack' = Append(stack, Frame("visit", graph', e))
      /\ ctl' = "revisit" /\ conf' = conf /\ tasks' = tasks
  <2>1. \E g \in {h} : \E ng \in {StoreAdded(g, lab.loc, e, PlacingsOf(g, lab.loc, e)[2])} :
          LET os == OtherPlacings(g, lab.loc, PlacingsOf(g, lab.loc, e))
          IN /\ graph' = ng
             /\ workqueue' = IF os = <<>> THEN workqueue
                             ELSE addToWorklist(workqueue, Lab(g, e).stamp,
                                    [i \in 1 .. Len(os) |-> MOChange(e, os[i])])
             /\ stack' = Append(stack, Frame("visit", ng, e))
             /\ ctl' = "revisit" /\ conf' = conf /\ tasks' = tasks
    BY Zenon DEF AddStore
  <2> QED BY <2>1, Zenon DEF PlaceItems
<1>2. workqueue' = workqueue \/ workqueue' = addToWorklist(workqueue, Lab(h, e).stamp, items)
  BY <1>1
<1> HIDE DEF e, lab, h, p, offs, items
<1>4. /\ Extended(graph, graph', e) /\ e \in Writes(graph')
      /\ QueueOk(graph', workqueue)
      /\ QueueOk(graph', addToWorklist(workqueue, Lab(h, e).stamp, items))
  BY <1>0, <1>1, StoreOk DEF e, lab, h, p, offs, items
<1>5. StateOk(graph', workqueue')
  BY <1>2, <1>4 DEF StateOk, Extended
<1>6. Running(graph', stack')
  <2> DEFINE f == Frame("visit", graph', e)
  <2>1. FrameOk(graph', f) /\ IsFrame(f) /\ f.caller = "visit"
    BY <1>4, NewFrame
  <2> HIDE DEF f
  <2>2. Running(graph', Append(stack, f))
    BY <2>1, <1>0, PushOk
  <2> QED BY <2>2, <1>1 DEF f
<1> QED BY <1>0, <1>1, <1>5, <1>6, StepOk

\* visitStore().
LEMMA StoreStep ==
  ASSUME DriverInv, NEW t \in Scheduled(graph), ctl = "run", visitStore(t)
  PROVE  DriverInv'
<1>0. conf \in Configs /\ IsGraph(graph) /\ LocOk(graph)
  BY DEF DriverInv, StateOk, GraphOk
<1>1. t \in Threads /\ (PendingStore(graph, t) \/ HasNext(graph, t))
  BY <1>0, ScheduledOk
<1>2. CASE PendingStore(graph, t)
  <2> DEFINE r == <<t, Len(graph.ev[t])>>
             l == Lab(graph, r)
             val == ResultOf(l, ReadVal(graph, r))
  <2>1. r \in Reads(graph) /\ l.loc \in Locs
    BY <1>0, <1>1, <1>2, PendingRead
  <2>2. AddStore(t, NewWrite(l.rmw, l.loc, l.ord, val))
    BY <1>2 DEF visitStore, StoreOfRMW
  <2> HIDE DEF val
  <2> QED BY <2>1, <2>2, <1>1, AddStoreStep
<1>3. CASE ~PendingStore(graph, t)
  <2> DEFINE ins == NextInstr(graph, t)
  <2>1. ins.op = "W" /\ AddStore(t, NewWrite("none", ins.loc, ins.ord, ins.val))
    BY <1>3 DEF visitStore
  <2>2. ins.loc \in Locs
    BY <2>1, <1>0, <1>1, <1>3, NextInstruction
  <2> HIDE DEF ins
  <2> QED BY <2>1, <2>2, <1>1, AddStoreStep
<1> QED BY <1>2, <1>3
\* revisitRead(): the read may complete to an RMW, whose store then revisits.
LEMMA RevisitReadOk ==
  ASSUME NEW g, NEW q, StateOk(g, q), NEW r \in Reads(g), r[2] = Len(g.ev[r[1]]),
         NEW frames, Waiting(frames), NEW caller \in {"restrict", "nested"},
         NEW after \in {"run", "next", "enter"},
         caller = "nested" \/ after = "enter" => frames # <<>>,
         revisitRead(g, r, frames, caller, after), workqueue' = q,
         DriverInv, conf' = conf, tasks' = tasks
  PROVE  DriverInv'
<1>0. GraphOk(g, {}) /\ LocOk(g) /\ QueueOk(g, q) /\ TasksOk(tasks)
  BY DEF StateOk, DriverInv
<1>1. CASE BecomesRMW(g, r)
  <2> DEFINE ng == completeRevisitedRMW(g, r)
             f == Frame(caller, ng, Succ(r))
  <2>1. graph' = ng /\ stack' = Append(frames, f) /\ ctl' = "revisit"
    BY <1>1 DEF revisitRead
  <2>2. Extended(g, ng, Succ(r)) /\ Succ(r) \in Writes(ng)
    BY <1>0, CompleteOk
  <2>3. StateOk(ng, q)
    BY <1>0, <2>2, ExtendedQueue DEF StateOk, Extended
  <2>4. FrameOk(ng, f) /\ IsFrame(f) /\ f.caller = caller
    BY <2>2, NewFrame
  <2> HIDE DEF ng, f
  <2>5. Running(ng, Append(frames, f))
    BY <2>4, PushOk
  <2> QED BY <2>1, <2>3, <2>5, <1>0, StepOk
<1>2. CASE ~BecomesRMW(g, r)
  <2>1. graph' = g /\ stack' = frames /\ ctl' = after
    BY <1>2 DEF revisitRead
  <2> QED BY <2>1, <1>0, StepOk
<1> QED BY <1>1, <1>2

\* restrictAndRevisit() with an item about a read.
LEMMA ForwardStep ==
  ASSUME DriverInv, ctl = "next", NonEmpty(workqueue) # {}, conf' = conf, tasks' = tasks,
         ForwardRevisit(NextItem(workqueue), WithoutNext(workqueue))
  PROVE  DriverInv'
<1> DEFINE it == NextItem(workqueue)
           n == NextStamp(workqueue)
           r == it.pos
           q == restrictWorklist(WithoutNext(workqueue), n)
           cut == Cut(graph, n)
           og == changeRf(cut, r, it.rev)
           h == setAddedMax(og, r, it.max)
           after == IF isConsistent(h, "step") THEN "run" ELSE "next"
<1>0. /\ StateOk(graph, workqueue) /\ GraphOk(graph, {}) /\ QueueOk(graph, workqueue)
      /\ Waiting(stack)
  BY DEF DriverInv, StateOk, StackOk
<1>1. ItemOk(graph, n, it)
  BY <1>0, NextItemOk
<1>2. Lab(graph, r).stamp = n
  BY <1>1 DEF ItemOk
<1>3. it.kind = "forward" /\ workqueue' = q /\ revisitRead(h, r, stack, "restrict", after)
  <2> DEFINE m == Lab(graph, r).stamp
             Rest(x) == restrictWorklist(WithoutNext(workqueue), x)
             H(x) == setAddedMax(changeRf(Cut(graph, x), r, it.rev), r, it.max)
             A(x) == IF isConsistent(x, "step") THEN "run" ELSE "next"
  <2>1. /\ it.kind = "forward" /\ workqueue' = Rest(m)
        /\ \E c \in {Cut(graph, m)} : \E g \in {setAddedMax(changeRf(c, r, it.rev), r, it.max)} :
             revisitRead(g, r, stack, "restrict", A(g))
    BY Zenon DEF ForwardRevisit
  <2>2. it.kind = "forward" /\ workqueue' = Rest(m) /\ revisitRead(H(m), r, stack, "restrict", A(H(m)))
    BY <2>1, Zenon
  <2>3. m = n
    BY <1>2
  <2> QED BY <2>2, <2>3, Zenon
<1>4. after \in {"run", "next"}
  OBVIOUS
<1> DEFINE w == it.rev
           b == it.max
<1> HIDE DEF after
<1>5. StateOk(h, q) /\ r \in Reads(h) /\ r[2] = Len(h.ev[r[1]])
  <2>1. og = changeRf(cut, r, w) /\ h = setAddedMax(og, r, b)
    OBVIOUS
  <2> HIDE DEF og, h, cut, w, b, it, n
  <2> QED BY <2>1, <1>0, <1>3, ForwardOk DEF cut, w, it, n
<1> HIDE DEF h, q, r, it, n
<1> QED BY <1>0, <1>3, <1>4, <1>5, RevisitReadOk

\* restrictAndRevisit() with an item about a store.
LEMMA WriteStep ==
  ASSUME DriverInv, ctl = "next", NonEmpty(workqueue) # {}, conf' = conf, tasks' = tasks,
         WriteRevisit(NextItem(workqueue), WithoutNext(workqueue))
  PROVE  DriverInv'
<1> DEFINE it == NextItem(workqueue)
           n == NextStamp(workqueue)
           w == it.pos
           off == it.off
           q == restrictWorklist(WithoutNext(workqueue), n)
           cut == Cut(graph, n)
           loc == Lab(cut, w).loc
           og == changeStoreOffset(cut, loc, w, off)
           b == FALSE
           h == setAddedMax(og, w, b)
<1>0. /\ StateOk(graph, workqueue) /\ GraphOk(graph, {}) /\ QueueOk(graph, workqueue)
      /\ Waiting(stack) /\ TasksOk(tasks)
  BY DEF DriverInv, StateOk, StackOk
<1>1. ItemOk(graph, n, it)
  BY <1>0, NextItemOk
<1>2. Lab(graph, w).stamp = n
  BY <1>1 DEF ItemOk
<1>3. /\ it.kind = "mo" /\ workqueue' = q /\ graph' = h
      /\ stack' = Append(stack, Frame("restrict", h, w)) /\ ctl' = "revisit"
  <2> DEFINE m == Lab(graph, w).stamp
             Rest(x) == restrictWorklist(WithoutNext(workqueue), x)
             H(c) == setAddedMax(changeStoreOffset(c, Lab(c, w).loc, w, off), w, FALSE)
  <2>1. /\ it.kind = "mo" /\ workqueue' = Rest(m)
        /\ \E c \in {Cut(graph, m)} : \E g \in {H(c)} :
             graph' = g /\ stack' = Append(stack, Frame("restrict", g, w))
        /\ ctl' = "revisit"
    BY Zenon DEF WriteRevisit
  <2> DEFINE x == H(Cut(graph, m))
  <2>2. /\ it.kind = "mo" /\ workqueue' = Rest(m)
        /\ graph' = x /\ stack' = Append(stack, Frame("restrict", x, w))
        /\ ctl' = "revisit"
    BY <2>1, Zenon
  <2>3. m = n
    BY <1>2
  <2> QED BY <2>2, <2>3, Zenon
<1>4. StateOk(h, q) /\ w \in Writes(h)
  <2>1. loc = Lab(cut, w).loc /\ og = changeStoreOffset(cut, loc, w, off) /\ h = setAddedMax(og, w, b)
    OBVIOUS
  <2> HIDE DEF og, h, cut, w, b, it, n, off, loc
  <2> QED BY <2>1, <1>0, <1>3, MoveOk DEF cut, w, it, n, off
<1> HIDE DEF h, w, q
<1>5. Running(h, stack')
  <2> DEFINE f == Frame("restrict", h, w)
  <2>1. FrameOk(h, f) /\ IsFrame(f) /\ f.caller = "restrict"
    BY <1>4, NewFrame
  <2> HIDE DEF f
  <2>2. Running(h, Append(stack, f))
    BY <2>1, <1>0, PushOk
  <2> QED BY <2>2, <1>3 DEF f
<1> QED BY <1>0, <1>3, <1>4, <1>5, StepOk
\* A load is revisited in a copy of the graph; the call of calcRevisits()
\* waits, with its state put aside.
LEMMA BackwardStep ==
  ASSUME DriverInv, BackwardRevisit
  PROVE  DriverInv'
<1> DEFINE r == NextLoad(graph, Top.loads)
           w == Top.write
           state == [graph |-> graph, workqueue |-> workqueue, moot |-> moot, blocked |-> blocked]
           f == [Top EXCEPT !.loads = @ \ {r}, !.saved = <<state>>]
           rest == SetTop(f)
           copy == Copy(graph, r, w)
           og == changeRf(copy, r, w)
           b == isLast(og, Lab(og, r).loc, w)
           h == setAddedMax(og, r, b)
<1>0. /\ GraphOk(graph, {}) /\ LocOk(graph) /\ QueueOk(graph, workqueue) /\ TasksOk(tasks)
      /\ Framed(stack) /\ FrameOk(graph, Top) /\ StateOk(graph, workqueue)
  BY DEF BackwardRevisit, DriverInv, StateOk, StackOk, Running, Top
<1>1. /\ Top.loads # {} /\ workqueue' = NoWork /\ conf' = conf /\ tasks' = tasks
      /\ revisitRead(h, r, rest, "nested", "enter")
  <2>1. /\ Top.loads # {} /\ workqueue' = NoWork /\ conf' = conf /\ tasks' = tasks
        /\ \E c \in {Copy(graph, r, w)} : \E o \in {changeRf(c, r, w)} :
           \E g \in {setAddedMax(o, r, isLast(o, Lab(o, r).loc, w))} :
             revisitRead(g, r, rest, "nested", "enter")
    BY Zenon DEF BackwardRevisit
  <2> QED BY <2>1, Zenon
<1>2. r \in Top.loads
  <2>1. Top.loads \in SUBSET Events(graph)
    BY <1>0 DEF FrameOk, Revisitable, Reads
  <2> QED BY <2>1, <1>0, <1>1, NextLoadOk
<1>3. /\ w \in Writes(graph) /\ r \in Revisitable(graph)
      /\ Lab(graph, r).loc = Lab(graph, w).loc /\ ~Contains(Lab(graph, w).porf, r)
  BY <1>0, <1>2 DEF FrameOk
<1>4. StateOk(h, NoWork) /\ r \in Reads(h) /\ r[2] = Len(h.ev[r[1]])
  <2>1. og = changeRf(copy, r, w) /\ h = setAddedMax(og, r, b)
    OBVIOUS
  <2> HIDE DEF h, og, copy, b, r, w
  <2> QED BY <2>1, <1>0, <1>3, BackwardOk DEF copy
<1>5. IsFrame(Top)
  <2>1. Len(stack) \in 1 .. Len(stack)
    BY <1>0 DEF Framed, IsSeq
  <2> QED BY <2>1, <1>0 DEF Framed, Top
<1>6. /\ IsFrame(f) /\ f.caller = Top.caller /\ f.write = Top.write
      /\ f.loads = Top.loads \ {r} /\ f.saved[1] = state
  BY <1>5 DEF IsFrame
<1>7. FrameOk(graph, f)
  BY <1>0, <1>6 DEF FrameOk
<1>8. state.graph = graph /\ state.workqueue = workqueue
  OBVIOUS
<1> HIDE DEF f, state
<1>9. SavedOk(f)
  BY <1>0, <1>6, <1>7, <1>8 DEF SavedOk
<1>10. Waiting(rest) /\ rest # <<>>
  <2>1. rest = [stack EXCEPT ![Len(stack)] = f]
    BY DEF SetTop
  <2>2. f.caller = stack[Len(stack)].caller
    BY <1>6 DEF Top
  <2> HIDE DEF rest
  <2> QED BY <2>1, <2>2, <1>0, <1>6, <1>9, SetTopOk
<1> HIDE DEF h, r, rest
<1> QED BY <1>1, <1>4, <1>10, RevisitReadOk

\* restoreLocalState().
LEMMA RestoreStep ==
  ASSUME DriverInv, ctl \in {"next", "enter"}, stack # <<>>, conf' = conf, TasksOk(tasks'),
         graph' = Top.saved[1].graph, workqueue' = Top.saved[1].workqueue,
         stack' = SetTop([Top EXCEPT !.saved = <<>>]), ctl' = "revisit"
  PROVE  DriverInv'
<1> DEFINE f == [Top EXCEPT !.saved = <<>>]
<1>1. Framed(stack) /\ SavedOk(Top) /\ IsFrame(Top)
  <2>1. Waiting(stack)
    BY DEF DriverInv, StackOk
  <2> QED BY <2>1, TopWaits DEF Top
<1>2. IsFrame(f) /\ f.caller = Top.caller /\ f.write = Top.write /\ f.loads = Top.loads
  BY <1>1 DEF IsFrame
<1>3. StateOk(graph', workqueue') /\ FrameOk(graph', Top)
  BY <1>1 DEF SavedOk
<1>4. FrameOk(graph', f)
  BY <1>2, <1>3 DEF FrameOk
<1>5. stack' = [stack EXCEPT ![Len(stack)] = f] /\ f.caller = stack[Len(stack)].caller
  BY <1>2 DEF SetTop, Top
<1> HIDE DEF f
<1>6. Running(graph', stack')
  BY <1>1, <1>2, <1>4, <1>5, SetTopOk
<1> QED BY <1>3, <1>6, StepOk

\* The revisited graph is submitted to the pool.
LEMMA SubmitStep ==
  ASSUME DriverInv, SubmitRevisit
  PROVE  DriverInv'
<1>1. /\ TasksOk(tasks) /\ GraphOk(graph, {}) /\ LocOk(graph) /\ stack # <<>> /\ IsSeq(tasks)
  BY DEF DriverInv, StateOk, StackOk, SubmitRevisit, TasksOk
<1>2. TasksOk(Append(tasks, graph))
  <2> DEFINE b == Append(tasks, graph)
  <2>1. /\ IsSeq(b) /\ Len(b) = Len(tasks) + 1 /\ b[Len(tasks) + 1] = graph
        /\ \A i \in 1 .. Len(tasks) : b[i] = tasks[i]
    BY <1>1, AppendSeq
  <2> HIDE DEF b
  <2>2. ASSUME NEW i \in 1 .. Len(b) PROVE GraphOk(b[i], {}) /\ LocOk(b[i])
    <3>1. Len(tasks) \in Nat
      BY <1>1 DEF IsSeq
    <3>2. i \in 1 .. Len(tasks) \/ i = Len(tasks) + 1
      BY <2>1, <3>1
    <3> QED BY <2>1, <3>2, <1>1 DEF TasksOk
  <2>3. TasksOk(b)
    BY <2>1, <2>2 DEF TasksOk
  <2> QED BY <2>3 DEF b
<1> QED BY <1>1, <1>2, RestoreStep DEF SubmitRevisit

\* The loop of calcRevisits() ends early.
LEMMA BreakStep ==
  ASSUME DriverInv, BreakRevisits
  PROVE  DriverInv'
<1> DEFINE f == [Top EXCEPT !.loads = {}]
<1>0. /\ TasksOk(tasks) /\ StateOk(graph, workqueue) /\ ctl = "revisit"
      /\ Framed(stack) /\ FrameOk(graph, Top)
  BY DEF BreakRevisits, DriverInv, StackOk, Running, Top
<1>1. IsFrame(Top)
  <2>1. Len(stack) \in 1 .. Len(stack)
    BY <1>0 DEF Framed, IsSeq
  <2> QED BY <2>1, <1>0 DEF Framed, Top
<1>2. IsFrame(f) /\ f.caller = Top.caller /\ f.write = Top.write /\ f.loads = {}
  BY <1>1 DEF IsFrame
<1>3. FrameOk(graph, f)
  BY <1>0, <1>2 DEF FrameOk
<1>4. /\ stack' = [stack EXCEPT ![Len(stack)] = f] /\ f.caller = stack[Len(stack)].caller
      /\ graph' = graph /\ workqueue' = workqueue /\ ctl' = ctl /\ conf' = conf /\ tasks' = tasks
  BY <1>2 DEF BreakRevisits, SetTop, Top
<1> HIDE DEF f
<1>5. Running(graph', stack')
  BY <1>0, <1>2, <1>3, <1>4, SetTopOk
<1> QED BY <1>0, <1>4, <1>5, StepOk

\* calcRevisits() returns.
LEMMA EndStep ==
  ASSUME DriverInv, EndRevisits
  PROVE  DriverInv'
<1>0. /\ TasksOk(tasks) /\ StateOk(graph, workqueue) /\ Framed(stack)
  BY DEF EndRevisits, DriverInv, StackOk, Running
<1>1. Top.caller \in {"visit", "restrict", "nested"}
  <2>1. Len(stack) \in 1 .. Len(stack)
    BY <1>0 DEF Framed, IsSeq
  <2> QED BY <2>1, <1>0 DEF Framed, Top, IsFrame
<1>2. /\ stack' = Pop /\ graph' = graph /\ workqueue' = workqueue /\ conf' = conf /\ tasks' = tasks
  BY DEF EndRevisits
<1>3. ctl' \in {"run", "next", "enter"} /\ (ctl' = "enter" => Top.caller = "nested")
  <2> DEFINE m == moot \/ violatesAtomicity(graph, Top.write)
             c == m \/ ~isConsistent(graph, "step")
  <2>1. ctl' = CASE Top.caller = "visit"    -> "run"
                 [] Top.caller = "restrict" -> IF c THEN "next" ELSE "run"
                 [] Top.caller = "nested"   -> "enter"
    BY Zenon DEF EndRevisits
  <2> HIDE DEF c
  <2> QED BY <2>1, <1>1
<1>4. Waiting(Pop) /\ (Top.caller = "nested" => Pop # <<>>)
  BY <1>0, PopOk DEF Pop, Top
<1> QED BY <1>0, <1>2, <1>3, <1>4, StepOk

\* A worker takes a graph from the pool.
LEMMA TaskStep ==
  ASSUME DriverInv, TakeTask
  PROVE  DriverInv'
<1>0. /\ TasksOk(tasks) /\ IsSeq(tasks) /\ Waiting(stack) /\ workqueue = NoWork
  BY DEF TakeTask, DriverInv, StackOk, TasksOk
<1>1. PICK i \in 1 .. Len(tasks) :
        /\ graph' = tasks[i]
        /\ tasks' = SubSeq(tasks, 1, i - 1) \o SubSeq(tasks, i + 1, Len(tasks))
  BY DEF TakeTask
<1>2. /\ workqueue' = workqueue /\ stack' = stack /\ ctl' = "run" /\ conf' = conf
  BY DEF TakeTask
<1>3. StateOk(graph', workqueue')
  <2>1. QueueOk(graph', NoWork)
    BY DEF QueueOk, NoWork
  <2> QED BY <2>1, <1>0, <1>1, <1>2 DEF TasksOk, StateOk
<1>4. TasksOk(tasks')
  <2> DEFINE a == SubSeq(tasks, 1, i - 1)
             b == SubSeq(tasks, i + 1, Len(tasks))
             c == a \o b
  <2>0. Len(tasks) \in Nat /\ i - 1 \in 0 .. Len(tasks) /\ i \in 0 .. Len(tasks)
    BY <1>0 DEF IsSeq
  <2>1. IsSeq(a) /\ Len(a) = i - 1 /\ \A j \in 1 .. i - 1 : a[j] = tasks[j]
    BY <2>0, <1>0, PrefixSeq
  <2>2. IsSeq(b) /\ Len(b) = Len(tasks) - i /\ \A j \in 1 .. Len(tasks) - i : b[j] = tasks[i + j]
    BY <2>0, <1>0, SuffixSeq
  <2> HIDE DEF a, b
  <2>3. /\ IsSeq(c) /\ Len(c) = Len(a) + Len(b)
        /\ \A j \in 1 .. Len(a) : c[j] = a[j]
        /\ \A j \in 1 .. Len(b) : c[Len(a) + j] = b[j]
    <3>1. IsSeq(a) /\ IsSeq(b)
      BY <2>1, <2>2
    <3> QED BY <3>1, ConcatSeq
  <2> HIDE DEF c
  <2>4. ASSUME NEW j \in 1 .. Len(c) PROVE \E k \in 1 .. Len(tasks) : c[j] = tasks[k]
    <3>1. CASE j <= i - 1
      BY <3>1, <2>0, <2>1, <2>3
    <3>2. CASE ~(j <= i - 1)
      <4> DEFINE m == j - (i - 1)
      <4>1. m \in 1 .. Len(b) /\ j = Len(a) + m /\ i + m \in 1 .. Len(tasks)
        BY <3>2, <2>0, <2>1, <2>2, <2>3
      <4> HIDE DEF m
      <4> QED BY <4>1, <2>2, <2>3
    <3> QED BY <3>1, <3>2
  <2>5. TasksOk(c)
    BY <1>0, <2>3, <2>4 DEF TasksOk
  <2> QED BY <2>5, <1>1 DEF a, b, c
<1> QED BY <1>0, <1>2, <1>3, <1>4, StepOk
\* explore() returns.
LEMMA ReturnStep ==
  ASSUME DriverInv, ReturnFromExplore
  PROVE  DriverInv'
<1>0. ctl = "next" /\ conf' = conf /\ tasks' = tasks /\ TasksOk(tasks) /\ conf \in Configs
  BY DEF ReturnFromExplore, DriverInv
<1>1. CASE stack = <<>>
  <2>1. /\ ctl' = "idle" /\ graph' = EmptyGraph /\ workqueue' = NoWork /\ stack' = stack
    BY <1>1 DEF ReturnFromExplore
  <2>2. StateOk(EmptyGraph, NoWork)
    <3>1. Events(EmptyGraph) = {}
      BY DEF Events, EmptyGraph
    <3>2. LocOk(EmptyGraph)
      BY <3>1 DEF LocOk
    <3>3. QueueOk(EmptyGraph, NoWork)
      BY DEF QueueOk, NoWork
    <3> QED BY <3>2, <3>3, EmptyGraphOk DEF StateOk
  <2>3. Waiting(stack')
    BY <2>1, <1>1 DEF Waiting
  <2> QED BY <2>1, <2>2, <2>3, <1>0 DEF DriverInv, StackOk
<1>2. CASE stack # <<>>
  <2>1. /\ graph' = Top.saved[1].graph /\ workqueue' = Top.saved[1].workqueue
        /\ stack' = SetTop([Top EXCEPT !.saved = <<>>]) /\ ctl' = "revisit"
    BY <1>2 DEF ReturnFromExplore
  <2> QED BY <2>1, <1>0, <1>2, RestoreStep
<1> QED BY <1>1, <1>2

-----------------------------------------------------------------------------
(* Theorems *)

\* The exploration starts with an empty graph, queue and stack.
LEMMA InitOk == Init => DriverInv
<1> SUFFICES ASSUME Init PROVE DriverInv
  OBVIOUS
<1>0. /\ conf \in Configs /\ ctl = "run" /\ graph = EmptyGraph /\ workqueue = NoWork
      /\ stack = <<>> /\ tasks = <<>>
  BY DEF Init
<1>1. Events(EmptyGraph) = {}
  BY DEF Events, EmptyGraph
<1>2. LocOk(EmptyGraph)
  BY <1>1 DEF LocOk
<1>3. QueueOk(EmptyGraph, NoWork)
  BY DEF QueueOk, NoWork
<1>4. StateOk(EmptyGraph, NoWork)
  BY <1>2, <1>3, EmptyGraphOk DEF StateOk
<1>5. Waiting(<<>>)
  BY DEF Waiting
<1>6. TasksOk(<<>>)
  BY DEF TasksOk, IsSeq
<1> QED BY <1>0, <1>4, <1>5, <1>6 DEF DriverInv, StackOk

\* Each action preserves the invariant.
LEMMA NextOk == DriverInv /\ [Next]_vars => DriverInv'
<1> SUFFICES ASSUME DriverInv, [Next]_vars PROVE DriverInv'
  OBVIOUS
<1>0. conf \in Configs /\ TasksOk(tasks) /\ StateOk(graph, workqueue)
  BY DEF DriverInv
<1>1. CASE Visit
  <2>1. PICK t \in Scheduled(graph) : visitLoad(t) \/ visitFence(t) \/ visitStore(t)
    BY <1>1 DEF Visit
  <2>2. ctl = "run"
    BY <1>1 DEF Visit
  <2> QED BY <2>1, <2>2, LoadStep, FenceStep, StoreStep
<1>2. CASE FinishExecution
  <2>1. /\ ctl = "run" /\ ctl' = "next" /\ conf' = conf /\ tasks' = tasks /\ stack' = stack
        /\ graph' = graph /\ workqueue' = workqueue
    BY <1>2 DEF FinishExecution
  <2>2. Waiting(stack)
    BY <2>1 DEF DriverInv, StackOk
  <2> QED BY <2>1, <2>2, <1>0, StepOk
<1>3. CASE restrictAndRevisit
  <2>1. /\ ctl = "next" /\ NonEmpty(workqueue) # {} /\ conf' = conf /\ tasks' = tasks
        /\ \/ ForwardRevisit(NextItem(workqueue), WithoutNext(workqueue))
           \/ WriteRevisit(NextItem(workqueue), WithoutNext(workqueue))
    BY <1>3 DEF restrictAndRevisit
  <2> QED BY <2>1, ForwardStep, WriteStep
<1>4. CASE EnterExplore
  <2>1. /\ ctl = "enter" /\ ctl' = "run" /\ conf' = conf /\ tasks' = tasks /\ stack' = stack
        /\ graph' = graph /\ workqueue' = workqueue
    BY <1>4 DEF EnterExplore
  <2>2. Waiting(stack)
    BY <2>1 DEF DriverInv, StackOk
  <2> QED BY <2>1, <2>2, <1>0, StepOk
<1>5. CASE DropRevisit
  <2>1. stack # <<>>
    BY <1>5 DEF DropRevisit, DriverInv, StackOk
  <2>2. /\ ctl = "enter" /\ conf' = conf /\ tasks' = tasks
        /\ graph' = Top.saved[1].graph /\ workqueue' = Top.saved[1].workqueue
        /\ stack' = SetTop([Top EXCEPT !.saved = <<>>]) /\ ctl' = "revisit"
    BY <1>5 DEF DropRevisit
  <2> QED BY <2>1, <2>2, <1>0, RestoreStep
<1>6. CASE Done \/ UNCHANGED vars
  BY <1>6 DEF Done, vars, DriverInv, StackOk
<1> QED BY <1>1, <1>2, <1>3, <1>4, <1>5, <1>6, ReturnStep, BreakStep, BackwardStep,
           SubmitStep, EndStep, TaskStep DEF Next

\* The invariant holds throughout.
LEMMA DriverInvariant == Spec => []DriverInv
BY InitOk, NextOk, PTL DEF Spec

\* However the exploration adds to its graph, cuts it for a forward revisit,
\* copies it for a backward revisit, hands it to the pool and takes it back, the
\* graph is well formed: what ExecutionGraph::validate() asserts of rf, and
\* what the coherence calculators and the consistency checks rely on.
THEOREM GraphsStayWellFormed == Spec => []GraphWellFormed
<1>1. DriverInv => GraphWellFormed
  BY GraphOkWellFormed DEF DriverInv, StateOk, GraphWellFormed
<1> QED BY <1>1, DriverInvariant, PTL

\* restrictAndRevisit() always finds the event of the item it takes in the graph,
\* and the item can still be carried out: items do not go stale, although
\* stamps are used again after each cut.
THEOREM WorkItemsStayValid == Spec => []WorkItemsValid
<1>1. DriverInv => WorkItemsValid
  <2> SUFFICES ASSUME DriverInv, NEW s \in NonEmpty(workqueue), NEW i \in 1 .. Len(workqueue[s])
               PROVE  LET item == workqueue[s][i]
                          cut == cutToStamp(graph, s)
                          l == Lab(graph, item.pos).loc
                      IN /\ item.pos \in Events(graph) /\ Lab(graph, item.pos).stamp = s
                         /\ IF item.kind = "forward"
                            THEN InGraph(cut, item.rev) /\ item.rev # Lab(graph, item.pos).rf
                            ELSE item.off < Len(cut.co[l])
    BY Zenon DEF WorkItemsValid
  <2> DEFINE item == workqueue[s][i]
             cut == cutToStamp(graph, s)
             l == Lab(graph, item.pos).loc
  <2>0. GraphOk(graph, {}) /\ LocOk(graph) /\ QueueOk(graph, workqueue)
    BY DEF DriverInv, StateOk
  <2>1. ItemOk(graph, s, item) /\ s \in Nat
    BY <2>0 DEF QueueOk, NonEmpty
  <2>2. item.pos \in Events(graph) /\ Lab(graph, item.pos).stamp = s /\ item.kind \in {"forward", "mo"}
    BY <2>1 DEF ItemOk
  <2>3. /\ IsGraph(cut) /\ CoOk(cut, {})
        /\ Events(cut) = {e \in Events(graph) : Lab(graph, e).stamp <= s}
        /\ \A e \in Events(cut) : Lab(cut, e) = Lab(graph, e)
    BY <2>0, <2>1, CutShape
  <2> HIDE DEF item, cut
  <2>4. CASE item.kind = "forward"
    <3>1. /\ item.rev # Lab(graph, item.pos).rf
          /\ item.rev = Init0 \/ (item.rev \in Writes(graph) /\ Lab(graph, item.rev).stamp < s)
      BY <2>1, <2>4 DEF ItemOk
    <3>2. item.rev \in Writes(graph) => Lab(graph, item.rev).stamp \in Nat /\ item.rev \in Events(graph)
      BY <2>0 DEF GraphOk, LabelsOk, IsLabel, Writes
    <3>3. InGraph(cut, item.rev)
      BY <2>1, <2>3, <3>1, <3>2 DEF InGraph
    <3> QED BY <2>2, <2>4, <3>1, <3>3 DEF item, cut
  <2>5. CASE item.kind = "mo"
    <3>1. /\ item.pos \in Writes(graph)
          /\ item.off < Cardinality(StoresUpTo(graph, l, s))
      BY <2>1, <2>5 DEF ItemOk
    <3>2. l \in Locs
      BY <2>0, <3>1 DEF LocOk, Writes
    <3> HIDE DEF l
    <3> DEFINE S == {x \in Writes(cut) \ {} : Lab(cut, x).loc = l}
    <3>3. S = StoresUpTo(graph, l, s)
      <4>1. \A x : x \in S <=> x \in Events(cut) /\ Lab(cut, x).op = "W" /\ Lab(cut, x).loc = l
        BY DEF Writes
      <4>2. \A x : x \in StoresUpTo(graph, l, s) <=>
                     /\ x \in Events(graph) /\ Lab(graph, x).op = "W" /\ Lab(graph, x).loc = l
                     /\ Lab(graph, x).stamp <= s
        BY DEF StoresUpTo, Writes
      <4> HIDE DEF S
      <4>3. \A x : x \in S <=> x \in StoresUpTo(graph, l, s)
        BY <4>1, <4>2, <2>3
      <4>4. S \subseteq Events(cut) /\ StoresUpTo(graph, l, s) \subseteq Events(graph)
        BY <4>1, <4>2
      <4> QED BY <4>3, <4>4
    <3>4. Cardinality(S) = Len(cut.co[l])
      BY <2>3, <3>2, StoresCounted
    <3>5. item.off < Len(cut.co[l])
      BY <3>1, <3>3, <3>4
    <3> QED BY <2>2, <2>5, <3>5 DEF item, cut, l
  <2> QED BY <2>2, <2>4, <2>5
<1> QED BY <1>1, DriverInvariant, PTL
=============================================================================
