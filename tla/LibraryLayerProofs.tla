------------------------- MODULE LibraryLayerProofs -------------------------
(***************************************************************************)
(* Every execution graph that the library layer builds, cuts and copies is *)
(* well formed, and the pair of a method and an invocation number          *)
(* identifies a call in it.                                                *)
(***************************************************************************)
EXTENDS LibraryLayer, ExecutionGraphProofs

\* The label of an instruction of thread t of program p.  The read of a CAS
\* knows the instruction that its store will belong to.
LibLabel(p, t, l) ==
  /\ {"op", "method", "inv", "com", "so", "next"} \subseteq DOMAIN l
  /\ l.inv \in Nat /\ l.next \in Nat \ {0}
  /\ l.op = "W" => {"rmw", "loc"} \subseteq DOMAIN l
  /\ l.op = "R" => /\ {"rmw", "rf", "rev", "loc"} \subseteq DOMAIN l /\ l.loc \in Locs
                   /\ l.rmw = "cas" => /\ l.next - 1 \in 1 .. Len(p[t])
                                       /\ p[t][l.next - 1].loc = l.loc
LibOk(p, g) == \A e \in Events(g) : LibLabel(p, e[1], Lab(g, e))

\* s is the start of the call that e belongs to.
StartOf(g, s, e) ==
  /\ s[1] = e[1] /\ s[2] <= e[2] /\ Lab(g, s).op = "start"
  /\ FunctionEvent(Lab(g, s)) = FunctionEvent(Lab(g, e))
  /\ \A d \in Events(g) : d[1] = e[1] /\ s[2] < d[2] /\ d[2] <= e[2] => Lab(g, d).op # "start"

\* Labels of calls have a start, and no other call starts with their number.
CallsOk(g) ==
  /\ \A e \in Events(g) : Lab(g, e).method # NoMethod =>
       \E s \in Events(g) : StartOf(g, s, e)
  /\ \A d, e \in FunStarts(g) :
       /\ Lab(g, e).method # NoMethod
       /\ FunctionEvent(Lab(g, d)) = FunctionEvent(Lab(g, e))
       => d = e

\* The inductive invariant.
LibraryInv ==
  /\ conf \in Configurations
  /\ GraphOk(graph, {}) /\ LibOk(prog, graph) /\ CallsOk(graph)

-----------------------------------------------------------------------------
(* What is computed for a label *)

\* The fields that views, lists and the store read from do not change.
Agree(l, m, F) == DOMAIN l = DOMAIN m /\ \A f \in DOMAIN m \ F : l[f] = m[f]

\* AddFunInfoToLbl() changes the call of a label only.
LEMMA FunInfo ==
  ASSUME NEW g, NEW e, NEW new, {"op", "method", "inv"} \subseteq DOMAIN new
  PROVE  LET m == AddFunInfoToLbl(g, e, new)
         IN /\ Agree(m, new, {"method", "inv"})
            /\ new.op = "start" => m.method = new.method /\ m.inv = getFunInvocationCount(g, new.method)
            /\ new.op # "start" => /\ m.method = previousEventMethod(g, e)
                                   /\ m.inv = previousEventInvocation(g, e)
<1> DEFINE m == AddFunInfoToLbl(g, e, new)
<1>1. CASE new.op = "start"
  <2>1. m = [new EXCEPT !.inv = getFunInvocationCount(g, new.method)]
    BY <1>1 DEF AddFunInfoToLbl
  <2> HIDE DEF m
  <2> QED BY <1>1, <2>1 DEF Agree, m
<1>2. CASE new.op # "start"
  <2>1. m = [new EXCEPT !.method = previousEventMethod(g, e),
                        !.inv = previousEventInvocation(g, e)]
    BY <1>2 DEF AddFunInfoToLbl
  <2> HIDE DEF m
  <2> QED BY <1>2, <2>1 DEF Agree, m
<1> QED BY <1>1, <1>2

\* calcReadCOM() changes the lists of a label only.
LEMMA ReadCOM ==
  ASSUME NEW g, NEW e, NEW m
  PROVE  Agree(calcReadCOM(g, e, m), m, {"com", "so"})
<1> DEFINE l == calcReadCOM(g, e, m)
           B == {FunctionEvent(Lab(g, m.rf))}
           synced == m.acq \/ Contains(calcBasicHbView(g, e), m.rf)
<1>1. CASE MatchesCall(g, e, m)
  <2>1. l = [m EXCEPT !.com = calcBasicCOM(g, e) \cup B,
                      !.so  = calcBasicSO(g, e) \cup (IF synced THEN B ELSE {})]
    BY <1>1 DEF calcReadCOM
  <2> HIDE DEF l, B, synced
  <2> QED BY <2>1 DEF Agree, l
<1>2. CASE ~MatchesCall(g, e, m)
  <2>1. l = [m EXCEPT !.com = calcBasicCOM(g, e), !.so = calcBasicSO(g, e)]
    BY <1>2 DEF calcReadCOM
  <2> HIDE DEF l
  <2> QED BY <2>1 DEF Agree, l
<1> QED BY <1>1, <1>2

\* tryFindComSoPath() changes the lists of a label only.
LEMMA StoreCOM ==
  ASSUME NEW g, NEW e, NEW m
  PROVE  Agree(tryFindComSoPath(g, e, m), m, {"com", "so"})
<1>1. \E C, S : tryFindComSoPath(g, e, m) = [m EXCEPT !.com = C, !.so = S]
  BY DEF tryFindComSoPath
<1> QED BY <1>1 DEF Agree

\* The porf view of a label that is added, and what is left as it was.
LEMMA UpdatedLabel ==
  ASSUME NEW g, NEW e, NEW new, {"op", "method", "inv", "hb", "porf"} \subseteq DOMAIN new,
         new.op = "R" => "rf" \in DOMAIN new /\ new.rf = Init0
  PROVE  LET lab == updateLabelViews(g, e, new)
         IN /\ Agree(lab, new, {"method", "inv", "hb", "porf", "com", "so", "msg"})
            /\ lab.porf = calcBasicPorfView(g, e)
            /\ new.op = "start" => lab.method = new.method /\ lab.inv = getFunInvocationCount(g, new.method)
            /\ new.op # "start" => /\ lab.method = previousEventMethod(g, e)
                                   /\ lab.inv = previousEventInvocation(g, e)
<1> DEFINE m == AddFunInfoToLbl(g, e, new)
           lab == updateLabelViews(g, e, new)
           V == {"hb", "porf", "com", "so", "msg"}
<1>1. /\ Agree(m, new, {"method", "inv"})
      /\ new.op = "start" => m.method = new.method /\ m.inv = getFunInvocationCount(g, new.method)
      /\ new.op # "start" => /\ m.method = previousEventMethod(g, e)
                             /\ m.inv = previousEventInvocation(g, e)
  BY FunInfo
<1>2. lab = CASE m.op = "R" -> calcReadCOM(g, e, calcReadViews(g, e, m))
              [] m.op = "W" -> tryFindComSoPath(g, e, calcWriteViews(g, e, m))
              [] OTHER      -> calcBasicViews(g, e, m)
  BY DEF updateLabelViews
<1> HIDE DEF m, lab
<1>3. m.op = new.op /\ DOMAIN m = DOMAIN new /\ (new.op = "R" => m.rf = Init0)
  BY <1>1 DEF Agree
<1>4. Agree(lab, m, V) /\ lab.porf = calcBasicPorfView(g, e)
  <2>1. CASE m.op = "R"
    <3> DEFINE n == calcReadViews(g, e, m)
    <3>1. lab = calcReadCOM(g, e, n)
      BY <1>2, <2>1
    <3>2. n = [m EXCEPT !.hb = calcBasicHbView(g, e), !.porf = calcBasicPorfView(g, e)]
      BY <1>3, <2>1 DEF calcReadViews
    <3>3. Agree(lab, n, {"com", "so"})
      BY <3>1, ReadCOM
    <3> HIDE DEF n
    <3> QED BY <3>2, <3>3, <1>3 DEF Agree
  <2>2. CASE m.op = "W"
    <3> DEFINE n == calcWriteViews(g, e, m)
               hb == calcBasicHbView(g, e)
    <3>1. lab = tryFindComSoPath(g, e, n)
      BY <1>2, <2>2
    <3>2. n = [m EXCEPT !.hb = hb, !.porf = calcBasicPorfView(g, e),
                        !.msg = calcWriteMsgView(g, e, m, hb)]
      BY DEF calcWriteViews
    <3>3. Agree(lab, n, {"com", "so"})
      BY <3>1, StoreCOM
    <3> HIDE DEF n, hb
    <3> QED BY <3>2, <3>3, <1>3 DEF Agree
  <2>3. CASE m.op # "R" /\ m.op # "W"
    <3>1. lab = calcBasicViews(g, e, m)
      BY <1>2, <2>3
    <3>2. \E C, S : lab = [m EXCEPT !.hb = calcBasicHbView(g, e), !.porf = calcBasicPorfView(g, e),
                                    !.com = C, !.so = S]
      BY <3>1 DEF calcBasicViews
    <3> QED BY <3>2, <1>3 DEF Agree
  <2> QED BY <2>1, <2>2, <2>3
<1> QED BY <1>1, <1>3, <1>4 DEF Agree, lab

\* The label of a read that is given w to read.
LEMMA ChangedLabel ==
  ASSUME NEW g, NEW r, NEW w, IsLabel(Lab(g, r)), Lab(g, r).op = "R", w # Bottom,
         {"com", "so"} \subseteq DOMAIN Lab(g, r)
  PROVE  LET l == calcReadCOM(g, r, calcReadViews(g, r, [Lab(g, r) EXCEPT !.rf = w]))
         IN /\ Agree(l, Lab(g, r), {"rf", "hb", "porf", "com", "so"}) /\ l.rf = w
            /\ l.porf = IF w = Init0 THEN calcBasicPorfView(g, r)
                        ELSE Update(calcBasicPorfView(g, r), Lab(g, w).porf)
<1> DEFINE a == Lab(g, r)
           m == [a EXCEPT !.rf = w]
           n == calcReadViews(g, r, m)
           l == calcReadCOM(g, r, n)
<1>1. {"op", "hb", "porf", "rf"} \subseteq DOMAIN a
  BY DEF IsLabel
<1> HIDE DEF a
<1>2. DOMAIN m = DOMAIN a /\ m.rf = w /\ \A f \in DOMAIN a \ {"rf"} : m[f] = a[f]
  BY <1>1
<1> HIDE DEF m
<1>3. /\ Agree(n, m, {"hb", "porf"})
      /\ n.porf = IF w = Init0 THEN calcBasicPorfView(g, r)
                  ELSE Update(calcBasicPorfView(g, r), Lab(g, w).porf)
  <2>1. CASE w = Init0
    <3>1. n = [m EXCEPT !.hb = calcBasicHbView(g, r), !.porf = calcBasicPorfView(g, r)]
      BY <2>1, <1>2 DEF calcReadViews
    <3> HIDE DEF n
    <3> QED BY <2>1, <3>1, <1>1, <1>2 DEF Agree
  <2>2. CASE w # Init0
    <3>1. \E H : n = [m EXCEPT !.porf = Update(calcBasicPorfView(g, r), Lab(g, w).porf), !.hb = H]
      BY <2>2, <1>2 DEF calcReadViews
    <3> HIDE DEF n
    <3> QED BY <2>2, <3>1, <1>1, <1>2 DEF Agree
  <2> QED BY <2>1, <2>2
<1>4. Agree(l, n, {"com", "so"})
  BY ReadCOM
<1> HIDE DEF l, n
<1>5. Agree(l, a, {"rf", "hb", "porf", "com", "so"}) /\ l.rf = w /\ l.porf = n.porf
  BY <1>1, <1>2, <1>3, <1>4 DEF Agree
<1> QED BY <1>3, <1>5 DEF l, n, m, a

-----------------------------------------------------------------------------
(* Calls *)

\* Each label is where it was, in the same call; others may be gone.
LEMMA CallsKept ==
  ASSUME NEW g, NEW k, CallsOk(g), IsGraph(k), Events(k) \subseteq Events(g),
         \A e \in Events(k) : /\ Lab(k, e).op = Lab(g, e).op
                              /\ Lab(k, e).method = Lab(g, e).method /\ Lab(k, e).inv = Lab(g, e).inv
  PROVE  CallsOk(k)
<1>1. \A e \in Events(k) : FunctionEvent(Lab(k, e)) = FunctionEvent(Lab(g, e))
  BY DEF FunctionEvent
<1>2. ASSUME NEW e \in Events(k), Lab(k, e).method # NoMethod
      PROVE  \E s \in Events(k) : StartOf(k, s, e)
  <2>1. PICK s \in Events(g) : StartOf(g, s, e)
    BY <1>2 DEF CallsOk
  <2>2. s[1] = e[1] /\ s[2] <= e[2]
    BY <2>1 DEF StartOf
  <2>3. s \in Events(k)
    <3>1. /\ s = <<s[1], s[2]>> /\ s[2] \in 1 .. Len(g.ev[s[1]])
          /\ e[1] \in Threads /\ e[2] \in 1 .. Len(k.ev[e[1]])
      BY InEvents
    <3>2. Len(k.ev[e[1]]) \in Nat
      BY <3>1 DEF IsGraph, IsSeq
    <3>3. s[2] \in 1 .. Len(k.ev[e[1]])
      BY <2>2, <3>1, <3>2
    <3>4. <<e[1], s[2]>> \in Events(k)
      BY <3>1, <3>3, PairInEvents
    <3> QED BY <2>2, <3>1, <3>4
  <2>4. StartOf(k, s, e)
    <3>1. Lab(k, s).op = "start" /\ FunctionEvent(Lab(k, s)) = FunctionEvent(Lab(k, e))
      BY <1>1, <2>1, <2>3 DEF StartOf
    <3>2. \A d \in Events(k) : d[1] = e[1] /\ s[2] < d[2] /\ d[2] <= e[2] => Lab(k, d).op # "start"
      BY <2>1 DEF StartOf
    <3> QED BY <2>2, <3>1, <3>2 DEF StartOf
  <2> QED BY <2>3, <2>4
<1>3. ASSUME NEW d \in FunStarts(k), NEW e \in FunStarts(k), Lab(k, e).method # NoMethod,
             FunctionEvent(Lab(k, d)) = FunctionEvent(Lab(k, e))
      PROVE  d = e
  <2>1. d \in FunStarts(g) /\ e \in FunStarts(g) /\ d \in Events(k) /\ e \in Events(k)
    BY DEF FunStarts
  <2> QED BY <2>1, <1>1, <1>3 DEF CallsOk
<1> QED BY <1>2, <1>3 DEF CallsOk

\* The number of a new call is above those of the method's calls in the graph.
LEMMA InvocationCount ==
  ASSUME NEW g, IsGraph(g), NEW p, LibOk(p, g), NEW name
  PROVE  LET c == getFunInvocationCount(g, name)
         IN /\ c \in Nat
            /\ \A e \in FunStarts(g) : Lab(g, e).method = name => Lab(g, e).inv < c
<1> DEFINE D == {d \in FunStarts(g) : Lab(g, d).method = name}
           T == {Lab(g, e).inv + 1 : e \in D}
           S == {0} \cup T
<1>0. \A e \in FunStarts(g) : Lab(g, e).inv \in Nat
  BY DEF FunStarts, LibOk, LibLabel
<1>1. S \in SUBSET Nat /\ S # {}
  BY <1>0
<1>2. IsFiniteSet(S)
  <2>1. IsFiniteSet(D)
    <3>1. D \in SUBSET Events(g)
      BY DEF FunStarts
    <3> HIDE DEF D
    <3> QED BY <3>1, FiniteEvents, FS_Subset
  <2>2. IsFiniteSet(T)
    <3> DEFINE f == [e \in D |-> Lab(g, e).inv + 1]
    <3>1. f \in Surjection(D, T)
      BY DEF Surjection
    <3> HIDE DEF f, T, D
    <3> QED BY <2>1, <3>1, FS_Surjection
  <2> HIDE DEF T
  <2> QED BY <2>2, FS_Singleton, FS_Union
<1>3. getFunInvocationCount(g, name) = MaxOf(S)
  BY DEF getFunInvocationCount
<1>4. MaxOf(S) \in S /\ \A x \in S : x <= MaxOf(S)
  <2> HIDE DEF S
  <2> QED BY <1>1, <1>2, MaxOfFinite
<1>5. ASSUME NEW e \in FunStarts(g), Lab(g, e).method = name
      PROVE  Lab(g, e).inv < MaxOf(S)
  <2>1. Lab(g, e).inv + 1 \in S
    BY <1>5
  <2>2. MaxOf(S) \in Nat
    BY <1>1, <1>4
  <2> HIDE DEF S
  <2> QED BY <2>1, <2>2, <1>0, <1>4
<1> HIDE DEF S
<1> QED BY <1>1, <1>3, <1>4, <1>5

\* A label continues the call of its predecessor, or starts one.
LEMMA CallsAdded ==
  ASSUME NEW g, NEW h, NEW p, NEW t \in Threads, NEW n, NEW l,
         IsGraph(g), LibOk(p, g), CallsOk(g),
         n = NextEvent(g, t), Events(h) = Events(g) \cup {n}, n \notin Events(g),
         \A e \in Events(g) : Lab(h, e) = Lab(g, e), Lab(h, n) = l,
         l.op = "start" => l.inv = getFunInvocationCount(g, l.method),
         l.op # "start" => l.method = previousEventMethod(g, n) /\ l.inv = previousEventInvocation(g, n)
  PROVE  CallsOk(h)
<1>0. Len(g.ev[t]) \in Nat /\ n = <<t, Len(g.ev[t]) + 1>> /\ n[1] = t /\ n[2] = Len(g.ev[t]) + 1
  BY DEF NextEvent, IsGraph, IsSeq
<1>1. \A e \in Events(g) : /\ e[1] \in Threads /\ e[2] \in Nat \ {0}
                           /\ e[1] = t => e[2] < n[2]
  <2> TAKE e \in Events(g)
  <2>1. e[1] \in Threads /\ e[2] \in 1 .. Len(g.ev[e[1]])
    BY InEvents
  <2>2. Len(g.ev[e[1]]) \in Nat
    BY <2>1 DEF IsGraph, IsSeq
  <2> QED BY <2>1, <2>2, <1>0
<1>2. ASSUME NEW e \in Events(g), NEW s \in Events(g), StartOf(g, s, e)
      PROVE  StartOf(h, s, e)
  <2>1. ~(n[1] = e[1] /\ n[2] <= e[2])
    BY <1>0, <1>1
  <2> QED BY <2>1, <1>2 DEF StartOf
<1>3. ASSUME NEW e \in Events(h), Lab(h, e).method # NoMethod
      PROVE  \E s \in Events(h) : StartOf(h, s, e)
  <2>1. CASE e \in Events(g)
    <3>1. PICK s \in Events(g) : StartOf(g, s, e)
      BY <2>1, <1>3 DEF CallsOk
    <3> QED BY <2>1, <3>1, <1>2
  <2>2. CASE e = n /\ l.op = "start"
    <3>1. StartOf(h, n, n)
      BY <2>2, <1>0, <1>1 DEF StartOf
    <3> QED BY <2>2, <3>1
  <2>3. CASE e = n /\ l.op # "start"
    <3> DEFINE q == Prev(n)
    <3>1. n[2] # 1 /\ Lab(g, q).op # "end" /\ l.method = Lab(g, q).method /\ l.inv = Lab(g, q).inv
      BY <2>3, <1>3 DEF previousEventMethod, previousEventInvocation
    <3>2. q = <<t, Len(g.ev[t])>> /\ q[1] = t /\ q[2] = Len(g.ev[t])
      BY <1>0 DEF Prev
    <3>3. q \in Events(g)
      BY <3>1, <3>2, <1>0, PairInEvents
    <3> HIDE DEF q
    <3>4. PICK s \in Events(g) : StartOf(g, s, q)
      BY <2>3, <3>1, <3>3, <1>3 DEF CallsOk
    <3>5. FunctionEvent(Lab(h, s)) = FunctionEvent(Lab(h, n))
      BY <3>1, <3>4 DEF StartOf, FunctionEvent
    <3>6. s[1] = n[1] /\ s[2] <= n[2] /\ Lab(h, s).op = "start"
      BY <3>2, <3>4, <1>0, <1>1 DEF StartOf
    <3>7. ASSUME NEW d \in Events(h), d[1] = n[1], s[2] < d[2], d[2] <= n[2]
          PROVE  Lab(h, d).op # "start"
      <4>1. CASE d = n
        BY <2>3, <4>1
      <4>2. CASE d # n
        <5>1. d \in Events(g) /\ d[2] <= q[2]
          BY <4>2, <3>2, <3>7, <1>0, <1>1
        <5> QED BY <5>1, <3>2, <3>4, <3>7, <1>0 DEF StartOf
      <4> QED BY <4>1, <4>2
    <3>8. StartOf(h, s, n)
      BY <3>5, <3>6, <3>7 DEF StartOf
    <3> QED BY <2>3, <3>8
  <2> QED BY <2>1, <2>2, <2>3
<1>4. ASSUME NEW d \in FunStarts(h), NEW e \in FunStarts(h), Lab(h, e).method # NoMethod,
             FunctionEvent(Lab(h, d)) = FunctionEvent(Lab(h, e))
      PROVE  d = e
  <2>1. Lab(h, d).method = Lab(h, e).method /\ Lab(h, d).inv = Lab(h, e).inv
    BY <1>4 DEF FunctionEvent
  <2>2. \A c \in FunStarts(h) : c = n \/ (c \in FunStarts(g) /\ Lab(h, c) = Lab(g, c))
    BY DEF FunStarts
  <2>3. CASE d \in FunStarts(g) /\ e \in FunStarts(g)
    <3>1. d \in Events(g) /\ e \in Events(g)
      BY <2>3 DEF FunStarts
    <3> QED BY <2>3, <3>1, <1>4 DEF CallsOk
  <2>4. ASSUME n \in FunStarts(h), NEW c \in FunStarts(g), Lab(g, c).method = l.method
        PROVE  Lab(g, c).inv # l.inv
    <3>1. l.inv = getFunInvocationCount(g, l.method)
      BY <2>4 DEF FunStarts
    <3>2. Lab(g, c).inv < l.inv /\ l.inv \in Nat
      BY <2>4, <3>1, InvocationCount
    <3>3. Lab(g, c).inv \in Nat
      BY DEF FunStarts, LibOk, LibLabel
    <3> QED BY <3>2, <3>3
  <2> QED BY <2>1, <2>2, <2>3, <2>4
<1> QED BY <1>3, <1>4 DEF CallsOk

-----------------------------------------------------------------------------
(* What the operations on graphs preserve *)

\* What is asked of a label that is about to be added.
Addable(p, t, new) ==
  /\ IsLabel(new) /\ LibLabel(p, t, new) /\ (new.op = "R" => new.rf = Init0)

\* The label accesses what the one it was computed from accesses.
SameAccess(l, new) ==
  /\ l.op = new.op
  /\ new.op = "R" => l.loc = new.loc
  /\ new.op = "W" => l.loc = new.loc /\ l.rmw = new.rmw

\* Adding a label of the program keeps calls identified: a start takes a
\* number no other call has, any other label inherits its call.
LEMMA AddedLabel ==
  ASSUME NEW g, GraphOk(g, {}), NEW p, LibOk(p, g), CallsOk(g),
         NEW t \in Threads, NEW new, Addable(p, t, new)
  PROVE  LET h == AddLabel(g, t, new)
             n == NextEvent(g, t)
         IN /\ GraphOk(h, IF new.op = "W" THEN {n} ELSE {}) /\ LibOk(p, h) /\ CallsOk(h)
            /\ new.op = "R" => GraphOkBut(h, n)
            /\ Events(h) = Events(g) \cup {n} /\ SameAccess(Lab(h, n), new)
            /\ \A e \in Events(g) : Lab(h, e) = Lab(g, e)
<1> DEFINE h == AddLabel(g, t, new)
           n == NextEvent(g, t)
           lab == updateLabelViews(g, n, new)
           l == [lab EXCEPT !.stamp = g.stamp]
           F == {"method", "inv", "hb", "porf", "com", "so", "msg"}
<1>0. h = addLabel(g, t, lab)
  BY DEF AddLabel
<1>1. {"op", "method", "inv", "hb", "porf", "stamp", "next", "com", "so"} \subseteq DOMAIN new
  BY DEF Addable, IsLabel, LibLabel
<1>2. /\ Agree(lab, new, F)
      /\ lab.porf = calcBasicPorfView(g, n)
      /\ new.op = "start" => lab.method = new.method /\ lab.inv = getFunInvocationCount(g, new.method)
      /\ new.op # "start" => /\ lab.method = previousEventMethod(g, n)
                             /\ lab.inv = previousEventInvocation(g, n)
  <2>1. new.op = "R" => "rf" \in DOMAIN new /\ new.rf = Init0
    BY DEF Addable, LibLabel
  <2> QED BY <2>1, <1>1, UpdatedLabel
<1> HIDE DEF lab
<1>3. /\ DOMAIN lab = DOMAIN new /\ lab.op = new.op /\ lab.stamp = new.stamp /\ lab.next = new.next
      /\ new.op = "R" => /\ lab.rf = Init0 /\ lab.loc = new.loc /\ lab.rmw = new.rmw
                         /\ lab.rev = new.rev
      /\ new.op = "W" => lab.loc = new.loc /\ lab.rmw = new.rmw
  <2>1. /\ new.op = "R" => {"rf", "rev", "loc", "rmw"} \subseteq DOMAIN new /\ new.rf = Init0
        /\ new.op = "W" => {"loc", "rmw"} \subseteq DOMAIN new
    BY DEF Addable, LibLabel
  <2> QED BY <2>1, <1>1, <1>2 DEF Agree
<1>4. IsGraph(g) /\ LabelsOk(g) /\ PorfOk(g, Events(g)) /\ Len(g.ev[t]) \in Nat
  BY DEF GraphOk, IsGraph, IsSeq
<1>5. n = <<t, Len(g.ev[t]) + 1>> /\ n[1] = t /\ n[2] = Len(g.ev[t]) + 1
  BY DEF NextEvent
<1>6. n[2] = 1 \/ Prev(n) \in Events(g)
  BY <1>4, <1>5, PairInEvents DEF Prev
<1>7. calcBasicPorfView(g, n) \in [Threads -> Nat]
  <2>1. Len(g.ev[t]) + 1 = 1 \/ <<t, (Len(g.ev[t]) + 1) - 1>> \in Events(g)
    BY <1>4, <1>5, <1>6 DEF Prev
  <2>2. Len(g.ev[t]) + 1 \in Nat \ {0} /\ Events(g) \in SUBSET Events(g)
    BY <1>4
  <2>3. calcBasicPorfView(g, <<t, Len(g.ev[t]) + 1>>) \in [Threads -> Nat]
    BY <2>1, <2>2, <1>4, BasicPorf
  <2> QED BY <2>3, <1>5
<1>8. IsLabel(lab)
  BY <1>1, <1>2, <1>3, <1>7 DEF Addable, IsLabel
<1>9. GraphOk(h, IF new.op = "W" THEN {n} ELSE {})
  BY <1>0, <1>2, <1>3, <1>8, AddLabelOk
<1>10. /\ Events(h) = Events(g) \cup {n} /\ n \notin Events(g)
       /\ \A e \in Events(g) : Lab(h, e) = Lab(g, e)
       /\ Lab(h, n) = l
  BY <1>0, <1>4, <1>8, AddLabelShape DEF IsLabel
<1>11. /\ DOMAIN l = DOMAIN new /\ l.op = new.op /\ l.next = new.next
       /\ l.method = lab.method /\ l.inv = lab.inv
       /\ new.op = "R" => l.rf = Init0 /\ l.loc = new.loc /\ l.rmw = new.rmw
       /\ new.op = "W" => l.loc = new.loc /\ l.rmw = new.rmw
  <2>1. /\ new.op = "R" => {"rf", "rev", "loc", "rmw"} \subseteq DOMAIN new
        /\ new.op = "W" => {"loc", "rmw"} \subseteq DOMAIN new
    BY DEF Addable, LibLabel
  <2> QED BY <2>1, <1>1, <1>3
<1> HIDE DEF l, h, n
<1>12. l.inv \in Nat
  <2>1. CASE new.op = "start"
    BY <2>1, <1>2, <1>4, <1>11, InvocationCount
  <2>2. CASE new.op # "start"
    <3>1. l.inv = previousEventInvocation(g, n)
      BY <2>2, <1>2, <1>11
    <3>2. Prev(n) \in Events(g) => Lab(g, Prev(n)).inv \in Nat
      BY DEF LibOk, LibLabel
    <3> QED BY <3>1, <3>2, <1>6 DEF previousEventInvocation
  <2> QED BY <2>1, <2>2
<1>13. LibOk(p, h)
  <2>1. LibLabel(p, t, l)
    BY <1>11, <1>12 DEF Addable, LibLabel
  <2> QED BY <2>1, <1>5, <1>10 DEF LibOk
<1>14. CallsOk(h)
  <2>1. l.op = "start" => l.inv = getFunInvocationCount(g, l.method)
    BY <1>2, <1>11
  <2>2. l.op # "start" => l.method = previousEventMethod(g, n) /\ l.inv = previousEventInvocation(g, n)
    BY <1>2, <1>11
  <2>3. n = NextEvent(g, t)
    BY DEF n
  <2> QED BY <2>1, <2>2, <2>3, <1>4, <1>10, CallsAdded
<1>15. new.op = "R" => GraphOkBut(h, n)
  <2> SUFFICES ASSUME new.op = "R" PROVE GraphOkBut(h, n)
    OBVIOUS
  <2>1. GraphOk(addLabel(g, t, lab), {})
    BY <1>0, <1>9
  <2> QED BY <2>1, <1>0, <1>3, <1>8, NewReadOk DEF n
<1>16. SameAccess(Lab(h, n), new)
  BY <1>10, <1>11 DEF SameAccess
<1> QED BY <1>9, <1>10, <1>13, <1>14, <1>15, <1>16 DEF h, n

\* Labels with the same fields, wherever they are in a part of the graph.
LEMMA LibKept ==
  ASSUME NEW g, NEW k, NEW p, LibOk(p, g), CallsOk(g), IsGraph(k), Events(k) \subseteq Events(g),
         NEW F, F \cap {"op", "method", "inv", "com", "so", "next", "rmw", "loc"} = {},
         \A e \in Events(k) : Agree(Lab(k, e), Lab(g, e), F)
  PROVE  LibOk(p, k) /\ CallsOk(k)
<1>1. ASSUME NEW e \in Events(k)
      PROVE  /\ Lab(k, e).op = Lab(g, e).op /\ Lab(k, e).method = Lab(g, e).method
             /\ Lab(k, e).inv = Lab(g, e).inv /\ LibLabel(p, e[1], Lab(k, e))
  <2>1. LibLabel(p, e[1], Lab(g, e)) /\ Agree(Lab(k, e), Lab(g, e), F)
    BY DEF LibOk
  <2>2. /\ Lab(k, e).op = Lab(g, e).op /\ Lab(k, e).method = Lab(g, e).method
        /\ Lab(k, e).inv = Lab(g, e).inv /\ Lab(k, e).next = Lab(g, e).next
        /\ DOMAIN Lab(k, e) = DOMAIN Lab(g, e)
    BY <2>1 DEF LibLabel, Agree
  <2>3. Lab(g, e).op = "R" => Lab(k, e).loc = Lab(g, e).loc /\ Lab(k, e).rmw = Lab(g, e).rmw
    BY <2>1 DEF LibLabel, Agree
  <2> QED BY <2>1, <2>2, <2>3 DEF LibLabel
<1> QED BY <1>1, CallsKept DEF LibOk

\* A read of a graph that was cut, copied or extended is given a store.
LEMMA GivenStore ==
  ASSUME NEW k, NEW r, GraphOkBut(k, r), NEW p, LibOk(p, k), CallsOk(k), NEW w,
         w = Init0 \/ (w \in Writes(k) /\ Lab(k, w).loc = Lab(k, r).loc)
  PROVE  LET h == changeRfAndCOM(k, r, w)
         IN GraphOk(h, {}) /\ LibOk(p, h) /\ CallsOk(h)
<1> DEFINE h == changeRfAndCOM(k, r, w)
           a == Lab(k, r)
           l == calcReadCOM(k, r, calcReadViews(k, r, [a EXCEPT !.rf = w]))
           F == {"rf", "hb", "porf", "com", "so"}
<1>1. /\ IsGraph(k) /\ LabelsOk(k) /\ r \in Events(k) /\ a.op = "R" /\ IsLabel(a) /\ PorfOk(k, Events(k) \ {r})
  BY DEF GraphOkBut, Reads, LabelsOk
<1>2. LibLabel(p, r[1], a)
  BY <1>1 DEF LibOk
<1>3. w # Init0 => w \in Events(k) /\ w # Bottom /\ Lab(k, w).porf \in [Threads -> Nat]
  <2>1. w # Init0 => w \in Events(k) /\ w[1] \in Threads
    BY InEvents DEF Writes
  <2>2. \A t \in Threads : t # -1
    BY NumThreadsAssumption DEF Threads
  <2> QED BY <2>1, <2>2, <1>1 DEF Bottom, LabelsOk, IsLabel
<1>4. w # Bottom
  BY <1>3 DEF Init0, Bottom
<1>5. /\ Agree(l, a, F) /\ l.rf = w
      /\ l.porf = IF w = Init0 THEN calcBasicPorfView(k, r)
                  ELSE Update(calcBasicPorfView(k, r), Lab(k, w).porf)
  BY <1>1, <1>2, <1>4, ChangedLabel DEF LibLabel
<1>6. h = [k EXCEPT !.ev[r[1]][r[2]] = l]
  BY DEF changeRfAndCOM
<1> HIDE DEF l, h
<1>7. /\ DOMAIN l = DOMAIN a /\ l.op = a.op /\ l.stamp = a.stamp /\ l.loc = a.loc /\ l.rev = a.rev
  BY <1>1, <1>5 DEF IsLabel, Agree
<1>8. l.porf \in [Threads -> Nat]
  <2>1. calcBasicPorfView(k, r) \in [Threads -> Nat]
    <3>1. r = <<r[1], r[2]>> /\ r[1] \in Threads /\ r[2] \in 1 .. Len(k.ev[r[1]])
      BY <1>1, InEvents
    <3>2. Len(k.ev[r[1]]) \in Nat
      BY <3>1, <1>1 DEF IsGraph, IsSeq
    <3>3. r[2] = 1 \/ <<r[1], r[2] - 1>> \in Events(k) \ {r}
      <4>1. r[2] # 1 => <<r[1], r[2] - 1>> \in Events(k)
        BY <3>1, <3>2, PairInEvents
      <4>2. <<r[1], r[2] - 1>> # r
        BY <3>1
      <4> QED BY <4>1, <4>2
    <3>4. Events(k) \ {r} \in SUBSET Events(k) /\ r[2] \in Nat \ {0}
      BY <3>1, <3>2
    <3>5. calcBasicPorfView(k, <<r[1], r[2]>>) \in [Threads -> Nat]
      BY <3>1, <3>3, <3>4, <1>1, BasicPorf
    <3> QED BY <3>1, <3>5
  <2>2. CASE w = Init0
    BY <2>1, <2>2, <1>5
  <2>3. CASE w # Init0
    <3>1. \A x, y \in [Threads -> Nat] : Update(x, y) \in [Threads -> Nat]
      BY DEF Update
    <3> QED BY <2>1, <2>3, <3>1, <1>3, <1>5
  <2> QED BY <2>2, <2>3
<1>9. IsLabel(l)
  BY <1>1, <1>7, <1>8 DEF IsLabel
<1>10. ReadsFrom(k, r, w, l)
  BY <1>1, <1>5, <1>7, <1>9 DEF ReadsFrom
<1>11. GraphOk(h, {})
  BY <1>6, <1>10, ReadsFromOk
<1>12. /\ IsGraph(h) /\ Events(h) = Events(k) /\ Lab(h, r) = l
       /\ \A e \in Events(k) \ {r} : Lab(h, e) = Lab(k, e)
  BY <1>6, <1>10, <1>11, ReadsFromOk DEF GraphOk
<1>13. LibOk(p, h) /\ CallsOk(h)
  <2>1. \A e \in Events(h) : /\ Lab(h, e).op = Lab(k, e).op /\ Lab(h, e).method = Lab(k, e).method
                             /\ Lab(h, e).inv = Lab(k, e).inv /\ LibLabel(p, e[1], Lab(h, e))
    <3> TAKE e \in Events(h)
    <3>1. CASE e = r
      <4>1. l.op = a.op /\ l.method = a.method /\ l.inv = a.inv /\ l.next = a.next /\ l.rmw = a.rmw
        BY <1>1, <1>2, <1>5 DEF LibLabel, Agree
      <4> QED BY <3>1, <4>1, <1>2, <1>7, <1>12 DEF LibLabel
    <3>2. CASE e # r
      BY <3>2, <1>12 DEF LibOk
    <3> QED BY <3>1, <3>2
  <2>2. LibOk(p, h)
    BY <2>1 DEF LibOk
  <2> QED BY <2>1, <2>2, <1>12, CallsKept
<1> QED BY <1>11, <1>13 DEF h

-----------------------------------------------------------------------------
(* The program *)

\* The labels that a visit builds may be added: starts and ends,
LEMMA NewLabelOk ==
  ASSUME NEW p, NEW t, NEW op \in {"start", "end"}, NEW fn, NEW next \in Nat \ {0}
  PROVE  Addable(p, t, NewLabel(op, fn, next)) /\ NewLabel(op, fn, next).op = op
<1>1. ZeroView \in [Threads -> Nat]
  BY DEF ZeroView
<1> HIDE DEF ZeroView
<1> QED BY <1>1 DEF NewLabel, Addable, IsLabel, LibLabel

\* reads,
LEMMA NewReadLabelOk ==
  ASSUME NEW p, NEW t, NEW loc \in Locs, NEW ins, NEW i \in 1 .. Len(p[t]), Len(p[t]) \in Nat,
         ins.rmw = "cas" => p[t][i].loc = loc, NEW next, next = i + 1
  PROVE  LET new == NewRead(loc, ins, next)
         IN Addable(p, t, new)
<1> DEFINE new == NewRead(loc, ins, next)
<1>1. ZeroView \in [Threads -> Nat]
  BY DEF ZeroView
<1>2. /\ DOMAIN new = {"op", "rmw", "loc", "acq", "na", "rf", "rev", "max", "next", "method",
                       "inv", "com", "so", "stamp", "hb", "porf"}
      /\ new.op = "R" /\ new.rmw = ins.rmw /\ new.loc = loc /\ new.rf = Init0 /\ new.next = i + 1
      /\ new.inv = 0 /\ new.stamp = 0 /\ new.porf = ZeroView
  BY DEF NewRead
<1> HIDE DEF new
<1>3. i \in Nat /\ i + 1 \in Nat \ {0} /\ (i + 1) - 1 = i
  OBVIOUS
<1>4. IsLabel(new)
  BY <1>1, <1>2 DEF IsLabel
<1>5. LibLabel(p, t, new)
  BY <1>2, <1>3 DEF LibLabel
<1> QED BY <1>2, <1>4, <1>5 DEF Addable, new

\* and stores.
LEMMA NewWriteOk ==
  ASSUME NEW p, NEW t, NEW rmw, NEW ins, NEW val, NEW next \in Nat \ {0}
  PROVE  LET new == NewWrite(rmw, ins, val, next)
         IN Addable(p, t, new) /\ new.op = "W" /\ new.loc = ins.loc /\ new.rmw = rmw
<1> DEFINE new == NewWrite(rmw, ins, val, next)
<1>1. ZeroView \in [Threads -> Nat]
  BY DEF ZeroView
<1>2. /\ DOMAIN new = {"op", "rmw", "loc", "rel", "na", "val", "max", "next", "method",
                       "inv", "com", "so", "stamp", "hb", "porf", "msg"}
      /\ new.op = "W" /\ new.rmw = rmw /\ new.loc = ins.loc /\ new.next = next
      /\ new.inv = 0 /\ new.stamp = 0 /\ new.porf = ZeroView
  BY DEF NewWrite
<1> HIDE DEF new
<1>3. IsLabel(new)
  BY <1>1, <1>2 DEF IsLabel
<1>4. LibLabel(p, t, new)
  BY <1>2 DEF LibLabel
<1> QED BY <1>2, <1>3, <1>4 DEF Addable, new

\* The instruction that a thread is at.
LEMMA NextInstruction ==
  ASSUME LibraryInv, NEW t \in Threads
  PROVE  /\ At(graph, t) \in Nat \ {0} /\ Len(prog[t]) \in Nat
         /\ HasNext(graph, t) =>
              /\ At(graph, t) \in 1 .. Len(prog[t])
              /\ Ins(t).op \in {"R", "W"} => Ins(t).loc \in Locs
              /\ Ins(t).op = "deref" => Ins(t).rmw # "cas"
<1>0. /\ DOMAIN prog[t] = 1 .. Len(prog[t]) /\ Len(prog[t]) \in Nat
      /\ \A i \in DOMAIN prog[t] : /\ prog[t][i].op \in {"R", "W"} => prog[t][i].loc \in Locs
                                   /\ prog[t][i].op = "deref" => prog[t][i].rmw # "cas"
  BY ConfigurationsAssumption DEF LibraryInv, prog
<1>1. Len(graph.ev[t]) \in Nat /\ IsSeq(graph.ev[t])
  BY DEF LibraryInv, GraphOk, IsGraph, IsSeq
<1>2. PC(graph, t) \in Nat \ {0}
  <2>1. CASE graph.ev[t] = <<>>
    BY <2>1 DEF PC
  <2>2. CASE graph.ev[t] # <<>>
    <3>1. Len(graph.ev[t]) # 0
      BY <2>2, <1>1 DEF IsSeq
    <3>2. LastOf(graph, t) \in Events(graph)
      BY <3>1, <1>1, PairInEvents DEF LastOf
    <3>3. Lab(graph, LastOf(graph, t)).next \in Nat \ {0}
      BY <3>2 DEF LibraryInv, LibOk, LibLabel
    <3> QED BY <2>2, <3>3 DEF PC
  <2> QED BY <2>1, <2>2
<1>3. At(graph, t) \in Nat \ {0}
  <2>1. At(graph, t) = PC(graph, t) \/ At(graph, t) = PC(graph, t) + 1
    BY DEF At
  <2> QED BY <2>1, <1>2
<1>4. ASSUME HasNext(graph, t)
      PROVE  /\ At(graph, t) \in 1 .. Len(prog[t])
             /\ Ins(t).op \in {"R", "W"} => Ins(t).loc \in Locs
             /\ Ins(t).op = "deref" => Ins(t).rmw # "cas"
  <2>1. At(graph, t) \in 1 .. Len(prog[t])
    BY <1>0, <1>3, <1>4 DEF HasNext
  <2> QED BY <2>1, <1>0 DEF Ins
<1> QED BY <1>0, <1>3, <1>4

\* Only threads are scheduled.
LEMMA ScheduledThreads == Scheduled(graph) \subseteq Threads
<1>1. Storing(graph) \subseteq Threads /\ Schedulable(graph) \subseteq Threads
  BY DEF Storing, Schedulable
<1>2. ASSUME NEW S \in SUBSET Threads, S # {} PROVE MinOf(S) \in Threads
  <2>1. S \in SUBSET Nat
    BY NumThreadsAssumption DEF Threads
  <2>2. \E x \in S : \A y \in S : x <= y
    BY <2>1, <1>2, LeastNat
  <2>3. MinOf(S) \in S
    BY <2>2 DEF MinOf
  <2> QED BY <2>3
<1> DEFINE writers == {t \in Schedulable(graph) : prog[t][At(graph, t)].op \notin {"R", "deref"}}
           S == IF conf.policy = "wf" /\ writers # {} THEN writers ELSE Schedulable(graph)
<1>3. writers \subseteq Threads
  BY <1>1
<1>4. Scheduled(graph) = IF Storing(graph) # {} THEN Storing(graph)
        ELSE IF conf.policy = "random" \/ Schedulable(graph) = {} THEN Schedulable(graph)
        ELSE {MinOf(S)}
  BY DEF Scheduled
<1> HIDE DEF writers
<1>5. Schedulable(graph) # {} => S \in SUBSET Threads /\ S # {}
  BY <1>1, <1>3
<1> HIDE DEF S
<1>6. CASE Storing(graph) # {}
  BY <1>1, <1>4, <1>6
<1>7. CASE Storing(graph) = {} /\ (conf.policy = "random" \/ Schedulable(graph) = {})
  BY <1>1, <1>4, <1>7
<1>8. CASE Storing(graph) = {} /\ ~(conf.policy = "random" \/ Schedulable(graph) = {})
  <2>1. MinOf(S) \in Threads
    BY <1>2, <1>5, <1>8
  <2> QED BY <2>1, <1>4, <1>8
<1> QED BY <1>6, <1>7, <1>8

-----------------------------------------------------------------------------
(* The steps *)

\* What each step has to establish of the graph it leaves.
GoodGraph(p, g) == GraphOk(g, {}) /\ LibOk(p, g) /\ CallsOk(g)

\* The graph before the first step.
LEMMA StartGraph ==
  ASSUME NEW p
  PROVE  GoodGraph(p, EmptyGraph)
<1>1. \A t \in Threads : 1 .. Len(EmptyGraph.ev[t]) = {}
  <2>1. Len(<<>>) = 0
    OBVIOUS
  <2> QED BY <2>1 DEF EmptyGraph
<1>2. Events(EmptyGraph) = {}
  BY <1>1 DEF Events
<1> QED BY <1>2, EmptyGraphOk DEF GoodGraph, LibOk, CallsOk, FunStarts

\* A label that is not a store.
LEMMA AddGood ==
  ASSUME NEW p, NEW g, GoodGraph(p, g), NEW t \in Threads, NEW new, Addable(p, t, new), new.op # "W"
  PROVE  GoodGraph(p, AddLabel(g, t, new))
BY AddedLabel DEF GoodGraph

\* A read, before it is given a store to read.
LEMMA AddedRead ==
  ASSUME NEW g, GraphOk(g, {}), NEW p, LibOk(p, g), CallsOk(g),
         NEW t \in Threads, NEW new, Addable(p, t, new), new.op = "R"
  PROVE  LET h == AddLabel(g, t, new)
             n == NextEvent(g, t)
         IN GraphOkBut(h, n) /\ LibOk(p, h) /\ CallsOk(h) /\ SameAccess(Lab(h, n), new)
BY AddedLabel

\* The end of a call keeps the graph good.
LEMMA EndStep ==
  ASSUME LibraryInv, NEW t \in Threads, visitFunctionEnd(t)
  PROVE  GoodGraph(prog, graph')
<1> DEFINE new == NewLabel("end", NoMethod, At(graph, t) + 1)
<1>1. At(graph, t) \in Nat
  BY NextInstruction
<1>2. Addable(prog, t, new) /\ new.op = "end"
  BY <1>1, NewLabelOk
<1>3. graph' = AddLabel(graph, t, new)
  BY DEF visitFunctionEnd
<1> HIDE DEF new
<1>4. GoodGraph(prog, graph)
  BY DEF LibraryInv, GoodGraph
<1> QED BY <1>2, <1>3, <1>4, AddGood

\* So does the start of a call, with the end it adds if the last call was
\* left without one,
LEMMA StartStep ==
  ASSUME LibraryInv, NEW t \in Threads, visitFunctionStart(t)
  PROVE  GoodGraph(prog, graph')
<1> DEFINE old == NewLabel("end", NoMethod, At(graph, t))
           new == NewLabel("start", Ins(t).fn, At(graph, t) + 1)
           g == AddLabel(graph, t, old)
<1>1. At(graph, t) \in Nat \ {0}
  BY NextInstruction
<1>2. Addable(prog, t, old) /\ old.op = "end"
  BY <1>1, NewLabelOk
<1>3. Addable(prog, t, new) /\ new.op = "start"
  BY <1>1, NewLabelOk
<1>4. graph' = AddLabel(g, t, new) \/ graph' = AddLabel(graph, t, new)
  BY DEF visitFunctionStart
<1> HIDE DEF old, new
<1>5. GoodGraph(prog, graph)
  BY DEF LibraryInv, GoodGraph
<1>6. GoodGraph(prog, g)
  BY <1>2, <1>5, AddGood
<1> HIDE DEF g
<1> QED BY <1>3, <1>4, <1>5, <1>6, AddGood

\* a load, which reads any store coherent for it,
LEMMA LoadStep ==
  ASSUME LibraryInv, NEW t \in Threads, visitLoad(t)
  PROVE  GoodGraph(prog, graph')
<1> DEFINE e == NextEvent(graph, t)
           loc == IF Ins(t).op = "R" THEN Ins(t).loc ELSE ReadVal(graph, LastOf(graph, t))
           new == NewRead(loc, Ins(t), At(graph, t) + 1)
           g == AddLabel(graph, t, new)
           stores == getCoherentStores(g, loc, e)
<1>1. HasNext(graph, t) /\ Ins(t).op \in {"R", "deref"} /\ loc \in Locs
  BY DEF visitLoad
<1>2. \E i \in 1 .. Len(stores) : graph' = changeRfAndCOM(g, e, stores[i])
  BY DEF visitLoad
<1>3. /\ At(graph, t) \in 1 .. Len(prog[t]) /\ Len(prog[t]) \in Nat
      /\ Ins(t).rmw = "cas" => prog[t][At(graph, t)].loc = loc
  BY <1>1, NextInstruction DEF Ins
<1> HIDE DEF loc, e
<1>4. Addable(prog, t, new) /\ new.op = "R" /\ new.loc = loc
  <2> DEFINE i == At(graph, t)
             ins == Ins(t)
  <2>1. /\ loc \in Locs /\ i \in 1 .. Len(prog[t]) /\ Len(prog[t]) \in Nat
        /\ ins.rmw = "cas" => prog[t][i].loc = loc
    BY <1>1, <1>3
  <2> DEFINE next == i + 1
  <2>2. next = i + 1
    OBVIOUS
  <2> HIDE DEF i, ins, next
  <2>3. Addable(prog, t, NewRead(loc, ins, next))
    BY <2>1, <2>2, NewReadLabelOk
  <2>4. new.op = "R" /\ new.loc = loc
    BY DEF NewRead
  <2> QED BY <2>3, <2>4 DEF i, ins, next
<1> HIDE DEF new
<1>5. GraphOk(graph, {}) /\ LibOk(prog, graph) /\ CallsOk(graph)
  BY DEF LibraryInv
<1>6. GraphOkBut(g, e) /\ LibOk(prog, g) /\ CallsOk(g) /\ Lab(g, e).loc = loc
  <2>1. GraphOkBut(g, e) /\ LibOk(prog, g) /\ CallsOk(g) /\ SameAccess(Lab(g, e), new)
    BY <1>4, <1>5, AddedRead DEF e
  <2> QED BY <2>1, <1>4 DEF SameAccess
<1> HIDE DEF g
<1>9. PICK i \in 1 .. Len(stores) : graph' = changeRfAndCOM(g, e, stores[i])
  BY <1>2
<1> DEFINE w == stores[i]
<1>7. w = Init0 \/ (w \in Writes(g) /\ Lab(g, w).loc = loc)
  <2>1. IsGraph(g) /\ CoOk(g, {})
    BY <1>6 DEF GraphOkBut
  <2> QED BY <2>1, <1>1, CoherentStoresOk
<1> HIDE DEF stores, w
<1>8. graph' = changeRfAndCOM(g, e, w)
  BY <1>9 DEF w
<1> QED BY <1>6, <1>7, <1>8, GivenStore DEF GoodGraph

\* A store is placed where it may be; what an RMW reads is in coherence.
LEMMA StoreStep ==
  ASSUME LibraryInv, NEW t \in Threads, NEW new, Addable(prog, t, new), new.op = "W", new.loc \in Locs,
         new.rmw # "none" => InCAS(graph, t) /\ Lab(graph, LastOf(graph, t)).loc = new.loc,
         AddStore(t, new)
  PROVE  GoodGraph(prog, graph')
<1> DEFINE e == NextEvent(graph, t)
           g == AddLabel(graph, t, new)
           places == getPossiblePlacings(g, new.loc, e)
<1>1. PICK off \in places[1] .. places[2] : graph' = addStoreToLoc(g, new.loc, e, off)
  BY DEF AddStore
<1>2. GraphOk(graph, {}) /\ LibOk(prog, graph) /\ CallsOk(graph)
  BY DEF LibraryInv
<1>3. /\ GraphOk(g, {e}) /\ LibOk(prog, g) /\ CallsOk(g)
      /\ Lab(g, e).loc = new.loc /\ Lab(g, e).rmw = new.rmw /\ Lab(g, e).op = "W"
      /\ Events(g) = Events(graph) \cup {e}
      /\ \A d \in Events(graph) : Lab(g, d) = Lab(graph, d)
  <2>1. /\ GraphOk(g, {e}) /\ LibOk(prog, g) /\ CallsOk(g) /\ SameAccess(Lab(g, e), new)
        /\ Events(g) = Events(graph) \cup {e}
        /\ \A d \in Events(graph) : Lab(g, d) = Lab(graph, d)
    BY <1>2, AddedLabel
  <2> QED BY <2>1 DEF SameAccess
<1>4. IsGraph(g) /\ CoOk(g, {e}) /\ Len(g.co[new.loc]) \in Nat
  BY <1>3 DEF GraphOk, IsGraph, IsSeq
<1>5. off \in 0 .. Len(g.co[new.loc])
  <2>1. CASE new.rmw = "none"
    <3>1. places = <<splitLocMOBefore(g, new.loc, e), Len(g.co[new.loc])>>
      BY <2>1, <1>3 DEF getPossiblePlacings, isRMWStore
    <3>2. splitLocMOBefore(g, new.loc, e) \in 0 .. Len(g.co[new.loc])
      BY <1>4, SplitRange
    <3>3. off \in splitLocMOBefore(g, new.loc, e) .. Len(g.co[new.loc])
      BY <3>1
    <3> QED BY <3>2, <3>3, <1>4
  <2>2. CASE new.rmw # "none"
    <3> DEFINE r == LastOf(graph, t)
               w == Lab(g, Prev(e)).rf
    <3>1. places = <<getStoreOffset(g, new.loc, w) + 1, getStoreOffset(g, new.loc, w) + 1>>
      BY <2>2, <1>3 DEF getPossiblePlacings, isRMWStore
    <3>2. Len(graph.ev[t]) \in Nat /\ IsSeq(graph.ev[t]) /\ graph.ev[t] # <<>>
      BY <2>2, <1>2 DEF GraphOk, IsGraph, IsSeq, InCAS
    <3>3. Len(graph.ev[t]) # 0
      BY <3>2 DEF IsSeq
    <3>4. Prev(e) = r
      BY <3>2 DEF Prev, NextEvent, LastOf
    <3>5. r \in Events(graph)
      BY <3>2, <3>3, PairInEvents DEF LastOf
    <3>6. e \notin Events(graph)
      BY <3>2, PairInEvents DEF NextEvent
    <3> HIDE DEF r
    <3>7. Lab(graph, r).op = "R" /\ Lab(graph, r).loc = new.loc /\ w = Lab(graph, r).rf
      BY <2>2, <3>4, <3>5, <1>3 DEF InCAS, r
    <3> HIDE DEF w, e, g, places
    <3>8. w # Init0 => w \in Writes(graph) /\ Lab(graph, w).loc = new.loc
      BY <3>5, <3>7, <1>2 DEF GraphOk, RfOk
    <3>9. w # Init0 => w \in Writes(g) \ {e} /\ Lab(g, w).loc = new.loc
      BY <3>6, <3>8, <1>3 DEF Writes
    <3>10. getStoreOffset(g, new.loc, w) + 1 \in 0 .. Len(g.co[new.loc])
      BY <3>9, <1>4, StoreOffset
    <3>11. off \in getStoreOffset(g, new.loc, w) + 1 .. getStoreOffset(g, new.loc, w) + 1
      BY <3>1
    <3> QED BY <3>10, <3>11, <1>4
  <2> QED BY <2>1, <2>2
<1> HIDE DEF g, e, places
<1> DEFINE h == addStoreToLoc(g, new.loc, e, off)
<1>6. GraphOk(h, {}) /\ h.ev = g.ev
  <2>1. e \in Writes(g)
    BY <1>3 DEF Writes
  <2> QED BY <2>1, <1>3, <1>5, PlaceStoreOk
<1> HIDE DEF h
<1>7. Events(h) = Events(g) /\ \A d : Lab(h, d) = Lab(g, d)
  BY <1>6 DEF Events, Lab
<1>8. LibOk(prog, h)
  BY <1>3, <1>7 DEF LibOk
<1>9. CallsOk(h)
  <2>1. IsGraph(h)
    BY <1>6 DEF GraphOk
  <2> QED BY <2>1, <1>3, <1>7, CallsKept
<1> QED BY <1>1, <1>6, <1>8, <1>9 DEF GoodGraph, h

\* a store, of its own or of an RMW,
LEMMA VisitStoreStep ==
  ASSUME LibraryInv, NEW t \in Threads, visitStore(t)
  PROVE  GoodGraph(prog, graph')
<1>1. CASE HasNext(graph, t) /\ Ins(t).op = "W"
             /\ AddStore(t, NewWrite("none", Ins(t), Ins(t).val, At(graph, t) + 1))
  <2> DEFINE new == NewWrite("none", Ins(t), Ins(t).val, At(graph, t) + 1)
  <2>1. At(graph, t) \in Nat /\ Ins(t).loc \in Locs
    BY <1>1, NextInstruction
  <2>2. Addable(prog, t, new) /\ new.op = "W" /\ new.loc = Ins(t).loc /\ new.rmw = "none"
    BY <2>1, NewWriteOk
  <2>3. AddStore(t, new)
    BY <1>1
  <2> HIDE DEF new
  <2> QED BY <2>1, <2>2, <2>3, StoreStep
<1>2. CASE InCAS(graph, t)
             /\ AddStore(t, NewWrite("cas", prog[t][PC(graph, t) - 1], 1, PC(graph, t)))
  <2> DEFINE new == NewWrite("cas", prog[t][PC(graph, t) - 1], 1, PC(graph, t))
             r == LastOf(graph, t)
  <2>1. Len(graph.ev[t]) \in Nat /\ Len(graph.ev[t]) # 0 /\ PC(graph, t) = Lab(graph, r).next
    <3>1. Len(graph.ev[t]) \in Nat /\ IsSeq(graph.ev[t]) /\ graph.ev[t] # <<>>
      BY <1>2 DEF LibraryInv, GraphOk, IsGraph, IsSeq, InCAS
    <3>2. Len(graph.ev[t]) # 0
      BY <3>1 DEF IsSeq
    <3> QED BY <3>1, <3>2 DEF PC
  <2>2. r \in Events(graph) /\ r[1] = t
    BY <2>1, PairInEvents DEF LastOf
  <2>3. /\ Lab(graph, r).loc \in Locs /\ prog[t][PC(graph, t) - 1].loc = Lab(graph, r).loc
        /\ PC(graph, t) \in Nat \ {0}
    BY <2>1, <2>2, <1>2 DEF InCAS, LibraryInv, LibOk, LibLabel
  <2>4. /\ Addable(prog, t, new) /\ new.op = "W" /\ new.loc = prog[t][PC(graph, t) - 1].loc
        /\ new.rmw = "cas"
    BY <2>3, NewWriteOk
  <2>5. AddStore(t, new)
    BY <1>2
  <2> HIDE DEF new
  <2> QED BY <2>3, <2>4, <2>5, <1>2, StoreStep
<1> QED BY <1>1, <1>2 DEF visitStore

\* a read that is changed to read another store it could have read,
LEMMA ForwardStep ==
  ASSUME LibraryInv, NEW r \in Reads(graph), ForwardRevisit(r)
  PROVE  GoodGraph(prog, graph')
<1> DEFINE k == cutToStamp(graph, Lab(graph, r).stamp)
           stores == getCoherentStores(k, Lab(k, r).loc, r)
<1>1. PICK i \in 1 .. Len(stores) : Lab(graph, r).rev /\ graph' = changeRfAndCOM(k, r, stores[i])
  BY DEF ForwardRevisit
<1>2. GraphOk(graph, {}) /\ LibOk(prog, graph) /\ CallsOk(graph) /\ r \in Revisitable(graph)
  BY <1>1 DEF LibraryInv, Revisitable
<1>3. GraphOkBut(k, r) /\ \A e \in Events(k) : e \in Events(graph) /\ Lab(k, e) = Lab(graph, e)
  BY <1>2, CutOk
<1> HIDE DEF k
<1>4. IsGraph(k) /\ CoOk(k, {}) /\ r \in Events(k) /\ Lab(k, r).op = "R"
  BY <1>3 DEF GraphOkBut, Reads
<1>5. LibOk(prog, k) /\ CallsOk(k)
  <2>1. Events(k) \subseteq Events(graph) /\ LibOk(prog, k)
    BY <1>2, <1>3 DEF LibOk
  <2> QED BY <2>1, <1>2, <1>3, <1>4, CallsKept
<1>6. Lab(k, r).loc \in Locs
  BY <1>4, <1>5 DEF LibOk, LibLabel
<1> DEFINE w == stores[i]
<1>7. w = Init0 \/ (w \in Writes(k) /\ Lab(k, w).loc = Lab(k, r).loc)
  BY <1>4, <1>6, CoherentStoresOk
<1> HIDE DEF w, stores
<1>8. graph' = changeRfAndCOM(k, r, w)
  BY <1>1 DEF w
<1> QED BY <1>3, <1>5, <1>7, <1>8, GivenStore DEF GoodGraph

\* and a store that makes an older read read from it.
LEMMA BackwardStep ==
  ASSUME LibraryInv, NEW w \in Writes(graph), BackwardRevisit(w)
  PROVE  GoodGraph(prog, graph')
<1>1. PICK r \in getCoherentRevisits(graph, w) : graph' = changeRfAndCOM(copyGraph(graph, r, w), r, w)
  BY DEF BackwardRevisit
<1>2. r \in getRevisitable(graph, w)
  BY DEF getCoherentRevisits
<1>3. /\ r \in Revisitable(graph) /\ r \in Events(graph) /\ w \in Events(graph)
      /\ Lab(graph, r).op = "R" /\ Lab(graph, w).op = "W"
      /\ Lab(graph, r).loc = Lab(graph, w).loc /\ ~Contains(Lab(graph, w).porf, r)
  BY <1>2 DEF getRevisitable, Revisitable, Reads, Writes
<1>4. GraphOk(graph, {}) /\ LibOk(prog, graph) /\ CallsOk(graph) /\ LabelsOk(graph)
  BY DEF LibraryInv, GraphOk
<1> DEFINE k == copyGraph(graph, r, w)
<1>5. /\ GraphOkBut(k, r) /\ w \in Writes(k) /\ Events(k) \subseteq Events(graph)
      /\ \A e \in Events(k) : SameButStamp(Lab(k, e), Lab(graph, e))
  BY <1>3, <1>4, CopyOk
<1> HIDE DEF k
<1>6. IsGraph(k) /\ r \in Events(k) /\ w \in Events(k)
  BY <1>5 DEF GraphOkBut, Reads, Writes
<1>7. LibOk(prog, k) /\ CallsOk(k)
  <2> DEFINE F == {"stamp", "rev"}
  <2>1. \A e \in Events(k) : Agree(Lab(k, e), Lab(graph, e), F)
    BY <1>5 DEF SameButStamp, Agree
  <2>2. F \cap {"op", "method", "inv", "com", "so", "next", "rmw", "loc"} = {}
    OBVIOUS
  <2> HIDE DEF F
  <2> QED BY <2>1, <2>2, <1>4, <1>5, <1>6, LibKept
<1>8. Lab(k, w).loc = Lab(k, r).loc
  <2>1. IsLabel(Lab(graph, r)) /\ IsLabel(Lab(graph, w))
    BY <1>3, <1>4 DEF LabelsOk
  <2>2. Lab(k, r).loc = Lab(graph, r).loc
    BY <2>1, <1>3, <1>5, <1>6 DEF IsLabel, SameButStamp
  <2>3. Lab(k, w).loc = Lab(graph, w).loc
    BY <2>1, <1>3, <1>5, <1>6 DEF IsLabel, SameButStamp
  <2> QED BY <2>2, <2>3, <1>3
<1>9. graph' = changeRfAndCOM(k, r, w)
  BY <1>1 DEF k
<1> QED BY <1>5, <1>7, <1>8, <1>9, GivenStore DEF GoodGraph

-----------------------------------------------------------------------------
(* Theorems *)

\* The invariant is inductive.
LEMMA LibraryInvariant == Spec => []LibraryInv
<1>1. Init => LibraryInv
  <2> SUFFICES ASSUME Init PROVE LibraryInv
    OBVIOUS
  <2>1. conf \in Configurations /\ graph = EmptyGraph
    BY DEF Init
  <2> QED BY <2>1, StartGraph DEF LibraryInv, GoodGraph
<1>2. LibraryInv /\ [Next]_vars => LibraryInv'
  <2> SUFFICES ASSUME LibraryInv, [Next]_vars PROVE LibraryInv'
    OBVIOUS
  <2>1. SUFFICES conf' = conf /\ GoodGraph(prog, graph')
    BY DEF LibraryInv, GoodGraph, prog
  <2>2. GoodGraph(prog, graph)
    BY DEF LibraryInv, GoodGraph
  <2>3. ASSUME NEW t \in Scheduled(graph), visitFunctionStart(t)
        PROVE  conf' = conf /\ GoodGraph(prog, graph')
    BY <2>3, ScheduledThreads, StartStep DEF visitFunctionStart
  <2>4. ASSUME NEW t \in Scheduled(graph), visitFunctionEnd(t)
        PROVE  conf' = conf /\ GoodGraph(prog, graph')
    BY <2>4, ScheduledThreads, EndStep DEF visitFunctionEnd
  <2>5. ASSUME NEW t \in Scheduled(graph), visitLoad(t)
        PROVE  conf' = conf /\ GoodGraph(prog, graph')
    BY <2>5, ScheduledThreads, LoadStep DEF visitLoad
  <2>6. ASSUME NEW t \in Scheduled(graph), visitStore(t)
        PROVE  conf' = conf /\ GoodGraph(prog, graph')
    BY <2>6, ScheduledThreads, VisitStoreStep DEF visitStore, AddStore
  <2>7. ASSUME NEW r \in Reads(graph), ForwardRevisit(r)
        PROVE  conf' = conf /\ GoodGraph(prog, graph')
    BY <2>7, ForwardStep DEF ForwardRevisit
  <2>8. ASSUME NEW w \in Writes(graph), BackwardRevisit(w)
        PROVE  conf' = conf /\ GoodGraph(prog, graph')
    BY <2>8, BackwardStep DEF BackwardRevisit
  <2>9. CASE UNCHANGED vars
    BY <2>2, <2>9 DEF vars
  <2> QED BY <2>3, <2>4, <2>5, <2>6, <2>7, <2>8, <2>9 DEF Next, Done
<1> QED BY <1>1, <1>2, PTL DEF Spec

\* Every graph that the library layer reaches, by adding labels and by cutting
\* and copying graphs for revisits, is well formed: what
\* ExecutionGraph::validate() asserts and more, for any programs and any number of
\* threads.
THEOREM GraphsAreWellFormed == Spec => []WellFormed(graph)
<1>1. LibraryInv => WellFormed(graph)
  BY GraphOkWellFormed DEF LibraryInv
<1> QED BY <1>1, LibraryInvariant, PTL

\* In all these graphs the pair of a method and an invocation number identifies
\* a call: getFunInvocationCount() never gives out a number that is in use.
THEOREM CallsAreIdentified == Spec => []CallsIdentified
<1>1. LibraryInv => CallsIdentified
  <2> SUFFICES ASSUME LibraryInv, NEW d \in Events(graph), NEW e \in Events(graph),
                      InCall(d), InCall(e), SameCall(d, e)
               PROVE  /\ d[1] = e[1]
                      /\ d[2] < e[2] => \A i \in d[2] + 1 .. e[2] : graph.ev[d[1]][i].op # "start"
    BY DEF CallsIdentified
  <2>1. PICK a \in Events(graph) : StartOf(graph, a, d)
    BY DEF LibraryInv, CallsOk, InCall
  <2>2. PICK b \in Events(graph) : StartOf(graph, b, e)
    BY DEF LibraryInv, CallsOk, InCall
  <2>3. a = b
    <3>1. FunctionEvent(Lab(graph, a)) = FunctionEvent(Lab(graph, b))
      BY <2>1, <2>2 DEF StartOf, SameCall
    <3>2. Lab(graph, b).method # NoMethod
      BY <2>2 DEF StartOf, InCall, FunctionEvent
    <3>3. a \in FunStarts(graph) /\ b \in FunStarts(graph)
      BY <2>1, <2>2 DEF StartOf, FunStarts
    <3> QED BY <3>1, <3>2, <3>3 DEF LibraryInv, CallsOk
  <2>4. d[1] = e[1] /\ a[2] <= d[2]
    BY <2>1, <2>2, <2>3 DEF StartOf
  <2>5. ASSUME d[2] < e[2], NEW i \in d[2] + 1 .. e[2]
        PROVE  graph.ev[d[1]][i].op # "start"
    <3>1. /\ e[1] \in Threads /\ e[2] \in 1 .. Len(graph.ev[e[1]])
          /\ d[2] \in 1 .. Len(graph.ev[d[1]]) /\ a[2] \in 1 .. Len(graph.ev[a[1]])
      BY InEvents
    <3>2. Len(graph.ev[e[1]]) \in Nat
      BY <3>1 DEF LibraryInv, GraphOk, IsGraph, IsSeq
    <3>3. i \in 1 .. Len(graph.ev[e[1]]) /\ a[2] < i /\ i <= e[2]
      BY <2>4, <3>1, <3>2
    <3> DEFINE c == <<e[1], i>>
    <3>4. c \in Events(graph) /\ Lab(graph, c) = graph.ev[e[1]][i] /\ c[1] = e[1] /\ c[2] = i
      BY <3>1, <3>3, PairInEvents
    <3> HIDE DEF c
    <3> QED BY <2>2, <2>3, <2>4, <3>3, <3>4 DEF StartOf
  <2> QED BY <2>4, <2>5
<1> QED BY <1>1, LibraryInvariant, PTL
=============================================================================
