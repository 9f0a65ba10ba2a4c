--------------------------- MODULE RC11Executions ---------------------------
(***************************************************************************)
(* The reference: the executions of a program that the RC11 memory model   *)
(* allows, stated axiomatically and without any exploration.  An execution *)
(* chooses for each CAS whether it succeeds, for each read the store it    *)
(* reads from, and for each location an order of its stores, such that     *)
(*   - po and rf together are acyclic,                                     *)
(*   - hb never contradicts the order of the accesses to a location,       *)
(*   - the store of an RMW comes right after the store its read reads,     *)
(*   - the partial order of SC accesses and fences, psc, is acyclic.       *)
(* The last is stated apart from the others.  Events are named             *)
(* <<thread, index>> as in ExecutionGraph.                                 *)
(***************************************************************************)
EXTENDS ExecutionGraph

\* The labels of one instruction, given whether it succeeds if it is a CAS.
LabelsOf(ins, ok) ==
  LET rd == [op |-> "R", ins |-> ins]
      wr == [op |-> "W", ins |-> ins]
  IN CASE ins.op = "W" -> <<wr>>
       [] ins.op = "F" -> <<[op |-> "F", ins |-> ins]>>
       [] ins.rmw = "none" -> <<rd>>
       [] ins.rmw = "fai" -> <<rd, wr>>
       [] ins.rmw = "cas" -> IF ok THEN <<rd, wr>> ELSE <<rd>>

\* The labels of a thread; ok[i] says whether its i-th instruction succeeds.
Unfold(code, ok) ==
  LET f[n \in 0 .. Len(code)] ==
        IF n = 0 THEN <<>> ELSE f[n - 1] \o LabelsOf(code[n], ok[n])
  IN f[Len(code)]

CasAt(p) == UNION {{<<t, i>> : i \in {j \in 1 .. Len(p[t]) : p[t][j].rmw = "cas"}}
                     : t \in Threads}

Outcomes(p) == [CasAt(p) -> BOOLEAN]

\* The events of the program when its CASes succeed as ok says.
Skeleton(p, ok) ==
  LET lab == [t \in Threads |->
                Unfold(p[t], [i \in 1 .. Len(p[t]) |->
                   IF <<t, i>> \in DOMAIN ok THEN ok[<<t, i>>] ELSE TRUE])]
      ev  == UNION {{<<t, i>> : i \in 1 .. Len(lab[t])} : t \in Threads}
      OfOp(op) == {e \in ev : lab[e[1]][e[2]].op = op}
  IN [ev |-> ev, rd |-> OfOp("R"), wr |-> OfOp("W"),
      ins |-> [e \in ev |-> lab[e[1]][e[2]].ins]]

-----------------------------------------------------------------------------
(* In the following, k is a skeleton. *)

WrAt(k, l) == {e \in k.wr : k.ins[e].loc = l}
IsRMWStore(k, w) == k.ins[w].op = "R"

\* The reads of the RMWs that succeed.
RMWReads(k) == {r \in k.rd : Succ(r) \in k.wr /\ IsRMWStore(k, Succ(r))}

Po(d, e) == d[1] = e[1] /\ d[2] < e[2]

\* All choices of a store of the right location for each read; two RMWs
\* that succeed never read the same store.
RfChoices(k) ==
  LET cands(r) == {Init0} \cup {w \in WrAt(k, k.ins[r].loc) : ~Po(r, w)}
      maps[S \in SUBSET k.rd] ==
        IF S = {} THEN {[r \in {} |-> Init0]}
        ELSE LET r == CHOOSE r \in S : TRUE
             IN UNION {{[q \in S |-> IF q = r THEN w ELSE f[q]]
                          : w \in cands(r)} : f \in maps[S \ {r}]}
  IN {f \in maps[k.rd] :
        \A q, r \in RMWReads(k) :
          q # r /\ k.ins[q].loc = k.ins[r].loc => f[q] # f[r]}

PorfOf(k, rf) ==
  TransClosure(k.ev, {p \in k.ev \X k.ev :
                  Po(p[1], p[2]) \/ (p[2] \in k.rd /\ rf[p[2]] = p[1])})

NoThinAir(k, rf) ==
  \A porf \in {PorfOf(k, rf)} : \A e \in k.ev : <<e, e>> \notin porf

\* The value a store writes, following at most n RMWs backwards.
ValueOf(k, rf) ==
  LET v[n \in 0 .. Cardinality(k.wr)] ==
        [w \in k.wr \cup {Init0} |->
           IF w = Init0 \/ n = 0 THEN 0
           ELSE IF k.ins[w].rmw = "fai"
                THEN v[n - 1][rf[Prev(w)]] + k.ins[w].val
                ELSE k.ins[w].val]
  IN v[Cardinality(k.wr)]

\* Each CAS succeeds in the skeleton exactly if it reads what it expects.
OutcomesMatch(k, rf) ==
  LET val == ValueOf(k, rf)
  IN \A r \in k.rd :
       k.ins[r].rmw = "cas" =>
         (r \in RMWReads(k) <=> val[rf[r]] = k.ins[r].expected)

\* Release sequences: from store w through later stores of its thread to the
\* same location, then through chains of RMWs.
RelSeq(k, rf) ==
  LET chain == TransClosure(k.wr, {p \in k.wr \X k.wr :
                               IsRMWStore(k, p[2]) /\ rf[Prev(p[2])] = p[1]})
      Starts(w, v) == k.ins[v].loc = k.ins[w].loc /\ (v = w \/ Po(w, v))
  IN {p \in k.wr \X k.wr :
        \E v \in k.wr : Starts(p[1], v) /\ (v = p[2] \/ <<v, p[2]>> \in chain)}

\* The release that a store, or an earlier fence, performs synchronizes with
\* the acquire that a read, or a later fence, performs.
HbOf(k, rf) ==
  LET fences == k.ev \ (k.rd \cup k.wr)
      Rel(w) == {e \in {w} \cup {f \in fences : Po(f, w)} : k.ins[e].rel}
      Acq(r) == {e \in {r} \cup {f \in fences : Po(r, f)} : k.ins[e].acq}
      obs == UNION {{p \in k.wr \X k.rd : <<p[1], rf[p[2]]>> \in rs} : rs \in {RelSeq(k, rf)}}
      sw  == UNION {Rel(p[1]) \X Acq(p[2]) : p \in obs}
  IN TransClosure(k.ev, {p \in k.ev \X k.ev : Po(p[1], p[2])} \cup sw)

\* All total orders of a set, as sequences.
Orders(S) == {s \in [1 .. Cardinality(S) -> S] :
                \A i, j \in DOMAIN s : i # j => s[i] # s[j]}

\* Order s of the stores of location l agrees with hb and with atomicity.
Coherent(k, rf, hb, l, s) ==
  LET at == {e \in k.ev : k.ins[e].loc = l}
      RankOf(w) == IF w = Init0 THEN 0 ELSE CHOOSE i \in DOMAIN s : s[i] = w
      \* The place of an access: a read is placed with the store it reads.
      rk == [e \in at |-> RankOf(IF e \in k.rd THEN rf[e] ELSE e)]
      \* d is before e in the extended coherence order.
      Eco(d, e) == IF d \in k.wr /\ e \in k.rd
                   THEN rk[d] <= rk[e] ELSE rk[d] < rk[e]
  IN /\ \A w \in at \cap k.wr : IsRMWStore(k, w) => rk[w] = rk[Prev(w)] + 1
     /\ \A d, e \in at : <<d, e>> \in hb => ~Eco(e, d)

\* The coherence orders that make an execution with these reads consistent.
CoChoices(k, rf) ==
  UNION {LET at == [l \in Locs |->
                      {s \in Orders(WrAt(k, l)) : Coherent(k, rf, hb, l, s)}]
         IN {c \in [Locs -> UNION {at[l] : l \in Locs}] : \A l \in Locs : c[l] \in at[l]}
         : hb \in {HbOf(k, rf)}}

\* The executions of program p, in the form ExecutionOf gives a graph.
ConsistentExecutions(p) ==
  UNION {LET k   == Skeleton(p, ok)
             rfs == {rf \in RfChoices(k) : NoThinAir(k, rf) /\ OutcomesMatch(k, rf)}
         IN UNION {{[rf |-> rf, co |-> co] : co \in CoChoices(k, rf)} : rf \in rfs}
         : ok \in Outcomes(p)}

-----------------------------------------------------------------------------
(* Sequential consistency *)

Comp(R, Q) == {<<pq[1][1], pq[2][2]>> : pq \in {c \in R \X Q : c[1][2] = c[2][1]}}

\* Events order each other at a location: reads-from, coherence, from-read.
EcoOf(k, x) ==
  LET pos(w)  == IF w = Init0 THEN 0 ELSE CHOOSE i \in DOMAIN x.co[k.ins[w].loc] :
                                            x.co[k.ins[w].loc][i] = w
      rank    == [e \in k.rd \cup k.wr |-> pos(IF e \in k.rd THEN x.rf[e] ELSE e)]
      SameLoc == {p \in (k.rd \cup k.wr) \X (k.rd \cup k.wr) : k.ins[p[1]].loc = k.ins[p[2]].loc}
  IN [rf |-> {p \in SameLoc : p[2] \in k.rd /\ x.rf[p[2]] = p[1]},
      morb |-> {p \in SameLoc : p[2] \in k.wr /\ rank[p[1]] < rank[p[2]]}]

\* psc(hb, scb, eco): psc_base and psc_fence of RC11, where Esc are the SC
\* events and Fsc the fences among them.
PscOf(ev, Esc, Fsc, hb, scb, eco) ==
  LET id    == {<<e, e>> : e \in ev}
      left  == {p \in id \cup hb : p[1] \in Fsc \/ (p[1] = p[2] /\ p[1] \in Esc)}
      right == {p \in id \cup hb : p[2] \in Fsc \/ (p[1] = p[2] /\ p[2] \in Esc)}
      fence == (hb \cup Comp(hb, Comp(eco, hb))) \cap (Fsc \X Fsc)
  IN Comp(left, Comp(scb, right)) \cup fence

PscAcyclic(k, x) ==
  LET sb   == {p \in k.ev \X k.ev : Po(p[1], p[2])}
      SameLoc(p) == {p[1], p[2]} \subseteq k.rd \cup k.wr /\ k.ins[p[1]].loc = k.ins[p[2]].loc
      sbl  == {p \in sb : ~SameLoc(p)}
      Esc  == {e \in k.ev : k.ins[e].ord = "sc"}
  IN \E hb \in {HbOf(k, x.rf)} : \E o \in {EcoOf(k, x)} :
     \E scb \in {sb \cup Comp(sbl, Comp(hb, sbl)) \cup o.morb
                   \cup {p \in hb : SameLoc(p)}} :
     \E psc \in {PscOf(k.ev, Esc, Esc \ (k.rd \cup k.wr), hb, scb,
                       TransClosure(k.ev, o.rf \cup o.morb))} :
       \A p \in TransClosure(k.ev, psc) : p[1] # p[2]

\* The consistent executions of p that psc allows.
ScConsistentExecutions(p) ==
  {x \in ConsistentExecutions(p) :
     \A ok \in Outcomes(p) : \A k \in {Skeleton(p, ok)} :
       k.rd = DOMAIN x.rf /\ OutcomesMatch(k, x.rf) => PscAcyclic(k, x)}
=============================================================================
