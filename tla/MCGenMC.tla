------------------------------- MODULE MCGenMC -------------------------------
(* The exploration, instantiated for TLC on families of small programs. *)
EXTENDS Exploration

Instr(op, rmw, loc, val, expected, ord) ==
  [op |-> op, rmw |-> rmw, loc |-> loc, val |-> val, expected |-> expected,
   ord |-> ord, acq |-> isAtLeastAcquire(ord), rel |-> isAtLeastRelease(ord)]

Ro(o, l)    == Instr("R", "none", l, 0, 0, o)
Wo(o, l, v) == Instr("W", "none", l, v, 0, o)
Fo(o)       == Instr("F", "none", "none", 0, 0, o)
R(l)    == Ro("rlx", l)
W(l, v) == Wo("rlx", l, v)
Racq(l) == Ro("acq", l)
Wrel(l, v) == Wo("rel", l, v)
Fai(l)  == Instr("R", "fai", l, 1, 0, "rlx")
FaiAcqRel(l) == Instr("R", "fai", l, 1, 0, "ar")
Cas(l, old, new) == Instr("R", "cas", l, new, old, "rlx")

\* Two threads of two relaxed instructions on two locations.
TwoByTwo ==
  LET I == {R("x"), R("y"), W("x", 1), W("y", 1), Fai("x"), Cas("x", 0, 2)}
  IN {<<<<a, b>>, <<c, d>>, <<>>>> : a \in I, b \in I, c \in I, d \in I}

\* Three threads of two, one and one instructions on one location.
ThreeThreads ==
  LET I == {R("x"), W("x", 1), Fai("x"), Cas("x", 1, 2)}
  IN {<<<<a, b>>, <<c>>, <<d>>>> : a \in I, b \in I, c \in I, d \in I}

\* Message passing and its variations: a writer, an intermediary, a reader.
Synchronising ==
  {<<<<W("x", 1), a>>, b, <<c, R("x")>>>> :
     a \in {Wrel("y", 1), W("y", 1)},
     b \in {<<>>, <<Fai("y")>>, <<FaiAcqRel("y")>>, <<R("y"), W("x", 2)>>,
            <<Racq("y"), W("x", 2)>>},
     c \in {Racq("y"), R("y"), FaiAcqRel("y")}}

AllFamilies == TwoByTwo \cup ThreeThreads \cup Synchronising

\* Programs in which the order of the steps matters most.
Contended ==
  {<<<<a, b>>, <<c, d>>, <<>>>> :
     a \in {R("x"), W("x", 1), Fai("x")}, b \in {W("x", 2), R("y"), Fai("x")},
     c \in {R("x"), R("y"), W("x", 3), Cas("x", 0, 4)},
     d \in {W("y", 1), W("x", 5), Cas("x", 1, 6)}}

\* Many stores to one location, for which -wb has to find the order.
Ordering ==
  {<<<<a, b>>, <<c, d>>, e>> :
     a \in {W("x", 1), Fai("x")}, b \in {W("x", 2), R("x"), Wrel("y", 1)},
     c \in {W("x", 3), R("x"), Racq("y")}, d \in {W("x", 4), R("x"), Cas("x", 1, 6)},
     e \in {<<W("x", 5)>>, <<R("x"), R("x")>>, <<Fai("x")>>}}

\* Store buffering, message passing and independent reads, with SC accesses
\* and fences.
Sequential ==
  LET Rs(l) == {Ro("sc", l), R(l)}
      Ws(l) == {Wo("sc", l, 1), W(l, 1)}
  IN {<<<<a, f, b>>, <<c, f, d>>, <<>>>> :
        a \in Ws("x"), b \in Rs("y"), c \in Ws("y"), d \in Rs("x"),
        f \in {Fo("sc"), Fo("ar")}}
     \cup {<<<<a, b>>, <<c, d>>, e>> :
        a \in Ws("x"), b \in {Ro("sc", "y"), Instr("R", "fai", "y", 1, 0, "sc")},
        c \in {Wo("sc", "y", 1), Instr("R", "fai", "y", 1, 0, "sc")}, d \in Rs("x"),
        e \in {<<>>, <<Ro("sc", "y"), Ro("sc", "x")>>, <<Wo("sc", "x", 2)>>}}

\* A store that psc forbids to go where hb allows it revisits a read.
Misplaced ==
  {<<<<Wo("sc", "x", 1), Ro("sc", "y")>>, <<a>>, <<Wo("sc", "y", 1), Wo("sc", "x", 2)>>>> :
     a \in {R("x"), Ro("sc", "x"), Fai("x")}}

Options(P, policy, room, coherence, point, type) ==
  {[code |-> p, policy |-> policy, room |-> room, coherence |-> coherence,
    point |-> point, type |-> type] : p \in P}

AllConfigs ==
  Options(AllFamilies, "wf", 0, "mo", "error", "slow")
    \cup Options(Contended, "random", 2, "mo", "error", "slow")
    \cup Options(Ordering, "wf", 0, "wb", "error", "slow")
    \cup Options(Sequential, "wf", 0, "mo", "exec", "full")
    \cup Options(Sequential, "wf", 0, "mo", "step", "full")
    \cup Options(Misplaced, "ltr", 0, "mo", "step", "full")
    \cup Options(Sequential, "wf", 0, "wb", "exec", "full")
=============================================================================
