---------------------------- MODULE MCAlgorithms ----------------------------
(* Small instances of the data structures, and functions of 3-bit integers. *)
EXTENDS Algorithms

AllEvents == {1, 2} \X (1 .. 4)

Words == 0 .. 7

-----------------------------------------------------------------------------
R(r) == [reg |-> r, w |-> 3]
B1(r) == [reg |-> r, w |-> 1]
C(v) == [val |-> v, w |-> 3]

Op(op, dst, args) == [op |-> op, dst |-> dst, w |-> 3, args |-> args]
Cmp(op, dst, args) == [op |-> op, dst |-> dst, w |-> 1, args |-> args]
Load(dst) == Op("Load", dst, <<>>)
Assume(c) == Op("Assume", "", <<B1(c)>>)
Jump(b) == [op |-> "Br", dst |-> "", args |-> <<>>, succs |-> <<b>>]
Branch(c, b, d) == [op |-> "Br", dst |-> "", args |-> <<B1(c)>>, succs |-> <<b, d>>]
Phi(dst, args, from) == [op |-> "Phi", dst |-> dst, w |-> 3, args |-> args, from |-> from]
Switch(o, cases, d) ==
  [op |-> "Switch", dst |-> "", args |-> <<o>>, cases |-> cases, default |-> d]
CAS(dst, cmp, ok) == [op |-> "CAS", dst |-> dst, w |-> 3, args |-> <<cmp>>, ok |-> ok]
Extract(dst, cas, cmp, idx, ok) ==
  [op |-> "Extract", dst |-> dst, w |-> 3, args |-> <<R(cas)>>, cmp |-> cmp, idx |-> idx, ok |-> ok]
Store(local) == [op |-> "Store", dst |-> "", args |-> <<>>, local |-> local]
Fence == Op("Fence", "", <<>>)
Ret == Op("Ret", "", <<>>)

Straight(code) == [blocks |-> code, params |-> {"p"}, loops |-> {}]
Looping(code, h, l, bs, pred) ==
  [blocks |-> code, params |-> {"p"},
   loops |-> {[header |-> h, latch |-> l, blocks |-> bs, pred |-> pred]}]

\* assume(v + p < 5)
Sum == Straight(<< <<Load("v"), Op("Add", "a", <<R("v"), R("p")>>),
                     Cmp("Ult", "c", <<R("a"), C(5)>>), Fence, Assume("c"), Ret>> >>)

\* assume((v == 0 ? v - p : v ^ p) != 2), with a phi
Joined == Straight(<<
  <<Load("v"), Cmp("Eq", "c", <<R("v"), C(0)>>), Branch("c", 2, 3)>>,
  <<Op("Sub", "a", <<R("v"), R("p")>>), Jump(4)>>,
  <<Op("Xor", "b", <<R("v"), R("p")>>), Jump(4)>>,
  <<Phi("x", <<R("a"), R("b")>>, <<2, 3>>), Cmp("Ne", "d", <<R("x"), C(2)>>), Assume("d"), Ret>> >>)

\* assume(f), where f is true over one edge and a comparison over the other
ShortCut == Straight(<<
  <<Load("v"), Cmp("Uge", "c", <<R("v"), R("p")>>), Branch("c", 3, 2)>>,
  <<Cmp("Ne", "e", <<R("v"), C(1)>>), Jump(3)>>,
  <<Phi("f", <<C(1), B1("e")>>, <<1, 2>>), Assume("f"), Ret>> >>)

\* Selections, shifts and extensions
Shifted == Straight(<<
  <<Load("v"), Cmp("Ugt", "c", <<R("v"), R("p")>>), Op("Select", "s", <<B1("c"), R("v"), C(6)>>),
    Op("LShr", "t", <<R("s"), C(1)>>), Op("Shl", "u", <<R("t"), C(2)>>),
    Cmp("Ule", "d", <<R("u"), C(4)>>), Op("ZExt", "e", <<B1("d")>>),
    Cmp("Ne", "g", <<R("e"), C(0)>>), Assume("g"), Ret>> >>)

\* Masks, products and quotients
Masked == Straight(<<
  <<Load("v"), Op("And", "a", <<R("v"), C(6)>>), Op("Or", "b", <<R("a"), R("p")>>),
    Op("Mul", "m", <<R("b"), C(3)>>), Op("UDiv", "q", <<R("m"), C(2)>>),
    Op("BitCast", "r", <<R("q")>>), Cmp("Ult", "c", <<R("r"), R("p")>>), Assume("c"), Ret>> >>)

\* A CAS that has to succeed or to read 3
Swapped == Straight(<<
  <<CAS("k", R("p"), "k.ok"), Extract("x", "k", R("p"), 0, "k.ok"),
    Extract("o", "k", R("p"), 1, "k.ok"), Branch("o", 3, 2)>>,
  <<Cmp("Eq", "c", <<R("x"), C(3)>>), Assume("c"), Jump(3)>>,
  <<Ret>> >>)

\* What is calculated before the load is known at the load.
Known == Straight(<<
  <<Op("AShr", "a", <<R("p"), C(1)>>), Op("SDiv", "b", <<R("a"), C(2)>>),
    Op("SRem", "d", <<R("p"), C(3)>>), Op("URem", "e", <<R("d"), C(5)>>),
    [Op("Trunc", "t", <<R("p")>>) EXCEPT !.w = 1], Op("SExt", "s", <<B1("t")>>),
    [op |-> "GEP", dst |-> "g", w |-> 3, args |-> <<R("s"), R("e")>>, size |-> 2],
    Op("Xor", "x", <<R("g"), R("b")>>),
    Load("v"), Cmp("Eq", "c", <<R("v"), R("x")>>), Assume("c"), Ret>> >>)

\* Two loads
Pair == Straight(<<
  <<Load("v"), Op("Add", "a", <<R("v"), C(1)>>), Load("u"),
    Cmp("Eq", "c", <<R("a"), R("u")>>), Assume("c"), Ret>> >>)

\* A store on one of the paths
Stored == Straight(<<
  <<Load("v"), Cmp("Eq", "c", <<R("v"), C(1)>>), Branch("c", 2, 3)>>,
  <<Store(FALSE), Jump(3)>>,
  <<Cmp("Ugt", "d", <<R("v"), R("p")>>), Assume("d"), Ret>> >>)

\* A switch on one of the paths
Switched == Straight(<<
  <<Load("v"), Cmp("Ult", "c", <<R("v"), R("p")>>), Branch("c", 2, 3)>>,
  <<Switch(R("v"), <<[val |-> 0, succ |-> 3], [val |-> 2, succ |-> 4]>>, 3)>>,
  <<Cmp("Ne", "d", <<R("v"), C(4)>>), Assume("d"), Ret>>,
  <<Ret>> >>)

\* The value is checked in the next iteration.
NextRound == Looping(<<
  <<Jump(2)>>,
  <<Phi("q", <<C(0), R("v")>>, <<1, 3>>), Cmp("Ne", "c", <<R("q"), C(2)>>), Assume("c"), Jump(3)>>,
  <<Load("v"), Cmp("Ugt", "d", <<R("v"), R("p")>>), Branch("d", 4, 2)>>,
  <<Ret>> >>, 2, 3, {2, 3}, 1)

\* while (c) c = (load < 2), with c = 1 at the beginning
Flagged == Looping(<<
  <<Jump(2)>>,
  <<Phi("c", <<C(1), R("e")>>, <<1, 3>>), Cmp("Ne", "n", <<R("c"), C(0)>>), Branch("n", 3, 4)>>,
  <<Load("v"), Cmp("Ult", "d", <<R("v"), C(2)>>), Op("ZExt", "e", <<B1("d")>>), Jump(2)>>,
  <<Ret>> >>, 2, 3, {2, 3}, 1)

\* The same with a fence before the condition is tested
Fenced == [Flagged EXCEPT !.blocks[2] = <<@[1], Fence, @[2], @[3]>>]

\* The same with a bound that is not known
Bounded == Looping(<<
  <<Jump(2)>>,
  <<Phi("c", <<C(1), R("v")>>, <<1, 3>>), Op("Add", "s", <<R("c"), C(3)>>),
    Cmp("Ugt", "n", <<R("s"), R("p")>>), Branch("n", 3, 4)>>,
  <<Load("v"), Jump(2)>>,
  <<Ret>> >>, 2, 3, {2, 3}, 1)

\* A spin loop whose backedge is an assume()
Spin == Looping(<<
  <<Jump(2)>>,
  <<Load("v"), Cmp("Eq", "c", <<R("v"), R("p")>>), Store(TRUE), Assume("c"), Branch("c", 3, 2)>>,
  <<Ret>> >>, 2, 2, {2}, 1)

\* while (!CAS) ;
CasSpin == Looping(<<
  <<Jump(2)>>,
  <<CAS("k", R("p"), "k.ok"), Extract("o", "k", R("p"), 1, "k.ok"), Branch("o", 3, 2)>>,
  <<Ret>> >>, 2, 2, {2}, 1)

\* A second CAS, only after the first one succeeded
TwoSteps == Looping(<<
  <<Jump(2)>>,
  <<CAS("k", R("p"), "k.ok"), Extract("o", "k", R("p"), 1, "k.ok"), Branch("o", 3, 4)>>,
  <<CAS("l", C(2), "l.ok"), Extract("x", "l", C(2), 0, "l.ok"), Extract("n", "l", C(2), 1, "l.ok"),
    Branch("n", 5, 4)>>,
  <<Jump(2)>>,
  <<Ret>> >>, 2, 4, {2, 3, 4}, 1)

\* A second CAS if the first one failed
Either == Looping(<<
  <<Jump(2)>>,
  <<CAS("k", R("p"), "k.ok"), Extract("o", "k", R("p"), 1, "k.ok"), Branch("o", 5, 3)>>,
  <<CAS("l", C(2), "l.ok"), Extract("x", "l", C(2), 0, "l.ok"), Extract("n", "l", C(2), 1, "l.ok"),
    Branch("n", 5, 4)>>,
  <<Jump(2)>>,
  <<Ret>> >>, 2, 4, {2, 3, 4}, 1)

Functions == <<Sum, Joined, ShortCut, Shifted, Masked, Swapped, Known, Pair, Stored, Switched,
               NextRound, Flagged, Fenced, Bounded, Spin, CasSpin, TwoSteps, Either>>

-----------------------------------------------------------------------------
\* assume(v < 0)
Negative == Straight(<< <<Load("v"), Cmp("Slt", "c", <<R("v"), C(0)>>), Assume("c"), Ret>> >>)

\* assume(v % 2 == 1)
Odd == Straight(<< <<Load("v"), Op("URem", "r", <<R("v"), C(2)>>),
                     Cmp("Eq", "c", <<R("r"), C(1)>>), Assume("c"), Ret>> >>)

SignedFunctions == <<Negative, Odd>>
=============================================================================
