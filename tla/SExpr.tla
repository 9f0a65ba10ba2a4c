------------------------------- MODULE SExpr --------------------------------
(***************************************************************************)
(* Symbolic expressions over the registers of a function (SExpr.hpp), and  *)
(* the visitors that work on them (SExprVisitor.hpp).                      *)
(***************************************************************************)
EXTENDS Values, SequencesExt

LogicalKinds == {"Conjunction", "Disjunction", "Not"}
CastKinds == {"ZExt", "SExt", "Trunc"}
CmpKinds == CompareOps
BinaryKinds == BinaryOps \cup ShiftOps \cup CmpKinds

Expr(k, w, kids) == [kind |-> k, width |-> w, kids |-> kids]

ConcreteExpr(w, v) == [kind |-> "Concrete", width |-> w, kids |-> <<>>, val |-> v]
createTrue == ConcreteExpr(1, 1)
createFalse == ConcreteExpr(1, 0)
RegisterExpr(w, r) == [kind |-> "Register", width |-> w, kids |-> <<>>, reg |-> r]
SelectExpr(c, t, f) == Expr("Select", t.width, <<c, t, f>>)
ConjunctionExpr(es) == Expr("Conjunction", 1, es)
NotExpr(e) == Expr("Not", 1, <<e>>)
CastExpr(k, w, e) == Expr(k, w, <<e>>)
ArithmeticExpr(k, w, l, r) == Expr(k, w, <<l, r>>)
CmpExpr(k, l, r) == Expr(k, 1, <<l, r>>)

-----------------------------------------------------------------------------
(* SExprEvaluator *)

\* Division and remainder alike are "/", whatever the signs.
EvaluateArithmetic(k, a, b) ==
  CASE k = "Add" -> SValOp("+", a, b)
    [] k = "Sub" -> SValOp("-", a, b)
    [] k = "Mul" -> SValOp("*", a, b)
    [] k \in {"UDiv", "SDiv", "URem", "SRem"} -> SValOp("/", a, b)
    [] k = "And" -> SValOp("&", a, b)
    [] k = "Or" -> SValOp("|", a, b)
    [] k = "Xor" -> SValOp("^", a, b)
    [] k = "Shl" -> SValOp("<<", a, b)
    [] k \in {"LShr", "AShr"} -> SValOp(">>", a, b)

\* Signed and unsigned comparisons are the same.
EvaluateCmp(k, a, b) ==
  LET op == CASE k = "Eq" -> "==" [] k = "Ne" -> "!="
              [] k \in {"Ult", "Slt"} -> "<" [] k \in {"Ule", "Sle"} -> "<="
              [] k \in {"Ugt", "Sgt"} -> ">" [] k \in {"Uge", "Sge"} -> ">="
  IN IF SValCompare(op, a, b) THEN 1 ELSE 0

\* What an expression evaluates to when the registers in map have the values
\* given there and the others have the value rest.  The negation takes the
\* logical complement of the pointer to its operand, which is never null.
RECURSIVE Visit(_, _, _)
Visit(e, map, rest) ==
  CASE e.kind = "Concrete" -> e.val
    [] e.kind = "Register" -> IF e.reg \in DOMAIN map THEN map[e.reg] ELSE rest
    [] e.kind = "Select" ->
         IF getBool(Visit(e.kids[1], map, rest)) THEN Visit(e.kids[2], map, rest)
                                                 ELSE Visit(e.kids[3], map, rest)
    [] e.kind = "Conjunction" ->
         IF \A i \in DOMAIN e.kids : getBool(Visit(e.kids[i], map, rest)) THEN 1 ELSE 0
    [] e.kind = "Disjunction" ->
         IF \E i \in DOMAIN e.kids : getBool(Visit(e.kids[i], map, rest)) THEN 1 ELSE 0
    [] e.kind = "Not" -> 0
    [] e.kind \in CastKinds -> Visit(e.kids[1], map, rest)
    [] e.kind \in CmpKinds ->
         EvaluateCmp(e.kind, Visit(e.kids[1], map, rest), Visit(e.kids[2], map, rest))
    [] OTHER ->
         EvaluateArithmetic(e.kind, Visit(e.kids[1], map, rest), Visit(e.kids[2], map, rest))

\* Brute-force evaluation: all registers have the same value.
evaluate(e, v) == Visit(e, <<>>, v)

Unknown == 42 % Word
evaluateMap(e, map) == Visit(e, map, Unknown)

\* The registers without a value that an evaluation comes across: only one
\* arm of a selection is looked at, and a conjunction is left at the first
\* operand that is false.
RECURSIVE unknown(_, _)
unknown(e, map) ==
  LET Known(k) == evaluateMap(e.kids[k], map)
      Looked == CASE e.kind = "Select" -> {1, IF getBool(Known(1)) THEN 2 ELSE 3}
                  [] e.kind = "Conjunction" ->
                       {i \in DOMAIN e.kids : \A j \in 1 .. i - 1 : getBool(Known(j))}
                  [] e.kind = "Disjunction" ->
                       {i \in DOMAIN e.kids : \A j \in 1 .. i - 1 : ~getBool(Known(j))}
                  [] e.kind = "Not" -> {}
                  [] OTHER -> DOMAIN e.kids
  IN IF e.kind = "Register" THEN {e.reg} \ DOMAIN map
     ELSE UNION {unknown(e.kids[k], map) : k \in Looked}

-----------------------------------------------------------------------------
(* The other visitors *)

\* SExprRegSubstitutor
RECURSIVE substitute(_, _, _)
substitute(e, r, x) ==
  IF e.kind = "Register" THEN IF e.reg = r THEN x ELSE e
  ELSE [e EXCEPT !.kids = [k \in DOMAIN e.kids |-> substitute(e.kids[k], r, x)]]

\* SExprConcretizer: map gives values, widths are those of the registers.
RECURSIVE concretize(_, _)
concretize(e, map) ==
  IF e.kind = "Register"
  THEN IF e.reg \in DOMAIN map THEN ConcreteExpr(e.width, map[e.reg]) ELSE e
  ELSE [e EXCEPT !.kids = [k \in DOMAIN e.kids |-> concretize(e.kids[k], map)]]

\* SExprTransformer: registers become their numbers, for which the model
\* keeps the names; casts are lost.
RECURSIVE transform(_)
TransformKids(e) == [e EXCEPT !.kids = [k \in DOMAIN e.kids |-> transform(e.kids[k])]]
transform(e) == IF e.kind \in CastKinds THEN transform(e.kids[1]) ELSE TransformKids(e)
=============================================================================
