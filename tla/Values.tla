------------------------------- MODULE Values -------------------------------
(***************************************************************************)
(* Integers, as they are kept on the two sides of the interpreter.  An     *)
(* SVal is an unsigned word of the host (SVal.hpp), whatever the type of   *)
(* the program's variable.  In the registers of the program an integer of  *)
(* type iN has N bits (llvm::APInt): a number below 2^N.                   *)
(***************************************************************************)
EXTENDS Integers, Sequences, Bitwise

CONSTANT Width    \* SVal::width

Word == 2 ^ Width

\* The number that w bits stand for in two's complement.
SignedOf(v, w) == IF v >= 2 ^ (w - 1) THEN v - 2 ^ w ELSE v

signExtendBottom(v, b) == SignedOf(v % 2 ^ b, b) % Word

getBool(v) == v # 0

\* From memory to registers and back.
SVAL_TO_GV(v, w) == v % 2 ^ w
GV_TO_SVAL(a, w) == a

\* The operators of SVal: modulo Word and unsigned throughout.
SValOp(op, a, b) ==
  CASE op = "+" -> (a + b) % Word
    [] op = "-" -> (a - b) % Word
    [] op = "*" -> (a * b) % Word
    [] op = "/" -> a \div b
    [] op = "&" -> a & b
    [] op = "|" -> a | b
    [] op = "^" -> a ^^ b
    [] op = "<<" -> (a * 2 ^ b) % Word
    [] op = ">>" -> a \div 2 ^ b

SValCompare(op, a, b) ==
  CASE op = "==" -> a = b
    [] op = "!=" -> a # b
    [] op = "<" -> a < b
    [] op = "<=" -> a <= b
    [] op = ">" -> a > b
    [] op = ">=" -> a >= b

-----------------------------------------------------------------------------
\* Division that rounds towards zero.
QuotientOf(a, b) ==
  LET abs(n) == IF n < 0 THEN -n ELSE n
      q == abs(a) \div abs(b)
  IN IF (a < 0) = (b < 0) THEN q ELSE -q

BinaryOps == {"Add", "Sub", "Mul", "UDiv", "SDiv", "URem", "SRem", "And", "Or", "Xor"}

visitBinaryOperator(op, w, a, b) ==
  LET s == SignedOf(a, w)
      t == SignedOf(b, w)
  IN CASE op = "Add" -> (a + b) % 2 ^ w
       [] op = "Sub" -> (a - b) % 2 ^ w
       [] op = "Mul" -> (a * b) % 2 ^ w
       [] op = "UDiv" -> a \div b
       [] op = "SDiv" -> QuotientOf(s, t) % 2 ^ w
       [] op = "URem" -> a % b
       [] op = "SRem" -> (s - t * QuotientOf(s, t)) % 2 ^ w
       [] op = "And" -> a & b
       [] op = "Or" -> a | b
       [] op = "Xor" -> a ^^ b

ShiftOps == {"Shl", "LShr", "AShr"}

NextPowerOf2(n) == CHOOSE p \in {2 ^ k : k \in 0 .. Width} : p > n /\ p <= 2 * (n + 1)

getShiftAmount(amount, w) ==
  IF amount < w THEN amount ELSE (NextPowerOf2(w - 1) - 1) & amount

visitShl(w, a, b) == (a * 2 ^ getShiftAmount(b, w)) % 2 ^ w
visitLShr(w, a, b) == a \div 2 ^ getShiftAmount(b, w)
visitAShr(w, a, b) == (SignedOf(a, w) \div 2 ^ getShiftAmount(b, w)) % 2 ^ w

visitShift(op, w, a, b) ==
  CASE op = "Shl" -> visitShl(w, a, b)
    [] op = "LShr" -> visitLShr(w, a, b)
    [] op = "AShr" -> visitAShr(w, a, b)

CompareOps == {"Eq", "Ne", "Ult", "Ule", "Ugt", "Uge", "Slt", "Sle", "Sgt", "Sge"}

executeICMP(op, w, a, b) ==
  LET s == SignedOf(a, w)
      t == SignedOf(b, w)
  IN CASE op = "Eq" -> a = b
       [] op = "Ne" -> a # b
       [] op = "Ult" -> a < b
       [] op = "Ule" -> a <= b
       [] op = "Ugt" -> a > b
       [] op = "Uge" -> a >= b
       [] op = "Slt" -> s < t
       [] op = "Sle" -> s <= t
       [] op = "Sgt" -> s > t
       [] op = "Sge" -> s >= t

visitICmpInst(op, w, a, b) == IF executeICMP(op, w, a, b) THEN 1 ELSE 0

executeSelectInst(c, a, b) == IF c = 0 THEN b ELSE a

CastOps == {"ZExt", "SExt", "Trunc"}

executeTruncInst(to, a) == a % 2 ^ to
executeSExtInst(from, to, a) == SignedOf(a, from) % 2 ^ to
executeZExtInst(to, a) == a

visitCast(op, from, to, a) ==
  CASE op = "Trunc" -> executeTruncInst(to, a)
    [] op = "SExt" -> executeSExtInst(from, to, a)
    [] op = "ZExt" -> executeZExtInst(to, a)

\* A pointer moved by an index into elements of the given size; an index of
\* a narrower type is sign-extended.
executeGEPOperation(ptr, size, w, idx) == (ptr + size * SignedOf(idx, w)) % Word

\* A switch goes to the first case that matches, or to the default.
visitSwitchInst(w, a, cases, default) ==
  LET hits == {k \in DOMAIN cases : visitICmpInst("Eq", w, a, cases[k].val) # 0}
  IN IF hits = {} THEN default ELSE cases[CHOOSE k \in hits : \A l \in hits : k <= l].succ
=============================================================================
