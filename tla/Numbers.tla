------------------------------- MODULE Numbers -------------------------------
(***************************************************************************)
(* Arithmetic and comparison of machine integers, as the interpreter does  *)
(* it with Rust's checked operations (codegen.rs) and as compiled programs *)
(* do it with LLVM's instructions (codegen_llvm.rs).  What the checker     *)
(* lets through (typecheck.rs) is one of the operators below on two ints   *)
(* or on two bools, - on an int and ! on either.                           *)
(*                                                                         *)
(* An integer has Bits bits.  An answer is <<"word", n>>, with 0 and 1 for *)
(* false and true, <<"stops", why>>, or <<"undefined">> for an instruction *)
(* whose operands LLVM gives no meaning.                                   *)
(***************************************************************************)
EXTENDS Integers, FiniteSets, FiniteSetsExt

CONSTANTS Bits, MaxInt
ASSUME WidthAssumption ==
  /\ Bits \in Nat \ {0}
  /\ MaxInt \in Nat
  /\ 2 ^ (Bits - 1) = MaxInt + 1

Modulus == 2 * (MaxInt + 1)
MinInt == -(MaxInt + 1)
Word == MinInt .. MaxInt

Arithmetic == {"+", "-", "*"}
Dividing == {"/", "%"}
Comparison == {"==", "!=", "<", "<=", ">", ">="}
Logic == {"&&", "||"}

Word01(b) == <<"word", IF b THEN 1 ELSE 0>>

\* Division truncates, in Rust and in LLVM.
Abs(n) == IF n < 0 THEN -n ELSE n
Quotient(a, b) == IF (a < 0) = (b < 0) THEN Abs(a) \div Abs(b) ELSE -(Abs(a) \div Abs(b))
Remainder(a, b) == a - b * Quotient(a, b)

Exact(op, a, b) ==
  CASE op = "+" -> a + b
    [] op = "-" -> a - b
    [] op = "*" -> a * b

Holds(op, a, b) ==
  CASE op = "==" -> a = b [] op = "!=" -> a # b
    [] op = "<" -> a < b  [] op = "<=" -> a <= b
    [] op = ">" -> a > b  [] op = ">=" -> a >= b

(***************************************************************************)
(* The interpreter.                                                        *)
(***************************************************************************)

Checked(op, n) == IF n \in Word THEN <<"word", n>> ELSE <<"stops", op>>

EvalInts(op, a, b) ==
  CASE op \in Arithmetic -> Checked(op, Exact(op, a, b))
    [] op \in Dividing -> IF b = 0 THEN <<"stops", "by zero">>
                          ELSE IF Quotient(a, b) \notin Word THEN <<"stops", op>>
                          ELSE <<"word", IF op = "/" THEN Quotient(a, b) ELSE Remainder(a, b)>>
    [] op \in Comparison -> Word01(Holds(op, a, b))
    [] op = "&&" -> Word01(a # 0 /\ b # 0)
    [] op = "||" -> Word01(a # 0 \/ b # 0)

EvalBools(op, a, b) ==
  CASE op = "==" -> Word01(a = b)
    [] op = "!=" -> Word01(a # b)
    [] op = "&&" -> Word01(a = 1 /\ b = 1)
    [] op = "||" -> Word01(a = 1 \/ b = 1)
    [] OTHER -> <<"stops", "unsupported">>

EvalUnary(op, a) ==
  CASE op = "-" -> Checked("negation", -a)
    [] op = "!" -> Word01(a = 0)

(***************************************************************************)
(* The compiled program.                                                   *)
(***************************************************************************)

Wrap(n) == ((n - MinInt) % Modulus) + MinInt

\* llvm.*.with.overflow gives the word and whether it is the exact answer.
GenChecked(op, n) == IF Wrap(n) # n THEN <<"stops", op>> ELSE <<"word", Wrap(n)>>

NeverOverflows(a, b) == FALSE
DivOverflows(a, b) == a = MinInt /\ b = -1

\* sdiv and srem.
SDiv(op, a, b) ==
  IF b = 0 \/ (a = MinInt /\ b = -1) THEN <<"undefined">>
  ELSE <<"word", IF op = "/" THEN Quotient(a, b) ELSE Remainder(a, b)>>

GenDivision(op, a, b) ==
  CASE b = 0 -> <<"stops", "by zero">>
    [] b # 0 /\ DivOverflows(a, b) -> <<"stops", op>>
    [] OTHER -> SDiv(op, a, b)

Bit(n, k) == ((n % Modulus) \div (2 ^ k)) % 2
BitByBit(Op(_, _), a, b) ==
  Wrap(MapThenSumSet(LAMBDA k : (2 ^ k) * Op(Bit(a, k), Bit(b, k)), 0 .. (Bits - 1)))
BitAnd(a, b) == BitByBit(LAMBDA x, y : x * y, a, b)
BitOr(a, b) == BitByBit(LAMBDA x, y : x + y - x * y, a, b)

GenBinary(op, a, b) ==
  CASE op \in Arithmetic -> GenChecked(op, Exact(op, a, b))
    [] op \in Dividing -> GenDivision(op, a, b)
    [] op \in Comparison -> Word01(Holds(op, a, b))
    [] op = "&&" -> <<"word", BitAnd(a, b)>>
    [] op = "||" -> <<"word", BitOr(a, b)>>

\* -a is 0 - a.
GenUnary(op, a) ==
  CASE op = "-" -> GenChecked("negation", 0 - a)
    [] op = "!" -> Word01(a = 0)

(***************************************************************************)
(* A question is [ty, op, left, right], with no right where op is a prefix.*)
(***************************************************************************)

Interpret(q) ==
  CASE "right" \notin DOMAIN q -> EvalUnary(q.op, q.left)
    [] "right" \in DOMAIN q /\ q.ty = "int" -> EvalInts(q.op, q.left, q.right)
    [] "right" \in DOMAIN q /\ q.ty = "bool" -> EvalBools(q.op, q.left, q.right)

Compiled(q) ==
  IF "right" \in DOMAIN q THEN GenBinary(q.op, q.left, q.right) ELSE GenUnary(q.op, q.left)

\* && and || join the bits of two ints and ask which is true of two bools; an
\* order or a sum of two bools is an answer only of the compiled program.
Divides(q) ==
  /\ "right" \in DOMAIN q
  /\ \/ q.ty = "int" /\ q.op \in Logic /\ ~({q.left, q.right} \subseteq {0, 1})
     \/ q.ty = "bool" /\ q.op \notin Logic \cup {"==", "!="}
=============================================================================
