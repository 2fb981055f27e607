---------------------------- MODULE NumbersProofs ----------------------------
(***************************************************************************)
(* At every width, the compiled program's checks are the interpreter's     *)
(* checked operations.                                                     *)
(***************************************************************************)
EXTENDS Numbers, TLAPS

LEMMA ModRange == \A k \in Int, m \in Nat \ {0} : k % m \in 0 .. m - 1
OBVIOUS

LEMMA ModSmall == ASSUME NEW m \in Nat \ {0}, NEW k \in 0 .. m - 1 PROVE k % m = k
OBVIOUS

LEMMA DivSmaller ==
  ASSUME NEW x \in Nat, NEW y \in Nat \ {0}
  PROVE  /\ x \div y \in Nat
         /\ x \div y <= x
         /\ y = 1 => x \div y = x
         /\ y > 1 /\ x > 0 => x \div y < x
OBVIOUS

\* The overflow bit of an llvm.*.with.overflow intrinsic is set where the exact
\* answer is not a word.
LEMMA WrapsOutsideOnly == \A n \in Int : Wrap(n) = n <=> n \in Word
<1> SUFFICES ASSUME NEW n \in Int PROVE Wrap(n) = n <=> n \in Word
  OBVIOUS
<1> USE WidthAssumption DEF Modulus, MinInt, Word
<1>1. Modulus \in Nat \ {0} /\ n - MinInt \in Int
  OBVIOUS
<1>2. (n - MinInt) % Modulus \in 0 .. Modulus - 1
  BY <1>1, ModRange
<1>3. CASE n \in Word
  <2>1. n - MinInt \in 0 .. Modulus - 1
    BY <1>3
  <2>2. (n - MinInt) % Modulus = n - MinInt
    BY <1>1, <2>1, ModSmall
  <2> QED
    BY <1>3, <2>2 DEF Wrap
<1>4. CASE n \notin Word
  BY <1>2, <1>4 DEF Wrap
<1> QED
  BY <1>3, <1>4

LEMMA CheckedAsGenChecked == \A op : \A n \in Int : GenChecked(op, n) = Checked(op, n)
<1> SUFFICES ASSUME NEW op, NEW n \in Int PROVE GenChecked(op, n) = Checked(op, n)
  OBVIOUS
<1>1. CASE n \in Word
  BY <1>1, WrapsOutsideOnly DEF GenChecked, Checked
<1>2. CASE n \notin Word
  BY <1>2, WrapsOutsideOnly DEF GenChecked, Checked
<1> QED
  BY <1>1, <1>2

\* The one quotient that is not a word is that of the least integer by -1.
LEMMA QuotientOverflows ==
  ASSUME NEW a \in Word, NEW b \in Word, b # 0
  PROVE  Quotient(a, b) \notin Word <=> DivOverflows(a, b)
<1> USE WidthAssumption DEF Word, MinInt
<1>1. Abs(a) \in Nat /\ Abs(b) \in Nat \ {0} /\ Abs(a) <= MaxInt + 1
  BY DEF Abs
<1> DEFINE q == Abs(a) \div Abs(b)
<1>2. /\ q \in Nat /\ q <= Abs(a)
      /\ Abs(b) = 1 => q = Abs(a)
      /\ Abs(b) > 1 /\ Abs(a) > 0 => q < Abs(a)
  BY <1>1, DivSmaller
<1>3. Quotient(a, b) = IF (a < 0) = (b < 0) THEN q ELSE -q
  BY DEF Quotient
<1> HIDE DEF q
<1>4. CASE DivOverflows(a, b)
  <2>0. a = -(MaxInt + 1) /\ b = -1
    BY <1>4 DEF DivOverflows
  <2>1. Abs(b) = 1 /\ Abs(a) = MaxInt + 1 /\ a < 0 /\ b < 0
    <3>1. \A m \in Nat : -(m + 1) < 0 /\ -(-(m + 1)) = m + 1
      OBVIOUS
    <3>2. MaxInt \in Nat
      OBVIOUS
    <3>3. Abs(a) = MaxInt + 1 /\ a < 0
      BY <2>0, <3>1, <3>2 DEF Abs
    <3>4. Abs(b) = 1 /\ b < 0
      <4>1. b = -(0 + 1) /\ 0 \in Nat
        BY <2>0
      <4>2. b < 0 /\ -b = 0 + 1
        BY <3>1, <4>1, Zenon
      <4>3. Abs(b) = 0 + 1
        BY <4>2, Zenon DEF Abs
      <4> QED
        BY <4>2, <4>3
    <3> QED
      BY <3>3, <3>4
  <2>2. Quotient(a, b) = MaxInt + 1
    BY <1>2, <1>3, <2>1
  <2> QED
    BY <1>4, <2>2
<1>5. CASE ~DivOverflows(a, b)
  <2>1. CASE q <= MaxInt
    <3>1. q \in Word /\ -q \in Word
      BY <1>2, <2>1
    <3> QED
      BY <1>3, <1>5, <3>1
  <2>2. CASE q = MaxInt + 1
    <3>1. Abs(a) = MaxInt + 1 /\ Abs(b) = 1
      BY <1>1, <1>2, <2>2
    <3>2. a = MinInt /\ b = 1
      BY <1>5, <3>1 DEF Abs, DivOverflows
    <3>3. (a < 0) /\ ~(b < 0)
      BY <3>2
    <3>4. Quotient(a, b) = -q
      BY <1>3, <3>3
    <3>5. Quotient(a, b) = MinInt
      BY <2>2, <3>4
    <3>6. Quotient(a, b) \in Word
      BY <3>5
    <3> QED
      BY <1>5, <3>6
  <2> QED
    BY <1>1, <1>2, <2>1, <2>2
<1> QED
  BY <1>4, <1>5

LEMMA DivisionAgrees ==
  ASSUME NEW a \in Word, NEW b \in Word, NEW op \in Dividing
  PROVE  GenDivision(op, a, b) = EvalInts(op, a, b)
<1> DEFINE answer == IF op = "/" THEN Quotient(a, b) ELSE Remainder(a, b)
<1>1. EvalInts(op, a, b) = IF b = 0 THEN <<"stops", "by zero">>
                           ELSE IF Quotient(a, b) \notin Word THEN <<"stops", op>>
                           ELSE <<"word", answer>>
  <2>1. op \notin Arithmetic /\ op \notin Comparison /\ op # "&&" /\ op # "||"
    BY DEF Dividing, Arithmetic, Comparison
  <2> QED
    BY <2>1 DEF EvalInts
<1> HIDE DEF answer
<1>2. CASE b = 0
  BY <1>1, <1>2 DEF GenDivision
<1>3. CASE b # 0 /\ DivOverflows(a, b)
  <2>1. Quotient(a, b) \notin Word
    BY <1>3, QuotientOverflows
  <2> QED
    BY <1>1, <1>3, <2>1 DEF GenDivision
<1>4. CASE b # 0 /\ ~DivOverflows(a, b)
  <2>1. Quotient(a, b) \in Word
    BY <1>4, QuotientOverflows
  <2>2. GenDivision(op, a, b) = SDiv(op, a, b)
    BY <1>4 DEF GenDivision
  <2>3. SDiv(op, a, b) = <<"word", answer>>
    BY <1>4 DEF SDiv, DivOverflows, answer
  <2> QED
    BY <1>1, <1>4, <2>1, <2>2, <2>3
<1> QED
  BY <1>2, <1>3, <1>4

\* CONTRIBUTING.md:53-54, "Three backends have to agree on the language's
\* semantics": on ints of every width, arithmetic, division and comparison give
\* the same word in both backends or stop both with the same failure
\* (codegen.rs, eval_binop; codegen_llvm.rs:237-281, 436-448).
THEOREM IntsAgree ==
  \A a, b \in Word : \A op \in Arithmetic \cup Dividing \cup Comparison :
    GenBinary(op, a, b) = EvalInts(op, a, b)
<1> SUFFICES ASSUME NEW a \in Word, NEW b \in Word, NEW op \in Arithmetic \cup Dividing \cup Comparison
             PROVE  GenBinary(op, a, b) = EvalInts(op, a, b)
  OBVIOUS
<1>0. a \in Int /\ b \in Int
  BY WidthAssumption DEF Word, MinInt
<1>1. op # "&&" /\ op # "||"
  BY DEF Arithmetic, Dividing, Comparison
<1>2. CASE op \in Arithmetic
  <2>1. Exact(op, a, b) \in Int
    BY <1>0, <1>2 DEF Exact, Arithmetic
  <2>2. op \notin Dividing /\ op \notin Comparison
    BY <1>2 DEF Arithmetic, Dividing, Comparison
  <2>3. GenBinary(op, a, b) = GenChecked(op, Exact(op, a, b))
    BY <1>1, <1>2, <2>2 DEF GenBinary
  <2>4. EvalInts(op, a, b) = Checked(op, Exact(op, a, b))
    BY <1>1, <1>2, <2>2 DEF EvalInts
  <2> QED
    BY <2>1, <2>3, <2>4, CheckedAsGenChecked
<1>3. CASE op \in Dividing
  <2>1. op \notin Arithmetic /\ op \notin Comparison
    BY <1>3 DEF Arithmetic, Dividing, Comparison
  <2>2. GenBinary(op, a, b) = GenDivision(op, a, b)
    BY <1>1, <1>3, <2>1 DEF GenBinary
  <2> QED
    BY <1>3, <2>2, DivisionAgrees
<1>4. CASE op \in Comparison
  <2>1. op \notin Arithmetic /\ op \notin Dividing
    BY <1>4 DEF Arithmetic, Dividing, Comparison
  <2>2. GenBinary(op, a, b) = Word01(Holds(op, a, b))
    BY <1>1, <1>4, <2>1 DEF GenBinary
  <2>3. EvalInts(op, a, b) = Word01(Holds(op, a, b))
    BY <1>1, <1>4, <2>1 DEF EvalInts
  <2> QED
    BY <2>2, <2>3
<1> QED
  BY <1>2, <1>3, <1>4

\* Negation as 0 - a overflows where Rust's checked_neg does.
THEOREM NegationAgrees == \A a \in Word : \A op \in {"-", "!"} : GenUnary(op, a) = EvalUnary(op, a)
<1> SUFFICES ASSUME NEW a \in Word, NEW op \in {"-", "!"} PROVE GenUnary(op, a) = EvalUnary(op, a)
  OBVIOUS
<1>1. 0 - a \in Int /\ 0 - a = -a
  BY WidthAssumption DEF Word, MinInt
<1>2. GenChecked("negation", 0 - a) = Checked("negation", -a)
  BY <1>1, CheckedAsGenChecked
<1> QED
  BY <1>2 DEF GenUnary, EvalUnary
=============================================================================
