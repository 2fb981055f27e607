-------------------------- MODULE AgreementProofs --------------------------
(***************************************************************************)
(* The interpreter does what the compiled program does.                    *)
(*                                                                         *)
(* Every step of InterpFlow on a program without a hazard is a step of     *)
(* NativeFlow or changes nothing there.  Where no flag is set the two      *)
(* stand in the same constructs, and a name means what NamesOf reads off   *)
(* the scopes; where one is set the compiled program has made the jump     *)
(* already, and stands in a prefix of the interpreter's constructs.  So    *)
(* the statement that sets a flag is the native jump, and every way out of *)
(* a body that the flag leads to is no native step at all.                 *)
(*                                                                         *)
(* Two things more are needed than FlowInv.  A loop whose variable is the  *)
(* name followed stands where the name means nothing else (Alone): it was  *)
(* so when the loop was entered, and the native loop variable, which takes *)
(* the place of an enclosing binding, takes nobody's.  And the value of a  *)
(* break that is awaited inside a loop expression is for such a loop       *)
(* (Landing).                                                              *)
(***************************************************************************)
EXTENDS InterpFlowProofs

----------------------------------------------------------------------------
\* Sequences, as functions on their positions.

Zeros(n) == [k \in 1 .. n |-> 0]

LEMMA FunctionFacts ==
  ASSUME NEW n \in Nat, NEW s, s = [k \in 1 .. n |-> s[k]]
  PROVE  /\ Len(s) = n
         /\ \A m \in 0 .. n : SubSeq(s, 1, m) = [k \in 1 .. m |-> s[k]]
         /\ \A e : Append(s, e) = [k \in 1 .. n + 1 |-> IF k = n + 1 THEN e ELSE s[k]]
<1> DEFINE S == {s[k] : k \in 1 .. n}
<1>1. s \in [1 .. n -> S]
  <2>1. \A k \in 1 .. n : s[k] \in S
    OBVIOUS
  <2> HIDE DEF S
  <2> QED
    BY <2>1
<1>2. s \in Seq(S) /\ DOMAIN s = 1 .. n
  <2> HIDE DEF S
  <2> QED
    BY <1>1, SeqDef
<1>3. Len(s) \in Nat /\ DOMAIN s = 1 .. Len(s)
  <2> HIDE DEF S
  <2> QED
    BY <1>2, LenProperties
<1>4. Len(s) = n
  BY <1>2, <1>3
<1>5. ASSUME NEW m \in 0 .. n PROVE SubSeq(s, 1, m) = [k \in 1 .. m |-> s[k]]
  <2>1. 1 \in Int /\ m \in Int /\ m - 1 + 1 = m /\ \A k \in 1 .. m : 1 + k - 1 = k /\ k \in 1 .. n
    OBVIOUS
  <2>2. \A k \in 1 .. m : s[k] \in S
    BY <2>1, <1>1
  <2> HIDE DEF S
  <2>7. 1 \in Int /\ m \in Int /\ s \in Seq(S)
    BY <1>2
  <2>3. /\ SubSeq(s, 1, m) \in Seq(S)
        /\ Len(SubSeq(s, 1, m)) = IF 1 <= m THEN m - 1 + 1 ELSE 0
        /\ \A k \in 1 .. m - 1 + 1 : SubSeq(s, 1, m)[k] = s[1 + k - 1]
    BY <2>7, <2>2, SubSeqProperties
  <2>4. Len(SubSeq(s, 1, m)) = m
    BY <2>1, <2>3
  <2>5. SubSeq(s, 1, m) = [k \in 1 .. m |-> SubSeq(s, 1, m)[k]]
    BY <2>3, <2>4
  <2>6. \A k \in 1 .. m : SubSeq(s, 1, m)[k] = s[k]
    BY <2>1, <2>3
  <2> QED
    BY <2>5, <2>6
<1>6. ASSUME NEW e PROVE Append(s, e) = [k \in 1 .. n + 1 |-> IF k = n + 1 THEN e ELSE s[k]]
  <2> DEFINE R == S \cup {e}
  <2>1. s \in [1 .. n -> R] /\ e \in R
    BY <1>1
  <2> HIDE DEF R, S
  <2>2. s \in Seq(R)
    BY <2>1, SeqDef
  <2>3. /\ Append(s, e) \in Seq(R) /\ Len(Append(s, e)) = n + 1
        /\ Append(s, e)[n + 1] = e
        /\ \A k \in 1 .. n : Append(s, e)[k] = s[k]
    BY <1>4, <2>1, <2>2, AppendProperties
  <2>4. Append(s, e) = [k \in 1 .. n + 1 |-> Append(s, e)[k]]
    BY <2>3
  <2>5. \A k \in 1 .. n + 1 : k = n + 1 \/ k \in 1 .. n
    OBVIOUS
  <2>6. \A k \in 1 .. n + 1 : Append(s, e)[k] = IF k = n + 1 THEN e ELSE s[k]
    BY <2>3, <2>5
  <2> QED
    BY <2>4, <2>6
<1> QED
  BY <1>4, <1>5, <1>6

\* A sequence is the function on its positions.
LEMMA SequenceIsFunction ==
  ASSUME NEW S, NEW s \in Seq(S)
  PROVE  s = [k \in 1 .. Len(s) |-> s[k]] /\ Len(s) \in Nat
BY LenProperties

\* What was added last comes off.
LEMMA PopOfPush ==
  ASSUME NEW S, NEW s \in Seq(S), NEW e \in S
  PROVE  Pop(Append(s, e)) = s /\ Top(Append(s, e)) = e
<1> DEFINE d == Append(s, e)
           n == Len(s)
<1>5. /\ d \in Seq(S) /\ Len(d) = n + 1 /\ d[n + 1] = e /\ \A k \in 1 .. n : d[k] = s[k]
  BY PushFacts
<1>6. n \in Nat /\ d # <<>>
  OBVIOUS
<1>1. /\ d \in Seq(S) /\ d # <<>> /\ Len(d) = n + 1 /\ d[n + 1] = e /\ n \in Nat
      /\ \A k \in 1 .. n : d[k] = s[k]
  BY <1>5, <1>6
<1>2. s = [k \in 1 .. n |-> s[k]]
  OBVIOUS
<1> HIDE DEF d, n
<1>3. Pop(d) \in Seq(S) /\ Len(Pop(d)) = n /\ \A k \in 1 .. n : Pop(d)[k] = d[k]
  <2>1. Len(d) - 1 = n
    BY <1>1
  <2> QED
    BY <1>1, <2>1, PopFacts
<1>4. Pop(d) = [k \in 1 .. n |-> Pop(d)[k]]
  BY <1>3
<1> QED
  BY <1>1, <1>2, <1>3, <1>4 DEF d, Top

LEMMA ZerosFacts ==
  ASSUME NEW n \in Nat
  PROVE  /\ Len(Zeros(n)) = n
         /\ \A m \in 0 .. n : SubSeq(Zeros(n), 1, m) = Zeros(m)
         /\ Append(Zeros(n), 0) = Zeros(n + 1)
<1> DEFINE z == Zeros(n)
<1>1. z = [k \in 1 .. n |-> z[k]] /\ \A k \in 1 .. n : z[k] = 0
  BY DEF Zeros
<1> HIDE DEF z
<1>2. /\ Len(z) = n
      /\ \A m \in 0 .. n : SubSeq(z, 1, m) = [k \in 1 .. m |-> z[k]]
      /\ Append(z, 0) = [k \in 1 .. n + 1 |-> IF k = n + 1 THEN 0 ELSE z[k]]
  BY <1>1, FunctionFacts
<1>3. ASSUME NEW m \in 0 .. n PROVE SubSeq(z, 1, m) = Zeros(m)
  <2>1. \A k \in 1 .. m : z[k] = 0
    BY <1>1
  <2> QED
    BY <1>2, <2>1 DEF Zeros
<1>4. \A k \in 1 .. n + 1 : k = n + 1 \/ k \in 1 .. n
  OBVIOUS
<1>5. Append(z, 0) = Zeros(n + 1)
  BY <1>1, <1>2, <1>4 DEF Zeros
<1> QED
  BY <1>2, <1>3, <1>5 DEF z

----------------------------------------------------------------------------
\* What the name means at each construct.

\* The scopes of the call the k-th construct stands in.
Around(c, open, under, k) ==
  IF CallCount(c, k) = CallCount(c, Len(c)) THEN open ELSE under[CallCount(c, k)]
NameOf(c, open, under, g, k) ==
  IF c[k].at = "head" THEN None
  ELSE IF c[k].kind = "top" THEN g ELSE Around(c, open, under, k)[Height(c, k)]
NamesOf(c, open, under, g) == [k \in 1 .. Len(c) |-> NameOf(c, open, under, g, k)]

\* In one call the bodies are numbered as they nest.
LEMMA HeightsGrow ==
  ASSUME NEW c \in Seq(Construct), Nested(c), NEW m \in 1 .. Len(c), NEW k \in 1 .. m,
         CallCount(c, k) = CallCount(c, m)
  PROVE  /\ Bottom(c, k) = Bottom(c, m)
         /\ Height(c, k) \in Nat /\ Height(c, m) \in Nat /\ Height(c, k) <= Height(c, m)
         /\ k # m /\ c[m].at = "body" => Height(c, k) < Height(c, m)
         /\ c[k].at = "body" /\ c[k].kind # "top" => Height(c, k) >= 1
<1>1. /\ Len(c) \in Nat /\ m \in Nat /\ k \in Nat /\ k \in 1 .. Len(c) /\ k <= m
  OBVIOUS
<1>2. /\ Bottom(c, k) \in 1 .. k /\ c[Bottom(c, k)].kind \in Frames
      /\ Bottom(c, m) \in 1 .. m /\ c[Bottom(c, m)].kind \in Frames
      /\ \A j \in 1 .. m : c[j].kind \in Frames => j <= Bottom(c, m)
      /\ \A j \in 1 .. k : c[j].kind \in Frames => j <= Bottom(c, k)
  BY <1>1, BottomFacts
<1>3. /\ Called(c, k) \subseteq Called(c, m) /\ Called(c, m) \in SUBSET (1 .. m)
      /\ IsFiniteSet(Called(c, m))
  <2>1. Called(c, k) \subseteq Called(c, m) /\ Called(c, m) \in SUBSET (1 .. m)
    BY <1>1 DEF Called
  <2> QED
    BY <1>1, <2>1, PositionsFinite
<1>4. Called(c, k) = Called(c, m)
  BY <1>3, FS_Subset DEF CallCount
<1>5. Bottom(c, k) = Bottom(c, m)
  <2>1. Bottom(c, m) \in Called(c, k)
    BY <1>2, <1>4 DEF Called
  <2>2. Bottom(c, m) \in 1 .. k
    BY <2>1 DEF Called
  <2>3. Bottom(c, m) <= Bottom(c, k)
    BY <1>2, <2>2
  <2>4. Bottom(c, k) <= Bottom(c, m)
    BY <1>1, <1>2
  <2> QED
    BY <1>1, <1>2, <2>3, <2>4
<1>6. /\ Bodies(c, k) \subseteq Bodies(c, m) /\ Bodies(c, m) \in SUBSET (1 .. m)
      /\ Bodies(c, k) \in SUBSET (1 .. k)
  BY <1>1, <1>2, <1>5 DEF Bodies
<1>7. /\ IsFiniteSet(Bodies(c, m)) /\ IsFiniteSet(Bodies(c, k))
      /\ Height(c, k) \in Nat /\ Height(c, m) \in Nat
  BY <1>1, <1>6, PositionsFinite DEF Height
<1>8. Height(c, k) <= Height(c, m)
  BY <1>6, <1>7, FS_Subset DEF Height
<1>9. ASSUME k # m, c[m].at = "body" PROVE Height(c, k) < Height(c, m)
  <2>1. m \notin Bodies(c, k)
    BY <1>1, <1>9 DEF Bodies
  <2>2. c[m].kind # "top"
    <3>1. m - 1 \in 1 .. Len(c) - 1 /\ m - 1 + 1 = m
      BY <1>1, <1>9
    <3>2. Encloses(c[m - 1], c[m - 1 + 1])
      BY <3>1 DEF Nested
    <3> QED
      BY <3>1, <3>2 DEF Encloses
  <2>3. m \in Bodies(c, m)
    BY <1>1, <1>2, <1>9, <2>2 DEF Bodies
  <2>4. Bodies(c, k) # Bodies(c, m)
    BY <2>1, <2>3
  <2>5. Height(c, k) # Height(c, m)
    BY <1>6, <1>7, <2>4, FS_Subset DEF Height
  <2> QED
    BY <1>7, <1>8, <2>5
<1>10. ASSUME c[k].at = "body", c[k].kind # "top" PROVE Height(c, k) >= 1
  <2>1. k \in Bodies(c, k)
    BY <1>1, <1>2, <1>10 DEF Bodies
  <2>2. Height(c, k) # 0
    BY <1>7, <2>1, FS_EmptySet DEF Height
  <2> QED
    BY <1>7, <2>2
<1> QED
  BY <1>5, <1>7, <1>8, <1>9, <1>10

\* ...and every number up to the last body's is some body's.
LEMMA SameCallUp ==
  ASSUME NEW c \in Seq(Construct), Nested(c), NEW m \in 1 .. Len(c), NEW k \in Bottom(c, m) .. m
  PROVE  k \in 1 .. m /\ CallCount(c, k) = CallCount(c, m)
<1>1. Len(c) \in Nat /\ m \in Nat /\ Bottom(c, m) \in 1 .. m
  BY BottomFacts
<1>2. k \in 1 .. m /\ k \in Nat
  BY <1>1
<1>3. \A j \in 1 .. m : c[j].kind \in Frames => j <= Bottom(c, m)
  BY BottomFacts
<1>4. Called(c, k) = Called(c, m)
  BY <1>1, <1>2, <1>3 DEF Called
<1> QED
  BY <1>2, <1>4 DEF CallCount

LEMMA BodyAt ==
  ASSUME NEW c \in Seq(Construct), Nested(c), NEW m \in 1 .. Len(c), NEW h \in 1 .. Height(c, m)
  PROVE  \E k \in Bottom(c, m) .. m :
           Height(c, k) = h /\ c[k].at = "body" /\ c[k].kind # "top"
<1> DEFINE b == Bottom(c, m)
           S == {k \in b .. m : Height(c, k) >= h}
<1>1. /\ Len(c) \in Nat /\ m \in Nat /\ b \in 1 .. m /\ b \in Nat /\ c[b].kind \in Frames
  BY BottomFacts
<1> HIDE DEF b
<1>2. \A k \in b .. m : k \in 1 .. m /\ CallCount(c, k) = CallCount(c, m)
  BY SameCallUp DEF b
<1>3. \A k \in b .. m : Height(c, k) \in Nat /\ k \in Nat
  BY <1>2, HeightsGrow
<1>4. h \in Nat \ {0} /\ m \in S
  BY <1>1, <1>3
<1>5. PICK k \in S : \A j \in S : k <= j
  <2>1. S \in SUBSET Nat /\ S # {}
    BY <1>3, <1>4
  <2> HIDE DEF S
  <2> QED
    BY <2>1, LeastNat
<1>6. k \in b .. m /\ Height(c, k) >= h /\ k \in Nat /\ Height(c, k) \in Nat
  BY <1>3
<1>7. CASE k = b
  <2>1. Height(c, b) = IF c[b].kind = "fn" THEN 1 ELSE 0
    <3>1. CASE b = 1
      <4>1. c # <<>>
        BY <1>1
      <4> QED
        BY <3>1, <4>1, HeightBase
    <3>2. CASE b # 1
      <4>1. /\ b - 1 \in 1 .. Len(c) /\ b - 1 < Len(c) /\ b - 1 + 1 = b
            /\ b - 1 \in 1 .. Len(c) - 1
        BY <1>1, <3>2
      <4>2. c[b].kind # "top"
        <5>1. Encloses(c[b - 1], c[b - 1 + 1])
          BY <4>1 DEF Nested
        <5> QED
          BY <4>1, <5>1 DEF Encloses
      <4>3. c[b].kind = "fn"
        BY <1>1, <4>2 DEF Frames
      <4>4. Height(c, b - 1 + 1) = 1
        BY <4>1, <4>3, HeightStep
      <4> QED
        BY <4>1, <4>3, <4>4
    <3> QED
      BY <3>1, <3>2
  <2>2. c[b].kind = "fn" /\ h = 1 /\ Height(c, b) = 1
    BY <1>4, <1>6, <1>7, <2>1
  <2>3. c[b].at = "body"
    <3>1. c[b] \in Construct /\ Proper(c[b])
      BY <1>1 DEF Nested
    <3> QED
      BY <1>1, <3>1, FrameInBody
  <2> QED
    BY <1>6, <1>7, <2>2, <2>3 DEF b
<1>8. CASE k # b
  <2>1. /\ k - 1 \in b .. m /\ k - 1 \in 1 .. Len(c) /\ k - 1 < Len(c) /\ k - 1 + 1 = k
        /\ k - 1 \in 1 .. Len(c) - 1
    BY <1>1, <1>6, <1>8
  <2>2. ~ (Height(c, k - 1) >= h)
    BY <1>5, <1>6, <2>1
  <2>3. c[k].kind # "top" /\ c[k].kind # "fn"
    <3>1. \A j \in 1 .. m : c[j].kind \in Frames => j <= b
      BY BottomFacts DEF b
    <3>2. c[k].kind \notin Frames
      BY <1>1, <1>6, <1>8, <3>1
    <3> QED
      BY <3>2 DEF Frames
  <2>4. Height(c, k - 1 + 1) = Height(c, k - 1) + (IF c[k - 1 + 1].at = "body" THEN 1 ELSE 0)
    BY <2>1, <2>3, HeightStep
  <2>5. Height(c, k) = Height(c, k - 1) + (IF c[k].at = "body" THEN 1 ELSE 0)
    BY <2>1, <2>4
  <2>6. Height(c, k - 1) \in Nat
    BY <1>3, <2>1
  <2>7. c[k].at = "body" /\ Height(c, k) = h
    BY <1>4, <1>6, <2>2, <2>5, <2>6
  <2> QED
    BY <1>6, <2>3, <2>7 DEF b
<1> QED
  BY <1>7, <1>8

----------------------------------------------------------------------------
\* How what the name means changes with the nest and the scopes.

\* The names of a nest are a function on its positions.
LEMMA NamesFacts ==
  ASSUME NEW c \in Seq(Construct), NEW open, NEW under, NEW g
  PROVE  LET names == NamesOf(c, open, under, g)
         IN /\ Len(c) \in Nat
            /\ names = [k \in 1 .. Len(c) |-> names[k]]
            /\ \A k \in 1 .. Len(c) : names[k] = NameOf(c, open, under, g, k)
<1>1. Len(c) \in Nat
  OBVIOUS
<1> QED
  BY <1>1 DEF NamesOf

\* Leaving the innermost construct takes its name off, and no other.
LEMMA NamesPop ==
  ASSUME NEW c \in Seq(Construct), Nested(c), c # <<>>,
         NEW open \in Seq(Scope), NEW open2 \in Seq(Scope),
         NEW under \in Seq(Seq(Scope)), NEW under2 \in Seq(Seq(Scope)), NEW g \in Scope,
         Balanced(c, open, under),
         \/ Len(c) = 1
         \/ Top(c).kind = "fn" /\ open2 = Top(under) /\ under2 = Pop(under)
         \/ Top(c).kind # "fn" /\ Top(c).at = "body" /\ open2 = Pop(open) /\ under2 = under
         \/ Top(c).kind # "fn" /\ Top(c).at = "head" /\ open2 = open /\ under2 = under
  PROVE  /\ \A k \in 1 .. Len(c) - 1 :
              NamesOf(Pop(c), open2, under2, g)[k] = NamesOf(c, open, under, g)[k]
         /\ NamesOf(Pop(c), open2, under2, g) = Pop(NamesOf(c, open, under, g))
<1> DEFINE d == Pop(c)
           n == Len(c)
           names == NamesOf(c, open, under, g)
<1>1. /\ d \in Seq(Construct) /\ Nested(d) /\ Len(d) = n - 1 /\ n \in Nat \ {0}
      /\ \A k \in 1 .. n - 1 : d[k] = c[k]
  BY GoOutFacts
<1>2. ASSUME NEW k \in 1 .. n - 1
      PROVE  NameOf(d, open2, under2, g, k) = NameOf(c, open, under, g, k)
  <2>1. /\ k \in Nat /\ k \in 1 .. n /\ k <= n /\ n - 1 \in 1 .. n /\ n - 1 \in 1 .. Len(c)
        /\ n \in 1 .. n /\ k # n /\ n - 1 < n /\ n - 1 + 1 = n /\ k \in 1 .. Len(c) /\ k <= Len(d)
    BY <1>1
  <2>2. d[k] = c[k]
    BY <1>1
  <2>3. \A j \in 1 .. k : d[j].kind = c[j].kind /\ d[j].at = c[j].at
    <3>1. \A j \in 1 .. k : j \in 1 .. n - 1
      BY <1>1
    <3> HIDE DEF d, n
    <3> QED
      BY <1>1, <3>1
  <2>4. CallCount(d, k) = CallCount(c, k) /\ Height(d, k) = Height(c, k)
    <3> HIDE DEF d, n
    <3> QED
      BY <1>1, <2>1, <2>3, SameUpTo
  <2>5. CallCount(d, n - 1) = CallCount(c, n - 1)
    <3>1. n - 1 <= Len(d) /\ \A j \in 1 .. n - 1 : d[j].kind = c[j].kind /\ d[j].at = c[j].at
      BY <1>1, SMTT(30)
    <3> HIDE DEF d, n
    <3> QED
      BY <1>1, <2>1, <3>1, SameUpTo
  <2>6. /\ CallCount(c, n - 1) \in Nat
        /\ CallCount(c, n) = CallCount(c, n - 1) + (IF Top(c).kind = "fn" THEN 1 ELSE 0)
    <3>1. /\ CallCount(c, n - 1) \in Nat
          /\ CallCount(c, n - 1 + 1) = CallCount(c, n - 1) + (IF c[n - 1 + 1].kind = "fn" THEN 1 ELSE 0)
      BY <2>1, HeightStep, ZenonT(40)
    <3> QED
      BY <2>1, <3>1 DEF Top
  <2>7. CallCount(c, k) \in 1 .. CallCount(c, n - 1)
    <3>1. n - 1 \in k .. n
      BY <1>1, <2>1
    <3> QED
      BY <2>1, <3>1, CountRange
  <2>8. c[k].at = "head" \/ c[k].kind = "top" \/ c[k].at = "body"
    <3>1. c[k] \in Construct
      <4> HIDE DEF n, d
      <4> QED
        BY <2>1
    <3> QED
      BY <3>1 DEF Construct
  <2>9. SUFFICES ASSUME c[k].at = "body", c[k].kind # "top"
                 PROVE  Around(d, open2, under2, k)[Height(c, k)] = Around(c, open, under, k)[Height(c, k)]
    BY <2>2, <2>4, <2>8 DEF NameOf
  <2>10. Len(open) = Height(c, n) /\ Len(under) = CallCount(c, n) - 1
    BY DEF Balanced
  <2>11. CASE Len(c) = 1
    BY <2>1, <2>11
  <2>12. CASE Top(c).kind = "fn" /\ open2 = Top(under) /\ under2 = Pop(under)
    <3>1. CallCount(c, n) = CallCount(c, n - 1) + 1 /\ Len(under) = CallCount(c, n - 1)
      BY <2>6, <2>10, <2>12
    <3>2. under # <<>>
      BY <2>6, <2>7, <3>1
    <3>3. /\ Top(under) = under[CallCount(c, n - 1)]
          /\ \A j \in 1 .. CallCount(c, n - 1) - 1 : Pop(under)[j] = under[j]
      BY <3>1, <3>2, PopFacts DEF Top
    <3>4. Around(c, open, under, k) = under[CallCount(c, k)]
      BY <2>6, <2>7, <3>1 DEF Around
    <3>5. Around(d, open2, under2, k) = under[CallCount(c, k)]
      <4>1. CASE CallCount(c, k) = CallCount(c, n - 1)
        BY <1>1, <2>4, <2>5, <2>12, <3>3, <4>1 DEF Around
      <4>2. CASE CallCount(c, k) # CallCount(c, n - 1)
        <5>1. CallCount(c, k) \in 1 .. CallCount(c, n - 1) - 1
          BY <2>6, <2>7, <4>2
        <5> QED
          BY <1>1, <2>4, <2>5, <2>12, <3>3, <4>2, <5>1 DEF Around
      <4> QED
        BY <4>1, <4>2
    <3> QED
      BY <3>4, <3>5
  <2>13. CASE Top(c).kind # "fn" /\ under2 = under /\ open2 \in {open, Pop(open)}
              /\ (open2 = open \/ Top(c).at = "body")
    <3>1. CallCount(c, n) = CallCount(c, n - 1)
      BY <2>6, <2>13
    <3>2. CASE CallCount(c, k) = CallCount(c, n)
      <4>1. Around(c, open, under, k) = open /\ Around(d, open2, under2, k) = open2
        BY <1>1, <2>4, <2>5, <3>1, <3>2 DEF Around
      <4>2. CASE open2 = open
        BY <4>1, <4>2
      <4>3. CASE open2 = Pop(open) /\ Top(c).at = "body"
        <5>1. n \in 1 .. Len(c) /\ k \in 1 .. n /\ c[n].at = "body" /\ k # n
          BY <2>1, <4>3 DEF Top
        <5>2. /\ Height(c, k) \in Nat /\ Height(c, n) \in Nat /\ Height(c, k) < Height(c, n)
              /\ Height(c, k) >= 1
          <6> HIDE DEF n
          <6> QED
            BY <2>9, <3>2, <5>1, HeightsGrow
        <5>3. open # <<>>
          BY <2>10, <5>2
        <5>4. Height(c, k) \in 1 .. Len(open) - 1
          BY <2>10, <5>2
        <5> QED
          BY <4>1, <4>3, <5>3, <5>4, PopFacts, ZenonT(60)
      <4> QED
        BY <2>13, <4>2, <4>3
    <3>3. CASE CallCount(c, k) # CallCount(c, n)
      BY <1>1, <2>4, <2>5, <2>13, <3>1, <3>3 DEF Around
    <3> QED
      BY <3>2, <3>3
  <2> QED
    BY <2>11, <2>12, <2>13
<1>3. NamesOf(d, open2, under2, g) = [k \in 1 .. n - 1 |-> names[k]]
  <2>1. NamesOf(d, open2, under2, g) = [k \in 1 .. n - 1 |-> NameOf(d, open2, under2, g, k)]
    BY <1>1 DEF NamesOf
  <2>2. \A k \in 1 .. n - 1 : names[k] = NameOf(c, open, under, g, k)
    BY <1>1 DEF NamesOf
  <2> QED
    BY <1>2, <2>1, <2>2
<1>4. SubSeq(names, 1, n - 1) = [k \in 1 .. n - 1 |-> names[k]] /\ Len(names) = n
  <2>1. names = [k \in 1 .. n |-> names[k]] /\ n \in Nat /\ n - 1 \in 0 .. n
    BY <1>1, NamesFacts
  <2> HIDE DEF names, n
  <2> QED
    BY <2>1, FunctionFacts
<1>5. \A k \in 1 .. n - 1 : NamesOf(d, open2, under2, g)[k] = names[k]
  <2> HIDE DEF names
  <2> QED
    BY <1>3
<1> QED
  BY <1>3, <1>4, <1>5 DEF Pop

\* The name of the innermost construct.
LEMMA NameOfTop ==
  ASSUME NEW c \in Seq(Construct), Nested(c), c # <<>>,
         NEW open \in Seq(Scope), NEW under \in Seq(Seq(Scope)), NEW g \in Scope,
         Balanced(c, open, under)
  PROVE  LET name == NamesOf(c, open, under, g)[Len(c)]
         IN /\ Top(c).at = "head" => name = None
            /\ Top(c).at = "body" /\ Top(c).kind = "top" => name = g /\ open = <<>> /\ Len(c) = 1
            /\ Top(c).at = "body" /\ Top(c).kind # "top" => name = open[Len(open)] /\ open # <<>>
<1> DEFINE n == Len(c)
<1>1. n \in Nat \ {0} /\ n \in 1 .. n /\ n \in 1 .. Len(c) /\ n = Len(c)
  OBVIOUS
<1>2. NamesOf(c, open, under, g)[n] = NameOf(c, open, under, g, n)
  BY <1>1 DEF NamesOf
<1>3. Len(open) = Height(c, n)
  BY DEF Balanced
<1>4. ASSUME Top(c).at = "body", Top(c).kind = "top" PROVE open = <<>> /\ n = 1
  <2>1. n = 1
    <3> SUFFICES ASSUME n # 1 PROVE FALSE
      OBVIOUS
    <3>1. n - 1 \in 1 .. Len(c) - 1 /\ n - 1 + 1 = n
      <4> HIDE DEF n
      <4> QED
        BY <1>1
    <3>2. Encloses(c[n - 1], c[n - 1 + 1])
      BY <3>1 DEF Nested
    <3> QED
      BY <1>4, <3>1, <3>2 DEF Encloses, Top
  <2>2. Height(c, 1) = 0
    BY <1>4, <2>1, HeightBase DEF Top
  <2> QED
    BY <1>3, <2>1, <2>2
<1>5. ASSUME Top(c).at = "body", Top(c).kind # "top" PROVE open # <<>>
  <2>1. c[n].at = "body" /\ c[n].kind # "top"
    BY <1>5 DEF Top
  <2>2. Height(c, n) >= 1 /\ Height(c, n) \in Nat
    <3> HIDE DEF n
    <3> QED
      BY <1>1, <2>1, HeightsGrow
  <2> QED
    BY <1>3, <2>2
<1> QED
  BY <1>2, <1>3, <1>4, <1>5 DEF NameOf, Around, Top

\* Two functions on the same positions that agree but for the last.
On(f, n) == f = [k \in 1 .. n |-> f[k]]

LEMMA LastReplaced ==
  ASSUME NEW n \in Nat \ {0}, NEW f, NEW h, On(f, n), On(h, n),
         \A k \in 1 .. n - 1 : h[k] = f[k]
  PROVE  h = [f EXCEPT ![n] = h[n]]
<1>1. \A k \in 1 .. n : k = n \/ k \in 1 .. n - 1
  OBVIOUS
<1>3. n \in 1 .. n
  OBVIOUS
<1>4. DOMAIN f = 1 .. n
  <2> DEFINE r == [k \in 1 .. n |-> f[k]]
  <2>1. DOMAIN r = 1 .. n /\ r = f
    BY DEF On
  <2> HIDE DEF r
  <2> QED
    BY <2>1
<1>5. [f EXCEPT ![n] = h[n]] = [k \in 1 .. n |-> IF k = n THEN h[n] ELSE f[k]]
  BY <1>3, <1>4
<1>6. \A k \in 1 .. n : h[k] = IF k = n THEN h[n] ELSE f[k]
  BY <1>1
<1> QED
  BY <1>5, <1>6 DEF On

\* A binding of the innermost construct.
LEMMA NamesLet ==
  ASSUME NEW c \in Seq(Construct), Nested(c), c # <<>>, Top(c).at = "body",
         NEW open \in Seq(Scope), NEW open2 \in Seq(Scope), NEW under \in Seq(Seq(Scope)),
         NEW g \in Scope, NEW g2 \in Scope, NEW v \in Scope, Balanced(c, open, under),
         IF open = <<>> THEN g2 = v /\ open2 = open
                        ELSE open2 = [open EXCEPT ![Len(open)] = v] /\ g2 = g
  PROVE  NamesOf(c, open2, under, g2) = [NamesOf(c, open, under, g) EXCEPT ![Len(c)] = v]
<1> DEFINE n == Len(c)
           N == NamesOf(c, open, under, g)
           N2 == NamesOf(c, open2, under, g2)
<1>1. n \in Nat \ {0} /\ n = Len(c) /\ N = [k \in 1 .. n |-> N[k]] /\ N2 = [k \in 1 .. n |-> N2[k]]
  BY NamesFacts
<1>2. Len(open2) = Len(open) /\ (open # <<>> => open2[Len(open)] = v /\ Pop(open2) = Pop(open))
  <2>1. CASE open = <<>>
    BY <2>1
  <2>2. CASE open # <<>>
    <3>1. Len(open) \in 1 .. Len(open) /\ Len(open) \in Nat
      BY <2>2
    <3>2. open2 = [open EXCEPT ![Len(open)] = v]
      BY <2>2
    <3>3. Len(open2) = Len(open) /\ open2[Len(open)] = v /\ \A j \in 1 .. Len(open) : j # Len(open) => open2[j] = open[j]
      BY <3>1, <3>2, ReplaceFacts
    <3>4. open2 # <<>>
      BY <2>2, <3>3
    <3>5. /\ Pop(open2) \in Seq(Scope) /\ Len(Pop(open2)) = Len(open) - 1
          /\ \A k \in 1 .. Len(open) - 1 : Pop(open2)[k] = open2[k]
          /\ Pop(open) \in Seq(Scope) /\ Len(Pop(open)) = Len(open) - 1
          /\ \A k \in 1 .. Len(open) - 1 : Pop(open)[k] = open[k]
      BY <2>2, <3>3, <3>4, PopFacts
    <3>6. \A k \in 1 .. Len(open) - 1 : k \in 1 .. Len(open) /\ k # Len(open)
      BY <3>1
    <3>7. Pop(open2) = [k \in 1 .. Len(open) - 1 |-> Pop(open2)[k]]
      BY <3>5
    <3>8. Pop(open) = [k \in 1 .. Len(open) - 1 |-> Pop(open)[k]]
      BY <3>5
    <3>9. \A k \in 1 .. Len(open) - 1 : Pop(open2)[k] = Pop(open)[k]
      BY <3>3, <3>5, <3>6
    <3>10. Pop(open2) = Pop(open)
      BY <3>7, <3>8, <3>9
    <3> QED
      BY <3>3, <3>10
  <2> QED
    BY <2>1, <2>2
<1>3. Balanced(c, open2, under)
  BY <1>2 DEF Balanced
<1>4. N2[n] = v
  BY <1>2, <1>3, NameOfTop
<1>5. \A k \in 1 .. n - 1 : N2[k] = N[k]
  <2>1. CASE open = <<>>
    <3>1. Top(c).kind = "top" /\ n = 1
      BY <2>1, NameOfTop
    <3>2. 1 .. n - 1 = {}
      BY <3>1
    <3> QED
      BY <3>2
  <2>2. CASE open # <<>> /\ Top(c).kind # "fn"
    <3>1. Pop(open) \in Seq(Scope) /\ g2 = g
      BY <2>2, PopFacts
    <3>2. \A k \in 1 .. n - 1 : NamesOf(Pop(c), Pop(open), under, g)[k] = N[k]
      BY <2>2, <3>1, NamesPop
    <3>3. \A k \in 1 .. n - 1 : NamesOf(Pop(c), Pop(open), under, g)[k] = N2[k]
      BY <1>2, <1>3, <2>2, <3>1, NamesPop
    <3> QED
      BY <3>2, <3>3
  <2>3. CASE open # <<>> /\ Top(c).kind = "fn" /\ n # 1
    <3>1. g2 = g /\ under # <<>>
      <4>1. n - 1 \in 1 .. Len(c) - 1 /\ n - 1 + 1 = n
        <5> HIDE DEF n
        <5> QED
          BY <1>1, <2>3
      <4>2. /\ n - 1 \in 1 .. Len(c) /\ n - 1 < Len(c) /\ n \in n - 1 .. Len(c) /\ n - 1 < n
            /\ c[n - 1 + 1].kind = "fn"
        BY <1>1, <2>3, <4>1 DEF Top
      <4>3. CallCount(c, n - 1) \in 1 .. CallCount(c, n) /\ CallCount(c, n - 1) < CallCount(c, n)
        <5> HIDE DEF n
        <5> QED
          BY <4>2, CountRange
      <4>4. Len(under) = CallCount(c, n) - 1
        BY DEF Balanced
      <4>5. /\ CallCount(c, n - 1) \in Nat
            /\ CallCount(c, n - 1 + 1) = CallCount(c, n - 1) + (IF c[n - 1 + 1].kind = "fn" THEN 1 ELSE 0)
        <5> HIDE DEF n
        <5> QED
          BY <4>2, HeightStep
      <4>6. CallCount(c, n) \in Nat
        BY <4>1, <4>2, <4>5
      <4> QED
        BY <2>3, <4>3, <4>4, <4>6
    <3>2. /\ Top(under) \in Seq(Scope) /\ Pop(under) \in Seq(Seq(Scope))
      BY <3>1, PopFacts
    <3>3. \A k \in 1 .. n - 1 : NamesOf(Pop(c), Top(under), Pop(under), g)[k] = N[k]
      BY <2>3, <3>2, NamesPop
    <3>4. \A k \in 1 .. n - 1 : NamesOf(Pop(c), Top(under), Pop(under), g)[k] = N2[k]
      BY <1>3, <2>3, <3>1, <3>2, NamesPop
    <3> QED
      BY <3>3, <3>4
  <2>4. CASE n = 1
    <3>1. 1 .. n - 1 = {}
      BY <2>4
    <3> QED
      BY <3>1
  <2> QED
    BY <2>1, <2>2, <2>3, <2>4
<1>6. N2 = [N EXCEPT ![n] = N2[n]]
  <2>1. On(N, n) /\ On(N2, n)
    <3> HIDE DEF N, N2, n
    <3> QED
      BY <1>1 DEF On
  <2> HIDE DEF N, N2, n
  <2> QED
    BY <1>1, <1>5, <2>1, LastReplaced
<1> QED
  BY <1>4, <1>6

\* The same, for each way out.
LEMMA NamesUnder ==
  ASSUME NEW c \in Seq(Construct), Nested(c), c # <<>>,
         NEW open \in Seq(Scope), NEW under \in Seq(Seq(Scope)), NEW g \in Scope,
         Balanced(c, open, under)
  PROVE  /\ Top(c).kind # "fn" /\ Top(c).at = "head" =>
              \A k \in 1 .. Len(c) - 1 :
                NamesOf(Pop(c), open, under, g)[k] = NamesOf(c, open, under, g)[k]
         /\ Top(c).kind # "fn" /\ Top(c).at = "body" /\ Top(c).kind # "top" =>
              \A k \in 1 .. Len(c) - 1 :
                NamesOf(Pop(c), Pop(open), under, g)[k] = NamesOf(c, open, under, g)[k]
<1>1. CASE Top(c).kind # "fn" /\ Top(c).at = "head"
  <2>1. \A k \in 1 .. Len(c) - 1 :
          NamesOf(Pop(c), open, under, g)[k] = NamesOf(c, open, under, g)[k]
    BY <1>1, NamesPop
  <2> QED
    BY <1>1, <2>1
<1>2. CASE Top(c).kind # "fn" /\ Top(c).at = "body" /\ Top(c).kind # "top"
  <2>1. open # <<>>
    BY <1>2, NameOfTop
  <2>2. Pop(open) \in Seq(Scope)
    BY <2>1, PopFacts
  <2>3. \A k \in 1 .. Len(c) - 1 :
          NamesOf(Pop(c), Pop(open), under, g)[k] = NamesOf(c, open, under, g)[k]
    BY <1>2, <2>2, NamesPop
  <2> QED
    BY <1>2, <2>3
<1> QED
  BY <1>1, <1>2

\* What the innermost construct waits for, or which turn it is at, is nothing to the names.
LEMMA NamesStay ==
  ASSUME NEW c \in Seq(Construct), NEW d \in Seq(Construct), Nested(c), Len(d) = Len(c),
         \A j \in 1 .. Len(c) : d[j].kind = c[j].kind /\ d[j].at = c[j].at,
         NEW open \in Seq(Scope), NEW under \in Seq(Seq(Scope)), NEW g \in Scope
  PROVE  NamesOf(d, open, under, g) = NamesOf(c, open, under, g)
<1>1. Len(c) \in Nat
  OBVIOUS
<1>2. ASSUME NEW k \in 1 .. Len(c)
      PROVE  CallCount(d, k) = CallCount(c, k) /\ Height(d, k) = Height(c, k)
  <2>1. k <= Len(d) /\ \A j \in 1 .. k : d[j].kind = c[j].kind /\ d[j].at = c[j].at
    BY <1>1
  <2> QED
    BY <2>1, SameUpTo
<1>3. CASE Len(c) = 0
  BY <1>3 DEF NamesOf
<1>4. CASE Len(c) # 0
  <2>1. Len(c) \in 1 .. Len(c)
    BY <1>1, <1>4
  <2>2. \A k \in 1 .. Len(c) : NameOf(d, open, under, g, k) = NameOf(c, open, under, g, k)
    BY <1>2, <2>1 DEF NameOf, Around
  <2> QED
    BY <2>2 DEF NamesOf
<1> QED
  BY <1>3, <1>4

\* Going into the body of a loop binds its scope; going back to the head unbinds it.
LEMMA NamesTurn ==
  ASSUME NEW c \in Seq(Construct), Nested(c), c # <<>>,
         NEW q \in Construct, Proper(q), q.kind = Top(c).kind, q.kind \in Loops,
         NEW open \in Seq(Scope), NEW open2 \in Seq(Scope), NEW under \in Seq(Seq(Scope)),
         NEW g \in Scope, NEW v \in Scope, Balanced(c, open, under),
         \/ Top(c).at = "head" /\ q.at = "body" /\ open2 = Append(open, v)
         \/ Top(c).at = "body" /\ q.at = "head" /\ open2 = Pop(open) /\ v = None
  PROVE  NamesOf(Changed(c, q), open2, under, g) = [NamesOf(c, open, under, g) EXCEPT ![Len(c)] = v]
<1> DEFINE n == Len(c)
           d == Changed(c, q)
           N == NamesOf(c, open, under, g)
           N2 == NamesOf(d, open2, under, g)
<1>1. /\ d \in Seq(Construct) /\ Nested(d) /\ d # <<>> /\ Len(d) = n /\ Top(d) = q
      /\ q.kind # "fn" /\ q.kind # "top" /\ Pop(d) = Pop(c)
  BY ChangeFacts, PopOfChanged DEF Loops, StmtLoops, LoopExprs
<1>2. n \in Nat \ {0} /\ n = Len(c) /\ On(N, n) /\ On(N2, n)
  <2>1. /\ n \in Nat \ {0} /\ n = Len(c) /\ N = [k \in 1 .. n |-> N[k]]
        /\ N2 = [k \in 1 .. Len(d) |-> N2[k]]
    <3> HIDE DEF d
    <3> QED
      BY <1>1, NamesFacts
  <2> HIDE DEF N, N2, n, d
  <2> QED
    BY <1>1, <2>1 DEF On
<1>3. CASE Top(c).at = "head" /\ q.at = "body" /\ open2 = Append(open, v)
  <2>1. /\ Len(open2) = Len(open) + 1 /\ open2[Len(open) + 1] = v /\ open2 # <<>>
        /\ Len(open) \in Nat
    BY <1>3, PushFacts
  <2>2. Pop(open2) = open
    BY <1>3, PopOfPush
  <2>3. Balanced(d, open2, under)
    BY <1>3, <2>1, ChangeBalanced
  <2>4. N2[n] = v
    <3>1. N2[Len(d)] = open2[Len(open2)]
      <4> HIDE DEF d
      <4> QED
        BY <1>1, <1>3, <2>3, NameOfTop
    <3> QED
      BY <1>1, <2>1, <3>1
  <2>5. \A k \in 1 .. n - 1 : N2[k] = N[k]
    <3>1. \A k \in 1 .. n - 1 : NamesOf(Pop(c), open, under, g)[k] = N[k]
      BY <1>1, <1>3, NamesUnder
    <3>2. \A k \in 1 .. Len(d) - 1 : NamesOf(Pop(d), Pop(open2), under, g)[k] = N2[k]
      <4> HIDE DEF d
      <4>1. /\ Top(d).kind # "fn" /\ Top(d).at = "body" /\ Top(d).kind # "top"
            /\ Balanced(d, open2, under)
        BY <1>1, <1>3, <2>3
      <4> HIDE DEF N2
      <4>2. \A k \in 1 .. Len(d) - 1 :
              NamesOf(Pop(d), Pop(open2), under, g)[k] = NamesOf(d, open2, under, g)[k]
        BY <1>1, <4>1, NamesUnder
      <4> QED
        BY <4>2 DEF N2
    <3> QED
      BY <1>1, <2>2, <3>1, <3>2
  <2>6. N2 = [N EXCEPT ![n] = N2[n]]
    <3> HIDE DEF N, N2, n
    <3> QED
      BY <1>2, <2>5, LastReplaced
  <2> QED
    BY <2>4, <2>6
<1>4. CASE Top(c).at = "body" /\ q.at = "head" /\ open2 = Pop(open) /\ v = None
  <2>1. open # <<>>
    BY <1>1, <1>4, NameOfTop
  <2>2. Len(open2) = Len(open) - 1
    BY <1>4, <2>1, PopFacts
  <2>3. Balanced(d, open2, under)
    BY <1>4, <2>2, ChangeBalanced
  <2>4. N2[n] = v
    <3>1. N2[Len(d)] = None
      <4> HIDE DEF d
      <4> QED
        BY <1>1, <1>4, <2>3, NameOfTop
    <3> QED
      BY <1>1, <1>4, <3>1
  <2>5. \A k \in 1 .. n - 1 : N2[k] = N[k]
    <3>1. \A k \in 1 .. n - 1 : NamesOf(Pop(c), open2, under, g)[k] = N[k]
      BY <1>1, <1>4, NamesUnder
    <3>2. \A k \in 1 .. n - 1 : NamesOf(Pop(d), open2, under, g)[k] = N2[k]
      <4> HIDE DEF d
      <4> QED
        BY <1>1, <1>4, <2>3, NamesUnder
    <3> QED
      BY <1>1, <3>1, <3>2
  <2>6. N2 = [N EXCEPT ![n] = N2[n]]
    <3> HIDE DEF N, N2, n
    <3> QED
      BY <1>2, <2>5, LastReplaced
  <2> QED
    BY <2>4, <2>6
<1> QED
  BY <1>3, <1>4

\* A construct just entered binds nothing.
LEMMA NamesPush ==
  ASSUME NEW c \in Seq(Construct), Nested(c), c # <<>>,
         NEW p \in Construct, Proper(p), Encloses(Top(c), p),
         NEW open \in Seq(Scope), NEW open2 \in Seq(Scope),
         NEW under \in Seq(Seq(Scope)), NEW under2 \in Seq(Seq(Scope)), NEW g \in Scope,
         Balanced(c, open, under),
         \/ p.kind = "fn" /\ open2 = <<None>> /\ under2 = Append(under, open)
         \/ p.kind # "fn" /\ p.at = "body" /\ open2 = Append(open, None) /\ under2 = under
         \/ p.kind # "fn" /\ p.at = "head" /\ open2 = open /\ under2 = under
  PROVE  NamesOf(Append(c, p), open2, under2, g) = Append(NamesOf(c, open, under, g), None)
<1> DEFINE n == Len(c)
           d == Append(c, p)
           N == NamesOf(c, open, under, g)
           N2 == NamesOf(d, open2, under2, g)
<1>1. /\ d \in Seq(Construct) /\ Nested(d) /\ d # <<>> /\ Len(d) = n + 1 /\ Top(d) = p
      /\ \A k \in 1 .. n : d[k] = c[k]
  BY GoInFacts
<1>2. n \in Nat \ {0} /\ n = Len(c) /\ p.kind # "top" /\ None \in Scope /\ Len(open) \in Nat
  BY DEF Encloses, Scope
<1>3. Len(open2) = IF p.kind = "fn" THEN 1 ELSE IF p.at = "body" THEN Len(open) + 1 ELSE Len(open)
  BY <1>2, PushFacts
<1>4. Balanced(d, open2, under2)
  BY <1>3, GoInBalanced
<1>5. N2[n + 1] = None
  <2>1. p.at \in {"head", "body"}
    BY DEF Construct
  <2>2. CASE p.at = "head"
    <3>1. N2[Len(d)] = None
      <4> HIDE DEF d
      <4> QED
        BY <1>1, <1>4, <2>2, NameOfTop
    <3> QED
      BY <1>1, <3>1
  <2>3. CASE p.at = "body"
    <3>1. N2[Len(d)] = open2[Len(open2)]
      <4> HIDE DEF d
      <4> QED
        BY <1>1, <1>2, <1>4, <2>3, NameOfTop
    <3>2. CASE p.kind = "fn"
      <4>1. open2 = <<None>>
        BY <3>2
      <4>2. Len(open2) = 1 /\ open2[1] = None
        BY <4>1
      <4>3. open2[Len(open2)] = None
        BY <4>2
      <4> QED
        BY <1>1, <3>1, <4>3
    <3>3. CASE p.kind # "fn"
      <4>1. open2 = Append(open, None) /\ Len(open2) = Len(open) + 1
        BY <1>3, <2>3, <3>3
      <4>2. open2[Len(open2)] = None
        BY <1>2, <4>1, PushFacts
      <4> QED
        BY <1>1, <3>1, <4>2
    <3> QED
      BY <3>2, <3>3
  <2> QED
    BY <2>1, <2>2, <2>3
<1>6. Pop(d) = c
  BY PopOfPush
<1>7. \A k \in 1 .. n : N2[k] = N[k]
  <2>1. Len(d) - 1 = n
    BY <1>1, <1>2
  <2>2. CASE p.kind = "fn"
    <3>1. Top(under2) = open /\ Pop(under2) = under
      <4>1. under2 = Append(under, open)
        BY <2>2
      <4> QED
        BY <4>1, PopOfPush
    <3>2. \A k \in 1 .. Len(d) - 1 : NamesOf(Pop(d), open, under, g)[k] = N2[k]
      <4> HIDE DEF d
      <4> QED
        BY <1>1, <1>4, <2>2, <3>1, NamesPop
    <3> QED
      BY <1>6, <2>1, <3>2
  <2>3. CASE p.kind # "fn" /\ p.at = "body" /\ open2 = Append(open, None) /\ under2 = under
    <3>1. open = Pop(open2)
      BY <1>2, <2>3, PopOfPush
    <3>2. \A k \in 1 .. Len(d) - 1 : NamesOf(Pop(d), Pop(open2), under2, g)[k] = N2[k]
      <4> HIDE DEF d
      <4>1. /\ Top(d).kind # "fn" /\ Top(d).at = "body" /\ Top(d).kind # "top"
            /\ Balanced(d, open2, under2)
        BY <1>1, <1>2, <1>4, <2>3
      <4> HIDE DEF N2
      <4>2. \A k \in 1 .. Len(d) - 1 :
              NamesOf(Pop(d), Pop(open2), under2, g)[k] = NamesOf(d, open2, under2, g)[k]
        BY <1>1, <4>1, NamesUnder
      <4> QED
        BY <4>2 DEF N2
    <3> QED
      BY <1>6, <2>1, <2>3, <3>1, <3>2
  <2>4. CASE p.kind # "fn" /\ p.at = "head" /\ open2 = open /\ under2 = under
    <3>1. \A k \in 1 .. Len(d) - 1 : NamesOf(Pop(d), open2, under2, g)[k] = N2[k]
      <4> HIDE DEF d
      <4>1. /\ Top(d).kind # "fn" /\ Top(d).at = "head"
            /\ Balanced(d, open2, under2)
        BY <1>1, <1>4, <2>4
      <4> HIDE DEF N2
      <4>2. \A k \in 1 .. Len(d) - 1 :
              NamesOf(Pop(d), open2, under2, g)[k] = NamesOf(d, open2, under2, g)[k]
        BY <1>1, <4>1, NamesUnder
      <4> QED
        BY <4>2 DEF N2
    <3> QED
      BY <1>6, <2>1, <2>4, <3>1
  <2> QED
    BY <2>2, <2>3, <2>4
<1>8. Append(N, None) = [k \in 1 .. n + 1 |-> IF k = n + 1 THEN None ELSE N[k]]
  <2>1. n \in Nat /\ N = [k \in 1 .. n |-> N[k]]
    BY NamesFacts
  <2> HIDE DEF N, n
  <2> QED
    BY <2>1, FunctionFacts
<1>9. N2 = [k \in 1 .. n + 1 |-> N2[k]]
  BY <1>1 DEF NamesOf
<1>10. \A k \in 1 .. n + 1 : k = n + 1 \/ k \in 1 .. n
  BY <1>2
<1> HIDE DEF N, N2, n, d
<1> QED
  BY <1>5, <1>7, <1>8, <1>9, <1>10 DEF N, N2, d

\* In the innermost call every body has its scope among those open.
LEMMA NameHere ==
  ASSUME NEW c \in Seq(Construct), Nested(c), c # <<>>,
         NEW open \in Seq(Scope), NEW under \in Seq(Seq(Scope)), NEW g \in Scope,
         Balanced(c, open, under), NEW k \in Bottom(c, Len(c)) .. Len(c)
  PROVE  LET name == NamesOf(c, open, under, g)[k]
         IN /\ k \in 1 .. Len(c)
            /\ c[k].at = "head" => name = None
            /\ c[k].kind = "top" => k = 1 /\ c[k].at = "body" /\ name = g /\ Bottom(c, Len(c)) = 1
            /\ c[k].at = "body" /\ c[k].kind # "top" =>
                 name = open[Height(c, k)] /\ Height(c, k) \in 1 .. Len(open)
            /\ c[k].at \in {"head", "body"}
<1> DEFINE n == Len(c)
<1>1. n \in Nat \ {0} /\ n \in 1 .. n /\ n \in 1 .. Len(c) /\ n = Len(c)
  OBVIOUS
<1>2. k \in 1 .. n /\ CallCount(c, k) = CallCount(c, n)
  <2> HIDE DEF n
  <2> QED
    BY <1>1, SameCallUp
<1>3. NamesOf(c, open, under, g)[k] = NameOf(c, open, under, g, k)
  BY <1>2 DEF NamesOf
<1>4. c[k] \in Construct /\ Proper(c[k]) /\ c[k].at \in {"head", "body"}
  <2>1. c[k] \in Construct /\ Proper(c[k])
    BY <1>2 DEF Nested
  <2> QED
    BY <2>1 DEF Construct
<1>5. ASSUME c[k].kind = "top" PROVE k = 1 /\ c[k].at = "body" /\ Bottom(c, n) = 1
  <2>1. c[k].at = "body"
    <3>1. c[k].kind \in Frames
      BY <1>5 DEF Frames
    <3> QED
      BY <1>4, <3>1, FrameInBody
  <2>2. k = 1
    <3> SUFFICES ASSUME k # 1 PROVE FALSE
      OBVIOUS
    <3>1. k - 1 \in 1 .. Len(c) - 1 /\ k - 1 + 1 = k
      <4> HIDE DEF n
      <4> QED
        BY <1>1, <1>2
    <3>2. Encloses(c[k - 1], c[k - 1 + 1])
      BY <3>1 DEF Nested
    <3> QED
      BY <1>5, <3>1, <3>2 DEF Encloses
  <2>3. Bottom(c, n) \in 1 .. n /\ Bottom(c, n) <= k
    <3>1. Bottom(c, n) \in 1 .. n
      <4> HIDE DEF n
      <4> QED
        BY <1>1, BottomFacts
    <3> QED
      BY <3>1
  <2> QED
    BY <2>1, <2>2, <2>3
<1>6. ASSUME c[k].at = "body", c[k].kind # "top" PROVE Height(c, k) \in 1 .. Len(open)
  <2>1. /\ Height(c, k) \in Nat /\ Height(c, n) \in Nat /\ Height(c, k) <= Height(c, n)
        /\ Height(c, k) >= 1
    <3> HIDE DEF n
    <3> QED
      BY <1>1, <1>2, <1>6, HeightsGrow
  <2>2. Len(open) = Height(c, n)
    BY DEF Balanced
  <2> QED
    BY <2>1, <2>2
<1> QED
  BY <1>2, <1>3, <1>4, <1>5, <1>6 DEF NameOf, Around

\* The scopes that bind the name, and the constructs that do in the innermost call.
InUse(open) == {h \in 1 .. Len(open) : open[h] # None}
BoundIn(c, names) == {k \in Bottom(c, Len(c)) .. Len(c) : names[k] # None}

\* Where the name is bound in the innermost call, and the innermost of those places,
\* are the scope found and the construct it belongs to.
LEMMA Bindings ==
  ASSUME NEW c \in Seq(Construct), Nested(c), c # <<>>,
         NEW open \in Seq(Scope), NEW under \in Seq(Seq(Scope)),
         NEW g \in Scope, Balanced(c, open, under)
  PROVE  LET names == NamesOf(c, open, under, g)
             last == Max(BoundIn(c, names))
         IN /\ InUse(open) # {} =>
                 /\ BoundIn(c, names) # {} /\ last \in Bottom(c, Len(c)) .. Len(c)
                 /\ Max(InUse(open)) \in 1 .. Len(open)
                 /\ c[last].at = "body" /\ c[last].kind # "top"
                 /\ Height(c, last) = Max(InUse(open)) /\ names[last] = open[Max(InUse(open))]
            /\ InUse(open) = {} =>
                 (BoundIn(c, names) # {} <=> c[Bottom(c, Len(c))].kind = "top" /\ g # None)
            /\ InUse(open) = {} /\ BoundIn(c, names) # {} =>
                 last = 1 /\ names[last] = g /\ c[1].kind = "top"
<1> DEFINE n == Len(c)
           b == Bottom(c, n)
           names == NamesOf(c, open, under, g)
           F == {h \in 1 .. Len(open) : open[h] # None}
           B == {k \in b .. n : names[k] # None}
<1>1. /\ n \in Nat \ {0} /\ n \in 1 .. n /\ n \in 1 .. Len(c) /\ n = Len(c)
      /\ Len(open) \in Nat /\ Len(open) = Height(c, n)
  BY DEF Balanced
<1>2. b \in 1 .. n /\ c[b].kind \in Frames /\ b \in b .. n /\ b \in Nat
  <2>1. b \in 1 .. n /\ c[b].kind \in Frames
    <3> HIDE DEF n
    <3> QED
      BY <1>1, BottomFacts
  <2> HIDE DEF b
  <2> QED
    BY <1>1, <2>1
<1>3. \A k \in b .. n :
        /\ k \in 1 .. n
        /\ c[k].at = "head" => names[k] = None
        /\ c[k].kind = "top" => k = 1 /\ c[k].at = "body" /\ names[k] = g /\ b = 1
        /\ c[k].at = "body" /\ c[k].kind # "top" =>
             names[k] = open[Height(c, k)] /\ Height(c, k) \in 1 .. Len(open)
        /\ c[k].at \in {"head", "body"}
  <2> TAKE k \in b .. n
  <2>1. k \in Bottom(c, Len(c)) .. Len(c)
    OBVIOUS
  <2> HIDE DEF n, b, F, B, names
  <2>2. /\ k \in 1 .. Len(c)
        /\ c[k].at = "head" => NamesOf(c, open, under, g)[k] = None
        /\ c[k].at \in {"head", "body"}
    BY <2>1, NameHere
  <2>3. c[k].kind = "top" =>
          /\ k = 1 /\ c[k].at = "body" /\ NamesOf(c, open, under, g)[k] = g
          /\ Bottom(c, Len(c)) = 1
    BY <2>1, NameHere
  <2>4. c[k].at = "body" /\ c[k].kind # "top" =>
          /\ NamesOf(c, open, under, g)[k] = open[Height(c, k)]
          /\ Height(c, k) \in 1 .. Len(open)
    BY <2>1, NameHere
  <2> QED
    BY <1>1, <2>2, <2>3, <2>4 DEF b, names
<1>4. B \in SUBSET (1 .. n) /\ F \in SUBSET (1 .. Len(open))
  <2> HIDE DEF b, n, names
  <2> QED
    BY <1>3
<1>5. B # {} => Max(B) \in B /\ \A x \in B : x <= Max(B)
  <2> HIDE DEF B, n
  <2> QED
    BY <1>1, <1>4, MaxFacts
<1>6. F # {} => Max(F) \in F /\ \A x \in F : x <= Max(F)
  <2> HIDE DEF F
  <2> QED
    BY <1>1, <1>4, MaxFacts
<1>7. ASSUME F # {}
      PROVE  /\ B # {} /\ Max(B) \in b .. n /\ Max(F) \in 1 .. Len(open)
             /\ c[Max(B)].at = "body" /\ c[Max(B)].kind # "top"
             /\ Height(c, Max(B)) = Max(F) /\ names[Max(B)] = open[Max(F)]
  <2> DEFINE h == Max(F)
             p == Max(B)
  <2>1. h \in 1 .. Len(open) /\ open[h] # None /\ \A x \in F : x <= h
    BY <1>6, <1>7
  <2>2. PICK k \in b .. n : Height(c, k) = h /\ c[k].at = "body" /\ c[k].kind # "top"
    <3>1. h \in 1 .. Height(c, n)
      BY <1>1, <2>1
    <3> HIDE DEF h, n
    <3>2. \E k \in Bottom(c, n) .. n : Height(c, k) = h /\ c[k].at = "body" /\ c[k].kind # "top"
      BY <1>1, <3>1, BodyAt
    <3> QED
      BY <3>2
  <2>3. k \in B
    <3>1. names[k] = open[h]
      BY <1>3, <2>2
    <3> QED
      BY <2>1, <2>2, <3>1
  <2>4. p \in B /\ k <= p
    BY <1>5, <2>3
  <2>5. p \in b .. n /\ names[p] # None
    BY <2>4
  <2> HIDE DEF h, p, B, F
  <2>6. c[p].at = "body" /\ c[p].kind # "top"
    <3>1. c[p].at # "head" /\ c[p].at \in {"head", "body"}
      BY <1>3, <2>5
    <3>2. c[p].kind # "top"
      <4> SUFFICES ASSUME c[p].kind = "top" PROVE FALSE
        OBVIOUS
      <4>1. p = 1 /\ b = 1
        BY <1>3, <2>5
      <4>2. k = 1
        <5> HIDE DEF b, n
        <5> QED
          BY <1>1, <2>2, <2>4, <4>1
      <4> QED
        BY <2>2, <4>1, <4>2
    <3> QED
      BY <3>1, <3>2
  <2>7. names[p] = open[Height(c, p)] /\ Height(c, p) \in 1 .. Len(open)
    BY <1>3, <2>5, <2>6
  <2>8. Height(c, p) <= h
    <3>1. Height(c, p) \in F
      BY <2>5, <2>7 DEF F
    <3> QED
      BY <2>1, <3>1
  <2>9. p = k
    <3> SUFFICES ASSUME k # p PROVE FALSE
      OBVIOUS
    <3>1. p \in 1 .. Len(c) /\ k \in 1 .. p /\ CallCount(c, k) = CallCount(c, p)
      <4>1. p \in 1 .. n /\ k \in 1 .. n
        BY <1>3, <2>2, <2>5
      <4>2. k \in 1 .. p
        <5> HIDE DEF n, b
        <5> QED
          BY <1>1, <2>4, <4>1
      <4>3. CallCount(c, k) = CallCount(c, n) /\ CallCount(c, p) = CallCount(c, n)
        BY <1>1, <2>2, <2>5, SameCallUp
      <4> QED
        BY <4>1, <4>2, <4>3
    <3>2. Height(c, k) < Height(c, p) /\ Height(c, k) \in Nat /\ Height(c, p) \in Nat
      BY <2>6, <3>1, HeightsGrow
    <3> QED
      BY <2>2, <2>8, <3>2
  <2> QED
    BY <2>1, <2>2, <2>3, <2>5, <2>6, <2>7, <2>9 DEF h, p
<1>8. ASSUME F = {}, NEW k \in B
      PROVE  k = 1 /\ c[k].kind = "top" /\ names[k] = g /\ b = 1 /\ g # None
  <2>1. k \in b .. n /\ names[k] # None
    OBVIOUS
  <2>2. c[k].kind = "top"
    <3> SUFFICES ASSUME c[k].kind # "top" PROVE FALSE
      OBVIOUS
    <3>1. c[k].at = "body"
      BY <1>3, <2>1
    <3>2. open[Height(c, k)] # None /\ Height(c, k) \in 1 .. Len(open)
      BY <1>3, <2>1, <3>1
    <3> QED
      BY <1>8, <3>2
  <2> QED
    BY <1>3, <2>1, <2>2
<1>9. ASSUME F = {}, c[b].kind = "top", g # None PROVE B # {}
  <2>1. names[b] = g
    BY <1>2, <1>3, <1>9
  <2>2. b \in B
    BY <1>2, <1>9, <2>1
  <2> QED
    BY <2>2
<1>10. F = {} /\ B # {} => Max(B) = 1 /\ names[Max(B)] = g /\ c[1].kind = "top"
  <2> HIDE DEF F, B
  <2> QED
    BY <1>5, <1>8
<1>11. F = {} => (B # {} <=> c[b].kind = "top" /\ g # None)
  <2> HIDE DEF F, B, b
  <2> QED
    BY <1>8, <1>9
<1>12. InUse(open) = F /\ BoundIn(c, NamesOf(c, open, under, g)) = B /\ NamesOf(c, open, under, g) = names
  BY DEF InUse, BoundIn
<1> HIDE DEF F, B, names
<1> QED
  BY <1>7, <1>10, <1>11, <1>12

\* A binding of the innermost call changed.
LEMMA NamesSet ==
  ASSUME NEW c \in Seq(Construct), Nested(c), c # <<>>,
         NEW open \in Seq(Scope), NEW open2 \in Seq(Scope), NEW under \in Seq(Seq(Scope)),
         NEW g \in Scope, NEW g2 \in Scope, NEW v \in Scope, Balanced(c, open, under),
         NEW p \in Bottom(c, Len(c)) .. Len(c),
         \/ /\ c[p].at = "body" /\ c[p].kind # "top"
            /\ open2 = [open EXCEPT ![Height(c, p)] = v] /\ g2 = g
         \/ c[p].kind = "top" /\ open2 = open /\ g2 = v
  PROVE  NamesOf(c, open2, under, g2) = [NamesOf(c, open, under, g) EXCEPT ![p] = v]
<1> DEFINE n == Len(c)
           N == NamesOf(c, open, under, g)
           N2 == NamesOf(c, open2, under, g2)
<1>1. /\ n \in Nat \ {0} /\ n \in 1 .. n /\ n \in 1 .. Len(c) /\ n = Len(c)
  OBVIOUS
<1>2. /\ p \in 1 .. n
      /\ c[p].kind = "top" => p = 1 /\ c[p].at = "body"
      /\ c[p].at = "body" /\ c[p].kind # "top" => Height(c, p) \in 1 .. Len(open)
  <2> HIDE DEF n
  <2> QED
    BY <1>1, NameHere
<1>3. Len(open2) = Len(open)
  BY <1>2, ReplaceFacts
<1>4. CallCount(c, p) = CallCount(c, n)
  <2> HIDE DEF n
  <2> QED
    BY <1>1, SameCallUp
<1>5. ASSUME NEW k \in 1 .. n
      PROVE  NameOf(c, open2, under, g2, k) = IF k = p THEN v ELSE NameOf(c, open, under, g, k)
  <2>1. c[k] \in Construct /\ Proper(c[k]) /\ c[k].at \in {"head", "body"}
    <3>1. c[k] \in Construct /\ Proper(c[k])
      BY DEF Nested
    <3> QED
      BY <3>1 DEF Construct
  <2>2. CASE c[p].kind = "top" /\ open2 = open /\ g2 = v
    <3>1. c[k].kind = "top" => k = 1
      <4> SUFFICES ASSUME c[k].kind = "top", k # 1 PROVE FALSE
        OBVIOUS
      <4>1. k - 1 \in 1 .. Len(c) - 1 /\ k - 1 + 1 = k
        <5> HIDE DEF n
        <5> QED
          BY <1>1
      <4>2. Encloses(c[k - 1], c[k - 1 + 1])
        BY <4>1 DEF Nested
      <4> QED
        BY <4>1, <4>2 DEF Encloses
    <3>2. CASE k = p
      BY <1>2, <2>2, <3>2 DEF NameOf
    <3>3. CASE k # p
      BY <1>2, <2>2, <3>1, <3>3 DEF NameOf
    <3> QED
      BY <3>2, <3>3
  <2>3. CASE /\ c[p].at = "body" /\ c[p].kind # "top"
             /\ open2 = [open EXCEPT ![Height(c, p)] = v] /\ g2 = g
    <3>1. /\ Height(c, p) \in 1 .. Len(open) /\ open2[Height(c, p)] = v
          /\ \A j \in 1 .. Len(open) : j # Height(c, p) => open2[j] = open[j]
      BY <1>2, <2>3, ReplaceFacts
    <3>2. CASE k = p
      BY <1>4, <2>3, <3>1, <3>2 DEF NameOf, Around
    <3>3. CASE k # p /\ c[k].at = "body" /\ c[k].kind # "top" /\ CallCount(c, k) = CallCount(c, n)
      <4>1. Height(c, k) \in 1 .. Len(open)
        <5>1. /\ Height(c, k) \in Nat /\ Height(c, n) \in Nat /\ Height(c, k) <= Height(c, n)
              /\ Height(c, k) >= 1
          <6> HIDE DEF n
          <6> QED
            BY <1>1, <3>3, HeightsGrow
        <5>2. Len(open) = Height(c, n)
          BY DEF Balanced
        <5> QED
          BY <5>1, <5>2
      <4>2. Height(c, k) # Height(c, p)
        <5>1. CASE k < p
          <6>1. p \in 1 .. Len(c) /\ k \in 1 .. p /\ CallCount(c, k) = CallCount(c, p)
            <7> HIDE DEF n
            <7> QED
              BY <1>1, <1>2, <1>4, <3>3, <5>1
          <6>2. Height(c, k) < Height(c, p) /\ Height(c, k) \in Nat /\ Height(c, p) \in Nat
            BY <2>3, <3>3, <6>1, HeightsGrow
          <6> QED
            BY <6>2
        <5>2. CASE p < k
          <6>1. k \in 1 .. Len(c) /\ p \in 1 .. k /\ CallCount(c, p) = CallCount(c, k)
            <7> HIDE DEF n
            <7> QED
              BY <1>1, <1>2, <1>4, <3>3, <5>2
          <6>2. Height(c, p) < Height(c, k) /\ Height(c, k) \in Nat /\ Height(c, p) \in Nat
            BY <2>3, <3>3, <6>1, HeightsGrow
          <6> QED
            BY <6>2
        <5> HIDE DEF n
        <5> QED
          BY <1>1, <1>2, <3>3, <5>1, <5>2
      <4> QED
        BY <2>3, <3>1, <3>3, <4>1, <4>2 DEF NameOf, Around
    <3>4. CASE k # p /\ ~ (c[k].at = "body" /\ c[k].kind # "top" /\ CallCount(c, k) = CallCount(c, n))
      BY <2>1, <2>3, <3>4 DEF NameOf, Around
    <3> QED
      BY <3>2, <3>3, <3>4
  <2> QED
    BY <2>2, <2>3
<1>6. N2 = [k \in 1 .. n |-> IF k = p THEN v ELSE N[k]]
  <2>1. N2 = [k \in 1 .. n |-> NameOf(c, open2, under, g2, k)]
    BY DEF NamesOf
  <2>2. \A k \in 1 .. n : N[k] = NameOf(c, open, under, g, k)
    BY DEF NamesOf
  <2> HIDE DEF N, N2, n
  <2> QED
    BY <1>5, <2>1, <2>2
<1>7. [N EXCEPT ![p] = v] = [k \in 1 .. n |-> IF k = p THEN v ELSE N[k]]
  <2>1. DOMAIN N = 1 .. n
    BY DEF NamesOf
  <2> HIDE DEF N, n
  <2> QED
    BY <1>2, <2>1
<1> QED
  BY <1>6, <1>7

----------------------------------------------------------------------------
\* Where the compiled program stands.

\* What the name means at each construct; where it is bound in the innermost call.
Meant == NamesOf(stack, scopes, saved, globals)
Bound == {k \in Bottom(stack, Len(stack)) .. Len(stack) : Meant[k] # None}

\* The names and the slots of the compiled program, as the model reads them off.
Names == [k \in 1 .. Len(Landed) |-> NameAt(k)]
Slots == [k \in 1 .. Len(Landed) |-> 0]

\* What is said of the interpreter, in the words used here.
LEMMA MeantFacts ==
  ASSUME FlowInv
  PROVE  /\ stack \in Seq(Construct) /\ Nested(stack) /\ Len(stack) \in Nat
         /\ scopes \in Seq(Scope) /\ saved \in Seq(Seq(Scope)) /\ globals \in Scope
         /\ Balanced(stack, scopes, saved)
         /\ Meant = [k \in 1 .. Len(stack) |-> Meant[k]]
         /\ \A k \in 1 .. Len(stack) :
              /\ stack[k].at \in {"head", "body"}
              /\ Meant[k] = NameOf(stack, scopes, saved, globals, k)
<1>1. /\ stack \in Seq(Construct) /\ Nested(stack)
      /\ scopes \in Seq(Scope) /\ saved \in Seq(Seq(Scope)) /\ globals \in Scope
      /\ Balanced(stack, scopes, saved)
  BY DEF FlowInv, Types
<1>2. Len(stack) \in Nat /\ \A k \in 1 .. Len(stack) : stack[k] \in Construct
  BY <1>1
<1>3. \A k \in 1 .. Len(stack) : stack[k].at \in {"head", "body"}
  BY <1>2 DEF Construct
<1>4. /\ Meant = [k \in 1 .. Len(stack) |-> Meant[k]]
      /\ \A k \in 1 .. Len(stack) : Meant[k] = NameOf(stack, scopes, saved, globals, k)
  BY <1>1, NamesFacts DEF Meant
<1> QED
  BY <1>1, <1>2, <1>3, <1>4

\* Where control is as in the interpreter, the name means the same.
LEMMA NameLanded ==
  ASSUME FlowInv, NEW k \in 1 .. Len(stack), Landed[k].at = stack[k].at
  PROVE  NameAt(k) = Meant[k]
<1>1. stack # <<>> /\ Len(stack) \in 1 .. Len(stack)
  BY MeantFacts
<1>2. /\ Calls(k) = CallCount(stack, k) /\ Cardinality(Opened(k)) = Height(stack, k)
      /\ Calls(Len(stack)) = CallCount(stack, Len(stack))
  BY <1>1, SameCounts
<1>3. ScopesAt(k) = Around(stack, scopes, saved, k)
  BY <1>2 DEF ScopesAt, Around
<1>4. stack[k].at \in {"head", "body"} /\ Meant[k] = NameOf(stack, scopes, saved, globals, k)
  BY MeantFacts
<1>5. CASE stack[k].at = "head"
  BY <1>4, <1>5 DEF NameAt, NameOf
<1>6. CASE stack[k].at = "body" /\ stack[k].kind = "top"
  BY <1>4, <1>6 DEF NameAt, NameOf
<1>7. CASE stack[k].at = "body" /\ stack[k].kind # "top"
  BY <1>2, <1>3, <1>4, <1>7 DEF NameAt, NameOf
<1> QED
  BY <1>4, <1>5, <1>6, <1>7

\* The compiled program is at rest where the interpreter is, or has left some of
\* the innermost constructs.
LEMMA LandedOuter ==
  ASSUME FlowInv, NEW m \in 0 .. Len(stack), Landed = SubSeq(stack, 1, m)
  PROVE  Names = SubSeq(Meant, 1, m) /\ Slots = Zeros(m) /\ Len(Landed) = m
<1>1. Len(stack) \in Nat /\ stack \in Seq(Construct) /\ Meant = [k \in 1 .. Len(stack) |-> Meant[k]]
  BY MeantFacts
<1>2. stack = [k \in 1 .. Len(stack) |-> stack[k]]
  BY <1>1
<1>3. Landed = [k \in 1 .. m |-> stack[k]]
  BY <1>1, <1>2, FunctionFacts
<1>4. SubSeq(Meant, 1, m) = [k \in 1 .. m |-> Meant[k]]
  BY <1>1, FunctionFacts
<1>5. \A k \in 1 .. m : Landed[k] = stack[k] /\ k \in 1 .. Len(stack)
  BY <1>1, <1>3
<1>6. Len(Landed) = m
  <2>1. Landed = [k \in 1 .. m |-> Landed[k]]
    BY <1>3
  <2> QED
    BY <2>1, FunctionFacts
<1>7. \A k \in 1 .. m : NameAt(k) = Meant[k]
  BY <1>5, NameLanded
<1>8. Names = [k \in 1 .. m |-> Meant[k]]
  BY <1>6, <1>7 DEF Names
<1> QED
  BY <1>4, <1>6, <1>8 DEF Slots, Zeros

\* At rest: no flag is set.
Rest(s, names, value) ==
  /\ Landed = s /\ Names = names /\ Slots = Zeros(Len(s)) /\ LandedValue = value

LEMMA AtRest == FlowInv /\ Quiet => Rest(stack, Meant, acc)
<1> SUFFICES ASSUME FlowInv, Quiet PROVE Rest(stack, Meant, acc)
  OBVIOUS
<1>1. /\ Len(stack) \in Nat /\ stack \in Seq(Construct) /\ Meant = [k \in 1 .. Len(stack) |-> Meant[k]]
  BY MeantFacts
<1>2. stack = [k \in 1 .. Len(stack) |-> stack[k]] /\ Len(stack) \in 0 .. Len(stack)
  BY <1>1
<1>3. SubSeq(stack, 1, Len(stack)) = stack
  BY <1>1, <1>2, FunctionFacts
<1>4. SubSeq(Meant, 1, Len(stack)) = Meant
  BY <1>1, <1>2, FunctionFacts
<1>5. Landed = stack /\ LandedValue = acc
  BY DEF Landed, LandedValue, Quiet
<1> QED
  BY <1>2, <1>3, <1>4, <1>5, LandedOuter DEF Rest

\* The innermost loop a break or a continue is for.
LEMMA LoopFacts ==
  ASSUME NEW c \in Seq(Construct), Nested(c), c # <<>>
  PROVE  /\ FrameOf(c) = Bottom(c, Len(c)) /\ FrameOf(c) \in 1 .. Len(c) /\ Len(c) \in Nat \ {0}
         /\ OpenLoops(c) # {} =>
              /\ Max(OpenLoops(c)) \in 1 .. Len(c) /\ Max(OpenLoops(c)) \in OpenLoops(c)
              /\ c[Max(OpenLoops(c))].kind \in Loops
              /\ \A x \in OpenLoops(c) : x <= Max(OpenLoops(c))
<1>1. Len(c) \in Nat \ {0} /\ Len(c) \in 1 .. Len(c)
  OBVIOUS
<1>2. FrameOf(c) = Bottom(c, Len(c)) /\ Bottom(c, Len(c)) \in 1 .. Len(c)
  BY <1>1, BottomFacts DEF FrameOf, Bottom
<1>3. OpenLoops(c) \in SUBSET (1 .. Len(c)) /\ \A k \in OpenLoops(c) : c[k].kind \in Loops
  BY <1>1, <1>2 DEF OpenLoops
<1>4. OpenLoops(c) # {} =>
        /\ Max(OpenLoops(c)) \in OpenLoops(c)
        /\ \A x \in OpenLoops(c) : x <= Max(OpenLoops(c))
  BY <1>1, <1>3, MaxFacts
<1> QED
  BY <1>1, <1>2, <1>3, <1>4

\* A jump is under way only in some construct.
LEMMA UnderWay ==
  ASSUME FlowInv, lifted = {}, ~Quiet
  PROVE  /\ stack # <<>> /\ after /\ T.at = "body" /\ T.wait = "none" /\ acc = None
         /\ returned # None => ~should_break /\ ~should_continue
         /\ should_break => ~should_continue /\ returned = None /\ OpenLoops(stack) # {}
         /\ should_continue => ~should_break /\ returned = None /\ OpenLoops(stack) # {}
         /\ returned # None => InFn(stack, Len(stack)) /\ OpenLoopExprs(stack) = {}
<1>1. after
  BY DEF FlowInv, FlagInv
<1>2. stack # <<>> /\ T.at = "body" /\ T.wait = "none" /\ acc = None
  BY <1>1, AfterFacts
<1>3. Jumps(stack, Len(stack))
  BY <1>2 DEF FlowInv, FlagInv
<1> QED
  BY <1>1, <1>2, <1>3, AroundFacts DEF Jumps

\* A return has left the function...
Left(k, value) ==
  /\ k \in 1 .. Len(stack)
  /\ Landed = SubSeq(stack, 1, k - 1) /\ Names = SubSeq(Meant, 1, k - 1)
  /\ Slots = Zeros(k - 1) /\ LandedValue = value

LEMMA AtReturn ==
  FlowInv /\ lifted = {} /\ returned # None =>
    Left(FrameOf(stack), IF FrameOf(stack) = 1 THEN None ELSE returned)
<1> SUFFICES ASSUME FlowInv, lifted = {}, returned # None
             PROVE  Left(FrameOf(stack), IF FrameOf(stack) = 1 THEN None ELSE returned)
  OBVIOUS
<1> DEFINE f == FrameOf(stack)
<1>1. ~Quiet
  BY DEF Quiet
<1>2. stack # <<>> /\ stack \in Seq(Construct) /\ Nested(stack)
  BY <1>1, UnderWay, MeantFacts
<1>3. f \in 1 .. Len(stack) /\ Len(stack) \in Nat
  BY <1>2, LoopFacts
<1>4. Landed = SubSeq(stack, 1, f - 1)
  BY DEF Landed
<1>5. LandedValue = IF f = 1 THEN None ELSE returned
  BY DEF LandedValue
<1>6. f - 1 \in 0 .. Len(stack)
  <2> HIDE DEF f
  <2> QED
    BY <1>3
<1> HIDE DEF f
<1>7. Names = SubSeq(Meant, 1, f - 1) /\ Slots = Zeros(f - 1)
  BY <1>4, <1>6, LandedOuter
<1>8. Left(f, IF f = 1 THEN None ELSE returned)
  BY <1>3, <1>4, <1>5, <1>7 DEF Left
<1> QED
  BY <1>8 DEF f

\* ...a break the loop...
LEMMA AtBreak ==
  FlowInv /\ lifted = {} /\ should_break =>
    Left(Max(OpenLoops(stack)),
         IF stack[Max(OpenLoops(stack))].kind \in LoopExprs
           THEN IF break_value = None THEN 0 ELSE break_value
           ELSE None)
<1> DEFINE l == Max(OpenLoops(stack))
           v == IF stack[l].kind \in LoopExprs
                  THEN IF break_value = None THEN 0 ELSE break_value
                  ELSE None
<1> SUFFICES ASSUME FlowInv, lifted = {}, should_break PROVE Left(l, v)
  OBVIOUS
<1>1. ~Quiet
  BY DEF Quiet
<1>2. stack # <<>> /\ stack \in Seq(Construct) /\ Nested(stack) /\ OpenLoops(stack) # {}
      /\ returned = None /\ acc = None
  BY <1>1, UnderWay, MeantFacts
<1>3. l \in 1 .. Len(stack) /\ Len(stack) \in Nat
  BY <1>2, LoopFacts
<1>4. Landed = SubSeq(stack, 1, l - 1)
  BY <1>2 DEF Landed
<1>5. LandedValue = v
  BY <1>2 DEF LandedValue
<1>6. l - 1 \in 0 .. Len(stack)
  <2> HIDE DEF l
  <2> QED
    BY <1>3
<1> HIDE DEF l, v
<1>7. Names = SubSeq(Meant, 1, l - 1) /\ Slots = Zeros(l - 1)
  BY <1>4, <1>6, LandedOuter
<1> QED
  BY <1>3, <1>4, <1>5, <1>7 DEF Left

\* ...and a continue has gone back to the head of the loop.
Again(k) ==
  /\ k \in 1 .. Len(stack)
  /\ Landed = NextTurn(SubSeq(stack, 1, k)) /\ Names = Append(SubSeq(Meant, 1, k - 1), None)
  /\ Slots = Zeros(k) /\ LandedValue = None

\* The next turn changes the top alone.
LEMMA NextTurnFacts ==
  ASSUME NEW c \in Seq(Construct), c # <<>>
  PROVE  /\ Len(NextTurn(c)) = Len(c) /\ NextTurn(c)[Len(c)].at = "head"
         /\ \A k \in 1 .. Len(c) : k # Len(c) => NextTurn(c)[k] = c[k]
<1> DEFINE q == [Top(c) EXCEPT !.at = "head",
                   !.next = IF Top(c).kind \in Counted THEN Top(c).next + 1 ELSE Top(c).next]
<1>1. NextTurn(c) = [c EXCEPT ![Len(c)] = q]
  BY ChangesOfTop DEF Changed
<1>2. Len(c) \in 1 .. Len(c) /\ Len(c) \in Nat /\ DOMAIN c = 1 .. Len(c)
  OBVIOUS
<1>3. q.at = "head"
  <2>1. Top(c) \in Construct
    BY <1>2 DEF Top
  <2> QED
    BY <2>1 DEF Construct
<1> HIDE DEF q
<1>4. [c EXCEPT ![Len(c)] = q] = [k \in 1 .. Len(c) |-> IF k = Len(c) THEN q ELSE c[k]]
  BY <1>2
<1>5. NextTurn(c) = [k \in 1 .. Len(c) |-> NextTurn(c)[k]]
  BY <1>1, <1>4
<1>6. Len(NextTurn(c)) = Len(c)
  BY <1>2, <1>5, FunctionFacts
<1> QED
  BY <1>1, <1>2, <1>3, <1>4, <1>6

LEMMA AtContinue ==
  FlowInv /\ lifted = {} /\ should_continue => Again(Max(OpenLoops(stack)))
<1> DEFINE l == Max(OpenLoops(stack))
           c == SubSeq(stack, 1, l)
<1> SUFFICES ASSUME FlowInv, lifted = {}, should_continue PROVE Again(l)
  OBVIOUS
<1>1. ~Quiet
  BY DEF Quiet
<1>2. stack # <<>> /\ stack \in Seq(Construct) /\ Nested(stack) /\ OpenLoops(stack) # {}
      /\ returned = None /\ acc = None /\ ~should_break
  BY <1>1, UnderWay, MeantFacts
<1>3. l \in 1 .. Len(stack) /\ Len(stack) \in Nat
  BY <1>2, LoopFacts
<1>4. Landed = NextTurn(c)
  BY <1>2 DEF Landed
<1>5. LandedValue = None
  BY <1>2 DEF LandedValue
<1> HIDE DEF l
<1>6. l \in 0 .. Len(stack) /\ l - 1 \in 0 .. Len(stack) /\ l \in Nat /\ l - 1 \in Nat /\ l - 1 + 1 = l
      /\ Meant = [k \in 1 .. Len(stack) |-> Meant[k]]
  BY <1>3, MeantFacts
<1>7. c = [k \in 1 .. l |-> stack[k]] /\ c \in Seq(Construct) /\ Len(c) = l /\ c # <<>>
  <2>1. stack = [k \in 1 .. Len(stack) |-> stack[k]]
    BY <1>2
  <2>2. c = [k \in 1 .. l |-> stack[k]]
    BY <1>3, <1>6, <2>1, FunctionFacts
  <2>3. \A k \in 1 .. l : stack[k] \in Construct
    BY <1>2, <1>3
  <2>4. c \in [1 .. l -> Construct]
    <3> HIDE DEF c
    <3> QED
      BY <2>2, <2>3
  <2>5. c \in Seq(Construct) /\ c = [k \in 1 .. l |-> c[k]]
    <3> HIDE DEF c
    <3> QED
      BY <1>6, <2>4, SeqDef
  <2>6. Len(c) = l
    <3> HIDE DEF c
    <3> QED
      BY <1>6, <2>5, FunctionFacts
  <2>7. c # <<>>
    <3> HIDE DEF c
    <3> QED
      BY <1>3, <2>6
  <2> QED
    BY <2>2, <2>5, <2>6, <2>7
<1>8. /\ Len(Landed) = l /\ Landed[l].at = "head"
      /\ \A k \in 1 .. l - 1 : Landed[k] = stack[k] /\ k \in 1 .. Len(stack)
  <2> HIDE DEF c
  <2>1. /\ Len(Landed) = l /\ Landed[l].at = "head"
        /\ \A k \in 1 .. l : k # l => Landed[k] = c[k]
    BY <1>4, <1>7, NextTurnFacts
  <2>2. \A k \in 1 .. l - 1 : k \in 1 .. l /\ k # l /\ k \in 1 .. Len(stack) /\ c[k] = stack[k]
    BY <1>3, <1>6, <1>7
  <2> QED
    BY <2>1, <2>2
<1>9. \A k \in 1 .. l - 1 : NameAt(k) = Meant[k]
  BY <1>8, NameLanded
<1>10. NameAt(l) = None
  BY <1>8 DEF NameAt
<1>11. SubSeq(Meant, 1, l - 1) = [k \in 1 .. l - 1 |-> Meant[k]]
  BY <1>6, <1>3, FunctionFacts
<1> DEFINE s == SubSeq(Meant, 1, l - 1)
<1>12. Append(s, None) = [k \in 1 .. l |-> IF k = l THEN None ELSE s[k]]
  <2>1. s = [k \in 1 .. l - 1 |-> s[k]]
    BY <1>11
  <2>2. Append(s, None) = [k \in 1 .. l - 1 + 1 |-> IF k = l - 1 + 1 THEN None ELSE s[k]]
    <3> HIDE DEF s
    <3> QED
      BY <1>6, <2>1, FunctionFacts
  <2> HIDE DEF s
  <2> QED
    BY <1>6, <2>2
<1>13. \A k \in 1 .. l : NameAt(k) = IF k = l THEN None ELSE s[k]
  <2>1. \A k \in 1 .. l : k = l \/ k \in 1 .. l - 1
    BY <1>6
  <2>2. \A k \in 1 .. l - 1 : s[k] = Meant[k]
    BY <1>11
  <2> HIDE DEF s
  <2> QED
    BY <1>9, <1>10, <2>1, <2>2
<1>14. Names = Append(s, None)
  <2> HIDE DEF s
  <2> QED
    BY <1>8, <1>12, <1>13 DEF Names
<1> QED
  BY <1>3, <1>4, <1>5, <1>8, <1>14 DEF Again, Slots, Zeros

----------------------------------------------------------------------------
\* The operations of the compiled program, of what Landed and the others say.

\* Both modules speak of the nest in the same words.
LEMMA SameNesting ==
  /\ Native!Frames = Frames /\ Native!Loops = Loops /\ Native!LoopExprs = LoopExprs
  /\ Native!Tested = Tested /\ Native!Counted = Counted
  /\ \A c : /\ Native!Top(c) = Top(c) /\ Native!Pop(c) = Pop(c) /\ Native!InBody(c) = InBody(c)
            /\ Native!FrameOf(c) = FrameOf(c) /\ Native!OpenLoops(c) = OpenLoops(c)
            /\ Native!OpenLoopExprs(c) = OpenLoopExprs(c) /\ Native!NextTurn(c) = NextTurn(c)
            /\ Native!UnitFrame(c) <=> UnitFrame(c)
  /\ \A c, use : Native!Waiting(c, use) = Waiting(c, use)
  /\ \A p : (Native!MayTurn(p) <=> MayTurn(p)) /\ (Native!MayEnd(p) <=> MayEnd(p))
  /\ \A S : Native!Max(S) = Max(S)
<1>1. /\ Native!Frames = Frames /\ Native!Loops = Loops /\ Native!LoopExprs = LoopExprs
      /\ Native!Tested = Tested /\ Native!Counted = Counted
  BY DEF Native!Frames, Frames, Native!Loops, Loops, Native!LoopExprs, LoopExprs, Native!StmtLoops,
     StmtLoops, Native!Tested, Tested, Native!Counted, Counted
<1>2. \A S : Native!Max(S) = Max(S)
  BY DEF Native!Max, Max
<1>3. \A c : Native!Top(c) = Top(c) /\ Native!Pop(c) = Pop(c) /\ Native!InBody(c) = InBody(c)
  BY DEF Native!Top, Top, Native!Pop, Pop, Native!InBody, InBody
<1>4. \A c : Native!FrameOf(c) = FrameOf(c)
  BY <1>1, <1>2 DEF Native!FrameOf, FrameOf
<1>5. \A c : Native!OpenLoops(c) = OpenLoops(c)
  BY <1>1, <1>4 DEF Native!OpenLoops, OpenLoops
<1>6. \A c : Native!OpenLoopExprs(c) = OpenLoopExprs(c)
  BY <1>1, <1>5 DEF Native!OpenLoopExprs, OpenLoopExprs
<1>7. \A c : Native!NextTurn(c) = NextTurn(c)
  BY <1>1, <1>3 DEF Native!NextTurn, NextTurn
<1>8. \A c : Native!UnitFrame(c) <=> UnitFrame(c)
  BY <1>4 DEF Native!UnitFrame, UnitFrame
<1>9. \A c, use : Native!Waiting(c, use) = Waiting(c, use)
  BY DEF Native!Waiting, Waiting
<1>10. \A p : (Native!MayTurn(p) <=> MayTurn(p)) /\ (Native!MayEnd(p) <=> MayEnd(p))
  BY <1>1 DEF Native!MayTurn, MayTurn, Native!MayEnd, MayEnd
<1> QED
  BY <1>1, <1>2, <1>3, <1>4, <1>5, <1>6, <1>7, <1>8, <1>9, <1>10

LEMMA SameHeaders ==
  /\ \A k, n, b : Native!Place(k, n, b) = Place(k, n, b)
  /\ \A t, c, n : Native!Headers(t, c, n) = Headers(t, c, n)
  /\ Native!Uses = Uses
<1>1. \A k, n, b : Native!Place(k, n, b) = Place(k, n, b)
  BY SameNesting DEF Native!Place, Place
<1>2. \A t, c, n : Native!Headers(t, c, n) = Headers(t, c, n)
  BY DEF Native!Headers, Headers, Native!Place, Place, Native!Loops, Loops, Native!StmtLoops,
     StmtLoops, Native!LoopExprs, LoopExprs
<1>3. Native!Uses = Uses
  BY DEF Native!Uses, Uses, Native!Waits, Waits
<1> QED
  BY <1>1, <1>2, <1>3

\* Where control is.
LEMMA NativeHere ==
  /\ Native!T = Top(Landed)
  /\ Native!Running <=> Landed # <<>> /\ LandedValue = None /\ Top(Landed).wait = "none"
  /\ Native!Ready <=> Native!Running /\ Top(Landed).at = "body"
  /\ Native!Binding = {k \in FrameOf(Landed) .. Len(Landed) : Names[k] # None}
<1>1. Native!T = Top(Landed)
  BY SameNesting DEF Native!T
<1> QED
  BY <1>1, SameNesting DEF Native!Running, Native!Ready, Native!Binding, Names

\* What the operations the others share do.
LEMMA NativeEffects ==
  /\ \A c, k : Native!Keep(c, k) <=> Landed' = SubSeq(c, 1, k) /\ Names' = SubSeq(Names, 1, k)
  /\ \A c, k, s :
       Native!LoopOver(c, k, s) <=>
         /\ Landed' = SubSeq(c, 1, k - 1) /\ Names' = SubSeq(Names, 1, k - 1)
         /\ Slots' = SubSeq(s, 1, k - 1)
         /\ LandedValue' = IF c[k].kind \in LoopExprs THEN s[k] ELSE None
  /\ \A c, k :
       Native!TurnAgain(c, k) <=>
         /\ Landed' = NextTurn(SubSeq(c, 1, k)) /\ Names' = Append(SubSeq(Names, 1, k - 1), None)
         /\ Slots' = SubSeq(Slots, 1, k) /\ LandedValue' = None
  /\ \A c, v :
       Native!Leave(c, v) <=>
         /\ Landed' = SubSeq(c, 1, FrameOf(c) - 1) /\ Names' = SubSeq(Names, 1, FrameOf(c) - 1)
         /\ Slots' = SubSeq(Slots, 1, FrameOf(c) - 1)
         /\ LandedValue' = IF FrameOf(c) = 1 THEN None ELSE v
  /\ \A p, use :
       Native!Enter(p, use) <=>
         /\ Len(Landed) < MaxDepth /\ Landed' = Append(Waiting(Landed, use), p)
         /\ Names' = Append(Names, None) /\ Slots' = Append(Slots, 0) /\ LandedValue' = LandedValue
<1>1. \A c, k : Native!Keep(c, k) <=> Landed' = SubSeq(c, 1, k) /\ Names' = SubSeq(Names, 1, k)
  BY DEF Native!Keep, Names
<1>2. \A c, k, s :
        Native!LoopOver(c, k, s) <=>
          /\ Landed' = SubSeq(c, 1, k - 1) /\ Names' = SubSeq(Names, 1, k - 1)
          /\ Slots' = SubSeq(s, 1, k - 1)
          /\ LandedValue' = IF c[k].kind \in LoopExprs THEN s[k] ELSE None
  BY <1>1, SameNesting DEF Native!LoopOver, Slots
<1>3. \A c, k :
        Native!TurnAgain(c, k) <=>
          /\ Landed' = NextTurn(SubSeq(c, 1, k)) /\ Names' = Append(SubSeq(Names, 1, k - 1), None)
          /\ Slots' = SubSeq(Slots, 1, k) /\ LandedValue' = None
  BY SameNesting DEF Native!TurnAgain, Slots, Names
<1>4. \A c, v :
        Native!Leave(c, v) <=>
          /\ Landed' = SubSeq(c, 1, FrameOf(c) - 1) /\ Names' = SubSeq(Names, 1, FrameOf(c) - 1)
          /\ Slots' = SubSeq(Slots, 1, FrameOf(c) - 1)
          /\ LandedValue' = IF FrameOf(c) = 1 THEN None ELSE v
  BY <1>1, SameNesting DEF Native!Leave, Slots
<1>5. \A p, use :
        Native!Enter(p, use) <=>
          /\ Len(Landed) < MaxDepth /\ Landed' = Append(Waiting(Landed, use), p)
          /\ Names' = Append(Names, None) /\ Slots' = Append(Slots, 0) /\ LandedValue' = LandedValue
  BY SameNesting DEF Native!Enter, Slots, Names
<1> QED
  BY <1>1, <1>2, <1>3, <1>4, <1>5

----------------------------------------------------------------------------
\* How what the name means changes with each move of the interpreter.

\* The types after a step.
LEMMA NextFacts ==
  ASSUME FlowInv'
  PROVE  /\ stack' \in Seq(Construct) /\ Nested(stack') /\ Len(stack') \in Nat
         /\ scopes' \in Seq(Scope) /\ saved' \in Seq(Seq(Scope)) /\ globals' \in Scope
         /\ Balanced(stack', scopes', saved')
<1>1. /\ stack' \in Seq(Construct) /\ Nested(stack')
      /\ scopes' \in Seq(Scope) /\ saved' \in Seq(Seq(Scope)) /\ globals' \in Scope
      /\ Balanced(stack', scopes', saved')
  BY DEF FlowInv, Types
<1> QED
  BY <1>1

\* What the innermost construct waits for is all that is changed by waiting.
LEMMA WaitingFacts ==
  ASSUME NEW c \in Seq(Construct), c # <<>>, NEW use \in Waits
  PROVE  /\ Waiting(c, use) \in Seq(Construct) /\ Len(Waiting(c, use)) = Len(c)
         /\ Waiting(c, use) = Changed(c, [Top(c) EXCEPT !.wait = use])
         /\ \A k \in 1 .. Len(c) :
              /\ Waiting(c, use)[k].kind = c[k].kind /\ Waiting(c, use)[k].at = c[k].at
              /\ Waiting(c, use)[k].named = c[k].named
         /\ Top(Waiting(c, use)) = [Top(c) EXCEPT !.wait = use]
<1> DEFINE q == [Top(c) EXCEPT !.wait = use]
           n == Len(c)
<1>1. n \in Nat /\ n \in 1 .. Len(c) /\ n = Len(c) /\ Top(c) \in Construct /\ Top(c) = c[n]
  BY DEF Top
<1>2. q \in Construct /\ q.kind = Top(c).kind /\ q.at = Top(c).at /\ q.named = Top(c).named
  BY <1>1 DEF Construct
<1>3. Waiting(c, use) = [c EXCEPT ![n] = q]
  BY ChangesOfTop DEF Changed
<1> HIDE DEF q, n
<1>4. /\ Waiting(c, use) \in Seq(Construct) /\ Len(Waiting(c, use)) = Len(c)
      /\ Waiting(c, use)[n] = q
      /\ \A j \in 1 .. Len(c) : j # n => Waiting(c, use)[j] = c[j]
  BY <1>1, <1>2, <1>3, ReplaceFacts
<1> QED
  BY <1>1, <1>2, <1>3, <1>4 DEF Changed, Top, q

\* Nothing is bound, and nothing entered or left.
LEMMA MeansStay ==
  ASSUME FlowInv, stack' = stack \/ (stack # <<>> /\ \E use \in Waits : stack' = Waiting(stack, use)),
         UNCHANGED <<scopes, saved, globals>>
  PROVE  Meant' = Meant
<1>1. /\ stack \in Seq(Construct) /\ Nested(stack)
      /\ scopes \in Seq(Scope) /\ saved \in Seq(Seq(Scope)) /\ globals \in Scope
  BY MeantFacts
<1>2. CASE stack' = stack
  BY <1>2 DEF Meant
<1>3. ASSUME stack # <<>>, NEW use \in Waits, stack' = Waiting(stack, use) PROVE Meant' = Meant
  <2>1. /\ stack' \in Seq(Construct) /\ Len(stack') = Len(stack)
        /\ \A j \in 1 .. Len(stack) : stack'[j].kind = stack[j].kind /\ stack'[j].at = stack[j].at
    BY <1>1, <1>3, WaitingFacts
  <2>2. NamesOf(stack', scopes, saved, globals) = NamesOf(stack, scopes, saved, globals)
    BY <1>1, <2>1, NamesStay
  <2> QED
    BY <2>2 DEF Meant
<1> QED
  BY <1>2, <1>3

\* A construct is entered.
LEMMA MeansEnter ==
  ASSUME FlowInv, FlowInv', stack # <<>>, NEW use \in Waits, NEW p \in Construct,
         stack' = Append(Waiting(stack, use), p), globals' = globals,
         \/ p.kind = "fn" /\ scopes' = <<None>> /\ saved' = Append(saved, scopes)
         \/ p.kind # "fn" /\ p.at = "body" /\ scopes' = Append(scopes, None) /\ saved' = saved
         \/ p.kind # "fn" /\ p.at = "head" /\ scopes' = scopes /\ saved' = saved
  PROVE  Meant' = Append(Meant, None)
<1> DEFINE c == Waiting(stack, use)
           q == [T EXCEPT !.wait = use]
<1>1. /\ stack \in Seq(Construct) /\ Nested(stack) /\ Len(stack) \in Nat \ {0} /\ T = Top(stack)
      /\ scopes \in Seq(Scope) /\ saved \in Seq(Seq(Scope)) /\ Balanced(stack, scopes, saved)
      /\ T \in Construct /\ globals \in Scope
  BY HereFacts, MeantFacts
<1>2. /\ c \in Seq(Construct) /\ Len(c) = Len(stack) /\ c = Changed(stack, q) /\ Top(c) = q
      /\ \A k \in 1 .. Len(stack) : c[k].kind = stack[k].kind /\ c[k].at = stack[k].at
  BY <1>1, WaitingFacts
<1>3. q \in Construct /\ q.kind = T.kind /\ q.at = T.at
  BY <1>1 DEF Construct
<1> HIDE DEF c, q
<1>4. Pop(stack') = c /\ Top(stack') = p /\ stack' # <<>> /\ Len(stack') = Len(c) + 1
  BY <1>2, PopOfPush, PushFacts DEF c
<1>5. c # <<>> /\ Len(stack') # 1 /\ Len(stack') \in 1 .. Len(stack')
  BY <1>1, <1>2, <1>4
<1>6. stack' \in Seq(Construct) /\ Nested(stack') /\ scopes' \in Seq(Scope) /\ saved' \in Seq(Seq(Scope))
  BY NextFacts
<1>7. Nested(c) /\ Encloses(Top(c), p)
  BY <1>4, <1>5, <1>6, GoOutFacts
<1>8. Proper(p) /\ Proper(q)
  <2>1. Proper(p)
    BY <1>4, <1>5, <1>6 DEF Nested, Top
  <2>2. Len(c) \in 1 .. Len(c)
    BY <1>1, <1>2
  <2> QED
    BY <1>2, <1>7, <2>1, <2>2 DEF Nested, Top
<1>9. Balanced(c, scopes, saved)
  BY <1>1, <1>2, <1>3, <1>8, ChangeBalanced
<1>10. NamesOf(c, scopes, saved, globals) = NamesOf(stack, scopes, saved, globals)
  BY <1>1, <1>2, NamesStay
<1>11. NamesOf(Append(c, p), scopes', saved', globals) = Append(NamesOf(c, scopes, saved, globals), None)
  BY <1>1, <1>2, <1>5, <1>6, <1>7, <1>8, <1>9, NamesPush
<1> QED
  BY <1>10, <1>11 DEF Meant, c

\* A loop goes into its body, or back to its head.
LEMMA MeansTurn ==
  ASSUME FlowInv, FlowInv', stack # <<>>, NEW q \in Construct, q.kind = T.kind, q.kind \in Loops,
         stack' = Changed(stack, q), UNCHANGED <<saved, globals>>, NEW v \in Scope,
         \/ T.at = "head" /\ q.at = "body" /\ scopes' = Append(scopes, v)
         \/ T.at = "body" /\ q.at = "head" /\ scopes' = Pop(scopes) /\ v = None
  PROVE  Meant' = [Meant EXCEPT ![Len(stack)] = v]
<1>1. /\ stack \in Seq(Construct) /\ Nested(stack) /\ Len(stack) \in Nat \ {0} /\ T = Top(stack)
      /\ scopes \in Seq(Scope) /\ saved \in Seq(Seq(Scope)) /\ Balanced(stack, scopes, saved)
  BY HereFacts
<1>2. stack' \in Seq(Construct) /\ Nested(stack') /\ scopes' \in Seq(Scope) /\ globals \in Scope
  BY NextFacts, MeantFacts
<1>3. Len(stack) \in 1 .. Len(stack) /\ Len(stack') = Len(stack) /\ stack'[Len(stack)] = q
  BY <1>1, ReplaceFacts DEF Changed
<1>4. Proper(q)
  BY <1>2, <1>3 DEF Nested
<1>5. /\ q.kind = Top(stack).kind
      /\ \/ Top(stack).at = "head" /\ q.at = "body" /\ scopes' = Append(scopes, v)
         \/ Top(stack).at = "body" /\ q.at = "head" /\ scopes' = Pop(scopes) /\ v = None
  BY <1>1
<1>6. NamesOf(Changed(stack, q), scopes', saved, globals)
        = [NamesOf(stack, scopes, saved, globals) EXCEPT ![Len(stack)] = v]
  BY <1>1, <1>2, <1>4, <1>5, NamesTurn
<1> QED
  BY <1>6 DEF Meant

\* The innermost construct is left.
LEMMA MeansOut ==
  ASSUME FlowInv, FlowInv', stack # <<>>, stack' = Pop(stack), globals' = globals,
         \/ Len(stack) = 1
         \/ T.kind = "fn" /\ scopes' = Top(saved) /\ saved' = Pop(saved)
         \/ T.kind # "fn" /\ T.at = "body" /\ scopes' = Pop(scopes) /\ saved' = saved
         \/ T.kind # "fn" /\ T.at = "head" /\ scopes' = scopes /\ saved' = saved
  PROVE  Meant' = SubSeq(Meant, 1, Len(stack) - 1)
<1>1. /\ stack \in Seq(Construct) /\ Nested(stack) /\ Len(stack) \in Nat \ {0} /\ T = Top(stack)
      /\ scopes \in Seq(Scope) /\ saved \in Seq(Seq(Scope)) /\ Balanced(stack, scopes, saved)
  BY HereFacts
<1>2. scopes' \in Seq(Scope) /\ saved' \in Seq(Seq(Scope)) /\ globals \in Scope
  BY NextFacts, MeantFacts
<1>3. NamesOf(Pop(stack), scopes', saved', globals) = Pop(NamesOf(stack, scopes, saved, globals))
  BY <1>1, <1>2, NamesPop
<1>4. Len(NamesOf(stack, scopes, saved, globals)) = Len(stack)
  <2>1. /\ NamesOf(stack, scopes, saved, globals)
              = [k \in 1 .. Len(stack) |-> NamesOf(stack, scopes, saved, globals)[k]]
        /\ Len(stack) \in Nat
    BY MeantFacts DEF Meant
  <2> QED
    BY <2>1, FunctionFacts
<1> QED
  BY <1>3, <1>4 DEF Meant, Pop

----------------------------------------------------------------------------
\* The name, in the words of the model.

\* The name is known where it is bound in the innermost call, and stands for the
\* innermost binding.
LEMMA BoundFacts ==
  ASSUME FlowInv, stack # <<>>
  PROVE  /\ Bottom(stack, Len(stack)) \in 1 .. Len(stack)
         /\ Known <=> Bound # {}
         /\ Known => /\ Max(Bound) \in Bottom(stack, Len(stack)) .. Len(stack)
                     /\ Value = Meant[Max(Bound)]
         /\ Found # {} => /\ stack[Max(Bound)].at = "body" /\ stack[Max(Bound)].kind # "top"
                          /\ Height(stack, Max(Bound)) = Max(Found)
         /\ Found = {} /\ Known => stack[Max(Bound)].kind = "top"
<1>1. /\ stack \in Seq(Construct) /\ Nested(stack) /\ Len(stack) \in Nat \ {0}
      /\ scopes \in Seq(Scope) /\ saved \in Seq(Seq(Scope)) /\ globals \in Scope
      /\ Balanced(stack, scopes, saved)
  BY HereFacts, MeantFacts
<1> DEFINE b == Bottom(stack, Len(stack))
<1>2. b \in 1 .. Len(stack) /\ Len(stack) \in 1 .. Len(stack) /\ stack[b].kind \in Frames
  <2>1. Len(stack) \in 1 .. Len(stack)
    BY <1>1
  <2> QED
    BY <1>1, <2>1, BottomFacts
<1>3. /\ Found # {} => /\ Bound # {} /\ Max(Bound) \in b .. Len(stack) /\ Max(Found) \in 1 .. Len(scopes)
                       /\ stack[Max(Bound)].at = "body" /\ stack[Max(Bound)].kind # "top"
                       /\ Height(stack, Max(Bound)) = Max(Found)
                       /\ Meant[Max(Bound)] = scopes[Max(Found)]
      /\ Found = {} => (Bound # {} <=> stack[b].kind = "top" /\ globals # None)
      /\ Found = {} /\ Bound # {} =>
           Max(Bound) = 1 /\ Meant[Max(Bound)] = globals /\ stack[1].kind = "top"
  <2>1. Nested(stack) /\ stack # <<>> /\ Balanced(stack, scopes, saved)
    BY <1>1
  <2>2. /\ stack \in Seq(Construct) /\ scopes \in Seq(Scope)
        /\ saved \in Seq(Seq(Scope)) /\ globals \in Scope
    BY <1>1
  <2>3. InUse(scopes) = Found /\ BoundIn(stack, Meant) = Bound /\ b = Bottom(stack, Len(stack))
    BY DEF Found, Bound, InUse, BoundIn
  <2>4. NamesOf(stack, scopes, saved, globals) = Meant
    BY DEF Meant
  <2> HIDE DEF b
  <2> QED
    BY <2>1, <2>2, <2>3, <2>4, Bindings
<1>4. InFunction <=> stack[b].kind # "top"
  <2>1. InFunction <=> stack[b].kind = "fn"
    BY AroundFacts DEF InFn
  <2> QED
    BY <1>2, <2>1 DEF Frames
<1>5. Found = {} /\ Bound # {} => Max(Bound) \in b .. Len(stack)
  <2> SUFFICES ASSUME Found = {}, Bound # {} PROVE 1 \in b .. Len(stack)
    BY <1>3
  <2>1. Bound \in SUBSET (1 .. Len(stack))
    BY <1>1, <1>2 DEF Bound
  <2>2. Max(Bound) \in Bound
    BY <1>1, <2>1, MaxFacts
  <2> QED
    BY <1>3, <2>2 DEF Bound
<1> QED
  BY <1>2, <1>3, <1>4, <1>5 DEF Known, Value

\* let binds the name in the innermost construct...
LEMMA MeansLet ==
  ASSUME FlowInv, NEW v \in Val, Let(v)
  PROVE  Meant' = [Meant EXCEPT ![Len(stack)] = v]
<1>1. stack # <<>> /\ T.at = "body" /\ Declare(v) /\ UNCHANGED <<stack, saved>>
  BY DEF Let, Ready, Running
<1>2. /\ stack \in Seq(Construct) /\ Nested(stack) /\ Len(stack) \in Nat \ {0} /\ T = Top(stack)
      /\ scopes \in Seq(Scope) /\ saved \in Seq(Seq(Scope)) /\ Balanced(stack, scopes, saved)
      /\ v \in Scope
  BY <1>1, HereFacts, FlowAssumption DEF Scope
<1>3. IF scopes = <<>> THEN globals' = v /\ scopes' = scopes
                        ELSE scopes' = [scopes EXCEPT ![Len(scopes)] = v] /\ globals' = globals
  <2>1. CASE scopes = <<>>
    BY <1>1, <2>1 DEF Declare
  <2>2. CASE scopes # <<>>
    BY <1>1, <2>2 DEF Declare
  <2> QED
    BY <2>1, <2>2
<1>4. scopes' \in Seq(Scope) /\ globals' \in Scope /\ globals \in Scope
  <2>1. globals \in Scope
    BY MeantFacts
  <2>2. CASE scopes = <<>>
    BY <1>2, <1>3, <2>1, <2>2
  <2>3. CASE scopes # <<>>
    <3>1. Len(scopes) \in 1 .. Len(scopes)
      BY <1>2, <2>3
    <3>2. [scopes EXCEPT ![Len(scopes)] = v] \in Seq(Scope)
      BY <1>2, <3>1, ReplaceFacts
    <3> QED
      BY <1>3, <2>1, <2>3, <3>2
  <2> QED
    BY <2>2, <2>3
<1>5. NamesOf(stack, scopes', saved, globals')
        = [NamesOf(stack, scopes, saved, globals) EXCEPT ![Len(stack)] = v]
  <2>1. Nested(stack) /\ stack # <<>> /\ Top(stack).at = "body" /\ Balanced(stack, scopes, saved)
    BY <1>1, <1>2
  <2>2. stack \in Seq(Construct) /\ scopes \in Seq(Scope) /\ saved \in Seq(Seq(Scope)) /\ v \in Scope
    BY <1>2
  <2> QED
    BY <2>1, <2>2, <1>3, <1>4, NamesLet
<1> QED
  BY <1>1, <1>5 DEF Meant

\* ...and an assignment where it is found.
LEMMA MeansAssign ==
  ASSUME FlowInv, NEW v \in Val, Assign(v)
  PROVE  Meant' = [Meant EXCEPT ![Max(Bound)] = v]
<1>1. stack # <<>> /\ Known /\ UNCHANGED <<stack, saved>>
  BY DEF Assign, Ready, Running
<1>2. /\ stack \in Seq(Construct) /\ Nested(stack)
      /\ scopes \in Seq(Scope) /\ saved \in Seq(Seq(Scope)) /\ Balanced(stack, scopes, saved)
      /\ v \in Scope /\ globals \in Scope
  BY <1>1, HereFacts, MeantFacts, FlowAssumption DEF Scope
<1> DEFINE p == Max(Bound)
<1>3. p \in Bottom(stack, Len(stack)) .. Len(stack)
  BY <1>1, BoundFacts
<1>4. /\ \/ /\ stack[p].at = "body" /\ stack[p].kind # "top"
            /\ scopes' = [scopes EXCEPT ![Height(stack, p)] = v] /\ globals' = globals
         \/ stack[p].kind = "top" /\ scopes' = scopes /\ globals' = v
      /\ scopes' \in Seq(Scope) /\ globals' \in Scope
  <2>1. CASE Found # {}
    <3>1. scopes' = [scopes EXCEPT ![Max(Found)] = v] /\ globals' = globals
      BY <2>1 DEF Assign
    <3>2. Max(Found) \in 1 .. Len(scopes)
      BY <1>1, <2>1, FoundFacts
    <3>3. scopes' \in Seq(Scope)
      BY <1>2, <3>1, <3>2, ReplaceFacts
    <3> QED
      BY <1>1, <1>2, <2>1, <3>1, <3>3, BoundFacts
  <2>2. CASE Found = {}
    <3>1. scopes' = scopes /\ globals' = v
      BY <2>2 DEF Assign
    <3> QED
      BY <1>1, <1>2, <2>2, <3>1, BoundFacts
  <2> QED
    BY <2>1, <2>2
<1> HIDE DEF p
<1>5. NamesOf(stack, scopes', saved, globals')
        = [NamesOf(stack, scopes, saved, globals) EXCEPT ![p] = v]
  BY <1>1, <1>2, <1>3, <1>4, NamesSet
<1> QED
  BY <1>1, <1>5 DEF Meant, p

\* A let straight in a loop expression is one of a name that is not in use around it.
LEMMA LetAlone ==
  ASSUME FlowInv, stack # <<>>, T.at = "body",
         Found \subseteq {Len(scopes)}, InFunction \/ globals = None
  PROVE  Bound \subseteq {Len(stack)}
<1>1. /\ stack \in Seq(Construct) /\ Nested(stack) /\ Len(stack) \in Nat \ {0} /\ T = stack[Len(stack)]
      /\ scopes \in Seq(Scope) /\ saved \in Seq(Seq(Scope)) /\ globals \in Scope
      /\ Balanced(stack, scopes, saved)
  BY HereFacts, MeantFacts
<1> SUFFICES ASSUME NEW k \in Bound PROVE k = Len(stack)
  OBVIOUS
<1>2. k \in Bottom(stack, Len(stack)) .. Len(stack) /\ Meant[k] # None
  BY DEF Bound
<1>3. /\ k \in 1 .. Len(stack)
      /\ stack[k].at = "head" => Meant[k] = None
      /\ stack[k].at \in {"head", "body"}
      /\ stack[k].kind = "top" => Meant[k] = globals /\ k = 1 /\ Bottom(stack, Len(stack)) = 1
      /\ stack[k].at = "body" /\ stack[k].kind # "top" =>
           Meant[k] = scopes[Height(stack, k)] /\ Height(stack, k) \in 1 .. Len(scopes)
  BY <1>1, <1>2, NameHere DEF Meant
<1>4. stack[k].kind # "top"
  <2> SUFFICES ASSUME stack[k].kind = "top" PROVE FALSE
    OBVIOUS
  <2>1. globals # None /\ stack[Bottom(stack, Len(stack))].kind # "fn"
    BY <1>2, <1>3
  <2>2. ~InFunction
    BY <2>1, AroundFacts DEF InFn
  <2> QED
    BY <2>1, <2>2
<1>5. stack[k].at = "body" /\ Height(stack, k) = Len(scopes)
  <2>1. stack[k].at = "body"
    BY <1>2, <1>3
  <2>2. Height(stack, k) \in Found
    BY <1>2, <1>3, <1>4, <2>1 DEF Found
  <2> QED
    BY <2>1, <2>2
<1>6. Len(scopes) = Height(stack, Len(stack))
  BY <1>1 DEF Balanced
<1> SUFFICES ASSUME k # Len(stack) PROVE FALSE
  OBVIOUS
<1>7. Len(stack) \in 1 .. Len(stack) /\ k \in 1 .. Len(stack) /\ CallCount(stack, k) = CallCount(stack, Len(stack))
  BY <1>1, <1>2, <1>3, SameCallUp
<1>8. /\ Height(stack, k) < Height(stack, Len(stack))
      /\ Height(stack, k) \in Nat /\ Height(stack, Len(stack)) \in Nat
  BY <1>1, <1>7, HeightsGrow
<1> QED
  BY <1>5, <1>6, <1>8

----------------------------------------------------------------------------
\* Loop variables.

\* A loop whose variable is the name stands where the name means nothing else: it
\* is bound nowhere around the loop in the call.
Alone(c, names) ==
  \A k \in 1 .. Len(c) :
    c[k].named => c[k].kind \in Counted /\ \A j \in Bottom(c, k) .. k - 1 : names[j] = None

\* The constructs of d are outer ones of c, whatever state they are in; nothing is
\* bound around the innermost that was not.
Outer(d, c) ==
  /\ Len(d) <= Len(c)
  /\ \A k \in 1 .. Len(d) : d[k].kind = c[k].kind /\ d[k].named = c[k].named
NoneBound(d, names, names2) == \A k \in 1 .. Len(d) - 1 : names[k] = None => names2[k] = None

\* It stays so while the loops are those there were, and nothing is bound around them.
LEMMA AloneKept ==
  ASSUME NEW c \in Seq(Construct), NEW d \in Seq(Construct), Outer(d, c), Nested(c),
         NEW names, NEW names2, Alone(c, names), NoneBound(d, names, names2)
  PROVE  Alone(d, names2)
<1> SUFFICES ASSUME NEW k \in 1 .. Len(d), d[k].named
             PROVE  d[k].kind \in Counted /\ \A j \in Bottom(d, k) .. k - 1 : names2[j] = None
  BY DEF Alone
<1>1. k \in 1 .. Len(c) /\ Len(d) \in Nat /\ c[k].named
  BY DEF Outer
<1>2. c[k].kind \in Counted /\ \A j \in Bottom(c, k) .. k - 1 : names[j] = None
  BY <1>1 DEF Alone
<1>3. Bottom(d, k) = Bottom(c, k)
  <2>1. {j \in 1 .. k : d[j].kind \in Frames} = {j \in 1 .. k : c[j].kind \in Frames}
    BY <1>1 DEF Outer
  <2> QED
    BY <2>1 DEF Bottom
<1>4. Bottom(c, k) \in 1 .. k
  BY <1>1, BottomFacts
<1>5. ASSUME NEW j \in Bottom(d, k) .. k - 1 PROVE names2[j] = None
  <2>1. j \in 1 .. Len(d) - 1 /\ names[j] = None
    BY <1>1, <1>2, <1>3, <1>4
  <2> QED
    BY <2>1 DEF NoneBound
<1>6. d[k].kind = c[k].kind
  BY DEF Outer
<1> QED
  BY <1>2, <1>5, <1>6

\* It is so of a loop entered where the name means nothing.
LEMMA AlonePush ==
  ASSUME NEW c \in Seq(Construct), Nested(c), c # <<>>, NEW d \in Seq(Construct),
         Outer(c, d), Len(d) = Len(c) + 1, NEW names, NEW names2, Alone(c, names),
         \A k \in 1 .. Len(c) : names2[k] = names[k],
         Top(d).named => Top(d).kind \in Counted /\ BoundIn(c, names) = {}
  PROVE  Alone(d, names2)
<1> DEFINE p == d[Len(d)]
<1>1. /\ Len(c) \in Nat \ {0} /\ Len(d) = Len(c) + 1 /\ d[Len(d)] = p
      /\ \A k \in 1 .. Len(c) : d[k].kind = c[k].kind /\ d[k].named = c[k].named
      /\ p.named => p.kind \in Counted /\ BoundIn(c, names) = {}
  BY DEF Outer, Top
<1> HIDE DEF p
<1> SUFFICES ASSUME NEW k \in 1 .. Len(d), d[k].named
             PROVE  d[k].kind \in Counted /\ \A j \in Bottom(d, k) .. k - 1 : names2[j] = None
  BY DEF Alone
<1>2. CASE k # Len(d)
  <2>1. k \in 1 .. Len(c) /\ c[k].named /\ d[k].kind = c[k].kind
    BY <1>1, <1>2
  <2>2. c[k].kind \in Counted /\ \A j \in Bottom(c, k) .. k - 1 : names[j] = None
    BY <2>1 DEF Alone
  <2>3. Bottom(d, k) = Bottom(c, k)
    <3>1. {j \in 1 .. k : d[j].kind \in Frames} = {j \in 1 .. k : c[j].kind \in Frames}
      BY <1>1, <2>1
    <3> QED
      BY <3>1 DEF Bottom
  <2>4. Bottom(c, k) \in 1 .. k
    BY <2>1, BottomFacts
  <2>5. \A j \in Bottom(d, k) .. k - 1 : j \in 1 .. Len(c)
    BY <1>1, <2>1, <2>3, <2>4
  <2> QED
    BY <2>1, <2>2, <2>3, <2>5
<1>3. CASE k = Len(d)
  <2>1. p.named /\ d[k] = p /\ p.kind \in Counted /\ BoundIn(c, names) = {}
    BY <1>1, <1>3
  <2>2. p.kind \notin Frames
    BY <2>1 DEF Counted, Frames
  <2>3. Bottom(d, k) = Bottom(c, Len(c))
    <3>1. {j \in 1 .. k : d[j].kind \in Frames} = {j \in 1 .. Len(c) : c[j].kind \in Frames}
      BY <1>1, <1>3, <2>1, <2>2
    <3> QED
      BY <3>1 DEF Bottom
  <2>4. Bottom(c, Len(c)) \in 1 .. Len(c)
    BY <1>1, BottomFacts
  <2>5. ASSUME NEW j \in Bottom(d, k) .. k - 1 PROVE names2[j] = None
    <3>1. j \in Bottom(c, Len(c)) .. Len(c) /\ j \in 1 .. Len(c)
      BY <1>1, <1>3, <2>3, <2>4
    <3>2. names[j] = None
      BY <2>1, <3>1 DEF BoundIn
    <3> QED
      BY <3>1, <3>2
  <2> QED
    BY <2>1, <2>5
<1> QED
  BY <1>2, <1>3

----------------------------------------------------------------------------
\* The values of breaks.

\* A break with a value, in a loop used as an expression, is of such a loop.
Innermost(c, k) == Max({j \in Bottom(c, k) + 1 .. k : c[j].kind \in Loops})
Lands(c, k) == InLoopExpr(c, k) => c[Innermost(c, k)].kind \in LoopExprs
Landing(c) == \A k \in 1 .. Len(c) : c[k].wait = "brk" => Lands(c, k)

\* What is between the call and the k-th construct decides it.
LEMMA LandingKept ==
  ASSUME NEW c \in Seq(Construct), NEW d \in Seq(Construct), Nested(c), Landing(c),
         \A k \in 1 .. Len(d) : d[k].wait = "brk" =>
           /\ k \in 1 .. Len(c) /\ (c[k].wait = "brk" \/ Lands(c, k))
           /\ \A j \in 1 .. k : d[j].kind = c[j].kind
  PROVE  Landing(d)
<1> SUFFICES ASSUME NEW k \in 1 .. Len(d), d[k].wait = "brk" PROVE Lands(d, k)
  BY DEF Landing
<1>1. /\ k \in 1 .. Len(c) /\ (c[k].wait = "brk" \/ Lands(c, k))
      /\ \A j \in 1 .. k : d[j].kind = c[j].kind
  OBVIOUS
<1>2. Lands(c, k)
  BY <1>1 DEF Landing
<1>3. Bottom(d, k) = Bottom(c, k)
  <2>1. {j \in 1 .. k : d[j].kind \in Frames} = {j \in 1 .. k : c[j].kind \in Frames}
    BY <1>1
  <2> QED
    BY <2>1 DEF Bottom
<1>4. Bottom(c, k) \in 1 .. k
  BY <1>1, BottomFacts
<1> DEFINE b == Bottom(c, k)
           S == {j \in b + 1 .. k : c[j].kind \in Loops}
           S2 == {j \in b + 1 .. k : d[j].kind \in Loops}
<1>5. \A j \in b + 1 .. k : j \in 1 .. k /\ d[j].kind = c[j].kind
  BY <1>1, <1>4
<1>6. S = S2
  <2> HIDE DEF b
  <2> QED
    BY <1>5
<1>7. InLoopExpr(d, k) <=> InLoopExpr(c, k)
  BY <1>3, <1>5 DEF InLoopExpr
<1>8. Innermost(d, k) = Innermost(c, k) /\ Innermost(c, k) = Max(S)
  BY <1>3, <1>6 DEF Innermost
<1>9. InLoopExpr(c, k) => Max(S) \in 1 .. k
  <2> SUFFICES ASSUME InLoopExpr(c, k) PROVE Max(S) \in 1 .. k
    OBVIOUS
  <2>1. S # {}
    BY DEF InLoopExpr, Loops
  <2>2. S \in SUBSET (1 .. k) /\ k \in Nat
    BY <1>4
  <2> HIDE DEF S
  <2> QED
    BY <2>1, <2>2, MaxFacts
<1> QED
  BY <1>1, <1>2, <1>7, <1>8, <1>9 DEF Lands

\* A value may be awaited for a break only where it lands.
LEMMA WaitLands ==
  ASSUME FlowInv, lifted = {}, NEW use \in Uses, MayWait(use), use = "brk"
  PROVE  Lands(stack, Len(stack))
<1>1. stack # <<>>
  BY DEF MayWait, Running
<1>2. FrameOf(stack) = Bottom(stack, Len(stack))
  BY <1>1, HereFacts, LoopFacts
<1>3. Innermost(stack, Len(stack)) = Max(OpenLoops(stack))
  BY <1>2 DEF Innermost, OpenLoops
<1>4. OpenLoopExprs(stack) # {} => stack[Max(OpenLoops(stack))].kind \in LoopExprs
  BY DEF MayWait, Lift
<1> QED
  BY <1>3, <1>4, AroundFacts DEF Lands

\* Every move of the interpreter.
Moves(use) ==
  \/ stack' = stack
  \/ stack' = Waiting(stack, use)
  \/ \E p \in Construct : p.wait = "none" /\ stack' = Append(Waiting(stack, use), p)
  \/ stack' = Pop(stack)
  \/ \E c \in {stack, Waiting(stack, "none")} : stack' = InBody(c)
  \/ stack' = NextTurn(stack)
  \/ stack' = Pop(Waiting(stack, "none"))

LEMMA MovesLand ==
  ASSUME FlowInv, FlowInv', lifted = {}, stack # <<>>, Landing(stack),
         NEW use \in Waits, use = "brk" => Lands(stack, Len(stack)), Moves(use)
  PROVE  Landing(stack')
<1>1. /\ stack \in Seq(Construct) /\ Nested(stack) /\ Len(stack) \in Nat \ {0} /\ stack' \in Seq(Construct)
      /\ T \in Construct /\ T = Top(stack) /\ T = stack[Len(stack)] /\ "none" \in Waits
  BY HereFacts, NextFacts DEF Waits
<1>2. \A u \in Waits :
        /\ Waiting(stack, u) \in Seq(Construct) /\ Len(Waiting(stack, u)) = Len(stack)
        /\ \A k \in 1 .. Len(stack) : Waiting(stack, u)[k].kind = stack[k].kind
        /\ \A k \in 1 .. Len(stack) : k # Len(stack) => Waiting(stack, u)[k] = stack[k]
        /\ Waiting(stack, u)[Len(stack)].wait = u
  <2> TAKE u \in Waits
  <2>1. /\ Waiting(stack, u) \in Seq(Construct) /\ Len(Waiting(stack, u)) = Len(stack)
        /\ \A k \in 1 .. Len(stack) : Waiting(stack, u)[k].kind = stack[k].kind
        /\ Top(Waiting(stack, u)) = [T EXCEPT !.wait = u]
        /\ Waiting(stack, u) = Changed(stack, [T EXCEPT !.wait = u])
    BY <1>1, WaitingFacts
  <2>2. [T EXCEPT !.wait = u].wait = u /\ [T EXCEPT !.wait = u] \in Construct
    BY <1>1 DEF Construct
  <2>3. Len(stack) \in 1 .. Len(stack)
    BY <1>1
  <2>4. \A k \in 1 .. Len(stack) : k # Len(stack) => Waiting(stack, u)[k] = stack[k]
    BY <1>1, <2>1, <2>2, <2>3, ReplaceFacts DEF Changed
  <2> QED
    BY <2>1, <2>2, <2>4 DEF Top
<1> SUFFICES ASSUME NEW k \in 1 .. Len(stack'), stack'[k].wait = "brk"
             PROVE  /\ k \in 1 .. Len(stack) /\ (stack[k].wait = "brk" \/ Lands(stack, k))
                    /\ \A j \in 1 .. k : stack'[j].kind = stack[j].kind
  BY <1>1, LandingKept
<1>3. CASE stack' = stack
  BY <1>1, <1>3
<1>4. CASE stack' = Waiting(stack, use)
  BY <1>1, <1>2, <1>4
<1>5. ASSUME NEW p \in Construct, p.wait = "none", stack' = Append(Waiting(stack, use), p)
      PROVE  /\ k \in 1 .. Len(stack) /\ (stack[k].wait = "brk" \/ Lands(stack, k))
             /\ \A j \in 1 .. k : stack'[j].kind = stack[j].kind
  <2> DEFINE c == Waiting(stack, use)
  <2>1. /\ c \in Seq(Construct) /\ Len(c) = Len(stack) /\ stack' = Append(c, p)
        /\ \A i \in 1 .. Len(stack) : c[i].kind = stack[i].kind
        /\ \A i \in 1 .. Len(stack) : i # Len(stack) => c[i] = stack[i]
        /\ c[Len(stack)].wait = use
    BY <1>2, <1>5
  <2> HIDE DEF c
  <2>2. /\ Len(stack') = Len(stack) + 1 /\ stack'[Len(stack) + 1] = p
        /\ \A i \in 1 .. Len(stack) : stack'[i] = c[i]
    BY <1>1, <2>1
  <2>3. k \in 1 .. Len(stack)
    BY <1>1, <1>5, <2>2
  <2>4. stack[k].wait = "brk" \/ Lands(stack, k)
    BY <2>1, <2>2, <2>3
  <2>5. \A j \in 1 .. k : j \in 1 .. Len(stack)
    BY <1>1, <2>3
  <2> QED
    BY <2>1, <2>2, <2>3, <2>4, <2>5
<1>6. CASE stack' = Pop(stack)
  BY <1>1, <1>6, PopFacts
<1>7. ASSUME NEW c \in {stack, Waiting(stack, "none")}, stack' = InBody(c)
      PROVE  /\ k \in 1 .. Len(stack) /\ (stack[k].wait = "brk" \/ Lands(stack, k))
             /\ \A j \in 1 .. k : stack'[j].kind = stack[j].kind
  <2>1. /\ c \in Seq(Construct) /\ Len(c) = Len(stack) /\ c # <<>>
        /\ \A i \in 1 .. Len(stack) : c[i].kind = stack[i].kind
        /\ \A i \in 1 .. Len(stack) : c[i].wait = "brk" => stack[i].wait = "brk"
    BY <1>1, <1>2
  <2> DEFINE q == [Top(c) EXCEPT !.at = "body"]
  <2>2. Len(c) \in 1 .. Len(c) /\ Top(c) = c[Len(c)] /\ Top(c) \in Construct
    BY <1>1, <2>1 DEF Top
  <2>3. q \in Construct /\ q.kind = c[Len(c)].kind /\ q.wait = c[Len(c)].wait
    BY <2>2 DEF Construct
  <2>4. stack' = Changed(c, q)
    BY <1>7, <2>1, ChangesOfTop
  <2> HIDE DEF q
  <2>5. /\ Len(stack') = Len(c) /\ stack'[Len(c)] = q
        /\ \A i \in 1 .. Len(c) : i # Len(c) => stack'[i] = c[i]
    BY <2>1, <2>2, <2>3, <2>4, ReplaceFacts DEF Changed
  <2>6. \A i \in 1 .. Len(stack) : stack'[i].kind = stack[i].kind /\ stack'[i].wait = c[i].wait
    BY <2>1, <2>3, <2>5
  <2> QED
    BY <1>1, <2>1, <2>5, <2>6
<1>8. CASE stack' = NextTurn(stack)
  <2> DEFINE q == stack'[Len(stack)]
  <2>1. /\ Len(stack') = Len(stack) /\ \A i \in 1 .. Len(stack) : i # Len(stack) => stack'[i] = stack[i]
    BY <1>1, <1>8, NextTurnFacts
  <2>2. q.kind = T.kind /\ q.wait = T.wait
    <3> DEFINE r == [T EXCEPT !.at = "head", !.next = IF T.kind \in Counted THEN T.next + 1 ELSE T.next]
    <3>1. stack' = Changed(stack, r)
      BY <1>1, <1>8, ChangesOfTop
    <3>2. r.kind = T.kind /\ r.wait = T.wait
      BY <1>1 DEF Construct
    <3>3. Len(stack) \in DOMAIN stack
      BY <1>1
    <3> HIDE DEF r
    <3>4. q = r
      BY <3>1, <3>3 DEF Changed
    <3> QED
      BY <3>2, <3>4
  <2>3. \A i \in 1 .. Len(stack) : stack'[i].kind = stack[i].kind /\ stack'[i].wait = stack[i].wait
    BY <1>1, <2>1, <2>2
  <2> QED
    BY <1>1, <2>1, <2>3
<1>9. CASE stack' = Pop(Waiting(stack, "none"))
  <2> DEFINE c == Waiting(stack, "none")
  <2>1. /\ c \in Seq(Construct) /\ Len(c) = Len(stack) /\ c # <<>> /\ stack' = Pop(c)
        /\ \A i \in 1 .. Len(stack) : i # Len(stack) => c[i] = stack[i]
    BY <1>1, <1>2, <1>9
  <2> HIDE DEF c
  <2>2. Len(stack') = Len(stack) - 1 /\ \A i \in 1 .. Len(stack) - 1 : stack'[i] = c[i]
    BY <2>1, PopFacts
  <2>3. \A i \in 1 .. Len(stack) - 1 : stack'[i] = stack[i] /\ i \in 1 .. Len(stack)
    BY <1>1, <2>1, <2>2
  <2> QED
    BY <1>1, <2>2, <2>3
<1> QED
  BY <1>3, <1>4, <1>5, <1>6, <1>7, <1>8, <1>9 DEF Moves

----------------------------------------------------------------------------
\* The steps between which no flag is set.

AgreeInv == FlowInv /\ (lifted = {} => Alone(stack, Meant) /\ Landing(stack))

LEMMA AtRestNext == FlowInv' /\ Quiet' => Rest(stack, Meant, acc)'
BY AtRest, PTL

\* The compiled program is where the interpreter is...
LEMMA RestHere ==
  ASSUME FlowInv, Quiet
  PROVE  /\ Landed = stack /\ Names = Meant /\ Slots = Zeros(Len(stack)) /\ LandedValue = acc
         /\ Native!T = T
         /\ ~after => (Native!Running <=> Running) /\ (Native!Ready <=> Ready)
         /\ stack # <<>> => Native!Binding = Bound
<1>1. Landed = stack /\ Names = Meant /\ Slots = Zeros(Len(stack)) /\ LandedValue = acc
  BY AtRest DEF Rest
<1>2. Native!T = T
  BY <1>1, NativeHere DEF T
<1>3. ~after => (Native!Running <=> Running) /\ (Native!Ready <=> Ready)
  BY <1>1, NativeHere DEF T, Running, Ready
<1>4. stack # <<>> => Native!Binding = Bound
  <2> SUFFICES ASSUME stack # <<>> PROVE Native!Binding = Bound
    OBVIOUS
  <2>1. FrameOf(stack) = Bottom(stack, Len(stack))
    BY HereFacts, LoopFacts
  <2> QED
    BY <1>1, <2>1, NativeHere DEF Bound
<1> QED
  BY <1>1, <1>2, <1>3, <1>4

\* ...before and after.
LEMMA RestThen ==
  ASSUME FlowInv', Quiet'
  PROVE  Landed' = stack' /\ Names' = Meant' /\ Slots' = Zeros(Len(stack')) /\ LandedValue' = acc'
BY AtRestNext DEF Rest

\* What keeps the loop variables alone.
LEMMA AloneStays ==
  ASSUME FlowInv, FlowInv', Alone(stack, Meant), Outer(stack', stack), NoneBound(stack', Meant, Meant')
  PROVE  Alone(stack', Meant')
<1>1. stack \in Seq(Construct) /\ stack' \in Seq(Construct) /\ Nested(stack)
  BY MeantFacts, NextFacts
<1> QED
  BY <1>1, AloneKept

\* The native operations on names, of what Landed and the others say.
LEMMA NativeNames ==
  /\ \A v : Native!Let(v) <=>
       /\ Native!Ready
       /\ Names' = [Names EXCEPT ![Native!BindingPlace(Native!T.kind \in LoopExprs)] = v]
       /\ Landed' = Landed /\ Slots' = Slots /\ LandedValue' = LandedValue
  /\ \A v : Native!Assign(v) <=>
       /\ Native!Ready /\ Native!Binding # {}
       /\ Names' = [Names EXCEPT ![Max(Native!Binding)] = v]
       /\ Landed' = Landed /\ Slots' = Slots /\ LandedValue' = LandedValue
  /\ \A use : Native!Read(use) <=>
       /\ Native!MayWait(use) /\ Native!Binding # {}
       /\ Landed' = Waiting(Landed, use) /\ LandedValue' = Names[Max(Native!Binding)]
       /\ Names' = Names /\ Slots' = Slots
  /\ Native!Turn <=>
       /\ Native!Running /\ MayTurn(Native!T)
       /\ Landed' = InBody(Landed)
       /\ Names' = IF Native!T.named THEN [Names EXCEPT ![Native!BindingPlace(TRUE)] = Native!T.next]
                                     ELSE Names
       /\ Slots' = Slots /\ LandedValue' = LandedValue
  /\ \A b : Native!BindingPlace(b) =
       IF b /\ Native!Binding \ {Len(Landed)} # {} THEN Native!EnclosingBlock ELSE Len(Landed)
<1>1. \A v : Native!Let(v) <=>
        /\ Native!Ready
        /\ Names' = [Names EXCEPT ![Native!BindingPlace(Native!T.kind \in LoopExprs)] = v]
        /\ Landed' = Landed /\ Slots' = Slots /\ LandedValue' = LandedValue
  BY SameNesting DEF Native!Let, Names, Slots
<1>2. \A v : Native!Assign(v) <=>
        /\ Native!Ready /\ Native!Binding # {}
        /\ Names' = [Names EXCEPT ![Max(Native!Binding)] = v]
        /\ Landed' = Landed /\ Slots' = Slots /\ LandedValue' = LandedValue
  BY SameNesting DEF Native!Assign, Names, Slots
<1>3. \A use : Native!Read(use) <=>
        /\ Native!MayWait(use) /\ Native!Binding # {}
        /\ Landed' = Waiting(Landed, use) /\ LandedValue' = Names[Max(Native!Binding)]
        /\ Names' = Names /\ Slots' = Slots
  BY SameNesting DEF Native!Read, Names, Slots
<1>4. Native!Turn <=>
        /\ Native!Running /\ MayTurn(Native!T)
        /\ Landed' = InBody(Landed)
        /\ Names' = IF Native!T.named THEN [Names EXCEPT ![Native!BindingPlace(TRUE)] = Native!T.next]
                                      ELSE Names
        /\ Slots' = Slots /\ LandedValue' = LandedValue
  BY SameNesting DEF Native!Turn, Names, Slots
<1>5. \A b : Native!BindingPlace(b) =
        IF b /\ Native!Binding \ {Len(Landed)} # {} THEN Native!EnclosingBlock ELSE Len(Landed)
  BY DEF Native!BindingPlace
<1> QED
  BY <1>1, <1>2, <1>3, <1>4, <1>5

\* While statements run and set no flag, both are at rest before and after.
LEMMA Resting ==
  ASSUME FlowInv, FlowInv', lifted = {}, ~after, UNCHANGED flags
  PROVE  /\ Landed = stack /\ Names = Meant /\ Slots = Zeros(Len(stack)) /\ LandedValue = acc
         /\ Landed' = stack' /\ Names' = Meant' /\ Slots' = Zeros(Len(stack')) /\ LandedValue' = acc'
         /\ Native!T = T /\ (Native!Running <=> Running) /\ (Native!Ready <=> Ready)
         /\ stack # <<>> => Native!Binding = Bound
<1>1. Quiet /\ Quiet'
  BY StillFacts DEF Still, Quiet, flags
<1>2. /\ Landed = stack /\ Names = Meant /\ Slots = Zeros(Len(stack)) /\ LandedValue = acc
      /\ Native!T = T /\ (Native!Running <=> Running) /\ (Native!Ready <=> Ready)
      /\ stack # <<>> => Native!Binding = Bound
  BY <1>1, RestHere
<1>3. Landed' = stack' /\ Names' = Meant' /\ Slots' = Zeros(Len(stack')) /\ LandedValue' = acc'
  BY <1>1, RestThen
<1> QED
  BY <1>2, <1>3

LEMMA MeantReplaced ==
  ASSUME FlowInv, NEW n \in 1 .. Len(stack), NEW v
  PROVE  \A k \in 1 .. Len(stack) : [Meant EXCEPT ![n] = v][k] = IF k = n THEN v ELSE Meant[k]
<1> DEFINE m == Meant
<1>1. m = [k \in 1 .. Len(stack) |-> m[k]]
  BY MeantFacts
<1> HIDE DEF m
<1>2. \A k \in 1 .. Len(stack) : [m EXCEPT ![n] = v][k] = IF k = n THEN v ELSE m[k]
  BY <1>1
<1> QED
  BY <1>2 DEF m

LEMMA LetAgrees ==
  ASSUME AgreeInv, FlowInv', lifted = {}, NEW v \in Val, Let(v)
  PROVE  Native!Let(v) /\ Alone(stack', Meant')
<1>1. /\ FlowInv /\ Alone(stack, Meant) /\ ~after /\ UNCHANGED flags
      /\ stack' = stack /\ acc' = acc /\ Ready /\ stack # <<>> /\ T.at = "body"
  BY DEF AgreeInv, Let, Ready, Running
<1>2. /\ Landed = stack /\ Names = Meant /\ Slots = Zeros(Len(stack)) /\ LandedValue = acc
      /\ Landed' = stack' /\ Names' = Meant' /\ Slots' = Zeros(Len(stack')) /\ LandedValue' = acc'
      /\ Native!T = T /\ (Native!Ready <=> Ready) /\ Native!Binding = Bound
  BY <1>1, Resting
<1>3. Meant' = [Meant EXCEPT ![Len(stack)] = v]
  BY <1>1, MeansLet
<1>4. T.kind \in LoopExprs => Bound \subseteq {Len(stack)}
  <2> SUFFICES ASSUME T.kind \in LoopExprs PROVE Bound \subseteq {Len(stack)}
    OBVIOUS
  <2>1. Found \subseteq {Len(scopes)} /\ (InFunction \/ globals = None)
    BY DEF Let, Lift
  <2> QED
    BY <1>1, <2>1, LetAlone
<1>5. Native!BindingPlace(Native!T.kind \in LoopExprs) = Len(stack)
  <2>1. CASE T.kind \in LoopExprs
    <3>1. Native!Binding \ {Len(Landed)} = {}
      BY <1>2, <1>4, <2>1
    <3> QED
      BY <1>2, <3>1, NativeNames
  <2>2. CASE T.kind \notin LoopExprs
    BY <1>2, <2>2, NativeNames
  <2> QED
    BY <2>1, <2>2
<1>6. Native!Let(v)
  <2>1. Slots' = Slots /\ Landed' = Landed /\ LandedValue' = LandedValue
    BY <1>1, <1>2
  <2>2. Names' = [Names EXCEPT ![Native!BindingPlace(Native!T.kind \in LoopExprs)] = v]
    BY <1>2, <1>3, <1>5
  <2> QED
    BY <1>1, <1>2, <2>1, <2>2, NativeNames
<1>7. Alone(stack', Meant')
  <2>1. Len(stack) \in 1 .. Len(stack) /\ Len(stack) \in Nat
    BY <1>1, HereFacts
  <2>2. \A k \in 1 .. Len(stack) : Meant'[k] = IF k = Len(stack) THEN v ELSE Meant[k]
    BY <1>1, <1>3, <2>1, MeantReplaced
  <2>3. Outer(stack', stack) /\ NoneBound(stack', Meant, Meant')
    BY <1>1, <2>1, <2>2 DEF Outer, NoneBound
  <2> QED
    BY <1>1, <2>3, AloneStays
<1> QED
  BY <1>6, <1>7

LEMMA AssignAgrees ==
  ASSUME AgreeInv, FlowInv', lifted = {}, NEW v \in Val, Assign(v)
  PROVE  Native!Assign(v) /\ Alone(stack', Meant')
<1>1. /\ FlowInv /\ Alone(stack, Meant) /\ ~after /\ UNCHANGED flags
      /\ stack' = stack /\ acc' = acc /\ Ready /\ stack # <<>> /\ Known
  BY DEF AgreeInv, Assign, Ready, Running
<1>2. /\ Landed = stack /\ Names = Meant /\ Slots = Zeros(Len(stack)) /\ LandedValue = acc
      /\ Landed' = stack' /\ Names' = Meant' /\ Slots' = Zeros(Len(stack')) /\ LandedValue' = acc'
      /\ (Native!Ready <=> Ready) /\ Native!Binding = Bound
  BY <1>1, Resting
<1>3. Meant' = [Meant EXCEPT ![Max(Bound)] = v]
  BY <1>1, MeansAssign
<1>4. Bound # {} /\ Max(Bound) \in 1 .. Len(stack) /\ Max(Bound) \in Bound
  <2>1. /\ Bottom(stack, Len(stack)) \in 1 .. Len(stack) /\ Bound # {} /\ Len(stack) \in Nat
        /\ Max(Bound) \in Bottom(stack, Len(stack)) .. Len(stack)
    BY <1>1, BoundFacts, HereFacts
  <2>2. Bound \in SUBSET (1 .. Len(stack))
    BY <2>1 DEF Bound
  <2> QED
    BY <2>1, <2>2, MaxFacts
<1>5. Native!Assign(v)
  <2>1. Slots' = Slots /\ Landed' = Landed /\ LandedValue' = LandedValue
    BY <1>1, <1>2
  <2>2. Names' = [Names EXCEPT ![Max(Native!Binding)] = v]
    BY <1>2, <1>3
  <2> QED
    BY <1>1, <1>2, <1>4, <2>1, <2>2, NativeNames
<1>6. Alone(stack', Meant')
  <2>1. \A k \in 1 .. Len(stack) : Meant'[k] = IF k = Max(Bound) THEN v ELSE Meant[k]
    <3> DEFINE n == Max(Bound)
    <3>1. n \in 1 .. Len(stack) /\ Meant' = [Meant EXCEPT ![n] = v]
      BY <1>3, <1>4
    <3> HIDE DEF n
    <3>2. \A k \in 1 .. Len(stack) : [Meant EXCEPT ![n] = v][k] = IF k = n THEN v ELSE Meant[k]
      BY <1>1, <3>1, MeantReplaced, ZenonT(60)
    <3> QED
      BY <3>1, <3>2 DEF n
  <2>2. Meant[Max(Bound)] # None
    BY <1>4 DEF Bound
  <2>3. Len(stack) \in Nat
    BY <1>1, HereFacts
  <2>4. Outer(stack', stack) /\ NoneBound(stack', Meant, Meant')
    BY <1>1, <2>1, <2>2, <2>3 DEF Outer, NoneBound
  <2> QED
    BY <1>1, <2>4, AloneStays
<1> QED
  BY <1>5, <1>6

\* What is known, in the words of the compiled program.
LEMMA KnownBound ==
  ASSUME FlowInv, stack # <<>>
  PROVE  Known <=> Bound # {}
BY BoundFacts

\* A construct is entered by both.
LEMMA EnterAgrees ==
  ASSUME AgreeInv, FlowInv', lifted = {}, Running, NEW use \in Waits, NEW p \in Construct,
         Enter(p, use), p.named => p.kind \in Counted /\ ~Known,
         \/ p.kind = "fn" /\ scopes' = <<None>> /\ saved' = Append(saved, scopes)
         \/ p.kind # "fn" /\ p.at = "body" /\ scopes' = Append(scopes, None) /\ saved' = saved
         \/ p.kind # "fn" /\ p.at = "head" /\ scopes' = scopes /\ saved' = saved
  PROVE  Native!Enter(p, use) /\ Alone(stack', Meant')
<1>1. /\ FlowInv /\ Alone(stack, Meant) /\ stack # <<>> /\ ~after /\ UNCHANGED flags
      /\ globals' = globals /\ acc' = acc
      /\ Len(stack) < Depths[lifted] /\ stack' = Append(Waiting(stack, use), p)
  BY DEF AgreeInv, Running, Enter
<1>2. /\ Landed = stack /\ Names = Meant /\ Slots = Zeros(Len(stack)) /\ LandedValue = acc
      /\ Landed' = stack' /\ Names' = Meant' /\ Slots' = Zeros(Len(stack')) /\ LandedValue' = acc'
  BY <1>1, Resting
<1>3. Meant' = Append(Meant, None)
  BY <1>1, MeansEnter
<1>4. /\ stack \in Seq(Construct) /\ Nested(stack) /\ Len(stack) \in Nat
      /\ stack' \in Seq(Construct) /\ Meant = [k \in 1 .. Len(stack) |-> Meant[k]]
  BY <1>1, MeantFacts, NextFacts
<1>5. /\ Waiting(stack, use) \in Seq(Construct) /\ Len(Waiting(stack, use)) = Len(stack)
      /\ \A k \in 1 .. Len(stack) :
           /\ Waiting(stack, use)[k].kind = stack[k].kind
           /\ Waiting(stack, use)[k].named = stack[k].named
  BY <1>1, <1>4, WaitingFacts, ZenonT(40)
<1>6. /\ Len(stack') = Len(stack) + 1 /\ Top(stack') = p
      /\ \A k \in 1 .. Len(stack) :
           stack'[k].kind = stack[k].kind /\ stack'[k].named = stack[k].named
  <2> DEFINE c == Waiting(stack, use)
  <2>1. stack' = Append(c, p) /\ c \in Seq(Construct) /\ Len(c) = Len(stack)
    BY <1>1, <1>5
  <2>2. \A k \in 1 .. Len(stack) : c[k].kind = stack[k].kind /\ c[k].named = stack[k].named
    BY <1>5
  <2> HIDE DEF c
  <2>3. Len(stack') = Len(stack) + 1 /\ stack'[Len(stack')] = p /\ \A k \in 1 .. Len(stack) : stack'[k] = c[k]
    BY <1>4, <2>1
  <2> QED
    BY <2>2, <2>3 DEF Top
<1>7. Native!Enter(p, use)
  <2>1. Len(Landed) < MaxDepth
    BY <1>1, <1>2, <1>4, DepthsAssumption, FlowAssumption DEF FlowInv, Types
  <2>2. Slots' = Append(Slots, 0)
    BY <1>2, <1>4, <1>6, ZerosFacts
  <2> QED
    BY <1>1, <1>2, <1>3, <2>1, <2>2, NativeEffects
<1>8. Alone(stack', Meant')
  <2>1. Outer(stack, stack')
    BY <1>4, <1>6 DEF Outer
  <2>2. \A k \in 1 .. Len(stack) : Meant'[k] = Meant[k]
    <3> DEFINE m == Meant
    <3>1. m = [k \in 1 .. Len(stack) |-> m[k]]
      BY <1>4
    <3>2. Meant' = Append(m, None)
      BY <1>3
    <3> HIDE DEF m
    <3>3. Append(m, None) = [k \in 1 .. Len(stack) + 1 |-> IF k = Len(stack) + 1 THEN None ELSE m[k]]
      BY <1>4, <3>1, FunctionFacts
    <3>4. \A k \in 1 .. Len(stack) : Meant'[k] = m[k]
      BY <1>4, <3>2, <3>3
    <3> QED
      BY <3>4 DEF m
  <2>3. Top(stack').named => Top(stack').kind \in Counted /\ BoundIn(stack, Meant) = {}
    BY <1>1, <1>6, KnownBound DEF Bound, BoundIn
  <2> DEFINE m == Meant
             m2 == Meant'
  <2>4. stack # <<>> /\ Alone(stack, m) /\ Nested(stack) /\ Len(stack') = Len(stack) + 1
    BY <1>1, <1>4, <1>6
  <2>5. Top(stack').named => Top(stack').kind \in Counted /\ BoundIn(stack, m) = {}
    BY <2>3
  <2>6. \A k \in 1 .. Len(stack) : m2[k] = m[k]
    BY <2>2
  <2>7. stack \in Seq(Construct) /\ stack' \in Seq(Construct)
    BY <1>4
  <2> HIDE DEF m, m2
  <2>8. Alone(stack', m2)
    BY <2>1, <2>4, <2>5, <2>6, <2>7, AlonePush
  <2> QED
    BY <2>8 DEF m2
<1> QED
  BY <1>7, <1>8

\* The variable of a loop is the name only where the loop counts.
LEMMA NamedCounted ==
  \A p \in Headers("while", "for", MaxTurns) \cup Headers("whileExpr", "forExpr", MaxTurns) :
    p.named => p.kind \in Counted
<1>1. \A t, n, b : Place(t, n, b).named = b /\ Place(t, n, b).kind = t
  BY DEF Place
<1>2. ASSUME NEW t \in {"while", "whileExpr"}, NEW c \in Counted, NEW p \in Headers(t, c, MaxTurns)
      PROVE  p.named => p.kind \in Counted
  <2> DEFINE counted == {Place(c, n, named) : n \in 0 .. MaxTurns, named \in BOOLEAN}
  <2>1. Headers(t, c, MaxTurns) = {Place(t, 0, FALSE)} \cup counted
    BY DEF Headers
  <2>2. \A q \in counted : \E n \in 0 .. MaxTurns, named \in BOOLEAN : q = Place(c, n, named)
    OBVIOUS
  <2> HIDE DEF counted
  <2>3. CASE p = Place(t, 0, FALSE)
    BY <1>1, <2>3
  <2>4. CASE p \in counted
    BY <1>1, <2>2, <2>4
  <2>5. p = Place(t, 0, FALSE) \/ p \in counted
    BY <2>1
  <2> QED
    BY <2>3, <2>4, <2>5
<1> QED
  BY <1>2 DEF Counted

LEMMA IfAgrees ==
  ASSUME AgreeInv, FlowInv', lifted = {}, If
  PROVE  Native!If /\ Alone(stack', Meant')
<1> DEFINE p == Place("if", 0, FALSE)
<1>1. p \in Construct /\ p.kind = "if" /\ p.at = "body"
  BY PlaceFacts
<1>2. ~p.named
  BY DEF Place
<1>3. /\ Ready /\ Running /\ Enter(p, "none") /\ scopes' = Append(scopes, None) /\ saved' = saved
      /\ p = Native!Place("if", 0, FALSE)
  BY SameHeaders DEF If, Ready
<1>4. UNCHANGED flags /\ FlowInv /\ ~after
  BY <1>3 DEF Enter, AgreeInv, Running
<1> HIDE DEF p
<1>5. Native!Enter(p, "none") /\ Alone(stack', Meant')
  <2>1. "none" \in Waits
    BY DEF Waits
  <2> QED
    BY <1>1, <1>2, <1>3, <2>1, EnterAgrees
<1>6. Native!Ready
  BY <1>3, <1>4, Resting
<1> QED
  BY <1>3, <1>5, <1>6 DEF Native!If

LEMMA LoopAgrees ==
  ASSUME AgreeInv, FlowInv', lifted = {}, NEW p \in Headers("while", "for", MaxTurns), Loop(p)
  PROVE  Native!Loop(p) /\ Alone(stack', Meant')
<1>1. p \in Construct /\ p.kind \in StmtLoops /\ p.at = "head"
  BY PlaceFacts
<1>2. p.named => p.kind \in Counted /\ ~Known
  BY NamedCounted DEF Loop, Lift
<1>3. Ready /\ Running /\ Enter(p, "none") /\ scopes' = scopes /\ saved' = saved
  BY DEF Loop, Ready
<1>4. UNCHANGED flags /\ FlowInv /\ ~after
  BY <1>3 DEF Enter, AgreeInv, Running
<1>5. p.kind # "fn" /\ "none" \in Waits
  BY <1>1 DEF StmtLoops, Waits
<1>6. Native!Enter(p, "none") /\ Alone(stack', Meant')
  BY <1>1, <1>2, <1>3, <1>5, EnterAgrees
<1>7. Native!Ready
  BY <1>3, <1>4, Resting
<1> QED
  BY <1>6, <1>7 DEF Native!Loop

\* What the interpreter may wait for, the compiled program may.
LEMMA WaitAgrees ==
  ASSUME FlowInv, FlowInv', lifted = {}, NEW use \in Uses, MayWait(use), UNCHANGED flags
  PROVE  Native!MayWait(use) /\ Running /\ use \in Waits
<1>1. Running /\ use # "none" /\ ~after /\ use \in Waits
  BY DEF MayWait, Running, Uses
<1>2. Landed = stack /\ Native!T = T /\ (Native!Running <=> Running)
  BY <1>1, Resting
<1>3. use = "brk" => OpenLoops(stack) # {}
  BY DEF MayWait, Lift
<1> QED
  BY <1>1, <1>2, <1>3, SameNesting DEF Native!MayWait, MayWait

LEMMA CallAgrees ==
  ASSUME AgreeInv, FlowInv', lifted = {}, NEW use \in Uses, Call(use)
  PROVE  Native!Call(use) /\ Alone(stack', Meant')
<1> DEFINE p == Place("fn", 0, FALSE)
<1>1. p \in Construct /\ p.kind = "fn"
  BY PlaceFacts DEF Frames
<1>2. ~p.named
  BY DEF Place
<1>3. /\ MayWait(use) /\ Enter(p, use) /\ scopes' = <<None>> /\ saved' = Append(saved, scopes)
      /\ p = Native!Place("fn", 0, FALSE)
  BY SameHeaders DEF Call
<1>4. UNCHANGED flags /\ FlowInv
  BY <1>3 DEF Enter, AgreeInv
<1> HIDE DEF p
<1>5. Native!MayWait(use) /\ Running /\ use \in Waits
  BY <1>3, <1>4, WaitAgrees
<1>6. Native!Enter(p, use) /\ Alone(stack', Meant')
  BY <1>1, <1>2, <1>3, <1>5, EnterAgrees
<1> QED
  BY <1>3, <1>5, <1>6 DEF Native!Call

LEMMA LoopExprAgrees ==
  ASSUME AgreeInv, FlowInv', lifted = {}, NEW use \in Uses,
         NEW p \in Headers("whileExpr", "forExpr", MaxTurns), LoopExpr(p, use)
  PROVE  Native!LoopExpr(p, use) /\ Alone(stack', Meant')
<1>1. p \in Construct /\ p.kind \in LoopExprs /\ p.at = "head"
  BY PlaceFacts
<1>2. p.named => p.kind \in Counted /\ ~Known
  BY NamedCounted DEF LoopExpr, Lift
<1>3. MayWait(use) /\ Enter(p, use) /\ scopes' = scopes /\ saved' = saved
  BY DEF LoopExpr
<1>4. UNCHANGED flags /\ FlowInv /\ p.kind # "fn"
  BY <1>1, <1>3 DEF Enter, AgreeInv, LoopExprs
<1>5. Native!MayWait(use) /\ Running /\ use \in Waits
  BY <1>3, <1>4, WaitAgrees
<1>6. Native!Enter(p, use) /\ Alone(stack', Meant')
  BY <1>1, <1>2, <1>3, <1>4, <1>5, EnterAgrees
<1> QED
  BY <1>5, <1>6 DEF Native!LoopExpr

\* Nothing is bound and nothing entered.
LEMMA StayMeans ==
  ASSUME AgreeInv, FlowInv', lifted = {}, UNCHANGED <<scopes, saved, globals>>,
         stack' = stack \/ (stack # <<>> /\ \E use \in Waits : stack' = Waiting(stack, use))
  PROVE  Meant' = Meant /\ Len(stack') = Len(stack) /\ Alone(stack', Meant')
<1>1. FlowInv /\ Alone(stack, Meant) /\ stack \in Seq(Construct) /\ Len(stack) \in Nat
  BY MeantFacts DEF AgreeInv
<1>2. Meant' = Meant
  BY <1>1, MeansStay
<1>3. /\ Len(stack') = Len(stack)
      /\ \A k \in 1 .. Len(stack) : stack'[k].kind = stack[k].kind /\ stack'[k].named = stack[k].named
  <2>1. ASSUME stack # <<>>, NEW use \in Waits, stack' = Waiting(stack, use)
        PROVE  /\ Len(stack') = Len(stack)
               /\ \A k \in 1 .. Len(stack) :
                    stack'[k].kind = stack[k].kind /\ stack'[k].named = stack[k].named
    BY <1>1, <2>1, WaitingFacts
  <2> QED
    BY <2>1
<1>4. Outer(stack', stack) /\ NoneBound(stack', Meant, Meant')
  BY <1>1, <1>2, <1>3 DEF Outer, NoneBound
<1> QED
  BY <1>1, <1>2, <1>3, <1>4, AloneStays

\* A loop goes into its body or back to its head.
LEMMA TurnMeans ==
  ASSUME AgreeInv, FlowInv', lifted = {}, stack # <<>>, NEW q \in Construct,
         q.kind = T.kind, q.named = T.named, q.kind \in Loops,
         stack' = Changed(stack, q), UNCHANGED <<saved, globals>>, NEW v \in Scope,
         \/ T.at = "head" /\ q.at = "body" /\ scopes' = Append(scopes, v)
         \/ T.at = "body" /\ q.at = "head" /\ scopes' = Pop(scopes) /\ v = None
  PROVE  /\ Meant' = [Meant EXCEPT ![Len(stack)] = v] /\ Len(stack') = Len(stack)
         /\ Alone(stack', Meant')
<1>1. FlowInv /\ Alone(stack, Meant)
  BY DEF AgreeInv
<1>2. Meant' = [Meant EXCEPT ![Len(stack)] = v]
  BY <1>1, MeansTurn
<1>3. /\ stack \in Seq(Construct) /\ Len(stack) \in 1 .. Len(stack) /\ Len(stack) \in Nat
      /\ T = stack[Len(stack)]
  BY <1>1, HereFacts
<1>4. /\ Len(stack') = Len(stack) /\ stack'[Len(stack)] = q
      /\ \A k \in 1 .. Len(stack) : k # Len(stack) => stack'[k] = stack[k]
  BY <1>3, ReplaceFacts DEF Changed
<1>5. \A k \in 1 .. Len(stack) : Meant'[k] = IF k = Len(stack) THEN v ELSE Meant[k]
  <2>1. FlowInv /\ Len(stack) \in 1 .. Len(stack)
    BY <1>1, <1>3
  <2>2. \A k \in 1 .. Len(stack) :
           [Meant EXCEPT ![Len(stack)] = v][k] = IF k = Len(stack) THEN v ELSE Meant[k]
    BY <2>1, MeantReplaced
  <2> QED
    BY <1>2, <2>2, Zenon
<1>6. Outer(stack', stack) /\ NoneBound(stack', Meant, Meant')
  BY <1>3, <1>4, <1>5 DEF Outer, NoneBound
<1> QED
  BY <1>1, <1>2, <1>4, <1>6, AloneStays

\* The innermost construct is left.
LEMMA OutMeans ==
  ASSUME AgreeInv, FlowInv', lifted = {}, stack # <<>>, stack' = Pop(stack), globals' = globals,
         \/ Len(stack) = 1
         \/ T.kind = "fn" /\ scopes' = Top(saved) /\ saved' = Pop(saved)
         \/ T.kind # "fn" /\ T.at = "body" /\ scopes' = Pop(scopes) /\ saved' = saved
         \/ T.kind # "fn" /\ T.at = "head" /\ scopes' = scopes /\ saved' = saved
  PROVE  /\ Meant' = SubSeq(Meant, 1, Len(stack) - 1) /\ stack' = SubSeq(stack, 1, Len(stack) - 1)
         /\ Len(stack') = Len(stack) - 1 /\ Alone(stack', Meant')
<1>1. FlowInv /\ Alone(stack, Meant)
  BY DEF AgreeInv
<1>2. Meant' = SubSeq(Meant, 1, Len(stack) - 1)
  BY <1>1, MeansOut
<1>3. stack \in Seq(Construct) /\ Len(stack) \in Nat \ {0} /\ Meant = [k \in 1 .. Len(stack) |-> Meant[k]]
  BY <1>1, HereFacts, MeantFacts
<1>4. Len(stack') = Len(stack) - 1 /\ \A k \in 1 .. Len(stack) - 1 : stack'[k] = stack[k]
  BY <1>3, PopFacts
<1> DEFINE n == Len(stack)
           m == n - 1
           M == Meant
<1>5. n \in Nat /\ m \in 0 .. n /\ m \in Nat /\ M = [k \in 1 .. n |-> M[k]] /\ Meant' = SubSeq(M, 1, m)
  BY <1>2, <1>3
<1>6. \A k \in 1 .. m : Meant'[k] = M[k]
  <2> HIDE DEF n, m, M
  <2>1. SubSeq(M, 1, m) = [k \in 1 .. m |-> M[k]]
    BY <1>5, FunctionFacts
  <2> QED
    BY <1>5, <2>1
<1>7. Outer(stack', stack) /\ NoneBound(stack', Meant, Meant')
  <2>1. Outer(stack', stack)
    BY <1>3, <1>4 DEF Outer
  <2>2. \A k \in 1 .. Len(stack') - 1 : k \in 1 .. m
    BY <1>3, <1>4
  <2>3. NoneBound(stack', Meant, Meant')
    BY <1>6, <2>2 DEF NoneBound
  <2> QED
    BY <2>1, <2>3
<1>8. Alone(stack', Meant')
  BY <1>1, <1>7, AloneStays
<1> QED
  BY <1>2, <1>4, <1>8 DEF Pop

\* At the head of a loop its variable is not bound.
LEMMA MeantAtHead ==
  ASSUME FlowInv, stack # <<>>, T.at = "head"
  PROVE  [Meant EXCEPT ![Len(stack)] = None] = Meant
<1> DEFINE n == Len(stack)
           M == Meant
<1>1. n \in 1 .. n /\ M = [k \in 1 .. n |-> M[k]] /\ M[n] = NameOf(stack, scopes, saved, globals, n)
  BY HereFacts, MeantFacts
<1>2. stack[n].at = "head"
  BY HereFacts
<1>3. M[n] = None
  BY <1>1, <1>2 DEF NameOf
<1> HIDE DEF n, M
<1>4. [M EXCEPT ![n] = None] = M
  BY <1>1, <1>3
<1> QED
  BY <1>4 DEF n, M

\* Back at the head it is unbound again.
LEMMA MeantHeadAgain ==
  ASSUME FlowInv, stack # <<>>
  PROVE  /\ [Meant EXCEPT ![Len(stack)] = None] = Append(SubSeq(Meant, 1, Len(stack) - 1), None)
         /\ SubSeq(stack, 1, Len(stack)) = stack
<1> DEFINE n == Len(stack)
           m == n - 1
           M == Meant
<1>1. n \in 1 .. n /\ n \in Nat /\ m \in Nat /\ m \in 0 .. n /\ m + 1 = n /\ M = [k \in 1 .. n |-> M[k]]
  BY HereFacts, MeantFacts
<1>2. SubSeq(stack, 1, n) = stack
  <2>1. stack \in Seq(Construct)
    BY HereFacts
  <2>2. stack = [k \in 1 .. n |-> stack[k]]
    BY <2>1
  <2>3. n \in 0 .. n /\ n \in Nat
    BY <1>1
  <2> HIDE DEF n
  <2> QED
    BY <2>2, <2>3, FunctionFacts
<1> HIDE DEF n, m, M
<1>3. SubSeq(M, 1, m) = [k \in 1 .. m |-> M[k]]
  BY <1>1, FunctionFacts
<1> DEFINE s == SubSeq(M, 1, m)
<1>4. s = [k \in 1 .. m |-> s[k]] /\ \A k \in 1 .. m : s[k] = M[k]
  BY <1>3
<1> HIDE DEF s
<1>5. Append(s, None) = [k \in 1 .. m + 1 |-> IF k = m + 1 THEN None ELSE s[k]]
  BY <1>1, <1>4, FunctionFacts
<1>6. \A k \in 1 .. n : (IF k = n THEN None ELSE s[k]) = (IF k = n THEN None ELSE M[k])
  <2>1. \A k \in 1 .. n : k = n \/ k \in 1 .. m
    BY <1>1
  <2> QED
    BY <1>4, <2>1
<1>7. Append(s, None) = [k \in 1 .. n |-> IF k = n THEN None ELSE M[k]]
  BY <1>1, <1>5, <1>6
<1>8. [M EXCEPT ![n] = None] = [k \in 1 .. n |-> IF k = n THEN None ELSE M[k]]
  BY <1>1
<1>9. Append(s, None) = [M EXCEPT ![n] = None]
  BY <1>7, <1>8
<1> QED
  BY <1>2, <1>9 DEF n, m, M, s

\* A loop variable is the only binding of its name.
LEMMA NamedFree ==
  ASSUME AgreeInv, lifted = {}, stack # <<>>, T.named
  PROVE  T.kind \in Counted /\ Bound \ {Len(stack)} = {}
<1>1. /\ FlowInv /\ Alone(stack, Meant) /\ Len(stack) \in 1 .. Len(stack) /\ Len(stack) \in Nat
      /\ T = stack[Len(stack)] /\ stack \in Seq(Construct) /\ Nested(stack)
  BY HereFacts DEF AgreeInv
<1>2. T.kind \in Counted /\ \A j \in Bottom(stack, Len(stack)) .. Len(stack) - 1 : Meant[j] = None
  BY <1>1 DEF Alone
<1>3. Bottom(stack, Len(stack)) \in 1 .. Len(stack)
  BY <1>1, BottomFacts
<1>4. \A k \in Bound : k # Len(stack) => FALSE
  <2> SUFFICES ASSUME NEW k \in Bound, k # Len(stack) PROVE FALSE
    OBVIOUS
  <2>1. k \in Bottom(stack, Len(stack)) .. Len(stack) /\ Meant[k] # None
    BY DEF Bound
  <2>2. k \in Bottom(stack, Len(stack)) .. Len(stack) - 1
    BY <1>1, <1>3, <2>1
  <2> QED
    BY <1>2, <2>1, <2>2
<1> QED
  BY <1>2, <1>4

LEMMA ReadAgrees ==
  ASSUME AgreeInv, FlowInv', lifted = {}, NEW use \in Uses, Read(use)
  PROVE  Native!Read(use) /\ Alone(stack', Meant')
<1>1. /\ MayWait(use) /\ Known /\ stack' = Waiting(stack, use) /\ acc' = Value
      /\ UNCHANGED <<scopes, saved, globals>> /\ UNCHANGED flags /\ FlowInv
  BY DEF Read, AgreeInv
<1>2. Native!MayWait(use) /\ Running /\ use \in Waits
  BY <1>1, WaitAgrees
<1>3. stack # <<>> /\ ~after
  BY <1>2 DEF Running
<1>4. /\ Landed = stack /\ Names = Meant /\ Slots = Zeros(Len(stack)) /\ LandedValue = acc
      /\ Landed' = stack' /\ Names' = Meant' /\ Slots' = Zeros(Len(stack')) /\ LandedValue' = acc'
      /\ Native!Binding = Bound
  BY <1>1, <1>3, Resting
<1>5. Meant' = Meant /\ Len(stack') = Len(stack) /\ Alone(stack', Meant')
  BY <1>1, <1>2, <1>3, StayMeans
<1>6. Bound # {} /\ Value = Meant[Max(Bound)]
  BY <1>1, <1>3, BoundFacts
<1>7. Landed' = Waiting(Landed, use) /\ LandedValue' = Names[Max(Native!Binding)] /\ Names' = Names /\ Slots' = Slots
  BY <1>1, <1>4, <1>5, <1>6
<1> QED
  BY <1>2, <1>4, <1>5, <1>6, <1>7, NativeNames

LEMMA TurnAgrees ==
  ASSUME AgreeInv, FlowInv', lifted = {}, Turn
  PROVE  Native!Turn /\ Alone(stack', Meant')
<1> DEFINE q == [T EXCEPT !.at = "body"]
           v == IF T.named THEN T.next ELSE None
<1>1. /\ FlowInv /\ Running /\ MayTurn(T) /\ stack # <<>> /\ ~after /\ UNCHANGED flags /\ acc' = acc
      /\ UNCHANGED <<saved, globals>> /\ stack' = InBody(stack) /\ scopes' = Append(scopes, v)
  BY DEF Turn, Running, EnterBody, AgreeInv
<1>2. /\ stack \in Seq(Construct) /\ T \in Construct /\ Proper(T) /\ T = Top(stack)
  BY <1>1, HereFacts
<1>3. T.at = "head" /\ T.kind \in Loops
  BY <1>1, <1>2 DEF MayTurn, Proper
<1>4. stack' = Changed(stack, q)
  BY <1>1, <1>2, ChangesOfTop
<1>5. q \in Construct /\ q.kind = T.kind /\ q.named = T.named /\ q.at = "body"
  BY <1>2 DEF Construct
<1>6. v \in Scope
  <2>1. T.next \in Nat
    BY <1>2, FlowAssumption DEF Construct
  <2> QED
    BY <2>1 DEF Scope
<1>7. T.named => v = T.next
  OBVIOUS
<1>8. ~T.named => v = None
  OBVIOUS
<1> HIDE DEF q, v
<1>9. /\ Meant' = [Meant EXCEPT ![Len(stack)] = v] /\ Len(stack') = Len(stack)
      /\ Alone(stack', Meant')
  BY <1>1, <1>3, <1>4, <1>5, <1>6, TurnMeans
<1>10. /\ Landed = stack /\ Names = Meant /\ Slots = Zeros(Len(stack)) /\ LandedValue = acc
       /\ Landed' = stack' /\ Names' = Meant' /\ Slots' = Zeros(Len(stack')) /\ LandedValue' = acc'
       /\ Native!T = T /\ (Native!Running <=> Running) /\ Native!Binding = Bound
  BY <1>1, Resting
<1>11. Names' = IF Native!T.named THEN [Names EXCEPT ![Native!BindingPlace(TRUE)] = Native!T.next]
                                  ELSE Names
  <2>1. CASE T.named
    <3>1. Native!Binding \ {Len(Landed)} = {}
      BY <1>1, <1>10, <2>1, NamedFree
    <3>2. Native!BindingPlace(TRUE) = Len(stack)
      BY <1>10, <3>1, NativeNames
    <3> QED
      BY <1>7, <1>9, <1>10, <2>1, <3>2
  <2>2. CASE ~T.named
    <3>1. [Meant EXCEPT ![Len(stack)] = None] = Meant
      BY <1>1, <1>3, MeantAtHead
    <3> QED
      BY <1>8, <1>9, <1>10, <2>2, <3>1
  <2> QED
    BY <2>1, <2>2
<1>12. Native!Turn
  <2>1. Landed' = InBody(Landed) /\ Slots' = Slots /\ LandedValue' = LandedValue
    BY <1>1, <1>9, <1>10
  <2> QED
    BY <1>1, <1>10, <1>11, <2>1, NativeNames
<1> QED
  BY <1>9, <1>12

\* The next turn, whoever makes it.
LEMMA NextTurnMeans ==
  ASSUME AgreeInv, FlowInv', lifted = {}, stack # <<>>, T.kind \in Loops, T.at = "body",
         stack' = NextTurn(stack), PopScope, UNCHANGED <<saved, globals>>
  PROVE  /\ Meant' = Append(SubSeq(Meant, 1, Len(stack) - 1), None)
         /\ Len(stack') = Len(stack) /\ SubSeq(stack, 1, Len(stack)) = stack
         /\ Alone(stack', Meant')
<1> DEFINE next == IF T.kind \in Counted THEN T.next + 1 ELSE T.next
           q == [T EXCEPT !.at = "head", !.next = next]
<1>1. /\ FlowInv /\ stack \in Seq(Construct) /\ T \in Construct /\ Proper(T) /\ T = Top(stack)
  BY HereFacts DEF AgreeInv
<1>2. next \in 0 .. MaxTurns
  <2>1. T.next \in 0 .. MaxTurns /\ T.end \in 0 .. MaxTurns /\ MaxTurns \in Nat
    BY <1>1, FlowAssumption DEF Construct
  <2>2. T.kind \in Counted => T.next < T.end
    BY <1>1 DEF Proper
  <2>3. CASE T.kind \in Counted
    BY <2>1, <2>2, <2>3
  <2>4. CASE T.kind \notin Counted
    BY <2>1, <2>4
  <2> QED
    BY <2>3, <2>4
<1>3. stack' = Changed(stack, q)
  BY <1>1, ChangesOfTop
<1> HIDE DEF next
<1>4. q \in Construct /\ q.kind = T.kind /\ q.at = "head" /\ q.named = T.named
  BY <1>1, <1>2 DEF Construct
<1> HIDE DEF q
<1>5. None \in Scope /\ scopes' = Pop(scopes)
  BY DEF Scope, PopScope
<1>6. /\ Meant' = [Meant EXCEPT ![Len(stack)] = None] /\ Len(stack') = Len(stack)
      /\ Alone(stack', Meant')
  BY <1>3, <1>4, <1>5, TurnMeans
<1> QED
  BY <1>1, <1>6, MeantHeadAgain

LEMMA EndTurnAgrees ==
  ASSUME AgreeInv, FlowInv', lifted = {}, EndTurn
  PROVE  Native!EndTurn /\ Alone(stack', Meant')
<1>1. /\ FlowInv /\ Ready /\ stack # <<>> /\ ~after /\ acc = None /\ T.at = "body"
  BY DEF EndTurn, Ready, Running, AgreeInv
<1>2. ~should_break
  BY <1>1, StillFacts DEF Still
<1>3. /\ T.kind \in Loops /\ stack' = NextTurn(stack) /\ PopScope
      /\ UNCHANGED <<saved, globals>> /\ UNCHANGED flags /\ acc' = acc
  BY <1>2 DEF EndTurn, BreakOfLoop, BreakOfLoopExpr
<1>4. /\ Meant' = Append(SubSeq(Meant, 1, Len(stack) - 1), None)
      /\ Len(stack') = Len(stack) /\ SubSeq(stack, 1, Len(stack)) = stack
      /\ Alone(stack', Meant')
  BY <1>1, <1>3, NextTurnMeans
<1>5. /\ Landed = stack /\ Names = Meant /\ Slots = Zeros(Len(stack)) /\ LandedValue = acc
      /\ Landed' = stack' /\ Names' = Meant' /\ Slots' = Zeros(Len(stack')) /\ LandedValue' = acc'
      /\ Native!T = T /\ (Native!Ready <=> Ready)
  BY <1>1, <1>3, Resting
<1>6. Len(stack) \in Nat /\ Len(stack) \in 0 .. Len(stack)
  BY <1>1, HereFacts
<1>7. Slots' = SubSeq(Slots, 1, Len(stack))
  BY <1>4, <1>5, <1>6, ZerosFacts
<1>8. Native!TurnAgain(Landed, Len(Landed))
  <2>1. /\ Landed' = NextTurn(SubSeq(Landed, 1, Len(Landed)))
        /\ Names' = Append(SubSeq(Names, 1, Len(Landed) - 1), None)
        /\ Slots' = SubSeq(Slots, 1, Len(Landed)) /\ LandedValue' = None
    BY <1>1, <1>3, <1>4, <1>5, <1>7
  <2> QED
    BY <2>1, NativeEffects
<1> QED
  BY <1>1, <1>3, <1>4, <1>5, <1>8, SameNesting DEF Native!EndTurn

\* What is left of the slots.
LEMMA FewerSlots ==
  ASSUME FlowInv, stack # <<>>
  PROVE  /\ SubSeq(Zeros(Len(stack)), 1, Len(stack) - 1) = Zeros(Len(stack) - 1)
         /\ Zeros(Len(stack))[Len(stack)] = 0
         /\ Len(stack) - 1 \in Nat /\ Len(stack) \in 1 .. Len(stack)
<1> DEFINE n == Len(stack)
<1>1. n \in Nat \ {0}
  BY HereFacts
<1> HIDE DEF n
<1>2. n \in Nat /\ n - 1 \in 0 .. n /\ n - 1 \in Nat /\ n \in 1 .. n
  BY <1>1
<1>3. SubSeq(Zeros(n), 1, n - 1) = Zeros(n - 1)
  BY <1>2, ZerosFacts
<1>4. Zeros(n)[n] = 0
  BY <1>2 DEF Zeros
<1> QED
  BY <1>2, <1>3, <1>4 DEF n

\* A loop that ends at its head.
LEMMA LoopOverAgrees ==
  ASSUME AgreeInv, FlowInv', lifted = {}, stack # <<>>, ~after, T.at = "head",
         NEW c, Top(c).kind = T.kind, Pop(c) = Pop(stack), c[Len(stack)].kind = T.kind,
         SubSeq(c, 1, Len(stack) - 1) = SubSeq(stack, 1, Len(stack) - 1),
         LoopOver(c, 0), UNCHANGED <<scopes, saved, globals>>, UNCHANGED flags
  PROVE  Native!LoopOver(c, Len(stack), Slots) /\ Alone(stack', Meant')
<1>1. /\ FlowInv /\ T \in Construct /\ Proper(T)
  BY HereFacts DEF AgreeInv
<1>2. T.kind \in Loops /\ T.kind # "fn"
  BY <1>1 DEF Proper, Loops, StmtLoops, LoopExprs
<1>3. stack' = Pop(stack) /\ acc' = IF T.kind \in LoopExprs THEN 0 ELSE None
  BY DEF LoopOver
<1>4. /\ Meant' = SubSeq(Meant, 1, Len(stack) - 1) /\ stack' = SubSeq(stack, 1, Len(stack) - 1)
      /\ Len(stack') = Len(stack) - 1 /\ Alone(stack', Meant')
  BY <1>1, <1>2, <1>3, OutMeans
<1>5. /\ Landed = stack /\ Names = Meant /\ Slots = Zeros(Len(stack)) /\ LandedValue = acc
      /\ Landed' = stack' /\ Names' = Meant' /\ Slots' = Zeros(Len(stack')) /\ LandedValue' = acc'
  BY <1>1, Resting
<1>6. /\ Slots' = SubSeq(Slots, 1, Len(stack) - 1)
      /\ LandedValue' = IF c[Len(stack)].kind \in LoopExprs THEN Slots[Len(stack)] ELSE None
  BY <1>1, <1>3, <1>4, <1>5, FewerSlots
<1>7. Landed' = SubSeq(c, 1, Len(stack) - 1) /\ Names' = SubSeq(Names, 1, Len(stack) - 1)
  BY <1>4, <1>5
<1> QED
  BY <1>4, <1>6, <1>7, NativeEffects

LEMMA EndLoopAgrees ==
  ASSUME AgreeInv, FlowInv', lifted = {}, EndLoop
  PROVE  Native!EndLoop /\ Alone(stack', Meant')
<1>1. /\ FlowInv /\ Running /\ MayEnd(T) /\ stack # <<>> /\ ~after /\ T.at = "head"
      /\ LoopOver(stack, 0) /\ UNCHANGED <<scopes, saved, globals>> /\ UNCHANGED flags
  BY DEF EndLoop, Running, MayEnd, AgreeInv
<1>2. Top(stack).kind = T.kind /\ stack[Len(stack)].kind = T.kind
  BY DEF T, Top
<1>3. Native!LoopOver(stack, Len(stack), Slots) /\ Alone(stack', Meant')
  BY <1>1, <1>2, LoopOverAgrees
<1>4. Landed = stack /\ Native!T = T /\ (Native!Running <=> Running)
  BY <1>1, Resting
<1> QED
  BY <1>1, <1>3, <1>4, SameNesting DEF Native!EndLoop, Slots

LEMMA EndIfAgrees ==
  ASSUME AgreeInv, FlowInv', lifted = {}, EndIf
  PROVE  Native!EndIf /\ Alone(stack', Meant')
<1>1. /\ FlowInv /\ Ready /\ stack # <<>> /\ ~after /\ T.at = "body" /\ T.kind = "if"
      /\ stack' = Pop(stack) /\ scopes' = Pop(scopes) /\ acc' = acc
      /\ UNCHANGED <<saved, globals>> /\ UNCHANGED flags
  BY DEF EndIf, Ready, Running, PopScope, AgreeInv
<1>2. /\ Meant' = SubSeq(Meant, 1, Len(stack) - 1) /\ stack' = SubSeq(stack, 1, Len(stack) - 1)
      /\ Len(stack') = Len(stack) - 1 /\ Alone(stack', Meant')
  <2>1. T.kind # "fn"
    BY <1>1
  <2> QED
    BY <1>1, <2>1, OutMeans
<1>3. /\ Landed = stack /\ Names = Meant /\ Slots = Zeros(Len(stack)) /\ LandedValue = acc
      /\ Landed' = stack' /\ Names' = Meant' /\ Slots' = Zeros(Len(stack')) /\ LandedValue' = acc'
      /\ Native!T = T /\ (Native!Ready <=> Ready)
  BY <1>1, Resting
<1>4. Native!Keep(Landed, Len(Landed) - 1)
  BY <1>2, <1>3, NativeEffects
<1>5. Slots' = Pop(Slots)
  <2>1. Len(Zeros(Len(stack))) = Len(stack)
    BY <1>1, HereFacts, ZerosFacts
  <2> QED
    BY <1>1, <1>2, <1>3, <2>1, FewerSlots DEF Pop
<1>6. Native!EndIf
  BY <1>1, <1>3, <1>4, <1>5, SameNesting DEF Native!EndIf, Slots
<1> QED
  BY <1>2, <1>6

\* The function on top of the nest is the one control is in; but for the outermost,
\* it was called.
LEMMA FrameOnTop ==
  ASSUME FlowInv, stack # <<>>, T.kind \in Frames
  PROVE  FrameOf(stack) = Len(stack) /\ (Len(stack) # 1 => T.kind = "fn")
<1>1. /\ stack \in Seq(Construct) /\ Nested(stack) /\ Len(stack) \in Nat \ {0} /\ T = stack[Len(stack)]
  BY HereFacts
<1> DEFINE n == Len(stack)
           m == n - 1
<1>2. n \in 1 .. n /\ n \in Nat
  BY <1>1
<1>3. FrameOf(stack) = n
  <2>1. n \in 1 .. Len(stack) /\ stack[n].kind \in Frames
    BY <1>1, <1>2
  <2> HIDE DEF n
  <2>2. Bottom(stack, n) \in 1 .. n /\ n <= Bottom(stack, n)
    BY <1>1, <1>2, <2>1, BottomFacts
  <2>3. Bottom(stack, n) = n
    BY <1>2, <2>2
  <2> QED
    BY <1>1, <2>3, LoopFacts DEF n
<1>4. n # 1 => T.kind = "fn"
  <2> SUFFICES ASSUME n # 1 PROVE T.kind = "fn"
    OBVIOUS
  <2>1. m \in 1 .. n - 1 /\ m + 1 = n
    <3>1. n \in Nat /\ n \in 1 .. n /\ n # 1
      BY <1>2
    <3> HIDE DEF n
    <3> QED
      BY <3>1
  <2>2. Encloses(stack[m], stack[m + 1])
    BY <1>1, <2>1 DEF Nested
  <2> QED
    BY <1>1, <2>1, <2>2 DEF Encloses, Frames
<1> QED
  BY <1>3, <1>4

\* The call is over for both.
LEMMA CallOverMeans ==
  ASSUME AgreeInv, FlowInv', lifted = {}, stack # <<>>, T.kind \in Frames, NEW v,
         CallOver(v), globals' = globals
  PROVE  /\ Meant' = SubSeq(Meant, 1, Len(stack) - 1) /\ stack' = SubSeq(stack, 1, Len(stack) - 1)
         /\ Len(stack') = Len(stack) - 1 /\ Alone(stack', Meant')
         /\ acc' = IF Len(stack) = 1 THEN None ELSE v
<1>1. FlowInv
  BY DEF AgreeInv
<1>2. Len(stack) # 1 => T.kind = "fn"
  BY <1>1, FrameOnTop
<1>3. stack' = Pop(stack) /\ acc' = IF Len(stack) = 1 THEN None ELSE v
  BY DEF CallOver
<1>4. Len(stack) # 1 => scopes' = Top(saved) /\ saved' = Pop(saved)
  BY DEF CallOver
<1>5. /\ Meant' = SubSeq(Meant, 1, Len(stack) - 1) /\ stack' = SubSeq(stack, 1, Len(stack) - 1)
      /\ Len(stack') = Len(stack) - 1 /\ Alone(stack', Meant')
  BY <1>2, <1>3, <1>4, OutMeans
<1> QED
  BY <1>3, <1>5

LEMMA FallOffAgrees ==
  ASSUME AgreeInv, FlowInv', lifted = {}, FallOff
  PROVE  Native!FallOff /\ Alone(stack', Meant')
<1>1. /\ FlowInv /\ Ready /\ stack # <<>> /\ ~after /\ T.kind \in Frames /\ UnitFrame(stack)
      /\ CallOver(0) /\ globals' = globals /\ UNCHANGED flags
  BY DEF FallOff, Ready, Running, AgreeInv
<1>2. /\ Meant' = SubSeq(Meant, 1, Len(stack) - 1) /\ stack' = SubSeq(stack, 1, Len(stack) - 1)
      /\ Len(stack') = Len(stack) - 1 /\ Alone(stack', Meant')
      /\ acc' = IF Len(stack) = 1 THEN None ELSE 0
  BY <1>1, CallOverMeans
<1>3. /\ Landed = stack /\ Names = Meant /\ Slots = Zeros(Len(stack)) /\ LandedValue = acc
      /\ Landed' = stack' /\ Names' = Meant' /\ Slots' = Zeros(Len(stack')) /\ LandedValue' = acc'
      /\ Native!T = T /\ (Native!Ready <=> Ready)
  BY <1>1, Resting
<1>4. FrameOf(stack) = Len(stack)
  BY <1>1, FrameOnTop
<1>5. Native!Leave(Landed, 0)
  <2>1. Slots' = SubSeq(Slots, 1, Len(stack) - 1)
    BY <1>1, <1>2, <1>3, FewerSlots
  <2>2. LandedValue' = IF FrameOf(stack) = 1 THEN None ELSE 0
    BY <1>2, <1>3, <1>4
  <2> QED
    BY <1>2, <1>3, <1>4, <2>1, <2>2, NativeEffects
<1>6. Native!FallOff
  BY <1>1, <1>3, <1>5, SameNesting DEF Native!FallOff
<1> QED
  BY <1>2, <1>6

\* How the value awaited is taken.
LEMMA NativeTakes ==
  ASSUME LandedValue # None
  PROVE  LET c == Waiting(Landed, "none") IN
         /\ /\ Native!T.wait = "drop" /\ Landed' = c /\ LandedValue' = None /\ Names' = Names
            /\ Slots' = Slots
            => Native!Take
         /\ Native!T.wait = "ret" /\ Native!Leave(c, LandedValue) => Native!Take
         /\ Native!T.wait = "brk" /\ Native!BreakFrom(c, LandedValue) => Native!Take
         /\ /\ Native!T.wait = "test" /\ LandedValue # 0 /\ Landed' = InBody(c) /\ LandedValue' = None
            /\ Names' = Names /\ Slots' = Slots
            => Native!Take
         /\ Native!T.wait = "test" /\ LandedValue = 0 /\ Native!LoopOver(c, Len(c), Slots) => Native!Take
BY SameNesting DEF Native!Take, Names, Slots

LEMMA TakeTestAgrees ==
  ASSUME AgreeInv, FlowInv', lifted = {}, TakeTest
  PROVE  Native!Take /\ Alone(stack', Meant')
<1> DEFINE c == Waiting(stack, "none")
<1>1. acc # None /\ T.wait = "test" /\ FlowInv /\ UNCHANGED <<saved, globals>> /\ UNCHANGED flags
  BY DEF TakeTest, AgreeInv
<1>2. stack # <<>> /\ ~after
  BY <1>1, AwaitedFacts
<1>3. /\ stack \in Seq(Construct) /\ Nested(stack) /\ T \in Construct /\ Proper(T) /\ T = Top(stack)
      /\ Len(stack) \in Nat \ {0} /\ Len(stack) \in 1 .. Len(stack) /\ T = stack[Len(stack)]
  BY <1>1, <1>2, HereFacts
<1>4. T.at = "head" /\ T.kind \in Tested /\ T.kind \in Loops /\ T.kind \notin Counted
  BY <1>1, <1>3 DEF Proper, Tested, Counted
<1>5. ~T.named
  BY <1>2, <1>4, NamedFree
<1>6. /\ c \in Seq(Construct) /\ Len(c) = Len(stack) /\ c # <<>>
      /\ \A k \in 1 .. Len(stack) : c[k].kind = stack[k].kind
      /\ Top(c) = [T EXCEPT !.wait = "none"] /\ c = Changed(stack, [T EXCEPT !.wait = "none"])
  <2>1. "none" \in Waits
    BY DEF Waits
  <2> QED
    BY <1>2, <1>3, <2>1, WaitingFacts
<1>7. /\ Landed = stack /\ Names = Meant /\ Slots = Zeros(Len(stack)) /\ LandedValue = acc
      /\ Landed' = stack' /\ Names' = Meant' /\ Slots' = Zeros(Len(stack')) /\ LandedValue' = acc'
      /\ Native!T = T
  BY <1>1, <1>2, Resting
<1>8. CASE acc # 0
  <2>1. stack' = InBody(c) /\ scopes' = Append(scopes, None) /\ acc' = None
    <3>1. EnterBody(c) /\ acc' = None
      BY <1>8 DEF TakeTest
    <3> QED
      BY <1>5, <3>1 DEF EnterBody
  <2> DEFINE r == [T EXCEPT !.wait = "none"]
             q == [T EXCEPT !.wait = "none", !.at = "body"]
  <2>2. /\ r \in Construct /\ q \in Construct /\ q.kind = T.kind /\ q.named = T.named /\ q.at = "body"
        /\ [r EXCEPT !.at = "body"] = q
    BY <1>3 DEF Construct, Waits
  <2>3. stack' = Changed(stack, q)
    <3>1. InBody(c) = Changed(c, q)
      BY <1>6, <2>2, ChangesOfTop
    <3> HIDE DEF q, r
    <3>2. Changed(Changed(stack, r), q) = Changed(stack, q)
      BY <1>3, <1>6 DEF Changed, r
    <3> QED
      BY <1>6, <2>1, <3>1, <3>2 DEF r
  <2> HIDE DEF q, r
  <2>4. None \in Scope
    BY DEF Scope
  <2>5. /\ Meant' = [Meant EXCEPT ![Len(stack)] = None] /\ Len(stack') = Len(stack)
        /\ Alone(stack', Meant')
    BY <1>1, <1>2, <1>4, <2>1, <2>2, <2>3, <2>4, TurnMeans
  <2>6. [Meant EXCEPT ![Len(stack)] = None] = Meant
    BY <1>1, <1>2, <1>4, MeantAtHead
  <2>7. Landed' = InBody(Waiting(Landed, "none")) /\ LandedValue' = None /\ Names' = Names /\ Slots' = Slots
    BY <1>7, <2>1, <2>5, <2>6
  <2>8. Native!Take
    BY <1>1, <1>7, <1>8, <2>7, NativeTakes
  <2> QED
    BY <2>5, <2>8
<1>9. CASE acc = 0
  <2>1. LoopOver(c, 0) /\ scopes' = scopes
    BY <1>9 DEF TakeTest
  <2>2. Top(c).kind = T.kind /\ c[Len(stack)].kind = T.kind
    BY <1>3, <1>6 DEF Top
  <2>3. Pop(c) = Pop(stack)
    <3> DEFINE r == [T EXCEPT !.wait = "none"]
    <3>1. r \in Construct /\ r.kind = T.kind /\ r.at = T.at /\ r.wait = "none"
      BY <1>3 DEF Construct, Waits
    <3>2. Proper(r)
      BY <1>4, <3>1 DEF Proper
    <3> HIDE DEF r
    <3>3. c = Changed(stack, r)
      BY <1>6 DEF r
    <3> HIDE DEF c
    <3> QED
      BY <1>2, <1>3, <3>1, <3>2, <3>3, PopOfChanged
  <2>4. SubSeq(c, 1, Len(stack) - 1) = SubSeq(stack, 1, Len(stack) - 1)
    BY <1>6, <2>3 DEF Pop
  <2> HIDE DEF c
  <2>5. Native!LoopOver(c, Len(stack), Slots) /\ Alone(stack', Meant')
    BY <1>1, <1>2, <1>4, <2>1, <2>2, <2>3, <2>4, LoopOverAgrees
  <2>6. Native!LoopOver(Waiting(Landed, "none"), Len(Waiting(Landed, "none")), Slots)
    BY <1>6, <1>7, <2>5 DEF c
  <2>7. Native!Take
    BY <1>1, <1>7, <1>9, <2>6, NativeTakes
  <2> QED
    BY <2>5, <2>7
<1> QED
  BY <1>8, <1>9

----------------------------------------------------------------------------
\* The statements that set a flag: the compiled program jumps.

LEMMA AtReturnNext ==
  (FlowInv /\ lifted = {} /\ returned # None =>
    Left(FrameOf(stack), IF FrameOf(stack) = 1 THEN None ELSE returned))'
BY AtReturn, PTL

LEMMA AtBreakNext ==
  (FlowInv /\ lifted = {} /\ should_break =>
    Left(Max(OpenLoops(stack)),
         IF stack[Max(OpenLoops(stack))].kind \in LoopExprs
           THEN IF break_value = None THEN 0 ELSE break_value
           ELSE None))'
BY AtBreak, PTL

LEMMA AtContinueNext ==
  (FlowInv /\ lifted = {} /\ should_continue => Again(Max(OpenLoops(stack))))'
BY AtContinue, PTL

\* A part of the slots.
LEMMA PartOfSlots ==
  ASSUME NEW n \in Nat, NEW k \in 1 .. n
  PROVE  /\ SubSeq(Zeros(n), 1, k) = Zeros(k) /\ SubSeq(Zeros(n), 1, k - 1) = Zeros(k - 1)
         /\ Zeros(n)[k] = 0
         /\ \A v : /\ [Zeros(n) EXCEPT ![k] = v][k] = v
                   /\ SubSeq([Zeros(n) EXCEPT ![k] = v], 1, k - 1) = Zeros(k - 1)
<1> DEFINE z == Zeros(n)
<1>1. k \in 0 .. n /\ k - 1 \in 0 .. n /\ k - 1 \in Nat
  OBVIOUS
<1>2. SubSeq(z, 1, k) = Zeros(k) /\ SubSeq(z, 1, k - 1) = Zeros(k - 1)
  BY <1>1, ZerosFacts
<1>3. z[k] = 0 /\ z = [j \in 1 .. n |-> z[j]] /\ \A j \in 1 .. n : z[j] = 0
  BY DEF Zeros
<1> HIDE DEF z
<1>4. ASSUME NEW v
      PROVE  [z EXCEPT ![k] = v][k] = v /\ SubSeq([z EXCEPT ![k] = v], 1, k - 1) = Zeros(k - 1)
  <2> DEFINE w == [z EXCEPT ![k] = v]
  <2>1. w = [j \in 1 .. n |-> w[j]] /\ w[k] = v /\ \A j \in 1 .. n : j # k => w[j] = 0
    BY <1>3
  <2> HIDE DEF w
  <2>2. SubSeq(w, 1, k - 1) = [j \in 1 .. k - 1 |-> w[j]]
    BY <1>1, <2>1, FunctionFacts
  <2>3. \A j \in 1 .. k - 1 : w[j] = 0
    BY <2>1
  <2>4. SubSeq(w, 1, k - 1) = Zeros(k - 1)
    BY <2>2, <2>3 DEF Zeros
  <2> QED
    BY <2>1, <2>4 DEF w
<1> QED
  BY <1>2, <1>3, <1>4 DEF z

LEMMA ReturnLands ==
  ASSUME FlowInv, FlowInv', lifted' = {}, Quiet, Len(stack') = Len(stack), Meant' = Meant,
         returned' # None
  PROVE  Native!Leave(stack', returned')
<1> DEFINE k == FrameOf(stack')
<1>1. /\ k \in 1 .. Len(stack') /\ Landed' = SubSeq(stack', 1, k - 1)
      /\ Names' = SubSeq(Meant', 1, k - 1) /\ Slots' = Zeros(k - 1)
      /\ LandedValue' = IF k = 1 THEN None ELSE returned'
  BY AtReturnNext DEF Left
<1>2. Names = Meant /\ Slots = Zeros(Len(stack)) /\ Len(stack) \in Nat
  BY RestHere, MeantFacts
<1> HIDE DEF k
<1>3. Slots' = SubSeq(Slots, 1, k - 1)
  BY <1>1, <1>2, PartOfSlots
<1>4. Names' = SubSeq(Names, 1, k - 1)
  BY <1>1, <1>2
<1> QED
  BY <1>1, <1>3, <1>4, NativeEffects DEF k

LEMMA ContinueLands ==
  ASSUME FlowInv, FlowInv', lifted' = {}, Quiet, stack' = stack, Meant' = Meant, should_continue'
  PROVE  Native!TurnAgain(stack, Max(OpenLoops(stack)))
<1> DEFINE k == Max(OpenLoops(stack))
<1>1. /\ k \in 1 .. Len(stack) /\ Landed' = NextTurn(SubSeq(stack, 1, k))
      /\ Names' = Append(SubSeq(Meant, 1, k - 1), None) /\ Slots' = Zeros(k) /\ LandedValue' = None
  BY AtContinueNext DEF Again
<1>2. Names = Meant /\ Slots = Zeros(Len(stack)) /\ Len(stack) \in Nat
  BY RestHere, MeantFacts
<1> HIDE DEF k
<1>3. Slots' = SubSeq(Slots, 1, k)
  BY <1>1, <1>2, PartOfSlots
<1> QED
  BY <1>1, <1>2, <1>3, NativeEffects DEF k

\* break, of the nest c with the value v, where a loop is open.
LEMMA NativeBreaks ==
  \A c, v :
    OpenLoops(c) # {} /\
    Native!LoopOver(c, Max(OpenLoops(c)),
      IF v # None /\ OpenLoopExprs(c) # {} THEN [Slots EXCEPT ![Max(OpenLoopExprs(c))] = v] ELSE Slots)
    => Native!BreakFrom(c, v)
BY SameNesting DEF Native!BreakFrom, Slots

LEMMA BreakLands ==
  ASSUME FlowInv, FlowInv', lifted' = {}, Quiet, Len(stack') = Len(stack), Meant' = Meant,
         should_break', OpenLoops(stack') # {},
         break_value' # None /\ OpenLoopExprs(stack') # {} =>
           stack'[Max(OpenLoops(stack'))].kind \in LoopExprs
  PROVE  Native!BreakFrom(stack', break_value')
<1> DEFINE c == stack'
           k == Max(OpenLoops(c))
           v == break_value'
           slots == IF v # None /\ OpenLoopExprs(c) # {} THEN [Slots EXCEPT ![Max(OpenLoopExprs(c))] = v]
                                                        ELSE Slots
<1>1. /\ k \in 1 .. Len(c) /\ Landed' = SubSeq(c, 1, k - 1)
      /\ Names' = SubSeq(Meant', 1, k - 1) /\ Slots' = Zeros(k - 1)
      /\ LandedValue' = IF c[k].kind \in LoopExprs THEN IF v = None THEN 0 ELSE v ELSE None
  BY AtBreakNext DEF Left
<1>2. Names = Meant /\ Slots = Zeros(Len(c)) /\ Len(c) \in Nat
  BY RestHere, MeantFacts
<1>3. c \in Seq(Construct) /\ Nested(c)
  BY NextFacts
<1>4. v # None /\ OpenLoopExprs(c) # {} => c[k].kind \in LoopExprs
  OBVIOUS
<1>5. OpenLoops(c) # {}
  OBVIOUS
<1> HIDE DEF c, v
<1>6. c # <<>>
  BY <1>1, <1>2
<1>7. k \in OpenLoops(c) /\ \A x \in OpenLoops(c) : x <= k
  BY <1>3, <1>5, <1>6, LoopFacts
<1> HIDE DEF k
<1>8. c[k].kind \in LoopExprs => Max(OpenLoopExprs(c)) = k /\ OpenLoopExprs(c) # {}
  <2> SUFFICES ASSUME c[k].kind \in LoopExprs
               PROVE  Max(OpenLoopExprs(c)) = k /\ OpenLoopExprs(c) # {}
    OBVIOUS
  <2>1. k \in OpenLoopExprs(c) /\ OpenLoopExprs(c) \subseteq OpenLoops(c)
    BY <1>7 DEF OpenLoopExprs
  <2>2. OpenLoopExprs(c) \in SUBSET (1 .. Len(c))
    <3>1. FrameOf(c) \in 1 .. Len(c)
      BY <1>3, <1>6, LoopFacts
    <3> QED
      BY <1>2, <2>1, <3>1 DEF OpenLoops
  <2>3. Max(OpenLoopExprs(c)) \in OpenLoopExprs(c) /\ \A x \in OpenLoopExprs(c) : x <= Max(OpenLoopExprs(c))
    BY <1>2, <2>1, <2>2, MaxFacts
  <2> QED
    BY <1>1, <1>7, <2>1, <2>2, <2>3
<1>9. Slots' = SubSeq(slots, 1, k - 1) /\ LandedValue' = IF c[k].kind \in LoopExprs THEN slots[k] ELSE None
  <2>1. CASE v # None /\ OpenLoopExprs(c) # {}
    <3>1. slots = [Zeros(Len(c)) EXCEPT ![k] = v] /\ c[k].kind \in LoopExprs
      BY <1>2, <1>4, <1>8, <2>1
    <3>2. [Zeros(Len(c)) EXCEPT ![k] = v][k] = v /\ SubSeq([Zeros(Len(c)) EXCEPT ![k] = v], 1, k - 1) = Zeros(k - 1)
      BY <1>1, <1>2, PartOfSlots
    <3> HIDE DEF slots
    <3>3. slots[k] = v /\ SubSeq(slots, 1, k - 1) = Zeros(k - 1)
      BY <3>1, <3>2
    <3> QED
      BY <1>1, <2>1, <3>1, <3>3
  <2>2. CASE ~(v # None /\ OpenLoopExprs(c) # {})
    <3>1. slots = Zeros(Len(c))
      BY <1>2, <2>2
    <3>2. slots[k] = 0 /\ SubSeq(slots, 1, k - 1) = Zeros(k - 1)
      BY <1>1, <1>2, <3>1, PartOfSlots
    <3>3. c[k].kind \in LoopExprs => v = None
      BY <1>8, <2>2
    <3> HIDE DEF slots
    <3> QED
      BY <1>1, <3>2, <3>3
  <2> QED
    BY <2>1, <2>2
<1>10. Native!LoopOver(c, k, slots)
  <2>1. Names' = SubSeq(Names, 1, k - 1) /\ Landed' = SubSeq(c, 1, k - 1)
    BY <1>1, <1>2
  <2> HIDE DEF slots
  <2> QED
    BY <1>9, <2>1, NativeEffects
<1>11. Native!BreakFrom(c, v)
  BY <1>5, <1>10, NativeBreaks DEF k
<1> QED
  BY <1>11 DEF c, v

LEMMA BreakAgrees ==
  ASSUME AgreeInv, FlowInv', lifted = {}, lifted' = lifted, NEW v \in Val \cup {None}, Break(v)
  PROVE  Native!Break(v) /\ Alone(stack', Meant')
<1>1. /\ FlowInv /\ Ready /\ stack # <<>> /\ ~after /\ OpenLoops(stack) # {}
      /\ v # None /\ OpenLoopExprs(stack) # {} => stack[Max(OpenLoops(stack))].kind \in LoopExprs
      /\ should_break' = TRUE /\ break_value' = (IF v = None THEN break_value ELSE v)
      /\ stack' = stack /\ UNCHANGED <<scopes, saved, globals>>
  BY DEF Break, Lift, Ready, Running, SetBreak, AgreeInv
<1>2. Still /\ Quiet
  BY <1>1, StillFacts DEF Still, Quiet
<1>3. break_value' = v
  BY <1>1, <1>2 DEF Still
<1>4. Meant' = Meant /\ Len(stack') = Len(stack) /\ Alone(stack', Meant')
  BY <1>1, StayMeans
<1>5. Native!BreakFrom(stack', break_value')
  BY <1>1, <1>2, <1>3, <1>4, BreakLands
<1>6. Landed = stack /\ (Native!Ready <=> Ready)
  BY <1>1, <1>2, RestHere
<1> QED
  BY <1>1, <1>3, <1>4, <1>5, <1>6 DEF Native!Break

LEMMA ContinueAgrees ==
  ASSUME AgreeInv, FlowInv', lifted = {}, lifted' = lifted, Continue
  PROVE  Native!Continue /\ Alone(stack', Meant')
<1>1. /\ FlowInv /\ Ready /\ stack # <<>> /\ ~after /\ OpenLoops(stack) # {}
      /\ should_continue' = TRUE /\ stack' = stack /\ UNCHANGED <<scopes, saved, globals>>
  BY DEF Continue, Lift, Ready, Running, AgreeInv
<1>2. Quiet
  BY <1>1, StillFacts DEF Still, Quiet
<1>3. Meant' = Meant /\ Alone(stack', Meant')
  BY <1>1, StayMeans
<1>4. Native!TurnAgain(stack, Max(OpenLoops(stack)))
  BY <1>1, <1>2, <1>3, ContinueLands
<1>5. Landed = stack /\ (Native!Ready <=> Ready)
  BY <1>1, <1>2, RestHere
<1> QED
  BY <1>1, <1>3, <1>4, <1>5, SameNesting DEF Native!Continue

LEMMA ReturnAgrees ==
  ASSUME AgreeInv, FlowInv', lifted = {}, lifted' = lifted, NEW v \in Val \cup {None}, Return(v)
  PROVE  Native!Return(v) /\ Alone(stack', Meant')
<1> DEFINE r == IF v = None THEN 0 ELSE v
<1>1. /\ FlowInv /\ Ready /\ stack # <<>> /\ ~after /\ (v = None => UnitFrame(stack))
      /\ returned' = r /\ stack' = stack /\ UNCHANGED <<scopes, saved, globals>>
      /\ InFunction /\ OpenLoopExprs(stack) = {}
  BY DEF Return, Lift, Ready, Running, SetReturn, AgreeInv
<1>2. Quiet
  BY <1>1, StillFacts DEF Still, Quiet
<1>3. Meant' = Meant /\ Len(stack') = Len(stack) /\ Alone(stack', Meant')
  BY <1>1, StayMeans
<1>4. returned' # None
  BY <1>1, FlowAssumption
<1>5. Native!Leave(stack', returned')
  BY <1>1, <1>2, <1>3, <1>4, ReturnLands
<1>6. Landed = stack /\ (Native!Ready <=> Ready)
  BY <1>1, <1>2, RestHere
<1> QED
  BY <1>1, <1>3, <1>5, <1>6, SameNesting DEF Native!Return

\* The value a statement has waited for is dropped, returned, or a loop's.
LEMMA TakeStatementAgrees ==
  ASSUME AgreeInv, FlowInv', lifted = {}, lifted' = lifted, TakeStatement
  PROVE  Native!Take /\ Alone(stack', Meant')
<1>1. /\ FlowInv /\ acc # None /\ T.wait \in {"drop", "ret", "brk"} /\ stack' = Waiting(stack, "none")
      /\ acc' = None /\ UNCHANGED <<scopes, saved, globals>>
  BY DEF TakeStatement, AgreeInv
<1>2. stack # <<>> /\ ~after
  BY <1>1, AwaitedFacts
<1>3. Still /\ Quiet
  BY <1>1, <1>2, StillFacts DEF Still, Quiet
<1>4. Meant' = Meant /\ Len(stack') = Len(stack) /\ Alone(stack', Meant')
  <2>1. "none" \in Waits
    BY DEF Waits
  <2> QED
    BY <1>1, <1>2, <2>1, StayMeans
<1>5. Landed = stack /\ Names = Meant /\ Slots = Zeros(Len(stack)) /\ LandedValue = acc /\ Native!T = T
  BY <1>1, <1>3, RestHere
<1>6. CASE T.wait = "drop"
  <2>1. UNCHANGED flags
    BY <1>6 DEF TakeStatement
  <2>2. Landed' = stack' /\ Names' = Meant' /\ Slots' = Zeros(Len(stack')) /\ LandedValue' = acc'
    BY <1>1, <1>2, <2>1, Resting
  <2>3. /\ Landed' = Waiting(Landed, "none") /\ LandedValue' = None /\ Names' = Names /\ Slots' = Slots
    BY <1>1, <1>4, <1>5, <2>2
  <2> QED
    BY <1>1, <1>4, <1>5, <1>6, <2>3, NativeTakes
<1>7. CASE T.wait = "ret"
  <2>1. returned' = acc
    BY <1>7 DEF TakeStatement, SetReturn
  <2>2. Native!Leave(stack', returned')
    BY <1>1, <1>3, <1>4, <2>1, ReturnLands
  <2>3. Native!Leave(Waiting(Landed, "none"), LandedValue)
    BY <1>1, <1>5, <2>1, <2>2
  <2> QED
    BY <1>1, <1>4, <1>5, <1>7, <2>3, NativeTakes
<1>8. CASE T.wait = "brk"
  <2>1. should_break' = TRUE /\ break_value' = acc
    BY <1>1, <1>8 DEF TakeStatement, SetBreak
  <2> DEFINE n == Len(stack)
  <2>2. /\ stack \in Seq(Construct) /\ Nested(stack) /\ n \in 1 .. Len(stack) /\ T = stack[n]
        /\ n \in Nat /\ "none" \in Waits
    BY <1>1, <1>2, HereFacts DEF Waits
  <2>3. MayJump(stack, n) /\ Lands(stack, n)
    BY <1>8, <2>2 DEF FlowInv, FlagInv, Permitted, AgreeInv, Landing
  <2>4. \A k \in 1 .. Len(stack) : stack'[k].kind = stack[k].kind
    BY <1>1, <1>2, <2>2, WaitingFacts
  <2>5. OpenLoops(stack') = OpenLoops(stack) /\ OpenLoopExprs(stack') = OpenLoopExprs(stack)
    <3>1. {k \in 1 .. Len(stack') : stack'[k].kind \in Frames} = {k \in 1 .. Len(stack) : stack[k].kind \in Frames}
      BY <1>4, <2>4
    <3>2. FrameOf(stack') = FrameOf(stack) /\ FrameOf(stack) \in 1 .. n
      BY <1>2, <2>2, <3>1, LoopFacts DEF FrameOf
    <3>3. \A k \in FrameOf(stack) + 1 .. Len(stack) : stack'[k].kind = stack[k].kind
      BY <2>2, <2>4, <3>2
    <3>4. OpenLoops(stack') = OpenLoops(stack)
      BY <1>4, <3>2, <3>3 DEF OpenLoops
    <3>5. \A k \in OpenLoops(stack) : stack'[k].kind = stack[k].kind
      BY <3>3 DEF OpenLoops
    <3> QED
      BY <3>4, <3>5 DEF OpenLoopExprs
  <2>6. OpenLoops(stack) # {}
    BY <1>8, <2>2, <2>3, AroundFacts DEF MayJump
  <2>7. OpenLoopExprs(stack) # {} => stack[Max(OpenLoops(stack))].kind \in LoopExprs
    <3>1. FrameOf(stack) = Bottom(stack, n)
      BY <1>2, <2>2, LoopFacts
    <3>2. Innermost(stack, n) = Max(OpenLoops(stack))
      BY <3>1 DEF Innermost, OpenLoops
    <3> QED
      BY <2>3, <3>2, AroundFacts DEF Lands
  <2>8. Max(OpenLoops(stack)) \in 1 .. Len(stack)
    BY <1>2, <2>2, <2>6, LoopFacts
  <2>9. Native!BreakFrom(stack', break_value')
    BY <1>1, <1>3, <1>4, <2>1, <2>4, <2>5, <2>6, <2>7, <2>8, BreakLands
  <2>10. Native!BreakFrom(Waiting(Landed, "none"), LandedValue)
    BY <1>1, <1>5, <2>1, <2>9
  <2> QED
    BY <1>1, <1>4, <1>5, <1>8, <2>10, NativeTakes
<1> QED
  BY <1>1, <1>6, <1>7, <1>8

----------------------------------------------------------------------------
\* What a flag leads to: the compiled program has done it already.

NativeStill == Landed' = Landed /\ Names' = Names /\ Slots' = Slots /\ LandedValue' = LandedValue

LEMMA StillIsStutter == NativeStill => UNCHANGED Native!vars
BY DEF NativeStill, Native!vars, Names, Slots

\* The innermost construct is the loop a jump is for.
LEMMA LoopOnTop ==
  ASSUME FlowInv, stack # <<>>, T.kind \in Loops
  PROVE  /\ Max(OpenLoops(stack)) = Len(stack) /\ stack[Len(stack)] = T
         /\ T.kind \in LoopExprs => OpenLoopExprs(stack) # {}
<1> DEFINE n == Len(stack)
<1>1. /\ stack \in Seq(Construct) /\ Nested(stack) /\ n \in Nat \ {0} /\ T = stack[n]
      /\ FrameOf(stack) = Bottom(stack, n) /\ n = Len(stack) /\ n \in 1 .. Len(stack) /\ n \in 1 .. n
  BY HereFacts, LoopFacts
<1> HIDE DEF n
<1>2. Bottom(stack, n) \in 1 .. n /\ stack[Bottom(stack, n)].kind \in Frames
  BY <1>1, BottomFacts
<1>3. T.kind \notin Frames
  BY DEF Frames, Loops, StmtLoops, LoopExprs
<1>4. FrameOf(stack) \in 1 .. n - 1
  BY <1>1, <1>2, <1>3
<1>5. n \in OpenLoops(stack) /\ OpenLoops(stack) \in SUBSET (1 .. n)
  BY <1>1, <1>4 DEF OpenLoops
<1>6. Max(OpenLoops(stack)) \in OpenLoops(stack) /\ \A x \in OpenLoops(stack) : x <= Max(OpenLoops(stack))
  BY <1>1, <1>5, MaxFacts
<1>7. Max(OpenLoops(stack)) = n
  BY <1>1, <1>5, <1>6
<1>8. T.kind \in LoopExprs => OpenLoopExprs(stack) # {}
  BY <1>1, <1>5 DEF OpenLoopExprs
<1> QED
  BY <1>1, <1>7, <1>8

\* Where a jump leads is outside the construct left.
LEMMA SameTargets ==
  ASSUME FlowInv, FlowInv', stack # <<>>, T.kind \notin Frames, stack' = Pop(stack)
  PROVE  /\ FrameOf(stack') = FrameOf(stack) /\ FrameOf(stack) \in 1 .. Len(stack) - 1
         /\ T.kind \notin Loops => OpenLoops(stack') = OpenLoops(stack)
<1> DEFINE n == Len(stack)
<1>1. /\ stack \in Seq(Construct) /\ Nested(stack) /\ n \in Nat \ {0} /\ T = stack[n]
      /\ FrameOf(stack) = Bottom(stack, n) /\ n = Len(stack) /\ n \in 1 .. Len(stack) /\ n \in 1 .. n
  BY HereFacts, LoopFacts
<1>2. Len(stack') = n - 1 /\ \A k \in 1 .. n - 1 : stack'[k] = stack[k]
  BY <1>1, PopFacts
<1> HIDE DEF n
<1>3. Bottom(stack, n) \in 1 .. n /\ stack[Bottom(stack, n)].kind \in Frames
  BY <1>1, BottomFacts
<1>4. FrameOf(stack) \in 1 .. n - 1
  BY <1>1, <1>3
<1>5. FrameOf(stack') = FrameOf(stack)
  <2>1. {k \in 1 .. Len(stack') : stack'[k].kind \in Frames} = {k \in 1 .. Len(stack) : stack[k].kind \in Frames}
    BY <1>1, <1>2
  <2> QED
    BY <2>1 DEF FrameOf
<1>6. T.kind \notin Loops => OpenLoops(stack') = OpenLoops(stack)
  <2> SUFFICES ASSUME T.kind \notin Loops PROVE OpenLoops(stack') = OpenLoops(stack)
    OBVIOUS
  <2> DEFINE f == FrameOf(stack)
  <2>1. OpenLoops(stack') = {k \in f + 1 .. n - 1 : stack'[k].kind \in Loops}
    BY <1>2, <1>5 DEF OpenLoops
  <2>2. OpenLoops(stack) = {k \in f + 1 .. n : stack[k].kind \in Loops}
    BY <1>1 DEF OpenLoops
  <2>3. f \in 1 .. n - 1
    BY <1>4
  <2> HIDE DEF f
  <2>4. \A k \in f + 1 .. n - 1 : stack'[k].kind = stack[k].kind /\ k \in f + 1 .. n
    BY <1>1, <1>2, <2>3
  <2>5. \A k \in f + 1 .. n : k = n \/ k \in f + 1 .. n - 1
    BY <1>1, <2>3
  <2>6. OpenLoops(stack') \subseteq OpenLoops(stack)
    BY <2>1, <2>2, <2>4
  <2>7. OpenLoops(stack) \subseteq OpenLoops(stack')
    BY <1>1, <2>1, <2>2, <2>4, <2>5
  <2> QED
    BY <2>6, <2>7
<1> QED
  BY <1>1, <1>4, <1>5, <1>6

\* Part of a part.
LEMMA PartOfPart ==
  ASSUME FlowInv, stack # <<>>, NEW m \in 0 .. Len(stack) - 1
  PROVE  /\ SubSeq(SubSeq(stack, 1, Len(stack) - 1), 1, m) = SubSeq(stack, 1, m)
         /\ SubSeq(SubSeq(Meant, 1, Len(stack) - 1), 1, m) = SubSeq(Meant, 1, m)
<1> DEFINE n == Len(stack)
           M == Meant
<1>1. n \in Nat \ {0} /\ stack \in Seq(Construct) /\ M = [k \in 1 .. n |-> M[k]]
  BY HereFacts, MeantFacts
<1>2. stack = [k \in 1 .. n |-> stack[k]]
  BY <1>1
<1>3. ASSUME NEW s, s = [k \in 1 .. n |-> s[k]]
      PROVE  SubSeq(SubSeq(s, 1, n - 1), 1, m) = SubSeq(s, 1, m)
  <2> DEFINE t == SubSeq(s, 1, n - 1)
  <2> HIDE DEF n
  <2>1. n \in Nat /\ n - 1 \in Nat /\ n - 1 \in 0 .. n /\ m \in 0 .. n /\ m \in 0 .. n - 1
    BY <1>1 DEF n
  <2>2. t = [k \in 1 .. n - 1 |-> s[k]] /\ SubSeq(s, 1, m) = [k \in 1 .. m |-> s[k]]
    BY <1>3, <2>1, FunctionFacts
  <2> HIDE DEF t
  <2>3. t = [k \in 1 .. n - 1 |-> t[k]] /\ \A k \in 1 .. n - 1 : t[k] = s[k]
    BY <2>2
  <2>4. SubSeq(t, 1, m) = [k \in 1 .. m |-> t[k]]
    BY <2>1, <2>3, FunctionFacts
  <2>5. \A k \in 1 .. m : t[k] = s[k]
    BY <2>1, <2>3
  <2>6. SubSeq(t, 1, m) = SubSeq(s, 1, m)
    BY <2>2, <2>4, <2>5
  <2> QED
    BY <2>6 DEF t
<1> HIDE DEF n, M
<1>4. SubSeq(SubSeq(stack, 1, n - 1), 1, m) = SubSeq(stack, 1, m)
  BY <1>2, <1>3
<1>5. SubSeq(SubSeq(M, 1, n - 1), 1, m) = SubSeq(M, 1, m)
  BY <1>1, <1>3
<1> QED
  BY <1>4, <1>5 DEF n, M

\* Nothing is under way, and the next statement may start.
LEMMA GoOnStill ==
  ASSUME AgreeInv, FlowInv', lifted = {}, Quiet, GoOn
  PROVE  NativeStill /\ Alone(stack', Meant')
<1>1. /\ FlowInv /\ stack' = stack /\ UNCHANGED <<scopes, saved, globals>> /\ acc' = acc
      /\ UNCHANGED flags
  BY DEF GoOn, AgreeInv
<1>2. Quiet'
  BY <1>1 DEF Quiet, flags
<1>3. Meant' = Meant /\ Alone(stack', Meant')
  BY <1>1, StayMeans
<1>4. Landed = stack /\ Names = Meant /\ Slots = Zeros(Len(stack)) /\ LandedValue = acc
  BY <1>1, RestHere
<1>5. Landed' = stack' /\ Names' = Meant' /\ Slots' = Zeros(Len(stack')) /\ LandedValue' = acc'
  BY <1>2, RestThen
<1> QED
  BY <1>1, <1>3, <1>4, <1>5 DEF NativeStill

\* A jump goes on outwards, and leads where it led.
LEMMA OutwardStill ==
  ASSUME AgreeInv, FlowInv', lifted = {}, lifted' = lifted, ~Quiet, T.kind \notin Frames,
         T.kind \notin Loops \/ returned # None,
         stack' = Pop(stack), PopScope, UNCHANGED <<saved, globals>>, UNCHANGED flags
  PROVE  NativeStill /\ Alone(stack', Meant')
<1> DEFINE n == Len(stack)
           f == FrameOf(stack)
           l == Max(OpenLoops(stack))
<1>1. /\ FlowInv /\ stack # <<>> /\ T.at = "body" /\ scopes' = Pop(scopes) /\ saved' = saved
      /\ returned # None => ~should_break /\ ~should_continue
      /\ T.kind # "fn"
  BY UnderWay DEF AgreeInv, PopScope, Frames
<1>2. /\ Meant' = SubSeq(Meant, 1, n - 1) /\ stack' = SubSeq(stack, 1, n - 1)
      /\ Len(stack') = n - 1 /\ Alone(stack', Meant')
  BY <1>1, OutMeans
<1>3. /\ FrameOf(stack') = f /\ f \in 1 .. n - 1
      /\ T.kind \notin Loops => OpenLoops(stack') = OpenLoops(stack)
  BY <1>1, SameTargets
<1>4. /\ returned' = returned /\ should_break' = should_break /\ should_continue' = should_continue
      /\ break_value' = break_value
  BY DEF flags
<1>5. n \in Nat \ {0} /\ \A k \in 1 .. n - 1 : stack'[k] = stack[k]
  BY <1>1, PopFacts, HereFacts
<1>6. \A m \in 0 .. n - 1 :
        SubSeq(stack', 1, m) = SubSeq(stack, 1, m) /\ SubSeq(Meant', 1, m) = SubSeq(Meant, 1, m)
  BY <1>1, <1>2, PartOfPart
<1>7. CASE returned # None
  <2>1. /\ Landed = SubSeq(stack, 1, f - 1) /\ Names = SubSeq(Meant, 1, f - 1)
        /\ Slots = Zeros(f - 1) /\ LandedValue = IF f = 1 THEN None ELSE returned
    BY <1>1, <1>7, AtReturn DEF Left
  <2>2. /\ Landed' = SubSeq(stack', 1, f - 1) /\ Names' = SubSeq(Meant', 1, f - 1)
        /\ Slots' = Zeros(f - 1) /\ LandedValue' = IF f = 1 THEN None ELSE returned'
    BY <1>3, <1>4, <1>7, AtReturnNext DEF Left
  <2> HIDE DEF n, f
  <2>3. f - 1 \in 0 .. n - 1
    BY <1>3, <1>5
  <2> QED
    BY <1>2, <1>4, <1>6, <2>1, <2>2, <2>3 DEF NativeStill
<1>8. CASE should_break
  <2> DEFINE value == IF stack[l].kind \in LoopExprs THEN IF break_value = None THEN 0 ELSE break_value
                      ELSE None
  <2>1. OpenLoops(stack') = OpenLoops(stack)
    BY <1>1, <1>3, <1>8
  <2>2. /\ Landed = SubSeq(stack, 1, l - 1) /\ Names = SubSeq(Meant, 1, l - 1)
        /\ Slots = Zeros(l - 1) /\ LandedValue = value
    BY <1>1, <1>8, AtBreak DEF Left
  <2>3. /\ l \in 1 .. Len(stack')
        /\ Landed' = SubSeq(stack', 1, l - 1) /\ Names' = SubSeq(Meant', 1, l - 1)
        /\ Slots' = Zeros(l - 1)
        /\ LandedValue' = IF stack'[l].kind \in LoopExprs
                            THEN IF break_value' = None THEN 0 ELSE break_value' ELSE None
    BY <1>4, <1>8, <2>1, AtBreakNext DEF Left
  <2>4. stack'[l] = stack[l]
    BY <1>2, <1>5, <2>3
  <2>5. LandedValue' = value
    BY <1>4, <2>3, <2>4
  <2> HIDE DEF n, l, value
  <2>6. l - 1 \in 0 .. n - 1
    BY <1>2, <1>5, <2>3
  <2> QED
    BY <1>2, <1>6, <2>2, <2>3, <2>5, <2>6 DEF NativeStill
<1>9. CASE should_continue
  <2>1. OpenLoops(stack') = OpenLoops(stack)
    BY <1>1, <1>3, <1>9
  <2>2. /\ Landed = NextTurn(SubSeq(stack, 1, l)) /\ Names = Append(SubSeq(Meant, 1, l - 1), None)
        /\ Slots = Zeros(l) /\ LandedValue = None
    BY <1>1, <1>9, AtContinue DEF Again
  <2>3. /\ l \in 1 .. Len(stack')
        /\ Landed' = NextTurn(SubSeq(stack', 1, l)) /\ Names' = Append(SubSeq(Meant', 1, l - 1), None)
        /\ Slots' = Zeros(l) /\ LandedValue' = None
    BY <1>4, <1>9, <2>1, AtContinueNext DEF Again
  <2> HIDE DEF n, l
  <2>4. l - 1 \in 0 .. n - 1 /\ l \in 0 .. n - 1
    BY <1>2, <1>5, <2>3
  <2> QED
    BY <1>2, <1>6, <2>2, <2>3, <2>4 DEF NativeStill
<1> QED
  BY <1>7, <1>8, <1>9 DEF Quiet

LEMMA AfterInIfStill ==
  ASSUME AgreeInv, FlowInv', lifted = {}, lifted' = lifted, AfterInIf
  PROVE  NativeStill /\ Alone(stack', Meant')
<1>1. CASE Quiet
  BY <1>1, GoOnStill DEF AfterInIf
<1>2. CASE ~Quiet
  <2>1. T.kind \notin Frames /\ T.kind \notin Loops
    BY DEF AfterInIf, Frames, Loops, StmtLoops, LoopExprs
  <2> QED
    BY <1>2, <2>1, OutwardStill DEF AfterInIf
<1> QED
  BY <1>1, <1>2

LEMMA ReturnThroughLoopStill ==
  ASSUME AgreeInv, FlowInv', lifted = {}, lifted' = lifted, T.kind \in StmtLoops, ReturnThroughLoop
  PROVE  NativeStill /\ Alone(stack', Meant')
<1>1. T.kind \notin Frames
  BY DEF Frames, StmtLoops
<1>2. ~Quiet
  BY DEF ReturnThroughLoop, Quiet
<1> QED
  BY <1>1, <1>2, OutwardStill DEF ReturnThroughLoop

\* A return arrives at its function: the caller has had the value all along.
LEMMA AfterInCallStill ==
  ASSUME AgreeInv, FlowInv', lifted = {}, lifted' = lifted, AfterInCall
  PROVE  NativeStill /\ Alone(stack', Meant')
<1>1. FlowInv /\ stack # <<>> /\ T.kind \in Frames
  BY DEF AfterInCall, AgreeInv, Frames
<1>2. ~should_break /\ ~should_continue
  BY <1>1, FrameFlags
<1>3. CASE returned = None
  BY <1>2, <1>3, GoOnStill DEF AfterInCall, Quiet
<1>4. CASE returned # None
  <2> DEFINE n == Len(stack)
  <2>1. /\ CallOver(returned) /\ returned' = None /\ globals' = globals
        /\ should_break' = should_break /\ should_continue' = should_continue
    BY <1>4 DEF AfterInCall
  <2>2. /\ Meant' = SubSeq(Meant, 1, n - 1) /\ stack' = SubSeq(stack, 1, n - 1)
        /\ Len(stack') = n - 1 /\ Alone(stack', Meant')
        /\ acc' = IF n = 1 THEN None ELSE returned
    BY <1>1, <2>1, CallOverMeans
  <2>3. FrameOf(stack) = n
    BY <1>1, FrameOnTop
  <2>4. /\ Landed = SubSeq(stack, 1, n - 1) /\ Names = SubSeq(Meant, 1, n - 1)
        /\ Slots = Zeros(n - 1) /\ LandedValue = IF n = 1 THEN None ELSE returned
    BY <1>1, <1>4, <2>3, AtReturn DEF Left
  <2>5. Quiet'
    BY <1>2, <2>1 DEF Quiet
  <2>6. Landed' = stack' /\ Names' = Meant' /\ Slots' = Zeros(Len(stack')) /\ LandedValue' = acc'
    BY <2>5, RestThen
  <2> QED
    BY <2>2, <2>4, <2>6 DEF NativeStill
<1> QED
  BY <1>3, <1>4

LEMMA AfterAtTopStill ==
  ASSUME AgreeInv, FlowInv', lifted = {}, lifted' = lifted, AfterAtTop
  PROVE  NativeStill /\ Alone(stack', Meant')
<1>1. FlowInv /\ stack # <<>> /\ T.kind \in Frames /\ T.kind = "top"
  BY DEF AfterAtTop, AgreeInv, Frames
<1>2. Quiet
  BY <1>1, FrameFlags DEF Quiet
<1> QED
  BY <1>2, GoOnStill DEF AfterAtTop

\* A continue arrives at its loop.
LEMMA ContinueInLoopStill ==
  ASSUME AgreeInv, FlowInv', lifted = {}, lifted' = lifted, stack # <<>>, T.kind \in Loops,
         ContinueInLoop
  PROVE  NativeStill /\ Alone(stack', Meant')
<1> DEFINE n == Len(stack)
<1>1. /\ FlowInv /\ should_continue /\ should_continue' = FALSE /\ ~should_break
      /\ should_break' = should_break /\ returned' = returned /\ stack' = NextTurn(stack)
      /\ PopScope /\ UNCHANGED <<saved, globals>> /\ acc' = acc
  BY DEF ContinueInLoop, AgreeInv
<1>2. ~Quiet
  BY <1>1 DEF Quiet
<1>3. T.at = "body" /\ acc = None /\ returned = None
  BY <1>1, <1>2, UnderWay
<1>4. /\ Meant' = Append(SubSeq(Meant, 1, n - 1), None)
      /\ Len(stack') = n /\ SubSeq(stack, 1, n) = stack /\ Alone(stack', Meant')
  BY <1>1, <1>3, NextTurnMeans
<1>5. Max(OpenLoops(stack)) = n
  BY <1>1, LoopOnTop
<1>6. /\ Landed = NextTurn(SubSeq(stack, 1, n)) /\ Names = Append(SubSeq(Meant, 1, n - 1), None)
      /\ Slots = Zeros(n) /\ LandedValue = None
  BY <1>1, <1>5, AtContinue DEF Again
<1>7. Quiet'
  BY <1>1, <1>3 DEF Quiet
<1>8. Landed' = stack' /\ Names' = Meant' /\ Slots' = Zeros(Len(stack')) /\ LandedValue' = acc'
  BY <1>7, RestThen
<1> QED
  BY <1>1, <1>3, <1>4, <1>6, <1>8 DEF NativeStill

\* A break arrives at its loop, which is over with the break's value.
LEMMA BreakOfLoopStill ==
  ASSUME AgreeInv, FlowInv', lifted = {}, lifted' = lifted, stack # <<>>, T.kind \in Loops,
         should_break, should_break' = FALSE, should_continue' \in {should_continue, FALSE},
         returned' = returned, PopScope, UNCHANGED <<saved, globals>>,
         LoopOver(stack, IF break_value = None THEN 0 ELSE break_value)
  PROVE  NativeStill /\ Alone(stack', Meant')
<1> DEFINE n == Len(stack)
           value == IF break_value = None THEN 0 ELSE break_value
<1>1. /\ FlowInv /\ ~Quiet /\ T.kind # "fn" /\ stack' = Pop(stack) /\ scopes' = Pop(scopes)
  BY DEF AgreeInv, Quiet, Loops, StmtLoops, LoopExprs, LoopOver, PopScope
<1>2. T.at = "body" /\ returned = None /\ ~should_continue
  BY <1>1, UnderWay
<1>3. /\ Meant' = SubSeq(Meant, 1, n - 1) /\ stack' = SubSeq(stack, 1, n - 1)
      /\ Len(stack') = n - 1 /\ Alone(stack', Meant')
  BY <1>1, <1>2, OutMeans
<1>4. Max(OpenLoops(stack)) = n /\ stack[n] = T /\ T = Top(stack)
  BY <1>1, LoopOnTop, HereFacts
<1>5. /\ Landed = SubSeq(stack, 1, n - 1) /\ Names = SubSeq(Meant, 1, n - 1)
      /\ Slots = Zeros(n - 1) /\ LandedValue = IF T.kind \in LoopExprs THEN value ELSE None
  BY <1>1, <1>4, AtBreak DEF Left
<1>6. acc' = IF T.kind \in LoopExprs THEN value ELSE None
  BY <1>4 DEF LoopOver
<1>7. Quiet'
  <2>1. should_continue \in BOOLEAN
    BY <1>1 DEF FlowInv, Types
  <2>2. should_continue' = FALSE
    BY <1>2, <2>1
  <2> QED
    BY <1>2, <2>2 DEF Quiet
<1>8. Landed' = stack' /\ Names' = Meant' /\ Slots' = Zeros(Len(stack')) /\ LandedValue' = acc'
  BY <1>7, RestThen
<1> QED
  BY <1>3, <1>5, <1>6, <1>8 DEF NativeStill

LEMMA AfterInLoopStill ==
  ASSUME AgreeInv, FlowInv', lifted = {}, lifted' = lifted, AfterInLoop
  PROVE  NativeStill /\ Alone(stack', Meant')
<1>1. stack # <<>> /\ T.kind \in StmtLoops /\ T.kind \in Loops /\ T.kind \notin LoopExprs
  BY DEF AfterInLoop, Loops, StmtLoops, LoopExprs
<1>2. CASE ReturnThroughLoop
  BY <1>1, <1>2, ReturnThroughLoopStill
<1>3. CASE ContinueInLoop
  BY <1>1, <1>3, ContinueInLoopStill
<1>4. CASE BreakOfLoop
  <2>1. /\ should_break /\ should_break' = FALSE /\ should_continue' \in {should_continue, FALSE}
        /\ returned' = returned /\ PopScope /\ UNCHANGED <<saved, globals>>
        /\ LoopOver(stack, 0)
    BY <1>4 DEF BreakOfLoop, AfterInLoop
  <2>2. T = Top(stack)
    BY DEF T
  <2>3. LoopOver(stack, IF break_value = None THEN 0 ELSE break_value)
    BY <1>1, <2>1, <2>2 DEF LoopOver
  <2> QED
    BY <1>1, <2>1, <2>3, BreakOfLoopStill
<1>5. CASE Quiet /\ GoOn
  BY <1>5, GoOnStill
<1> QED
  BY <1>2, <1>3, <1>4, <1>5 DEF AfterInLoop

LEMMA AfterInLoopExprStill ==
  ASSUME AgreeInv, FlowInv', lifted = {}, lifted' = lifted, AfterInLoopExpr
  PROVE  NativeStill /\ Alone(stack', Meant')
<1>1. stack # <<>> /\ T.kind \in LoopExprs /\ T.kind \in Loops /\ FlowInv
  BY DEF AfterInLoopExpr, Loops, AgreeInv
<1>2. CASE BreakOfLoopExpr
  BY <1>1, <1>2, BreakOfLoopStill DEF BreakOfLoopExpr
<1>3. CASE ContinueInLoop
  BY <1>1, <1>3, ContinueInLoopStill
<1>4. CASE ReturnIntoLoopExpr
  <2>1. returned # None /\ ~Quiet
    BY <1>4 DEF ReturnIntoLoopExpr, Quiet
  <2>2. OpenLoopExprs(stack) = {}
    BY <1>1, <2>1, UnderWay
  <2> QED
    BY <1>1, <2>2, LoopOnTop
<1>5. CASE Quiet /\ GoOn
  BY <1>5, GoOnStill
<1> QED
  BY <1>2, <1>3, <1>4, <1>5 DEF AfterInLoopExpr

LEMMA AfterStill ==
  ASSUME AgreeInv, FlowInv', lifted = {}, lifted' = lifted, After
  PROVE  NativeStill /\ Alone(stack', Meant')
BY AfterInIfStill, AfterInCallStill, AfterAtTopStill, AfterInLoopStill, AfterInLoopExprStill DEF After

----------------------------------------------------------------------------
\* Where the values of breaks land stays so.

LEMMA ShortMove ==
  ASSUME AgreeInv, FlowInv', lifted = {}, stack # <<>>, Moves("none")
  PROVE  Landing(stack')
<1>1. "none" \in Waits /\ FlowInv /\ Landing(stack)
  BY DEF Waits, AgreeInv
<1> QED
  BY <1>1, MovesLand

LEMMA EnterLands ==
  ASSUME AgreeInv, FlowInv', lifted = {}, stack # <<>>, NEW use \in Waits, NEW p \in Construct,
         p.wait = "none", Enter(p, use), use = "brk" => Lands(stack, Len(stack))
  PROVE  Landing(stack')
<1>1. FlowInv /\ Landing(stack)
  BY DEF AgreeInv
<1>2. Moves(use)
  BY DEF Moves, Enter
<1> QED
  BY <1>1, <1>2, MovesLand

LEMMA StatementLands ==
  ASSUME AgreeInv, FlowInv', lifted = {}, NEW use \in Uses,
         \/ \E v \in Val : Let(v) \/ Assign(v)
         \/ \E v \in Val \cup {None} : Break(v) \/ Return(v)
         \/ If \/ Continue
         \/ \E p \in Headers("while", "for", MaxTurns) : Loop(p)
         \/ Call(use) \/ Read(use)
         \/ \E p \in Headers("whileExpr", "forExpr", MaxTurns) : LoopExpr(p, use)
  PROVE  Landing(stack')
<1>1. /\ stack # <<>> /\ "none" \in Waits /\ use \in Waits /\ FlowInv /\ Landing(stack)
      /\ "none" # "brk"
  BY DEF Let, Assign, Break, Return, Continue, If, Loop, Call, Read, LoopExpr, MayWait, Ready, Running,
         Waits, Uses, AgreeInv
<1>2. MayWait(use) => (use = "brk" => Lands(stack, Len(stack)))
  BY <1>1, WaitLands
<1>3. CASE \/ \E v \in Val : Let(v) \/ Assign(v)
           \/ \E v \in Val \cup {None} : Break(v) \/ Return(v)
           \/ Continue
  <2>1. stack' = stack
    BY <1>3 DEF Let, Assign, Break, Return, Continue
  <2> QED
    BY <1>1, <2>1
<1>4. CASE If
  <2> DEFINE p == Place("if", 0, FALSE)
  <2>1. p \in Construct /\ p.wait = "none" /\ Enter(p, "none")
    BY <1>4, PlaceFacts DEF If
  <2> HIDE DEF p
  <2> QED
    BY <1>1, <2>1, EnterLands
<1>5. CASE \E p \in Headers("while", "for", MaxTurns) : Loop(p)
  <2>1. PICK p \in Headers("while", "for", MaxTurns) : Loop(p)
    BY <1>5
  <2>2. p \in Construct /\ p.wait = "none" /\ Enter(p, "none")
    BY <2>1, PlaceFacts DEF Loop
  <2> QED
    BY <1>1, <2>2, EnterLands
<1>6. CASE Call(use)
  <2> DEFINE p == Place("fn", 0, FALSE)
  <2>1. p \in Construct /\ p.wait = "none" /\ Enter(p, use) /\ MayWait(use)
    BY <1>6, PlaceFacts DEF Call, Frames
  <2> HIDE DEF p
  <2> QED
    BY <1>1, <1>2, <2>1, EnterLands
<1>7. CASE Read(use)
  <2>1. MayWait(use) /\ Moves(use)
    BY <1>7 DEF Read, Moves
  <2> QED
    BY <1>1, <1>2, <2>1, MovesLand
<1>8. CASE \E p \in Headers("whileExpr", "forExpr", MaxTurns) : LoopExpr(p, use)
  <2>1. PICK p \in Headers("whileExpr", "forExpr", MaxTurns) : LoopExpr(p, use)
    BY <1>8
  <2>2. p \in Construct /\ p.wait = "none" /\ Enter(p, use) /\ MayWait(use)
    BY <2>1, PlaceFacts DEF LoopExpr
  <2> QED
    BY <1>1, <1>2, <2>2, EnterLands
<1> QED
  BY <1>3, <1>4, <1>5, <1>6, <1>7, <1>8

LEMMA EndLands ==
  ASSUME AgreeInv, FlowInv', lifted = {},
         Turn \/ EndLoop \/ EndIf \/ EndTurn \/ FallOff \/ TakeStatement \/ TakeTest \/ After
  PROVE  Landing(stack')
<1>1. FlowInv
  BY DEF AgreeInv
<1>2. stack # <<>>
  <2>1. TakeStatement \/ TakeTest => stack # <<>>
    BY <1>1, AwaitedFacts DEF TakeStatement, TakeTest
  <2>2. After => stack # <<>>
    BY DEF After, AfterInIf, AfterInCall, AfterAtTop, AfterInLoop, AfterInLoopExpr
  <2> QED
    BY <2>1, <2>2 DEF Turn, EndLoop, EndIf, EndTurn, FallOff, Ready, Running
<1>3. Moves("none")
  <2>1. CASE Turn
    BY <2>1 DEF Turn, EnterBody, Moves
  <2>2. CASE EndLoop \/ EndIf \/ FallOff
    BY <2>2 DEF EndLoop, EndIf, FallOff, LoopOver, CallOver, Moves
  <2>3. CASE EndTurn
    BY <2>3 DEF EndTurn, BreakOfLoop, BreakOfLoopExpr, LoopOver, Moves
  <2>4. CASE TakeStatement
    BY <2>4 DEF TakeStatement, Moves
  <2>5. CASE TakeTest
    BY <2>5 DEF TakeTest, EnterBody, LoopOver, Moves
  <2>6. CASE After
    BY <2>6 DEF After, AfterInIf, AfterInCall, AfterAtTop, AfterInLoop, AfterInLoopExpr, GoOn, CallOver,
                ReturnThroughLoop, ContinueInLoop, BreakOfLoop, BreakOfLoopExpr, ReturnIntoLoopExpr,
                LoopOver, Moves
  <2> QED
    BY <2>1, <2>2, <2>3, <2>4, <2>5, <2>6
<1> QED
  BY <1>2, <1>3, ShortMove

----------------------------------------------------------------------------
\* The two programs, step by step.

LEMMA StatementAgrees ==
  ASSUME AgreeInv, FlowInv', lifted = {}, lifted' = lifted, NEW use \in Uses,
         \/ \E v \in Val : Let(v) \/ Assign(v)
         \/ \E v \in Val \cup {None} : Break(v) \/ Return(v)
         \/ If \/ Continue
         \/ \E p \in Headers("while", "for", MaxTurns) : Loop(p)
         \/ Call(use) \/ Read(use)
         \/ \E p \in Headers("whileExpr", "forExpr", MaxTurns) : LoopExpr(p, use)
  PROVE  Native!Next /\ Alone(stack', Meant')
<1>1. CASE \E v \in Val : Let(v) \/ Assign(v)
  <2>1. PICK v \in Val : Let(v) \/ Assign(v)
    BY <1>1
  <2>2. (Native!Let(v) \/ Native!Assign(v)) /\ Alone(stack', Meant')
    BY <2>1, LetAgrees, AssignAgrees
  <2> QED
    BY <2>2 DEF Native!Next
<1>2. CASE \E v \in Val \cup {None} : Break(v) \/ Return(v)
  <2>1. PICK v \in Val \cup {None} : Break(v) \/ Return(v)
    BY <1>2
  <2>2. (Native!Break(v) \/ Native!Return(v)) /\ Alone(stack', Meant')
    BY <2>1, BreakAgrees, ReturnAgrees
  <2> QED
    BY <2>2 DEF Native!Next
<1>3. CASE If
  BY <1>3, IfAgrees DEF Native!Next
<1>4. CASE Continue
  BY <1>4, ContinueAgrees DEF Native!Next
<1>5. CASE \E p \in Headers("while", "for", MaxTurns) : Loop(p)
  <2>1. PICK p \in Headers("while", "for", MaxTurns) : Loop(p)
    BY <1>5
  <2>2. Native!Loop(p) /\ Alone(stack', Meant') /\ p \in Native!Headers("while", "for", MaxTurns)
    BY <2>1, LoopAgrees, SameHeaders
  <2> QED
    BY <2>2 DEF Native!Next
<1>6. CASE Call(use) \/ Read(use)
  <2>1. (Native!Call(use) \/ Native!Read(use)) /\ Alone(stack', Meant') /\ use \in Native!Uses
    BY <1>6, CallAgrees, ReadAgrees, SameHeaders
  <2> QED
    BY <2>1 DEF Native!Next
<1>7. CASE \E p \in Headers("whileExpr", "forExpr", MaxTurns) : LoopExpr(p, use)
  <2>1. PICK p \in Headers("whileExpr", "forExpr", MaxTurns) : LoopExpr(p, use)
    BY <1>7
  <2>2. /\ Native!LoopExpr(p, use) /\ Alone(stack', Meant') /\ use \in Native!Uses
        /\ p \in Native!Headers("whileExpr", "forExpr", MaxTurns)
    BY <2>1, LoopExprAgrees, SameHeaders
  <2> QED
    BY <2>2 DEF Native!Next
<1> QED
  BY <1>1, <1>2, <1>3, <1>4, <1>5, <1>6, <1>7

LEMMA EndAgrees ==
  ASSUME AgreeInv, FlowInv', lifted = {}, lifted' = lifted,
         Turn \/ EndLoop \/ EndIf \/ EndTurn \/ FallOff \/ TakeStatement \/ TakeTest \/ After
  PROVE  (Native!Next \/ UNCHANGED Native!vars) /\ Alone(stack', Meant')
<1>1. CASE Turn \/ EndLoop \/ EndIf \/ EndTurn \/ FallOff
  <2>1. /\ Native!Turn \/ Native!EndLoop \/ Native!EndIf \/ Native!EndTurn \/ Native!FallOff
        /\ Alone(stack', Meant')
    BY <1>1, TurnAgrees, EndLoopAgrees, EndIfAgrees, EndTurnAgrees, FallOffAgrees
  <2> QED
    BY <2>1 DEF Native!Next
<1>2. CASE TakeStatement \/ TakeTest
  <2>1. Native!Take /\ Alone(stack', Meant')
    BY <1>2, TakeStatementAgrees, TakeTestAgrees
  <2> QED
    BY <2>1 DEF Native!Next
<1>3. CASE After
  <2>1. NativeStill /\ Alone(stack', Meant')
    BY <1>3, AfterStill
  <2> QED
    BY <2>1, StillIsStutter
<1> QED
  BY <1>1, <1>2, <1>3

LEMMA StepAgrees ==
  ASSUME AgreeInv, FlowInv', lifted = {}, Next
  PROVE  (Native!Next \/ UNCHANGED Native!vars) /\ Alone(stack', Meant') /\ Landing(stack')
<1>1. Step /\ lifted' = lifted
  BY DEF Next
<1> DEFINE Ends == Turn \/ EndLoop \/ EndIf \/ EndTurn \/ FallOff \/ TakeStatement \/ TakeTest \/ After
<1>2. CASE Ends
  BY <1>1, <1>2, EndAgrees, EndLands
<1>3. CASE ~Ends
  <2>1. \E use \in Uses :
          \/ \E v \in Val : Let(v) \/ Assign(v)
          \/ \E v \in Val \cup {None} : Break(v) \/ Return(v)
          \/ If \/ Continue
          \/ \E p \in Headers("while", "for", MaxTurns) : Loop(p)
          \/ Call(use) \/ Read(use)
          \/ \E p \in Headers("whileExpr", "forExpr", MaxTurns) : LoopExpr(p, use)
    <3>1. "drop" \in Uses
      BY DEF Uses, Waits
    <3> QED
      BY <1>1, <1>3, <3>1 DEF Step
  <2>2. PICK use \in Uses :
          \/ \E v \in Val : Let(v) \/ Assign(v)
          \/ \E v \in Val \cup {None} : Break(v) \/ Return(v)
          \/ If \/ Continue
          \/ \E p \in Headers("while", "for", MaxTurns) : Loop(p)
          \/ Call(use) \/ Read(use)
          \/ \E p \in Headers("whileExpr", "forExpr", MaxTurns) : LoopExpr(p, use)
    BY <2>1
  <2> QED
    BY <1>1, <2>2, StatementAgrees, StatementLands
<1> QED
  BY <1>2, <1>3

----------------------------------------------------------------------------
\* The invariant, and the theorem.

LEMMA AgreeInvInit == Init => AgreeInv
<1> SUFFICES ASSUME Init PROVE AgreeInv
  OBVIOUS
<1>1. FlowInv
  BY InitInv
<1>2. PICK kind \in Frames : stack = <<Place(kind, 0, FALSE)>>
  BY DEF Init
<1>3. /\ Len(stack) = 1 /\ stack[1] = Place(kind, 0, FALSE)
      /\ stack[1].wait = "none" /\ stack[1].named = FALSE
  BY <1>2 DEF Place
<1>4. \A k \in 1 .. Len(stack) : stack[k].wait = "none" /\ stack[k].named = FALSE
  <2>1. \A k \in 1 .. Len(stack) : k = 1
    BY <1>3
  <2> QED
    BY <1>3, <2>1
<1>5. Alone(stack, Meant) /\ Landing(stack)
  BY <1>4 DEF Alone, Landing
<1> QED
  BY <1>1, <1>5 DEF AgreeInv

LEMMA AgreeInvStep == AgreeInv /\ FlowInv' /\ [Next]_vars => AgreeInv'
<1> SUFFICES ASSUME AgreeInv, FlowInv', [Next]_vars PROVE AgreeInv'
  OBVIOUS
<1>1. lifted' = lifted
  BY DEF Next, vars
<1>2. CASE lifted # {}
  BY <1>1, <1>2 DEF AgreeInv
<1>3. CASE lifted = {} /\ Next
  <2>1. Alone(stack', Meant') /\ Landing(stack')
    BY <1>3, StepAgrees
  <2> QED
    BY <2>1 DEF AgreeInv
<1>4. CASE lifted = {} /\ UNCHANGED vars
  <2>1. UNCHANGED <<stack, scopes, saved, globals>>
    BY <1>4 DEF vars
  <2>2. Meant' = Meant
    BY <2>1 DEF Meant
  <2>3. Alone(stack, Meant) /\ Landing(stack)
    BY <1>4 DEF AgreeInv
  <2>4. Alone(stack', Meant') /\ Landing(stack')
    BY <2>1, <2>2, <2>3
  <2> QED
    BY <2>4 DEF AgreeInv
<1> QED
  BY <1>2, <1>3, <1>4

LEMMA AgreeInit == Init => (lifted = {} => Native!Init)
<1> SUFFICES ASSUME Init PROVE Native!Init
  OBVIOUS
<1>1. FlowInv /\ Quiet /\ acc = None
  BY InitInv DEF Init, Quiet
<1>2. PICK kind \in Frames : stack = <<Place(kind, 0, FALSE)>>
  BY DEF Init
<1>3. Landed = stack /\ Names = Meant /\ Slots = Zeros(Len(stack)) /\ LandedValue = acc
  BY <1>1, RestHere
<1>4. Len(stack) = 1 /\ stack[1] = Place(kind, 0, FALSE)
  BY <1>2
<1>5. Slots = <<0>>
  BY <1>3, <1>4 DEF Zeros
<1>6. Meant = <<None>>
  <2>1. /\ Meant = [k \in 1 .. 1 |-> Meant[k]] /\ Meant[1] = NameOf(stack, scopes, saved, globals, 1)
        /\ Nested(stack) /\ stack \in Seq(Construct) /\ Balanced(stack, scopes, saved)
        /\ scopes \in Seq(Scope) /\ saved \in Seq(Seq(Scope)) /\ globals \in Scope
    BY <1>1, <1>4, MeantFacts
  <2>2. Meant[1] = None
    <3>1. stack[1].at = "body" /\ stack[1].kind = kind /\ stack # <<>> /\ T = stack[1] /\ Top(stack) = T
      <4>1. kind \notin Loops /\ stack # <<>> /\ T = stack[1] /\ Top(stack) = T
        BY <1>2, <1>4 DEF Frames, Loops, StmtLoops, LoopExprs, T, Top
      <4> QED
        BY <1>4, <4>1 DEF Place
    <3>2. LET name == NamesOf(stack, scopes, saved, globals)[Len(stack)]
          IN /\ Top(stack).at = "body" /\ Top(stack).kind = "top" => name = globals
             /\ Top(stack).at = "body" /\ Top(stack).kind # "top" =>
                  name = scopes[Len(scopes)] /\ scopes # <<>>
      BY <2>1, <3>1, NameOfTop
    <3>3. /\ kind = "top" => Meant[1] = globals
          /\ kind # "top" => Meant[1] = scopes[Len(scopes)] /\ scopes # <<>>
      BY <1>4, <3>1, <3>2 DEF Meant
    <3>4. globals = None /\ (scopes # <<>> => scopes = <<None>>)
      BY DEF Init
    <3>5. scopes # <<>> => scopes[Len(scopes)] = None
      BY <3>4
    <3> QED
      BY <3>3, <3>4, <3>5
  <2> QED
    BY <2>1, <2>2
<1>7. \E k \in Native!Frames : Landed = <<Native!Place(k, 0, FALSE)>>
  BY <1>2, <1>3, SameNesting, SameHeaders
<1> QED
  BY <1>1, <1>3, <1>5, <1>6, <1>7 DEF Native!Init, Names, Slots

LEMMA AgreeStep == AgreeInv /\ FlowInv' /\ [Next]_vars => [lifted = {} => Native!Next]_(Native!vars)
<1> SUFFICES ASSUME AgreeInv, FlowInv', [Next]_vars, lifted = {}
             PROVE  Native!Next \/ UNCHANGED Native!vars
  OBVIOUS
<1>1. CASE Next
  BY <1>1, StepAgrees
<1>2. CASE UNCHANGED vars
  <2>1. UNCHANGED <<stack, scopes, saved, globals, flags, acc>>
    BY <1>2 DEF vars, flags
  <2>2. NativeStill
    BY <2>1 DEF NativeStill, Landed, LandedValue, Names, Slots, NameAt, ScopesAt, Calls, Opened, flags
  <2> QED
    BY <2>2, StillIsStutter
<1> QED
  BY <1>1, <1>2

\* On every program without a hazard the interpreter does what the compiled
\* program does: it starts where that starts, and each of its steps is a step
\* of the compiled program or none, the flags it sets and looks at being the
\* jumps that makes (exec_stmt and eval_expr of codegen.rs against gen_stmt and
\* gen_expr of codegen_llvm.rs).
THEOREM CompiledAgrees == Spec => Agree
<1>1. Spec => []AgreeInv
  BY FlowHolds, AgreeInvInit, AgreeInvStep, PTL DEF Spec
<1> QED
  BY <1>1, FlowHolds, AgreeInit, AgreeStep, PTL DEF Spec, Agree
=============================================================================
