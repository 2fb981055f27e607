-------------------------- MODULE InterpFlowProofs --------------------------
(***************************************************************************)
(* The interpreter's scopes are balanced, and its flags do what jumps      *)
(* would.                                                                  *)
(*                                                                         *)
(* FlowInv is the inductive invariant.  What ScopesBalanced and JumpsFirst *)
(* say is not inductive by itself: that the scopes popped are the right    *)
(* ones rests on how the constructs may nest (Nested), on what is awaited  *)
(* while another construct is inside (Control), and, for every call        *)
(* underneath, on the scopes it has put aside (Balanced); and that a flag  *)
(* is met by the construct it is meant for rests on where a program        *)
(* without a hazard sets one, which for a value still awaited was decided  *)
(* long before (Permitted).  Height and CallCount count the bodies and the *)
(* calls open at a position; HeightStep says how they grow from one        *)
(* position to the next, and every operation only changes the last         *)
(* construct, adds one, or takes one off.                                  *)
(***************************************************************************)
EXTENDS InterpFlow, FiniteSetTheorems, SequenceTheorems, WellFoundedInduction, TLAPS

\* A set of natural numbers that is not empty has a least member.
LEMMA LeastNat ==
  ASSUME NEW S \in SUBSET Nat, S # {}
  PROVE  \E n \in S : \A m \in S : n <= m
<1> DEFINE Below == {p \in Nat \X Nat : p[1] < p[2]}
<1>1. IsWellFoundedOn(Below, Nat)
  BY NatLessThanWellFounded DEF OpToRel
<1>2. \E n \in S : \A m \in S : <<m, n>> \notin Below
  <2> HIDE DEF Below
  <2> QED
    BY <1>1, WFMin
<1>3. PICK n \in S : \A m \in S : <<m, n>> \notin Below
  BY <1>2
<1>4. \A m \in S : ~(m < n)
  BY <1>3
<1> QED
  BY <1>4

\* What the stack holds, and what a scope binds the name to.
Construct == [kind : Frames \cup Loops \cup {"if"}, at : {"head", "body"}, wait : Waits,
              next : 0 .. MaxTurns, end : 0 .. MaxTurns, named : BOOLEAN]
Scope == Nat \cup {None}

\* Every variable has its type.
Types ==
  /\ stack \in Seq(Construct)
  /\ Len(stack) <= Depths[lifted]
  /\ lifted \in DOMAIN Depths
  /\ after \in BOOLEAN /\ should_break \in BOOLEAN /\ should_continue \in BOOLEAN
  /\ globals \in Scope /\ acc \in Scope /\ returned \in Scope /\ break_value \in Scope
  /\ scopes \in Seq(Scope)
  /\ saved \in Seq(Seq(Scope))

\* What a construct may be, and what it waits for while another is inside.
Proper(p) ==
  /\ p.at = "head" => p.kind \in Loops
  /\ p.at = "body" /\ p.kind \in Counted => p.next < p.end
  /\ p.wait = "test" => p.at = "head" /\ p.kind \in Tested
  /\ p.wait \in {"drop", "ret", "brk"} => p.at = "body"

Encloses(p, q) ==
  /\ q.kind # "top"
  /\ IF q.kind \in StmtLoops \cup {"if"} THEN p.wait = "none" /\ p.at = "body" ELSE p.wait # "none"

\* How constructs nest: in a function or the top level, and each where the one
\* around it may hold it.
Nested(c) ==
  /\ c # <<>> => c[1].kind \in Frames
  /\ \A k \in 1 .. Len(c) : Proper(c[k])
  /\ \A k \in 1 .. Len(c) - 1 : Encloses(c[k], c[k + 1])

\* A value is there only where one is awaited, and a statement has just come back
\* only where the innermost construct is in its body and awaits nothing.
Control ==
  /\ acc # None => stack # <<>> /\ T.wait # "none"
  /\ after => stack # <<>> /\ T.at = "body" /\ T.wait = "none" /\ acc = None

\* The call the k-th construct stands in, the bodies open in it up to there, and the
\* calls open up to there.
Bottom(c, k) == Max({j \in 1 .. k : c[j].kind \in Frames})
Bodies(c, k) == {j \in Bottom(c, k) .. k : c[j].at = "body" /\ c[j].kind # "top"}
Called(c, k) == {j \in 1 .. k : c[j].kind \in Frames}
Height(c, k) == Cardinality(Bodies(c, k))
CallCount(c, k) == Cardinality(Called(c, k))

\* The scopes `open` are those of the bodies of the innermost call, and `under` has
\* those of each call underneath.
Balanced(c, open, under) ==
  c # <<>> =>
    /\ Len(open) = Height(c, Len(c))
    /\ Len(under) = CallCount(c, Len(c)) - 1
    /\ \A k \in 1 .. Len(c) - 1 :
         c[k + 1].kind = "fn" => Len(under[CallCount(c, k)]) = Height(c, k)

\* Whether there is a function, a loop, a loop expression around the k-th construct;
\* the jump a statement will make with the value it waits for is one that a
\* program without a hazard may make.
InFn(c, k) == c[Bottom(c, k)].kind = "fn"
InLoop(c, k) == \E j \in Bottom(c, k) + 1 .. k : c[j].kind \in Loops
InLoopExpr(c, k) == \E j \in Bottom(c, k) + 1 .. k : c[j].kind \in LoopExprs
MayJump(c, k) ==
  /\ c[k].wait = "ret" => InFn(c, k) /\ ~InLoopExpr(c, k)
  /\ c[k].wait = "brk" => InLoop(c, k)
Permitted(c) == \A k \in 1 .. Len(c) : MayJump(c, k)

\* Where a flag is set, there is something around for it, and no other flag with it.
Jumps(c, k) ==
  /\ returned # None => ~should_break /\ ~should_continue /\ InFn(c, k) /\ ~InLoopExpr(c, k)
  /\ should_break => ~should_continue /\ InLoop(c, k)
  /\ should_continue => InLoop(c, k)
  /\ break_value # None => should_break

\* In a program without a hazard, flags are set only between a statement and what
\* its jump leads to.
FlagInv ==
  lifted = {} =>
    /\ Permitted(stack)
    /\ ~after => Quiet /\ break_value = None
    /\ stack # <<>> => Jumps(stack, Len(stack))

\* The inductive invariant.
FlowInv == Types /\ Nested(stack) /\ Control /\ Balanced(stack, scopes, saved) /\ FlagInv

----------------------------------------------------------------------------
\* Sequences and maxima.

\* The last member of a sequence taken off.
LEMMA PopFacts ==
  ASSUME NEW S, NEW s \in Seq(S), s # <<>>
  PROVE  /\ Len(s) \in Nat \ {0} /\ Top(s) \in S
         /\ Pop(s) \in Seq(S)
         /\ Len(Pop(s)) = Len(s) - 1
         /\ \A k \in 1 .. Len(s) - 1 : Pop(s)[k] = s[k]
<1>1. Len(s) \in Nat \ {0}
  OBVIOUS
<1> DEFINE n == Len(s) - 1
<1>2. n \in Nat /\ \A k \in 1 .. n : s[k] \in S
  BY <1>1
<1>3. 1 \in Int /\ n \in Int
  BY <1>2
<1>4. /\ Pop(s) \in Seq(S)
      /\ Len(Pop(s)) = IF 1 <= n THEN n - 1 + 1 ELSE 0
      /\ \A k \in 1 .. n - 1 + 1 : Pop(s)[k] = s[1 + k - 1]
  <2> HIDE DEF n
  <2>1. /\ SubSeq(s, 1, n) \in Seq(S)
        /\ Len(SubSeq(s, 1, n)) = IF 1 <= n THEN n - 1 + 1 ELSE 0
        /\ \A k \in 1 .. n - 1 + 1 : SubSeq(s, 1, n)[k] = s[1 + k - 1]
    BY <1>2, <1>3, SubSeqProperties
  <2> QED
    BY <2>1 DEF Pop, n
<1>5. Len(Pop(s)) = n /\ \A k \in 1 .. n : Pop(s)[k] = s[k]
  <2>1. CASE n = 0
    BY <1>4, <2>1
  <2>2. CASE n >= 1
    <3> HIDE DEF n
    <3>1. n - 1 + 1 = n
      BY <1>2
    <3> QED
      BY <1>2, <1>4, <2>2, <3>1
  <2> HIDE DEF n
  <2> QED
    BY <1>2, <2>1, <2>2
<1> QED
  BY <1>1, <1>4, <1>5 DEF Top

\* One member of a sequence replaced.
LEMMA ReplaceFacts ==
  ASSUME NEW S, NEW s \in Seq(S), NEW i \in 1 .. Len(s), NEW e \in S
  PROVE  /\ [s EXCEPT ![i] = e] \in Seq(S)
         /\ Len([s EXCEPT ![i] = e]) = Len(s)
         /\ [s EXCEPT ![i] = e][i] = e
         /\ \A j \in 1 .. Len(s) : j # i => [s EXCEPT ![i] = e][j] = s[j]
BY ExceptSeq

\* A member added at the end.
LEMMA PushFacts ==
  ASSUME NEW S, NEW s \in Seq(S), NEW e \in S
  PROVE  /\ Append(s, e) \in Seq(S)
         /\ Len(Append(s, e)) = Len(s) + 1
         /\ Append(s, e)[Len(s) + 1] = e
         /\ \A j \in 1 .. Len(s) : Append(s, e)[j] = s[j]
OBVIOUS

\* A set of positions has a last one.
LEMMA MaxFacts ==
  ASSUME NEW n \in Nat, NEW S \in SUBSET (1 .. n), S # {}
  PROVE  Max(S) \in S /\ \A x \in S : x <= Max(S)
<1> DEFINE Left == {n - x : x \in S}
<1>1. PICK m \in Left : \A y \in Left : m <= y
  <2>1. \A x \in S : n - x \in Nat
    OBVIOUS
  <2>2. Left \in SUBSET Nat /\ Left # {}
    BY <2>1
  <2> HIDE DEF Left
  <2> QED
    BY <2>2, LeastNat
<1>2. PICK x \in S : m = n - x
  BY <1>1
<1>3. \A y \in S : n - x <= n - y
  BY <1>1, <1>2
<1>4. \A y \in S : x >= y
  BY <1>3
<1>5. Max(S) \in S /\ \A y \in S : Max(S) >= y
  BY <1>4 DEF Max
<1> QED
  BY <1>5

----------------------------------------------------------------------------
\* The call and the bodies a construct stands in.

\* Every construct stands in a call.
LEMMA BottomFacts ==
  ASSUME NEW c \in Seq(Construct), Nested(c), NEW k \in 1 .. Len(c)
  PROVE  /\ Bottom(c, k) \in 1 .. k /\ c[Bottom(c, k)].kind \in Frames
         /\ \A j \in 1 .. k : c[j].kind \in Frames => j <= Bottom(c, k)
<1> DEFINE S == {j \in 1 .. k : c[j].kind \in Frames}
<1>1. k \in Nat /\ S \in SUBSET (1 .. k) /\ 1 \in S
  BY DEF Nested
<1>2. Max(S) \in S /\ \A x \in S : x <= Max(S)
  <2> HIDE DEF S
  <2> QED
    BY <1>1, MaxFacts
<1> QED
  BY <1>2 DEF Bottom

\* Both depend on the constructs up to there alone.
LEMMA SameUpTo ==
  ASSUME NEW c \in Seq(Construct), NEW d \in Seq(Construct), Nested(c),
         NEW k \in 1 .. Len(c), k <= Len(d),
         \A j \in 1 .. k : d[j].kind = c[j].kind /\ d[j].at = c[j].at
  PROVE  /\ Bottom(d, k) = Bottom(c, k)
         /\ Height(d, k) = Height(c, k)
         /\ CallCount(d, k) = CallCount(c, k)
<1>1. Called(d, k) = Called(c, k)
  BY DEF Called
<1>2. Bottom(d, k) = Bottom(c, k)
  BY <1>1 DEF Bottom, Called
<1>3. Bottom(c, k) \in 1 .. k
  BY BottomFacts
<1>4. Bodies(d, k) = Bodies(c, k)
  BY <1>2, <1>3 DEF Bodies
<1> QED
  BY <1>1, <1>2, <1>4 DEF Height, CallCount

\* Positions are finitely many.
LEMMA PositionsFinite ==
  ASSUME NEW n \in Nat, NEW S \in SUBSET (1 .. n)
  PROVE  IsFiniteSet(S) /\ Cardinality(S) \in Nat
<1>1. 1 \in Int /\ n \in Int
  OBVIOUS
<1>2. IsFiniteSet(1 .. n)
  BY <1>1, FS_Interval
<1> QED
  BY <1>2, FS_Subset, FS_CardinalityType

\* Control is never at the head of a function.
LEMMA FrameInBody ==
  ASSUME NEW p \in Construct, Proper(p), p.kind \in Frames
  PROVE  p.at = "body"
<1>1. p.at \in {"head", "body"}
  BY DEF Construct
<1>2. p.kind \notin Loops
  BY DEF Frames, Loops, StmtLoops, LoopExprs
<1> QED
  BY <1>1, <1>2 DEF Proper

\* The outermost construct is a function or the top level.
LEMMA HeightBase ==
  ASSUME NEW c \in Seq(Construct), Nested(c), c # <<>>
  PROVE  /\ CallCount(c, 1) = 1 /\ Bottom(c, 1) = 1
         /\ Height(c, 1) = IF c[1].kind = "fn" THEN 1 ELSE 0
<1>1. Len(c) \in Nat \ {0} /\ c[1] \in Construct /\ c[1].kind \in Frames /\ c[1].at = "body"
  <2>1. Len(c) \in Nat \ {0} /\ c[1] \in Construct /\ c[1].kind \in Frames /\ Proper(c[1])
    BY DEF Nested
  <2> QED
    BY <2>1, FrameInBody
<1>2. Called(c, 1) = {1}
  BY <1>1 DEF Called
<1>3. Bottom(c, 1) = 1
  BY <1>1, BottomFacts
<1>4. Bodies(c, 1) = IF c[1].kind = "fn" THEN {1} ELSE {}
  BY <1>1, <1>3 DEF Bodies, Frames
<1> QED
  BY <1>2, <1>3, <1>4, FS_Singleton, FS_EmptySet DEF Height, CallCount

\* A call starts over; any other construct adds a scope where control is in its body.
LEMMA HeightStep ==
  ASSUME NEW c \in Seq(Construct), Nested(c), NEW k \in 1 .. Len(c), k < Len(c)
  PROVE  /\ Height(c, k) \in Nat /\ CallCount(c, k) \in Nat
         /\ CallCount(c, k + 1) = CallCount(c, k) + (IF c[k + 1].kind = "fn" THEN 1 ELSE 0)
         /\ Bottom(c, k + 1) = IF c[k + 1].kind = "fn" THEN k + 1 ELSE Bottom(c, k)
         /\ Height(c, k + 1) = IF c[k + 1].kind = "fn" THEN 1
                               ELSE Height(c, k) + (IF c[k + 1].at = "body" THEN 1 ELSE 0)
<1>1. /\ k \in Nat /\ k + 1 \in 1 .. Len(c) /\ c[k + 1] \in Construct
      /\ c[k + 1].kind \in Frames <=> c[k + 1].kind = "fn"
      /\ c[k + 1].kind # "top"
      /\ c[k + 1].kind = "fn" => c[k + 1].at = "body"
  <2>1. /\ k \in Nat /\ k + 1 \in 1 .. Len(c) /\ c[k + 1] \in Construct
        /\ Proper(c[k + 1]) /\ Encloses(c[k], c[k + 1])
    BY DEF Nested
  <2>2. c[k + 1].kind # "top"
    BY <2>1 DEF Encloses
  <2> QED
    BY <2>1, <2>2, FrameInBody DEF Frames
<1>2. Bottom(c, k) \in 1 .. k /\ Bottom(c, k + 1) \in 1 .. k + 1
  BY <1>1, BottomFacts
<1>3. Bottom(c, k + 1) = IF c[k + 1].kind = "fn" THEN k + 1 ELSE Bottom(c, k)
  <2>1. CASE c[k + 1].kind = "fn"
    BY <1>1, <1>2, <2>1, BottomFacts
  <2>2. CASE c[k + 1].kind # "fn"
    <3>1. \A j \in 1 .. k + 1 : c[j].kind \in Frames <=> j \in 1 .. k /\ c[j].kind \in Frames
      BY <1>1, <2>2
    <3>2. {j \in 1 .. k + 1 : c[j].kind \in Frames} = {j \in 1 .. k : c[j].kind \in Frames}
      BY <1>1, <3>1
    <3> QED
      BY <2>2, <3>2 DEF Bottom
  <2> QED
    BY <2>1, <2>2
<1>4. /\ Called(c, k) \subseteq 1 .. k /\ Bodies(c, k) \subseteq 1 .. k
      /\ IsFiniteSet(Called(c, k)) /\ IsFiniteSet(Bodies(c, k))
      /\ CallCount(c, k) \in Nat /\ Height(c, k) \in Nat
      /\ k + 1 \notin Called(c, k) /\ k + 1 \notin Bodies(c, k)
  <2>1. Called(c, k) \subseteq 1 .. k /\ Bodies(c, k) \subseteq 1 .. k
    BY <1>2 DEF Called, Bodies
  <2>2. /\ IsFiniteSet(Called(c, k)) /\ IsFiniteSet(Bodies(c, k))
        /\ CallCount(c, k) \in Nat /\ Height(c, k) \in Nat
    BY <1>1, <2>1, PositionsFinite DEF CallCount, Height
  <2>3. k + 1 \notin 1 .. k
    BY <1>1
  <2>4. k + 1 \notin Called(c, k) /\ k + 1 \notin Bodies(c, k)
    BY <2>1, <2>3, Zenon
  <2> QED
    BY <2>1, <2>2, <2>4
<1>5. Called(c, k + 1) = IF c[k + 1].kind = "fn" THEN Called(c, k) \cup {k + 1} ELSE Called(c, k)
  BY <1>1 DEF Called
<1>6. CallCount(c, k + 1) = CallCount(c, k) + (IF c[k + 1].kind = "fn" THEN 1 ELSE 0)
  <2>1. CASE c[k + 1].kind = "fn"
    BY <1>4, <1>5, <2>1, FS_AddElement DEF CallCount
  <2>2. CASE c[k + 1].kind # "fn"
    BY <1>4, <1>5, <2>2 DEF CallCount
  <2> QED
    BY <2>1, <2>2
<1>7. CASE c[k + 1].kind = "fn"
  <2>1. Bodies(c, k + 1) = {k + 1}
    BY <1>1, <1>3, <1>7 DEF Bodies
  <2> QED
    BY <1>3, <1>4, <1>6, <1>7, <2>1, FS_Singleton DEF Height
<1>8. CASE c[k + 1].kind # "fn"
  <2>1. Bodies(c, k + 1) = IF c[k + 1].at = "body" THEN Bodies(c, k) \cup {k + 1} ELSE Bodies(c, k)
    BY <1>1, <1>2, <1>3, <1>8 DEF Bodies
  <2>2. Height(c, k + 1) = Height(c, k) + (IF c[k + 1].at = "body" THEN 1 ELSE 0)
    <3>1. CASE c[k + 1].at = "body"
      BY <1>4, <2>1, <3>1, FS_AddElement DEF Height
    <3>2. CASE c[k + 1].at # "body"
      BY <1>4, <2>1, <3>2 DEF Height
    <3> QED
      BY <3>1, <3>2
  <2> QED
    BY <1>3, <1>4, <1>6, <1>8, <2>2
<1> QED
  BY <1>7, <1>8

\* Calls are counted from 1, and more of them further in.
LEMMA CountRange ==
  ASSUME NEW c \in Seq(Construct), Nested(c), NEW k \in 1 .. Len(c), NEW m \in k .. Len(c)
  PROVE  /\ CallCount(c, k) \in 1 .. CallCount(c, m)
         /\ k < m /\ c[k + 1].kind = "fn" => CallCount(c, k) < CallCount(c, m)
<1>1. /\ Len(c) \in Nat /\ m \in 1 .. Len(c) /\ m \in Nat /\ k \in Nat
      /\ 1 \in Called(c, k)
  BY DEF Called, Nested
<1>2. \A i \in 1 .. Len(c) : /\ Called(c, i) \subseteq 1 .. i
                             /\ IsFiniteSet(Called(c, i)) /\ CallCount(c, i) \in Nat
  <2> SUFFICES ASSUME NEW i \in 1 .. Len(c)
               PROVE  /\ Called(c, i) \subseteq 1 .. i
                      /\ IsFiniteSet(Called(c, i)) /\ CallCount(c, i) \in Nat
    OBVIOUS
  <2>1. i \in Nat /\ Called(c, i) \in SUBSET (1 .. i)
    BY DEF Called
  <2> QED
    BY <2>1, PositionsFinite DEF CallCount
<1>3. CallCount(c, k) # 0
  BY <1>1, <1>2, FS_EmptySet DEF CallCount
<1>4. \A i \in k .. m : CallCount(c, i) <= CallCount(c, m)
  <2> SUFFICES ASSUME NEW i \in k .. m
               PROVE  CallCount(c, i) <= CallCount(c, m)
    OBVIOUS
  <2>1. Called(c, i) \subseteq Called(c, m)
    BY <1>1 DEF Called
  <2> QED
    BY <1>1, <1>2, <2>1, FS_Subset DEF CallCount
<1>5. ASSUME k < m, c[k + 1].kind = "fn"
      PROVE  CallCount(c, k) < CallCount(c, m)
  <2>1. CallCount(c, k + 1) = CallCount(c, k) + 1
    BY <1>1, <1>5, HeightStep
  <2>2. CallCount(c, k + 1) <= CallCount(c, m)
    BY <1>1, <1>4, <1>5
  <2> QED
    BY <1>1, <1>2, <2>1, <2>2
<1>6. CallCount(c, k) <= CallCount(c, m)
  BY <1>1, <1>4
<1> QED
  BY <1>1, <1>2, <1>3, <1>5, <1>6

\* Whether there is a function and a loop around depends on the kinds alone.
LEMMA SameAround ==
  ASSUME NEW c \in Seq(Construct), NEW d \in Seq(Construct), Nested(c),
         NEW k \in 1 .. Len(c), k <= Len(d), \A j \in 1 .. k : d[j].kind = c[j].kind
  PROVE  /\ InFn(d, k) <=> InFn(c, k)
         /\ InLoop(d, k) <=> InLoop(c, k)
         /\ InLoopExpr(d, k) <=> InLoopExpr(c, k)
<1>1. Bottom(c, k) \in 1 .. k
  BY BottomFacts
<1>2. Bottom(d, k) = Bottom(c, k)
  <2>1. {j \in 1 .. k : d[j].kind \in Frames} = {j \in 1 .. k : c[j].kind \in Frames}
    OBVIOUS
  <2> QED
    BY <2>1 DEF Bottom
<1>3. \A j \in Bottom(c, k) + 1 .. k : j \in 1 .. k
  BY <1>1
<1> QED
  BY <1>1, <1>2, <1>3 DEF InFn, InLoop, InLoopExpr

----------------------------------------------------------------------------
\* What happens to the nest: its top changes, or one construct comes or goes.

Changed(c, q) == [c EXCEPT ![Len(c)] = q]

\* The top replaced by a construct of the same kind.
LEMMA ChangeFacts ==
  ASSUME NEW c \in Seq(Construct), Nested(c), c # <<>>,
         NEW q \in Construct, Proper(q), q.kind = Top(c).kind
  PROVE  LET d == Changed(c, q) IN
         /\ d \in Seq(Construct) /\ Nested(d) /\ d # <<>> /\ Len(d) = Len(c) /\ Top(d) = q
         /\ \A k \in 1 .. Len(c) - 1 : d[k] = c[k]
<1> DEFINE d == Changed(c, q)
<1>1. Len(c) \in Nat \ {0} /\ Len(c) \in 1 .. Len(c)
  OBVIOUS
<1>2. /\ d \in Seq(Construct) /\ Len(d) = Len(c) /\ d[Len(c)] = q
      /\ \A j \in 1 .. Len(c) : j # Len(c) => d[j] = c[j]
  BY <1>1, ReplaceFacts DEF Changed
<1> HIDE DEF d
<1>3. /\ \A j \in 1 .. Len(c) : d[j].kind = c[j].kind
      /\ \A j \in 1 .. Len(c) - 1 : d[j] = c[j]
  BY <1>1, <1>2 DEF Top
<1>4. Nested(d)
  <2>1. d # <<>> => d[1].kind \in Frames
    BY <1>1, <1>3 DEF Nested
  <2>2. \A k \in 1 .. Len(d) : Proper(d[k])
    BY <1>1, <1>2 DEF Nested
  <2>3. \A k \in 1 .. Len(d) - 1 : Encloses(d[k], d[k + 1])
    <3> SUFFICES ASSUME NEW k \in 1 .. Len(c) - 1
                 PROVE  Encloses(d[k], d[k + 1])
      BY <1>2
    <3>1. /\ k + 1 \in 1 .. Len(c) /\ d[k] = c[k] /\ d[k + 1].kind = c[k + 1].kind
          /\ Encloses(c[k], c[k + 1])
      BY <1>1, <1>3 DEF Nested
    <3> QED
      BY <3>1 DEF Encloses
  <2> QED
    BY <2>1, <2>2, <2>3 DEF Nested
<1> QED
  BY <1>1, <1>2, <1>3, <1>4 DEF Top, d

\* Its scopes are still balanced when one was pushed or popped with the body.
LEMMA ChangeBalanced ==
  ASSUME NEW c \in Seq(Construct), Nested(c), c # <<>>,
         NEW q \in Construct, Proper(q), q.kind = Top(c).kind,
         NEW open \in Seq(Scope), NEW open2 \in Seq(Scope), NEW under \in Seq(Seq(Scope)),
         Balanced(c, open, under),
         \/ q.at = Top(c).at /\ Len(open2) = Len(open)
         \/ q.at = "body" /\ Top(c).at = "head" /\ Len(open2) = Len(open) + 1
         \/ q.at = "head" /\ Top(c).at = "body" /\ Len(open2) = Len(open) - 1
  PROVE  Balanced(Changed(c, q), open2, under)
<1> DEFINE d == Changed(c, q)
           n == Len(c)
<1>1. /\ d \in Seq(Construct) /\ Nested(d) /\ d # <<>> /\ Len(d) = n /\ d[n] = q
      /\ \A k \in 1 .. n - 1 : d[k] = c[k]
  BY ChangeFacts DEF Top
<1>2. /\ n \in Nat \ {0} /\ n = Len(c) /\ c[n] \in Construct /\ Proper(c[n]) /\ c[n].kind = q.kind
      /\ Top(c) = c[n]
  BY DEF Nested, Top
<1> HIDE DEF d, n
<1>3. ASSUME NEW k \in 1 .. n PROVE d[k].kind = c[k].kind
  <2>1. k = n \/ k \in 1 .. n - 1
    BY <1>2
  <2> QED
    BY <1>1, <1>2, <2>1
<1>4. \A k \in 1 .. n - 1 : CallCount(d, k) = CallCount(c, k) /\ Height(d, k) = Height(c, k)
  <2> SUFFICES ASSUME NEW k \in 1 .. n - 1
               PROVE  CallCount(d, k) = CallCount(c, k) /\ Height(d, k) = Height(c, k)
    OBVIOUS
  <2>1. k \in 1 .. Len(c) /\ k <= Len(d) /\ \A j \in 1 .. k : j \in 1 .. n - 1
    BY <1>1, <1>2
  <2>2. \A j \in 1 .. k : d[j].kind = c[j].kind /\ d[j].at = c[j].at
    BY <1>1, <2>1
  <2> QED
    BY <1>1, <2>1, <2>2, SameUpTo
<1>5. CallCount(d, n) = CallCount(c, n)
  BY <1>1, <1>2, <1>3 DEF CallCount, Called
<1>6. c[n].kind \in Frames => q.at = Top(c).at
  BY <1>2, FrameInBody DEF Top
<1>7. Len(open2) = Height(d, n)
  <2>1. CASE n = 1
    <3>1. c[1].kind \in Frames
      BY DEF Nested
    <3>2. Height(d, 1) = Height(c, 1)
      <4>1. d[1].kind = c[1].kind
        BY <1>3, <2>1
      <4> QED
        BY <1>1, <4>1, HeightBase
    <3> QED
      BY <1>2, <1>6, <2>1, <3>1, <3>2 DEF Balanced
  <2>2. CASE n # 1
    <3>1. n - 1 \in 1 .. n /\ n - 1 < n /\ n - 1 + 1 = n
      BY <1>2, <2>2
    <3>2. /\ Height(c, n - 1) \in Nat
          /\ Height(c, n) = IF c[n].kind = "fn" THEN 1
                            ELSE Height(c, n - 1) + (IF c[n].at = "body" THEN 1 ELSE 0)
      BY <1>2, <3>1, HeightStep
    <3>3. Height(d, n) = IF d[n].kind = "fn" THEN 1
                         ELSE Height(d, n - 1) + (IF d[n].at = "body" THEN 1 ELSE 0)
      BY <1>1, <1>2, <3>1, HeightStep
    <3>4. Height(d, n - 1) = Height(c, n - 1)
      BY <1>4, <1>2, <2>2
    <3>5. Len(open) = Height(c, n)
      BY <1>2 DEF Balanced
    <3>6. CASE c[n].kind = "fn"
      BY <1>1, <1>2, <1>6, <3>2, <3>3, <3>5, <3>6 DEF Frames, Top
    <3>7. CASE c[n].kind # "fn"
      <4>1. Height(d, n) = Height(c, n - 1) + (IF q.at = "body" THEN 1 ELSE 0)
        BY <1>1, <1>2, <3>3, <3>4, <3>7
      <4>2. Len(open) = Height(c, n - 1) + (IF Top(c).at = "body" THEN 1 ELSE 0)
        BY <1>2, <3>2, <3>5, <3>7
      <4>3. Len(open) \in Nat /\ Len(open2) \in Nat
        OBVIOUS
      <4> QED
        BY <3>2, <4>1, <4>2, <4>3
    <3> QED
      BY <3>6, <3>7
  <2> QED
    BY <2>1, <2>2
<1>8. \A k \in 1 .. n - 1 : d[k + 1].kind = "fn" =>
         Len(under[CallCount(d, k)]) = Height(d, k)
  <2> SUFFICES ASSUME NEW k \in 1 .. n - 1, d[k + 1].kind = "fn"
               PROVE  Len(under[CallCount(d, k)]) = Height(d, k)
    OBVIOUS
  <2>1. k + 1 \in 1 .. n
    BY <1>2
  <2>2. c[k + 1].kind = "fn"
    BY <1>3, <2>1
  <2>3. Len(under[CallCount(c, k)]) = Height(c, k)
    BY <1>2, <2>2 DEF Balanced
  <2> QED
    BY <1>4, <2>3
<1> QED
  BY <1>1, <1>2, <1>5, <1>7, <1>8 DEF Balanced, d
\* A construct opened inside the innermost one.
LEMMA GoInFacts ==
  ASSUME NEW c \in Seq(Construct), Nested(c), c # <<>>,
         NEW p \in Construct, Proper(p), Encloses(Top(c), p)
  PROVE  LET d == Append(c, p) IN
         /\ d \in Seq(Construct) /\ Nested(d) /\ d # <<>> /\ Len(d) = Len(c) + 1 /\ Top(d) = p
         /\ \A k \in 1 .. Len(c) : d[k] = c[k]
<1> DEFINE d == Append(c, p)
           n == Len(c)
<1>1. n \in Nat \ {0} /\ n = Len(c) /\ Top(c) = c[n]
  BY DEF Top
<1>2. /\ d \in Seq(Construct) /\ Len(d) = n + 1 /\ d[n + 1] = p
      /\ \A j \in 1 .. n : d[j] = c[j]
  BY PushFacts
<1> HIDE DEF d, n
<1>3. Nested(d)
  <2>1. d # <<>> => d[1].kind \in Frames
    BY <1>1, <1>2 DEF Nested
  <2>2. \A k \in 1 .. Len(d) : Proper(d[k])
    <3> SUFFICES ASSUME NEW k \in 1 .. n + 1
                 PROVE  Proper(d[k])
      BY <1>2
    <3>1. k = n + 1 \/ k \in 1 .. n
      BY <1>1
    <3> QED
      BY <1>1, <1>2, <3>1 DEF Nested
  <2>3. \A k \in 1 .. Len(d) - 1 : Encloses(d[k], d[k + 1])
    <3> SUFFICES ASSUME NEW k \in 1 .. n
                 PROVE  Encloses(d[k], d[k + 1])
      BY <1>1, <1>2
    <3>1. CASE k = n
      BY <1>1, <1>2, <3>1
    <3>2. CASE k # n
      <4>1. k \in 1 .. n - 1 /\ k + 1 \in 1 .. n
        BY <1>1, <3>2
      <4>2. Encloses(c[k], c[k + 1])
        BY <1>1, <4>1 DEF Nested
      <4> QED
        BY <1>2, <4>1, <4>2
    <3> QED
      BY <3>1, <3>2
  <2> QED
    BY <2>1, <2>2, <2>3 DEF Nested
<1> QED
  BY <1>1, <1>2, <1>3 DEF Top, d, n

\* Its scopes are balanced where a call puts those open aside and starts with
\* one, and where any other construct pushes one exactly if it starts in its body.
LEMMA GoInBalanced ==
  ASSUME NEW c \in Seq(Construct), Nested(c), c # <<>>,
         NEW p \in Construct, Proper(p), Encloses(Top(c), p),
         NEW open \in Seq(Scope), NEW open2 \in Seq(Scope),
         NEW under \in Seq(Seq(Scope)), NEW under2 \in Seq(Seq(Scope)),
         Balanced(c, open, under),
         \/ p.kind = "fn" /\ Len(open2) = 1 /\ under2 = Append(under, open)
         \/ p.kind # "fn" /\ p.at = "body" /\ Len(open2) = Len(open) + 1 /\ under2 = under
         \/ p.kind # "fn" /\ p.at = "head" /\ Len(open2) = Len(open) /\ under2 = under
  PROVE  Balanced(Append(c, p), open2, under2)
<1> DEFINE d == Append(c, p)
           n == Len(c)
<1>1. /\ d \in Seq(Construct) /\ Nested(d) /\ d # <<>> /\ Len(d) = n + 1 /\ d[n + 1] = p
      /\ \A k \in 1 .. n : d[k] = c[k]
  BY GoInFacts DEF Top
<1>2. n \in Nat \ {0} /\ n = Len(c) /\ n \in 1 .. n /\ n < Len(d) /\ n \in 1 .. Len(d)
  BY <1>1
<1> HIDE DEF d, n
<1>3. \A k \in 1 .. n : CallCount(d, k) = CallCount(c, k) /\ Height(d, k) = Height(c, k)
  <2> SUFFICES ASSUME NEW k \in 1 .. n
               PROVE  CallCount(d, k) = CallCount(c, k) /\ Height(d, k) = Height(c, k)
    OBVIOUS
  <2>1. k \in 1 .. Len(c) /\ k <= Len(d) /\ \A j \in 1 .. k : j \in 1 .. n
    BY <1>1, <1>2
  <2>2. \A j \in 1 .. k : d[j].kind = c[j].kind /\ d[j].at = c[j].at
    BY <1>1, <2>1
  <2> QED
    BY <1>1, <2>1, <2>2, SameUpTo
<1>4. /\ CallCount(d, n + 1) = CallCount(c, n) + (IF p.kind = "fn" THEN 1 ELSE 0)
      /\ Height(d, n + 1) = IF p.kind = "fn" THEN 1
                            ELSE Height(c, n) + (IF p.at = "body" THEN 1 ELSE 0)
      /\ CallCount(c, n) \in Nat /\ Height(c, n) \in Nat
  <2>1. /\ Height(d, n) \in Nat /\ CallCount(d, n) \in Nat
        /\ CallCount(d, n + 1) = CallCount(d, n) + (IF d[n + 1].kind = "fn" THEN 1 ELSE 0)
        /\ Height(d, n + 1) = IF d[n + 1].kind = "fn" THEN 1
                              ELSE Height(d, n) + (IF d[n + 1].at = "body" THEN 1 ELSE 0)
    BY <1>1, <1>2, HeightStep
  <2>2. CallCount(d, n) = CallCount(c, n) /\ Height(d, n) = Height(c, n)
    BY <1>2, <1>3
  <2> QED
    BY <1>1, <2>1, <2>2
<1>5. /\ Len(open) = Height(c, n) /\ Len(under) = CallCount(c, n) - 1
      /\ \A k \in 1 .. n - 1 : c[k + 1].kind = "fn" => Len(under[CallCount(c, k)]) = Height(c, k)
  BY <1>2 DEF Balanced
<1>6. Len(open) \in Nat /\ Len(open2) \in Nat /\ Len(under) \in Nat
  OBVIOUS
<1>7. p.kind = "fn" =>
        /\ Len(under2) = Len(under) + 1 /\ under2[Len(under) + 1] = open
        /\ \A j \in 1 .. Len(under) : under2[j] = under[j]
  BY PushFacts
<1>8. Len(open2) = Height(d, n + 1)
  <2>1. CASE p.kind = "fn"
    BY <1>4, <1>6, <2>1
  <2>2. CASE p.kind # "fn" /\ p.at = "body"
    BY <1>4, <1>5, <1>6, <2>2
  <2>3. CASE p.kind # "fn" /\ p.at # "body"
    BY <1>4, <1>5, <1>6, <2>3
  <2> QED
    BY <2>1, <2>2, <2>3
<1>9. Len(under2) = CallCount(d, n + 1) - 1
  <2>1. CASE p.kind = "fn"
    BY <1>4, <1>5, <1>6, <1>7, <2>1
  <2>2. CASE p.kind # "fn"
    BY <1>4, <1>5, <1>6, <2>2
  <2> QED
    BY <2>1, <2>2
<1>10. ASSUME NEW k \in 1 .. n, d[k + 1].kind = "fn"
       PROVE  Len(under2[CallCount(d, k)]) = Height(d, k)
  <2>1. CASE k = n
    <3>1. p.kind = "fn"
      BY <1>1, <1>10, <2>1
    <3>2. CallCount(d, k) = Len(under) + 1 /\ Height(d, k) = Len(open)
      BY <1>2, <1>3, <1>4, <1>5, <2>1
    <3> QED
      BY <1>7, <3>1, <3>2
  <2>2. CASE k # n
    <3>1. k \in 1 .. n - 1 /\ k + 1 \in 1 .. n /\ k < n /\ k \in 1 .. Len(c) /\ n \in k .. Len(c)
      BY <1>2, <2>2
    <3>2. c[k + 1].kind = "fn"
      BY <1>1, <1>10, <3>1
    <3>3. CallCount(c, k) \in 1 .. CallCount(c, n) /\ CallCount(c, k) < CallCount(c, n)
      BY <3>1, <3>2, CountRange
    <3>4. CallCount(c, k) \in 1 .. Len(under)
      BY <1>4, <1>5, <3>3
    <3>5. under2[CallCount(c, k)] = under[CallCount(c, k)]
      BY <1>7, <3>4
    <3>6. Len(under[CallCount(c, k)]) = Height(c, k)
      BY <1>5, <3>1, <3>2
    <3> QED
      BY <1>3, <3>5, <3>6
  <2> QED
    BY <2>1, <2>2
<1> QED
  <2>1. Len(d) = n + 1 /\ Len(d) - 1 = n
    BY <1>1, <1>2
  <2> QED
    BY <1>8, <1>9, <1>10, <2>1 DEF Balanced, d

\* The innermost construct left.
LEMMA GoOutFacts ==
  ASSUME NEW c \in Seq(Construct), Nested(c), c # <<>>
  PROVE  LET d == Pop(c) IN
         /\ d \in Seq(Construct) /\ Nested(d) /\ Len(d) = Len(c) - 1
         /\ \A k \in 1 .. Len(c) - 1 : d[k] = c[k]
         /\ Len(c) = 1 => d = <<>>
         /\ Len(c) # 1 => d # <<>> /\ Top(d) = c[Len(c) - 1] /\ Encloses(Top(d), Top(c))
<1> DEFINE d == Pop(c)
           n == Len(c)
<1>1. /\ n \in Nat \ {0} /\ n = Len(c) /\ d \in Seq(Construct) /\ Len(d) = n - 1
      /\ \A k \in 1 .. n - 1 : d[k] = c[k]
      /\ Top(c) = c[n]
  BY PopFacts DEF Top
<1> HIDE DEF d, n
<1>2. Nested(d)
  <2>1. d # <<>> => d[1].kind \in Frames
    <3>1. d # <<>> => 1 \in 1 .. n - 1
      BY <1>1
    <3> QED
      BY <1>1, <3>1 DEF Nested
  <2>2. \A k \in 1 .. Len(d) : Proper(d[k])
    BY <1>1 DEF Nested
  <2>3. \A k \in 1 .. Len(d) - 1 : Encloses(d[k], d[k + 1])
    <3> SUFFICES ASSUME NEW k \in 1 .. n - 1 - 1
                 PROVE  Encloses(d[k], d[k + 1])
      BY <1>1
    <3>1. k \in 1 .. n - 1 /\ k + 1 \in 1 .. n - 1
      BY <1>1
    <3>2. Encloses(c[k], c[k + 1])
      BY <1>1, <3>1 DEF Nested
    <3> QED
      BY <1>1, <3>1, <3>2
  <2> QED
    BY <2>1, <2>2, <2>3 DEF Nested
<1>3. n # 1 => n - 1 \in 1 .. n - 1 /\ n - 1 + 1 = n
  BY <1>1
<1>4. n # 1 => d # <<>> /\ Top(d) = c[n - 1] /\ Encloses(c[n - 1], c[n])
  BY <1>1, <1>3 DEF Top, Nested
<1>5. n = 1 => d = <<>>
  BY <1>1
<1> QED
  BY <1>1, <1>2, <1>4, <1>5 DEF d, n

\* Its scopes are balanced where the end of a call takes back the caller's, and
\* where any other construct pops its own, if control was in its body.
LEMMA GoOutBalanced ==
  ASSUME NEW c \in Seq(Construct), Nested(c), c # <<>>,
         NEW open \in Seq(Scope), NEW open2 \in Seq(Scope),
         NEW under \in Seq(Seq(Scope)), NEW under2 \in Seq(Seq(Scope)),
         Balanced(c, open, under),
         \/ Len(c) = 1
         \/ Top(c).kind = "fn" /\ open2 = Top(under) /\ under2 = Pop(under)
         \/ Top(c).kind # "fn" /\ Top(c).at = "body" /\ Len(open2) = Len(open) - 1 /\ under2 = under
         \/ Top(c).kind # "fn" /\ Top(c).at = "head" /\ Len(open2) = Len(open) /\ under2 = under
  PROVE  Balanced(Pop(c), open2, under2)
<1> DEFINE d == Pop(c)
           n == Len(c)
<1>1. /\ n \in Nat \ {0} /\ n = Len(c) /\ d \in Seq(Construct) /\ Nested(d) /\ Len(d) = n - 1
      /\ \A k \in 1 .. n - 1 : d[k] = c[k]
      /\ Top(c) = c[n] /\ c[n] \in Construct
  BY GoOutFacts DEF Top
<1> HIDE DEF d, n
<1>2. CASE n = 1
  <2>1. d = <<>>
    BY <1>1, <1>2
  <2> QED
    BY <2>1 DEF Balanced, d
<1>3. CASE n # 1
  <2> DEFINE m == n - 1
  <2>1. m \in Nat \ {0} /\ m + 1 = n /\ m \in 1 .. Len(c) /\ m < Len(c) /\ m = Len(d) /\ m \in 1 .. m
    <3>1. n \in Nat \ {0} /\ n # 1 /\ Len(c) = n /\ Len(d) = n - 1
      BY <1>1, <1>3
    <3> QED
      BY <3>1
  <2>2. \A k \in 1 .. m : d[k] = c[k]
    BY <1>1
  <2> HIDE DEF m
  <2>3. \A k \in 1 .. m : CallCount(d, k) = CallCount(c, k) /\ Height(d, k) = Height(c, k)
    <3> SUFFICES ASSUME NEW k \in 1 .. m
                 PROVE  CallCount(d, k) = CallCount(c, k) /\ Height(d, k) = Height(c, k)
      OBVIOUS
    <3>1. k \in 1 .. Len(c) /\ k <= Len(d) /\ \A j \in 1 .. k : j \in 1 .. m
      BY <1>1, <2>1
    <3>2. \A j \in 1 .. k : d[j].kind = c[j].kind /\ d[j].at = c[j].at
      BY <2>2, <3>1
    <3> QED
      BY <1>1, <3>1, <3>2, SameUpTo
  <2>4. /\ CallCount(c, n) = CallCount(c, m) + (IF c[n].kind = "fn" THEN 1 ELSE 0)
        /\ Height(c, n) = IF c[n].kind = "fn" THEN 1
                          ELSE Height(c, m) + (IF c[n].at = "body" THEN 1 ELSE 0)
        /\ CallCount(c, m) \in Nat /\ Height(c, m) \in Nat
    BY <2>1, HeightStep
  <2>5. /\ Len(open) = Height(c, n) /\ Len(under) = CallCount(c, n) - 1
        /\ \A k \in 1 .. n - 1 : c[k + 1].kind = "fn" => Len(under[CallCount(c, k)]) = Height(c, k)
    BY <1>1 DEF Balanced
  <2>6. m \in 1 .. n - 1
    BY <2>1
  <2>7. Len(open) \in Nat /\ Len(open2) \in Nat /\ Len(under) \in Nat
    OBVIOUS
  <2>8. CallCount(c, m) \in 1 .. CallCount(c, m)
    <3>1. m \in m .. Len(c)
      BY <2>1
    <3> QED
      BY <2>1, <3>1, CountRange
  <2>9. CASE c[n].kind = "fn"
    <3>1. Len(under) = CallCount(c, m) /\ under # <<>>
      BY <2>4, <2>5, <2>8, <2>9
    <3>2. open2 = Top(under) /\ under2 = Pop(under)
      BY <1>1, <1>3, <2>9
    <3>3. /\ Len(under2) = Len(under) - 1
          /\ \A j \in 1 .. Len(under) - 1 : under2[j] = under[j]
      BY <3>1, <3>2, PopFacts
    <3>4. Len(open2) = Height(c, m)
      BY <2>1, <2>5, <2>6, <2>9, <3>1, <3>2 DEF Top
    <3>5. ASSUME NEW k \in 1 .. m - 1, c[k + 1].kind = "fn"
          PROVE  Len(under2[CallCount(c, k)]) = Height(c, k)
      <4>1. k \in 1 .. Len(c) /\ m \in k .. Len(c) /\ k < m /\ k \in 1 .. n - 1
        BY <2>1
      <4>2. CallCount(c, k) \in 1 .. CallCount(c, m) /\ CallCount(c, k) < CallCount(c, m)
        BY <3>5, <4>1, CountRange
      <4>3. CallCount(c, k) \in 1 .. Len(under) - 1
        BY <2>4, <3>1, <4>2
      <4> QED
        BY <2>5, <3>3, <3>5, <4>1, <4>3
    <3>6. \A k \in 1 .. m - 1 : k \in 1 .. m /\ k + 1 \in 1 .. m
      BY <2>1
    <3>7. Len(open2) = Height(d, m) /\ Len(under2) = CallCount(d, m) - 1
      BY <2>1, <2>3, <3>1, <3>3, <3>4
    <3>8. \A k \in 1 .. m - 1 :
            d[k + 1].kind = "fn" => Len(under2[CallCount(d, k)]) = Height(d, k)
      BY <2>2, <2>3, <3>5, <3>6
    <3> QED
      BY <2>1, <3>7, <3>8 DEF Balanced, d
  <2>10. CASE c[n].kind # "fn"
    <3>1. under2 = under
      BY <1>1, <1>3, <2>10
    <3>2. Len(open2) = Height(c, m)
      <4>1. CASE c[n].at = "body"
        BY <1>1, <1>3, <2>4, <2>5, <2>7, <2>10, <4>1, SMTT(30)
      <4>2. CASE c[n].at # "body"
        BY <1>1, <1>3, <2>4, <2>5, <2>7, <2>10, <4>2
      <4> QED
        BY <4>1, <4>2
    <3>3. Len(under2) = CallCount(c, m) - 1
      BY <2>4, <2>5, <2>10, <3>1
    <3>4. \A k \in 1 .. m - 1 : k \in 1 .. m /\ k + 1 \in 1 .. m /\ k \in 1 .. n - 1
      BY <2>1
    <3>5. Len(open2) = Height(d, m) /\ Len(under2) = CallCount(d, m) - 1
      BY <2>1, <2>3, <3>2, <3>3
    <3>6. \A k \in 1 .. m - 1 :
            d[k + 1].kind = "fn" => Len(under2[CallCount(d, k)]) = Height(d, k)
      BY <2>2, <2>3, <2>5, <3>1, <3>4
    <3> QED
      BY <2>1, <3>5, <3>6 DEF Balanced, d
  <2> QED
    BY <2>9, <2>10
<1> QED
  BY <1>2, <1>3
----------------------------------------------------------------------------
\* What a program without a hazard may do stays what it was.

\* What may be awaited in the innermost construct.
MayUse(c, use) ==
  /\ use = "ret" => InFn(c, Len(c)) /\ ~InLoopExpr(c, Len(c))
  /\ use = "brk" => InLoop(c, Len(c))

\* The same, in the words of the model.
LEMMA AroundFacts ==
  /\ InFunction <=> InFn(stack, Len(stack))
  /\ OpenLoops(stack) # {} <=> InLoop(stack, Len(stack))
  /\ OpenLoopExprs(stack) = {} <=> ~InLoopExpr(stack, Len(stack))
<1>1. FrameOf(stack) = Bottom(stack, Len(stack))
  BY DEF FrameOf, Bottom
<1>2. OpenLoops(stack) # {} <=> InLoop(stack, Len(stack))
  BY <1>1 DEF OpenLoops, InLoop
<1>3. OpenLoopExprs(stack) = {} <=> ~InLoopExpr(stack, Len(stack))
  <2>1. LoopExprs \subseteq Loops
    BY DEF Loops
  <2> QED
    BY <1>1, <2>1 DEF OpenLoopExprs, OpenLoops, InLoopExpr
<1> QED
  BY <1>1, <1>2, <1>3 DEF InFunction, InFn

\* Changing the top: the functions and loops around are the same.
LEMMA ChangePermitted ==
  ASSUME NEW c \in Seq(Construct), Nested(c), c # <<>>,
         NEW q \in Construct, Proper(q), q.kind = Top(c).kind,
         Permitted(c), q.wait = Top(c).wait \/ MayUse(c, q.wait)
  PROVE  LET d == Changed(c, q) IN
         /\ Permitted(d)
         /\ InFn(d, Len(d)) <=> InFn(c, Len(c))
         /\ InLoop(d, Len(d)) <=> InLoop(c, Len(c))
         /\ InLoopExpr(d, Len(d)) <=> InLoopExpr(c, Len(c))
<1> DEFINE d == Changed(c, q)
           n == Len(c)
<1>1. /\ d \in Seq(Construct) /\ Nested(d) /\ d # <<>> /\ Len(d) = n /\ d[n] = q
      /\ \A k \in 1 .. n - 1 : d[k] = c[k]
  BY ChangeFacts DEF Top
<1>2. n \in Nat \ {0} /\ n = Len(c) /\ n \in 1 .. n /\ Top(c) = c[n]
  BY DEF Top
<1> HIDE DEF d, n
<1>3. ASSUME NEW k \in 1 .. n PROVE d[k].kind = c[k].kind
  <2>1. k = n \/ k \in 1 .. n - 1
    BY <1>2
  <2> QED
    BY <1>1, <1>2, <2>1
<1>4. ASSUME NEW k \in 1 .. n
      PROVE  /\ InFn(d, k) <=> InFn(c, k)
             /\ InLoop(d, k) <=> InLoop(c, k)
             /\ InLoopExpr(d, k) <=> InLoopExpr(c, k)
  <2>1. k \in 1 .. Len(c) /\ k <= Len(d) /\ \A j \in 1 .. k : j \in 1 .. n
    BY <1>1, <1>2
  <2> QED
    BY <1>1, <1>3, <2>1, SameAround
<1>5. ASSUME NEW k \in 1 .. n
      PROVE  MayJump(d, k)
  <2>1. MayJump(c, k)
    BY <1>2 DEF Permitted
  <2>2. CASE k = n
    BY <1>1, <1>2, <1>4, <2>1, <2>2 DEF MayJump, MayUse
  <2>3. CASE k # n
    <3>1. d[k] = c[k]
      BY <1>1, <1>2, <2>3
    <3> QED
      BY <1>4, <2>1, <3>1 DEF MayJump
  <2> QED
    BY <2>2, <2>3
<1> QED
  BY <1>1, <1>2, <1>4, <1>5 DEF Permitted, d, n

\* Opening a construct takes nothing from what is around the others.
LEMMA GoInPermitted ==
  ASSUME NEW c \in Seq(Construct), Nested(c), c # <<>>,
         NEW p \in Construct, Proper(p), Encloses(Top(c), p), p.wait = "none", Permitted(c)
  PROVE  Permitted(Append(c, p))
<1> DEFINE d == Append(c, p)
           n == Len(c)
<1>1. /\ d \in Seq(Construct) /\ Nested(d) /\ d # <<>> /\ Len(d) = n + 1 /\ d[n + 1] = p
      /\ \A k \in 1 .. n : d[k] = c[k]
  BY GoInFacts DEF Top
<1>2. n \in Nat \ {0} /\ n = Len(c)
  OBVIOUS
<1> HIDE DEF d, n
<1>3. ASSUME NEW k \in 1 .. n
      PROVE  MayJump(d, k)
  <2>1. k \in 1 .. Len(c) /\ k <= Len(d) /\ \A j \in 1 .. k : j \in 1 .. n
    BY <1>1, <1>2
  <2>2. \A j \in 1 .. k : d[j].kind = c[j].kind
    BY <1>1, <2>1
  <2>3. /\ InFn(d, k) <=> InFn(c, k)
        /\ InLoop(d, k) <=> InLoop(c, k)
        /\ InLoopExpr(d, k) <=> InLoopExpr(c, k)
    BY <1>1, <2>1, <2>2, SameAround
  <2>4. MayJump(c, k) /\ d[k] = c[k]
    BY <1>1, <1>2 DEF Permitted
  <2> QED
    BY <2>3, <2>4 DEF MayJump
<1>4. MayJump(d, n + 1)
  BY <1>1 DEF MayJump
<1>5. \A k \in 1 .. n + 1 : k = n + 1 \/ k \in 1 .. n
  BY <1>2
<1> QED
  BY <1>1, <1>3, <1>4, <1>5 DEF Permitted, d

\* So does leaving one, and only a loop left is a loop less around the others.
LEMMA GoOutPermitted ==
  ASSUME NEW c \in Seq(Construct), Nested(c), c # <<>>, Permitted(c)
  PROVE  LET d == Pop(c) IN
         /\ Permitted(d)
         /\ Len(c) # 1 /\ Top(c).kind \notin Frames =>
              /\ InFn(d, Len(d)) <=> InFn(c, Len(c))
              /\ InLoopExpr(d, Len(d)) => InLoopExpr(c, Len(c))
              /\ Top(c).kind \notin Loops => (InLoop(d, Len(d)) <=> InLoop(c, Len(c)))
<1> DEFINE d == Pop(c)
           n == Len(c)
<1>1. /\ n \in Nat \ {0} /\ n = Len(c) /\ d \in Seq(Construct) /\ Nested(d) /\ Len(d) = n - 1
      /\ \A k \in 1 .. n - 1 : d[k] = c[k]
      /\ Top(c) = c[n] /\ c[n] \in Construct
  BY GoOutFacts DEF Top
<1> HIDE DEF d, n
<1>2. ASSUME NEW k \in 1 .. n - 1
      PROVE  /\ InFn(d, k) <=> InFn(c, k)
             /\ InLoop(d, k) <=> InLoop(c, k)
             /\ InLoopExpr(d, k) <=> InLoopExpr(c, k)
             /\ MayJump(d, k)
  <2>1. k \in 1 .. Len(c) /\ k <= Len(d) /\ \A j \in 1 .. k : j \in 1 .. n - 1
    BY <1>1
  <2>2. \A j \in 1 .. k : d[j].kind = c[j].kind
    BY <1>1, <2>1
  <2>3. /\ InFn(d, k) <=> InFn(c, k)
        /\ InLoop(d, k) <=> InLoop(c, k)
        /\ InLoopExpr(d, k) <=> InLoopExpr(c, k)
    BY <1>1, <2>1, <2>2, SameAround
  <2>4. MayJump(c, k) /\ d[k] = c[k]
    BY <1>1, <2>1 DEF Permitted
  <2> QED
    BY <2>3, <2>4 DEF MayJump
<1>3. Permitted(d)
  BY <1>1, <1>2 DEF Permitted
<1>4. ASSUME n # 1, c[n].kind \notin Frames
      PROVE  /\ InFn(d, n - 1) <=> InFn(c, n)
             /\ InLoopExpr(d, n - 1) => InLoopExpr(c, n)
             /\ c[n].kind \notin Loops => (InLoop(d, n - 1) <=> InLoop(c, n))
  <2> DEFINE m == n - 1
  <2>1. /\ m \in Nat /\ m + 1 = n /\ m \in 1 .. Len(c) /\ m < Len(c) /\ m \in 1 .. n - 1
    BY <1>1, <1>4
  <2> HIDE DEF m
  <2>2. Bottom(c, n) = Bottom(c, m) /\ Bottom(c, m) \in 1 .. m
    <3>1. c[n].kind # "fn"
      BY <1>4 DEF Frames
    <3> QED
      BY <1>1, <2>1, <3>1, HeightStep, BottomFacts
  <2>3. \A j \in Int : j \in Bottom(c, n) + 1 .. n <=> j \in Bottom(c, m) + 1 .. m \/ j = n
    BY <2>1, <2>2
  <2>4. InFn(c, n) <=> InFn(c, m)
    BY <2>2 DEF InFn
  <2>5. InLoopExpr(c, m) => InLoopExpr(c, n)
    BY <2>3 DEF InLoopExpr
  <2>6. c[n].kind \notin Loops => (InLoop(c, m) <=> InLoop(c, n))
    BY <2>1, <2>3 DEF InLoop
  <2>7. m = n - 1
    BY DEF m
  <2> QED
    BY <1>2, <2>1, <2>4, <2>5, <2>6, <2>7
<1>5. /\ Permitted(d)
      /\ n # 1 /\ c[n].kind \notin Frames =>
           /\ InFn(d, Len(d)) <=> InFn(c, n)
           /\ InLoopExpr(d, Len(d)) => InLoopExpr(c, n)
           /\ c[n].kind \notin Loops => (InLoop(d, Len(d)) <=> InLoop(c, n))
  BY <1>1, <1>3, <1>4
<1> QED
  BY <1>1, <1>5 DEF d
----------------------------------------------------------------------------
\* The three changes of the nest, in the words of the model.

\* Waiting, going into a body and going on to the next turn change the top.
LEMMA ChangesOfTop ==
  ASSUME NEW c \in Seq(Construct), c # <<>>
  PROVE  /\ \A use \in Waits : Waiting(c, use) = Changed(c, [Top(c) EXCEPT !.wait = use])
         /\ InBody(c) = Changed(c, [Top(c) EXCEPT !.at = "body"])
         /\ NextTurn(c) =
              Changed(c, [Top(c) EXCEPT !.at = "head",
                           !.next = IF Top(c).kind \in Counted THEN Top(c).next + 1 ELSE Top(c).next])
<1>1. Len(c) \in Nat \ {0} /\ Len(c) \in DOMAIN c
  OBVIOUS
<1>2. c[Len(c)] \in Construct
  BY <1>1
<1>3. \A use \in Waits : Waiting(c, use) = Changed(c, [Top(c) EXCEPT !.wait = use])
  BY <1>1 DEF Waiting, Changed, Top
<1>4. InBody(c) = Changed(c, [Top(c) EXCEPT !.at = "body"])
  BY <1>1 DEF InBody, Changed, Top
<1>5. NextTurn(c) =
        Changed(c, [Top(c) EXCEPT !.at = "head",
                     !.next = IF Top(c).kind \in Counted THEN Top(c).next + 1 ELSE Top(c).next])
  BY <1>1, <1>2 DEF NextTurn, Changed, Top, Construct
<1> QED
  BY <1>3, <1>4, <1>5

\* What the top was changed to does not matter once it is gone.
LEMMA PopOfChanged ==
  ASSUME NEW c \in Seq(Construct), Nested(c), c # <<>>,
         NEW q \in Construct, Proper(q), q.kind = Top(c).kind
  PROVE  Pop(Changed(c, q)) = Pop(c)
<1> DEFINE d == Changed(c, q)
<1>1. /\ d \in Seq(Construct) /\ d # <<>> /\ Len(d) = Len(c) /\ Nested(d)
      /\ \A k \in 1 .. Len(c) - 1 : d[k] = c[k]
  BY ChangeFacts
<1> HIDE DEF d
<1>2. /\ Pop(d) \in Seq(Construct) /\ Len(Pop(d)) = Len(c) - 1
      /\ \A k \in 1 .. Len(c) - 1 : Pop(d)[k] = d[k]
  BY <1>1, PopFacts
<1>3. /\ Pop(c) \in Seq(Construct) /\ Len(Pop(c)) = Len(c) - 1
      /\ \A k \in 1 .. Len(c) - 1 : Pop(c)[k] = c[k]
  BY PopFacts
<1>4. \A k \in 1 .. Len(Pop(c)) : Pop(d)[k] = Pop(c)[k]
  BY <1>1, <1>2, <1>3
<1>5. Pop(d) = Pop(c)
  BY <1>2, <1>3, <1>4, SeqEqual
<1> QED
  BY <1>5 DEF d

\* What a step keeps when it changes the innermost construct...
LEMMA ChangeInv ==
  ASSUME FlowInv, stack # <<>>, NEW q \in Construct, Proper(q), q.kind = T.kind,
         stack' = Changed(stack, q), UNCHANGED <<saved, lifted>>, scopes' \in Seq(Scope),
         lifted = {} => q.wait = T.wait \/ MayUse(stack, q.wait),
         \/ q.at = T.at /\ Len(scopes') = Len(scopes)
         \/ q.at = "body" /\ T.at = "head" /\ Len(scopes') = Len(scopes) + 1
         \/ q.at = "head" /\ T.at = "body" /\ Len(scopes') = Len(scopes) - 1
  PROVE  /\ stack' \in Seq(Construct) /\ Len(stack') <= Depths[lifted] /\ stack' # <<>> /\ T' = q
         /\ Nested(stack') /\ Balanced(stack', scopes', saved')
         /\ lifted = {} =>
              /\ Permitted(stack')
              /\ InFn(stack', Len(stack')) <=> InFn(stack, Len(stack))
              /\ InLoop(stack', Len(stack')) <=> InLoop(stack, Len(stack))
              /\ InLoopExpr(stack', Len(stack')) <=> InLoopExpr(stack, Len(stack))
<1>1. /\ stack \in Seq(Construct) /\ Nested(stack) /\ Len(stack) <= Depths[lifted]
      /\ scopes \in Seq(Scope) /\ saved \in Seq(Seq(Scope)) /\ Balanced(stack, scopes, saved)
      /\ lifted = {} => Permitted(stack)
      /\ T = Top(stack) /\ T' = Top(stack')
  BY DEF FlowInv, Types, FlagInv, T
<1>2. /\ stack' \in Seq(Construct) /\ Nested(stack') /\ stack' # <<>>
      /\ Len(stack') = Len(stack) /\ Top(stack') = q
  BY <1>1, ChangeFacts
<1>3. Balanced(stack', scopes', saved)
  BY <1>1, ChangeBalanced
<1>4. lifted = {} =>
        /\ Permitted(stack')
        /\ InFn(stack', Len(stack')) <=> InFn(stack, Len(stack))
        /\ InLoop(stack', Len(stack')) <=> InLoop(stack, Len(stack))
        /\ InLoopExpr(stack', Len(stack')) <=> InLoopExpr(stack, Len(stack))
  BY <1>1, ChangePermitted
<1> QED
  BY <1>1, <1>2, <1>3, <1>4

\* ...when it leaves it...
LEMMA GoOutInv ==
  ASSUME FlowInv, stack # <<>>, stack' = Pop(stack), UNCHANGED lifted,
         scopes' \in Seq(Scope), saved' \in Seq(Seq(Scope)),
         \/ Len(stack) = 1
         \/ T.kind = "fn" /\ scopes' = Top(saved) /\ saved' = Pop(saved)
         \/ T.kind # "fn" /\ T.at = "body" /\ Len(scopes') = Len(scopes) - 1 /\ saved' = saved
         \/ T.kind # "fn" /\ T.at = "head" /\ Len(scopes') = Len(scopes) /\ saved' = saved
  PROVE  /\ stack' \in Seq(Construct) /\ Len(stack') <= Depths[lifted] /\ Nested(stack')
         /\ Len(stack) = 1 => stack' = <<>>
         /\ Len(stack) # 1 => stack' # <<>> /\ Encloses(T', T)
         /\ Balanced(stack', scopes', saved')
         /\ lifted = {} =>
              /\ Permitted(stack')
              /\ Len(stack) # 1 /\ T.kind \notin Frames =>
                   /\ InFn(stack', Len(stack')) <=> InFn(stack, Len(stack))
                   /\ InLoopExpr(stack', Len(stack')) => InLoopExpr(stack, Len(stack))
                   /\ T.kind \notin Loops =>
                        (InLoop(stack', Len(stack')) <=> InLoop(stack, Len(stack)))
<1>1. /\ stack \in Seq(Construct) /\ Nested(stack) /\ Len(stack) <= Depths[lifted]
      /\ scopes \in Seq(Scope) /\ saved \in Seq(Seq(Scope)) /\ Balanced(stack, scopes, saved)
      /\ lifted = {} => Permitted(stack)
      /\ T = Top(stack) /\ T' = Top(stack')
      /\ lifted \in DOMAIN Depths /\ Len(stack) \in Nat
  BY DEF FlowInv, Types, FlagInv, T
<1>2. Depths[lifted] \in Nat
  BY <1>1, DepthsAssumption, FlowAssumption
<1>3. /\ stack' \in Seq(Construct) /\ Nested(stack') /\ Len(stack') = Len(stack) - 1
      /\ Len(stack) = 1 => stack' = <<>>
      /\ Len(stack) # 1 => stack' # <<>> /\ Encloses(T', T)
  BY <1>1, GoOutFacts
<1>4. Balanced(stack', scopes', saved')
  BY <1>1, GoOutBalanced
<1>5. lifted = {} =>
        /\ Permitted(stack')
        /\ Len(stack) # 1 /\ T.kind \notin Frames =>
             /\ InFn(stack', Len(stack')) <=> InFn(stack, Len(stack))
             /\ InLoopExpr(stack', Len(stack')) => InLoopExpr(stack, Len(stack))
             /\ T.kind \notin Loops =>
                  (InLoop(stack', Len(stack')) <=> InLoop(stack, Len(stack)))
  BY <1>1, GoOutPermitted
<1> QED
  BY <1>1, <1>2, <1>3, <1>4, <1>5

\* ...and all of it when it opens one inside.
LEMMA EnterInv ==
  ASSUME FlowInv, NEW use \in Waits, NEW p \in Construct, Running,
         Proper(p), p.wait = "none",
         use \in {"drop", "ret", "brk"} => T.at = "body",
         use = "test" => T.at = "head" /\ T.kind \in Tested,
         p.kind # "top",
         p.kind \in StmtLoops \cup {"if"} => use = "none" /\ T.at = "body",
         p.kind \notin StmtLoops \cup {"if"} => use # "none",
         lifted = {} => MayUse(stack, use),
         Enter(p, use), UNCHANGED lifted, scopes' \in Seq(Scope), saved' \in Seq(Seq(Scope)),
         \/ p.kind = "fn" /\ Len(scopes') = 1 /\ saved' = Append(saved, scopes)
         \/ p.kind # "fn" /\ p.at = "body" /\ Len(scopes') = Len(scopes) + 1 /\ saved' = saved
         \/ p.kind # "fn" /\ p.at = "head" /\ Len(scopes') = Len(scopes) /\ saved' = saved
  PROVE  FlowInv'
<1> DEFINE q == [T EXCEPT !.wait = use]
           c == Changed(stack, q)
<1>1. /\ stack \in Seq(Construct) /\ Nested(stack) /\ Len(stack) < Depths[lifted] /\ stack # <<>>
      /\ scopes \in Seq(Scope) /\ saved \in Seq(Seq(Scope)) /\ Balanced(stack, scopes, saved)
      /\ lifted = {} => Permitted(stack)
      /\ T = Top(stack) /\ Len(stack) \in Nat \ {0} /\ ~after /\ acc = None
      /\ lifted \in DOMAIN Depths
      /\ lifted = {} => returned = None /\ ~should_break /\ ~should_continue /\ break_value = None
  BY DEF FlowInv, Types, FlagInv, T, Running, Enter, Quiet
<1>2. T \in Construct /\ Proper(T) /\ T.wait = "none"
  <2>1. T = stack[Len(stack)] /\ Len(stack) \in 1 .. Len(stack)
    BY <1>1 DEF Top
  <2>2. T.wait = "none"
    BY DEF Running
  <2> QED
    BY <1>1, <2>1, <2>2 DEF Nested
<1>3. /\ q \in Construct /\ q.kind = T.kind /\ q.at = T.at /\ q.wait = use
      /\ q.next = T.next /\ q.end = T.end
  BY <1>2 DEF Construct
<1> HIDE DEF q
<1>4. Proper(q)
  BY <1>2, <1>3 DEF Proper
<1>5. Encloses(q, p)
  BY <1>3 DEF Encloses
<1>6. stack' = Append(c, p)
  BY <1>1, ChangesOfTop DEF Enter, q
<1>7. c \in Seq(Construct) /\ Nested(c) /\ c # <<>> /\ Len(c) = Len(stack) /\ Top(c) = q
  BY <1>1, <1>3, <1>4, ChangeFacts
<1>8. Balanced(c, scopes, saved)
  BY <1>1, <1>3, <1>4, ChangeBalanced
<1>9. lifted = {} => Permitted(c)
  BY <1>1, <1>3, <1>4, ChangePermitted
<1> HIDE DEF c
<1>10. /\ stack' \in Seq(Construct) /\ Nested(stack') /\ stack' # <<>> /\ Len(stack') = Len(c) + 1
  BY <1>5, <1>6, <1>7, GoInFacts
<1>11. Balanced(stack', scopes', saved')
  BY <1>1, <1>5, <1>6, <1>7, <1>8, GoInBalanced
<1>12. lifted = {} => Permitted(stack')
  BY <1>5, <1>6, <1>7, <1>9, GoInPermitted
<1>13. Types'
  <2>1. Depths[lifted] \in Nat
    BY <1>1, DepthsAssumption, FlowAssumption
  <2>2. Len(stack') <= Depths[lifted']
    BY <1>1, <1>7, <1>10, <2>1
  <2> QED
    BY <1>10, <2>2 DEF Types, Enter, FlowInv, flags
<1>14. Control'
  BY <1>1 DEF Control, Enter
<1>15. FlagInv'
  BY <1>1, <1>12 DEF FlagInv, Jumps, Quiet, Enter, flags
<1> QED
  BY <1>10, <1>11, <1>13, <1>14, <1>15 DEF FlowInv
----------------------------------------------------------------------------
\* Constructs just entered, and what is known where a statement may start.

\* Constructs just entered are proper ones.
LEMMA PlaceFacts ==
  /\ \A k \in Frames \cup {"if"} :
       LET p == Place(k, 0, FALSE)
       IN p \in Construct /\ Proper(p) /\ p.wait = "none" /\ p.kind = k /\ p.at = "body"
  /\ \A p \in Headers("while", "for", MaxTurns) :
       p \in Construct /\ Proper(p) /\ p.wait = "none" /\ p.kind \in StmtLoops /\ p.at = "head"
  /\ \A p \in Headers("whileExpr", "forExpr", MaxTurns) :
       p \in Construct /\ Proper(p) /\ p.wait = "none" /\ p.kind \in LoopExprs /\ p.at = "head"
<1>1. MaxTurns \in Nat /\ 0 \in 0 .. MaxTurns
  BY FlowAssumption
<1>2. ASSUME NEW k \in Loops, NEW n \in 0 .. MaxTurns, NEW b \in BOOLEAN
      PROVE  LET p == Place(k, n, b)
             IN p \in Construct /\ Proper(p) /\ p.wait = "none" /\ p.kind = k /\ p.at = "head"
  <2>1. Place(k, n, b) =
          [kind |-> k, at |-> "head", wait |-> "none", next |-> 0, end |-> n, named |-> b]
    BY DEF Place
  <2> QED
    BY <1>1, <2>1 DEF Construct, Proper, Waits
<1>3. ASSUME NEW k \in Frames \cup {"if"}, NEW b \in BOOLEAN
      PROVE  LET p == Place(k, 0, b)
             IN p \in Construct /\ Proper(p) /\ p.wait = "none" /\ p.kind = k /\ p.at = "body"
  <2>1. k \notin Loops /\ k \notin Counted
    BY DEF Frames, Loops, StmtLoops, LoopExprs, Counted
  <2>2. Place(k, 0, b) =
          [kind |-> k, at |-> "body", wait |-> "none", next |-> 0, end |-> 0, named |-> b]
    BY <2>1 DEF Place
  <2>3. Place(k, 0, b) \in Construct
    BY <1>1, <2>2 DEF Construct, Waits
  <2>4. Proper(Place(k, 0, b))
    BY <2>1, <2>2 DEF Proper
  <2> QED
    BY <2>2, <2>3, <2>4
<1>4. /\ "while" \in Loops /\ "for" \in Loops /\ "whileExpr" \in Loops /\ "forExpr" \in Loops
      /\ "while" \in StmtLoops /\ "for" \in StmtLoops
      /\ "whileExpr" \in LoopExprs /\ "forExpr" \in LoopExprs
  BY DEF Loops, StmtLoops, LoopExprs
<1>5. ASSUME NEW p \in Headers("while", "for", MaxTurns)
      PROVE  p \in Construct /\ Proper(p) /\ p.wait = "none" /\ p.kind \in StmtLoops /\ p.at = "head"
  <2> DEFINE counted == {Place("for", n, b) : n \in 0 .. MaxTurns, b \in BOOLEAN}
  <2>1. Headers("while", "for", MaxTurns) = {Place("while", 0, FALSE)} \cup counted
    BY DEF Headers
  <2>2. \A c \in counted : \E n \in 0 .. MaxTurns, b \in BOOLEAN : c = Place("for", n, b)
    OBVIOUS
  <2> HIDE DEF counted
  <2>3. CASE p = Place("while", 0, FALSE)
    BY <1>1, <1>2, <1>4, <2>3
  <2>4. CASE p \in counted
    <3>1. PICK n \in 0 .. MaxTurns, b \in BOOLEAN : p = Place("for", n, b)
      BY <2>2, <2>4
    <3> QED
      BY <1>2, <1>4, <3>1
  <2>5. p = Place("while", 0, FALSE) \/ p \in counted
    BY <2>1
  <2> QED
    BY <2>3, <2>4, <2>5
<1>6. ASSUME NEW p \in Headers("whileExpr", "forExpr", MaxTurns)
      PROVE  p \in Construct /\ Proper(p) /\ p.wait = "none" /\ p.kind \in LoopExprs /\ p.at = "head"
  <2> DEFINE counted == {Place("forExpr", n, b) : n \in 0 .. MaxTurns, b \in BOOLEAN}
  <2>1. Headers("whileExpr", "forExpr", MaxTurns) = {Place("whileExpr", 0, FALSE)} \cup counted
    BY DEF Headers
  <2>2. \A c \in counted : \E n \in 0 .. MaxTurns, b \in BOOLEAN : c = Place("forExpr", n, b)
    OBVIOUS
  <2> HIDE DEF counted
  <2>3. CASE p = Place("whileExpr", 0, FALSE)
    BY <1>1, <1>2, <1>4, <2>3
  <2>4. CASE p \in counted
    <3>1. PICK n \in 0 .. MaxTurns, b \in BOOLEAN : p = Place("forExpr", n, b)
      BY <2>2, <2>4
    <3> QED
      BY <1>2, <1>4, <3>1
  <2>5. p = Place("whileExpr", 0, FALSE) \/ p \in counted
    BY <2>1
  <2> QED
    BY <2>3, <2>4, <2>5
<1> QED
  BY <1>3, <1>5, <1>6

\* What is known of the innermost construct.
LEMMA HereFacts ==
  ASSUME FlowInv, stack # <<>>
  PROVE  /\ stack \in Seq(Construct) /\ Nested(stack) /\ Len(stack) \in Nat \ {0}
         /\ T \in Construct /\ Proper(T) /\ T = Top(stack) /\ T = stack[Len(stack)]
         /\ scopes \in Seq(Scope) /\ saved \in Seq(Seq(Scope)) /\ Balanced(stack, scopes, saved)
         /\ Len(stack) = 1 => T.kind \in Frames
<1>1. /\ stack \in Seq(Construct) /\ Nested(stack)
      /\ scopes \in Seq(Scope) /\ saved \in Seq(Seq(Scope)) /\ Balanced(stack, scopes, saved)
  BY DEF FlowInv, Types
<1>2. Len(stack) \in Nat \ {0} /\ Len(stack) \in 1 .. Len(stack) /\ T = stack[Len(stack)]
  BY <1>1 DEF T, Top
<1>3. Len(stack) = 1 => T.kind \in Frames
  BY <1>1, <1>2 DEF Nested
<1> QED
  BY <1>1, <1>2, <1>3 DEF Nested, T

\* No flag is set.
Still == returned = None /\ ~should_break /\ ~should_continue /\ break_value = None

\* While statements run, no flag is set.
LEMMA StillFacts ==
  ASSUME FlowInv, ~after, lifted = {}
  PROVE  Still
BY DEF FlowInv, FlagInv, Quiet, Still

\* With no flag set afterwards, nothing is asked of the flags.
LEMMA StillKept ==
  ASSUME lifted' = {} => Still' /\ Permitted(stack')
  PROVE  FlagInv'
BY DEF FlagInv, Jumps, Quiet, Still

\* The scopes of a call that binds the name.
LEMMA FoundFacts ==
  ASSUME FlowInv, stack # <<>>
  PROVE  /\ Found # {} => Max(Found) \in 1 .. Len(scopes)
         /\ Value \in Scope
<1>1. scopes \in Seq(Scope) /\ globals \in Scope
  BY DEF FlowInv, Types
<1>2. Len(scopes) \in Nat /\ Found \in SUBSET (1 .. Len(scopes))
  BY <1>1 DEF Found
<1>3. Found # {} => Max(Found) \in 1 .. Len(scopes)
  BY <1>2, MaxFacts
<1>4. Value \in Scope
  BY <1>1, <1>3 DEF Value
<1> QED
  BY <1>3, <1>4

----------------------------------------------------------------------------
\* One lemma for each operation.

\* Every start has the invariant.
LEMMA InitInv == Init => FlowInv
<1> SUFFICES ASSUME Init PROVE FlowInv
  OBVIOUS
<1>1. PICK kind \in Frames :
        /\ stack = <<Place(kind, 0, FALSE)>>
        /\ scopes = IF kind = "fn" THEN <<None>> ELSE <<>>
  BY DEF Init
<1> DEFINE p == Place(kind, 0, FALSE)
<1>2. p \in Construct /\ Proper(p) /\ p.wait = "none" /\ p.kind = kind /\ p.at = "body"
  BY PlaceFacts
<1> HIDE DEF p
<1>3. /\ stack = <<p>> /\ stack \in Seq(Construct) /\ Len(stack) = 1 /\ stack[1] = p /\ stack # <<>>
  <2>1. stack = <<p>>
    BY <1>1 DEF p
  <2> QED
    BY <1>2, <2>1
<1>4. Nested(stack)
  BY <1>2, <1>3 DEF Nested
<1>5. CallCount(stack, 1) = 1 /\ Height(stack, 1) = IF kind = "fn" THEN 1 ELSE 0
  BY <1>2, <1>3, <1>4, HeightBase
<1>6. None \in Scope
  BY DEF Scope
<1>7. scopes \in Seq(Scope) /\ Len(scopes) = IF kind = "fn" THEN 1 ELSE 0
  BY <1>1, <1>6
<1>8. saved = <<>> /\ saved \in Seq(Seq(Scope)) /\ Len(saved) = 0
  BY DEF Init
<1>9. Balanced(stack, scopes, saved)
  BY <1>3, <1>5, <1>7, <1>8 DEF Balanced
<1>10. Len(stack) <= Depths[lifted]
  BY <1>3, DepthsAssumption, FlowAssumption DEF Init
<1>11. Types
  BY <1>3, <1>6, <1>7, <1>8, <1>10 DEF Types, Init
<1>12. Control
  BY DEF Init, Control
<1>13. Permitted(stack)
  BY <1>2, <1>3 DEF Permitted, MayJump
<1>14. FlagInv
  BY <1>13 DEF FlagInv, Jumps, Quiet, Init
<1> QED
  BY <1>4, <1>9, <1>11, <1>12, <1>14 DEF FlowInv

\* The stack stays: only what the name is bound to, or the flags, change.
LEMMA StayInv ==
  ASSUME FlowInv, stack # <<>>, UNCHANGED <<stack, saved, lifted>>,
         scopes' \in Seq(Scope), Len(scopes') = Len(scopes)
  PROVE  /\ Nested(stack') /\ Balanced(stack', scopes', saved')
         /\ lifted = {} => Permitted(stack')
         /\ stack' \in Seq(Construct) /\ Len(stack') <= Depths[lifted'] /\ lifted' \in DOMAIN Depths
         /\ saved' \in Seq(Seq(Scope)) /\ T' = T
<1>1. /\ stack \in Seq(Construct) /\ Len(stack) <= Depths[lifted] /\ lifted \in DOMAIN Depths
      /\ saved \in Seq(Seq(Scope)) /\ Nested(stack)
      /\ lifted = {} => Permitted(stack)
  BY DEF FlowInv, Types, FlagInv
<1>2. Balanced(stack, scopes', saved)
  BY DEF FlowInv, Balanced
<1>3. T' = T
  BY DEF T
<1> QED
  BY <1>1, <1>2, <1>3

\* let and assignment: the binding changes, the number of scopes does not.
LEMMA LetInv ==
  ASSUME FlowInv, NEW v \in Val, Let(v) \/ Assign(v), UNCHANGED lifted
  PROVE  FlowInv'
<1>1. Ready /\ stack # <<>> /\ ~after /\ acc = None
  BY DEF Let, Assign, Ready, Running
<1>2. v \in Scope /\ scopes \in Seq(Scope) /\ Len(scopes) \in Nat
  BY FlowAssumption DEF FlowInv, Types, Scope
<1>3. \/ UNCHANGED scopes /\ globals' = v
      \/ UNCHANGED globals /\ \E i \in 1 .. Len(scopes) : scopes' = [scopes EXCEPT ![i] = v]
  <2>1. CASE Let(v)
    <3>1. scopes # <<>> => Len(scopes) \in 1 .. Len(scopes)
      BY <1>2
    <3> QED
      BY <2>1, <3>1 DEF Let, Declare
  <2>2. CASE Assign(v)
    BY <1>1, <2>2, FoundFacts DEF Assign
  <2> QED
    BY <2>1, <2>2
<1>4. /\ scopes' \in Seq(Scope) /\ Len(scopes') = Len(scopes)
      /\ globals' = globals \/ globals' = v
  BY <1>2, <1>3, ReplaceFacts
<1>5. UNCHANGED <<stack, after, saved, flags, acc>>
  BY DEF Let, Assign
<1>6. /\ Nested(stack') /\ Balanced(stack', scopes', saved')
      /\ lifted = {} => Permitted(stack')
      /\ stack' \in Seq(Construct) /\ Len(stack') <= Depths[lifted'] /\ lifted' \in DOMAIN Depths
      /\ saved' \in Seq(Seq(Scope)) /\ T' = T
  BY <1>1, <1>4, <1>5, StayInv
<1>7. Types'
  BY <1>2, <1>4, <1>5, <1>6 DEF Types, flags, FlowInv
<1>8. Control'
  BY <1>1, <1>5 DEF Control
<1>9. FlagInv'
  BY <1>1, <1>5, <1>6, StillFacts, StillKept DEF flags, Still
<1> QED
  BY <1>6, <1>7, <1>8, <1>9 DEF FlowInv
\* The operations that set a flag, and what it stands for.
LEMMA FlagSet ==
  ASSUME FlowInv, Ready, NEW v \in Scope, UNCHANGED <<stack, scopes, saved, globals, acc, lifted>>,
         after' = TRUE,
         \/ /\ returned' = v /\ UNCHANGED <<should_break, should_continue, break_value>>
            /\ lifted = {} => InFunction /\ OpenLoopExprs(stack) = {}
         \/ /\ should_break' = TRUE /\ UNCHANGED <<returned, should_continue>>
            /\ break_value' = IF v = None THEN break_value ELSE v
            /\ lifted = {} => OpenLoops(stack) # {}
         \/ /\ should_continue' = TRUE /\ UNCHANGED <<returned, should_break, break_value>>
            /\ lifted = {} => OpenLoops(stack) # {}
  PROVE  FlowInv'
<1>1. /\ stack # <<>> /\ ~after /\ acc = None /\ T.at = "body" /\ T.wait = "none"
      /\ scopes \in Seq(Scope)
  BY DEF Ready, Running, FlowInv, Types
<1>2. /\ Nested(stack') /\ Balanced(stack', scopes', saved')
      /\ lifted = {} => Permitted(stack')
      /\ stack' \in Seq(Construct) /\ Len(stack') <= Depths[lifted'] /\ lifted' \in DOMAIN Depths
      /\ saved' \in Seq(Seq(Scope)) /\ T' = T
  BY <1>1, StayInv
<1>3. Types'
  BY <1>2 DEF Types, FlowInv
<1>4. Control'
  BY <1>1, <1>2 DEF Control
<1>5. FlagInv'
  <2> SUFFICES ASSUME lifted = {}
               PROVE  Jumps(stack, Len(stack))'
    BY <1>1, <1>2 DEF FlagInv
  <2>1. Still
    BY <1>1, StillFacts
  <2> QED
    BY <2>1, AroundFacts DEF Jumps, Still
<1> QED
  BY <1>2, <1>3, <1>4, <1>5 DEF FlowInv

\* break, continue and return.
LEMMA JumpInv ==
  ASSUME FlowInv, UNCHANGED lifted,
         Continue \/ \E v \in Val \cup {None} : Break(v) \/ Return(v)
  PROVE  FlowInv'
<1>1. CASE Continue
  <2>1. None \in Scope
    BY DEF Scope
  <2>2. Ready /\ after' = TRUE /\ UNCHANGED <<stack, scopes, saved, globals, acc, lifted>>
    BY <1>1 DEF Continue
  <2>3. /\ should_continue' = TRUE /\ UNCHANGED <<returned, should_break, break_value>>
        /\ lifted = {} => OpenLoops(stack) # {}
    BY <1>1 DEF Continue, Lift
  <2> QED
    BY <2>1, <2>2, <2>3, FlagSet
<1>2. ASSUME NEW v \in Val \cup {None}, Break(v)
      PROVE  FlowInv'
  <2>1. v \in Scope
    BY FlowAssumption DEF Scope
  <2>2. Ready /\ after' = TRUE /\ UNCHANGED <<stack, scopes, saved, globals, acc, lifted>>
    BY <1>2 DEF Break
  <2>3. /\ should_break' = TRUE /\ UNCHANGED <<returned, should_continue>>
        /\ break_value' = IF v = None THEN break_value ELSE v
        /\ lifted = {} => OpenLoops(stack) # {}
    BY <1>2 DEF Break, SetBreak, Lift
  <2> QED
    BY <2>1, <2>2, <2>3, FlagSet
<1>3. ASSUME NEW v \in Val \cup {None}, Return(v)
      PROVE  FlowInv'
  <2> DEFINE w == IF v = None THEN 0 ELSE v
  <2>1. w \in Scope
    BY FlowAssumption DEF Scope
  <2>2. Ready /\ after' = TRUE /\ UNCHANGED <<stack, scopes, saved, globals, acc, lifted>>
    BY <1>3 DEF Return
  <2>3. /\ returned' = w /\ UNCHANGED <<should_break, should_continue, break_value>>
        /\ lifted = {} => InFunction /\ OpenLoopExprs(stack) = {}
    BY <1>3 DEF Return, SetReturn, Lift
  <2> HIDE DEF w
  <2> QED
    BY <2>1, <2>2, <2>3, FlagSet
<1> QED
  BY <1>1, <1>2, <1>3

\* A branch pushes the scope of its body.
LEMMA IfInv ==
  ASSUME FlowInv, If, UNCHANGED lifted
  PROVE  FlowInv'
<1> DEFINE p == Place("if", 0, FALSE)
<1>1. p \in Construct /\ Proper(p) /\ p.wait = "none" /\ p.kind = "if" /\ p.at = "body"
  BY PlaceFacts
<1>2. Running /\ T.at = "body" /\ Enter(p, "none") /\ scopes' = Append(scopes, None) /\ saved' = saved
  BY DEF If, Ready
<1> HIDE DEF p
<1>3. scopes \in Seq(Scope) /\ saved \in Seq(Seq(Scope)) /\ None \in Scope
  BY DEF FlowInv, Types, Scope
<1>4. scopes' \in Seq(Scope) /\ saved' \in Seq(Seq(Scope)) /\ Len(scopes') = Len(scopes) + 1
  BY <1>2, <1>3
<1>5. "none" \in Waits /\ MayUse(stack, "none")
  BY DEF Waits, MayUse
<1> QED
  BY <1>1, <1>2, <1>4, <1>5, EnterInv

\* A loop starts at its head, with no scope.
LEMMA LoopInv ==
  ASSUME FlowInv, NEW p \in Headers("while", "for", MaxTurns), Loop(p), UNCHANGED lifted
  PROVE  FlowInv'
<1>1. p \in Construct /\ Proper(p) /\ p.wait = "none" /\ p.kind \in StmtLoops /\ p.at = "head"
  BY PlaceFacts
<1>2. p.kind # "fn" /\ p.kind # "top" /\ "none" \in Waits /\ MayUse(stack, "none")
  BY <1>1 DEF StmtLoops, Waits, MayUse
<1>3. Running /\ T.at = "body" /\ Enter(p, "none") /\ UNCHANGED <<scopes, saved>>
  BY DEF Loop, Ready
<1>4. scopes' \in Seq(Scope) /\ saved' \in Seq(Seq(Scope)) /\ Len(scopes') = Len(scopes)
  BY <1>3 DEF FlowInv, Types
<1> QED
  BY <1>1, <1>2, <1>3, <1>4, EnterInv

\* What may be waited for at this point.
LEMMA WaitFacts ==
  ASSUME FlowInv, NEW use \in Uses, MayWait(use)
  PROVE  /\ Running /\ use \in Waits /\ use # "none"
         /\ use \in {"drop", "ret", "brk"} => T.at = "body"
         /\ use = "test" => T.at = "head" /\ T.kind \in Tested
         /\ lifted = {} => MayUse(stack, use)
<1>1. lifted = {} => MayUse(stack, use)
  BY AroundFacts DEF MayWait, Lift, MayUse
<1>2. /\ Running /\ use \in Waits /\ use # "none"
      /\ use \in {"drop", "ret", "brk"} => T.at = "body"
      /\ use = "test" => T.at = "head" /\ T.kind \in Tested
  BY DEF MayWait, Uses
<1> QED
  BY <1>1, <1>2

\* A call puts the scopes aside and starts with one.
LEMMA CallInv ==
  ASSUME FlowInv, NEW use \in Uses, Call(use), UNCHANGED lifted
  PROVE  FlowInv'
<1> DEFINE p == Place("fn", 0, FALSE)
<1>1. p \in Construct /\ Proper(p) /\ p.wait = "none" /\ p.kind = "fn" /\ p.at = "body"
  BY PlaceFacts DEF Frames
<1>2. MayWait(use) /\ Enter(p, use) /\ scopes' = <<None>> /\ saved' = Append(saved, scopes)
  BY DEF Call
<1> HIDE DEF p
<1>3. "fn" \notin StmtLoops
  BY DEF StmtLoops
<1>4. scopes \in Seq(Scope) /\ saved \in Seq(Seq(Scope)) /\ None \in Scope
  BY DEF FlowInv, Types, Scope
<1>5. scopes' \in Seq(Scope) /\ saved' \in Seq(Seq(Scope)) /\ Len(scopes') = 1
  BY <1>2, <1>4
<1> QED
  BY <1>1, <1>2, <1>3, <1>5, WaitFacts, EnterInv

\* A loop used for its value starts like any other.
LEMMA LoopExprInv ==
  ASSUME FlowInv, NEW use \in Uses, NEW p \in Headers("whileExpr", "forExpr", MaxTurns),
         LoopExpr(p, use), UNCHANGED lifted
  PROVE  FlowInv'
<1>1. p \in Construct /\ Proper(p) /\ p.wait = "none" /\ p.kind \in LoopExprs /\ p.at = "head"
  BY PlaceFacts
<1>2. p.kind # "fn" /\ p.kind # "top" /\ p.kind \notin StmtLoops \cup {"if"}
  BY <1>1 DEF LoopExprs, StmtLoops
<1>3. MayWait(use) /\ Enter(p, use) /\ UNCHANGED <<scopes, saved>>
  BY DEF LoopExpr
<1>4. scopes' \in Seq(Scope) /\ saved' \in Seq(Seq(Scope)) /\ Len(scopes') = Len(scopes)
  BY <1>3 DEF FlowInv, Types
<1> QED
  BY <1>1, <1>2, <1>3, <1>4, WaitFacts, EnterInv

\* The value of the name is there for the statement that awaits it.
LEMMA ReadInv ==
  ASSUME FlowInv, NEW use \in Uses, Read(use), UNCHANGED lifted
  PROVE  FlowInv'
<1> DEFINE q == [T EXCEPT !.wait = use]
<1>1. /\ MayWait(use) /\ stack' = Waiting(stack, use) /\ acc' = Value
      /\ UNCHANGED <<after, scopes, saved, globals, flags>>
  BY DEF Read
<1>2. /\ Running /\ use \in Waits /\ use # "none"
      /\ use \in {"drop", "ret", "brk"} => T.at = "body"
      /\ use = "test" => T.at = "head" /\ T.kind \in Tested
      /\ lifted = {} => MayUse(stack, use)
  BY <1>1, WaitFacts
<1>3. stack # <<>> /\ ~after /\ acc = None
  BY <1>2 DEF Running
<1>4. /\ stack \in Seq(Construct) /\ T \in Construct /\ Proper(T) /\ T = Top(stack)
      /\ scopes \in Seq(Scope) /\ saved \in Seq(Seq(Scope)) /\ Value \in Scope
  BY <1>3, HereFacts, FoundFacts
<1>5. q \in Construct /\ q.kind = T.kind /\ q.at = T.at /\ q.wait = use /\ q.next = T.next /\ q.end = T.end
  BY <1>2, <1>4 DEF Construct
<1>6. stack' = Changed(stack, q)
  BY <1>1, <1>2, <1>3, <1>4, ChangesOfTop
<1> HIDE DEF q
<1>7. Proper(q)
  BY <1>2, <1>4, <1>5 DEF Proper
<1>8. /\ stack' \in Seq(Construct) /\ Len(stack') <= Depths[lifted] /\ stack' # <<>> /\ T' = q
      /\ Nested(stack') /\ Balanced(stack', scopes', saved')
      /\ lifted = {} => Permitted(stack')
  BY <1>1, <1>2, <1>3, <1>4, <1>5, <1>6, <1>7, ChangeInv
<1>9. Types'
  BY <1>1, <1>4, <1>8 DEF Types, FlowInv, flags
<1>10. Control'
  BY <1>1, <1>2, <1>3, <1>5, <1>8 DEF Control
<1>11. FlagInv'
  BY <1>1, <1>3, <1>8, StillFacts, StillKept DEF flags, Still
<1> QED
  BY <1>8, <1>9, <1>10, <1>11 DEF FlowInv

\* Control goes into the body of the loop it is at the head of; the stack c says
\* that nothing is waited for any more.
LEMMA EnterBodyInv ==
  ASSUME FlowInv, stack # <<>>, ~after, MayTurn(T), T.wait \in {"none", "test"},
         EnterBody(Changed(stack, [T EXCEPT !.wait = "none"])),
         after' = FALSE, acc' = None, UNCHANGED <<saved, globals, flags, lifted>>
  PROVE  FlowInv'
<1> DEFINE r == [T EXCEPT !.wait = "none"]
           q == [T EXCEPT !.wait = "none", !.at = "body"]
           v == IF T.named THEN T.next ELSE None
<1>1. /\ stack \in Seq(Construct) /\ Nested(stack) /\ T \in Construct /\ Proper(T) /\ T = Top(stack)
      /\ scopes \in Seq(Scope) /\ saved \in Seq(Seq(Scope))
  BY HereFacts
<1>2. T.at = "head" /\ T.kind \in Loops /\ (T.kind \in Counted => T.next < T.end)
  BY <1>1 DEF MayTurn, Proper
<1>3. /\ q \in Construct /\ q.kind = T.kind /\ q.at = "body" /\ q.wait = "none"
      /\ q.next = T.next /\ q.end = T.end
      /\ r \in Construct /\ r.kind = T.kind /\ r.at = "head" /\ r.wait = "none"
      /\ [r EXCEPT !.at = "body"] = q
  BY <1>1, <1>2 DEF Construct, Waits
<1>4. v \in Scope
  <2>1. T.next \in Nat
    BY <1>1, FlowAssumption DEF Construct
  <2> QED
    BY <2>1 DEF Scope
<1>5. scopes' = Append(scopes, v) /\ stack' = InBody(Changed(stack, r))
  BY DEF EnterBody
<1> HIDE DEF r, q, v
<1>6. Proper(q) /\ Proper(r)
  BY <1>2, <1>3 DEF Proper
<1>7. /\ Changed(stack, r) \in Seq(Construct) /\ Changed(stack, r) # <<>>
      /\ Len(Changed(stack, r)) = Len(stack) /\ Top(Changed(stack, r)) = r
  BY <1>1, <1>3, <1>6, ChangeFacts
<1>8. stack' = Changed(stack, q)
  <2>1. stack' = Changed(Changed(stack, r), q)
    BY <1>3, <1>5, <1>7, ChangesOfTop
  <2>2. Len(stack) \in 1 .. Len(stack)
    BY <1>1
  <2> QED
    BY <1>1, <1>7, <2>1, <2>2 DEF Changed
<1>9. scopes' \in Seq(Scope) /\ Len(scopes') = Len(scopes) + 1
  BY <1>1, <1>4, <1>5
<1>10. MayUse(stack, "none")
  BY DEF MayUse
<1>11. /\ stack' \in Seq(Construct) /\ Len(stack') <= Depths[lifted] /\ stack' # <<>> /\ T' = q
       /\ Nested(stack') /\ Balanced(stack', scopes', saved')
       /\ lifted = {} => Permitted(stack')
  BY <1>1, <1>2, <1>3, <1>6, <1>8, <1>9, <1>10, ChangeInv
<1>12. Types'
  BY <1>1, <1>9, <1>11 DEF Types, FlowInv, flags, Scope
<1>13. Control'
  BY DEF Control
<1>14. FlagInv'
  BY <1>11, StillFacts, StillKept DEF flags, Still
<1> QED
  BY <1>11, <1>12, <1>13, <1>14 DEF FlowInv

\* A turn of a loop whose test is a literal, or of a counted one.
LEMMA TurnInv ==
  ASSUME FlowInv, Turn, UNCHANGED lifted
  PROVE  FlowInv'
<1>1. /\ stack # <<>> /\ ~after /\ acc = None /\ T.wait = "none" /\ MayTurn(T)
      /\ EnterBody(stack) /\ UNCHANGED <<after, saved, globals, flags, acc>>
  BY DEF Turn, Running
<1>2. stack \in Seq(Construct) /\ T \in Construct /\ T = Top(stack) /\ Len(stack) \in Nat \ {0} /\ after \in BOOLEAN
  BY <1>1, HereFacts DEF FlowInv, Types
<1>3. [T EXCEPT !.wait = "none"] = T
  BY <1>1, <1>2 DEF Construct
<1>4. Changed(stack, T) = stack
  BY <1>2 DEF Changed, Top
<1> QED
  BY <1>1, <1>2, <1>3, <1>4, EnterBodyInv
\* A body has its scope.
LEMMA ScopeOpen ==
  ASSUME FlowInv, stack # <<>>, T.at = "body", T.kind # "top"
  PROVE  /\ scopes # <<>> /\ Pop(scopes) \in Seq(Scope) /\ Len(Pop(scopes)) = Len(scopes) - 1
<1>1. /\ stack \in Seq(Construct) /\ Nested(stack) /\ Len(stack) \in Nat \ {0} /\ T = stack[Len(stack)]
      /\ scopes \in Seq(Scope) /\ Len(scopes) = Height(stack, Len(stack))
  BY HereFacts DEF Balanced
<1> DEFINE n == Len(stack)
<1>2. n \in 1 .. Len(stack) /\ n \in Nat
  BY <1>1
<1>3. Bottom(stack, n) \in 1 .. n
  BY <1>1, <1>2, BottomFacts
<1>4. n \in Bodies(stack, n) /\ Bodies(stack, n) \in SUBSET (1 .. n)
  BY <1>1, <1>2, <1>3 DEF Bodies
<1>5. IsFiniteSet(Bodies(stack, n))
  BY <1>2, <1>4, PositionsFinite
<1>6. Height(stack, n) # 0
  BY <1>4, <1>5, FS_EmptySet DEF Height
<1>7. scopes # <<>>
  BY <1>1, <1>6
<1> QED
  BY <1>1, <1>7, PopFacts

\* The value awaited is there.
LEMMA AwaitedFacts ==
  ASSUME FlowInv, acc # None
  PROVE  stack # <<>> /\ T.wait # "none" /\ ~after /\ acc \in Scope
BY DEF FlowInv, Types, Control

\* A statement takes its value; return and break set their flag with it, and what
\* is around has not changed since they began to wait.
LEMMA TakeStatementInv ==
  ASSUME FlowInv, TakeStatement, UNCHANGED lifted
  PROVE  FlowInv'
<1> DEFINE q == [T EXCEPT !.wait = "none"]
<1>1. /\ acc # None /\ T.wait \in {"drop", "ret", "brk"} /\ stack' = Waiting(stack, "none")
      /\ acc' = None /\ after' = TRUE /\ UNCHANGED <<scopes, saved, globals>>
  BY DEF TakeStatement
<1>2. stack # <<>> /\ ~after /\ acc \in Scope
  BY <1>1, AwaitedFacts
<1>3. /\ stack \in Seq(Construct) /\ Nested(stack) /\ Len(stack) \in Nat \ {0}
      /\ T \in Construct /\ Proper(T) /\ T = Top(stack) /\ T = stack[Len(stack)]
      /\ scopes \in Seq(Scope) /\ saved \in Seq(Seq(Scope))
  BY <1>2, HereFacts
<1>4. "none" \in Waits
  BY DEF Waits
<1>5. q \in Construct /\ q.kind = T.kind /\ q.at = T.at /\ q.wait = "none" /\ q.next = T.next /\ q.end = T.end
  BY <1>3, <1>4 DEF Construct
<1>6. stack' = Changed(stack, q)
  BY <1>1, <1>2, <1>3, <1>4, ChangesOfTop
<1>7. T.at = "body"
  BY <1>1, <1>3 DEF Proper
<1> HIDE DEF q
<1>8. Proper(q) /\ MayUse(stack, "none")
  BY <1>3, <1>5 DEF Proper, MayUse
<1>9. /\ stack' \in Seq(Construct) /\ Len(stack') <= Depths[lifted] /\ stack' # <<>> /\ T' = q
      /\ Nested(stack') /\ Balanced(stack', scopes', saved')
      /\ lifted = {} =>
           /\ Permitted(stack')
           /\ InFn(stack', Len(stack')) <=> InFn(stack, Len(stack))
           /\ InLoop(stack', Len(stack')) <=> InLoop(stack, Len(stack))
           /\ InLoopExpr(stack', Len(stack')) <=> InLoopExpr(stack, Len(stack))
  BY <1>1, <1>2, <1>3, <1>5, <1>6, <1>8, ChangeInv
<1>10. \/ T.wait = "ret" /\ returned' = acc /\ UNCHANGED <<should_break, should_continue, break_value>>
       \/ /\ T.wait = "brk" /\ should_break' = TRUE /\ break_value' = acc
          /\ UNCHANGED <<returned, should_continue>>
       \/ T.wait = "drop" /\ UNCHANGED flags
  BY <1>1 DEF TakeStatement, SetReturn, SetBreak
<1>11. Types'
  BY <1>1, <1>2, <1>3, <1>9, <1>10 DEF Types, FlowInv, flags, Scope
<1>12. Control'
  BY <1>1, <1>5, <1>7, <1>9 DEF Control
<1>13. FlagInv'
  <2> SUFFICES ASSUME lifted = {}
               PROVE  Jumps(stack, Len(stack))'
    BY <1>1, <1>9 DEF FlagInv
  <2>1. Still
    BY <1>2, StillFacts
  <2>2. MayJump(stack, Len(stack))
    BY <1>3 DEF FlowInv, FlagInv, Permitted
  <2> QED
    BY <1>3, <1>9, <1>10, <2>1, <2>2 DEF Jumps, Still, MayJump, flags
<1> QED
  BY <1>9, <1>11, <1>12, <1>13 DEF FlowInv

\* A loop is left with no flag set.
LEMMA LoopOverInv ==
  ASSUME FlowInv, stack # <<>>, T.kind \in Loops, NEW v \in Scope,
         NEW c, Pop(c) = Pop(stack), Top(c).kind = T.kind, LoopOver(c, v),
         \/ T.at = "head" /\ scopes' = scopes
         \/ T.at = "body" /\ scopes' = Pop(scopes),
         UNCHANGED <<saved, globals, lifted>>,
         returned' \in Scope, break_value' \in Scope, should_break' \in BOOLEAN,
         should_continue' \in BOOLEAN, lifted = {} => Still'
  PROVE  FlowInv'
<1>1. /\ stack \in Seq(Construct) /\ T \in Construct /\ Len(stack) \in Nat \ {0}
      /\ scopes \in Seq(Scope) /\ saved \in Seq(Seq(Scope))
      /\ Len(stack) = 1 => T.kind \in Frames
  BY HereFacts
<1>2. T.kind \notin Frames /\ T.kind # "fn" /\ T.kind # "top" /\ T.kind # "if"
  BY DEF Frames, Loops, StmtLoops, LoopExprs
<1>3. Len(stack) # 1
  BY <1>1, <1>2
<1>4. \/ T.at = "head" /\ scopes' \in Seq(Scope) /\ Len(scopes') = Len(scopes)
      \/ T.at = "body" /\ scopes' \in Seq(Scope) /\ Len(scopes') = Len(scopes) - 1
  BY <1>1, <1>2, ScopeOpen
<1>5. stack' = Pop(stack)
  BY DEF LoopOver
<1>6. /\ stack' \in Seq(Construct) /\ Len(stack') <= Depths[lifted] /\ Nested(stack')
      /\ stack' # <<>> /\ Encloses(T', T) /\ Balanced(stack', scopes', saved')
      /\ lifted = {} => Permitted(stack')
  BY <1>1, <1>2, <1>3, <1>4, <1>5, GoOutInv
<1>7. IF T.kind \in LoopExprs THEN acc' = v /\ after' = FALSE ELSE acc' = None /\ after' = TRUE
  BY DEF LoopOver
<1>8. acc' \in Scope /\ after' \in BOOLEAN
  BY <1>7 DEF Scope
<1>9. Types'
  BY <1>1, <1>4, <1>6, <1>8 DEF Types, FlowInv
<1>10. Control'
  <2>1. T.kind \in LoopExprs => T.kind \notin StmtLoops
    BY DEF LoopExprs, StmtLoops
  <2>2. T.kind \in LoopExprs => T'.wait # "none"
    BY <1>2, <1>6, <2>1 DEF Encloses
  <2>3. T.kind \notin LoopExprs => T'.at = "body" /\ T'.wait = "none"
    BY <1>6 DEF Encloses, Loops
  <2> QED
    BY <1>6, <1>7, <2>2, <2>3 DEF Control
<1>11. FlagInv'
  BY <1>6, StillKept
<1> QED
  BY <1>6, <1>9, <1>10, <1>11 DEF FlowInv

\* A loop ends at its head.
LEMMA EndLoopInv ==
  ASSUME FlowInv, EndLoop, UNCHANGED lifted
  PROVE  FlowInv'
<1>1. /\ stack # <<>> /\ ~after /\ MayEnd(T) /\ LoopOver(stack, 0)
      /\ UNCHANGED <<scopes, saved, globals, flags>>
  BY DEF EndLoop, Running
<1>2. T.at = "head" /\ T.kind \in Loops /\ T = Top(stack) /\ 0 \in Scope
  BY <1>1, HereFacts DEF MayEnd, Proper, Scope
<1>3. /\ returned' \in Scope /\ break_value' \in Scope /\ should_break' \in BOOLEAN
      /\ should_continue' \in BOOLEAN
  BY <1>1 DEF flags, FlowInv, Types
<1>4. lifted = {} => Still'
  BY <1>1, StillFacts DEF Still, flags
<1> QED
  BY <1>1, <1>2, <1>3, <1>4, LoopOverInv

\* A loop takes the value of its test and goes round again or ends.
LEMMA TakeTestInv ==
  ASSUME FlowInv, TakeTest, UNCHANGED lifted
  PROVE  FlowInv'
<1> DEFINE q == [T EXCEPT !.wait = "none"]
           c == Waiting(stack, "none")
<1>1. acc # None /\ T.wait = "test" /\ UNCHANGED <<saved, globals, flags>>
  BY DEF TakeTest
<1>2. stack # <<>> /\ ~after /\ acc \in Scope /\ after \in BOOLEAN
  BY <1>1, AwaitedFacts DEF FlowInv, Types
<1>3. /\ stack \in Seq(Construct) /\ Nested(stack) /\ T \in Construct /\ Proper(T) /\ T = Top(stack)
  BY <1>2, HereFacts
<1>4. T.at = "head" /\ T.kind \in Tested /\ T.kind \in Loops /\ T.kind \notin Counted
  BY <1>1, <1>3 DEF Proper, Tested, Counted
<1>5. "none" \in Waits
  BY DEF Waits
<1>6. q \in Construct /\ q.kind = T.kind /\ q.at = T.at /\ q.wait = "none" /\ q.next = T.next /\ q.end = T.end
  BY <1>3, <1>5 DEF Construct
<1>7. c = Changed(stack, q)
  BY <1>2, <1>3, <1>5, ChangesOfTop
<1>8. \/ EnterBody(c) /\ acc' = None /\ UNCHANGED after
      \/ LoopOver(c, 0) /\ UNCHANGED scopes
  BY DEF TakeTest
<1>9. CASE EnterBody(c) /\ acc' = None /\ UNCHANGED after
  <2>1. MayTurn(T)
    BY <1>4 DEF MayTurn
  <2> QED
    BY <1>1, <1>2, <1>7, <1>9, <2>1, EnterBodyInv
<1>10. CASE LoopOver(c, 0) /\ UNCHANGED scopes
  <2> HIDE DEF q
  <2>1. Proper(q)
    BY <1>3, <1>4, <1>6 DEF Proper
  <2>2. Pop(c) = Pop(stack) /\ Top(c).kind = T.kind
    BY <1>2, <1>3, <1>6, <1>7, <2>1, PopOfChanged, ChangeFacts
  <2>3. /\ returned' \in Scope /\ break_value' \in Scope /\ should_break' \in BOOLEAN
        /\ should_continue' \in BOOLEAN /\ 0 \in Scope
    BY <1>1 DEF flags, FlowInv, Types, Scope
  <2>4. lifted = {} => Still'
    BY <1>1, <1>2, StillFacts DEF Still, flags
  <2> HIDE DEF c
  <2> QED
    BY <1>1, <1>2, <1>4, <1>10, <2>2, <2>3, <2>4, LoopOverInv
<1> QED
  BY <1>8, <1>9, <1>10

\* A call is left with no flag set.
LEMMA CallOverInv ==
  ASSUME FlowInv, stack # <<>>, T.kind \in Frames, NEW v \in Scope, CallOver(v),
         UNCHANGED <<globals, lifted>>,
         returned' \in Scope, break_value' \in Scope, should_break' \in BOOLEAN,
         should_continue' \in BOOLEAN, lifted = {} => Still'
  PROVE  FlowInv'
<1>1. /\ stack \in Seq(Construct) /\ Nested(stack) /\ T \in Construct /\ Len(stack) \in Nat \ {0}
      /\ scopes \in Seq(Scope) /\ saved \in Seq(Seq(Scope)) /\ Balanced(stack, scopes, saved)
      /\ T = stack[Len(stack)]
  BY HereFacts
<1>2. stack' = Pop(stack) /\ after' = FALSE
  BY DEF CallOver
<1>3. CASE Len(stack) = 1
  <2>1. scopes' = <<>> /\ acc' = None /\ UNCHANGED saved
    BY <1>3 DEF CallOver
  <2>2. scopes' \in Seq(Scope) /\ saved' \in Seq(Seq(Scope))
    BY <1>1, <2>1
  <2>3. /\ stack' \in Seq(Construct) /\ Len(stack') <= Depths[lifted] /\ Nested(stack')
        /\ Balanced(stack', scopes', saved')
        /\ lifted = {} => Permitted(stack')
    BY <1>2, <1>3, <2>2, GoOutInv
  <2>4. Types'
    BY <1>2, <2>1, <2>2, <2>3 DEF Types, FlowInv, Scope
  <2>5. Control'
    BY <1>2, <2>1 DEF Control
  <2>6. FlagInv'
    BY <2>3, StillKept
  <2> QED
    BY <2>3, <2>4, <2>5, <2>6 DEF FlowInv
<1>4. CASE Len(stack) # 1
  <2>1. scopes' = Top(saved) /\ saved' = Pop(saved) /\ acc' = v
    BY <1>4 DEF CallOver
  <2> DEFINE n == Len(stack)
             m == n - 1
  <2>2. m \in 1 .. Len(stack) - 1 /\ m \in 1 .. Len(stack) /\ m < Len(stack) /\ m + 1 = Len(stack)
    <3>1. n \in Nat \ {0} /\ n # 1
      BY <1>1, <1>4
    <3> HIDE DEF n
    <3>2. m \in 1 .. n - 1 /\ m \in 1 .. n /\ m < n /\ m + 1 = n
      BY <3>1
    <3> QED
      BY <3>2 DEF n
  <2> HIDE DEF m, n
  <2>3. T.kind = "fn"
    <3>1. Encloses(stack[m], stack[m + 1])
      BY <1>1, <2>2 DEF Nested
    <3> QED
      BY <1>1, <2>2, <3>1 DEF Encloses, Frames
  <2>4. saved # <<>>
    <3>1. /\ CallCount(stack, m) \in 1 .. CallCount(stack, m)
          /\ CallCount(stack, Len(stack)) = CallCount(stack, m) + 1 /\ CallCount(stack, m) \in Nat
      <4>1. m \in m .. Len(stack)
        BY <2>2
      <4> QED
        BY <1>1, <2>2, <2>3, <4>1, HeightStep, CountRange
    <3>2. Len(saved) = CallCount(stack, Len(stack)) - 1
      BY DEF FlowInv, Balanced
    <3> QED
      BY <3>1, <3>2
  <2>5. scopes' \in Seq(Scope) /\ saved' \in Seq(Seq(Scope))
    BY <1>1, <2>1, <2>4, PopFacts
  <2>6. /\ stack' \in Seq(Construct) /\ Len(stack') <= Depths[lifted] /\ Nested(stack')
        /\ stack' # <<>> /\ Encloses(T', T) /\ Balanced(stack', scopes', saved')
        /\ lifted = {} => Permitted(stack')
    BY <1>2, <1>4, <2>1, <2>3, <2>5, GoOutInv
  <2>7. Types'
    BY <1>2, <2>1, <2>5, <2>6 DEF Types, FlowInv
  <2>8. Control'
    <3>1. T'.wait # "none"
      BY <2>3, <2>6 DEF Encloses, StmtLoops
    <3> QED
      BY <1>2, <2>6, <3>1 DEF Control
  <2>9. FlagInv'
    BY <2>6, StillKept
  <2> QED
    BY <2>6, <2>7, <2>8, <2>9 DEF FlowInv
<1> QED
  BY <1>3, <1>4
\* A function runs to its end.
LEMMA FallOffInv ==
  ASSUME FlowInv, FallOff, UNCHANGED lifted
  PROVE  FlowInv'
<1>1. /\ stack # <<>> /\ ~after /\ T.kind \in Frames /\ CallOver(0) /\ UNCHANGED <<globals, flags>>
  BY DEF FallOff, Ready, Running
<1>2. /\ returned' \in Scope /\ break_value' \in Scope /\ should_break' \in BOOLEAN
      /\ should_continue' \in BOOLEAN /\ 0 \in Scope
  BY <1>1 DEF flags, FlowInv, Types, Scope
<1>3. lifted = {} => Still'
  BY <1>1, StillFacts DEF Still, flags
<1> QED
  BY <1>1, <1>2, <1>3, CallOverInv

\* A branch is left: whatever flag is set stays set.
LEMMA BranchOverInv ==
  ASSUME FlowInv, stack # <<>>, T.kind = "if", T.at = "body", T.wait = "none", acc = None,
         stack' = Pop(stack), PopScope, after' = TRUE, UNCHANGED <<saved, globals, flags, acc, lifted>>
  PROVE  FlowInv'
<1>1. T.kind \notin Frames /\ T.kind # "fn" /\ T.kind # "top" /\ T.kind \notin Loops
  BY DEF Frames, Loops, StmtLoops, LoopExprs
<1>2. Len(stack) # 1
  <2>1. Len(stack) = 1 => T.kind \in Frames
    BY HereFacts
  <2> QED
    BY <1>1, <2>1
<1>3. scopes' \in Seq(Scope) /\ Len(scopes') = Len(scopes) - 1 /\ saved' \in Seq(Seq(Scope))
  <2>1. saved \in Seq(Seq(Scope))
    BY HereFacts
  <2> QED
    BY <1>1, <2>1, ScopeOpen DEF PopScope
<1>4. /\ stack' \in Seq(Construct) /\ Len(stack') <= Depths[lifted] /\ Nested(stack')
      /\ stack' # <<>> /\ Encloses(T', T) /\ Balanced(stack', scopes', saved')
      /\ lifted = {} =>
           /\ Permitted(stack')
           /\ InFn(stack', Len(stack')) <=> InFn(stack, Len(stack))
           /\ InLoopExpr(stack', Len(stack')) => InLoopExpr(stack, Len(stack))
           /\ InLoop(stack', Len(stack')) <=> InLoop(stack, Len(stack))
  BY <1>1, <1>2, <1>3, GoOutInv
<1>5. Types'
  BY <1>3, <1>4 DEF Types, FlowInv, flags
<1>6. Control'
  <2>1. T'.wait = "none" /\ T'.at = "body"
    BY <1>4 DEF Encloses
  <2> QED
    BY <1>4, <2>1 DEF Control
<1>7. FlagInv'
  BY <1>4 DEF FlowInv, FlagInv, Jumps, flags
<1> QED
  BY <1>4, <1>5, <1>6, <1>7 DEF FlowInv

\* Where a statement has just come back.
LEMMA AfterFacts ==
  ASSUME FlowInv, after
  PROVE  stack # <<>> /\ T.at = "body" /\ T.wait = "none" /\ acc = None
BY DEF FlowInv, Control

\* A branch runs to its end.
LEMMA EndIfInv ==
  ASSUME FlowInv, EndIf, UNCHANGED lifted
  PROVE  FlowInv'
BY BranchOverInv DEF EndIf, Ready, Running

\* The next statement of the same body.
LEMMA GoOnInv ==
  ASSUME FlowInv, after, GoOn, UNCHANGED lifted, lifted = {} => Quiet
  PROVE  FlowInv'
<1>1. /\ stack # <<>> /\ T.wait = "none" /\ acc = None /\ after' = FALSE
      /\ UNCHANGED <<stack, scopes, saved, globals, flags, acc>> /\ scopes \in Seq(Scope)
  BY AfterFacts DEF GoOn, FlowInv, Types
<1>2. /\ Nested(stack') /\ Balanced(stack', scopes', saved')
      /\ lifted = {} => Permitted(stack')
      /\ stack' \in Seq(Construct) /\ Len(stack') <= Depths[lifted'] /\ lifted' \in DOMAIN Depths
      /\ saved' \in Seq(Seq(Scope)) /\ T' = T
  BY <1>1, StayInv
<1>3. Types'
  BY <1>1, <1>2 DEF Types, FlowInv, flags
<1>4. Control'
  BY <1>1 DEF Control
<1>5. lifted = {} => Still
  BY <1>1 DEF FlowInv, FlagInv, Jumps, Still, Quiet
<1>6. FlagInv'
  BY <1>1, <1>2, <1>5, StillKept DEF Still, flags
<1> QED
  BY <1>2, <1>3, <1>4, <1>6 DEF FlowInv

\* A branch, after a statement: with a flag set it is left.
LEMMA AfterInIfInv ==
  ASSUME FlowInv, AfterInIf, UNCHANGED lifted
  PROVE  FlowInv'
<1>1. stack # <<>> /\ T.at = "body" /\ T.wait = "none" /\ acc = None /\ after /\ T.kind = "if"
  BY AfterFacts DEF AfterInIf
<1>2. CASE Quiet
  BY <1>1, <1>2, GoOnInv DEF AfterInIf
<1>3. CASE ~Quiet
  <2>1. stack' = Pop(stack) /\ PopScope /\ UNCHANGED <<after, saved, globals, flags, acc>>
    BY <1>3 DEF AfterInIf
  <2>2. after' = TRUE
    BY <1>1, <2>1 DEF FlowInv, Types
  <2> QED
    BY <1>1, <2>1, <2>2, BranchOverInv
<1> QED
  BY <1>2, <1>3

\* In a function body no loop is around; at top level there is no function either.
LEMMA FrameFlags ==
  ASSUME FlowInv, stack # <<>>, T.kind \in Frames, lifted = {}
  PROVE  /\ ~should_break /\ ~should_continue /\ break_value = None
         /\ T.kind = "top" => returned = None
<1>1. /\ stack \in Seq(Construct) /\ Nested(stack) /\ T = stack[Len(stack)]
  BY HereFacts
<1>2. Len(stack) \in Nat \ {0} /\ Len(stack) \in 1 .. Len(stack)
  BY HereFacts
<1> DEFINE n == Len(stack)
<1>3. Bottom(stack, n) = n
  <2>1. Bottom(stack, n) \in 1 .. n /\ n <= Bottom(stack, n)
    BY <1>1, <1>2, BottomFacts
  <2> QED
    BY <1>2, <2>1
<1> HIDE DEF n
<1>4. n + 1 .. n = {}
  BY <1>2 DEF n
<1>5. ~InLoop(stack, n) /\ (InFn(stack, n) <=> T.kind = "fn")
  BY <1>1, <1>3, <1>4 DEF InLoop, InFn, n
<1>6. Jumps(stack, n)
  BY DEF FlowInv, FlagInv, n
<1> QED
  BY <1>5, <1>6 DEF Jumps

\* A function, after a statement: a return is its value.
LEMMA AfterInCallInv ==
  ASSUME FlowInv, AfterInCall, UNCHANGED lifted
  PROVE  FlowInv'
<1>1. after /\ stack # <<>> /\ T.kind = "fn" /\ T.kind \in Frames
  BY DEF AfterInCall, Frames
<1>2. CASE returned = None
  <2>1. lifted = {} => Quiet
    BY <1>1, <1>2, FrameFlags DEF Quiet
  <2> QED
    BY <1>1, <1>2, <2>1, GoOnInv DEF AfterInCall
<1>3. CASE returned # None
  <2>1. /\ CallOver(returned) /\ returned' = None
        /\ UNCHANGED <<globals, should_break, should_continue, break_value>>
    BY <1>3 DEF AfterInCall
  <2>2. /\ returned \in Scope /\ returned' \in Scope /\ break_value' \in Scope
        /\ should_break' \in BOOLEAN /\ should_continue' \in BOOLEAN
    BY <2>1 DEF FlowInv, Types, Scope
  <2>3. lifted = {} => Still'
    BY <1>1, <2>1, FrameFlags DEF Still
  <2> QED
    BY <1>1, <2>1, <2>2, <2>3, CallOverInv
<1> QED
  BY <1>2, <1>3

\* The top level, after a statement.
LEMMA AfterAtTopInv ==
  ASSUME FlowInv, AfterAtTop, UNCHANGED lifted
  PROVE  FlowInv'
<1>1. after /\ stack # <<>> /\ T.kind = "top" /\ T.kind \in Frames /\ GoOn
  BY DEF AfterAtTop, Frames
<1>2. lifted = {} => Quiet
  BY <1>1, FrameFlags DEF Quiet
<1> QED
  BY <1>1, <1>2, GoOnInv

\* The next turn of a loop, with no flag set.
LEMMA NextTurnInv ==
  ASSUME FlowInv, stack # <<>>, T.kind \in Loops, T.at = "body", T.wait = "none", acc = None,
         stack' = NextTurn(stack), PopScope, after' = FALSE,
         UNCHANGED <<saved, globals, acc, lifted>>,
         returned' \in Scope, break_value' \in Scope, should_break' \in BOOLEAN,
         should_continue' \in BOOLEAN, lifted = {} => Still'
  PROVE  FlowInv'
<1> DEFINE next == IF T.kind \in Counted THEN T.next + 1 ELSE T.next
           q == [T EXCEPT !.at = "head", !.next = next]
<1>1. /\ stack \in Seq(Construct) /\ T \in Construct /\ Proper(T) /\ T = Top(stack)
      /\ scopes \in Seq(Scope) /\ saved \in Seq(Seq(Scope))
  BY HereFacts
<1>2. T.kind # "top"
  BY DEF Loops, StmtLoops, LoopExprs
<1>3. next \in 0 .. MaxTurns
  <2>1. T.next \in 0 .. MaxTurns /\ T.end \in 0 .. MaxTurns /\ MaxTurns \in Nat
    BY <1>1, FlowAssumption DEF Construct
  <2>2. T.kind \in Counted => T.next < T.end
    BY <1>1 DEF Proper
  <2>3. CASE T.kind \in Counted
    BY <2>1, <2>2, <2>3
  <2>4. CASE T.kind \notin Counted
    BY <2>1, <2>4
  <2> QED
    BY <2>3, <2>4
<1>4. stack' = Changed(stack, q)
  BY <1>1, ChangesOfTop
<1> HIDE DEF next
<1>5. q \in Construct /\ q.kind = T.kind /\ q.at = "head" /\ q.wait = "none"
  BY <1>1, <1>3 DEF Construct
<1> HIDE DEF q
<1>6. Proper(q)
  BY <1>5 DEF Proper
<1>7. scopes' \in Seq(Scope) /\ Len(scopes') = Len(scopes) - 1
  BY <1>2, ScopeOpen DEF PopScope
<1>8. /\ stack' \in Seq(Construct) /\ Len(stack') <= Depths[lifted] /\ stack' # <<>> /\ T' = q
      /\ Nested(stack') /\ Balanced(stack', scopes', saved')
      /\ lifted = {} => Permitted(stack')
  BY <1>4, <1>5, <1>6, <1>7, ChangeInv
<1>9. Types'
  BY <1>1, <1>7, <1>8 DEF Types, FlowInv
<1>10. Control'
  BY DEF Control
<1>11. FlagInv'
  BY <1>8, StillKept
<1> QED
  BY <1>8, <1>9, <1>10, <1>11 DEF FlowInv
\* A continue makes the next turn.
LEMMA ContinueInLoopInv ==
  ASSUME FlowInv, stack # <<>>, T.kind \in Loops, T.at = "body", T.wait = "none", acc = None,
         ContinueInLoop, UNCHANGED lifted
  PROVE  FlowInv'
<1>1. /\ should_continue /\ should_continue' = FALSE /\ ~should_break
      /\ stack' = NextTurn(stack) /\ PopScope /\ after' = FALSE
      /\ UNCHANGED <<saved, globals, returned, should_break, break_value, acc>>
  BY DEF ContinueInLoop
<1>2. /\ returned' \in Scope /\ break_value' \in Scope /\ should_break' \in BOOLEAN
      /\ should_continue' \in BOOLEAN
  BY <1>1 DEF FlowInv, Types
<1>3. lifted = {} => Still'
  BY <1>1 DEF FlowInv, FlagInv, Jumps, Still
<1> QED
  BY <1>1, <1>2, <1>3, NextTurnInv

\* A break ends the loop.
LEMMA BreakOfLoopInv ==
  ASSUME FlowInv, stack # <<>>, T.kind \in Loops, T.at = "body",
         BreakOfLoop \/ BreakOfLoopExpr, UNCHANGED lifted
  PROVE  FlowInv'
<1> DEFINE v == IF break_value = None THEN 0 ELSE break_value
<1>1. /\ should_break /\ should_break' = FALSE /\ break_value' = None /\ PopScope
      /\ UNCHANGED <<saved, globals, returned>>
      /\ LoopOver(stack, 0) \/ LoopOver(stack, v)
      /\ \/ should_continue' = (should_continue /\ ~after)
         \/ should_continue' = should_continue
  BY DEF BreakOfLoop, BreakOfLoopExpr
<1>2. should_continue' \in BOOLEAN /\ (should_continue' => should_continue)
  <2>1. CASE should_continue' = (should_continue /\ ~after)
    BY <2>1
  <2>2. CASE should_continue' = should_continue
    BY <2>2 DEF FlowInv, Types
  <2> QED
    BY <1>1, <2>1, <2>2
<1>3. /\ returned' \in Scope /\ break_value' \in Scope /\ should_break' \in BOOLEAN
      /\ v \in Scope /\ 0 \in Scope /\ T = Top(stack)
  BY <1>1 DEF FlowInv, Types, Scope, T
<1>4. lifted = {} => Still'
  BY <1>1, <1>2 DEF FlowInv, FlagInv, Jumps, Still
<1> HIDE DEF v
<1>5. PICK w \in Scope : LoopOver(stack, w)
  BY <1>1, <1>3
<1> QED
  BY <1>1, <1>2, <1>3, <1>4, <1>5, LoopOverInv DEF PopScope

\* A statement loop, after a statement: a return leaves it with the flag still set.
LEMMA AfterInLoopInv ==
  ASSUME FlowInv, AfterInLoop, UNCHANGED lifted
  PROVE  FlowInv'
<1>1. /\ after /\ stack # <<>> /\ T.kind \in StmtLoops /\ T.kind \in Loops
      /\ T.at = "body" /\ T.wait = "none" /\ acc = None
  BY AfterFacts DEF AfterInLoop, Loops
<1>2. CASE ReturnThroughLoop
  <2>1. /\ returned # None /\ stack' = Pop(stack) /\ PopScope
        /\ UNCHANGED <<after, saved, globals, flags, acc>>
    BY <1>2 DEF ReturnThroughLoop
  <2>2. T.kind \notin Frames /\ T.kind # "fn" /\ T.kind # "top"
    BY <1>1 DEF Frames, StmtLoops
  <2>3. Len(stack) # 1
    <3>1. Len(stack) = 1 => T.kind \in Frames
      BY <1>1, HereFacts
    <3> QED
      BY <2>2, <3>1
  <2>4. scopes' \in Seq(Scope) /\ Len(scopes') = Len(scopes) - 1 /\ saved' \in Seq(Seq(Scope))
    <3>1. saved \in Seq(Seq(Scope))
      BY <1>1, HereFacts
    <3> QED
      BY <1>1, <2>1, <2>2, <3>1, ScopeOpen DEF PopScope
  <2>5. /\ stack' \in Seq(Construct) /\ Len(stack') <= Depths[lifted] /\ Nested(stack')
        /\ stack' # <<>> /\ Encloses(T', T) /\ Balanced(stack', scopes', saved')
        /\ lifted = {} =>
             /\ Permitted(stack')
             /\ InFn(stack', Len(stack')) <=> InFn(stack, Len(stack))
             /\ InLoopExpr(stack', Len(stack')) => InLoopExpr(stack, Len(stack))
    BY <1>1, <2>1, <2>2, <2>3, <2>4, GoOutInv
  <2>6. Types'
    BY <2>1, <2>4, <2>5 DEF Types, FlowInv, flags
  <2>7. Control'
    <3>1. T'.wait = "none" /\ T'.at = "body"
      BY <1>1, <2>5 DEF Encloses
    <3> QED
      BY <1>1, <2>1, <2>5, <3>1 DEF Control
  <2>8. FlagInv'
    BY <1>1, <2>1, <2>5 DEF FlowInv, FlagInv, Jumps, flags
  <2> QED
    BY <2>5, <2>6, <2>7, <2>8 DEF FlowInv
<1>3. CASE ContinueInLoop
  BY <1>1, <1>3, ContinueInLoopInv
<1>4. CASE BreakOfLoop
  BY <1>1, <1>4, BreakOfLoopInv
<1>5. CASE Quiet /\ GoOn
  BY <1>1, <1>5, GoOnInv
<1> QED
  BY <1>2, <1>3, <1>4, <1>5 DEF AfterInLoop

\* A loop used for its value, after a statement.
LEMMA AfterInLoopExprInv ==
  ASSUME FlowInv, AfterInLoopExpr, UNCHANGED lifted
  PROVE  FlowInv'
<1>1. /\ after /\ stack # <<>> /\ T.kind \in LoopExprs /\ T.kind \in Loops
      /\ T.at = "body" /\ T.wait = "none" /\ acc = None
  BY AfterFacts DEF AfterInLoopExpr, Loops
<1>2. CASE BreakOfLoopExpr
  BY <1>1, <1>2, BreakOfLoopInv
<1>3. CASE ContinueInLoop
  BY <1>1, <1>3, ContinueInLoopInv
<1>4. CASE ~should_break /\ ~should_continue /\ ReturnIntoLoopExpr
  <2>1. /\ returned' = None /\ LoopOver(stack, returned) /\ PopScope
        /\ UNCHANGED <<saved, globals, should_break, should_continue, break_value>>
    BY <1>4 DEF ReturnIntoLoopExpr
  <2>2. /\ returned' \in Scope /\ break_value' \in Scope /\ should_break' \in BOOLEAN
        /\ should_continue' \in BOOLEAN /\ returned \in Scope /\ T = Top(stack)
    BY <2>1 DEF FlowInv, Types, Scope, T
  <2>3. lifted = {} => Still'
    BY <1>1, <1>4, <2>1 DEF FlowInv, FlagInv, Jumps, Still
  <2> QED
    BY <1>1, <2>1, <2>2, <2>3, LoopOverInv DEF PopScope
<1>5. CASE Quiet /\ GoOn
  BY <1>1, <1>5, GoOnInv
<1> QED
  BY <1>2, <1>3, <1>4, <1>5 DEF AfterInLoopExpr

\* The body of a loop has run to its end.
LEMMA EndTurnInv ==
  ASSUME FlowInv, EndTurn, UNCHANGED lifted
  PROVE  FlowInv'
<1>1. stack # <<>> /\ ~after /\ acc = None /\ T.at = "body" /\ T.wait = "none"
  BY DEF EndTurn, Ready, Running
<1>2. StmtLoops \subseteq Loops /\ "whileExpr" \in Loops
  BY DEF Loops, LoopExprs
<1>3. lifted = {} => Still
  BY <1>1, StillFacts
<1>4. CASE /\ T.kind \in Loops /\ stack' = NextTurn(stack) /\ PopScope
           /\ UNCHANGED <<after, saved, globals, flags, acc>>
  <2>1. /\ returned' \in Scope /\ break_value' \in Scope /\ should_break' \in BOOLEAN
        /\ should_continue' \in BOOLEAN /\ after' = FALSE
    BY <1>1, <1>4 DEF FlowInv, Types, flags
  <2>2. lifted = {} => Still'
    BY <1>3, <1>4 DEF Still, flags
  <2> QED
    BY <1>1, <1>4, <2>1, <2>2, NextTurnInv
<1>5. CASE T.kind \in StmtLoops /\ BreakOfLoop
  BY <1>1, <1>2, <1>3, <1>5, BreakOfLoopInv DEF Still
<1>6. CASE T.kind = "whileExpr" /\ BreakOfLoopExpr
  BY <1>1, <1>2, <1>6, BreakOfLoopInv
<1> QED
  BY <1>4, <1>5, <1>6 DEF EndTurn

\* A step that changes nothing.
LEMMA StutterInv ==
  ASSUME FlowInv, UNCHANGED vars
  PROVE  FlowInv'
<1>1. /\ UNCHANGED <<stack, after, scopes, saved, globals, returned, should_break,
                     should_continue, break_value, acc, lifted>>
      /\ T' = T
  BY DEF vars, T
<1>2. Types' /\ Control' /\ FlagInv'
  BY <1>1 DEF FlowInv, Types, Control, FlagInv, Jumps, Quiet
<1> QED
  BY <1>1, <1>2 DEF FlowInv

\* Every step keeps the invariant.
LEMMA NextInv ==
  ASSUME FlowInv, [Next]_vars
  PROVE  FlowInv'
<1>1. ASSUME Next PROVE FlowInv'
  <2>1. Step /\ UNCHANGED lifted
    BY <1>1 DEF Next
  <2>2. ASSUME NEW v \in Val, Let(v) \/ Assign(v) PROVE FlowInv'
    BY <2>1, <2>2, LetInv
  <2>3. CASE Continue \/ \E v \in Val \cup {None} : Break(v) \/ Return(v)
    BY <2>1, <2>3, JumpInv
  <2>4. CASE If
    BY <2>1, <2>4, IfInv
  <2>5. CASE Turn
    BY <2>1, <2>5, TurnInv
  <2>6. CASE EndLoop
    BY <2>1, <2>6, EndLoopInv
  <2>7. CASE EndIf
    BY <2>1, <2>7, EndIfInv
  <2>8. CASE EndTurn
    BY <2>1, <2>8, EndTurnInv
  <2>9. CASE FallOff
    BY <2>1, <2>9, FallOffInv
  <2>10. CASE TakeStatement
    BY <2>1, <2>10, TakeStatementInv
  <2>11. CASE TakeTest
    BY <2>1, <2>11, TakeTestInv
  <2>12. CASE After
    BY <2>1, <2>12, AfterInIfInv, AfterInCallInv, AfterAtTopInv, AfterInLoopInv,
       AfterInLoopExprInv DEF After
  <2>13. ASSUME NEW p \in Headers("while", "for", MaxTurns), Loop(p) PROVE FlowInv'
    BY <2>1, <2>13, LoopInv
  <2>14. ASSUME NEW use \in Uses, Call(use) \/ Read(use) PROVE FlowInv'
    BY <2>1, <2>14, CallInv, ReadInv
  <2>15. ASSUME NEW use \in Uses, NEW p \in Headers("whileExpr", "forExpr", MaxTurns),
                LoopExpr(p, use)
         PROVE  FlowInv'
    BY <2>1, <2>15, LoopExprInv
  <2> QED
    BY <2>1, <2>2, <2>3, <2>4, <2>5, <2>6, <2>7, <2>8, <2>9, <2>10, <2>11, <2>12, <2>13, <2>14,
       <2>15 DEF Step
<1>2. CASE UNCHANGED vars
  BY <1>2, StutterInv
<1> QED
  BY <1>1, <1>2

\* FlowInv always holds.
THEOREM FlowHolds == Spec => []FlowInv
BY InitInv, NextInv, PTL DEF Spec
----------------------------------------------------------------------------
\* What the runs check.

\* The invariant has the types the runs check...
LEMMA TypesGiveTypeOK == FlowInv => TypeOK
<1> SUFFICES ASSUME FlowInv PROVE TypeOK
  OBVIOUS
<1>1. Types
  BY DEF FlowInv
<1>2. stack \in Seq([kind : Frames \cup Loops \cup {"if"}, at : {"head", "body"}, wait : Waits,
                     next : 0 .. MaxTurns, end : 0 .. MaxTurns, named : BOOLEAN])
  BY <1>1 DEF Types, Construct
<1>3. /\ Len(stack) <= Depths[lifted]
      /\ {after, should_break, should_continue} \subseteq BOOLEAN
      /\ {globals, acc, returned, break_value} \subseteq Nat \cup {None}
      /\ scopes \in Seq(Nat \cup {None})
      /\ saved \in Seq(Seq(Nat \cup {None}))
  BY <1>1 DEF Types, Scope
<1>4. \A k \in 1 .. Len(saved) : saved[k] \in Seq(Nat \cup {None})
  BY <1>3
<1> QED
  BY <1>2, <1>3, <1>4 DEF TypeOK

\* The scopes the model counts at a construct are the bodies counted here.
LEMMA SameCounts ==
  ASSUME FlowInv, stack # <<>>, NEW k \in 1 .. Len(stack)
  PROVE  Calls(k) = CallCount(stack, k) /\ Cardinality(Opened(k)) = Height(stack, k)
<1>1. stack \in Seq(Construct) /\ Nested(stack)
  BY HereFacts
<1>2. k \in Nat \ {0} /\ 1 \in Int /\ k \in Int /\ Len(stack) \in Nat /\ k <= Len(stack)
  BY <1>1
<1> DEFINE c == SubSeq(stack, 1, k)
<1>3. Len(c) = k /\ \A j \in 1 .. k : c[j] = stack[j]
  <2>1. \A j \in 1 .. k : stack[j] \in Construct
    BY <1>1, <1>2
  <2>2. /\ Len(c) = IF 1 <= k THEN k - 1 + 1 ELSE 0
        /\ \A j \in 1 .. k - 1 + 1 : c[j] = stack[1 + j - 1]
    BY <1>2, <2>1, SubSeqProperties
  <2>3. k - 1 + 1 = k /\ 1 <= k
    BY <1>2
  <2> HIDE DEF c
  <2> QED
    BY <2>2, <2>3
<1> HIDE DEF c
<1>4. FrameOf(c) = Bottom(stack, k)
  BY <1>3 DEF FrameOf, Bottom
<1>5. Opened(k) = Bodies(stack, k)
  BY <1>4 DEF Opened, Bodies, c
<1> QED
  BY <1>5 DEF Calls, CallCount, Called, Height

\* ...the balance of the scopes...
LEMMA BalancedGivesScopes == FlowInv => ScopesBalanced
<1> SUFFICES ASSUME FlowInv, stack # <<>>
             PROVE  /\ Len(scopes) = Cardinality(Opened(Len(stack)))
                    /\ Len(saved) = Calls(Len(stack)) - 1
                    /\ \A k \in 1 .. Len(stack) :
                         stack[k].wait # "none" /\ k < Len(stack) /\ stack[k + 1].kind = "fn" =>
                           Len(saved[Calls(k)]) = Cardinality(Opened(k))
  BY DEF ScopesBalanced
<1>1. Len(stack) \in Nat \ {0} /\ Len(stack) \in 1 .. Len(stack) /\ Balanced(stack, scopes, saved)
  BY HereFacts
<1>2. Len(scopes) = Cardinality(Opened(Len(stack))) /\ Len(saved) = Calls(Len(stack)) - 1
  BY <1>1, SameCounts DEF Balanced
<1>3. ASSUME NEW k \in 1 .. Len(stack), k < Len(stack), stack[k + 1].kind = "fn"
      PROVE  Len(saved[Calls(k)]) = Cardinality(Opened(k))
  <2>1. k \in 1 .. Len(stack) - 1
    BY <1>1, <1>3
  <2> QED
    BY <1>3, <2>1, <1>1, SameCounts DEF Balanced
<1> QED
  BY <1>2, <1>3

\* ...and the silence of the flags while statements run.
LEMMA FlagsGiveJumps == FlowInv => JumpsFirst
BY DEF FlowInv, FlagInv, JumpsFirst

\* The interpreter's state has the types the model gives it, and never nests
\* deeper than the kind of program allows.
THEOREM FlowTypes == Spec => []TypeOK
<1>1. FlowInv => TypeOK
  BY TypesGiveTypeOK
<1> QED
  BY <1>1, FlowHolds, PTL

\* The scopes are those of the bodies open in the call, and every call has put
\* aside those of the call under it, whichever flag a body was left by.
THEOREM ScopesStayBalanced == Spec => []ScopesBalanced
<1>1. FlowInv => ScopesBalanced
  BY BalancedGivesScopes
<1> QED
  BY <1>1, FlowHolds, PTL

\* In a program without a hazard no statement starts, and no value is taken,
\* while a jump is under way.
THEOREM NothingRunsUnderAFlag == Spec => []JumpsFirst
<1>1. FlowInv => JumpsFirst
  BY FlagsGiveJumps
<1> QED
  BY <1>1, FlowHolds, PTL
=============================================================================
