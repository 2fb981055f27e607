--------------------------- MODULE OwnershipLemmas --------------------------
(***************************************************************************)
(* The ownership discipline is sound, for every set of addresses, every    *)
(* number of words and every bound: the invariant, what it rests on, and   *)
(* the steps that leave only the operands of the running frame changed.    *)
(* OwnershipProofs has the other steps and the theorems.                   *)
(*                                                                         *)
(* The invariant is Core.  Its parts:                                      *)
(*   Typed, Placed   what lies where: constants and frame values are       *)
(*                   immortal, words hold heap values or constants, the    *)
(*                   values being dropped are those with count zero;       *)
(*   Counts          a heap value's count is at least its claims and the   *)
(*                   words that hold it, and exactly that without hazards; *)
(*   NoCircle        heap values can be ranked, owners above owned;        *)
(*   Dues            what will be released, or was lost, is there;         *)
(*   FrameOK         of each frame: which blocks and loops stand in which  *)
(*                   (Shape, LoopShape, Waiting), its frame values are its *)
(*                   own (ScratchAt), what it owns is there (Lives), and   *)
(*                   what it only borrows is guarded (GuardVals,           *)
(*                   GuardLoops, GuardNames);                              *)
(*   Bottom          the first frame has nothing to be spent.              *)
(*                                                                         *)
(* A reference is guarded (Guard) where it is to a constant or a frame     *)
(* value, or is inside a heap value that stays: one that a name or a loop  *)
(* the code releases only later keeps (Keeps), at least as far out as the  *)
(* borrower stands, or one whose count nobody will bring down (Surplus,    *)
(* lost).  That is why a borrowed operand may be read without a count of   *)
(* its own.                                                                *)
(*                                                                         *)
(* Core holds where the hazards lifted, if any, are among Leaks: those     *)
(* that leave something behind and take nothing early.                     *)
(***************************************************************************)
EXTENDS Ownership, FiniteSetTheorems, FunctionTheorems, SequenceTheorems,
        WellFoundedInduction, TLAPS

----------------------------------------------------------------------------
\* Induction by the least counterexample.

\* A set of natural numbers that is not empty has a least member.
LEMMA LeastNat ==
  ASSUME NEW S \in SUBSET Nat, S # {}
  PROVE  \E n \in S : \A m \in S : n <= m
<1> DEFINE Below == {p \in Nat \X Nat : p[1] < p[2]}
<1>1. IsWellFoundedOn(Below, Nat)
  BY NatLessThanWellFounded DEF OpToRel
<1>2. \E n \in S : \A m \in S : <<m, n>> \notin Below
  <2> HIDE DEF Below
  <2> QED
    BY <1>1, WFMin
<1>3. PICK n \in S : \A m \in S : <<m, n>> \notin Below
  BY <1>2
<1>4. \A m \in S : ~(m < n)
  BY <1>3
<1> QED
  BY <1>4


----------------------------------------------------------------------------
\* Sequences.

\* What appending one element does to a sequence.
LEMMA AppendFacts ==
  ASSUME NEW S, NEW s \in Seq(S), NEW e \in S
  PROVE  /\ Append(s, e) \in Seq(S)
         /\ Len(Append(s, e)) = Len(s) + 1
         /\ Len(s) \in Nat
         /\ DOMAIN Append(s, e) = 1 .. Len(s) + 1
         /\ DOMAIN s = 1 .. Len(s)
         /\ Append(s, e)[Len(s) + 1] = e
         /\ \A k \in 1 .. Len(s) : Append(s, e)[k] = s[k]
         /\ Append(s, e) # <<>>
OBVIOUS

\* What is left of a sequence without its last member.
LEMMA PopFacts ==
  ASSUME NEW S, NEW s \in Seq(S), s # <<>>
  PROVE  /\ Top(s) \in S /\ Pop(s) \in Seq(S)
         /\ Len(s) \in Nat \ {0} /\ Len(s) \in 1 .. Len(s)
         /\ DOMAIN s = 1 .. Len(s) /\ DOMAIN Pop(s) = 1 .. Len(s) - 1
         /\ Len(Pop(s)) = Len(s) - 1
         /\ \A k \in 1 .. Len(s) - 1 : Pop(s)[k] = s[k] /\ k \in 1 .. Len(s)
         /\ s = Append(Pop(s), Top(s))
<1>1. Len(s) \in Nat \ {0} /\ DOMAIN s = 1 .. Len(s)
  OBVIOUS
<1>2. Top(s) \in S /\ Len(s) \in 1 .. Len(s) /\ Len(s) - 1 \in Nat
  BY <1>1 DEF Top
<1>3. /\ Pop(s) \in Seq(S) /\ Len(Pop(s)) = Len(s) - 1
      /\ \A k \in 1 .. Len(s) - 1 : Pop(s)[k] = s[k] /\ k \in 1 .. Len(s)
  BY <1>1, <1>2 DEF Pop
<1>4. DOMAIN Pop(s) = 1 .. Len(s) - 1
  BY <1>3
<1>5. s = Append(Pop(s), Top(s))
  <2>1. /\ Append(Pop(s), Top(s)) \in Seq(S) /\ Len(Append(Pop(s), Top(s))) = Len(s)
        /\ \A k \in 1 .. Len(s) - 1 : Append(Pop(s), Top(s))[k] = s[k]
        /\ Append(Pop(s), Top(s))[Len(s)] = s[Len(s)]
    <3> HIDE DEF Pop
    <3>1. Len(Pop(s)) + 1 = Len(s)
      BY <1>1, <1>3
    <3> QED
      BY <1>2, <1>3, <3>1, AppendFacts DEF Top
  <2>2. \A k \in 1 .. Len(s) : Append(Pop(s), Top(s))[k] = s[k]
    BY <1>1, <2>1
  <2> QED
    BY <2>1, <2>2, SeqEqual
<1> QED
  BY <1>1, <1>2, <1>3, <1>4, <1>5

\* One member of a sequence is replaced.
LEMMA ReplaceFacts ==
  ASSUME NEW S, NEW s \in Seq(S), NEW k \in 1 .. Len(s), NEW e \in S
  PROVE  /\ [s EXCEPT ![k] = e] \in Seq(S)
         /\ Len([s EXCEPT ![k] = e]) = Len(s)
         /\ DOMAIN [s EXCEPT ![k] = e] = 1 .. Len(s)
         /\ [s EXCEPT ![k] = e][k] = e
         /\ \A j \in 1 .. Len(s) : j # k => [s EXCEPT ![k] = e][j] = s[j]
OBVIOUS

\* The first members of a sequence.
LEMMA PrefixFacts ==
  ASSUME NEW S, NEW s \in Seq(S), NEW n \in 0 .. Len(s)
  PROVE  /\ SubSeq(s, 1, n) \in Seq(S) /\ Len(SubSeq(s, 1, n)) = n
         /\ DOMAIN SubSeq(s, 1, n) = 1 .. n
         /\ \A k \in 1 .. n : SubSeq(s, 1, n)[k] = s[k] /\ k \in 1 .. Len(s)
OBVIOUS

----------------------------------------------------------------------------
\* Counting.

One(p) == IF p THEN 1 ELSE 0

\* A set of positions, with one position more or not.
LEMMA OneMore ==
  ASSUME NEW n \in Nat, NEW X \in SUBSET (1 .. n), NEW Y \in SUBSET (1 .. n + 1),
         \A k \in 1 .. n : k \in Y <=> k \in X
  PROVE  /\ IsFiniteSet(X) /\ Cardinality(X) \in Nat
         /\ IsFiniteSet(Y) /\ Cardinality(Y) \in Nat
         /\ Cardinality(Y) = Cardinality(X) + One(n + 1 \in Y)
<1>1. IsFiniteSet(1 .. n)
  BY FS_Interval
<1>2. IsFiniteSet(X) /\ Cardinality(X) \in Nat
  BY <1>1, FS_Subset, FS_CardinalityType
<1>3. n + 1 \notin X
  OBVIOUS
<1>4. CASE n + 1 \in Y
  <2>1. \A k \in 1 .. n + 1 : k \in 1 .. n \/ k = n + 1
    OBVIOUS
  <2>2. \A k : k \in Y <=> k \in X \cup {n + 1}
    BY <1>4, <2>1
  <2>3. Y = X \cup {n + 1}
    BY <2>2
  <2> QED
    BY <1>2, <1>3, <1>4, <2>3, FS_AddElement DEF One
<1>5. CASE n + 1 \notin Y
  <2>1. \A k \in 1 .. n + 1 : k \in 1 .. n \/ k = n + 1
    OBVIOUS
  <2>2. \A k : k \in Y <=> k \in X
    BY <1>5, <2>1
  <2>3. Y = X
    BY <2>2
  <2> QED
    BY <1>2, <1>5, <2>3 DEF One
<1> QED
  BY <1>2, <1>4, <1>5

\* A sequence of sets, as a set of members with their places, grows by the size
\* of the set appended.
LEMMA TaggedAppend ==
  ASSUME NEW n \in Nat, NEW s, NEW t, NEW X, IsFiniteSet(X),
         DOMAIN s = 1 .. n, DOMAIN t = 1 .. n + 1, t[n + 1] = X,
         \A k \in 1 .. n : t[k] = s[k],
         IsFiniteSet(Tagged(s))
  PROVE  /\ IsFiniteSet(Tagged(t))
         /\ Cardinality(Tagged(t)) = Cardinality(Tagged(s)) + Cardinality(X)
<1> DEFINE E == {n + 1} \X X
<1>1. Tagged(t) = Tagged(s) \cup E
  BY DEF Tagged
<1>2. Tagged(s) \cap E = {}
  BY DEF Tagged
<1>3. IsFiniteSet(E) /\ Cardinality(E) = Cardinality(X)
  <2>1. IsFiniteSet({n + 1}) /\ Cardinality({n + 1}) = 1
    BY FS_Singleton
  <2>2. IsFiniteSet(E) /\ Cardinality(E) = Cardinality({n + 1}) * Cardinality(X)
    BY <2>1, FS_Product
  <2>3. Cardinality(X) \in Nat
    BY FS_CardinalityType
  <2> HIDE DEF E
  <2> QED
    BY <2>1, <2>2, <2>3
<1> HIDE DEF E
<1>4. IsFiniteSet(Tagged(s) \cup E)
  BY <1>3, FS_Union
<1>5. Cardinality(Tagged(t)) = Cardinality(Tagged(s)) + Cardinality(E) - Cardinality(Tagged(s) \cap E)
  BY <1>1, <1>3, FS_Union
<1>6. Cardinality(Tagged(s) \cap E) = 0
  BY <1>2, FS_EmptySet
<1>7. Cardinality(Tagged(s)) \in Nat /\ Cardinality(E) \in Nat
  BY <1>3, FS_CardinalityType
<1> QED
  BY <1>1, <1>3, <1>4, <1>5, <1>6, <1>7

\* No set, no member.
LEMMA TaggedEmpty ==
  ASSUME NEW s, DOMAIN s = {}
  PROVE  IsFiniteSet(Tagged(s)) /\ Cardinality(Tagged(s)) = 0 /\ Tagged(s) = {}
<1>1. Tagged(s) = {}
  BY DEF Tagged
<1> QED
  BY <1>1, FS_EmptySet

\* Finitely many finite sets: a first prefix with an infinite set of members would
\* have a last set to blame.
LEMMA TaggedFinite ==
  ASSUME NEW n \in Nat, NEW s, DOMAIN s = 1 .. n, \A k \in 1 .. n : IsFiniteSet(s[k])
  PROVE  IsFiniteSet(Tagged(s)) /\ Cardinality(Tagged(s)) \in Nat
<1> DEFINE Prefix(m) == [k \in 1 .. m |-> s[k]]
           Bad == {m \in Nat : m <= n /\ ~IsFiniteSet(Tagged(Prefix(m)))}
<1>1. Bad = {}
  <2>1. SUFFICES ASSUME Bad # {}
                 PROVE  FALSE
    OBVIOUS
  <2>2. PICK m \in Bad : \A j \in Bad : m <= j
    <3> HIDE DEF Bad
    <3>1. Bad \in SUBSET Nat
      BY DEF Bad
    <3> QED
      BY <2>1, <3>1, LeastNat
  <2>3. m \in Nat /\ m <= n /\ ~IsFiniteSet(Tagged(Prefix(m)))
    BY <2>2
  <2>4. m # 0
    <3>1. DOMAIN Prefix(0) = {}
      OBVIOUS
    <3>2. IsFiniteSet(Tagged(Prefix(0)))
      <4> HIDE DEF Prefix
      <4> QED
        BY <3>1, TaggedEmpty
    <3> QED
      BY <2>3, <3>2
  <2>5. m - 1 \in Nat /\ m - 1 \notin Bad /\ m \in 1 .. n
    BY <2>2, <2>3, <2>4
  <2>6. IsFiniteSet(Tagged(Prefix(m - 1)))
    BY <2>3, <2>5
  <2>7. /\ DOMAIN Prefix(m - 1) = 1 .. m - 1 /\ DOMAIN Prefix(m) = 1 .. (m - 1) + 1
        /\ Prefix(m)[(m - 1) + 1] = s[m]
        /\ \A k \in 1 .. m - 1 : Prefix(m)[k] = Prefix(m - 1)[k]
    BY <2>3, <2>5
  <2>8. IsFiniteSet(s[m])
    BY <2>5
  <2> HIDE DEF Prefix, Bad
  <2>9. IsFiniteSet(Tagged(Prefix(m)))
    BY <2>5, <2>6, <2>7, <2>8, TaggedAppend
  <2> QED
    BY <2>3, <2>9
<1>2. IsFiniteSet(Tagged(Prefix(n)))
  BY <1>1
<1>3. Tagged(Prefix(n)) = Tagged(s)
  BY DEF Tagged
<1> QED
  BY <1>2, <1>3, FS_CardinalityType

\* A set that differs from another in one member at most.
LEMMA OneSite ==
  ASSUME NEW X, NEW Y, NEW e, IsFiniteSet(X), X \ {e} = Y \ {e}
  PROVE  /\ IsFiniteSet(Y) /\ Cardinality(X) \in Nat /\ Cardinality(Y) \in Nat
         /\ Cardinality(Y) + One(e \in X) = Cardinality(X) + One(e \in Y)
<1> DEFINE Z == X \ {e}
<1>1. IsFiniteSet(Z) /\ Cardinality(Z) \in Nat
  BY FS_Subset, FS_CardinalityType
<1>2. e \notin Z /\ IsFiniteSet(Z \cup {e}) /\ Cardinality(Z \cup {e}) = Cardinality(Z) + 1
  <2>1. e \notin Z
    OBVIOUS
  <2> QED
    BY <1>1, <2>1, FS_AddElement
<1>3. X = IF e \in X THEN Z \cup {e} ELSE Z
  OBVIOUS
<1>4. Y = IF e \in Y THEN Z \cup {e} ELSE Z
  OBVIOUS
<1> HIDE DEF Z
<1>5. IsFiniteSet(Y) /\ Cardinality(Y) = Cardinality(Z) + One(e \in Y)
  <2>1. CASE e \in Y
    BY <1>2, <1>4, <2>1 DEF One
  <2>2. CASE e \notin Y
    BY <1>1, <1>4, <2>2 DEF One
  <2> QED
    BY <2>1, <2>2
<1>6. Cardinality(X) = Cardinality(Z) + One(e \in X)
  <2>1. CASE e \in X
    BY <1>2, <1>3, <2>1 DEF One
  <2>2. CASE e \notin X
    BY <1>1, <1>3, <2>2 DEF One
  <2> QED
    BY <2>1, <2>2
<1>7. One(e \in X) \in Nat /\ One(e \in Y) \in Nat
  BY DEF One
<1> QED
  BY <1>1, <1>5, <1>6, <1>7

----------------------------------------------------------------------------
\* What the parts of a frame claim.

Gives(v, a) == One(v.st # "borrow" /\ v.ref = a)

\* One more operand is one more claim where it is not borrowed.
LEMMA ValsAppend ==
  ASSUME NEW s \in Seq(OperandType), NEW v \in OperandType, NEW a
  PROVE  /\ IsFiniteSet(OwnVals(s, a)) /\ Cardinality(OwnVals(s, a)) \in Nat
         /\ IsFiniteSet(OwnVals(Append(s, v), a))
         /\ Cardinality(OwnVals(Append(s, v), a)) = Cardinality(OwnVals(s, a)) + Gives(v, a)
<1> DEFINE t == Append(s, v)
<1>1. /\ t \in Seq(OperandType) /\ Len(s) \in Nat
      /\ DOMAIN t = 1 .. Len(s) + 1 /\ DOMAIN s = 1 .. Len(s) /\ t[Len(s) + 1] = v
      /\ \A k \in 1 .. Len(s) : t[k] = s[k]
  BY AppendFacts
<1> HIDE DEF t
<1>2. /\ OwnVals(s, a) \in SUBSET (1 .. Len(s)) /\ OwnVals(t, a) \in SUBSET (1 .. Len(s) + 1)
      /\ \A k \in 1 .. Len(s) : k \in OwnVals(t, a) <=> k \in OwnVals(s, a)
  BY <1>1 DEF OwnVals
<1>3. Len(s) + 1 \in OwnVals(t, a) <=> v.st # "borrow" /\ v.ref = a
  BY <1>1 DEF OwnVals
<1>4. /\ IsFiniteSet(OwnVals(s, a)) /\ Cardinality(OwnVals(s, a)) \in Nat
      /\ IsFiniteSet(OwnVals(t, a))
      /\ Cardinality(OwnVals(t, a)) = Cardinality(OwnVals(s, a)) + One(Len(s) + 1 \in OwnVals(t, a))
  BY <1>1, <1>2, OneMore
<1>5. One(Len(s) + 1 \in OwnVals(t, a)) = Gives(v, a)
  BY <1>3 DEF Gives, One
<1> QED
  BY <1>4, <1>5 DEF t

\* One more name is one more claim where the block owns it.
LEMMA NamesAppend ==
  ASSUME NEW s \in Seq(EntryType), NEW e \in EntryType, NEW a
  PROVE  /\ IsFiniteSet(OwnNames(s, a)) /\ Cardinality(OwnNames(s, a)) \in Nat
         /\ IsFiniteSet(OwnNames(Append(s, e), a))
         /\ Cardinality(OwnNames(Append(s, e), a)) =
              Cardinality(OwnNames(s, a)) + One(e.own /\ e.ref = a)
<1> DEFINE t == Append(s, e)
<1>1. /\ t \in Seq(EntryType) /\ Len(s) \in Nat
      /\ DOMAIN t = 1 .. Len(s) + 1 /\ DOMAIN s = 1 .. Len(s) /\ t[Len(s) + 1] = e
      /\ \A k \in 1 .. Len(s) : t[k] = s[k]
  BY AppendFacts
<1> HIDE DEF t
<1>2. /\ OwnNames(s, a) \in SUBSET (1 .. Len(s)) /\ OwnNames(t, a) \in SUBSET (1 .. Len(s) + 1)
      /\ \A k \in 1 .. Len(s) : k \in OwnNames(t, a) <=> k \in OwnNames(s, a)
  BY <1>1 DEF OwnNames
<1>3. Len(s) + 1 \in OwnNames(t, a) <=> e.own /\ e.ref = a
  BY <1>1 DEF OwnNames
<1>4. /\ IsFiniteSet(OwnNames(s, a)) /\ Cardinality(OwnNames(s, a)) \in Nat
      /\ IsFiniteSet(OwnNames(t, a))
      /\ Cardinality(OwnNames(t, a)) = Cardinality(OwnNames(s, a)) + One(Len(s) + 1 \in OwnNames(t, a))
  BY <1>1, <1>2, OneMore
<1>5. One(Len(s) + 1 \in OwnNames(t, a)) = One(e.own /\ e.ref = a)
  BY <1>3 DEF One
<1> QED
  BY <1>4, <1>5 DEF t

\* One more loop is one more claim where it has its array to release.
LEMMA LoopsAppend ==
  ASSUME NEW s \in Seq(LoopType), NEW l \in LoopType, NEW a
  PROVE  /\ IsFiniteSet(OwnLoops(s, a)) /\ Cardinality(OwnLoops(s, a)) \in Nat
         /\ IsFiniteSet(OwnLoops(Append(s, l), a))
         /\ Cardinality(OwnLoops(Append(s, l), a)) =
              Cardinality(OwnLoops(s, a)) + One(l.mine /\ l.arr = a)
<1> DEFINE t == Append(s, l)
<1>1. /\ t \in Seq(LoopType) /\ Len(s) \in Nat
      /\ DOMAIN t = 1 .. Len(s) + 1 /\ DOMAIN s = 1 .. Len(s) /\ t[Len(s) + 1] = l
      /\ \A k \in 1 .. Len(s) : t[k] = s[k]
  BY AppendFacts
<1> HIDE DEF t
<1>2. /\ OwnLoops(s, a) \in SUBSET (1 .. Len(s)) /\ OwnLoops(t, a) \in SUBSET (1 .. Len(s) + 1)
      /\ \A k \in 1 .. Len(s) : k \in OwnLoops(t, a) <=> k \in OwnLoops(s, a)
  BY <1>1 DEF OwnLoops
<1>3. Len(s) + 1 \in OwnLoops(t, a) <=> l.mine /\ l.arr = a
  BY <1>1 DEF OwnLoops
<1>4. /\ IsFiniteSet(OwnLoops(s, a)) /\ Cardinality(OwnLoops(s, a)) \in Nat
      /\ IsFiniteSet(OwnLoops(t, a))
      /\ Cardinality(OwnLoops(t, a)) = Cardinality(OwnLoops(s, a)) + One(Len(s) + 1 \in OwnLoops(t, a))
  BY <1>1, <1>2, OneMore
<1>5. One(Len(s) + 1 \in OwnLoops(t, a)) = One(l.mine /\ l.arr = a)
  BY <1>3 DEF One
<1> QED
  BY <1>4, <1>5 DEF t

\* One more release call is one more claim.
LEMMA PlacesAppend ==
  ASSUME NEW s \in Seq(Addr), NEW r \in Addr, NEW a
  PROVE  /\ IsFiniteSet(Places(s, a)) /\ Cardinality(Places(s, a)) \in Nat
         /\ IsFiniteSet(Places(Append(s, r), a))
         /\ Cardinality(Places(Append(s, r), a)) = Cardinality(Places(s, a)) + One(r = a)
<1> DEFINE t == Append(s, r)
<1>1. /\ t \in Seq(Addr) /\ Len(s) \in Nat
      /\ DOMAIN t = 1 .. Len(s) + 1 /\ DOMAIN s = 1 .. Len(s) /\ t[Len(s) + 1] = r
      /\ \A k \in 1 .. Len(s) : t[k] = s[k]
  BY AppendFacts
<1> HIDE DEF t
<1>2. /\ Places(s, a) \in SUBSET (1 .. Len(s)) /\ Places(t, a) \in SUBSET (1 .. Len(s) + 1)
      /\ \A k \in 1 .. Len(s) : k \in Places(t, a) <=> k \in Places(s, a)
  BY <1>1 DEF Places
<1>3. Len(s) + 1 \in Places(t, a) <=> r = a
  BY <1>1 DEF Places
<1>4. /\ IsFiniteSet(Places(s, a)) /\ Cardinality(Places(s, a)) \in Nat
      /\ IsFiniteSet(Places(t, a))
      /\ Cardinality(Places(t, a)) = Cardinality(Places(s, a)) + One(Len(s) + 1 \in Places(t, a))
  BY <1>1, <1>2, OneMore
<1>5. One(Len(s) + 1 \in Places(t, a)) = One(r = a)
  BY <1>3 DEF One
<1> QED
  BY <1>4, <1>5 DEF t

\* The counts over finite sequences are finite: drop the last member of one, or
\* take none.
LEMMA CountsFinite ==
  ASSUME NEW a
  PROVE  /\ \A s \in Seq(OperandType) : IsFiniteSet(OwnVals(s, a)) /\ Cardinality(OwnVals(s, a)) \in Nat
         /\ \A s \in Seq(EntryType) : IsFiniteSet(OwnNames(s, a)) /\ Cardinality(OwnNames(s, a)) \in Nat
         /\ \A s \in Seq(LoopType) : IsFiniteSet(OwnLoops(s, a)) /\ Cardinality(OwnLoops(s, a)) \in Nat
         /\ \A S : \A s \in Seq(S) : IsFiniteSet(Places(s, a)) /\ Cardinality(Places(s, a)) \in Nat
<1>1. ASSUME NEW n \in Nat, NEW X \in SUBSET (1 .. n)
      PROVE  IsFiniteSet(X) /\ Cardinality(X) \in Nat
  <2>1. IsFiniteSet(1 .. n)
    BY FS_Interval
  <2> QED
    BY <2>1, FS_Subset, FS_CardinalityType
<1>2. \A s \in Seq(OperandType) : Len(s) \in Nat /\ OwnVals(s, a) \in SUBSET (1 .. Len(s))
  BY DEF OwnVals
<1>3. \A s \in Seq(EntryType) : Len(s) \in Nat /\ OwnNames(s, a) \in SUBSET (1 .. Len(s))
  BY DEF OwnNames
<1>4. \A s \in Seq(LoopType) : Len(s) \in Nat /\ OwnLoops(s, a) \in SUBSET (1 .. Len(s))
  BY DEF OwnLoops
<1>5. \A S : \A s \in Seq(S) : Len(s) \in Nat /\ Places(s, a) \in SUBSET (1 .. Len(s))
  BY DEF Places
<1> QED
  BY <1>1, <1>2, <1>3, <1>4, <1>5

\* The empty sequences claim nothing.
LEMMA CountsEmpty ==
  ASSUME NEW a
  PROVE  /\ OwnVals(<<>>, a) = {} /\ OwnNames(<<>>, a) = {} /\ OwnLoops(<<>>, a) = {}
         /\ Places(<<>>, a) = {} /\ Cardinality({}) = 0
BY FS_EmptySet DEF OwnVals, OwnNames, OwnLoops, Places

NamesOwned(names, a) == Cardinality(OwnNames(names, a))

\* A stack of blocks claims what its blocks claim.
LEMMA BlocksFinite ==
  ASSUME NEW s \in Seq(BlockType), NEW a
  PROVE  IsFiniteSet(OwnBlocks(s, a)) /\ Cardinality(OwnBlocks(s, a)) \in Nat
<1> DEFINE T == [b \in DOMAIN s |-> OwnNames(s[b].names, a)]
<1>1. DOMAIN s = 1 .. Len(s) /\ Len(s) \in Nat /\ \A b \in DOMAIN s : s[b] \in BlockType
  OBVIOUS
<1>2. \A b \in DOMAIN s : s[b].names \in Seq(EntryType)
  BY <1>1 DEF BlockType
<1>3. DOMAIN T = 1 .. Len(s) /\ \A b \in 1 .. Len(s) : IsFiniteSet(T[b])
  BY <1>1, <1>2, CountsFinite
<1>4. IsFiniteSet(Tagged(T)) /\ Cardinality(Tagged(T)) \in Nat
  <2> HIDE DEF T
  <2> QED
    BY <1>1, <1>3, TaggedFinite
<1> QED
  BY <1>4 DEF OwnBlocks

\* One more open block adds the claims of its names.
LEMMA BlocksAppend ==
  ASSUME NEW s \in Seq(BlockType), NEW b \in BlockType, NEW a
  PROVE  Cardinality(OwnBlocks(Append(s, b), a)) = Cardinality(OwnBlocks(s, a)) + NamesOwned(b.names, a)
<1> DEFINE t == Append(s, b)
           S == [k \in DOMAIN s |-> OwnNames(s[k].names, a)]
           T == [k \in DOMAIN t |-> OwnNames(t[k].names, a)]
<1>1. /\ t \in Seq(BlockType) /\ Len(s) \in Nat
      /\ DOMAIN t = 1 .. Len(s) + 1 /\ DOMAIN s = 1 .. Len(s) /\ t[Len(s) + 1] = b
      /\ \A k \in 1 .. Len(s) : t[k] = s[k]
  BY AppendFacts
<1> HIDE DEF t
<1>2. /\ DOMAIN S = 1 .. Len(s) /\ DOMAIN T = 1 .. Len(s) + 1
      /\ T[Len(s) + 1] = OwnNames(b.names, a)
      /\ \A k \in 1 .. Len(s) : T[k] = S[k]
  BY <1>1
<1>3. IsFiniteSet(Tagged(S))
  BY BlocksFinite DEF OwnBlocks
<1>4. IsFiniteSet(OwnNames(b.names, a))
  BY CountsFinite DEF BlockType
<1>5. Cardinality(Tagged(T)) = Cardinality(Tagged(S)) + Cardinality(OwnNames(b.names, a))
  <2> HIDE DEF S, T
  <2> QED
    BY <1>1, <1>2, <1>3, <1>4, TaggedAppend
<1> QED
  BY <1>5 DEF OwnBlocks, NamesOwned, t

\* What a frame claims is what its blocks, its operands, the arguments it has
\* built and its loops claim.
Weight(f, a) == Cardinality(FrameClaims(f, a))

\* What a frame claims is what its blocks, operands, spent arguments and loops
\* do.
LEMMA WeightIs ==
  ASSUME NEW f \in FrameType, NEW a
  PROVE  /\ IsFiniteSet(FrameClaims(f, a)) /\ Weight(f, a) \in Nat
         /\ Weight(f, a) = Cardinality(OwnBlocks(f.blocks, a)) + Cardinality(OwnVals(f.vals, a))
                             + Cardinality(Places(f.spent, a)) + Cardinality(OwnLoops(f.loops, a))
<1> DEFINE A == OwnBlocks(f.blocks, a)
           B == OwnVals(f.vals, a)
           C == Places(f.spent, a)
           D == OwnLoops(f.loops, a)
<1>1. IsFiniteSet(A) /\ IsFiniteSet(B) /\ IsFiniteSet(C) /\ IsFiniteSet(D)
  BY BlocksFinite, CountsFinite DEF FrameType
<1>2. Weight(f, a) = Cardinality(Tagged(<<A, B, C, D>>)) /\ FrameClaims(f, a) = Tagged(<<A, B, C, D>>)
  BY DEF Weight, FrameClaims
<1> HIDE DEF A, B, C, D
<1> DEFINE T0 == <<>>
           T1 == <<A>>
           T2 == <<A, B>>
           T3 == <<A, B, C>>
           T4 == <<A, B, C, D>>
<1>3. IsFiniteSet(Tagged(T0)) /\ Cardinality(Tagged(T0)) = 0
  BY TaggedEmpty
<1>4. /\ IsFiniteSet(Tagged(T1))
      /\ Cardinality(Tagged(T1)) = Cardinality(Tagged(T0)) + Cardinality(A)
  <2>0. SUFFICES ASSUME NEW n \in Nat, n = 0
                 PROVE  /\ IsFiniteSet(Tagged(T1))
                        /\ Cardinality(Tagged(T1)) = Cardinality(Tagged(T0)) + Cardinality(A)
    OBVIOUS
  <2>1. DOMAIN T0 = 1 .. n /\ DOMAIN T1 = 1 .. n + 1 /\ T1[n + 1] = A
        /\ \A k \in 1 .. n : T1[k] = T0[k]
    BY <2>0
  <2> HIDE DEF T0, T1
  <2> QED
    BY <1>1, <1>3, <2>1, TaggedAppend
<1>5. /\ IsFiniteSet(Tagged(T2))
      /\ Cardinality(Tagged(T2)) = Cardinality(Tagged(T1)) + Cardinality(B)
  <2>0. SUFFICES ASSUME NEW n \in Nat, n = 1
                 PROVE  /\ IsFiniteSet(Tagged(T2))
                        /\ Cardinality(Tagged(T2)) = Cardinality(Tagged(T1)) + Cardinality(B)
    OBVIOUS
  <2>1. DOMAIN T1 = 1 .. n /\ DOMAIN T2 = 1 .. n + 1 /\ T2[n + 1] = B
        /\ \A k \in 1 .. n : T2[k] = T1[k]
    BY <2>0
  <2> HIDE DEF T1, T2
  <2> QED
    BY <1>1, <1>4, <2>1, TaggedAppend
<1>6. /\ IsFiniteSet(Tagged(T3))
      /\ Cardinality(Tagged(T3)) = Cardinality(Tagged(T2)) + Cardinality(C)
  <2>0. SUFFICES ASSUME NEW n \in Nat, n = 2
                 PROVE  /\ IsFiniteSet(Tagged(T3))
                        /\ Cardinality(Tagged(T3)) = Cardinality(Tagged(T2)) + Cardinality(C)
    OBVIOUS
  <2>1. DOMAIN T2 = 1 .. n /\ DOMAIN T3 = 1 .. n + 1 /\ T3[n + 1] = C
        /\ \A k \in 1 .. n : T3[k] = T2[k]
    BY <2>0
  <2> HIDE DEF T2, T3
  <2> QED
    BY <1>1, <1>5, <2>1, TaggedAppend
<1>7. /\ IsFiniteSet(Tagged(T4))
      /\ Cardinality(Tagged(T4)) = Cardinality(Tagged(T3)) + Cardinality(D)
  <2>0. SUFFICES ASSUME NEW n \in Nat, n = 3
                 PROVE  /\ IsFiniteSet(Tagged(T4))
                        /\ Cardinality(Tagged(T4)) = Cardinality(Tagged(T3)) + Cardinality(D)
    OBVIOUS
  <2>1. DOMAIN T3 = 1 .. n /\ DOMAIN T4 = 1 .. n + 1 /\ T4[n + 1] = D
        /\ \A k \in 1 .. n : T4[k] = T3[k]
    BY <2>0
  <2> HIDE DEF T3, T4
  <2> QED
    BY <1>1, <1>6, <2>1, TaggedAppend
<1> HIDE DEF T0, T1, T2, T3
<1>8. /\ Weight(f, a) \in Nat /\ Cardinality(A) \in Nat /\ Cardinality(B) \in Nat
      /\ Cardinality(C) \in Nat /\ Cardinality(D) \in Nat
  BY <1>1, <1>2, <1>7, FS_CardinalityType
<1>9. Weight(f, a) = Cardinality(A) + Cardinality(B) + Cardinality(C) + Cardinality(D)
  BY <1>2, <1>3, <1>4, <1>5, <1>6, <1>7, <1>8
<1> QED
  BY <1>2, <1>7, <1>8, <1>9 DEF A, B, C, D

\* What a stack of frames claims.
Total(fs, a) == Cardinality(Tagged([k \in DOMAIN fs |-> FrameClaims(fs[k], a)]))

\* The claims of a call stack are finitely many.
LEMMA TotalFinite ==
  ASSUME NEW fs \in Seq(FrameType), NEW a
  PROVE  /\ IsFiniteSet(Tagged([k \in DOMAIN fs |-> FrameClaims(fs[k], a)]))
         /\ Total(fs, a) \in Nat
<1> DEFINE T == [k \in DOMAIN fs |-> FrameClaims(fs[k], a)]
<1>1. DOMAIN fs = 1 .. Len(fs) /\ Len(fs) \in Nat /\ \A k \in DOMAIN fs : fs[k] \in FrameType
  OBVIOUS
<1>2. DOMAIN T = 1 .. Len(fs) /\ \A k \in 1 .. Len(fs) : IsFiniteSet(T[k])
  BY <1>1, WeightIs
<1>3. IsFiniteSet(Tagged(T)) /\ Cardinality(Tagged(T)) \in Nat
  <2> HIDE DEF T
  <2> QED
    BY <1>1, <1>2, TaggedFinite
<1> QED
  BY <1>3 DEF Total

\* One more frame adds what it claims.
LEMMA TotalAppend ==
  ASSUME NEW fs \in Seq(FrameType), NEW f \in FrameType, NEW a
  PROVE  Total(Append(fs, f), a) = Total(fs, a) + Weight(f, a)
<1> DEFINE t == Append(fs, f)
           S == [k \in DOMAIN fs |-> FrameClaims(fs[k], a)]
           T == [k \in DOMAIN t |-> FrameClaims(t[k], a)]
<1>1. /\ Len(fs) \in Nat
      /\ DOMAIN t = 1 .. Len(fs) + 1 /\ DOMAIN fs = 1 .. Len(fs) /\ t[Len(fs) + 1] = f
      /\ \A k \in 1 .. Len(fs) : t[k] = fs[k]
  BY AppendFacts
<1> HIDE DEF t
<1>2. /\ DOMAIN S = 1 .. Len(fs) /\ DOMAIN T = 1 .. Len(fs) + 1
      /\ T[Len(fs) + 1] = FrameClaims(f, a)
      /\ \A k \in 1 .. Len(fs) : T[k] = S[k]
  BY <1>1
<1>3. IsFiniteSet(Tagged(S)) /\ IsFiniteSet(FrameClaims(f, a))
  BY TotalFinite, WeightIs
<1>4. Cardinality(Tagged(T)) = Cardinality(Tagged(S)) + Cardinality(FrameClaims(f, a))
  <2> HIDE DEF S, T
  <2> QED
    BY <1>1, <1>2, <1>3, TaggedAppend
<1> QED
  BY <1>4 DEF Total, Weight, t

\* A program that has ended claims nothing in a frame.
LEMMA TotalEmpty ==
  ASSUME NEW a
  PROVE  Total(<<>>, a) = 0
<1>1. DOMAIN [k \in DOMAIN <<>> |-> FrameClaims(<<>>[k], a)] = {}
  OBVIOUS
<1> QED
  BY <1>1, TaggedEmpty DEF Total

----------------------------------------------------------------------------
\* The release calls of several lists, one after the other.

\* A function on the first numbers is a sequence.
LEMMA MakeSeq ==
  ASSUME NEW S, NEW n \in Nat, NEW g \in [1 .. n -> S]
  PROVE  g \in Seq(S) /\ Len(g) = n
OBVIOUS

\* A renaming of the members of a finite set keeps their number.
LEMMA Renamed ==
  ASSUME NEW X, IsFiniteSet(X), NEW Y, NEW f \in [X -> Y],
         \A x, z \in X : f[x] = f[z] => x = z, \A y \in Y : \E x \in X : f[x] = y
  PROVE  IsFiniteSet(Y) /\ Cardinality(Y) = Cardinality(X)
<1>1. f \in Bijection(X, Y)
  BY Fun_IsBij
<1>2. ExistsBijection(X, Y)
  BY <1>1, Fun_ExistsBij
<1> QED
  BY <1>2, FS_Bijection

\* The places of a value in two lists, one after the other.
LEMMA PlacesConcat ==
  ASSUME NEW S, NEW s \in Seq(S), NEW t \in Seq(S), NEW a
  PROVE  /\ s \o t \in Seq(S)
         /\ Cardinality(Places(s \o t, a)) = Cardinality(Places(s, a)) + Cardinality(Places(t, a))
         /\ Cardinality(Places(s, a)) \in Nat /\ Cardinality(Places(t, a)) \in Nat
<1> DEFINE u == s \o t
           n == Len(s)
           E == {n + k : k \in Places(t, a)}
           f == [k \in Places(t, a) |-> n + k]
<1>1. /\ u \in Seq(S) /\ n \in Nat /\ Len(t) \in Nat /\ Len(u) = n + Len(t)
      /\ DOMAIN u = 1 .. n + Len(t) /\ DOMAIN s = 1 .. n /\ DOMAIN t = 1 .. Len(t)
      /\ \A k \in 1 .. n : u[k] = s[k]
      /\ \A k \in 1 .. Len(t) : u[n + k] = t[k]
  OBVIOUS
<1>2. \A k \in 1 .. n + Len(t) : k \in 1 .. n \/ (k - n \in 1 .. Len(t) /\ n + (k - n) = k)
  BY <1>1
<1>3. /\ IsFiniteSet(Places(s, a)) /\ IsFiniteSet(Places(t, a))
      /\ Cardinality(Places(s, a)) \in Nat /\ Cardinality(Places(t, a)) \in Nat
  BY CountsFinite
<1> HIDE DEF u, n
<1>4. \A k : k \in Places(u, a) <=> k \in Places(s, a) \cup E
  <2>1. \A k \in 1 .. n : k \in Places(u, a) <=> k \in Places(s, a)
    BY <1>1 DEF Places
  <2>2. \A k \in 1 .. Len(t) : n + k \in Places(u, a) <=> k \in Places(t, a)
    BY <1>1 DEF Places
  <2>3. Places(t, a) \subseteq 1 .. Len(t) /\ Places(s, a) \subseteq 1 .. n /\ Places(u, a) \subseteq 1 .. n + Len(t)
    BY <1>1 DEF Places
  <2>4. ASSUME NEW k \in Places(u, a)
        PROVE  k \in Places(s, a) \cup E
    BY <1>2, <2>1, <2>2, <2>3
  <2>5. ASSUME NEW k \in E
        PROVE  k \in Places(u, a)
    BY <2>2, <2>3
  <2>6. ASSUME NEW k \in Places(s, a)
        PROVE  k \in Places(u, a)
    BY <2>1, <2>3
  <2> QED
    BY <2>4, <2>5, <2>6
<1>5. Places(u, a) = Places(s, a) \cup E
  BY <1>4
<1>6. Places(s, a) \cap E = {}
  BY <1>1 DEF Places
<1>7. IsFiniteSet(E) /\ Cardinality(E) = Cardinality(Places(t, a))
  <2>1. Places(t, a) \subseteq Nat
    BY <1>1 DEF Places
  <2>2. f \in [Places(t, a) -> E] /\ \A x, z \in Places(t, a) : f[x] = f[z] => x = z
    BY <1>1, <2>1
  <2>3. \A y \in E : \E x \in Places(t, a) : f[x] = y
    OBVIOUS
  <2> HIDE DEF f, E
  <2> QED
    BY <1>3, <2>2, <2>3, Renamed
<1> HIDE DEF E
<1>8. Cardinality(Places(u, a)) = Cardinality(Places(s, a)) + Cardinality(E) - Cardinality(Places(s, a) \cap E)
  BY <1>3, <1>5, <1>7, FS_Union
<1>9. Cardinality(Places(s, a) \cap E) = 0
  BY <1>6, FS_EmptySet
<1> QED
  BY <1>1, <1>3, <1>7, <1>8, <1>9 DEF u

\* FlattenSeq, one list more at a time.
Flat(g, s, n) == g = [i \in 1 .. n |-> IF i = 1 THEN s[i] ELSE g[i - 1] \o s[i]]

\* The recursion of FlattenSeq has a solution.
LEMMA FlatExists ==
  ASSUME NEW s, NEW n \in Nat
  PROVE  \E g : Flat(g, s, n)
<1> DEFINE Bad == {m \in Nat : ~\E g : Flat(g, s, m)}
<1>1. SUFFICES ASSUME Bad # {}
               PROVE  FALSE
  BY <1>1
<1>2. PICK m \in Bad : \A j \in Bad : m <= j
  <2>1. Bad \in SUBSET Nat
    OBVIOUS
  <2> HIDE DEF Bad
  <2> QED
    BY <1>1, <2>1, LeastNat
<1>3. m \in Nat /\ ~\E g : Flat(g, s, m)
  BY <1>2
<1>4. m # 0
  <2>1. Flat([i \in 1 .. 0 |-> s], s, 0)
    BY DEF Flat
  <2> QED
    BY <1>3, <2>1
<1>5. m - 1 \in Nat /\ m - 1 \notin Bad
  BY <1>2, <1>3, <1>4
<1>6. PICK g : Flat(g, s, m - 1)
  BY <1>5
<1> DEFINE h == [i \in 1 .. m |-> IF i = 1 THEN s[i] ELSE g[i - 1] \o s[i]]
<1>7. \A i \in 1 .. m - 1 : h[i] = g[i]
  <2>1. \A i \in 1 .. m - 1 : g[i] = IF i = 1 THEN s[i] ELSE g[i - 1] \o s[i]
    BY <1>6 DEF Flat
  <2>2. \A i \in 1 .. m - 1 : i \in 1 .. m
    BY <1>3
  <2> HIDE DEF Flat
  <2> QED
    BY <2>1, <2>2
<1>8. \A i \in 1 .. m : i # 1 => i - 1 \in 1 .. m - 1
  BY <1>3
<1>9. h = [i \in 1 .. m |-> IF i = 1 THEN s[i] ELSE h[i - 1] \o s[i]]
  <2>1. \A i \in 1 .. m : h[i] = IF i = 1 THEN s[i] ELSE h[i - 1] \o s[i]
    BY <1>7, <1>8
  <2> QED
    BY <2>1
<1>10. Flat(h, s, m)
  BY <1>9 DEF Flat
<1> QED
  BY <1>3, <1>10

\* A flattened list of lists holds each value as often as the lists do.
LEMMA FlattenIs ==
  ASSUME NEW S, NEW s \in Seq(Seq(S)), NEW a
  PROVE  /\ FlattenSeq(s) \in Seq(S)
         /\ Cardinality(Places(FlattenSeq(s), a)) = Cardinality(Tagged([k \in DOMAIN s |-> Places(s[k], a)]))
         /\ IsFiniteSet(Tagged([k \in DOMAIN s |-> Places(s[k], a)]))
<1> DEFINE n == Len(s)
           g == CHOOSE x : Flat(x, s, n)
           P == [k \in DOMAIN s |-> Places(s[k], a)]
           Part(m) == [k \in 1 .. m |-> Places(s[k], a)]
<1>1. n \in Nat /\ DOMAIN s = 1 .. n /\ \A k \in 1 .. n : s[k] \in Seq(S)
  OBVIOUS
<1>2. n = 0 => s = <<>>
  BY <1>1
<1>3. FlattenSeq(s) = IF n = 0 THEN s ELSE g[n]
  BY DEF FlattenSeq, Flat
<1>4. Flat(g, s, n)
  BY <1>1, FlatExists
<1> HIDE DEF g, n
<1>5. \A i \in 1 .. n : g[i] = IF i = 1 THEN s[i] ELSE g[i - 1] \o s[i]
  BY <1>4 DEF Flat
<1> DEFINE Good(i) == /\ g[i] \in Seq(S)
                      /\ IsFiniteSet(Tagged(Part(i)))
                      /\ Cardinality(Places(g[i], a)) = Cardinality(Tagged(Part(i)))
           Bad == {i \in Nat : i \in 1 .. n /\ ~Good(i)}
<1>6. \A i \in 1 .. n : /\ DOMAIN Part(i - 1) = 1 .. i - 1 /\ DOMAIN Part(i) = 1 .. (i - 1) + 1
                        /\ Part(i)[(i - 1) + 1] = Places(s[i], a)
                        /\ \A k \in 1 .. i - 1 : Part(i)[k] = Part(i - 1)[k]
                        /\ i - 1 \in Nat
  BY <1>1
<1>7. \A k \in 1 .. n : IsFiniteSet(Places(s[k], a)) /\ Cardinality(Places(s[k], a)) \in Nat
  BY <1>1, CountsFinite
<1>8. IsFiniteSet(Tagged(Part(0))) /\ Cardinality(Tagged(Part(0))) = 0
  <2>1. DOMAIN Part(0) = {}
    OBVIOUS
  <2> HIDE DEF Part
  <2> QED
    BY <2>1, TaggedEmpty
<1>9. P = Part(n)
  BY <1>1
<1> HIDE DEF Part, P
<1>10. ASSUME NEW i \in 1 .. n, IsFiniteSet(Tagged(Part(i - 1)))
       PROVE  /\ IsFiniteSet(Tagged(Part(i)))
              /\ Cardinality(Tagged(Part(i))) = Cardinality(Tagged(Part(i - 1))) + Cardinality(Places(s[i], a))
  <2> DEFINE Q == Part(i - 1)
             T == Part(i)
             m == i - 1
  <2>1. /\ DOMAIN Q = 1 .. m /\ DOMAIN T = 1 .. m + 1 /\ T[m + 1] = Places(s[i], a)
        /\ \A k \in 1 .. m : T[k] = Q[k]
        /\ m \in Nat
    BY <1>6
  <2>2. IsFiniteSet(Tagged(Q)) /\ IsFiniteSet(Places(s[i], a))
    BY <1>7, <1>10
  <2> HIDE DEF Q, T, m
  <2>3. /\ IsFiniteSet(Tagged(T))
        /\ Cardinality(Tagged(T)) = Cardinality(Tagged(Q)) + Cardinality(Places(s[i], a))
    BY <2>1, <2>2, TaggedAppend
  <2> QED
    BY <2>3 DEF Q, T, m
<1>11. Bad = {}
  <2>1. SUFFICES ASSUME Bad # {}
                 PROVE  FALSE
    OBVIOUS
  <2>2. PICK i \in Bad : \A j \in Bad : i <= j
    <3>1. Bad \in SUBSET Nat
      OBVIOUS
    <3> HIDE DEF Bad
    <3> QED
      BY <2>1, <3>1, LeastNat
  <2>3. i \in Nat /\ i \in 1 .. n /\ ~Good(i)
    BY <2>2
  <2>4. CASE i = 1
    <3>1. g[i] = s[i] /\ s[i] \in Seq(S)
      BY <1>1, <1>5, <2>3, <2>4
    <3>2. i - 1 = 0
      BY <2>4
    <3>3. IsFiniteSet(Tagged(Part(i - 1))) /\ Cardinality(Tagged(Part(i - 1))) = 0
      BY <1>8, <3>2
    <3>4. IsFiniteSet(Tagged(Part(i))) /\ Cardinality(Tagged(Part(i))) = 0 + Cardinality(Places(s[i], a))
      BY <1>10, <2>3, <3>3
    <3> QED
      BY <1>7, <2>3, <3>1, <3>4
  <2>5. CASE i # 1
    <3>1. i - 1 \in Nat /\ i - 1 \in 1 .. n /\ i - 1 \notin Bad
      BY <1>1, <2>2, <2>3, <2>5
    <3>2. Good(i - 1)
      BY <3>1
    <3>3. g[i] = g[i - 1] \o s[i] /\ s[i] \in Seq(S)
      BY <1>1, <1>5, <2>3, <2>5
    <3>4. /\ IsFiniteSet(Tagged(Part(i)))
          /\ Cardinality(Tagged(Part(i))) = Cardinality(Tagged(Part(i - 1))) + Cardinality(Places(s[i], a))
      BY <1>10, <2>3, <3>2
    <3>5. /\ g[i] \in Seq(S)
          /\ Cardinality(Places(g[i], a)) = Cardinality(Places(g[i - 1], a)) + Cardinality(Places(s[i], a))
      BY <3>2, <3>3, PlacesConcat, SMTT(30)
    <3> QED
      BY <2>3, <3>2, <3>4, <3>5
  <2> QED
    BY <2>4, <2>5
<1>12. CASE n = 0
  <2>1. FlattenSeq(s) = <<>> /\ IsFiniteSet(Tagged(P)) /\ Cardinality(Tagged(P)) = 0
    BY <1>2, <1>3, <1>8, <1>9, <1>12
  <2>2. Cardinality(Places(<<>>, a)) = 0
    <3>1. Places(<<>>, a) = {}
      BY DEF Places
    <3> QED
      BY <3>1, FS_EmptySet
  <2>3. <<>> \in Seq(S)
    OBVIOUS
  <2> QED
    BY <2>1, <2>2, <2>3 DEF P
<1>13. CASE n # 0
  <2>1. FlattenSeq(s) = g[n] /\ n \in 1 .. n
    BY <1>1, <1>3, <1>13
  <2>2. Good(n)
    BY <1>1, <1>11, <2>1
  <2> QED
    BY <1>9, <2>1, <2>2 DEF P
<1> QED
  BY <1>12, <1>13

\* A sequence of sets read backwards has as many members.
LEMMA TaggedReverse ==
  ASSUME NEW n \in Nat, NEW s, DOMAIN s = 1 .. n, NEW t, DOMAIN t = 1 .. n,
         \A k \in 1 .. n : t[k] = s[(n - k) + 1], IsFiniteSet(Tagged(s))
  PROVE  IsFiniteSet(Tagged(t)) /\ Cardinality(Tagged(t)) = Cardinality(Tagged(s))
<1> DEFINE f == [x \in Tagged(s) |-> <<(n - x[1]) + 1, x[2]>>]
<1>1. \A k \in 1 .. n : (n - k) + 1 \in 1 .. n /\ (n - ((n - k) + 1)) + 1 = k
  OBVIOUS
<1>2. \A x \in Tagged(s) : x = <<x[1], x[2]>> /\ x[1] \in 1 .. n /\ x[2] \in s[x[1]]
  BY DEF Tagged
<1>3. \A k \in 1 .. n : \A e \in t[k] : <<k, e>> \in Tagged(t)
  BY DEF Tagged
<1>4. \A k \in 1 .. n : \A e \in s[k] : <<k, e>> \in Tagged(s)
  BY DEF Tagged
<1>5. \A x \in Tagged(t) : x = <<x[1], x[2]>> /\ x[1] \in 1 .. n /\ x[2] \in t[x[1]]
  BY DEF Tagged
<1>6. \A x \in Tagged(s) : <<(n - x[1]) + 1, x[2]>> \in Tagged(t)
  BY <1>1, <1>2, <1>3
<1>7. f \in [Tagged(s) -> Tagged(t)]
  BY <1>6
<1>8. \A x, z \in Tagged(s) : f[x] = f[z] => x = z
  <2>1. SUFFICES ASSUME NEW x \in Tagged(s), NEW z \in Tagged(s), f[x] = f[z]
                 PROVE  x = z
    OBVIOUS
  <2>2. (n - x[1]) + 1 = (n - z[1]) + 1 /\ x[2] = z[2]
    BY <2>1
  <2>3. x[1] = z[1]
    BY <1>2, <2>2
  <2> QED
    BY <1>2, <2>2, <2>3
<1>9. \A y \in Tagged(t) : \E x \in Tagged(s) : f[x] = y
  <2>1. SUFFICES ASSUME NEW y \in Tagged(t)
                 PROVE  \E x \in Tagged(s) : f[x] = y
    OBVIOUS
  <2> DEFINE x == <<(n - y[1]) + 1, y[2]>>
  <2>2. x \in Tagged(s)
    BY <1>1, <1>4, <1>5
  <2>3. f[x] = y
    BY <1>1, <1>5, <2>2
  <2> QED
    BY <2>2, <2>3
<1> HIDE DEF f
<1> QED
  BY <1>7, <1>8, <1>9, Renamed
\* Sequences of sets of the same sizes have as many members: a first prefix for
\* which they had not would have a last set to blame.
LEMMA SameSizes ==
  ASSUME NEW n \in Nat, NEW s, NEW t, DOMAIN s = 1 .. n, DOMAIN t = 1 .. n,
         \A k \in 1 .. n : IsFiniteSet(s[k]) /\ IsFiniteSet(t[k]) /\ Cardinality(s[k]) = Cardinality(t[k])
  PROVE  IsFiniteSet(Tagged(s)) /\ Cardinality(Tagged(s)) = Cardinality(Tagged(t))
<1> DEFINE S(m) == [k \in 1 .. m |-> s[k]]
           T(m) == [k \in 1 .. m |-> t[k]]
           Bad == {m \in Nat : m <= n /\ Cardinality(Tagged(S(m))) # Cardinality(Tagged(T(m)))}
<1>1. \A m \in Nat : m <= n => IsFiniteSet(Tagged(S(m))) /\ IsFiniteSet(Tagged(T(m)))
  <2>1. SUFFICES ASSUME NEW m \in Nat, m <= n
                 PROVE  IsFiniteSet(Tagged(S(m))) /\ IsFiniteSet(Tagged(T(m)))
    OBVIOUS
  <2>2. /\ DOMAIN S(m) = 1 .. m /\ DOMAIN T(m) = 1 .. m
        /\ \A k \in 1 .. m : IsFiniteSet(S(m)[k]) /\ IsFiniteSet(T(m)[k])
    BY <2>1
  <2> HIDE DEF S, T
  <2> QED
    BY <2>2, TaggedFinite
<1>2. Bad = {}
  <2>1. SUFFICES ASSUME Bad # {}
                 PROVE  FALSE
    OBVIOUS
  <2>2. PICK m \in Bad : \A j \in Bad : m <= j
    <3>1. Bad \in SUBSET Nat
      OBVIOUS
    <3> HIDE DEF Bad
    <3> QED
      BY <2>1, <3>1, LeastNat
  <2>3. m \in Nat /\ m <= n /\ Cardinality(Tagged(S(m))) # Cardinality(Tagged(T(m)))
    BY <2>2
  <2>4. m # 0
    <3>1. DOMAIN S(0) = {} /\ DOMAIN T(0) = {}
      OBVIOUS
    <3>2. Cardinality(Tagged(S(0))) = 0 /\ Cardinality(Tagged(T(0))) = 0
      <4> HIDE DEF S, T
      <4> QED
        BY <3>1, TaggedEmpty
    <3> QED
      BY <2>3, <3>2
  <2> DEFINE p == m - 1
  <2>5. p \in Nat /\ p \notin Bad /\ m \in 1 .. n /\ m = p + 1 /\ p <= n
    BY <2>2, <2>3, <2>4
  <2>6. Cardinality(Tagged(S(p))) = Cardinality(Tagged(T(p)))
    BY <2>3, <2>5
  <2>7. /\ DOMAIN S(p) = 1 .. p /\ DOMAIN S(m) = 1 .. p + 1 /\ S(m)[p + 1] = s[m]
        /\ DOMAIN T(p) = 1 .. p /\ DOMAIN T(m) = 1 .. p + 1 /\ T(m)[p + 1] = t[m]
        /\ \A k \in 1 .. p : S(m)[k] = S(p)[k] /\ T(m)[k] = T(p)[k]
    BY <2>3, <2>5
  <2>8. IsFiniteSet(s[m]) /\ IsFiniteSet(t[m]) /\ Cardinality(s[m]) = Cardinality(t[m])
    BY <2>5
  <2>9. IsFiniteSet(Tagged(S(p))) /\ IsFiniteSet(Tagged(T(p)))
    BY <1>1, <2>5
  <2> HIDE DEF S, T, Bad, p
  <2>10. Cardinality(Tagged(S(m))) = Cardinality(Tagged(S(p))) + Cardinality(s[m])
    BY <2>5, <2>7, <2>8, <2>9, TaggedAppend
  <2>11. Cardinality(Tagged(T(m))) = Cardinality(Tagged(T(p))) + Cardinality(t[m])
    BY <2>5, <2>7, <2>8, <2>9, TaggedAppend
  <2> QED
    BY <2>3, <2>6, <2>8, <2>10, <2>11
<1>3. Cardinality(Tagged(S(n))) = Cardinality(Tagged(T(n))) /\ IsFiniteSet(Tagged(S(n)))
  BY <1>1, <1>2
<1>4. Tagged(S(n)) = Tagged(s) /\ Tagged(T(n)) = Tagged(t)
  BY DEF Tagged
<1> QED
  BY <1>3, <1>4

----------------------------------------------------------------------------
\* What a name resolves to.

Later(s, t) == t[1] < s[1] \/ (t[1] = s[1] /\ t[2] <= s[2])

\* What Sites is: each place of each open block, and Bound its entry.
LEMMA SitesAre ==
  ASSUME F.blocks \in Seq(BlockType)
  PROVE  /\ \A s \in Sites : /\ s = <<s[1], s[2]>>
                             /\ s[1] \in DOMAIN F.blocks /\ s[1] \in 1 .. Len(F.blocks)
                             /\ s[2] \in DOMAIN F.blocks[s[1]].names
                             /\ s[2] \in 1 .. Len(F.blocks[s[1]].names)
                             /\ Bound(s) \in EntryType
         /\ \A b \in DOMAIN F.blocks : \A k \in DOMAIN F.blocks[b].names : <<b, k>> \in Sites
         /\ \A b \in DOMAIN F.blocks : /\ F.blocks[b] \in BlockType
                                       /\ F.blocks[b].names \in Seq(EntryType)
<1> DEFINE B == F.blocks
<1>1. B \in Seq(BlockType)
  OBVIOUS
<1> HIDE DEF B
<1>2. DOMAIN B = 1 .. Len(B) /\ \A b \in DOMAIN B : B[b] \in BlockType
  BY <1>1
<1>3. \A b \in DOMAIN B : B[b].names \in Seq(EntryType)
  BY <1>2 DEF BlockType
<1>4. \A b \in DOMAIN B : /\ DOMAIN B[b].names = 1 .. Len(B[b].names)
                          /\ \A k \in DOMAIN B[b].names : B[b].names[k] \in EntryType
  BY <1>3
<1>5. Sites = UNION {{b} \X DOMAIN B[b].names : b \in DOMAIN B}
  BY DEF Sites, Tagged, B
<1>6. \A s \in Sites : /\ s = <<s[1], s[2]>>
                       /\ s[1] \in DOMAIN B /\ s[2] \in DOMAIN B[s[1]].names
  BY <1>5
<1>7. \A b \in DOMAIN B : \A k \in DOMAIN B[b].names : <<b, k>> \in Sites
  BY <1>5
<1>8. \A s \in Sites : Bound(s) \in EntryType
  BY <1>4, <1>6 DEF Bound, B
<1> QED
  BY <1>2, <1>3, <1>4, <1>6, <1>7, <1>8 DEF B

\* A binding with none after it is what the name resolves to.
LEMMA ResolveIs ==
  ASSUME F.blocks \in Seq(BlockType), NEW n, NEW s \in Bindings(n),
         \A t \in Bindings(n) : Later(s, t)
  PROVE  Resolve(n) = s
<1>1. \A t \in Bindings(n) : /\ t = <<t[1], t[2]>> /\ t[1] \in Int /\ t[2] \in Int
  BY SitesAre DEF Bindings
<1>2. ASSUME NEW t \in Bindings(n), \A u \in Bindings(n) : Later(t, u)
      PROVE  t = s
  <2>1. Later(s, t) /\ Later(t, s)
    BY <1>2
  <2>2. t[1] = s[1] /\ t[2] = s[2]
    BY <1>1, <2>1 DEF Later
  <2> QED
    BY <1>1, <2>2
<1>3. Resolve(n) = CHOOSE t \in Bindings(n) : \A u \in Bindings(n) : Later(t, u)
  BY DEF Resolve, Later
<1> QED
  BY <1>2, <1>3

\* A name that is bound resolves to a binding, and to the last of them: take the
\* binding nearest the end of the blocks, and then of the names.
LEMMA ResolveExists ==
  ASSUME F.blocks \in Seq(BlockType), NEW n, Bindings(n) # {}
  PROVE  /\ Resolve(n) \in Bindings(n) /\ Resolve(n) \in Sites
         /\ \A t \in Bindings(n) : Later(Resolve(n), t)
         /\ Holds(n) \in Addr \cup {Null} /\ Bound(Resolve(n)).name = n
<1> DEFINE m == Len(F.blocks)
           Far == {m - s[1] : s \in Bindings(n)}
<1>1. m \in Nat /\ \A t \in Bindings(n) : /\ t \in Sites /\ t[1] \in 1 .. m
                              /\ t[2] \in 1 .. Len(F.blocks[t[1]].names)
                              /\ Len(F.blocks[t[1]].names) \in Nat
                              /\ Bound(t) \in EntryType /\ Bound(t).name = n
  <2>1. \A b \in DOMAIN F.blocks : F.blocks[b].names \in Seq(EntryType)
    BY SitesAre
  <2> QED
    BY <2>1, SitesAre DEF Bindings
<1>2. PICK p \in Far : \A q \in Far : p <= q
  <2>1. Far \in SUBSET Nat /\ Far # {}
    <3> HIDE DEF m
    <3> QED
      BY <1>1
  <2> HIDE DEF Far
  <2> QED
    BY <2>1, LeastNat
<1> DEFINE d == m - p
           len == Len(F.blocks[d].names)
           Near == {t \in Bindings(n) : t[1] = d}
           Back == {len - t[2] : t \in Near}
<1>3. Near # {} /\ \A t \in Bindings(n) : t[1] <= d
  <2>1. PICK s \in Bindings(n) : p = m - s[1]
    BY <1>2
  <2> HIDE DEF m
  <2>2. s[1] = m - p
    BY <1>1, <2>1
  <2>3. s \in Near
    BY <2>2
  <2>4. \A t \in Bindings(n) : p <= m - t[1]
    BY <1>2
  <2>5. \A t \in Bindings(n) : t[1] <= m - p
    BY <1>1, <2>1, <2>4
  <2> QED
    BY <2>3, <2>5
<1>4. \A t \in Near : t[2] \in 1 .. len /\ len \in Nat
  BY <1>1
<1>5. PICK q \in Back : \A r \in Back : q <= r
  <2>1. Back \in SUBSET Nat /\ Back # {}
    <3> HIDE DEF len, Near
    <3> QED
      BY <1>3, <1>4
  <2> HIDE DEF Back
  <2> QED
    BY <2>1, LeastNat
<1>6. PICK s \in Near : q = len - s[2]
  BY <1>5
<1>7. \A t \in Near : t[2] <= s[2]
  <2>1. \A t \in Near : q <= len - t[2]
    BY <1>5
  <2> HIDE DEF len, Near
  <2> QED
    BY <1>4, <1>6, <2>1
<1>8. s \in Bindings(n) /\ s[1] = d
  OBVIOUS
<1>9. \A t \in Bindings(n) : t[1] < d \/ t[1] = d
  <2>1. d \in Int
    BY <1>1, <1>8
  <2> HIDE DEF d
  <2> QED
    BY <1>1, <1>3, <2>1
<1>10. \A t \in Bindings(n) : Later(s, t)
  <2> HIDE DEF d
  <2> QED
    BY <1>7, <1>8, <1>9 DEF Later
<1>11. Resolve(n) = s
  BY <1>8, <1>10, ResolveIs
<1> QED
  BY <1>1, <1>8, <1>10, <1>11 DEF Holds, EntryType

----------------------------------------------------------------------------
\* What the end of a block releases.

\* The positions at which the names of a block give their references up.
LEMMA OwnedIs ==
  ASSUME F.blocks \in Seq(BlockType), NEW b \in DOMAIN F.blocks, NEW S, NEW a,
         \A k \in DOMAIN F.blocks[b].names :
            F.blocks[b].names[k].own => /\ Holds(F.blocks[b].names[k].name) = F.blocks[b].names[k].ref
                                        /\ F.blocks[b].names[k].ref \in S
  PROVE  /\ Owned(b) \in Seq(S)
         /\ Cardinality(Places(Owned(b), a)) = NamesOwned(F.blocks[b].names, a)
         /\ NamesOwned(F.blocks[b].names, a) \in Nat
<1> DEFINE N == F.blocks[b].names
           n == Len(N)
           g == [k \in DOMAIN N |-> IF N[k].own THEN <<Holds(N[k].name)>> ELSE <<>>]
           r == Reverse(g)
           P == [k \in 1 .. n |-> Places(g[k], a)]
           Q == [k \in DOMAIN r |-> Places(r[k], a)]
           O == OwnNames(N, a)
<1>1. N \in Seq(EntryType) /\ n \in Nat /\ DOMAIN N = 1 .. n
  <2>1. N \in Seq(EntryType)
    BY SitesAre
  <2> QED
    BY <2>1
<1>2. Owned(b) = FlattenSeq(r)
  BY DEF Owned
<1>3. /\ DOMAIN g = 1 .. n
      /\ \A k \in 1 .. n : g[k] = IF N[k].own THEN <<N[k].ref>> ELSE <<>>
      /\ \A k \in 1 .. n : N[k].own => N[k].ref \in S
  BY <1>1
<1>4. Len(g) = n /\ g \in Seq(Seq(S))
  <2>1. g \in [1 .. n -> Seq(S)]
    BY <1>1, <1>3
  <2> HIDE DEF g, n
  <2> QED
    BY <1>1, <2>1, MakeSeq
<1> HIDE DEF g, n, N
<1>5. /\ r \in Seq(Seq(S)) /\ DOMAIN r = 1 .. n
      /\ \A k \in 1 .. n : r[k] = g[(n - k) + 1]
  <2>1. r = [i \in 1 .. n |-> g[(n - i) + 1]]
    BY <1>4 DEF Reverse
  <2>2. \A i \in 1 .. n : (n - i) + 1 \in 1 .. n
    BY <1>1
  <2>3. \A i \in 1 .. n : g[(n - i) + 1] \in Seq(S)
    BY <1>3, <1>4, <2>2
  <2>4. \A i \in 1 .. n : r[i] \in Seq(S) /\ DOMAIN r = 1 .. n
    BY <2>1, <2>3
  <2> QED
    BY <1>1, <2>1, <2>4
<1> HIDE DEF r
<1>6. /\ Owned(b) \in Seq(S)
      /\ Cardinality(Places(Owned(b), a)) = Cardinality(Tagged(Q))
  BY <1>2, <1>5, FlattenIs
<1>7. \A k \in 1 .. n : P[k] = IF k \in O THEN {1} ELSE {}
  BY <1>1, <1>3 DEF Places, OwnNames
<1>8. IsFiniteSet(O) /\ Cardinality(O) \in Nat
  BY <1>1, CountsFinite
<1>9. IsFiniteSet(Tagged(P)) /\ Cardinality(Tagged(P)) = Cardinality(O)
  <2> DEFINE f == [k \in O |-> <<k, 1>>]
  <2>1. O \subseteq 1 .. n /\ DOMAIN P = 1 .. n
    BY <1>1 DEF OwnNames
  <2> HIDE DEF P, O
  <2>2. \A x : x \in Tagged(P) <=> \E k \in O : x = <<k, 1>>
    BY <1>7, <2>1 DEF Tagged
  <2>3. f \in [O -> Tagged(P)]
    BY <2>2
  <2>4. \A x, z \in O : f[x] = f[z] => x = z
    OBVIOUS
  <2>5. \A y \in Tagged(P) : \E x \in O : f[x] = y
    BY <2>2
  <2> HIDE DEF f
  <2> QED
    BY <1>8, <2>3, <2>4, <2>5, Renamed
<1>10. DOMAIN P = 1 .. n /\ DOMAIN Q = 1 .. n /\ \A k \in 1 .. n : Q[k] = P[(n - k) + 1]
  BY <1>1, <1>5
<1>11. Cardinality(Tagged(Q)) = Cardinality(Tagged(P))
  <2> HIDE DEF P, Q
  <2> QED
    BY <1>1, <1>9, <1>10, TaggedReverse
<1> QED
  BY <1>6, <1>8, <1>9, <1>11 DEF NamesOwned, N

\* A block with nothing to release has recorded no name as its own.
LEMMA OwnedNone ==
  ASSUME F.blocks \in Seq(BlockType), NEW b \in DOMAIN F.blocks, Owned(b) = <<>>
  PROVE  \A k \in DOMAIN F.blocks[b].names : ~F.blocks[b].names[k].own
<1>1. SUFFICES ASSUME NEW k \in DOMAIN F.blocks[b].names, F.blocks[b].names[k].own
               PROVE  FALSE
  OBVIOUS
<1> DEFINE N == F.blocks[b].names
           n == Len(N)
           g == [j \in DOMAIN N |-> IF N[j].own THEN <<Holds(N[j].name)>> ELSE <<>>]
           r == Reverse(g)
           S == {Holds(N[j].name) : j \in DOMAIN N}
           a == Holds(N[k].name)
           Q == [j \in DOMAIN r |-> Places(r[j], a)]
<1>2. n \in Nat /\ DOMAIN N = 1 .. n
  <2>1. N \in Seq(EntryType)
    BY SitesAre
  <2> QED
    BY <2>1
<1>3. Owned(b) = FlattenSeq(r)
  BY DEF Owned
<1>4. /\ g \in [1 .. n -> Seq(S)] /\ DOMAIN g = 1 .. n /\ \A j \in 1 .. n : g[j] \in Seq(S)
      /\ k \in 1 .. n /\ g[k] = <<a>>
  <2>1. \A j \in 1 .. n : Holds(N[j].name) \in S
    BY <1>2
  <2>2. N[k].own /\ k \in 1 .. n
    BY <1>1, <1>2
  <2> HIDE DEF S, n, N
  <2>3. \A j \in 1 .. n : g[j] \in Seq(S)
    BY <1>2, <2>1
  <2> QED
    BY <1>2, <2>2, <2>3
<1> HIDE DEF g, n, N, S, a
<1>5. Len(g) = n /\ g \in Seq(Seq(S))
  BY <1>2, <1>4, MakeSeq
<1>6. /\ r \in Seq(Seq(S)) /\ DOMAIN r = 1 .. n
      /\ (n - k) + 1 \in 1 .. n /\ r[(n - k) + 1] = <<a>>
  <2>1. r = [i \in 1 .. n |-> g[(n - i) + 1]]
    BY <1>5 DEF Reverse
  <2>2. \A i \in 1 .. n : (n - i) + 1 \in 1 .. n
    BY <1>2
  <2>3. \A i \in 1 .. n : r[i] \in Seq(S) /\ DOMAIN r = 1 .. n
    BY <1>4, <2>1, <2>2
  <2>4. (n - ((n - k) + 1)) + 1 = k /\ (n - k) + 1 \in 1 .. n
    BY <1>2, <1>4
  <2>5. r[(n - k) + 1] = g[(n - ((n - k) + 1)) + 1]
    BY <2>1, <2>4
  <2> QED
    BY <1>2, <1>4, <2>1, <2>3, <2>4, <2>5
<1> HIDE DEF r
<1>7. /\ Cardinality(Places(Owned(b), a)) = Cardinality(Tagged(Q))
      /\ IsFiniteSet(Tagged(Q))
  BY <1>3, <1>6, FlattenIs
<1>8. <<(n - k) + 1, 1>> \in Tagged(Q)
  <2>1. 1 \in Places(<<a>>, a)
    BY DEF Places
  <2>2. (n - k) + 1 \in DOMAIN Q /\ 1 \in Q[(n - k) + 1]
    BY <1>6, <2>1
  <2> HIDE DEF Q
  <2> QED
    BY <2>2 DEF Tagged
<1>9. Cardinality(Tagged(Q)) # 0
  <2> HIDE DEF Q
  <2> QED
    BY <1>7, <1>8, FS_EmptySet
<1>10. Cardinality(Places(<<>>, a)) = 0
  <2>1. Places(<<>>, a) = {}
    BY DEF Places
  <2> QED
    BY <2>1, FS_EmptySet
<1> QED
  BY <1>7, <1>9, <1>10

\* The positions at which every open block gives its names' references up.
LEMMA AllOpenIs ==
  ASSUME F.blocks \in Seq(BlockType), NEW S, NEW a,
         \A b \in DOMAIN F.blocks : \A k \in DOMAIN F.blocks[b].names :
            F.blocks[b].names[k].own => /\ Holds(F.blocks[b].names[k].name) = F.blocks[b].names[k].ref
                                        /\ F.blocks[b].names[k].ref \in S
  PROVE  /\ AllOpen \in Seq(S)
         /\ Cardinality(Places(AllOpen, a)) = Cardinality(OwnBlocks(F.blocks, a))
<1> DEFINE n == Len(F.blocks)
           g == [b \in 1 .. n |-> Owned(b)]
           r == Reverse(g)
           P == [b \in DOMAIN F.blocks |-> OwnNames(F.blocks[b].names, a)]
           R == [k \in 1 .. n |-> Places(g[k], a)]
           Q == [k \in DOMAIN r |-> Places(r[k], a)]
<1>1. n \in Nat /\ DOMAIN F.blocks = 1 .. n
  OBVIOUS
<1>2. \A b \in 1 .. n : /\ g[b] \in Seq(S)
                        /\ Cardinality(R[b]) = Cardinality(P[b])
                        /\ IsFiniteSet(R[b]) /\ IsFiniteSet(P[b])
  <2>1. SUFFICES ASSUME NEW b \in 1 .. n
                 PROVE  /\ g[b] \in Seq(S)
                        /\ Cardinality(R[b]) = Cardinality(P[b])
                        /\ IsFiniteSet(R[b]) /\ IsFiniteSet(P[b])
    OBVIOUS
  <2>2. b \in DOMAIN F.blocks
    BY <1>1
  <2>3. /\ Owned(b) \in Seq(S)
        /\ Cardinality(Places(Owned(b), a)) = NamesOwned(F.blocks[b].names, a)
    BY <2>2, OwnedIs
  <2>4. g[b] = Owned(b) /\ R[b] = Places(Owned(b), a) /\ P[b] = OwnNames(F.blocks[b].names, a)
    BY <2>2
  <2>5. F.blocks[b].names \in Seq(EntryType)
    BY <2>2, SitesAre
  <2> QED
    BY <2>3, <2>4, <2>5, CountsFinite DEF NamesOwned
<1>3. AllOpen = FlattenSeq(r)
  BY DEF AllOpen
<1>4. Len(g) = n /\ g \in Seq(Seq(S)) /\ DOMAIN g = 1 .. n
  <2>1. DOMAIN g = 1 .. n /\ g \in [1 .. n -> Seq(S)]
    BY <1>2
  <2> HIDE DEF g, n
  <2> QED
    BY <1>1, <2>1, MakeSeq
<1> HIDE DEF g, n
<1>5. /\ r \in Seq(Seq(S)) /\ DOMAIN r = 1 .. n
      /\ \A k \in 1 .. n : r[k] = g[(n - k) + 1]
  <2>1. r = [i \in 1 .. n |-> g[(n - i) + 1]]
    BY <1>4 DEF Reverse
  <2>2. \A i \in 1 .. n : (n - i) + 1 \in 1 .. n
    BY <1>1
  <2>3. \A i \in 1 .. n : r[i] \in Seq(S) /\ DOMAIN r = 1 .. n
    BY <1>2, <2>1, <2>2
  <2> QED
    BY <1>1, <2>1, <2>3
<1> HIDE DEF r
<1>6. /\ AllOpen \in Seq(S)
      /\ Cardinality(Places(AllOpen, a)) = Cardinality(Tagged(Q))
  BY <1>3, <1>5, FlattenIs
<1>7. DOMAIN R = 1 .. n /\ DOMAIN P = 1 .. n /\ DOMAIN Q = 1 .. n
      /\ \A k \in 1 .. n : Q[k] = R[(n - k) + 1]
  BY <1>1, <1>5
<1>8. \A k \in 1 .. n : IsFiniteSet(R[k]) /\ IsFiniteSet(P[k]) /\ Cardinality(R[k]) = Cardinality(P[k])
  BY <1>2
<1> HIDE DEF P, Q, R
<1>9. IsFiniteSet(Tagged(R)) /\ Cardinality(Tagged(R)) = Cardinality(Tagged(P))
  BY <1>1, <1>7, <1>8, SameSizes
<1>10. Cardinality(Tagged(Q)) = Cardinality(Tagged(R))
  BY <1>1, <1>7, <1>9, TaggedReverse
<1> QED
  BY <1>6, <1>9, <1>10 DEF OwnBlocks, P

----------------------------------------------------------------------------
\* The invariant.

\* The restrictions a program may lift and still free nothing early: under them
\* a reference goes without a release, and no count is ever short.
Leaks == {"break", "bareReturn", "loopReturn", "nullary"}

\* What a count says over what will be given back.
Excess(a) == hdr[a] - Claims(a) - Cardinality(Heap!Words(a))
Surplus(a) == mem[a] = "heap" /\ Excess(a) > 0

\* No count is short, and none is over in a program without a hazard.
Counts == \A a \in Addr : mem[a] = "heap" => Excess(a) >= 0 /\ (lifted = {} => Excess(a) = 0)

\* The variables of the heap have their types.
HeapTyped ==
  /\ mem \in [Addr -> {"none", "heap", "frame", "const"}]
  /\ hdr \in [Addr -> Int]
  /\ body \in [Addr -> [1 .. Width -> Addr \cup {Null}]]
  /\ dropping \in Seq(Addr)
  /\ payload \in [Addr -> Addr \cup {Null}]

\* Every variable has its type.
Typed ==
  /\ HeapTyped
  /\ lost \in [Addr -> 0 .. MaxLost]
  /\ due \in Seq(Addr)
  /\ frames \in Seq(FrameType)

\* Constants and frame values are immortal, only heap values have words, a word
\* holds a heap value or a constant, and the values being dropped are the heap
\* values with count zero.
Placed ==
  /\ \A a \in Addr : mem[a] = "const" <=> a \in Const
  /\ \A a \in Addr : mem[a] \in {"const", "frame"} => hdr[a] = Heap!Immortal
  /\ \A a \in Addr : mem[a] # "heap" => body[a] = Heap!Empty
  /\ \A a \in Addr, i \in 1 .. Width : body[a][i] # Null => mem[body[a][i]] \in {"heap", "const"}
  /\ \A a \in Addr : payload[a] \in Const \cup {Null}
  /\ \A k \in DOMAIN dropping : mem[dropping[k]] = "heap" /\ hdr[dropping[k]] = 0
  /\ \A k, l \in DOMAIN dropping : k # l => dropping[k] # dropping[l]
  /\ \A a \in Addr : mem[a] = "heap" /\ hdr[a] = 0 => \E k \in DOMAIN dropping : dropping[k] = a

\* No value is inside itself: owners can be ranked above what they own.
OwnersAbove(rank) ==
  \A a \in Addr, i \in 1 .. Width : body[a][i] # Null => rank[a] > rank[body[a][i]]
NoCircle == \E rank \in [Addr -> Nat] : OwnersAbove(rank)

\* What is about to be released is there, and only heap values are lost.
Dues ==
  /\ \A k \in DOMAIN due : mem[due[k]] # "none"
  /\ \A a \in Addr : lost[a] > 0 => mem[a] = "heap"

\* The blocks of a frame: the function's first, the arms innermost; no block has
\* a name twice, and what an arm binds it does not own.
Shape(f) ==
  /\ f.blocks # <<>>
  /\ \A b \in DOMAIN f.blocks : f.blocks[b].kind = "fn" <=> b = 1
  /\ \A b, c \in DOMAIN f.blocks : b < c /\ f.blocks[b].kind = "arm" => f.blocks[c].kind = "arm"
  /\ \A b \in DOMAIN f.blocks : \A j, k \in DOMAIN f.blocks[b].names :
        j # k => f.blocks[b].names[j].name # f.blocks[b].names[k].name
  /\ \A b \in DOMAIN f.blocks : \A k \in DOMAIN f.blocks[b].names :
        f.blocks[b].names[k].own => f.blocks[b].names[k].ref # Null /\ f.blocks[b].kind # "arm"
  /\ ~f.transient => f.scratch = {}

\* The variable of a loop over an array is the last name of the block the loop
\* stands in.
AtVar(f, l, b, k) == f.loops[l].arr # Null /\ b = f.loops[l].depth /\ k = Len(f.blocks[b].names)

\* Where the loop of a frame stands.
LoopAt(f, l) ==
  LET d == f.loops[l].depth
  IN /\ d \in DOMAIN f.blocks /\ f.blocks[d].kind # "arm"
     /\ d < Len(f.blocks) => f.blocks[d + 1].kind = "loop"
     /\ d = Len(f.blocks) => f.vals = <<>> /\ ~f.transient
     /\ f.loops[l].mine => f.loops[l].arr # Null
     /\ f.loops[l].arr # Null =>
          /\ f.blocks[d].names # <<>>
          /\ \A b \in 1 .. d : \A k \in DOMAIN f.blocks[b].names :
               /\ f.blocks[b].names[k].name = f.loops[l].var <=> AtVar(f, l, b, k)
               /\ AtVar(f, l, b, k) => ~f.blocks[b].names[k].own

\* The loops of a frame, outermost first, each in a block further in.
LoopShape(f) ==
  /\ \A l \in DOMAIN f.loops : LoopAt(f, l)
  /\ \A l, m \in DOMAIN f.loops : l < m => f.loops[l].depth < f.loops[m].depth

\* A frame that waits for a call is not at the head of a loop.
Waiting(n) ==
  n < Len(frames) =>
    \A l \in DOMAIN frames[n].loops : frames[n].loops[l].depth < Len(frames[n].blocks)

\* What a consumed expression has on the frame no name holds, and no caller knows.
NameAt(f, a) == \E b \in DOMAIN f.blocks : \E k \in DOMAIN f.blocks[b].names : f.blocks[b].names[k].ref = a
Refs(f) ==
  {a \in Addr : \/ NameAt(f, a) \/ a \in f.scratch
                \/ \E k \in DOMAIN f.vals : f.vals[k].ref = a
                \/ \E k \in DOMAIN f.spent : f.spent[k] = a}
ScratchAt(n) ==
  \A a \in frames[n].scratch :
    /\ mem[a] = "frame" /\ ~NameAt(frames[n], a)
    /\ \A f \in DOMAIN frames : f < n => a \notin Refs(frames[f])

\* What a frame will give up is there; an aggregate on the heap whose elements
\* are still being evaluated has a count of one.
LiveName(e) == e.own => mem[e.ref] # "none"
LiveVal(v) ==
  /\ v.st # "borrow" => mem[v.ref] # "none"
  /\ v.st = "building" => mem[v.ref] # "const"
  /\ v.st = "building" /\ mem[v.ref] = "heap" => hdr[v.ref] = 1
LiveArr(l) == l.arr # Null => mem[l.arr] = "heap"
Lives(f) ==
  /\ \A b \in DOMAIN f.blocks : \A k \in DOMAIN f.blocks[b].names : LiveName(f.blocks[b].names[k])
  /\ \A k \in DOMAIN f.vals : LiveVal(f.vals[k])
  /\ \A k \in DOMAIN f.spent : mem[f.spent[k]] # "none"
  /\ \A l \in DOMAIN f.loops : LiveArr(f.loops[l])

\* Who keeps a value for frame n, as long as the blocks up to d are open: the
\* names of those blocks, the loops that stand below the last of them, everything
\* in the callers, and a count that is over or already lost.
Keeps(f, d, a) ==
  \/ \E b \in DOMAIN f.blocks : b <= d /\
       \E k \in DOMAIN f.blocks[b].names : f.blocks[b].names[k].own /\ f.blocks[b].names[k].ref = a
  \/ \E l \in DOMAIN f.loops : f.loops[l].depth < d /\ f.loops[l].mine /\ f.loops[l].arr = a
KeepsAll(f, a) == Keeps(f, Len(f.blocks), a) \/ \E k \in DOMAIN f.spent : f.spent[k] = a
Kept(n, d, a) ==
  \/ Surplus(a) \/ lost[a] > 0 \/ Keeps(frames[n], d, a)
  \/ \E g \in 1 .. n - 1 : KeepsAll(frames[g], a)

\* A borrowed reference is to a value that is never released, or to one inside a
\* value somebody keeps.
Guard(n, d, r) ==
  \/ mem[r] \in {"const", "frame"}
  \/ \E a \in Addr : mem[a] = "heap" /\ Kept(n, d, a) /\ r \in Inside(a)

\* Every borrowed reference of a frame is guarded: an operand by what is open
\* now, an array by what was open where the loop stands, a name for good, and a
\* loop's variable by the array.
GuardVals(n) ==
  \A k \in DOMAIN frames[n].vals :
    frames[n].vals[k].st = "borrow" => Guard(n, Len(frames[n].blocks), frames[n].vals[k].ref)
GuardLoops(n) ==
  \A l \in DOMAIN frames[n].loops :
    frames[n].loops[l].arr # Null /\ ~frames[n].loops[l].mine =>
      Guard(n, frames[n].loops[l].depth, frames[n].loops[l].arr)
GuardName(n, b, k) ==
  LET e == frames[n].blocks[b].names[k]
  IN \/ e.own
     \/ /\ frames[n].blocks[b].kind = "arm" /\ e.ref # Null
        /\ Guard(n, Len(frames[n].blocks), e.ref)
     \/ frames[n].blocks[b].kind # "arm" /\ e.ref # Null /\ Guard(n, 0, e.ref)
     \/ /\ frames[n].blocks[b].kind # "arm"
        /\ \E l \in DOMAIN frames[n].loops :
             /\ AtVar(frames[n], l, b, k)
             /\ e.ref # Null => \E i \in 1 .. Width : body[frames[n].loops[l].arr][i] = e.ref
GuardNames(n) ==
  \A b \in DOMAIN frames[n].blocks : \A k \in DOMAIN frames[n].blocks[b].names : GuardName(n, b, k)

\* What holds of every frame.
FrameOK(n) ==
  /\ Shape(frames[n]) /\ LoopShape(frames[n]) /\ Waiting(n)
  /\ ScratchAt(n) /\ Lives(frames[n])
  /\ GuardVals(n) /\ GuardLoops(n) /\ GuardNames(n)

\* main is called by nobody; the running frame waits for no call.
Bottom == frames # <<>> => frames[1].unit /\ frames[Len(frames)].spent = <<>>

\* The invariant, and where it is claimed.
Core ==
  /\ Typed /\ Counts /\ Placed /\ NoCircle /\ Dues /\ Bottom
  /\ \A n \in DOMAIN frames : FrameOK(n)

OwnInv == lifted \subseteq Leaks => Core

----------------------------------------------------------------------------
\* Owners on the heap.

\* Finitely many words hold a value.
LEMMA WordsFinite ==
  ASSUME NEW a
  PROVE  IsFiniteSet(Heap!Words(a)) /\ Cardinality(Heap!Words(a)) \in Nat
<1>1. IsFiniteSet(Addr \X (1 .. Width))
  <2>1. IsFiniteSet(1 .. Width) /\ IsFiniteSet(Addr)
    BY FS_Interval, OwnershipAssumption
  <2> QED
    BY <2>1, FS_Product
<1>2. Heap!Words(a) \in SUBSET (Addr \X (1 .. Width))
  BY DEF Heap!Words, Heap!Idx
<1> QED
  BY <1>1, <1>2, FS_Subset, FS_CardinalityType

\* Where no word changes, the words that hold a value stay.
LEMMA SameWords ==
  ASSUME body' = body
  PROVE  \A a : Heap!Words(a)' = Heap!Words(a)
BY DEF Heap!Words, Heap!Idx

\* Filling an empty word gives the value stored one more owner on the heap.
LEMMA FillWord ==
  ASSUME HeapTyped, NEW p \in Addr, NEW i \in 1 .. Width, NEW v \in Addr,
         body[p][i] = Null, body' = [body EXCEPT ![p][i] = v]
  PROVE  /\ Cardinality(Heap!Words(v)') = Cardinality(Heap!Words(v)) + 1
         /\ \A a \in Addr : a # v => Heap!Words(a)' = Heap!Words(a)
<1>1. v # Null
  BY OwnershipAssumption
<1>2. \A w \in Addr \X (1 .. Width) :
        body'[w[1]][w[2]] = IF w = <<p, i>> THEN v ELSE body[w[1]][w[2]]
  <2>1. body \in [Addr -> [1 .. Width -> Addr \cup {Null}]]
    BY DEF HeapTyped
  <2>2. \A x \in Addr, y \in 1 .. Width : body'[x][y] = IF x = p /\ y = i THEN v ELSE body[x][y]
    BY <2>1
  <2>3. \A w \in Addr \X (1 .. Width) :
          w[1] \in Addr /\ w[2] \in 1 .. Width /\ (w = <<p, i>> <=> w[1] = p /\ w[2] = i)
    OBVIOUS
  <2> QED
    BY <2>2, <2>3
<1>3. Heap!Words(v)' = Heap!Words(v) \cup {<<p, i>>}
  BY <1>2 DEF Heap!Words, Heap!Idx
<1>4. <<p, i>> \notin Heap!Words(v)
  BY <1>1 DEF Heap!Words
<1>5. \A a \in Addr : a # v => Heap!Words(a)' = Heap!Words(a)
  BY <1>2, OwnershipAssumption DEF Heap!Words, Heap!Idx
<1>6. Cardinality(Heap!Words(v)') = Cardinality(Heap!Words(v)) + 1
  BY <1>3, <1>4, WordsFinite, FS_AddElement
<1> QED
  BY <1>5, <1>6

\* Clearing a word takes one owner on the heap from the value it held.
LEMMA ClearWord ==
  ASSUME HeapTyped, NEW p \in Addr, NEW i \in 1 .. Width, NEW v \in Addr,
         body[p][i] = v, body' = [body EXCEPT ![p][i] = Null]
  PROVE  /\ Cardinality(Heap!Words(v)) = Cardinality(Heap!Words(v)') + 1
         /\ Cardinality(Heap!Words(v)') \in Nat
         /\ \A a \in Addr : a # v => Heap!Words(a)' = Heap!Words(a)
<1>1. \A w \in Addr \X (1 .. Width) :
        body'[w[1]][w[2]] = IF w = <<p, i>> THEN Null ELSE body[w[1]][w[2]]
  <2>1. body \in [Addr -> [1 .. Width -> Addr \cup {Null}]]
    BY DEF HeapTyped
  <2>2. \A x \in Addr, y \in 1 .. Width : body'[x][y] = IF x = p /\ y = i THEN Null ELSE body[x][y]
    BY <2>1
  <2>3. \A w \in Addr \X (1 .. Width) :
          w[1] \in Addr /\ w[2] \in 1 .. Width /\ (w = <<p, i>> <=> w[1] = p /\ w[2] = i)
    OBVIOUS
  <2> QED
    BY <2>2, <2>3
<1>2. Heap!Words(v)' = Heap!Words(v) \ {<<p, i>>}
  BY <1>1, OwnershipAssumption DEF Heap!Words, Heap!Idx
<1>3. <<p, i>> \in Heap!Words(v)
  BY DEF Heap!Words, Heap!Idx
<1>4. \A a \in Addr : a # v => Heap!Words(a)' = Heap!Words(a)
  BY <1>1, OwnershipAssumption DEF Heap!Words, Heap!Idx
<1>5. IsFiniteSet(Heap!Words(v)) /\ Cardinality(Heap!Words(v)) \in Nat
  BY WordsFinite
<1>6. /\ Cardinality(Heap!Words(v) \ {<<p, i>>}) = Cardinality(Heap!Words(v)) - 1
      /\ Cardinality(Heap!Words(v) \ {<<p, i>>}) \in Nat
  BY <1>3, <1>5, FS_RemoveElement, FS_CardinalityType
<1> QED
  BY <1>2, <1>4, <1>5, <1>6

----------------------------------------------------------------------------
\* The running frame and its callers.

\* The parts of a frame and their types.
LEMMA FrameParts ==
  ASSUME NEW f \in FrameType
  PROVE  /\ f.blocks \in Seq(BlockType) /\ f.vals \in Seq(OperandType) /\ f.spent \in Seq(Addr)
         /\ f.loops \in Seq(LoopType) /\ f.transient \in BOOLEAN /\ f.scratch \in SUBSET Addr
         /\ f.unit \in BOOLEAN
         /\ Len(f.blocks) \in Nat /\ Len(f.vals) \in Nat /\ Len(f.spent) \in Nat /\ Len(f.loops) \in Nat
         /\ DOMAIN f.blocks = 1 .. Len(f.blocks) /\ DOMAIN f.vals = 1 .. Len(f.vals)
         /\ DOMAIN f.spent = 1 .. Len(f.spent) /\ DOMAIN f.loops = 1 .. Len(f.loops)
         /\ \A b \in DOMAIN f.blocks : /\ f.blocks[b] \in BlockType
                                       /\ f.blocks[b].names \in Seq(EntryType)
                                       /\ \A k \in DOMAIN f.blocks[b].names :
                                            /\ f.blocks[b].names[k] \in EntryType
                                            /\ f.blocks[b].names[k].ref \in Addr \cup {Null}
         /\ \A k \in DOMAIN f.vals : f.vals[k] \in OperandType /\ f.vals[k].ref \in Addr
         /\ \A k \in DOMAIN f.spent : f.spent[k] \in Addr
         /\ \A l \in DOMAIN f.loops : /\ f.loops[l] \in LoopType /\ f.loops[l].depth \in Nat
                                      /\ f.loops[l].arr \in Addr \cup {Null}
<1> DEFINE B == f.blocks
           V == f.vals
           S == f.spent
           L == f.loops
<1>1. /\ B \in Seq(BlockType) /\ V \in Seq(OperandType) /\ S \in Seq(Addr) /\ L \in Seq(LoopType)
      /\ f.transient \in BOOLEAN /\ f.scratch \in SUBSET Addr /\ f.unit \in BOOLEAN
  BY DEF FrameType
<1> HIDE DEF B, V, S, L
<1>2. /\ Len(B) \in Nat /\ Len(V) \in Nat /\ Len(S) \in Nat /\ Len(L) \in Nat
      /\ DOMAIN B = 1 .. Len(B) /\ DOMAIN V = 1 .. Len(V)
      /\ DOMAIN S = 1 .. Len(S) /\ DOMAIN L = 1 .. Len(L)
      /\ \A b \in DOMAIN B : B[b] \in BlockType
      /\ \A k \in DOMAIN V : V[k] \in OperandType
      /\ \A k \in DOMAIN S : S[k] \in Addr
      /\ \A l \in DOMAIN L : L[l] \in LoopType
  BY <1>1
<1>3. \A b \in DOMAIN B : B[b].names \in Seq(EntryType)
  BY <1>2 DEF BlockType
<1>4. \A b \in DOMAIN B : \A k \in DOMAIN B[b].names : B[b].names[k] \in EntryType
  BY <1>3
<1>5. \A b \in DOMAIN B : \A k \in DOMAIN B[b].names : B[b].names[k].ref \in Addr \cup {Null}
  BY <1>4 DEF EntryType
<1>6. \A k \in DOMAIN V : V[k].ref \in Addr
  BY <1>2 DEF OperandType
<1>7. \A l \in DOMAIN L : L[l].depth \in Nat /\ L[l].arr \in Addr \cup {Null}
  BY <1>2 DEF LoopType
<1> QED
  BY <1>1, <1>2, <1>3, <1>4, <1>5, <1>6, <1>7 DEF B, V, S, L

\* The call stack is the running frame on top of the frames under it.
LEMMA Decomposed ==
  ASSUME frames \in Seq(FrameType), frames # <<>>
  PROVE  /\ F \in FrameType /\ Under \in Seq(FrameType)
         /\ Len(frames) \in Nat \ {0} /\ DOMAIN frames = 1 .. Len(frames)
         /\ Len(frames) \in DOMAIN frames
         /\ F = frames[Len(frames)]
         /\ Len(Under) = Len(frames) - 1 /\ DOMAIN Under = 1 .. Len(frames) - 1
         /\ frames = Append(Under, F)
         /\ \A n \in 1 .. Len(frames) - 1 : Under[n] = frames[n] /\ n \in DOMAIN frames
<1>1. Under = Pop(frames) /\ F = Top(frames)
  BY DEF Under, Pop, F, Top
<1>2. /\ Top(frames) \in FrameType /\ Pop(frames) \in Seq(FrameType)
      /\ Len(frames) \in Nat \ {0} /\ Len(frames) \in 1 .. Len(frames)
      /\ DOMAIN frames = 1 .. Len(frames) /\ DOMAIN Pop(frames) = 1 .. Len(frames) - 1
      /\ Len(Pop(frames)) = Len(frames) - 1
      /\ \A k \in 1 .. Len(frames) - 1 : Pop(frames)[k] = frames[k] /\ k \in 1 .. Len(frames)
      /\ frames = Append(Pop(frames), Top(frames))
  BY PopFacts
<1> QED
  BY <1>1, <1>2 DEF F

----------------------------------------------------------------------------
\* What a step does to the heap.

\* The part of a count that the words do not account for.
Stock(a) == IF mem[a] = "heap" THEN hdr[a] - Cardinality(Heap!Words(a)) ELSE 0

\* Values stay where they are and keep the words they have.
Grows ==
  \A a \in Addr : /\ mem[a] # "none" => mem'[a] = mem[a]
                  /\ \A i \in 1 .. Width : body[a][i] # Null => body'[a][i] = body[a][i]

HeapGood == HeapTyped /\ Placed /\ NoCircle
HeapStep == Grows /\ HeapTyped' /\ Placed' /\ NoCircle'

\* A step that keeps every word, or empties some, makes no circle.
LEMMA EmptyNoCircle ==
  ASSUME NoCircle, \A a \in Addr, i \in 1 .. Width : body'[a][i] \in {body[a][i], Null}
  PROVE  NoCircle'
<1>1. PICK rank \in [Addr -> Nat] : OwnersAbove(rank)
  BY DEF NoCircle
<1>2. OwnersAbove(rank)'
  BY <1>1 DEF OwnersAbove
<1> QED
  BY <1>2 DEF NoCircle

\* A word is filled only in a value that no word holds, so it may be ranked above
\* whatever it is given.
LEMMA FillNoCircle ==
  ASSUME HeapTyped, NoCircle, NEW a \in Addr, NEW v \in Addr, NEW i \in 1 .. Width,
         \A b \in Addr, j \in 1 .. Width : body[b][j] # a,
         v # a, body' = [body EXCEPT ![a][i] = v]
  PROVE  NoCircle'
<1>1. PICK rank \in [Addr -> Nat] : OwnersAbove(rank)
  BY DEF NoCircle
<1>2. body \in [Addr -> [1 .. Width -> Addr \cup {Null}]]
  BY DEF HeapTyped
<1> DEFINE higher == [rank EXCEPT ![a] = rank[a] + rank[v] + 1]
<1>3. higher \in [Addr -> Nat]
  OBVIOUS
<1>4. OwnersAbove(higher)'
  <2>1. SUFFICES ASSUME NEW b \in Addr, NEW j \in 1 .. Width, body'[b][j] # Null
                 PROVE  higher[b] > higher[body'[b][j]]
    BY DEF OwnersAbove
  <2>2. CASE b = a /\ j = i
    <3>1. body'[b][j] = v /\ higher[v] = rank[v] /\ higher[b] = rank[a] + rank[v] + 1
      BY <1>2, <2>2
    <3> QED
      BY <3>1
  <2>3. CASE ~(b = a /\ j = i)
    <3>1. body'[b][j] = body[b][j] /\ body[b][j] \in Addr /\ body[b][j] # a
      BY <1>2, <2>1, <2>3
    <3>2. rank[b] > rank[body[b][j]] /\ higher[body[b][j]] = rank[body[b][j]]
      BY <1>1, <2>1, <3>1 DEF OwnersAbove
    <3>3. higher[b] >= rank[b] /\ higher[b] \in Nat
      OBVIOUS
    <3> QED
      BY <3>1, <3>2, <3>3
  <2> QED
    BY <2>2, <2>3
<1> QED
  BY <1>3, <1>4 DEF NoCircle

\* The heap is left alone, but for a payload that is a constant.
LEMMA HeapSame ==
  ASSUME HeapGood, UNCHANGED heapVars, payload' \in [Addr -> Addr \cup {Null}],
         \A a \in Addr : payload'[a] \in Const \cup {Null}
  PROVE  HeapStep /\ \A a \in Addr : Stock(a)' = Stock(a)
<1>1. mem' = mem /\ hdr' = hdr /\ body' = body /\ dropping' = dropping
  BY DEF heapVars
<1>2. Grows /\ HeapTyped'
  BY <1>1 DEF HeapGood, HeapTyped, Grows
<1>3. Placed'
  BY <1>1 DEF HeapGood, Placed
<1>4. NoCircle'
  BY <1>1, EmptyNoCircle DEF HeapGood
<1>5. \A a \in Addr : Stock(a)' = Stock(a)
  BY <1>1, SameWords DEF Stock
<1> QED
  BY <1>2, <1>3, <1>4, <1>5 DEF HeapStep

\* A step that leaves the heap alone keeps what is known of it.
LEMMA HeapUntouched ==
  ASSUME HeapGood, UNCHANGED <<heapVars, payload>>
  PROVE  HeapStep /\ \A a \in Addr : Stock(a)' = Stock(a) /\ hdr'[a] = hdr[a] /\ mem'[a] = mem[a]
<1>1. UNCHANGED heapVars /\ payload' = payload
  OBVIOUS
<1>2. payload' \in [Addr -> Addr \cup {Null}] /\ \A a \in Addr : payload'[a] \in Const \cup {Null}
  BY <1>1 DEF HeapGood, HeapTyped, Placed
<1> QED
  BY <1>1, <1>2, HeapSame DEF heapVars

\* A value is built, on the frame or on the heap.
LEMMA Scratched ==
  ASSUME HeapGood, dropping = <<>>, NEW a \in Addr, Scratch(a)
  PROVE  /\ HeapStep
         /\ mem[a] = "none" /\ mem'[a] = (IF F.transient THEN "frame" ELSE "heap")
         /\ \A i \in 1 .. Width : body'[a][i] = Null
         /\ ~F.transient => hdr'[a] = 1
         /\ \A b \in Addr : b # a => mem'[b] = mem[b] /\ hdr'[b] = hdr[b]
         /\ \A b \in Addr : Stock(b)' = Stock(b) + One(b = a /\ ~F.transient)
<1>1. /\ mem \in [Addr -> {"none", "heap", "frame", "const"}] /\ hdr \in [Addr -> Int]
      /\ body \in [Addr -> [1 .. Width -> Addr \cup {Null}]]
      /\ payload \in [Addr -> Addr \cup {Null}]
      /\ Null \notin Addr
  BY OwnershipAssumption DEF HeapGood, HeapTyped
<1>2. /\ mem[a] = "none" /\ mem' = [mem EXCEPT ![a] = IF F.transient THEN "frame" ELSE "heap"]
      /\ hdr' = [hdr EXCEPT ![a] = IF F.transient THEN Heap!Immortal ELSE 1]
      /\ payload' = [payload EXCEPT ![a] = Null] /\ body' = body /\ dropping' = <<>>
  BY DEF Scratch
<1>3. Heap!Immortal = -1
  BY DEF Heap!Immortal
<1>4. /\ \A b \in Addr : b # a => mem'[b] = mem[b] /\ hdr'[b] = hdr[b] /\ payload'[b] = payload[b]
      /\ mem'[a] = (IF F.transient THEN "frame" ELSE "heap")
      /\ hdr'[a] = (IF F.transient THEN Heap!Immortal ELSE 1)
      /\ payload'[a] = Null
  BY <1>1, <1>2
<1>5. Grows
  BY <1>2, <1>4 DEF Grows
<1>6. HeapTyped'
  BY <1>1, <1>2, <1>3 DEF HeapTyped
<1>7. /\ \A b \in Addr : mem[b] = "const" <=> b \in Const
      /\ \A b \in Addr : mem[b] \in {"const", "frame"} => hdr[b] = Heap!Immortal
      /\ \A b \in Addr : mem[b] # "heap" => body[b] = Heap!Empty
      /\ \A b \in Addr, i \in 1 .. Width : body[b][i] # Null => mem[body[b][i]] \in {"heap", "const"}
      /\ \A b \in Addr : payload[b] \in Const \cup {Null}
      /\ \A b \in Addr : mem[b] = "heap" /\ hdr[b] = 0 => \E k \in DOMAIN dropping : dropping[k] = b
  BY DEF HeapGood, Placed
<1>8. Placed'
  <2>1. \A b \in Addr : mem'[b] = "const" <=> b \in Const
    BY <1>2, <1>4, <1>7
  <2>2. \A b \in Addr : mem'[b] \in {"const", "frame"} => hdr'[b] = Heap!Immortal
    BY <1>4, <1>7
  <2>3. \A b \in Addr : mem'[b] # "heap" => body'[b] = Heap!Empty
    BY <1>2, <1>4, <1>7
  <2>4. \A b \in Addr, i \in 1 .. Width : body'[b][i] # Null => mem'[body'[b][i]] \in {"heap", "const"}
    BY <1>1, <1>2, <1>4, <1>7
  <2>5. \A b \in Addr : payload'[b] \in Const \cup {Null}
    BY <1>4, <1>7
  <2>6. \A b \in Addr : mem'[b] = "heap" /\ hdr'[b] = 0 => FALSE
    BY <1>3, <1>4, <1>7
  <2> QED
    BY <1>2, <2>1, <2>2, <2>3, <2>4, <2>5, <2>6 DEF Placed
<1>9. NoCircle'
  BY <1>2, EmptyNoCircle DEF HeapGood
<1>10. \A i \in 1 .. Width : body'[a][i] = Null
  <2>1. body'[a] = Heap!Empty
    BY <1>2, <1>7
  <2> QED
    BY <2>1 DEF Heap!Empty, Heap!Idx
<1>11. Heap!Words(a) = {} /\ Cardinality(Heap!Words(a)) = 0
  <2>1. \A w \in Addr \X (1 .. Width) : body[w[1]][w[2]] # a
    BY <1>1, <1>2, <1>7, SMTT(30)
  <2>2. Heap!Words(a) = {}
    BY <2>1 DEF Heap!Words, Heap!Idx
  <2> QED
    BY <2>2, FS_EmptySet
<1>12. ASSUME NEW b \in Addr
       PROVE  Stock(b)' = Stock(b) + One(b = a /\ ~F.transient)
  <2>1. Heap!Words(b)' = Heap!Words(b) /\ Cardinality(Heap!Words(b)) \in Nat
    BY <1>2, SameWords, WordsFinite
  <2>2. Stock(b)' = IF mem'[b] = "heap" THEN hdr'[b] - Cardinality(Heap!Words(b)) ELSE 0
    BY <2>1 DEF Stock
  <2>3. Stock(b) = IF mem[b] = "heap" THEN hdr[b] - Cardinality(Heap!Words(b)) ELSE 0
    BY DEF Stock
  <2>4. CASE b # a
    <3>1. One(b = a /\ ~F.transient) = 0 /\ mem'[b] = mem[b] /\ hdr'[b] = hdr[b] /\ hdr[b] \in Int
      BY <1>1, <1>4, <2>4 DEF One
    <3> QED
      BY <2>1, <2>2, <2>3, <3>1
  <2>5. CASE b = a /\ F.transient
    <3>1. One(b = a /\ ~F.transient) = 0 /\ Stock(b)' = 0 /\ Stock(b) = 0
      BY <1>2, <1>4, <2>2, <2>3, <2>5 DEF One
    <3> QED
      BY <3>1
  <2>6. CASE b = a /\ ~F.transient
    <3>1. One(b = a /\ ~F.transient) = 1 /\ Stock(b)' = 1 - 0 /\ Stock(b) = 0
      BY <1>2, <1>4, <1>11, <2>2, <2>3, <2>6 DEF One
    <3> QED
      BY <3>1
  <2> QED
    BY <2>4, <2>5, <2>6
<1> QED
  BY <1>2, <1>4, <1>5, <1>6, <1>8, <1>9, <1>10, <1>12 DEF HeapStep

----------------------------------------------------------------------------
\* A reference is counted again, or not: the header that changes is a heap value's.

\* gen_retain raises the count of a heap value by one, and no other.
LEMMA RetainHdr ==
  ASSUME HeapGood, dropping = <<>>, NEW r \in Addr, NEW c \in BOOLEAN, RetainIf(c, r),
         mem' = mem, dropping' = dropping, payload' = payload,
         c => (mem[r] \in {"const", "frame"} \/ (mem[r] = "heap" /\ hdr[r] > 0))
  PROVE  /\ hdr' \in [Addr -> Int]
         /\ \A b \in Addr : hdr'[b] = hdr[b] + One(c /\ b = r /\ mem[b] = "heap")
         /\ \A b \in Addr : mem'[b] \in {"const", "frame"} => hdr'[b] = Heap!Immortal
         /\ \A b \in Addr : mem'[b] = "heap" => hdr'[b] # 0
         /\ c => hdr[r] < MaxCount
<1>1. /\ mem \in [Addr -> {"none", "heap", "frame", "const"}] /\ hdr \in [Addr -> Int]
  BY DEF HeapGood, HeapTyped
<1>2. Heap!Immortal = -1
  BY DEF Heap!Immortal
<1>3. /\ \A b \in Addr : mem[b] \in {"const", "frame"} => hdr[b] = -1
      /\ \A b \in Addr : mem[b] = "heap" => hdr[b] # 0
  BY <1>2 DEF HeapGood, Placed
<1>4. CASE ~c
  <2>1. hdr' = hdr
    BY <1>4 DEF RetainIf
  <2>2. \A b \in Addr : One(c /\ b = r /\ mem[b] = "heap") = 0
    BY <1>4 DEF One
  <2> QED
    BY <1>1, <1>2, <1>3, <1>4, <2>1, <2>2
<1>5. CASE c /\ mem[r] \in {"const", "frame"}
  <2>1. hdr' = hdr /\ hdr[r] < MaxCount
    BY <1>2, <1>3, <1>5 DEF RetainIf, Heap!Bumped
  <2>2. \A b \in Addr : One(c /\ b = r /\ mem[b] = "heap") = 0
    BY <1>5 DEF One
  <2> QED
    BY <1>1, <1>2, <1>3, <2>1, <2>2
<1>6. CASE c /\ mem[r] = "heap" /\ hdr[r] > 0
  <2>1. hdr' = [hdr EXCEPT ![r] = hdr[r] + 1] /\ hdr[r] < MaxCount
    <3>1. hdr[r] # Heap!Immortal
      BY <1>2, <1>6
    <3> QED
      BY <1>6, <3>1 DEF RetainIf, Heap!Bumped
  <2>2. \A b \in Addr : One(c /\ b = r /\ mem[b] = "heap") = IF b = r THEN 1 ELSE 0
    BY <1>6 DEF One
  <2>3. \A b \in Addr : hdr'[b] = IF b = r THEN hdr[b] + 1 ELSE hdr[b]
    BY <1>1, <2>1
  <2> QED
    BY <1>1, <1>2, <1>3, <1>6, <2>1, <2>2, <2>3
<1> QED
  BY <1>1, <1>4, <1>5, <1>6

\* A borrowed reference gets a count of its own.
LEMMA Retained ==
  ASSUME HeapGood, dropping = <<>>, NEW r \in Addr, NEW c \in BOOLEAN, RetainIf(c, r),
         mem' = mem, body' = body, dropping' = dropping, payload' = payload,
         c => (mem[r] \in {"const", "frame"} \/ (mem[r] = "heap" /\ hdr[r] > 0))
  PROVE  /\ HeapStep
         /\ \A b \in Addr : hdr'[b] = hdr[b] + One(c /\ b = r /\ mem[b] = "heap")
         /\ \A b \in Addr : Stock(b)' = Stock(b) + One(c /\ b = r /\ mem[b] = "heap")
<1>1. /\ hdr' \in [Addr -> Int]
      /\ \A b \in Addr : hdr'[b] = hdr[b] + One(c /\ b = r /\ mem[b] = "heap")
      /\ \A b \in Addr : mem'[b] \in {"const", "frame"} => hdr'[b] = Heap!Immortal
      /\ \A b \in Addr : mem'[b] = "heap" => hdr'[b] # 0
  BY RetainHdr
<1>2. Grows /\ HeapTyped'
  BY <1>1 DEF HeapGood, HeapTyped, Grows
<1>3. Placed'
  BY <1>1 DEF HeapGood, Placed
<1>4. NoCircle'
  BY EmptyNoCircle DEF HeapGood
<1>5. ASSUME NEW b \in Addr
      PROVE  Stock(b)' = Stock(b) + One(c /\ b = r /\ mem[b] = "heap")
  <2>1. Heap!Words(b)' = Heap!Words(b) /\ Cardinality(Heap!Words(b)) \in Nat
    BY SameWords, WordsFinite
  <2>2. Stock(b)' = IF mem[b] = "heap" THEN hdr'[b] - Cardinality(Heap!Words(b)) ELSE 0
    BY <2>1 DEF Stock
  <2>3. Stock(b) = IF mem[b] = "heap" THEN hdr[b] - Cardinality(Heap!Words(b)) ELSE 0
    BY DEF Stock
  <2>4. hdr[b] \in Int /\ hdr'[b] = hdr[b] + One(c /\ b = r /\ mem[b] = "heap")
    BY <1>1 DEF HeapGood, HeapTyped
  <2>5. CASE mem[b] = "heap"
    <3>1. One(c /\ b = r /\ mem[b] = "heap") \in {0, 1}
      BY DEF One
    <3> QED
      BY <2>1, <2>2, <2>3, <2>4, <2>5, <3>1
  <2>6. CASE mem[b] # "heap"
    <3>1. One(c /\ b = r /\ mem[b] = "heap") = 0
      BY <2>6 DEF One
    <3> QED
      BY <2>2, <2>3, <2>6, <3>1
  <2> QED
    BY <2>5, <2>6
<1> QED
  BY <1>1, <1>2, <1>3, <1>4, <1>5 DEF HeapStep

\* What storing `v`, with a count of its own where `c`, does to the counts.
CountsStored(v, c) ==
  /\ \A b \in Addr : hdr'[b] = hdr[b] + One(c /\ b = v /\ mem[b] = "heap")
  /\ \A b \in Addr : Stock(b)' = Stock(b) - One(~c /\ b = v /\ mem[b] = "heap")

\* An element is stored in an aggregate that no word holds.
LEMMA Stored ==
  ASSUME HeapGood, dropping = <<>>, NEW p \in Addr, NEW v \in Addr, NEW i \in 1 .. Width,
         NEW c \in BOOLEAN, RetainIf(c, v),
         mem' = mem, dropping' = dropping, payload' = payload,
         mem[p] = "heap", v # p, \A b \in Addr, j \in 1 .. Width : body[b][j] # p,
         mem[v] \in {"heap", "const"}, c /\ mem[v] = "heap" => hdr[v] > 0,
         body[p][i] = Null, body' = [body EXCEPT ![p][i] = v]
  PROVE  HeapStep /\ CountsStored(v, c)
<1>0. /\ mem \in [Addr -> {"none", "heap", "frame", "const"}] /\ hdr \in [Addr -> Int]
      /\ body \in [Addr -> [1 .. Width -> Addr \cup {Null}]] /\ Null \notin Addr
  BY OwnershipAssumption DEF HeapGood, HeapTyped
<1>1. /\ hdr' \in [Addr -> Int]
      /\ \A b \in Addr : hdr'[b] = hdr[b] + One(c /\ b = v /\ mem[b] = "heap")
      /\ \A b \in Addr : mem'[b] \in {"const", "frame"} => hdr'[b] = Heap!Immortal
      /\ \A b \in Addr : mem'[b] = "heap" => hdr'[b] # 0
  BY RetainHdr
<1>2. /\ \A b \in Addr : b # p => body'[b] = body[b]
      /\ \A j \in 1 .. Width : body'[p][j] = IF j = i THEN v ELSE body[p][j]
      /\ body' \in [Addr -> [1 .. Width -> Addr \cup {Null}]]
  BY <1>0
<1>3. Grows
  BY <1>2 DEF Grows
<1>4. HeapTyped'
  BY <1>1, <1>2 DEF HeapGood, HeapTyped
<1>5. Placed'
  <2>1. \A b \in Addr : mem'[b] # "heap" => body'[b] = Heap!Empty
    BY <1>2 DEF HeapGood, Placed
  <2>2. \A b \in Addr, j \in 1 .. Width : body'[b][j] # Null => mem'[body'[b][j]] \in {"heap", "const"}
    <3>1. \A b \in Addr, j \in 1 .. Width : body[b][j] # Null => mem[body[b][j]] \in {"heap", "const"}
      BY DEF HeapGood, Placed
    <3> QED
      BY <1>2, <3>1
  <2> QED
    BY <1>1, <2>1, <2>2 DEF HeapGood, Placed
<1>6. NoCircle'
  BY FillNoCircle DEF HeapGood
<1>7. ASSUME NEW b \in Addr
      PROVE  Stock(b)' = Stock(b) - One(~c /\ b = v /\ mem[b] = "heap")
  <2>1. /\ Cardinality(Heap!Words(b)) \in Nat
        /\ Cardinality(Heap!Words(b)') = Cardinality(Heap!Words(b)) + One(b = v)
    <3>1. /\ Cardinality(Heap!Words(v)') = Cardinality(Heap!Words(v)) + 1
          /\ \A d \in Addr : d # v => Heap!Words(d)' = Heap!Words(d)
      BY FillWord DEF HeapGood
    <3>3. Cardinality(Heap!Words(b)) \in Nat
      BY WordsFinite
    <3> QED
      BY <3>1, <3>3 DEF One
  <2>2. Stock(b)' = IF mem[b] = "heap" THEN hdr'[b] - Cardinality(Heap!Words(b)') ELSE 0
    BY DEF Stock
  <2>3. Stock(b) = IF mem[b] = "heap" THEN hdr[b] - Cardinality(Heap!Words(b)) ELSE 0
    BY DEF Stock
  <2>4. hdr[b] \in Int /\ hdr'[b] = hdr[b] + One(c /\ b = v /\ mem[b] = "heap")
    BY <1>0, <1>1
  <2>5. CASE mem[b] = "heap"
    <3>1. One(c /\ b = v /\ mem[b] = "heap") = One(b = v) - One(~c /\ b = v /\ mem[b] = "heap")
      BY <2>5 DEF One
    <3>2. One(b = v) \in {0, 1} /\ One(~c /\ b = v /\ mem[b] = "heap") \in {0, 1}
      BY DEF One
    <3> QED
      BY <2>1, <2>2, <2>3, <2>4, <2>5, <3>1, <3>2, SMTT(30)
  <2>6. CASE mem[b] # "heap"
    <3>1. One(~c /\ b = v /\ mem[b] = "heap") = 0
      BY <2>6 DEF One
    <3> QED
      BY <2>2, <2>3, <2>6, <3>1
  <2> QED
    BY <2>5, <2>6
<1> QED
  BY <1>1, <1>3, <1>4, <1>5, <1>6, <1>7 DEF CountsStored, HeapStep

----------------------------------------------------------------------------
\* What is inside a value.

\* A value is inside itself.
LEMMA InsideSelf ==
  ASSUME NEW a \in Addr
  PROVE  a \in Inside(a) /\ Inside(a) \in SUBSET Addr
BY DEF Inside

\* What a word of a value inside another holds is inside the other.
LEMMA InsideWord ==
  ASSUME HeapTyped, NEW a \in Addr, NEW p \in Inside(a), NEW i \in 1 .. Width, body[p][i] # Null
  PROVE  body[p][i] \in Inside(a)
<1>1. p \in Addr /\ body[p][i] \in Addr
  <2>1. p \in Addr
    BY DEF Inside
  <2>2. body \in [Addr -> [1 .. Width -> Addr \cup {Null}]]
    BY DEF HeapTyped
  <2>3. body[p][i] \in Addr \cup {Null}
    BY <2>1, <2>2
  <2> QED
    BY <2>1, <2>3
<1>2. ASSUME NEW S \in SUBSET Addr, a \in S, Closed(S)
      PROVE  body[p][i] \in S
  <2>1. p \in S
    BY <1>2 DEF Inside
  <2> QED
    BY <1>2, <2>1 DEF Closed
<1> QED
  BY <1>1, <1>2 DEF Inside

\* What is inside a value inside another is inside the other.
LEMMA InsideInside ==
  ASSUME HeapTyped, NEW a \in Addr, NEW b \in Inside(a)
  PROVE  Inside(b) \subseteq Inside(a)
<1>1. Inside(a) \in SUBSET Addr
  BY InsideSelf
<1>2. Closed(Inside(a))
  BY InsideWord DEF Closed
<1>3. ASSUME NEW r \in Inside(b)
      PROVE  r \in Inside(a)
  BY <1>1, <1>2 DEF Inside
<1> QED
  BY <1>3

\* What is inside a heap value is on the heap too, or a constant.
LEMMA InsideLive ==
  ASSUME HeapGood, NEW a \in Addr, mem[a] = "heap", NEW r \in Inside(a)
  PROVE  r \in Addr /\ mem[r] \in {"heap", "const"}
<1> DEFINE S == {b \in Addr : mem[b] \in {"heap", "const"}}
<1>1. S \in SUBSET Addr /\ a \in S
  OBVIOUS
<1>2. \A p \in S, i \in 1 .. Width : body[p][i] \in S \cup {Null}
  <2>1. body \in [Addr -> [1 .. Width -> Addr \cup {Null}]]
    BY DEF HeapGood, HeapTyped
  <2>2. \A p \in Addr, i \in 1 .. Width : body[p][i] # Null => mem[body[p][i]] \in {"heap", "const"}
    BY DEF HeapGood, Placed
  <2>3. \A p \in Addr, i \in 1 .. Width : body[p][i] \in Addr \cup {Null}
    BY <2>1
  <2> QED
    BY <2>2, <2>3
<1>3. Closed(S)
  BY <1>2 DEF Closed
<1> QED
  BY <1>1, <1>3 DEF Inside

\* What is inside a value and is not the value is a word of something inside it.
LEMMA InsideOwned ==
  ASSUME HeapTyped, NEW a \in Addr, NEW r \in Inside(a), r # a
  PROVE  \E p \in Inside(a), i \in 1 .. Width : body[p][i] = r
<1>1. SUFFICES ASSUME \A p \in Inside(a), i \in 1 .. Width : body[p][i] # r
               PROVE  FALSE
  OBVIOUS
<1> DEFINE S == Inside(a) \ {r}
<1>2. S \in SUBSET Addr /\ a \in S
  BY InsideSelf
<1>3. \A p \in S, i \in 1 .. Width : body[p][i] \in S \cup {Null}
  BY <1>1, InsideWord
<1>4. Closed(S)
  BY <1>3 DEF Closed
<1> QED
  BY <1>2, <1>4 DEF Inside

\* A value keeps all that is inside it when words are only filled.
LEMMA InsideGrows ==
  ASSUME Grows, HeapTyped, NEW a \in Addr
  PROVE  Inside(a) \subseteq Inside(a)'
<1>1. ASSUME NEW r \in Inside(a), NEW S \in SUBSET Addr, a \in S, Closed(S)'
      PROVE  r \in S
  <2>1. ASSUME NEW p \in S, NEW i \in 1 .. Width
        PROVE  body[p][i] \in S \cup {Null}
    <3>1. body'[p][i] \in S \cup {Null}
      BY <1>1 DEF Closed
    <3> QED
      BY <3>1 DEF Grows
  <2>2. Closed(S)
    BY <2>1 DEF Closed
  <2> QED
    BY <1>1, <2>2 DEF Inside
<1>2. ASSUME NEW r \in Inside(a)
      PROVE  r \in Inside(a)'
  BY <1>1 DEF Inside
<1> QED
  BY <1>2

----------------------------------------------------------------------------
\* Who claims a value.

Claimants(a) == Tagged([k \in DOMAIN frames |-> FrameClaims(frames[k], a)])

\* The claims on a value: those of the frames, of the release calls due, and
\* the lost.
LEMMA ClaimsAre ==
  ASSUME Typed, NEW a \in Addr
  PROVE  /\ IsFiniteSet(Claimants(a)) /\ Cardinality(Claimants(a)) = Total(frames, a)
         /\ Total(frames, a) \in Nat
         /\ Cardinality(Places(due, a)) \in Nat /\ IsFiniteSet(Places(due, a))
         /\ lost[a] \in Nat
         /\ Claims(a) = Total(frames, a) + Cardinality(Places(due, a)) + lost[a]
         /\ Claims(a) \in Nat
<1>1. frames \in Seq(FrameType) /\ due \in Seq(Addr) /\ lost[a] \in Nat
  BY OwnershipAssumption DEF Typed
<1>2. IsFiniteSet(Claimants(a)) /\ Total(frames, a) \in Nat
  BY <1>1, TotalFinite DEF Claimants
<1>3. Cardinality(Claimants(a)) = Total(frames, a)
  BY DEF Claimants, Total
<1>4. Cardinality(Places(due, a)) \in Nat /\ IsFiniteSet(Places(due, a))
  BY <1>1, CountsFinite
<1>5. Claims(a) = Total(frames, a) + Cardinality(Places(due, a)) + lost[a]
  BY DEF Claims, Total
<1> QED
  BY <1>1, <1>2, <1>3, <1>4, <1>5

\* A name, an operand, a built argument and a loop each claim at their own place.
LEMMA NameClaims ==
  ASSUME NEW n \in DOMAIN frames, NEW b \in DOMAIN frames[n].blocks,
         NEW k \in DOMAIN frames[n].blocks[b].names, NEW a,
         frames[n].blocks[b].names[k].own, frames[n].blocks[b].names[k].ref = a
  PROVE  <<n, <<1, <<b, k>>>>>> \in Claimants(a)
<1>1. <<b, k>> \in OwnBlocks(frames[n].blocks, a)
  BY DEF OwnBlocks, OwnNames, Tagged
<1>2. <<1, <<b, k>>>> \in FrameClaims(frames[n], a)
  BY <1>1 DEF FrameClaims, Tagged
<1> QED
  BY <1>2 DEF Claimants, Tagged

\* An operand not borrowed is a claim.
LEMMA ValClaims ==
  ASSUME NEW n \in DOMAIN frames, NEW k \in DOMAIN frames[n].vals, NEW a,
         frames[n].vals[k].st # "borrow", frames[n].vals[k].ref = a
  PROVE  <<n, <<2, k>>>> \in Claimants(a)
<1>1. k \in OwnVals(frames[n].vals, a)
  BY DEF OwnVals
<1>2. <<2, k>> \in FrameClaims(frames[n], a)
  BY <1>1 DEF FrameClaims, Tagged
<1> QED
  BY <1>2 DEF Claimants, Tagged

\* A spent argument is a claim.
LEMMA SpentClaims ==
  ASSUME NEW n \in DOMAIN frames, NEW k \in DOMAIN frames[n].spent, NEW a, frames[n].spent[k] = a
  PROVE  <<n, <<3, k>>>> \in Claimants(a)
<1>1. k \in Places(frames[n].spent, a)
  BY DEF Places
<1>2. <<3, k>> \in FrameClaims(frames[n], a)
  BY <1>1 DEF FrameClaims, Tagged
<1> QED
  BY <1>2 DEF Claimants, Tagged

\* A loop that has its array to release is a claim.
LEMMA LoopClaims ==
  ASSUME NEW n \in DOMAIN frames, NEW l \in DOMAIN frames[n].loops, NEW a,
         frames[n].loops[l].mine, frames[n].loops[l].arr = a
  PROVE  <<n, <<4, l>>>> \in Claimants(a)
<1>1. l \in OwnLoops(frames[n].loops, a)
  BY DEF OwnLoops
<1>2. <<4, l>> \in FrameClaims(frames[n], a)
  BY <1>1 DEF FrameClaims, Tagged
<1> QED
  BY <1>2 DEF Claimants, Tagged

\* Who is there makes the claims at least one, two different ones at least two.
LEMMA Claimed ==
  ASSUME Typed, NEW a \in Addr
  PROVE  /\ Claimants(a) # {} => Claims(a) >= 1
         /\ Places(due, a) # {} => Claims(a) >= 1
         /\ lost[a] > 0 => Claims(a) >= 1
         /\ \A x \in Claimants(a) : \A y \in Claimants(a) : x # y => Claims(a) >= 2
         /\ Claimants(a) # {} /\ (Places(due, a) # {} \/ lost[a] > 0) => Claims(a) >= 2
<1> DEFINE C == Claimants(a)
           D == Places(due, a)
<1>1. /\ IsFiniteSet(C) /\ Cardinality(C) \in Nat /\ IsFiniteSet(D) /\ Cardinality(D) \in Nat
      /\ lost[a] \in Nat /\ Claims(a) = Cardinality(C) + Cardinality(D) + lost[a]
  BY ClaimsAre
<1> HIDE DEF C, D
<1>2. (C # {} => Cardinality(C) >= 1) /\ (D # {} => Cardinality(D) >= 1)
  BY <1>1, FS_EmptySet
<1>3. ASSUME NEW x \in C, NEW y \in C, x # y
      PROVE  Cardinality(C) >= 2
  <2>1. IsFiniteSet(C \ {x}) /\ Cardinality(C \ {x}) = Cardinality(C) - 1
    BY <1>1, FS_RemoveElement
  <2>2. y \in C \ {x}
    BY <1>3
  <2>3. Cardinality(C \ {x}) # 0
    BY <2>1, <2>2, FS_EmptySet
  <2>4. Cardinality(C \ {x}) \in Nat
    BY <2>1, FS_CardinalityType
  <2> QED
    BY <1>1, <2>1, <2>3, <2>4
<1> QED
  BY <1>1, <1>2, <1>3 DEF C, D

\* A value that is kept has a count.
LEMMA KeptCounted ==
  ASSUME Typed, Counts, NEW n \in DOMAIN frames, NEW d, NEW a \in Addr, mem[a] = "heap",
         Kept(n, d, a)
  PROVE  /\ hdr[a] > 0
         /\ Surplus(a) \/ lost[a] > 0 \/ \E x \in Claimants(a) : x[2][1] # 2
<1>1. /\ hdr[a] \in Int /\ Claims(a) \in Nat /\ Cardinality(Heap!Words(a)) \in Nat
      /\ frames \in Seq(FrameType)
  BY ClaimsAre, WordsFinite DEF Typed, HeapTyped
<1>2. Excess(a) = hdr[a] - Claims(a) - Cardinality(Heap!Words(a)) /\ Excess(a) >= 0
  BY DEF Excess, Counts
<1>3. Surplus(a) \/ Claims(a) >= 1 => hdr[a] > 0
  BY <1>1, <1>2 DEF Surplus
<1>4. ASSUME NEW m \in DOMAIN frames, NEW e, Keeps(frames[m], e, a)
      PROVE  \E x \in Claimants(a) : x[2][1] # 2
  <2>1. CASE \E b \in DOMAIN frames[m].blocks : \E k \in DOMAIN frames[m].blocks[b].names :
               frames[m].blocks[b].names[k].own /\ frames[m].blocks[b].names[k].ref = a
    <3>0. PICK b \in DOMAIN frames[m].blocks : \E k \in DOMAIN frames[m].blocks[b].names :
               frames[m].blocks[b].names[k].own /\ frames[m].blocks[b].names[k].ref = a
      BY <2>1
    <3>1. PICK k \in DOMAIN frames[m].blocks[b].names :
               frames[m].blocks[b].names[k].own /\ frames[m].blocks[b].names[k].ref = a
      BY <3>0
    <3>2. <<m, <<1, <<b, k>>>>>> \in Claimants(a)
      BY <3>1, NameClaims
    <3> QED
      BY <3>2
  <2>2. CASE \E l \in DOMAIN frames[m].loops : frames[m].loops[l].mine /\ frames[m].loops[l].arr = a
    <3>1. PICK l \in DOMAIN frames[m].loops : frames[m].loops[l].mine /\ frames[m].loops[l].arr = a
      BY <2>2
    <3>2. <<m, <<4, l>>>> \in Claimants(a)
      BY <3>1, LoopClaims
    <3> QED
      BY <3>2
  <2> QED
    BY <1>4, <2>1, <2>2 DEF Keeps
<1>5. ASSUME NEW m \in DOMAIN frames, NEW k \in DOMAIN frames[m].spent, frames[m].spent[k] = a
      PROVE  \E x \in Claimants(a) : x[2][1] # 2
  <2>1. <<m, <<3, k>>>> \in Claimants(a)
    BY <1>5, SpentClaims
  <2> QED
    BY <2>1
<1>6. \A g \in 1 .. n - 1 : g \in DOMAIN frames
  BY <1>1
<1>7. Surplus(a) \/ lost[a] > 0 \/ \E x \in Claimants(a) : x[2][1] # 2
  BY <1>4, <1>5, <1>6 DEF Kept, KeepsAll
<1>8. Surplus(a) \/ Claims(a) >= 1
  BY <1>7, Claimed
<1> QED
  BY <1>3, <1>7, <1>8

\* A guarded reference can be counted again.
LEMMA GuardLive ==
  ASSUME Typed, Counts, HeapGood, NEW n \in DOMAIN frames, NEW d, NEW r \in Addr, Guard(n, d, r)
  PROVE  /\ mem[r] # "none"
         /\ mem[r] \in {"const", "frame"} \/ (mem[r] = "heap" /\ hdr[r] > 0)
         /\ mem[r] = "heap" => \/ \E w \in Addr \X (1 .. Width) : body[w[1]][w[2]] = r
                               \/ Kept(n, d, r)
<1>1. CASE mem[r] \in {"const", "frame"}
  BY <1>1
<1>2. CASE \E a \in Addr : mem[a] = "heap" /\ Kept(n, d, a) /\ r \in Inside(a)
  <2>1. PICK a \in Addr : mem[a] = "heap" /\ Kept(n, d, a) /\ r \in Inside(a)
    BY <1>2
  <2>2. mem[r] \in {"heap", "const"}
    BY <2>1, InsideLive
  <2>3. CASE r = a
    BY <2>1, <2>3, KeptCounted
  <2>4. CASE r # a
    <3>1. PICK p \in Inside(a), i \in 1 .. Width : body[p][i] = r
      BY <2>1, <2>4, InsideOwned DEF HeapGood
    <3>2. p \in Addr
      BY InsideSelf
    <3>3. <<p, i>> \in Heap!Words(r)
      BY <3>1, <3>2 DEF Heap!Words, Heap!Idx
    <3>4. Cardinality(Heap!Words(r)) >= 1
      BY <3>3, WordsFinite, FS_EmptySet
    <3>5. mem[r] = "heap" => hdr[r] > 0
      <4>1. /\ hdr[r] \in Int /\ Claims(r) \in Nat /\ Cardinality(Heap!Words(r)) \in Nat
        BY ClaimsAre, WordsFinite DEF Typed, HeapTyped
      <4>2. mem[r] = "heap" => hdr[r] - Claims(r) - Cardinality(Heap!Words(r)) >= 0
        BY DEF Excess, Counts
      <4> QED
        BY <3>4, <4>1, <4>2
    <3>6. <<p, i>> \in Addr \X (1 .. Width) /\ body[<<p, i>>[1]][<<p, i>>[2]] = r
      BY <3>1, <3>2
    <3> QED
      BY <2>2, <3>5, <3>6
  <2> QED
    BY <2>3, <2>4
<1> QED
  BY <1>1, <1>2 DEF Guard

\* An aggregate still being built is its builder's alone.
LEMMA BuildingAlone ==
  ASSUME Typed, Counts, HeapGood, NEW n \in DOMAIN frames, NEW k \in DOMAIN frames[n].vals,
         NEW p \in Addr, frames[n].vals[k].st = "building", frames[n].vals[k].ref = p,
         mem[p] = "heap", hdr[p] = 1
  PROVE  /\ \A b \in Addr, j \in 1 .. Width : body[b][j] # p
         /\ Heap!Words(p) = {} /\ Cardinality(Heap!Words(p)) = 0
         /\ Claims(p) = 1
         /\ \A x \in Claimants(p) : x = <<n, <<2, k>>>>
         /\ Places(due, p) = {} /\ lost[p] = 0 /\ ~Surplus(p)
         /\ \A m \in DOMAIN frames : \A d : \A r \in Addr : Guard(m, d, r) => r # p
<1>1. <<n, <<2, k>>>> \in Claimants(p)
  BY ValClaims
<1>2. /\ Claims(p) \in Nat /\ Cardinality(Heap!Words(p)) \in Nat /\ IsFiniteSet(Heap!Words(p))
      /\ lost[p] \in Nat
  BY ClaimsAre, WordsFinite
<1>3. hdr[p] - Claims(p) - Cardinality(Heap!Words(p)) >= 0
  BY DEF Excess, Counts
<1>4. Claims(p) >= 1
  BY <1>1, Claimed
<1>5. Claims(p) = 1 /\ Cardinality(Heap!Words(p)) = 0
  BY <1>2, <1>3, <1>4
<1>6. Heap!Words(p) = {}
  BY <1>2, <1>5, FS_EmptySet
<1>7. \A b \in Addr, j \in 1 .. Width : body[b][j] # p
  <2>1. ASSUME NEW b \in Addr, NEW j \in 1 .. Width, body[b][j] = p
        PROVE  FALSE
    <3>1. <<b, j>> \in Heap!Words(p)
      BY <2>1 DEF Heap!Words, Heap!Idx
    <3> QED
      BY <1>6, <3>1
  <2> QED
    BY <2>1
<1>8. \A x \in Claimants(p) : x = <<n, <<2, k>>>>
  BY <1>1, <1>5, Claimed
<1>9. Places(due, p) = {} /\ lost[p] = 0
  BY <1>1, <1>2, <1>5, Claimed
<1>10. ~Surplus(p)
  BY <1>5 DEF Surplus, Excess
<1>11. ASSUME NEW m \in DOMAIN frames, NEW d, NEW r \in Addr, Guard(m, d, r)
       PROVE  r # p
  <2>1. SUFFICES ASSUME r = p
                 PROVE  FALSE
    OBVIOUS
  <2>2. ~\E w \in Addr \X (1 .. Width) : body[w[1]][w[2]] = p
    BY <1>7
  <2>3. Kept(m, d, p)
    BY <1>11, <2>1, <2>2, GuardLive
  <2>4. Surplus(p) \/ lost[p] > 0 \/ \E x \in Claimants(p) : x[2][1] # 2
    BY <2>3, KeptCounted
  <2> QED
    BY <1>8, <1>9, <1>10, <2>4
<1> QED
  BY <1>5, <1>6, <1>7, <1>8, <1>9, <1>10, <1>11

----------------------------------------------------------------------------
\* What the program refers to.

\* Nothing claims an address at which there is no value.
LEMMA NoneClaimed ==
  ASSUME Core, NEW a \in Addr, mem[a] = "none"
  PROVE  Claims(a) = 0 /\ Total(frames, a) = 0 /\ Places(due, a) = {} /\ lost[a] = 0
<1>1. Typed /\ Dues /\ \A n \in DOMAIN frames : Lives(frames[n])
  BY DEF Core, FrameOK
<1>2. Claimants(a) = {}
  <2>1. SUFFICES ASSUME NEW x \in Claimants(a)
                 PROVE  FALSE
    OBVIOUS
  <2>2. PICK n \in DOMAIN frames : x \in {n} \X FrameClaims(frames[n], a)
    BY <2>1 DEF Claimants, Tagged
  <2>3. PICK y \in FrameClaims(frames[n], a) : TRUE
    BY <2>2
  <2> DEFINE f == frames[n]
             T == <<OwnBlocks(f.blocks, a), OwnVals(f.vals, a), Places(f.spent, a), OwnLoops(f.loops, a)>>
  <2>4. PICK i \in DOMAIN T : y \in {i} \X T[i]
    BY <2>3 DEF FrameClaims, Tagged
  <2>5. i \in 1 .. 4 /\ T[1] = OwnBlocks(f.blocks, a) /\ T[2] = OwnVals(f.vals, a)
        /\ T[3] = Places(f.spent, a) /\ T[4] = OwnLoops(f.loops, a)
    OBVIOUS
  <2>6. T[i] # {}
    BY <2>4
  <2> HIDE DEF T
  <2>7. OwnBlocks(f.blocks, a) = {}
    <3>1. SUFFICES ASSUME NEW z \in OwnBlocks(f.blocks, a)
                   PROVE  FALSE
      OBVIOUS
    <3>2. PICK b \in DOMAIN f.blocks : OwnNames(f.blocks[b].names, a) # {}
      BY <3>1 DEF OwnBlocks, Tagged
    <3>3. PICK k \in DOMAIN f.blocks[b].names : f.blocks[b].names[k].own /\ f.blocks[b].names[k].ref = a
      BY <3>2 DEF OwnNames
    <3> QED
      BY <1>1, <3>3 DEF Lives, LiveName
  <2>8. OwnVals(f.vals, a) = {} /\ Places(f.spent, a) = {}
    BY <1>1 DEF Lives, LiveVal, OwnVals, Places
  <2>9. OwnLoops(f.loops, a) = {}
    <3>1. SUFFICES ASSUME NEW l \in OwnLoops(f.loops, a)
                   PROVE  FALSE
      OBVIOUS
    <3>2. l \in DOMAIN f.loops /\ f.loops[l].arr = a /\ LiveArr(f.loops[l])
      BY <1>1 DEF OwnLoops, Lives
    <3> QED
      BY <3>2, OwnershipAssumption DEF LiveArr
  <2> QED
    BY <2>5, <2>6, <2>7, <2>8, <2>9
<1>3. Places(due, a) = {} /\ lost[a] = 0
  <2>1. Places(due, a) = {}
    BY <1>1 DEF Dues, Places
  <2>2. lost[a] \in Nat /\ ~(lost[a] > 0)
    BY <1>1, ClaimsAre DEF Dues
  <2> QED
    BY <2>1, <2>2
<1>4. Total(frames, a) = 0 /\ Cardinality(Places(due, a)) = 0
  BY <1>1, <1>2, <1>3, ClaimsAre, FS_EmptySet
<1>5. Claims(a) = Total(frames, a) + Cardinality(Places(due, a)) + lost[a]
  BY <1>1, ClaimsAre
<1> QED
  BY <1>3, <1>4, <1>5

\* Every reference of a frame is to a value that is there.
LEMMA RefsLive ==
  ASSUME Core, NEW n \in DOMAIN frames
  PROVE  /\ \A b \in DOMAIN frames[n].blocks : \A k \in DOMAIN frames[n].blocks[b].names :
              frames[n].blocks[b].names[k].ref # Null => mem[frames[n].blocks[b].names[k].ref] # "none"
         /\ \A k \in DOMAIN frames[n].vals : mem[frames[n].vals[k].ref] # "none"
         /\ \A k \in DOMAIN frames[n].spent : mem[frames[n].spent[k]] # "none"
         /\ \A l \in DOMAIN frames[n].loops :
              frames[n].loops[l].arr # Null => mem[frames[n].loops[l].arr] = "heap"
         /\ \A a \in Refs(frames[n]) : mem[a] # "none"
<1> DEFINE f == frames[n]
<1>1. /\ Typed /\ Counts /\ HeapGood /\ Lives(f) /\ GuardVals(n) /\ GuardNames(n) /\ ScratchAt(n)
      /\ f \in FrameType
  BY DEF Core, FrameOK, HeapGood, Typed
<1>2. ASSUME NEW d, NEW r \in Addr, Guard(n, d, r)
      PROVE  mem[r] # "none"
  BY <1>1, <1>2, GuardLive
<1>3. ASSUME NEW b \in DOMAIN f.blocks, NEW k \in DOMAIN f.blocks[b].names,
             f.blocks[b].names[k].ref # Null
      PROVE  mem[f.blocks[b].names[k].ref] # "none"
  <2> DEFINE e == f.blocks[b].names[k]
  <2>1. e.ref \in Addr
    BY <1>1, <1>3, FrameParts
  <2>2. CASE e.own
    BY <1>1, <2>2 DEF Lives, LiveName
  <2>3. CASE Guard(n, Len(f.blocks), e.ref) \/ Guard(n, 0, e.ref)
    BY <1>2, <2>1, <2>3
  <2>4. CASE \E l \in DOMAIN f.loops :
               AtVar(f, l, b, k) /\ \E i \in 1 .. Width : body[f.loops[l].arr][i] = e.ref
    <3>1. PICK l \in DOMAIN f.loops :
                 AtVar(f, l, b, k) /\ \E i \in 1 .. Width : body[f.loops[l].arr][i] = e.ref
      BY <2>4
    <3>2. f.loops[l].arr \in Addr
      BY <1>1, <3>1, FrameParts DEF AtVar
    <3> QED
      BY <1>1, <1>3, <3>1, <3>2 DEF HeapGood, Placed
  <2> QED
    BY <1>1, <1>3, <2>2, <2>3, <2>4 DEF GuardNames, GuardName
<1>4. ASSUME NEW k \in DOMAIN f.vals
      PROVE  mem[f.vals[k].ref] # "none"
  <2>1. f.vals[k].ref \in Addr
    BY <1>1, FrameParts
  <2>2. CASE f.vals[k].st = "borrow"
    BY <1>1, <1>2, <2>1, <2>2 DEF GuardVals
  <2>3. CASE f.vals[k].st # "borrow"
    BY <1>1, <2>3 DEF Lives, LiveVal
  <2> QED
    BY <2>2, <2>3
<1>5. /\ \A k \in DOMAIN f.spent : mem[f.spent[k]] # "none"
      /\ \A l \in DOMAIN f.loops : f.loops[l].arr # Null => mem[f.loops[l].arr] = "heap"
      /\ \A a \in f.scratch : mem[a] # "none"
  BY <1>1 DEF Lives, LiveArr, ScratchAt
<1>6. \A a \in Refs(f) : mem[a] # "none"
  BY <1>3, <1>4, <1>5, OwnershipAssumption DEF Refs, NameAt
<1> QED
  BY <1>3, <1>4, <1>5, <1>6

----------------------------------------------------------------------------
\* References given up by a step: some are released next, some lost.

Dropped(refs) ==
  /\ lost' \in [Addr -> 0 .. MaxLost] /\ due' \in Seq(Addr)
  /\ \A a \in Addr : lost'[a] >= lost[a] /\ (lost'[a] > 0 => mem[a] = "heap")
  /\ \A k \in DOMAIN due' : mem[due'[k]] # "none"
  /\ \A a \in Addr : mem[a] \in {"heap", "none"} =>
       Cardinality(Places(due', a)) + lost'[a] =
         Cardinality(Places(due, a)) + lost[a] + Cardinality(Places(refs, a))

\* Where no release call is added and nothing is lost, nothing was dropped.
LEMMA DropsNothing ==
  ASSUME Core, UNCHANGED <<due, lost>>
  PROVE  Dropped(<<>>)
<1>1. Typed /\ Dues
  BY DEF Core
<1>2. \A a : Places(<<>>, a) = {}
  BY DEF Places
<1>3. \A a \in Addr : /\ Cardinality(Places(<<>>, a)) = 0
                      /\ Cardinality(Places(due, a)) \in Nat /\ lost[a] \in Nat
  BY <1>1, <1>2, ClaimsAre, FS_EmptySet
<1> QED
  BY <1>1, <1>3 DEF Dropped, Typed, Dues

\* Lose adds one for each reference to a heap value, and to no other.
LEMMA LoseCounts ==
  ASSUME Core, NEW refs \in Seq(Addr), Lose(refs), \A k \in DOMAIN refs : mem[refs[k]] # "none"
  PROVE  /\ lost' \in [Addr -> 0 .. MaxLost]
         /\ \A a \in Addr : lost'[a] >= lost[a] /\ (lost'[a] > 0 => mem[a] = "heap")
         /\ \A a \in Addr : /\ lost'[a] \in Nat /\ lost[a] \in Nat /\ Cardinality(Places(refs, a)) \in Nat
                            /\ mem[a] \in {"heap", "none"} => lost'[a] = lost[a] + Cardinality(Places(refs, a))
<1> DEFINE times(a) == Cardinality({k \in 1 .. Len(refs) : refs[k] = a /\ mem[a] = "heap"})
<1>1. Typed /\ Dues /\ lost \in [Addr -> 0 .. MaxLost] /\ MaxLost \in Nat
  BY OwnershipAssumption DEF Core, Typed
<1>2. lost' = [a \in Addr |-> lost[a] + times(a)] /\ \A a \in Addr : lost'[a] <= MaxLost
  BY DEF Lose
<1>3. DOMAIN refs = 1 .. Len(refs)
  OBVIOUS
<1>4. \A a \in Addr : IsFiniteSet(Places(refs, a)) /\ Cardinality(Places(refs, a)) \in Nat
  BY CountsFinite
<1>5. ASSUME NEW a \in Addr
      PROVE  times(a) = IF mem[a] = "heap" THEN Cardinality(Places(refs, a)) ELSE 0
  <2>1. CASE mem[a] = "heap"
    BY <1>3, <2>1 DEF Places
  <2>2. CASE mem[a] # "heap"
    <3>1. {k \in 1 .. Len(refs) : refs[k] = a /\ mem[a] = "heap"} = {}
      BY <2>2
    <3> QED
      BY <2>2, <3>1, FS_EmptySet
  <2> QED
    BY <2>1, <2>2
<1> HIDE DEF times
<1>6. \A a \in Addr : /\ lost'[a] = lost[a] + times(a) /\ times(a) \in Nat /\ lost[a] \in Nat
                      /\ lost'[a] \in 0 .. MaxLost
  BY <1>1, <1>2, <1>4, <1>5
<1>7. lost' \in [Addr -> 0 .. MaxLost]
  BY <1>2, <1>6
<1>8. \A a \in Addr : lost'[a] >= lost[a] /\ (lost'[a] > 0 => mem[a] = "heap")
  BY <1>1, <1>5, <1>6 DEF Dues
<1>9. ASSUME NEW a \in Addr, mem[a] = "none"
      PROVE  Cardinality(Places(refs, a)) = 0
  <2>1. Places(refs, a) = {}
    BY <1>9 DEF Places
  <2> QED
    BY <2>1, FS_EmptySet
<1>10. \A a \in Addr : mem[a] \in {"heap", "none"} => times(a) = Cardinality(Places(refs, a))
  BY <1>5, <1>9
<1>11. \A a \in Addr : mem[a] \in {"heap", "none"} => lost'[a] = lost[a] + Cardinality(Places(refs, a))
  BY <1>6, <1>10
<1>12. \A a \in Addr : lost'[a] \in Nat
  BY <1>6
<1> QED
  BY <1>4, <1>6, <1>7, <1>8, <1>11, <1>12

\* References that go without a release are accounted for as lost.
LEMMA LoseDrops ==
  ASSUME Core, NEW refs \in Seq(Addr), Lose(refs), due' = due,
         \A k \in DOMAIN refs : mem[refs[k]] # "none"
  PROVE  Dropped(refs)
<1>1. Typed /\ Dues /\ due \in Seq(Addr)
  BY DEF Core, Typed
<1>2. ASSUME NEW a \in Addr, mem[a] \in {"heap", "none"}
      PROVE  Cardinality(Places(due', a)) + lost'[a] =
               Cardinality(Places(due, a)) + lost[a] + Cardinality(Places(refs, a))
  <2>1. /\ lost'[a] = lost[a] + Cardinality(Places(refs, a))
        /\ lost[a] \in Nat /\ Cardinality(Places(refs, a)) \in Nat
    BY <1>2, LoseCounts
  <2>2. Cardinality(Places(due, a)) \in Nat
    BY <1>1, CountsFinite
  <2> QED
    BY <2>1, <2>2
<1>3. /\ lost' \in [Addr -> 0 .. MaxLost]
      /\ \A a \in Addr : lost'[a] >= lost[a] /\ (lost'[a] > 0 => mem[a] = "heap")
  BY LoseCounts
<1> QED
  BY <1>1, <1>2, <1>3 DEF Dropped, Dues

\* References given to release calls are accounted for as due.
LEMMA DueDrops ==
  ASSUME Core, due = <<>>, NEW refs \in Seq(Addr), due' = refs, lost' = lost,
         \A k \in DOMAIN refs : mem[refs[k]] # "none"
  PROVE  Dropped(refs)
<1>1. Typed /\ Dues /\ lost \in [Addr -> 0 .. MaxLost]
  BY DEF Core, Typed
<1>2. \A a : Places(<<>>, a) = {}
  BY DEF Places
<1>3. \A a \in Addr : /\ Cardinality(Places(<<>>, a)) = 0 /\ lost[a] \in Nat
                      /\ Cardinality(Places(refs, a)) \in Nat
  BY <1>1, <1>2, ClaimsAre, CountsFinite, FS_EmptySet
<1>4. \A a \in Addr : Cardinality(Places(due', a)) + lost'[a] =
                        Cardinality(Places(due, a)) + lost[a] + Cardinality(Places(refs, a))
  BY <1>3
<1> QED
  BY <1>1, <1>3, <1>4 DEF Dropped, Dues

\* gen_release accounts for what it is given: as due, or in a consumed
\* expression as lost.
LEMMA ReleaseDrops ==
  ASSUME Core, due = <<>>, NEW refs \in Seq(Addr), Release(refs),
         \A k \in DOMAIN refs : mem[refs[k]] # "none"
  PROVE  Dropped(refs)
BY LoseDrops, DueDrops DEF Release

----------------------------------------------------------------------------
\* From one state to the next.

\* What keeps a value goes on keeping it.
Firmer == Grows /\ \A a \in Addr : (Surplus(a) => Surplus(a)') /\ (lost[a] > 0 => lost'[a] > 0)

\* The sum of an address's claims, before a step and after it.
LEMMA ClaimsSum ==
  Typed => \A a \in Addr :
    /\ Claims(a) = Total(frames, a) + Cardinality(Places(due, a)) + lost[a]
    /\ Total(frames, a) \in Nat /\ Cardinality(Places(due, a)) \in Nat /\ lost[a] \in Nat
BY ClaimsAre

\* ClaimsSum after a step.
LEMMA ClaimsSumNext ==
  ASSUME Typed'
  PROVE  \A a \in Addr :
    /\ Claims(a)' = Total(frames', a) + Cardinality(Places(due', a)) + lost'[a]
    /\ Total(frames', a) \in Nat /\ Cardinality(Places(due', a)) \in Nat /\ lost'[a] \in Nat
<1>1. (\A a \in Addr :
    /\ Claims(a) = Total(frames, a) + Cardinality(Places(due, a)) + lost[a]
    /\ Total(frames, a) \in Nat /\ Cardinality(Places(due, a)) \in Nat /\ lost[a] \in Nat)'
  BY ClaimsSum, PTL
<1> QED
  BY <1>1 DEF Total, Places, FrameClaims, OwnBlocks, OwnNames, OwnVals, OwnLoops, Tagged

\* WordsFinite after a step.
LEMMA WordsFiniteNext ==
  ASSUME NEW a
  PROVE  Cardinality(Heap!Words(a)') \in Nat
<1>1. IsFiniteSet(Addr \X (1 .. Width))
  <2>1. IsFiniteSet(1 .. Width) /\ IsFiniteSet(Addr)
    BY FS_Interval, OwnershipAssumption
  <2> QED
    BY <2>1, FS_Product
<1>2. Heap!Words(a)' \in SUBSET (Addr \X (1 .. Width))
  BY DEF Heap!Words, Heap!Idx
<1> QED
  BY <1>1, <1>2, FS_Subset, FS_CardinalityType

\* Both sides of the account move together.
LEMMA Balance ==
  ASSUME NEW x \in Int, NEW y \in Int, NEW t \in Nat, NEW u \in Nat, NEW p \in Nat, NEW q \in Nat,
         NEW z \in Nat, NEW l \in Nat, NEW k \in Nat, NEW o \in Nat, NEW e, NEW f,
         y + t = x + u + z + o, q + k = p + l + z, e = x - (t + p + l), f = y - (u + q + k)
  PROVE  f = e + o
OBVIOUS

\* The counts hold after a step that moves as much into the headers as it moves
\* into the claims and drops; `over` is what it abandons.
LEMMA Ledger ==
  ASSUME Core, HeapStep, NEW refs \in Seq(Addr), Dropped(refs),
         frames' \in Seq(FrameType), lifted' = lifted,
         NEW over \in [Addr -> Nat], \A a \in Addr : lifted = {} => over[a] = 0,
         \A a \in Addr : mem'[a] = "heap" =>
            Stock(a)' + Total(frames, a) = Stock(a) + Total(frames', a) + Cardinality(Places(refs, a)) + over[a]
  PROVE  /\ Typed' /\ Counts' /\ Firmer
         /\ \A a \in Addr : mem'[a] = "heap" /\ over[a] > 0 => Surplus(a)'
<1>1. /\ Typed /\ Counts /\ HeapTyped
      /\ Grows /\ HeapTyped'
  BY DEF Core, Typed, HeapStep
<1>2. Typed'
  BY <1>1 DEF Typed, Dropped
<1>3. ASSUME NEW a \in Addr, mem'[a] = "heap"
      PROVE  /\ Excess(a)' >= 0 /\ Excess(a)' \in Int
             /\ mem[a] = "heap" => Excess(a)' = Excess(a) + over[a] /\ Excess(a) \in Int /\ Excess(a) >= 0
             /\ lifted = {} => Excess(a)' = 0
             /\ over[a] > 0 => Excess(a)' > 0
             /\ over[a] \in Nat
  <2>1. /\ Claims(a) = Total(frames, a) + Cardinality(Places(due, a)) + lost[a]
        /\ Total(frames, a) \in Nat /\ Cardinality(Places(due, a)) \in Nat /\ lost[a] \in Nat
        /\ Claims(a) \in Nat
    BY <1>1, ClaimsAre
  <2>2. /\ Claims(a)' = Total(frames', a) + Cardinality(Places(due', a)) + lost'[a]
        /\ Total(frames', a) \in Nat /\ Cardinality(Places(due', a)) \in Nat /\ lost'[a] \in Nat
    BY <1>2, ClaimsSumNext
  <2>3. /\ Stock(a) \in Int /\ Stock(a)' \in Int
        /\ Stock(a)' = hdr'[a] - Cardinality(Heap!Words(a)') /\ hdr'[a] \in Int
        /\ Cardinality(Heap!Words(a)') \in Nat
    <3>1. hdr[a] \in Int /\ hdr'[a] \in Int
      BY <1>1 DEF HeapTyped
    <3>2. Cardinality(Heap!Words(a)) \in Nat
      BY WordsFinite
    <3>3. Cardinality(Heap!Words(a)') \in Nat
      BY WordsFiniteNext
    <3> QED
      BY <1>3, <3>1, <3>2, <3>3 DEF Stock
  <2>4. Excess(a)' = Stock(a)' - Claims(a)'
    BY <2>2, <2>3 DEF Excess
  <2>5. Cardinality(Places(refs, a)) \in Nat /\ over[a] \in Nat
    BY CountsFinite
  <2>6. CASE mem[a] = "heap"
    <3>1. /\ Cardinality(Places(due', a)) + lost'[a] =
               Cardinality(Places(due, a)) + lost[a] + Cardinality(Places(refs, a))
      BY <2>6 DEF Dropped
    <3>2. /\ Excess(a) = Stock(a) - Claims(a) /\ Excess(a) >= 0 /\ (lifted = {} => Excess(a) = 0)
      <4>1. Stock(a) = hdr[a] - Cardinality(Heap!Words(a)) /\ hdr[a] \in Int
            /\ Cardinality(Heap!Words(a)) \in Nat
        BY <1>1, <2>6, WordsFinite DEF Stock, HeapTyped
      <4> QED
        BY <1>1, <2>1, <2>6, <4>1, SMTT(30) DEF Excess, Counts
    <3>3. Excess(a)' = Excess(a) + over[a]
      <4>1. Stock(a)' + Total(frames, a) = Stock(a) + Total(frames', a) + Cardinality(Places(refs, a)) + over[a]
        BY <1>3
      <4> DEFINE x == Stock(a)
                 y == Stock(a)'
                 t == Total(frames, a)
                 u == Total(frames', a)
                 p == Cardinality(Places(due, a))
                 q == Cardinality(Places(due', a))
                 z == Cardinality(Places(refs, a))
                 l == lost[a]
                 k == lost'[a]
                 o == over[a]
                 e == Excess(a)
                 f == Excess(a)'
                 c == Claims(a)
                 d == Claims(a)'
      <4>2. x \in Int /\ y \in Int /\ c = t + p + l /\ d = u + q + k
        BY <2>1, <2>2, <2>3
      <4>3. /\ t \in Nat /\ u \in Nat /\ p \in Nat /\ q \in Nat /\ z \in Nat
            /\ l \in Nat /\ k \in Nat /\ o \in Nat
        BY <2>1, <2>2, <2>5
      <4>4. f = y - d /\ e = x - c
        BY <2>4, <3>2
      <4>5. y + t = x + u + z + o /\ q + k = p + l + z
        BY <3>1, <4>1
      <4> HIDE DEF x, y, t, u, p, q, z, l, k, o, e, f, c, d
      <4>6. e = x - (t + p + l) /\ f = y - (u + q + k)
        BY <4>2, <4>4
      <4>7. f = e + o
        BY <4>2, <4>3, <4>5, <4>6, Balance
      <4> QED
        BY <4>7 DEF o, e, f
    <3>4. Excess(a) \in Int
      BY <2>1, <2>3, <3>2
    <3> QED
      BY <2>5, <3>2, <3>3, <3>4
  <2>7. CASE mem[a] # "heap"
    <3>1. mem[a] = "none"
      BY <1>1, <1>3, <2>7 DEF Grows
    <3>2. /\ Cardinality(Places(due', a)) + lost'[a] =
               Cardinality(Places(due, a)) + lost[a] + Cardinality(Places(refs, a))
      BY <3>1 DEF Dropped
    <3>3. Claims(a) = 0 /\ Stock(a) = 0
      BY <2>7, <3>1, NoneClaimed DEF Stock
    <3>4. Excess(a)' = over[a]
      <4>1. Stock(a)' + Total(frames, a) = Stock(a) + Total(frames', a) + Cardinality(Places(refs, a)) + over[a]
        BY <1>3
      <4> DEFINE x == Stock(a)
                 y == Stock(a)'
                 t == Total(frames, a)
                 u == Total(frames', a)
                 p == Cardinality(Places(due, a))
                 q == Cardinality(Places(due', a))
                 z == Cardinality(Places(refs, a))
                 l == lost[a]
                 k == lost'[a]
                 o == over[a]
                 e == Stock(a) - Claims(a)
                 f == Excess(a)'
                 c == Claims(a)
                 d == Claims(a)'
      <4>2. x \in Int /\ y \in Int /\ c = t + p + l /\ d = u + q + k
        BY <2>1, <2>2, <2>3
      <4>3. /\ t \in Nat /\ u \in Nat /\ p \in Nat /\ q \in Nat /\ z \in Nat
            /\ l \in Nat /\ k \in Nat /\ o \in Nat
        BY <2>1, <2>2, <2>5
      <4>4. f = y - d /\ e = x - c
        BY <2>4
      <4>5. y + t = x + u + z + o /\ q + k = p + l + z
        BY <3>2, <4>1
      <4> HIDE DEF x, y, t, u, p, q, z, l, k, o, e, f, c, d
      <4>6. e = x - (t + p + l) /\ f = y - (u + q + k)
        BY <4>2, <4>4
      <4>7. f = e + o
        BY <4>2, <4>3, <4>5, <4>6, Balance
      <4>8. e = 0 /\ o \in Nat
        BY <2>5, <3>3 DEF e, o
      <4> QED
        BY <4>7, <4>8 DEF o, f
    <3> QED
      BY <2>5, <2>7, <3>4
  <2> QED
    BY <2>6, <2>7
<1>4. Counts'
  BY <1>3 DEF Counts
<1>5. ASSUME NEW a \in Addr, Surplus(a)
      PROVE  Surplus(a)'
  <2>1. mem[a] = "heap" /\ mem'[a] = "heap" /\ Excess(a) > 0
    BY <1>1, <1>5 DEF Surplus, Grows
  <2>2. Excess(a)' > 0
    BY <1>3, <2>1
  <2> QED
    BY <2>1, <2>2 DEF Surplus
<1>6. Firmer
  <2>1. ASSUME NEW a \in Addr, lost[a] > 0
        PROVE  lost'[a] > 0
    <3>1. lost'[a] >= lost[a] /\ lost[a] \in Nat /\ lost'[a] \in Nat
      BY <1>1, <1>2, ClaimsSum, ClaimsSumNext DEF Dropped
    <3> QED
      BY <2>1, <3>1
  <2> QED
    BY <1>1, <1>5, <2>1 DEF Firmer
<1>7. \A a \in Addr : mem'[a] = "heap" /\ over[a] > 0 => Surplus(a)'
  BY <1>3 DEF Surplus
<1> QED
  BY <1>2, <1>4, <1>6, <1>7

\* Who keeps a value, but for a count that is over or lost.
KeptBy(n, d, a) == Keeps(frames[n], d, a) \/ \E g \in 1 .. n - 1 : KeepsAll(frames[g], a)

----------------------------------------------------------------------------
\* What is kept stays kept.

\* Whatever has a count stays where it is, with the words it has and all that is
\* inside it.
Firm ==
  \A a \in Addr :
    /\ mem[a] = "heap" /\ hdr[a] > 0 =>
         /\ mem'[a] = "heap" /\ Inside(a) \subseteq Inside(a)'
         /\ \A i \in 1 .. Width : body[a][i] # Null => body'[a][i] = body[a][i]
    /\ (Surplus(a) => Surplus(a)') /\ (lost[a] > 0 => lost'[a] > 0)

\* What a frame refers to stays where it is.
Remains(n) == \A a \in Refs(frames[n]) : mem'[a] = mem[a]

\* An aggregate under construction on the heap keeps its count.
BuiltAlone ==
  \A n \in DOMAIN frames : \A k \in DOMAIN frames[n].vals :
    frames[n].vals[k].st = "building" /\ mem[frames[n].vals[k].ref] = "heap" =>
      hdr'[frames[n].vals[k].ref] = hdr[frames[n].vals[k].ref]

\* A step that adds to the heap and frees nothing is firm, and keeps all that
\* is lost.
LEMMA FirmerFirm ==
  ASSUME Core, Firmer
  PROVE  Firm /\ \A n \in DOMAIN frames : Remains(n)
<1>1. HeapTyped /\ Grows /\ \A a \in Addr : (Surplus(a) => Surplus(a)') /\ (lost[a] > 0 => lost'[a] > 0)
  BY DEF Core, Typed, Firmer
<1>2. \A a \in Addr : Inside(a) \subseteq Inside(a)'
  BY <1>1, InsideGrows
<1>3. Firm
  BY <1>1, <1>2 DEF Firm, Grows
<1>4. ASSUME NEW n \in DOMAIN frames, NEW a \in Refs(frames[n])
      PROVE  mem'[a] = mem[a]
  <2>1. a \in Addr
    BY DEF Refs
  <2>2. mem[a] # "none"
    BY RefsLive
  <2> QED
    BY <1>1, <2>1, <2>2 DEF Grows
<1> QED
  BY <1>3, <1>4 DEF Remains

\* What is counted again was guarded, so nobody is building it.
LEMMA BuildersKept ==
  ASSUME Core,
         \A b \in Addr : mem[b] = "heap" /\ hdr'[b] # hdr[b] =>
            \E n \in DOMAIN frames : \E d \in Nat : Guard(n, d, b)
  PROVE  BuiltAlone
<1>1. Typed /\ Counts /\ HeapGood /\ \A n \in DOMAIN frames : Lives(frames[n])
  BY DEF Core, FrameOK, HeapGood, Typed
<1>2. ASSUME NEW n \in DOMAIN frames, NEW k \in DOMAIN frames[n].vals,
             frames[n].vals[k].st = "building", mem[frames[n].vals[k].ref] = "heap"
      PROVE  hdr'[frames[n].vals[k].ref] = hdr[frames[n].vals[k].ref]
  <2>1. PICK p : p = frames[n].vals[k].ref
    OBVIOUS
  <2>2. frames[n] \in FrameType
    BY <1>1 DEF Typed
  <2>3. p \in Addr
    BY <2>1, <2>2, FrameParts
  <2>4. mem[p] = "heap" /\ hdr[p] = 1
    BY <1>1, <1>2, <2>1 DEF Lives, LiveVal
  <2>5. \A m \in DOMAIN frames : \A d : \A r \in Addr : Guard(m, d, r) => r # p
    BY <1>1, <1>2, <2>1, <2>3, <2>4, BuildingAlone
  <2>6. hdr'[p] = hdr[p]
    BY <2>3, <2>4, <2>5
  <2> QED
    BY <2>1, <2>6
<1> QED
  BY <1>2 DEF BuiltAlone

\* Every reference to a heap value is to one with a count.
LEMMA RefsCounted ==
  ASSUME Core, NEW n \in DOMAIN frames
  PROVE  /\ \A a \in Refs(frames[n]) : mem[a] = "heap" =>
               hdr[a] > 0 \/ \E w \in Addr \X (1 .. Width) : body[w[1]][w[2]] = a
         /\ \A l \in DOMAIN frames[n].loops : frames[n].loops[l].arr # Null =>
               mem[frames[n].loops[l].arr] = "heap" /\ hdr[frames[n].loops[l].arr] > 0
         /\ \A k \in DOMAIN frames[n].vals : mem[frames[n].vals[k].ref] = "heap" =>
               hdr[frames[n].vals[k].ref] > 0
<1> DEFINE f == frames[n]
<1>1. /\ Typed /\ Counts /\ HeapGood /\ Lives(f) /\ GuardVals(n) /\ GuardNames(n) /\ ScratchAt(n)
      /\ GuardLoops(n) /\ f \in FrameType
  BY DEF Core, FrameOK, HeapGood, Typed
<1>2. ASSUME NEW d, NEW r \in Addr, Guard(n, d, r), mem[r] = "heap"
      PROVE  hdr[r] > 0
  BY <1>1, <1>2, GuardLive
<1>3. ASSUME NEW r \in Addr, mem[r] = "heap", Claims(r) >= 1
      PROVE  hdr[r] > 0
  <2>1. Cardinality(Heap!Words(r)) \in Nat /\ Claims(r) \in Nat /\ hdr[r] \in Int
    BY <1>1, ClaimsAre, WordsFinite DEF Typed, HeapTyped
  <2>2. hdr[r] - Claims(r) - Cardinality(Heap!Words(r)) >= 0
    BY <1>1, <1>3 DEF Counts, Excess
  <2> QED
    BY <1>3, <2>1, <2>2
<1>4. ASSUME NEW k \in DOMAIN f.vals, mem[f.vals[k].ref] = "heap"
      PROVE  hdr[f.vals[k].ref] > 0
  <2>1. f.vals[k].ref \in Addr
    BY <1>1, FrameParts
  <2>2. CASE f.vals[k].st = "borrow"
    BY <1>1, <1>2, <1>4, <2>1, <2>2 DEF GuardVals
  <2>3. CASE f.vals[k].st # "borrow"
    BY <1>1, <1>3, <1>4, <2>1, <2>3, ValClaims, Claimed
  <2> QED
    BY <2>2, <2>3
<1>5. ASSUME NEW l \in DOMAIN f.loops, f.loops[l].arr # Null
      PROVE  mem[f.loops[l].arr] = "heap" /\ hdr[f.loops[l].arr] > 0
  <2>1. f.loops[l].arr \in Addr /\ mem[f.loops[l].arr] = "heap"
    BY <1>1, <1>5, FrameParts, RefsLive
  <2>2. CASE f.loops[l].mine
    BY <1>1, <1>3, <2>1, <2>2, LoopClaims, Claimed
  <2>3. CASE ~f.loops[l].mine
    BY <1>1, <1>2, <1>5, <2>1, <2>3 DEF GuardLoops
  <2> QED
    BY <2>1, <2>2, <2>3
<1>6. ASSUME NEW a \in Addr, mem[a] = "heap", NEW k \in DOMAIN f.spent, f.spent[k] = a
      PROVE  hdr[a] > 0
  BY <1>1, <1>3, <1>6, SpentClaims, Claimed
<1>7. ASSUME NEW a \in Addr, mem[a] = "heap", NameAt(f, a)
      PROVE  hdr[a] > 0 \/ \E w \in Addr \X (1 .. Width) : body[w[1]][w[2]] = a
  <2>1. PICK b \in DOMAIN f.blocks : \E k \in DOMAIN f.blocks[b].names : f.blocks[b].names[k].ref = a
    BY <1>7 DEF NameAt
  <2>2. PICK k \in DOMAIN f.blocks[b].names : f.blocks[b].names[k].ref = a
    BY <2>1
  <2>3. GuardName(n, b, k) /\ a # Null
    BY <1>1, OwnershipAssumption DEF GuardNames
  <2>4. CASE f.blocks[b].names[k].own
    BY <1>1, <1>3, <1>7, <2>2, <2>4, NameClaims, Claimed
  <2>5. CASE Guard(n, Len(f.blocks), a) \/ Guard(n, 0, a)
    BY <1>2, <1>7, <2>5
  <2>6. CASE \E l \in DOMAIN f.loops : AtVar(f, l, b, k) /\ \E i \in 1 .. Width : body[f.loops[l].arr][i] = a
    <3>1. PICK l \in DOMAIN f.loops : AtVar(f, l, b, k) /\ \E i \in 1 .. Width : body[f.loops[l].arr][i] = a
      BY <2>6
    <3>2. PICK i \in 1 .. Width : body[f.loops[l].arr][i] = a
      BY <3>1
    <3>3. f.loops[l].arr \in Addr
      BY <1>1, <3>1, FrameParts DEF AtVar
    <3>4. <<f.loops[l].arr, i>> \in Addr \X (1 .. Width)
      BY <3>3
    <3> QED
      BY <3>2, <3>4
  <2> QED
    BY <2>2, <2>3, <2>4, <2>5, <2>6 DEF GuardName
<1>8. ASSUME NEW a \in Refs(f), mem[a] = "heap"
      PROVE  hdr[a] > 0 \/ \E w \in Addr \X (1 .. Width) : body[w[1]][w[2]] = a
  BY <1>1, <1>4, <1>6, <1>7, <1>8 DEF Refs, ScratchAt
<1> QED
  BY <1>4, <1>5, <1>8

\* A guard carries over to any frame that has the keepers.
LEMMA GuardCarried ==
  ASSUME Core, Firm, NEW n \in DOMAIN frames, NEW d, NEW m, NEW c, NEW r \in Addr, Guard(n, d, r),
         mem'[r] = mem[r],
         \A a \in Addr : mem[a] = "heap" /\ r \in Inside(a) /\ KeptBy(n, d, a) => KeptBy(m, c, a)'
  PROVE  Guard(m, c, r)'
<1>1. CASE mem[r] \in {"const", "frame"}
  BY <1>1 DEF Guard
<1>2. CASE \E a \in Addr : mem[a] = "heap" /\ Kept(n, d, a) /\ r \in Inside(a)
  <2>1. PICK a \in Addr : mem[a] = "heap" /\ Kept(n, d, a) /\ r \in Inside(a)
    BY <1>2
  <2>2. hdr[a] > 0
    BY <2>1, KeptCounted DEF Core
  <2>3. mem'[a] = "heap" /\ r \in Inside(a)'
    BY <2>1, <2>2 DEF Firm
  <2>4. (lost[a] > 0 => lost'[a] > 0) /\ (Surplus(a) => Surplus(a)')
    BY DEF Firm
  <2>5. Surplus(a) \/ lost[a] > 0 \/ KeptBy(n, d, a)
    BY <2>1 DEF Kept, KeptBy
  <2>6. Surplus(a)' \/ lost'[a] > 0 \/ KeptBy(m, c, a)'
    BY <2>1, <2>4, <2>5, Zenon
  <2>7. Kept(m, c, a)'
    BY <2>6 DEF Kept, KeptBy
  <2> QED
    BY <2>3, <2>7 DEF Guard
<1> QED
  BY <1>1, <1>2 DEF Guard

----------------------------------------------------------------------------
\* The frames a step leaves alone.

\* A firm step keeps what is known of the frames it does not touch.
LEMMA KeptBelow ==
  ASSUME Core, Firm, BuiltAlone, NEW m \in Nat,
         \A n \in 1 .. m : n \in DOMAIN frames /\ n \in DOMAIN frames' /\ frames'[n] = frames[n] /\ Remains(n),
         Len(frames') > m => Len(frames) > m,
         Len(frames) \in Nat, Len(frames') \in Nat, DOMAIN frames' = 1 .. Len(frames')
  PROVE  \A n \in 1 .. m : FrameOK(n)'
<1> SUFFICES ASSUME NEW n \in 1 .. m
             PROVE  FrameOK(n)'
  OBVIOUS
<1> DEFINE f == frames[n]
<1>1. /\ n \in DOMAIN frames /\ frames'[n] = f /\ Remains(n) /\ f \in FrameType /\ FrameOK(n)
      /\ \A g \in 1 .. n : frames'[g] = frames[g]
      /\ Typed /\ HeapTyped /\ Placed
  BY DEF Core, Typed
<1>2. /\ f.blocks \in Seq(BlockType) /\ f.vals \in Seq(OperandType) /\ f.spent \in Seq(Addr)
      /\ f.loops \in Seq(LoopType) /\ f.scratch \in SUBSET Addr
  BY <1>1, FrameParts
<1>3. \A a \in Refs(f) : mem'[a] = mem[a]
  BY <1>1 DEF Remains
<1>4. Shape(frames[n])' /\ LoopShape(frames[n])'
  BY <1>1 DEF FrameOK, Shape, LoopShape, LoopAt, AtVar
<1>5. Waiting(n)'
  <2>1. n < Len(frames') => n < Len(frames)
    OBVIOUS
  <2> QED
    BY <1>1, <2>1 DEF FrameOK, Waiting
<1>6. ASSUME NEW k \in DOMAIN f.vals
      PROVE  f.vals[k].ref \in Addr /\ mem'[f.vals[k].ref] = mem[f.vals[k].ref]
  BY <1>1, <1>3, FrameParts DEF Refs
<1>7. ASSUME NEW k \in DOMAIN f.spent
      PROVE  mem'[f.spent[k]] = mem[f.spent[k]]
  BY <1>1, <1>3, FrameParts DEF Refs
<1>8. ASSUME NEW b \in DOMAIN f.blocks, NEW k \in DOMAIN f.blocks[b].names, f.blocks[b].names[k].ref # Null
      PROVE  /\ f.blocks[b].names[k].ref \in Addr
             /\ mem'[f.blocks[b].names[k].ref] = mem[f.blocks[b].names[k].ref]
  BY <1>1, <1>3, <1>8, FrameParts DEF Refs, NameAt
<1>9. ASSUME NEW l \in DOMAIN f.loops, f.loops[l].arr # Null
      PROVE  /\ f.loops[l].arr \in Addr
             /\ mem'[f.loops[l].arr] = "heap" /\ mem[f.loops[l].arr] = "heap"
             /\ \A i \in 1 .. Width : body[f.loops[l].arr][i] # Null => body'[f.loops[l].arr][i] = body[f.loops[l].arr][i]
  BY <1>1, <1>9, FrameParts, RefsCounted DEF Firm
<1>10. ASSUME NEW a \in f.scratch
       PROVE  mem'[a] = mem[a]
  BY <1>2, <1>3 DEF Refs
<1>11. ScratchAt(n)'
  <2>1. ScratchAt(n) /\ frames'[n] = f
    BY <1>1 DEF FrameOK
  <2>2. \A a \in f.scratch : mem'[a] = "frame" /\ ~NameAt(f, a) /\ \A g \in DOMAIN frames : g < n => a \notin Refs(frames[g])
    BY <1>10, <2>1 DEF ScratchAt
  <2>3. \A g \in DOMAIN frames' : g < n => frames'[g] = frames[g] /\ g \in DOMAIN frames
    <3>1. \A g \in DOMAIN frames' : g < n => g \in 1 .. m
      OBVIOUS
    <3> QED
      BY <3>1
  <2> QED
    BY <2>1, <2>2, <2>3 DEF ScratchAt, Refs, NameAt
<1>12. Lives(frames[n])'
  <2>1. Lives(f) /\ frames'[n] = f
    BY <1>1 DEF FrameOK
  <2>2. \A b \in DOMAIN f.blocks : \A k \in DOMAIN f.blocks[b].names : LiveName(f.blocks[b].names[k])'
    <3>1. SUFFICES ASSUME NEW b \in DOMAIN f.blocks, NEW k \in DOMAIN f.blocks[b].names, f.blocks[b].names[k].own
                   PROVE  mem'[f.blocks[b].names[k].ref] # "none"
      BY DEF LiveName
    <3>2. f.blocks[b].names[k].ref # Null /\ mem[f.blocks[b].names[k].ref] # "none"
      BY <1>1, <2>1, <3>1 DEF FrameOK, Shape, Lives, LiveName
    <3> QED
      BY <1>8, <3>2
  <2>3. \A k \in DOMAIN f.vals : LiveVal(f.vals[k])'
    <3>1. SUFFICES ASSUME NEW k \in DOMAIN f.vals
                   PROVE  LiveVal(f.vals[k])'
      OBVIOUS
    <3>2. LiveVal(f.vals[k])
      BY <2>1 DEF Lives
    <3>3. f.vals[k].st = "building" /\ mem[f.vals[k].ref] = "heap" => hdr'[f.vals[k].ref] = hdr[f.vals[k].ref]
      BY <1>1 DEF BuiltAlone
    <3> QED
      BY <1>6, <3>2, <3>3 DEF LiveVal
  <2>4. \A k \in DOMAIN f.spent : mem'[f.spent[k]] # "none"
    BY <1>7, <2>1 DEF Lives
  <2>5. \A l \in DOMAIN f.loops : LiveArr(f.loops[l])'
    BY <1>9 DEF LiveArr
  <2> QED
    BY <2>1, <2>2, <2>3, <2>4, <2>5 DEF Lives
<1>13. ASSUME NEW d, NEW r \in Addr, Guard(n, d, r), mem'[r] = mem[r]
       PROVE  Guard(n, d, r)'
  <2>1. \A a \in Addr : KeptBy(n, d, a) => KeptBy(n, d, a)'
    <3>1. n \in Nat /\ \A g \in 1 .. n - 1 : g \in 1 .. n
      OBVIOUS
    <3>2. \A a \in Addr : Keeps(frames[n], d, a)' = Keeps(frames[n], d, a)
      BY <1>1 DEF Keeps
    <3>3. \A g \in 1 .. n - 1 : \A a \in Addr : KeepsAll(frames[g], a)' = KeepsAll(frames[g], a)
      BY <1>1, <3>1 DEF Keeps, KeepsAll
    <3> QED
      BY <3>2, <3>3 DEF KeptBy
  <2> QED
    BY <1>1, <1>13, <2>1, GuardCarried
<1>14. GuardVals(n)'
  BY <1>1, <1>6, <1>13 DEF FrameOK, GuardVals
<1>15. GuardLoops(n)'
  <2>1. \A l \in DOMAIN f.loops : f.loops[l].arr # Null /\ ~f.loops[l].mine => Guard(n, f.loops[l].depth, f.loops[l].arr)'
    BY <1>1, <1>9, <1>13 DEF FrameOK, GuardLoops
  <2> QED
    BY <1>1, <2>1 DEF GuardLoops
<1>16. GuardNames(n)'
  <2>1. SUFFICES ASSUME NEW b \in DOMAIN f.blocks, NEW k \in DOMAIN f.blocks[b].names
                 PROVE  GuardName(n, b, k)'
    BY <1>1 DEF GuardNames
  <2> DEFINE e == f.blocks[b].names[k]
  <2>2. GuardName(n, b, k) /\ frames'[n] = f
    BY <1>1 DEF FrameOK, GuardNames
  <2>3. CASE e.own
    BY <2>2, <2>3 DEF GuardName
  <2>4. CASE f.blocks[b].kind = "arm" /\ e.ref # Null /\ Guard(n, Len(f.blocks), e.ref)
    <3>1. Guard(n, Len(f.blocks), e.ref)'
      BY <1>8, <1>13, <2>4
    <3> QED
      BY <2>2, <2>4, <3>1 DEF GuardName
  <2>5. CASE f.blocks[b].kind # "arm" /\ e.ref # Null /\ Guard(n, 0, e.ref)
    <3>1. Guard(n, 0, e.ref)'
      BY <1>8, <1>13, <2>5
    <3> QED
      BY <2>2, <2>5, <3>1 DEF GuardName
  <2>6. CASE /\ f.blocks[b].kind # "arm"
             /\ \E l \in DOMAIN f.loops :
                  /\ AtVar(f, l, b, k)
                  /\ e.ref # Null => \E i \in 1 .. Width : body[f.loops[l].arr][i] = e.ref
    <3>1. PICK l \in DOMAIN f.loops :
                  /\ AtVar(f, l, b, k)
                  /\ e.ref # Null => \E i \in 1 .. Width : body[f.loops[l].arr][i] = e.ref
      BY <2>6
    <3>2. e.ref # Null => \E i \in 1 .. Width : body'[f.loops[l].arr][i] = e.ref
      BY <1>9, <3>1 DEF AtVar
    <3>3. AtVar(frames[n], l, b, k)' /\ l \in DOMAIN frames'[n].loops
      BY <2>2, <3>1 DEF AtVar
    <3>4. frames'[n].loops[l].arr = f.loops[l].arr /\ frames'[n].blocks[b].names[k] = e
          /\ frames'[n].blocks[b].kind # "arm"
      BY <2>2, <2>6
    <3> HIDE DEF f, e
    <3> QED
      BY <3>2, <3>3, <3>4 DEF GuardName
  <2> QED
    BY <2>2, <2>3, <2>4, <2>5, <2>6 DEF GuardName
<1> QED
  BY <1>4, <1>5, <1>11, <1>12, <1>14, <1>15, <1>16 DEF FrameOK

----------------------------------------------------------------------------
\* A step of the running frame.

\* A step that changes the running frame only changes its claims only.
LEMMA TopOnly ==
  ASSUME frames \in Seq(FrameType), frames # <<>>, NEW N, N = Len(frames), NEW f, f = F,
         NEW G \in FrameType, frames' = Append(Under, G)
  PROVE  /\ N \in Nat \ {0} /\ N \in DOMAIN frames /\ N \in DOMAIN frames' /\ frames' \in Seq(FrameType)
         /\ Len(frames') = N /\ DOMAIN frames' = 1 .. N /\ frames'[N] = G
         /\ frames[N] = f /\ f \in FrameType
         /\ \A g \in 1 .. N - 1 : g \in DOMAIN frames /\ g \in DOMAIN frames' /\ frames'[g] = frames[g]
         /\ \A a : Total(frames, a) = Total(Under, a) + Weight(f, a)
         /\ \A a : Total(frames', a) = Total(Under, a) + Weight(G, a)
         /\ \A a : Total(Under, a) \in Nat /\ Weight(f, a) \in Nat /\ Weight(G, a) \in Nat
<1>1. /\ F \in FrameType /\ Under \in Seq(FrameType)
      /\ Len(frames) \in Nat \ {0} /\ Len(frames) \in DOMAIN frames
      /\ Len(Under) = Len(frames) - 1 /\ DOMAIN frames = 1 .. Len(frames)
      /\ frames = Append(Under, F) /\ F = frames[Len(frames)]
      /\ \A n \in 1 .. Len(frames) - 1 : Under[n] = frames[n] /\ n \in DOMAIN frames
  BY Decomposed
<1>2. /\ Append(Under, G) \in Seq(FrameType) /\ Len(Append(Under, G)) = Len(Under) + 1
      /\ DOMAIN Append(Under, G) = 1 .. Len(Under) + 1
      /\ Append(Under, G)[Len(Under) + 1] = G
      /\ \A k \in 1 .. Len(Under) : Append(Under, G)[k] = Under[k]
  BY <1>1, AppendFacts
<1>3. /\ N \in Nat \ {0} /\ frames' \in Seq(FrameType) /\ Len(frames') = N /\ DOMAIN frames' = 1 .. N /\ frames'[N] = G
  BY <1>1, <1>2
<1>4. \A g \in 1 .. N - 1 : frames'[g] = frames[g] /\ g \in DOMAIN frames /\ g \in DOMAIN frames'
  BY <1>1, <1>2, <1>3
<1>5. \A a : /\ Total(frames, a) = Total(Under, a) + Weight(f, a)
             /\ Total(frames', a) = Total(Under, a) + Weight(G, a)
  BY <1>1, TotalAppend
<1>6. \A a : Total(Under, a) \in Nat /\ Weight(f, a) \in Nat /\ Weight(G, a) \in Nat
  BY <1>1, TotalFinite, WeightIs
<1> QED
  BY <1>1, <1>3, <1>4, <1>5, <1>6

\* The arithmetic of a step in the running frame: what the frames under it
\* claim cancels.
LEMMA Underneath ==
  ASSUME NEW x \in Int, NEW y \in Int, NEW r \in Nat, NEW v \in Nat, NEW w \in Nat,
         NEW z \in Nat, NEW o \in Nat, NEW t, NEW u, t = r + v, u = r + w, y + v = x + w + z + o
  PROVE  y + t = x + u + z + o
OBVIOUS

\* A step that accounts for what it drops keeps Dues.
LEMMA DuesKept ==
  ASSUME Core, Grows, NEW refs, Dropped(refs)
  PROVE  Dues'
<1>1. \A k \in DOMAIN due' : mem'[due'[k]] # "none"
  <2>1. \A k \in DOMAIN due' : due'[k] \in Addr
    BY DEF Dropped
  <2> QED
    BY <2>1 DEF Dropped, Grows
<1>2. \A a \in Addr : lost'[a] > 0 => mem'[a] = "heap"
  BY DEF Dropped, Grows
<1> QED
  BY <1>1, <1>2 DEF Dues

\* What a step abandons, in a program that may.
Abandons(over) == over \in [Addr -> Nat] /\ \A a \in Addr : lifted = {} => over[a] = 0

\* What the running frame claims moves with the counts.
Accounts(f, g, refs, over) ==
  \A a \in Addr : mem'[a] = "heap" =>
    Stock(a)' + Weight(f, a) = Stock(a) + Weight(g, a) + Cardinality(Places(refs, a)) + over[a]

\* All that a step of the running frame has to be shown to do.
LEMMA TopStep ==
  ASSUME Core, frames # <<>>, HeapStep, NEW refs \in Seq(Addr), Dropped(refs), lifted' = lifted,
         NEW N, N = Len(frames), NEW f, f = F,
         NEW G \in FrameType, frames' = Append(Under, G), G.spent = <<>>, G.unit = f.unit,
         NEW over, Abandons(over), Accounts(f, G, refs, over), BuiltAlone
  PROVE  /\ Firm /\ Grows /\ Typed' /\ Counts'
         /\ \A a \in Addr : mem'[a] = "heap" /\ over[a] > 0 => Surplus(a)'
         /\ FrameOK(N)' => Core'
<1>1. /\ N \in Nat \ {0} /\ N \in DOMAIN frames /\ frames' \in Seq(FrameType)
      /\ Len(frames') = N /\ DOMAIN frames' = 1 .. N /\ frames'[N] = G /\ frames[N] = f
      /\ \A g \in 1 .. N - 1 : g \in DOMAIN frames /\ g \in DOMAIN frames' /\ frames'[g] = frames[g]
      /\ \A a : Total(frames, a) = Total(Under, a) + Weight(f, a)
      /\ \A a : Total(frames', a) = Total(Under, a) + Weight(G, a)
      /\ \A a : Total(Under, a) \in Nat /\ Weight(f, a) \in Nat /\ Weight(G, a) \in Nat
  BY TopOnly DEF Core, Typed
<1>2. /\ Typed' /\ Counts' /\ Firmer
      /\ \A a \in Addr : mem'[a] = "heap" /\ over[a] > 0 => Surplus(a)'
  <2>1. ASSUME NEW a \in Addr, mem'[a] = "heap"
        PROVE  Stock(a)' + Total(frames, a) = Stock(a) + Total(frames', a) + Cardinality(Places(refs, a)) + over[a]
    <3>1. Stock(a) \in Int /\ Stock(a)' \in Int
      <4>1. hdr[a] \in Int /\ hdr'[a] \in Int
        BY DEF Core, Typed, HeapTyped, HeapStep
      <4> QED
        BY <4>1, WordsFinite, WordsFiniteNext DEF Stock
    <3>2. Cardinality(Places(refs, a)) \in Nat
      BY CountsFinite
    <3> DEFINE x == Stock(a)
               y == Stock(a)'
               z == Cardinality(Places(refs, a))
               t == Total(frames, a)
               u == Total(frames', a)
               r == Total(Under, a)
               v == Weight(f, a)
               w == Weight(G, a)
               o == over[a]
    <3>3. x \in Int /\ y \in Int /\ z \in Nat /\ r \in Nat /\ v \in Nat /\ w \in Nat /\ o \in Nat
      BY <1>1, <3>1, <3>2 DEF Abandons
    <3>4. t = r + v /\ u = r + w /\ y + v = x + w + z + o
      BY <1>1, <2>1 DEF Accounts
    <3> HIDE DEF x, y, z, t, u, r, v, w, o
    <3>5. y + t = x + u + z + o
      BY <3>3, <3>4, Underneath
    <3> QED
      BY <3>5 DEF x, y, z, t, u, o
  <2> QED
    BY <1>1, <2>1, Ledger DEF Abandons
<1>3. Firm /\ Grows /\ \A n \in DOMAIN frames : Remains(n)
  BY <1>2, FirmerFirm DEF Firmer
<1>4. \A n \in 1 .. N - 1 : FrameOK(n)'
  <2>1. N - 1 \in Nat
    BY <1>1
  <2> QED
    BY <1>1, <1>3, <2>1, KeptBelow
<1>5. Dues'
  BY <1>3, DuesKept
<1>6. Bottom'
  <2>1. 1 \in DOMAIN frames' /\ (N # 1 => 1 \in 1 .. N - 1)
    BY <1>1
  <2>2. frames'[1].unit = frames[1].unit
    BY <1>1, <2>1
  <2> QED
    BY <1>1, <2>2 DEF Core, Bottom
<1>7. ASSUME FrameOK(N)'
      PROVE  Core'
  <2>1. \A n \in DOMAIN frames' : FrameOK(n)'
    <3>1. \A n \in DOMAIN frames' : n \in 1 .. N - 1 \/ n = N
      BY <1>1
    <3> QED
      BY <1>4, <1>7, <3>1
  <2> QED
    BY <1>2, <1>5, <1>6, <2>1 DEF Core, HeapStep
<1> QED
  BY <1>2, <1>3, <1>7

----------------------------------------------------------------------------
\* What the running frame keeps through a step of its own.

\* More blocks open keep no less.
LEMMA GuardMore ==
  ASSUME Typed, NEW n \in DOMAIN frames, NEW d \in Nat, NEW c \in Nat, d <= c, NEW r, Guard(n, d, r)
  PROVE  Guard(n, c, r)
<1>1. frames[n] \in FrameType
  BY DEF Typed
<1>2. \A b \in DOMAIN frames[n].blocks : b \in Nat
  BY <1>1, FrameParts
<1>3. \A l \in DOMAIN frames[n].loops : frames[n].loops[l].depth \in Nat
  BY <1>1, FrameParts
<1>4. \A a : Keeps(frames[n], d, a) => Keeps(frames[n], c, a)
  BY <1>2, <1>3 DEF Keeps
<1> QED
  BY <1>4 DEF Guard, Kept

\* A guard of the running frame stays, where the frame keeps what guards.
LEMMA TopGuard ==
  ASSUME Core, frames # <<>>, NEW N, N = Len(frames), NEW f, f = F,
         NEW G \in FrameType, frames' = Append(Under, G), Firm,
         NEW d, NEW c, NEW r \in Addr, Guard(N, d, r), mem'[r] = mem[r],
         \A a \in Addr : mem[a] = "heap" /\ r \in Inside(a) /\ Keeps(f, d, a) => Keeps(G, c, a)
  PROVE  Guard(N, c, r)'
<1>1. /\ N \in Nat \ {0} /\ N \in DOMAIN frames /\ frames'[N] = G /\ frames[N] = f
      /\ \A g \in 1 .. N - 1 : frames'[g] = frames[g]
  BY TopOnly DEF Core, Typed
<1>2. ASSUME NEW a \in Addr, mem[a] = "heap", r \in Inside(a), KeptBy(N, d, a)
      PROVE  KeptBy(N, c, a)'
  <2>1. CASE Keeps(frames[N], d, a)
    <3>1. Keeps(frames'[N], c, a)
      BY <1>1, <1>2, <2>1
    <3>2. Keeps(frames[N], c, a)'
      BY <3>1 DEF Keeps
    <3> QED
      BY <3>2 DEF KeptBy
  <2>2. CASE \E g \in 1 .. N - 1 : KeepsAll(frames[g], a)
    <3>1. PICK g \in 1 .. N - 1 : KeepsAll(frames[g], a)
      BY <2>2
    <3>2. KeepsAll(frames[g], a)'
      <4>1. frames'[g] = frames[g]
        BY <1>1
      <4> QED
        BY <3>1, <4>1 DEF KeepsAll, Keeps
    <3> QED
      BY <3>2 DEF KeptBy
  <2> QED
    BY <1>2, <2>1, <2>2 DEF KeptBy
<1> QED
  BY <1>1, <1>2, GuardCarried

\* A frame that is complete again after a step.
LEMMA TopFrame ==
  ASSUME Core, frames # <<>>, NEW N, N = Len(frames), NEW f, f = F,
         NEW G \in FrameType, frames' = Append(Under, G), Grows,
         Shape(G), LoopShape(G), G.spent = <<>>,
         \A a \in G.scratch : /\ mem'[a] = "frame" /\ ~NameAt(G, a)
                              /\ a \in f.scratch \/ mem[a] = "none",
         \A k \in DOMAIN G.vals : /\ LiveVal(G.vals[k])'
                                  /\ G.vals[k].st = "borrow" => Guard(N, Len(G.blocks), G.vals[k].ref)',
         \A l \in DOMAIN G.loops : /\ LiveArr(G.loops[l])'
                                   /\ G.loops[l].arr # Null /\ ~G.loops[l].mine =>
                                        Guard(N, G.loops[l].depth, G.loops[l].arr)',
         \A b \in DOMAIN G.blocks : \A k \in DOMAIN G.blocks[b].names :
            LiveName(G.blocks[b].names[k])' /\ GuardName(N, b, k)'
  PROVE  FrameOK(N)'
<1>1. /\ N \in Nat \ {0} /\ N \in DOMAIN frames /\ frames'[N] = G /\ frames[N] = f
      /\ DOMAIN frames' = 1 .. N /\ Len(frames') = N
      /\ \A g \in 1 .. N - 1 : g \in DOMAIN frames /\ frames'[g] = frames[g]
  BY TopOnly DEF Core, Typed
<1>2. Shape(frames[N])' /\ LoopShape(frames[N])' /\ Waiting(N)'
  BY <1>1 DEF Shape, LoopShape, LoopAt, AtVar, Waiting
<1>3. ScratchAt(N)'
  <2>1. ASSUME NEW a \in G.scratch, NEW g \in 1 .. N - 1
        PROVE  a \notin Refs(frames[g])
    <3>1. CASE a \in f.scratch
      <4>1. ScratchAt(N) /\ g \in DOMAIN frames /\ g < N
        BY <1>1 DEF Core, FrameOK
      <4> QED
        BY <1>1, <3>1, <4>1 DEF ScratchAt
    <3>2. CASE mem[a] = "none"
      BY <1>1, <3>2, RefsLive
    <3> QED
      BY <3>1, <3>2
  <2>2. \A g \in DOMAIN frames' : g < N => g \in 1 .. N - 1
    BY <1>1
  <2> QED
    BY <1>1, <2>1, <2>2 DEF ScratchAt, Refs, NameAt
<1>4. Lives(frames[N])'
  <2>1. \A k \in DOMAIN G.spent : mem'[G.spent[k]] # "none"
    OBVIOUS
  <2>2. /\ \A b \in DOMAIN G.blocks : \A k \in DOMAIN G.blocks[b].names : LiveName(G.blocks[b].names[k])'
        /\ \A k \in DOMAIN G.vals : LiveVal(G.vals[k])'
        /\ \A l \in DOMAIN G.loops : LiveArr(G.loops[l])'
    OBVIOUS
  <2> QED
    BY <1>1, <2>1, <2>2 DEF Lives
<1>5. GuardVals(N)'
  BY <1>1 DEF GuardVals
<1>6. GuardLoops(N)'
  BY <1>1 DEF GuardLoops
<1>7. GuardNames(N)'
  BY <1>1 DEF GuardNames
<1> QED
  BY <1>2, <1>3, <1>4, <1>5, <1>6, <1>7 DEF FrameOK

----------------------------------------------------------------------------
\* The loops and names a step of the running frame carries along.

\* A loop that stays keeps its array, and its guard where the array is
\* borrowed.
LEMMA LoopCarried ==
  ASSUME Core, frames # <<>>, NEW N, N = Len(frames), NEW f, f = F,
         NEW G \in FrameType, frames' = Append(Under, G), Firm, Grows,
         NEW l \in DOMAIN f.loops, NEW k \in DOMAIN G.loops,
         G.loops[k].arr = f.loops[l].arr, G.loops[k].mine = f.loops[l].mine,
         G.loops[k].depth = f.loops[l].depth,
         \A a \in Addr : mem[a] = "heap" /\ f.loops[l].arr \in Inside(a) /\ Keeps(f, f.loops[l].depth, a) =>
            Keeps(G, f.loops[l].depth, a)
  PROVE  /\ LiveArr(G.loops[k])'
         /\ G.loops[k].arr # Null /\ ~G.loops[k].mine => Guard(N, G.loops[k].depth, G.loops[k].arr)'
<1>1. N \in DOMAIN frames /\ frames[N] = f /\ f \in FrameType
  BY TopOnly DEF Core, Typed
<1>2. PICK r, d : r = f.loops[l].arr /\ d = f.loops[l].depth
  OBVIOUS
<1>3. CASE r = Null
  BY <1>2, <1>3 DEF LiveArr
<1>4. CASE r # Null
  <2>1. r \in Addr /\ mem[r] = "heap"
    BY <1>1, <1>2, <1>4, FrameParts, RefsLive
  <2>2. mem'[r] = mem[r]
    BY <2>1 DEF Grows
  <2>3. LiveArr(G.loops[k])'
    BY <1>2, <2>1, <2>2 DEF LiveArr
  <2>4. ASSUME ~f.loops[l].mine
        PROVE  Guard(N, d, r)'
    <3>1. Guard(N, d, r)
      BY <1>1, <1>2, <1>4, <2>4 DEF Core, FrameOK, GuardLoops
    <3>2. \A a \in Addr : mem[a] = "heap" /\ r \in Inside(a) /\ Keeps(f, d, a) => Keeps(G, d, a)
      BY <1>2
    <3> QED
      BY <2>1, <2>2, <3>1, <3>2, TopGuard
  <2> QED
    BY <1>2, <2>3, <2>4
<1> QED
  BY <1>3, <1>4

\* A name that stays keeps what it owns, or what guards it.
LEMMA NameCarried ==
  ASSUME Core, frames # <<>>, NEW N, N = Len(frames), NEW f, f = F,
         NEW G \in FrameType, frames' = Append(Under, G), Firm, Grows,
         NEW b \in DOMAIN f.blocks, b \in DOMAIN G.blocks, G.blocks[b].kind = f.blocks[b].kind,
         NEW k \in DOMAIN f.blocks[b].names, k \in DOMAIN G.blocks[b].names,
         G.blocks[b].names[k] = f.blocks[b].names[k],
         f.blocks[b].kind = "arm" =>
            \A a \in Addr : Keeps(f, Len(f.blocks), a) => Keeps(G, Len(G.blocks), a),
         \A l \in DOMAIN f.loops : AtVar(f, l, b, k) =>
            \E m \in DOMAIN G.loops : AtVar(G, m, b, k) /\ G.loops[m].arr = f.loops[l].arr
  PROVE  LiveName(G.blocks[b].names[k])' /\ GuardName(N, b, k)'
<1>1. /\ N \in DOMAIN frames /\ frames[N] = f /\ f \in FrameType /\ frames'[N] = G
      /\ FrameOK(N) /\ Placed
  BY TopOnly DEF Core, Typed
<1>2. PICK e, kind, r, c, d : /\ e = f.blocks[b].names[k] /\ kind = f.blocks[b].kind /\ r = e.ref
                              /\ c = Len(f.blocks) /\ d = Len(G.blocks)
  OBVIOUS
<1>3. r # Null => r \in Addr /\ mem[r] # "none" /\ mem'[r] = mem[r]
  <2>1. r # Null => r \in Addr /\ mem[r] # "none"
    BY <1>1, <1>2, FrameParts, RefsLive
  <2> QED
    BY <2>1 DEF Grows
<1>4. LiveName(G.blocks[b].names[k])'
  <2>1. e.own => r # Null
    BY <1>1, <1>2 DEF FrameOK, Shape
  <2> QED
    BY <1>2, <1>3, <2>1 DEF LiveName
<1>5. GuardName(N, b, k)
  BY <1>1 DEF FrameOK, GuardNames
<1>6. /\ frames'[N].blocks[b].kind = kind /\ frames'[N].blocks[b].names[k] = e
      /\ Len(frames'[N].blocks) = d /\ frames'[N].loops = G.loops
  BY <1>1, <1>2
<1>7. CASE e.own
  BY <1>4, <1>6, <1>7 DEF GuardName
<1>8. CASE kind = "arm" /\ r # Null /\ Guard(N, c, r)
  <2>1. \A a \in Addr : mem[a] = "heap" /\ r \in Inside(a) /\ Keeps(f, c, a) => Keeps(G, d, a)
    BY <1>2, <1>8
  <2>2. Guard(N, d, r)'
    BY <1>3, <1>8, <2>1, TopGuard
  <2> QED
    BY <1>2, <1>4, <1>6, <1>8, <2>2 DEF GuardName
<1>9. CASE kind # "arm" /\ r # Null /\ Guard(N, 0, r)
  <2>1. \A a \in Addr : mem[a] = "heap" /\ r \in Inside(a) /\ Keeps(f, 0, a) => Keeps(G, 0, a)
    <3>1. \A x \in DOMAIN f.blocks : ~(x <= 0)
      BY <1>1, FrameParts
    <3>2. \A x \in DOMAIN f.loops : ~(f.loops[x].depth < 0)
      BY <1>1, FrameParts, SMTT(30)
    <3> QED
      BY <3>1, <3>2 DEF Keeps
  <2>2. Guard(N, 0, r)'
    BY <1>3, <1>9, <2>1, TopGuard
  <2> QED
    BY <1>2, <1>4, <1>6, <1>9, <2>2 DEF GuardName
<1>10. CASE /\ kind # "arm"
            /\ \E l \in DOMAIN f.loops :
                 /\ AtVar(f, l, b, k)
                 /\ r # Null => \E i \in 1 .. Width : body[f.loops[l].arr][i] = r
  <2>1. PICK l \in DOMAIN f.loops :
                 /\ AtVar(f, l, b, k)
                 /\ r # Null => \E i \in 1 .. Width : body[f.loops[l].arr][i] = r
    BY <1>10
  <2>2. PICK m \in DOMAIN G.loops : AtVar(G, m, b, k) /\ G.loops[m].arr = f.loops[l].arr
    BY <2>1
  <2>3. f.loops[l].arr \in Addr
    BY <1>1, <2>1, FrameParts DEF AtVar
  <2>4. r # Null => \E i \in 1 .. Width : body'[G.loops[m].arr][i] = r
    BY <2>1, <2>2, <2>3 DEF Grows
  <2>5. AtVar(frames[N], m, b, k)' /\ m \in DOMAIN frames'[N].loops
    BY <1>1, <2>2 DEF AtVar
  <2> QED
    BY <1>2, <1>4, <1>6, <1>10, <2>4, <2>5, ZenonT(60) DEF GuardName
<1>11. \/ e.own \/ (kind = "arm" /\ r # Null /\ Guard(N, c, r)) \/ (kind # "arm" /\ r # Null /\ Guard(N, 0, r))
       \/ /\ kind # "arm"
          /\ \E l \in DOMAIN f.loops :
               /\ AtVar(f, l, b, k)
               /\ r # Null => \E i \in 1 .. Width : body[f.loops[l].arr][i] = r
  BY <1>1, <1>2, <1>5 DEF GuardName
<1> QED
  BY <1>4, <1>7, <1>8, <1>9, <1>10, <1>11

\* Away from the head of a loop, every loop has its body block open.
LEMMA LoopsBelow ==
  ASSUME Core, Evaluating, NEW f, f = F
  PROVE  \A l \in DOMAIN f.loops : f.loops[l].depth \in Nat /\ f.loops[l].depth < Len(f.blocks)
<1>1. /\ f \in FrameType /\ LoopShape(f) /\ frames # <<>>
  <2>1. frames \in Seq(FrameType) /\ frames # <<>>
    BY DEF Core, Typed, Evaluating, Running
  <2>2. Len(frames) \in DOMAIN frames /\ F = frames[Len(frames)] /\ F \in FrameType
    BY <2>1, Decomposed
  <2> QED
    BY <2>1, <2>2 DEF Core, FrameOK
<1>2. SUFFICES ASSUME NEW l \in DOMAIN f.loops, ~(f.loops[l].depth < Len(f.blocks))
               PROVE  FALSE
  BY <1>1, FrameParts
<1>3. /\ Len(f.loops) \in Nat /\ DOMAIN f.loops = 1 .. Len(f.loops) /\ Len(f.blocks) \in Nat
      /\ DOMAIN f.blocks = 1 .. Len(f.blocks)
      /\ \A k \in DOMAIN f.loops : f.loops[k].depth \in Nat
  BY <1>1, FrameParts
<1>4. \A k \in DOMAIN f.loops : f.loops[k].depth \in DOMAIN f.blocks
  BY <1>1 DEF LoopShape, LoopAt
<1>5. f.loops[l].depth = Len(f.blocks)
  BY <1>2, <1>3, <1>4
<1>6. l = Len(f.loops)
  <2>1. SUFFICES ASSUME l < Len(f.loops)
                 PROVE  FALSE
    BY <1>3
  <2>2. Len(f.loops) \in DOMAIN f.loops
    BY <1>3
  <2>3. f.loops[l].depth < f.loops[Len(f.loops)].depth
    BY <1>1, <2>1, <2>2 DEF LoopShape
  <2> QED
    BY <1>3, <1>4, <1>5, <2>2, <2>3
<1>7. f.loops # <<>> /\ Top(f.loops).depth = Len(f.blocks)
  BY <1>3, <1>5, <1>6 DEF Top
<1> QED
  BY <1>7 DEF Evaluating, AtHead

----------------------------------------------------------------------------
\* Steps that change the operands of the running frame and nothing else of it.

\* Why a reference may be borrowed that nobody named before.
NewGuard(r, over) ==
  \/ mem'[r] \in {"const", "frame"}
  \/ \E a \in Addr : mem'[a] = "heap" /\ (lost'[a] > 0 \/ over[a] > 0) /\ r \in Inside(a)'

NewVal(n, d, v, over) ==
  /\ LiveVal(v)'
  /\ v.st = "borrow" => Guard(n, d, v.ref) \/ NewGuard(v.ref, over)

\* The claims of the operands move with the counts.
Moves(from, to, refs, over) ==
  \A a \in Addr : mem'[a] = "heap" =>
    Stock(a)' + Cardinality(OwnVals(from, a)) =
      Stock(a) + Cardinality(OwnVals(to, a)) + Cardinality(Places(refs, a)) + over[a]

\* Every operand was there before, or may be there now.
Stays(n, d, from, to, over) ==
  \A k \in DOMAIN to : (\E j \in DOMAIN from : from[j] = to[k]) \/ NewVal(n, d, to[k], over)

\* A step that changes only the operands of the running frame keeps the
\* invariant, where the operands that are new are there and guarded and the
\* claims are accounted for.
LEMMA ValsStep ==
  ASSUME Core, Evaluating, HeapStep, NEW refs \in Seq(Addr), Dropped(refs), lifted' = lifted,
         NEW N, N = Len(frames), NEW f, f = F,
         NEW G \in FrameType, frames' = Append(Under, G),
         G.blocks = f.blocks, G.loops = f.loops, G.spent = f.spent, G.unit = f.unit,
         ~G.transient => G.scratch = {},
         \A a \in G.scratch : a \in f.scratch \/ (mem[a] = "none" /\ mem'[a] = "frame"),
         NEW over, Abandons(over),
         Moves(f.vals, G.vals, refs, over), Stays(N, Len(f.blocks), f.vals, G.vals, over), BuiltAlone
  PROVE  Core'
<1>1. frames \in Seq(FrameType) /\ frames # <<>>
  BY DEF Core, Typed, Evaluating, Running
<1>2. /\ N \in Nat \ {0} /\ N \in DOMAIN frames /\ frames'[N] = G /\ frames[N] = f /\ f \in FrameType
      /\ FrameOK(N) /\ Placed /\ f.spent = <<>>
  BY <1>1, TopOnly DEF Core, Bottom
<1>3. Accounts(f, G, refs, over)
  <2>1. SUFFICES ASSUME NEW a \in Addr, mem'[a] = "heap"
                 PROVE  Stock(a)' + Weight(f, a) = Stock(a) + Weight(G, a) + Cardinality(Places(refs, a)) + over[a]
    BY DEF Accounts
  <2>2. /\ Weight(f, a) = Cardinality(OwnBlocks(f.blocks, a)) + Cardinality(OwnVals(f.vals, a))
                             + Cardinality(Places(f.spent, a)) + Cardinality(OwnLoops(f.loops, a))
        /\ Weight(G, a) = Cardinality(OwnBlocks(f.blocks, a)) + Cardinality(OwnVals(G.vals, a))
                             + Cardinality(Places(f.spent, a)) + Cardinality(OwnLoops(f.loops, a))
    BY <1>2, WeightIs
  <2>3. /\ f.blocks \in Seq(BlockType) /\ f.vals \in Seq(OperandType) /\ f.spent \in Seq(Addr)
        /\ f.loops \in Seq(LoopType) /\ G.vals \in Seq(OperandType)
    BY <1>2, FrameParts
  <2>4. /\ Cardinality(OwnBlocks(f.blocks, a)) \in Nat /\ Cardinality(OwnVals(f.vals, a)) \in Nat
        /\ Cardinality(Places(f.spent, a)) \in Nat /\ Cardinality(OwnLoops(f.loops, a)) \in Nat
        /\ Cardinality(OwnVals(G.vals, a)) \in Nat /\ Cardinality(Places(refs, a)) \in Nat
    BY <2>3, BlocksFinite, CountsFinite
  <2>5. Stock(a) \in Int /\ Stock(a)' \in Int
    <3>1. hdr[a] \in Int /\ hdr'[a] \in Int
      BY DEF Core, Typed, HeapTyped, HeapStep
    <3> QED
      BY <3>1, WordsFinite, WordsFiniteNext DEF Stock
  <2>6. Stock(a)' + Cardinality(OwnVals(f.vals, a)) =
              Stock(a) + Cardinality(OwnVals(G.vals, a)) + Cardinality(Places(refs, a)) + over[a]
    BY <2>1 DEF Moves
  <2>7. PICK x, y, z, t, u, v, w, p, q, s, o :
          /\ x = Stock(a) /\ y = Stock(a)' /\ z = Cardinality(Places(refs, a))
          /\ t = Weight(f, a) /\ u = Weight(G, a)
          /\ v = Cardinality(OwnVals(f.vals, a)) /\ w = Cardinality(OwnVals(G.vals, a))
          /\ p = Cardinality(OwnBlocks(f.blocks, a)) /\ q = Cardinality(Places(f.spent, a))
          /\ s = Cardinality(OwnLoops(f.loops, a)) /\ o = over[a]
    OBVIOUS
  <2>8. x \in Int /\ y \in Int /\ z \in Nat /\ v \in Nat /\ w \in Nat /\ p \in Nat /\ q \in Nat /\ s \in Nat /\ o \in Nat
    BY <2>4, <2>5, <2>7 DEF Abandons
  <2>9. t = p + v + q + s /\ u = p + w + q + s /\ y + v = x + w + z + o
    BY <2>2, <2>6, <2>7
  <2>10. PICK r \in Nat : t = v + r /\ u = w + r
    <3>1. p + q + s \in Nat /\ t = v + (p + q + s) /\ u = w + (p + q + s)
      BY <2>8, <2>9
    <3> QED
      BY <3>1
  <2>11. y + (v + r) = x + (w + r) + z + o
    BY <2>8, <2>9
  <2>12. y + t = x + u + z + o
    BY <2>10, <2>11
  <2> QED
    BY <2>7, <2>12
<1>4. /\ Firm /\ Grows /\ Typed' /\ Counts'
      /\ \A a \in Addr : mem'[a] = "heap" /\ over[a] > 0 => Surplus(a)'
      /\ FrameOK(N)' => Core'
  <2>1. G.spent = <<>>
    BY <1>2
  <2> QED
    BY <1>1, <1>3, <2>1, TopStep
<1>5. PICK c : c = Len(f.blocks)
  OBVIOUS
<1>6. \A d : \A a : Keeps(f, d, a) <=> Keeps(G, d, a)
  BY DEF Keeps
<1>7. Shape(G)
  BY <1>2 DEF FrameOK, Shape
<1>8. \A l \in DOMAIN f.loops : f.loops[l].depth < Len(f.blocks)
  BY LoopsBelow
<1>9. LoopShape(G)
  <2>1. \A l \in DOMAIN f.loops : LoopAt(f, l) /\ f.loops[l].depth # Len(f.blocks)
    <3>1. Len(f.blocks) \in Nat
      BY <1>2, FrameParts
    <3> QED
      BY <1>2, <1>8, <3>1 DEF FrameOK, LoopShape
  <2>2. \A l \in DOMAIN f.loops : LoopAt(G, l)
    BY <2>1 DEF LoopAt, AtVar
  <2> QED
    BY <1>2, <2>2 DEF FrameOK, LoopShape
<1>10. \A a \in G.scratch : /\ mem'[a] = "frame" /\ ~NameAt(G, a) /\ (a \in f.scratch \/ mem[a] = "none")
  <2>1. SUFFICES ASSUME NEW a \in G.scratch
                 PROVE  mem'[a] = "frame" /\ ~NameAt(f, a) /\ (a \in f.scratch \/ mem[a] = "none")
    BY DEF NameAt
  <2>2. a \in Addr
    BY FrameParts
  <2>3. CASE a \in f.scratch
    <3>1. mem[a] = "frame" /\ ~NameAt(f, a)
      BY <1>2, <2>3 DEF FrameOK, ScratchAt
    <3> QED
      BY <1>4, <2>2, <2>3, <3>1 DEF Grows
  <2>4. CASE mem[a] = "none" /\ mem'[a] = "frame"
    <3>1. a \notin Refs(f)
      BY <1>2, <2>4, RefsLive
    <3> QED
      BY <2>2, <2>4, <3>1 DEF Refs
  <2> QED
    BY <2>3, <2>4
<1>11. ASSUME NEW k \in DOMAIN G.vals
       PROVE  LiveVal(G.vals[k])' /\ (G.vals[k].st = "borrow" => Guard(N, c, G.vals[k].ref)')
  <2>1. PICK v : v = G.vals[k]
    OBVIOUS
  <2>2. v.ref \in Addr
    BY <2>1, FrameParts
  <2>3. ASSUME NEW r \in Addr, Guard(N, c, r)
        PROVE  Guard(N, c, r)'
    <3>1. mem[r] # "none"
      BY <1>2, <2>3, GuardLive DEF Core, Typed, HeapGood
    <3>2. mem'[r] = mem[r]
      BY <1>4, <3>1 DEF Grows
    <3> QED
      BY <1>1, <1>4, <1>6, <2>3, <3>2, TopGuard
  <2>4. CASE \E j \in DOMAIN f.vals : f.vals[j] = v
    <3>1. PICK j \in DOMAIN f.vals : f.vals[j] = v
      BY <2>4
    <3>2. LiveVal(v) /\ (v.st = "borrow" => Guard(N, c, v.ref)) /\ mem[v.ref] # "none"
      BY <1>2, <1>5, <3>1, RefsLive DEF FrameOK, Lives, GuardVals
    <3>3. mem'[v.ref] = mem[v.ref]
      BY <1>4, <2>2, <3>2 DEF Grows
    <3>4. v.st = "building" /\ mem[v.ref] = "heap" => hdr'[v.ref] = hdr[v.ref]
      <4>1. frames[N].vals[j] = v /\ j \in DOMAIN frames[N].vals
        BY <1>2, <3>1
      <4> QED
        BY <1>2, <4>1 DEF BuiltAlone
    <3>5. LiveVal(v)'
      BY <3>2, <3>3, <3>4 DEF LiveVal
    <3> QED
      BY <2>1, <2>2, <2>3, <3>2, <3>5
  <2>5. CASE NewVal(N, c, v, over)
    <3>1. LiveVal(v)' /\ (v.st = "borrow" => Guard(N, c, v.ref) \/ NewGuard(v.ref, over))
      BY <2>5 DEF NewVal
    <3>2. ASSUME NewGuard(v.ref, over)
          PROVE  Guard(N, c, v.ref)'
      <4>1. CASE mem'[v.ref] \in {"const", "frame"}
        BY <4>1 DEF Guard
      <4>2. CASE \E a \in Addr : mem'[a] = "heap" /\ (lost'[a] > 0 \/ over[a] > 0) /\ v.ref \in Inside(a)'
        <5>1. PICK a \in Addr : mem'[a] = "heap" /\ (lost'[a] > 0 \/ over[a] > 0) /\ v.ref \in Inside(a)'
          BY <4>2
        <5>2. lost'[a] > 0 \/ Surplus(a)'
          BY <1>4, <5>1
        <5>3. Kept(N, c, a)'
          BY <5>2 DEF Kept
        <5> QED
          BY <5>1, <5>3 DEF Guard
      <4> QED
        BY <3>2, <4>1, <4>2 DEF NewGuard
    <3> QED
      BY <2>1, <2>2, <2>3, <3>1, <3>2
  <2>6. (\E j \in DOMAIN f.vals : f.vals[j] = v) \/ NewVal(N, c, v, over)
    BY <1>5, <2>1 DEF Stays
  <2> QED
    BY <2>1, <2>4, <2>5, <2>6
<1>12. ASSUME NEW l \in DOMAIN G.loops
       PROVE  /\ LiveArr(G.loops[l])'
              /\ G.loops[l].arr # Null /\ ~G.loops[l].mine => Guard(N, G.loops[l].depth, G.loops[l].arr)'
  BY <1>1, <1>4, <1>6, LoopCarried
<1>13. ASSUME NEW b \in DOMAIN G.blocks, NEW k \in DOMAIN G.blocks[b].names
       PROVE  LiveName(G.blocks[b].names[k])' /\ GuardName(N, b, k)'
  <2>1. /\ b \in DOMAIN f.blocks /\ k \in DOMAIN f.blocks[b].names /\ G.blocks[b].kind = f.blocks[b].kind
        /\ G.blocks[b].names[k] = f.blocks[b].names[k]
    OBVIOUS
  <2>2. \A a \in Addr : Keeps(f, Len(f.blocks), a) => Keeps(G, Len(G.blocks), a)
    BY <1>6
  <2>3. \A l \in DOMAIN f.loops : AtVar(f, l, b, k) =>
            \E m \in DOMAIN G.loops : AtVar(G, m, b, k) /\ G.loops[m].arr = f.loops[l].arr
    BY DEF AtVar
  <2> QED
    BY <1>1, <1>4, <2>1, <2>2, <2>3, NameCarried, ZenonT(60)
<1>14. FrameOK(N)'
  <2>1. \A k \in DOMAIN G.vals : LiveVal(G.vals[k])' /\ (G.vals[k].st = "borrow" => Guard(N, Len(G.blocks), G.vals[k].ref)')
    BY <1>5, <1>11
  <2>2. G.spent = <<>>
    BY <1>2
  <2> QED
    BY <1>1, <1>4, <1>7, <1>9, <1>10, <1>12, <1>13, <2>1, <2>2, TopFrame
<1> QED
  BY <1>4, <1>14

----------------------------------------------------------------------------
\* Operands.

\* Taking the operand on top takes its claim.
LEMMA ValsPop ==
  ASSUME NEW s \in Seq(OperandType), s # <<>>, NEW a
  PROVE  /\ Pop(s) \in Seq(OperandType) /\ Top(s) \in OperandType
         /\ Cardinality(OwnVals(s, a)) = Cardinality(OwnVals(Pop(s), a)) + Gives(Top(s), a)
         /\ Cardinality(OwnVals(Pop(s), a)) \in Nat
<1>1. Pop(s) \in Seq(OperandType) /\ Top(s) \in OperandType /\ s = Append(Pop(s), Top(s))
  BY PopFacts
<1> QED
  BY <1>1, ValsAppend, ZenonT(60)

\* An operand claims its value once, or not at all.
LEMMA GivesIs ==
  ASSUME NEW v, NEW a
  PROVE  Gives(v, a) \in {0, 1} /\ One(v.ref = a) \in {0, 1}
BY DEF Gives, One

\* The places of a value in a list of one.
LEMMA PlacesOne ==
  ASSUME NEW r \in Addr
  PROVE  <<r>> \in Seq(Addr) /\ \A a : Cardinality(Places(<<r>>, a)) = One(r = a)
<1>1. ASSUME NEW a
      PROVE  Cardinality(Places(<<r>>, a)) = One(r = a)
  <2>1. CASE r = a
    <3>1. Places(<<r>>, a) = {1}
      BY <2>1 DEF Places
    <3> QED
      BY <2>1, <3>1, FS_Singleton DEF One
  <2>2. CASE r # a
    <3>1. Places(<<r>>, a) = {}
      BY <2>2 DEF Places
    <3> QED
      BY <2>2, <3>1, FS_EmptySet DEF One
  <2> QED
    BY <2>1, <2>2
<1> QED
  BY <1>1

\* What is given up with an operand is what it claims.
LEMMA GivenIs ==
  ASSUME NEW v \in OperandType, v.st # "building"
  PROVE  /\ Given(v) \in Seq(Addr)
         /\ \A a : Cardinality(Places(Given(v), a)) = Gives(v, a)
         /\ \A k \in DOMAIN Given(v) : Given(v)[k] = v.ref
<1>1. v.ref \in Addr /\ v.st \in {"own", "borrow"}
  BY DEF OperandType
<1>2. CASE v.st = "own"
  <2>1. Given(v) = <<v.ref>>
    BY <1>2 DEF Given
  <2>2. \A a : Cardinality(Places(<<v.ref>>, a)) = One(v.ref = a)
    BY <1>1, PlacesOne
  <2> QED
    BY <1>1, <1>2, <2>1, <2>2 DEF Gives
<1>3. CASE v.st = "borrow"
  <2>1. Given(v) = <<>>
    BY <1>3 DEF Given
  <2>2. \A a : Gives(v, a) = 0
    BY <1>3 DEF Gives, One
  <2>3. \A a : Cardinality(Places(<<>>, a)) = 0
    BY CountsEmpty
  <2>4. <<>> \in Seq(Addr) /\ DOMAIN <<>> = {}
    OBVIOUS
  <2> QED
    BY <2>1, <2>2, <2>3, <2>4
<1> QED
  BY <1>1, <1>2, <1>3

\* The members of one sequence are members of the other.
Among(s, t) == \A k \in DOMAIN s : \E j \in DOMAIN t : t[j] = s[k]

\* The operands under the one on top, and under that, are among the operands.
LEMMA AmongFacts ==
  ASSUME NEW s \in Seq(OperandType)
  PROVE  /\ Among(s, s) /\ Among(<<>>, s)
         /\ s # <<>> => Among(Pop(s), s)
         /\ Len(s) >= 2 => /\ Among(Pop(Pop(s)), s) /\ Pop(Pop(s)) \in Seq(OperandType)
                           /\ Pop(s) # <<>> /\ Top(Pop(s)) = s[Len(s) - 1] /\ Top(Pop(s)) \in OperandType
<1>1. Among(s, s) /\ Among(<<>>, s)
  BY DEF Among
<1>2. ASSUME s # <<>>
      PROVE  Among(Pop(s), s) /\ Pop(s) \in Seq(OperandType)
  <2>1. /\ DOMAIN s = 1 .. Len(s) /\ DOMAIN Pop(s) = 1 .. Len(s) - 1 /\ Pop(s) \in Seq(OperandType)
        /\ \A k \in 1 .. Len(s) - 1 : Pop(s)[k] = s[k] /\ k \in 1 .. Len(s)
    BY <1>2, PopFacts
  <2> QED
    BY <2>1 DEF Among
<1>3. ASSUME Len(s) >= 2
      PROVE  /\ Among(Pop(Pop(s)), s) /\ Pop(Pop(s)) \in Seq(OperandType)
             /\ Pop(s) # <<>> /\ Top(Pop(s)) = s[Len(s) - 1] /\ Top(Pop(s)) \in OperandType
  <2>1. s # <<>>
    BY <1>3
  <2>2. /\ Pop(s) \in Seq(OperandType) /\ Len(Pop(s)) = Len(s) - 1 /\ Len(s) \in Nat
        /\ DOMAIN s = 1 .. Len(s) /\ \A k \in 1 .. Len(s) - 1 : Pop(s)[k] = s[k] /\ k \in 1 .. Len(s)
    BY <2>1, PopFacts
  <2>3. Pop(s) # <<>>
    BY <1>3, <2>2
  <2>4. Len(Pop(s)) \in 1 .. Len(s) - 1
    BY <1>3, <2>2
  <2>5. /\ Pop(Pop(s)) \in Seq(OperandType) /\ Top(Pop(s)) \in OperandType
        /\ DOMAIN Pop(Pop(s)) = 1 .. Len(Pop(s)) - 1
        /\ \A k \in 1 .. Len(Pop(s)) - 1 : Pop(Pop(s))[k] = Pop(s)[k] /\ k \in 1 .. Len(Pop(s))
    BY <2>2, <2>3, PopFacts
  <2>6. Top(Pop(s)) = s[Len(s) - 1]
    BY <2>2, <2>4 DEF Top
  <2>7. \A k \in 1 .. Len(Pop(s)) - 1 : Pop(Pop(s))[k] = s[k] /\ k \in DOMAIN s
    BY <2>2, <2>5
  <2> QED
    BY <2>3, <2>5, <2>6, <2>7 DEF Among
<1> QED
  BY <1>1, <1>2, <1>3

\* What holds when an expression or a statement is under way.
LEMMA Going ==
  ASSUME Core, Running
  PROVE  /\ frames \in Seq(FrameType) /\ frames # <<>> /\ due = <<>> /\ dropping = <<>>
         /\ F \in FrameType /\ F = frames[Len(frames)] /\ Len(frames) \in DOMAIN frames
         /\ Len(frames) \in Nat \ {0}
         /\ F.spent = <<>> /\ FrameOK(Len(frames)) /\ HeapGood /\ Typed /\ Counts /\ Placed
         /\ F.blocks \in Seq(BlockType) /\ F.vals \in Seq(OperandType) /\ F.loops \in Seq(LoopType)
         /\ F.scratch \in SUBSET Addr
         /\ Shape(F) /\ LoopShape(F) /\ Lives(F)
<1>1. frames \in Seq(FrameType) /\ frames # <<>> /\ due = <<>> /\ dropping = <<>>
  BY DEF Core, Typed, Running
<1>2. /\ F \in FrameType /\ F = frames[Len(frames)] /\ Len(frames) \in DOMAIN frames
      /\ Len(frames) \in Nat \ {0}
  BY <1>1, Decomposed
<1>3. FrameOK(Len(frames)) /\ F.spent = <<>> /\ HeapGood /\ Typed /\ Counts /\ Placed
  BY <1>1, <1>2 DEF Core, Bottom, HeapGood, Typed
<1>4. Shape(F) /\ LoopShape(F) /\ Lives(F)
  BY <1>2, <1>3 DEF FrameOK
<1>5. F.blocks \in Seq(BlockType) /\ F.vals \in Seq(OperandType) /\ F.loops \in Seq(LoopType)
      /\ F.scratch \in SUBSET Addr
  BY <1>2, FrameParts
<1> QED
  BY <1>1, <1>2, <1>3, <1>4, <1>5

Zero == [a \in Addr |-> 0]

\* Abandoning nothing is allowed of every program.
LEMMA ZeroAbandons == Abandons(Zero) /\ \A a \in Addr : Zero[a] = 0
BY DEF Abandons, Zero

\* The operands become the members of `s`, some of the old ones, and maybe `v`.
LEMMA SetValsStep ==
  ASSUME Core, Evaluating, HeapStep, NEW refs \in Seq(Addr), Dropped(refs), lifted' = lifted,
         NEW over, Abandons(over), BuiltAlone,
         NEW V \in Seq(OperandType), SetVals(V),
         NEW s \in Seq(OperandType), Among(s, F.vals), NEW v \in OperandType,
         V = s \/ (V = Append(s, v) /\ NewVal(Len(frames), Len(F.blocks), v, over)),
         Moves(F.vals, V, refs, over)
  PROVE  Core'
<1>1. /\ frames \in Seq(FrameType) /\ frames # <<>> /\ F \in FrameType /\ Shape(F)
  BY Going DEF Evaluating
<1>2. PICK N, f, G : N = Len(frames) /\ f = F /\ G = [f EXCEPT !.vals = V]
  OBVIOUS
<1>3. frames' = Append(Under, G)
  BY <1>2 DEF SetVals, SetFrame
<1>4. /\ G \in FrameType /\ G.vals = V /\ G.blocks = f.blocks /\ G.loops = f.loops /\ G.spent = f.spent
      /\ G.unit = f.unit /\ G.transient = f.transient /\ G.scratch = f.scratch
  BY <1>1, <1>2 DEF FrameType
<1>5. ~G.transient => G.scratch = {}
  BY <1>1, <1>2, <1>4 DEF Shape
<1>6. ASSUME NEW k \in DOMAIN G.vals
      PROVE  \/ \E j \in DOMAIN f.vals : f.vals[j] = G.vals[k]
             \/ NewVal(N, Len(f.blocks), G.vals[k], over)
  <2>1. CASE V = s
    BY <1>2, <1>4, <1>6, <2>1 DEF Among
  <2>2. CASE V = Append(s, v) /\ NewVal(N, Len(f.blocks), v, over)
    <3>1. /\ DOMAIN V = 1 .. Len(s) + 1 /\ V[Len(s) + 1] = v /\ Len(s) \in Nat /\ DOMAIN s = 1 .. Len(s)
          /\ \A j \in 1 .. Len(s) : V[j] = s[j]
      BY <2>2, AppendFacts
    <3>2. k \in DOMAIN s \/ k = Len(s) + 1
      BY <1>4, <1>6, <3>1
    <3>3. CASE k \in DOMAIN s
      BY <1>2, <1>4, <3>1, <3>3 DEF Among
    <3>4. CASE k = Len(s) + 1
      BY <1>4, <2>2, <3>1, <3>4
    <3> QED
      BY <3>2, <3>3, <3>4
  <2> QED
    BY <1>2, <2>1, <2>2
<1>7. Moves(f.vals, G.vals, refs, over) /\ Stays(N, Len(f.blocks), f.vals, G.vals, over)
  BY <1>2, <1>4, <1>6 DEF Stays
<1>8. \A a \in G.scratch : a \in f.scratch \/ (mem[a] = "none" /\ mem'[a] = "frame")
  BY <1>4
<1> QED
  BY <1>2, <1>3, <1>4, <1>5, <1>7, <1>8, ValsStep, ZenonT(60)

\* A value is built and waits as the operand `v`.
Builds(v, s, refs, over) ==
  \A b \in Addr : b # v.ref \/ ~F.transient =>
    Cardinality(OwnVals(F.vals, b)) + One(b = v.ref) =
      Cardinality(OwnVals(s, b)) + Gives(v, b) + Cardinality(Places(refs, b)) + over[b]

\* The arithmetic of a step that builds a value.
LEMMA FiveParts ==
  ASSUME NEW x \in Int, NEW y, NEW e \in Nat, NEW p \in Nat, NEW q, NEW r \in Nat, NEW g \in Nat,
         NEW z \in Nat, NEW o \in Nat, y = x + e, p + e = r + g + z + o, q = r + g
  PROVE  y + p = x + q + z + o
OBVIOUS

\* A step that builds a value, leaves it on top of some of the operands and
\* gives up others, keeps the invariant.
LEMMA BuiltStep ==
  ASSUME Core, Evaluating, NEW v \in OperandType, Scratch(v.ref), lifted' = lifted,
         NEW refs \in Seq(Addr), Dropped(refs), NEW over, Abandons(over),
         NEW s \in Seq(OperandType), Among(s, F.vals), Built(v.ref, Append(s, v)),
         v.st = "borrow" => F.transient \/ over[v.ref] > 0,
         Builds(v, s, refs, over)
  PROVE  Core'
<1>1. /\ frames \in Seq(FrameType) /\ frames # <<>> /\ F \in FrameType /\ Shape(F) /\ HeapGood
      /\ dropping = <<>> /\ F.vals \in Seq(OperandType)
  BY Going DEF Evaluating
<1>2. PICK N, f, a, tr, V, G : /\ N = Len(frames) /\ f = F /\ a = v.ref /\ tr = f.transient
                               /\ V = Append(s, v)
                               /\ G = [f EXCEPT !.vals = V, !.scratch = IF f.transient THEN @ \cup {a} ELSE @]
  OBVIOUS
<1>3. frames' = Append(Under, G)
  BY <1>2 DEF Built, SetFrame
<1>4. a \in Addr /\ tr \in BOOLEAN
  BY <1>1, <1>2 DEF OperandType, FrameType
<1>5. /\ DOMAIN V = 1 .. Len(s) + 1 /\ V[Len(s) + 1] = v /\ Len(s) \in Nat /\ DOMAIN s = 1 .. Len(s)
      /\ V \in Seq(OperandType) /\ \A j \in 1 .. Len(s) : V[j] = s[j]
  BY <1>2, AppendFacts
<1>6. /\ G \in FrameType /\ G.vals = V /\ G.blocks = f.blocks /\ G.loops = f.loops /\ G.spent = f.spent
      /\ G.unit = f.unit /\ G.transient = tr /\ G.scratch = (IF tr THEN f.scratch \cup {a} ELSE f.scratch)
  <2>1. f.scratch \in SUBSET Addr /\ f.scratch \cup {a} \in SUBSET Addr
    BY <1>1, <1>2, <1>4, FrameParts
  <2> QED
    BY <1>1, <1>2, <1>5, <2>1 DEF FrameType
<1>7. /\ HeapStep
      /\ mem[a] = "none" /\ mem'[a] = (IF tr THEN "frame" ELSE "heap")
      /\ ~tr => hdr'[a] = 1
      /\ \A b \in Addr : b # a => mem'[b] = mem[b] /\ hdr'[b] = hdr[b]
      /\ \A b \in Addr : Stock(b)' = Stock(b) + One(b = a /\ ~tr)
  BY <1>1, <1>2, <1>4, Scratched
<1>8. ~G.transient => G.scratch = {}
  BY <1>1, <1>2, <1>6 DEF Shape
<1>9. \A b \in G.scratch : b \in f.scratch \/ (mem[b] = "none" /\ mem'[b] = "frame")
  BY <1>6, <1>7
<1>10. BuiltAlone
  <2>1. \A b \in Addr : mem[b] = "heap" => hdr'[b] = hdr[b]
    BY <1>7
  <2> QED
    BY <2>1, BuildersKept
<1>11. Moves(f.vals, G.vals, refs, over)
  <2>1. SUFFICES ASSUME NEW b \in Addr, mem'[b] = "heap"
                 PROVE  Stock(b)' + Cardinality(OwnVals(f.vals, b)) =
                          Stock(b) + Cardinality(OwnVals(V, b)) + Cardinality(Places(refs, b)) + over[b]
    BY <1>6 DEF Moves
  <2>2. b # a \/ ~tr
    BY <1>7, <2>1
  <2>3. One(b = a /\ ~tr) = One(b = a) /\ One(b = a) \in Nat
    BY <2>2 DEF One
  <2>4. Cardinality(OwnVals(V, b)) = Cardinality(OwnVals(s, b)) + Gives(v, b)
        /\ Cardinality(OwnVals(s, b)) \in Nat
    BY <1>2, ValsAppend
  <2>5. /\ Cardinality(OwnVals(f.vals, b)) \in Nat /\ Cardinality(Places(refs, b)) \in Nat
        /\ over[b] \in Nat /\ Gives(v, b) \in Nat
    <3>1. over[b] \in Nat
      BY DEF Abandons
    <3>2. Gives(v, b) \in Nat
      BY GivesIs
    <3>3. Cardinality(OwnVals(f.vals, b)) \in Nat /\ Cardinality(Places(refs, b)) \in Nat
      BY <1>1, <1>2, CountsFinite
    <3> QED
      BY <3>1, <3>2, <3>3
  <2>6. Cardinality(OwnVals(f.vals, b)) + One(b = a) =
          Cardinality(OwnVals(s, b)) + Gives(v, b) + Cardinality(Places(refs, b)) + over[b]
    BY <1>2, <2>2 DEF Builds
  <2>7. Stock(b) \in Int
    <3>1. hdr[b] \in Int
      BY DEF Core, Typed, HeapTyped
    <3> QED
      BY <3>1, WordsFinite DEF Stock
  <2>8. Stock(b)' = Stock(b) + One(b = a)
    BY <1>7, <2>3
  <2>9. PICK x, y, e, p, q, r, g, z, o :
           /\ x = Stock(b) /\ y = Stock(b)' /\ e = One(b = a) /\ p = Cardinality(OwnVals(f.vals, b))
           /\ q = Cardinality(OwnVals(V, b)) /\ r = Cardinality(OwnVals(s, b)) /\ g = Gives(v, b)
           /\ z = Cardinality(Places(refs, b)) /\ o = over[b]
    OBVIOUS
  <2>10. /\ x \in Int /\ e \in Nat /\ p \in Nat /\ r \in Nat /\ g \in Nat /\ z \in Nat /\ o \in Nat
         /\ y = x + e /\ p + e = r + g + z + o /\ q = r + g
    BY <2>3, <2>4, <2>5, <2>6, <2>7, <2>8, <2>9
  <2>11. y + p = x + q + z + o
    BY <2>10, FiveParts
  <2> QED
    BY <2>9, <2>11
<1>12. Stays(N, Len(f.blocks), f.vals, G.vals, over)
  <2>1. NewVal(N, Len(f.blocks), v, over)
    <3>1. LiveVal(v)'
      BY <1>2, <1>4, <1>7 DEF LiveVal
    <3>2. v.st = "borrow" => NewGuard(v.ref, over)
      <4>1. CASE tr
        BY <1>2, <1>7, <4>1 DEF NewGuard
      <4>2. CASE ~tr /\ v.st = "borrow"
        <5>1. mem'[a] = "heap" /\ over[a] > 0
          BY <1>2, <1>7, <4>2
        <5>2. a \in Inside(a)'
          BY <1>4 DEF Inside
        <5> QED
          BY <1>2, <1>4, <5>1, <5>2 DEF NewGuard
      <4> QED
        BY <1>4, <4>1, <4>2
    <3> QED
      BY <3>1, <3>2 DEF NewVal
  <2>2. SUFFICES ASSUME NEW k \in DOMAIN V
                 PROVE  (\E j \in DOMAIN f.vals : f.vals[j] = V[k]) \/ NewVal(N, Len(f.blocks), V[k], over)
    BY <1>6 DEF Stays
  <2>3. k \in DOMAIN s \/ k = Len(s) + 1
    BY <1>5, <2>2
  <2>4. CASE k \in DOMAIN s
    BY <1>2, <1>5, <2>4 DEF Among
  <2>5. CASE k = Len(s) + 1
    BY <1>5, <2>1, <2>5
  <2> QED
    BY <2>3, <2>4, <2>5
<1>13. N = Len(frames) /\ f = F /\ HeapStep
  BY <1>2, <1>7
<1>14. /\ G \in FrameType /\ G.blocks = f.blocks /\ G.loops = f.loops /\ G.spent = f.spent
       /\ G.unit = f.unit
  BY <1>6
<1> QED
  BY <1>3, <1>8, <1>9, <1>10, <1>11, <1>12, <1>13, <1>14, ValsStep

\* What a name holds is guarded while its frame evaluates.
LEMMA NameGuard ==
  ASSUME Core, Evaluating, NEW b \in DOMAIN F.blocks, NEW k \in DOMAIN F.blocks[b].names,
         F.blocks[b].names[k].ref # Null
  PROVE  /\ F.blocks[b].names[k].ref \in Addr
         /\ Guard(Len(frames), Len(F.blocks), F.blocks[b].names[k].ref)
<1>1. /\ F \in FrameType /\ F = frames[Len(frames)] /\ Len(frames) \in DOMAIN frames
      /\ FrameOK(Len(frames)) /\ HeapGood /\ Typed /\ Counts /\ Placed
  BY Going DEF Evaluating
<1>2. PICK N, f, r, c : N = Len(frames) /\ f = F /\ r = F.blocks[b].names[k].ref /\ c = Len(F.blocks)
  OBVIOUS
<1>3. /\ r \in Addr /\ c \in Nat /\ b \in Nat /\ b <= c /\ N \in DOMAIN frames /\ frames[N] = f /\ f \in FrameType
  BY <1>1, <1>2, FrameParts
<1>4. mem[r] # "none" /\ r # Null
  BY <1>1, <1>2, <1>3, RefsLive
<1>5. GuardName(N, b, k)
  BY <1>1, <1>2 DEF FrameOK, GuardNames
<1>6. CASE f.blocks[b].names[k].own
  <2>1. Keeps(f, c, r)
    BY <1>2, <1>3, <1>6 DEF Keeps
  <2>2. mem[r] = "heap" => Guard(N, c, r)
    BY <1>3, <2>1, InsideSelf DEF Guard, Kept
  <2>3. mem[r] # "heap" => mem[r] \in {"const", "frame"}
    BY <1>1, <1>3, <1>4 DEF HeapGood, HeapTyped
  <2> QED
    BY <1>2, <1>3, <2>2, <2>3 DEF Guard
<1>7. CASE Guard(N, c, r) \/ Guard(N, 0, r)
  BY <1>1, <1>2, <1>3, <1>7, GuardMore
<1>8. CASE \E l \in DOMAIN f.loops : AtVar(f, l, b, k) /\ \E i \in 1 .. Width : body[f.loops[l].arr][i] = r
  <2>1. PICK l \in DOMAIN f.loops : AtVar(f, l, b, k) /\ \E i \in 1 .. Width : body[f.loops[l].arr][i] = r
    BY <1>8
  <2>2. PICK i \in 1 .. Width : body[f.loops[l].arr][i] = r
    BY <2>1
  <2>3. PICK p, d : p = f.loops[l].arr /\ d = f.loops[l].depth
    OBVIOUS
  <2>4. p \in Addr /\ p # Null /\ mem[p] = "heap" /\ d \in Nat
    BY <1>1, <1>3, <2>1, <2>3, FrameParts, RefsLive DEF AtVar
  <2>5. d < c
    BY <1>2, <2>3, LoopsBelow
  <2>6. HeapTyped /\ Placed
    BY <1>1 DEF Typed
  <2>7. CASE f.loops[l].mine
    <3>1. Keeps(f, c, p)
      BY <2>3, <2>5, <2>7 DEF Keeps
    <3>2. p \in Inside(p)
      BY <2>4, InsideSelf
    <3>3. r \in Inside(p)
      BY <1>4, <2>2, <2>3, <2>4, <2>6, <3>2, InsideWord
    <3> QED
      BY <1>2, <1>3, <2>4, <3>1, <3>3 DEF Guard, Kept
  <2>8. CASE ~f.loops[l].mine
    <3>1. Guard(N, d, p)
      BY <1>1, <1>2, <2>3, <2>4, <2>8 DEF FrameOK, GuardLoops
    <3>2. Guard(N, c, p)
      BY <1>1, <1>3, <2>4, <2>5, <3>1, GuardMore
    <3>3. PICK a \in Addr : mem[a] = "heap" /\ Kept(N, c, a) /\ p \in Inside(a)
      BY <2>4, <3>2 DEF Guard
    <3>4. r \in Inside(a)
      BY <1>4, <2>2, <2>3, <2>6, <3>3, InsideWord
    <3> QED
      BY <1>2, <1>3, <3>3, <3>4 DEF Guard
  <2> QED
    BY <2>7, <2>8
<1> QED
  BY <1>2, <1>3, <1>4, <1>5, <1>6, <1>7, <1>8 DEF GuardName

----------------------------------------------------------------------------
\* The expressions, one by one.

\* Where only leaks are lifted, the guards of all other hazards hold.
LEMMA Safe ==
  ASSUME lifted \subseteq Leaks
  PROVE  /\ \A p : Lift("shadowReturn", p) => p
         /\ \A p : Lift("redeclare", p) => p
         /\ \A p : Lift("loopVar", p) => p
         /\ \A p : Lift("handBack", p) => p
         /\ \A p : Lift("otherBranch", p) => p
         /\ \A p : Lift("assignBorrowed", p) => p
         /\ \A p : Lift("assignWalked", p) => p
         /\ \A p : Lift("frameWord", p) => p
         /\ \A p : Lift("arraySet", p) => p
         /\ \A p : Lift("payload", p) => p
<1>1. /\ "shadowReturn" \notin lifted /\ "redeclare" \notin lifted /\ "loopVar" \notin lifted
      /\ "handBack" \notin lifted /\ "otherBranch" \notin lifted /\ "assignBorrowed" \notin lifted
      /\ "assignWalked" \notin lifted /\ "frameWord" \notin lifted /\ "arraySet" \notin lifted
      /\ "payload" \notin lifted
  BY DEF Leaks
<1> QED
  BY <1>1 DEF Lift

\* An operand a step leaves that touches nothing on the heap.
IdleVal(n, d, v) ==
  /\ LiveVal(v)
  /\ v.st = "borrow" =>
       \/ Guard(n, d, v.ref)
       \/ \E a \in Addr : mem[a] = "heap" /\ lost'[a] > 0 /\ v.ref \in Inside(a)

\* The claims of the operands go where they went, or are given up.
Hands(from, to, refs) ==
  \A a \in Addr : mem[a] = "heap" =>
    Cardinality(OwnVals(from, a)) = Cardinality(OwnVals(to, a)) + Cardinality(Places(refs, a))

\* A payload is a constant, or there is none.
PayloadKept ==
  payload' \in [Addr -> Addr \cup {Null}] /\ \A a \in Addr : payload'[a] \in Const \cup {Null}

\* A step that changes only operands and payloads, and leaves the heap alone,
\* keeps the invariant.
LEMMA QuietStep ==
  ASSUME Core, Evaluating, UNCHANGED heapVars, PayloadKept, lifted' = lifted,
         NEW refs \in Seq(Addr), Dropped(refs),
         NEW V \in Seq(OperandType), SetVals(V),
         NEW s \in Seq(OperandType), Among(s, F.vals), NEW v \in OperandType,
         V = s \/ (V = Append(s, v) /\ IdleVal(Len(frames), Len(F.blocks), v)),
         Hands(F.vals, V, refs)
  PROVE  Core'
<1>1. HeapGood /\ F.vals \in Seq(OperandType) /\ HeapTyped
  BY Going DEF Evaluating, HeapGood
<1>2. /\ HeapStep
      /\ \A a \in Addr : Stock(a)' = Stock(a) /\ hdr'[a] = hdr[a] /\ mem'[a] = mem[a]
  <2>1. HeapStep /\ \A a \in Addr : Stock(a)' = Stock(a)
    BY <1>1, HeapSame DEF PayloadKept
  <2> QED
    BY <2>1 DEF heapVars
<1>3. BuiltAlone
  BY <1>2, BuildersKept
<1>4. mem' = mem /\ hdr' = hdr
  BY DEF heapVars
<1>5. Moves(F.vals, V, refs, Zero)
  <2>1. SUFFICES ASSUME NEW a \in Addr, mem'[a] = "heap"
                 PROVE  Stock(a)' + Cardinality(OwnVals(F.vals, a)) =
                          Stock(a) + Cardinality(OwnVals(V, a)) + Cardinality(Places(refs, a)) + Zero[a]
    BY DEF Moves
  <2>2. Cardinality(OwnVals(F.vals, a)) = Cardinality(OwnVals(V, a)) + Cardinality(Places(refs, a))
    BY <1>4, <2>1 DEF Hands
  <2>3. Cardinality(OwnVals(V, a)) \in Nat /\ Cardinality(Places(refs, a)) \in Nat
    BY CountsFinite
  <2>4. Stock(a) \in Int
    <3>1. hdr[a] \in Int
      BY <1>1 DEF HeapTyped
    <3> QED
      BY <3>1, WordsFinite DEF Stock
  <2>5. Stock(a)' = Stock(a) /\ Zero[a] = 0
    BY <1>2, ZeroAbandons
  <2> QED
    BY <2>2, <2>3, <2>4, <2>5
<1>6. IdleVal(Len(frames), Len(F.blocks), v) => NewVal(Len(frames), Len(F.blocks), v, Zero)
  <2>1. LiveVal(v) => LiveVal(v)'
    BY <1>4 DEF LiveVal
  <2>2. ASSUME NEW a \in Addr, mem[a] = "heap", lost'[a] > 0, v.ref \in Inside(a)
        PROVE  NewGuard(v.ref, Zero)
    <3>1. v.ref \in Inside(a)'
      BY <1>1, <1>2, <2>2, InsideGrows DEF HeapStep
    <3> QED
      BY <1>4, <2>2, <3>1 DEF NewGuard
  <2> QED
    BY <2>1, <2>2 DEF IdleVal, NewVal
<1> QED
  BY <1>2, <1>3, <1>5, <1>6, ZeroAbandons, SetValsStep

\* A step that changes only operands keeps the invariant.
LEMMA IdleStep ==
  ASSUME Core, Evaluating, UNCHANGED <<heapVars, payload>>, lifted' = lifted,
         NEW refs \in Seq(Addr), Dropped(refs),
         NEW V \in Seq(OperandType), SetVals(V),
         NEW s \in Seq(OperandType), Among(s, F.vals), NEW v \in OperandType,
         V = s \/ (V = Append(s, v) /\ IdleVal(Len(frames), Len(F.blocks), v)),
         Hands(F.vals, V, refs)
  PROVE  Core'
<1>1. UNCHANGED heapVars /\ payload' = payload
  OBVIOUS
<1>2. PayloadKept
  BY <1>1 DEF Core, Typed, HeapTyped, Placed, PayloadKept
<1> QED
  BY <1>1, <1>2, QuietStep

\* The last operand is replaced or taken.
Trades(w, v, refs) ==
  \A a \in Addr : mem[a] = "heap" => Gives(w, a) = Gives(v, a) + Cardinality(Places(refs, a))
Spends(w, refs) == \A a \in Addr : mem[a] = "heap" => Gives(w, a) = Cardinality(Places(refs, a))

\* What the accounts of all operands need, from those of the one on top.
LEMMA HandsTop ==
  ASSUME NEW s \in Seq(OperandType), s # <<>>
  PROVE  /\ \A v \in OperandType, refs \in Seq(Addr) :
              Trades(Top(s), v, refs) => Hands(s, Append(Pop(s), v), refs)
         /\ \A refs \in Seq(Addr) : Spends(Top(s), refs) => Hands(s, Pop(s), refs)
<1>1. /\ Pop(s) \in Seq(OperandType)
      /\ \A a : /\ Cardinality(OwnVals(s, a)) = Cardinality(OwnVals(Pop(s), a)) + Gives(Top(s), a)
                /\ Cardinality(OwnVals(Pop(s), a)) \in Nat
  BY ValsPop
<1>2. \A v \in OperandType : \A a : Cardinality(OwnVals(Append(Pop(s), v), a)) = Cardinality(OwnVals(Pop(s), a)) + Gives(v, a)
  BY <1>1, ValsAppend
<1>3. \A v, a : Gives(v, a) \in Nat
  BY GivesIs
<1>4. \A refs \in Seq(Addr) : \A a : Cardinality(Places(refs, a)) \in Nat
  BY CountsFinite
<1>5. ASSUME NEW v \in OperandType, NEW refs \in Seq(Addr), NEW a \in Addr, mem[a] = "heap",
             Gives(Top(s), a) = Gives(v, a) + Cardinality(Places(refs, a))
      PROVE  Cardinality(OwnVals(s, a)) = Cardinality(OwnVals(Append(Pop(s), v), a)) + Cardinality(Places(refs, a))
  <2>1. PICK x, y, z, w, u, q : /\ x = Cardinality(OwnVals(s, a)) /\ y = Cardinality(OwnVals(Pop(s), a))
                             /\ z = Gives(v, a) /\ w = Cardinality(Places(refs, a)) /\ u = Gives(Top(s), a)
                             /\ q = Cardinality(OwnVals(Append(Pop(s), v), a))
    OBVIOUS
  <2>2. x = y + u /\ q = y + z /\ u = z + w /\ y \in Nat /\ z \in Nat /\ w \in Nat
    BY <1>1, <1>2, <1>3, <1>4, <1>5, <2>1
  <2>3. x = q + w
    BY <2>2
  <2> QED
    BY <2>1, <2>3
<1>6. ASSUME NEW refs \in Seq(Addr), NEW a \in Addr, mem[a] = "heap",
             Gives(Top(s), a) = Cardinality(Places(refs, a))
      PROVE  Cardinality(OwnVals(s, a)) = Cardinality(OwnVals(Pop(s), a)) + Cardinality(Places(refs, a))
  BY <1>1, <1>6
<1> QED
  BY <1>5, <1>6 DEF Hands, Trades, Spends

\* An operand that claims nothing on the heap leaves the accounts as they are.
LEMMA HandsMore ==
  ASSUME NEW s \in Seq(OperandType), NEW v \in OperandType, \A a \in Addr : mem[a] = "heap" => Gives(v, a) = 0
  PROVE  Hands(s, Append(s, v), <<>>) /\ Append(s, v) \in Seq(OperandType)
<1>1. SUFFICES ASSUME NEW a \in Addr, mem[a] = "heap"
               PROVE  Cardinality(OwnVals(s, a)) = Cardinality(OwnVals(Append(s, v), a)) + Cardinality(Places(<<>>, a))
  BY AppendFacts DEF Hands
<1>2. /\ Cardinality(OwnVals(Append(s, v), a)) = Cardinality(OwnVals(s, a)) + Gives(v, a)
      /\ Cardinality(OwnVals(s, a)) \in Nat /\ Gives(v, a) = 0
  BY <1>1, ValsAppend
<1>3. Cardinality(Places(<<>>, a)) = 0
  BY CountsEmpty
<1> QED
  BY <1>2, <1>3

\* Naming a local keeps the invariant: what it names is guarded (gen_expr
\* Ident).
LEMMA NameStep ==
  ASSUME Core, lifted \subseteq Leaks, lifted' = lifted, NEW n \in Var, Name(n)
  PROVE  Core'
<1>1. /\ Evaluating /\ Bindings(n) # {} /\ Holds(n) # Null /\ UNCHANGED <<heapVars, payload>>
      /\ due' = due /\ lost' = lost /\ SetVals(Append(F.vals, Operand(Holds(n), "borrow")))
  BY DEF Name
<1>2. F.blocks \in Seq(BlockType) /\ F.vals \in Seq(OperandType) /\ FrameOK(Len(frames)) /\ HeapGood
  BY <1>1, Going DEF Evaluating
<1>3. Resolve(n) \in Sites /\ Holds(n) = Bound(Resolve(n)).ref
  BY <1>1, <1>2, ResolveExists DEF Holds
<1>4. Holds(n) \in Addr /\ Guard(Len(frames), Len(F.blocks), Holds(n))
  <2>1. PICK b, k : b = Resolve(n)[1] /\ k = Resolve(n)[2]
    OBVIOUS
  <2>2. b \in DOMAIN F.blocks /\ k \in DOMAIN F.blocks[b].names
    BY <1>2, <1>3, <2>1, SitesAre
  <2>3. Holds(n) = F.blocks[b].names[k].ref
    BY <1>3, <2>1 DEF Bound
  <2> QED
    BY <1>1, <2>2, <2>3, NameGuard
<1>5. PICK v : v = Operand(Holds(n), "borrow")
  OBVIOUS
<1>6. v \in OperandType /\ v.st = "borrow" /\ v.ref = Holds(n)
  BY <1>4, <1>5 DEF Operand, OperandType
<1>7. IdleVal(Len(frames), Len(F.blocks), v)
  BY <1>4, <1>6 DEF IdleVal, LiveVal
<1>8. Append(F.vals, v) \in Seq(OperandType)
  BY <1>2, <1>6, AppendFacts
<1>9. Hands(F.vals, Append(F.vals, v), <<>>)
  <2>1. \A a \in Addr : Gives(v, a) = 0
    BY <1>6 DEF Gives, One
  <2> QED
    BY <1>2, <1>6, <2>1, HandsMore
<1>10. Dropped(<<>>) /\ <<>> \in Seq(Addr)
  BY <1>1, DropsNothing
<1>11. Among(F.vals, F.vals)
  BY <1>2, AmongFacts
<1> QED
  BY <1>1, <1>2, <1>5, <1>6, <1>7, <1>8, <1>9, <1>10, <1>11, IdleStep

\* A string constant keeps the invariant (gen_expr Str).
LEMMA LiteralStep ==
  ASSUME Core, lifted' = lifted, NEW c \in Addr, Literal(c)
  PROVE  Core'
<1>1. /\ Evaluating /\ c \in Const /\ UNCHANGED <<heapVars, payload>>
      /\ due' = due /\ lost' = lost /\ SetVals(Append(F.vals, Operand(c, "own")))
  BY DEF Literal
<1>2. F.vals \in Seq(OperandType) /\ Placed
  BY <1>1, Going DEF Evaluating
<1>3. PICK v : v = Operand(c, "own")
  OBVIOUS
<1>4. v \in OperandType /\ v.st = "own" /\ v.ref = c /\ mem[c] = "const"
  BY <1>1, <1>2, <1>3 DEF Operand, OperandType, Placed
<1>5. IdleVal(Len(frames), Len(F.blocks), v)
  BY <1>4 DEF IdleVal, LiveVal
<1>6. \A a \in Addr : mem[a] = "heap" => Gives(v, a) = 0
  BY <1>4 DEF Gives, One
<1>7. Append(F.vals, v) \in Seq(OperandType) /\ Hands(F.vals, Append(F.vals, v), <<>>)
  BY <1>2, <1>4, <1>6, HandsMore
<1>8. Dropped(<<>>) /\ <<>> \in Seq(Addr) /\ Among(F.vals, F.vals)
  BY <1>1, <1>2, DropsNothing, AmongFacts
<1> QED
  BY <1>1, <1>2, <1>3, <1>4, <1>5, <1>7, <1>8, IdleStep

\* An aggregate with its elements in place keeps the invariant (gen_expr
\* ArrayLit, StructLit).
LEMMA EndAggregateStep ==
  ASSUME Core, lifted' = lifted, EndAggregate
  PROVE  Core'
<1>1. /\ Evaluating /\ F.vals # <<>> /\ Top(F.vals).st = "building" /\ UNCHANGED <<heapVars, payload>>
      /\ due' = due /\ lost' = lost /\ SetVals(Append(Pop(F.vals), Operand(Top(F.vals).ref, "own")))
  BY DEF EndAggregate
<1>2. F.vals \in Seq(OperandType) /\ F = frames[Len(frames)] /\ Len(frames) \in DOMAIN frames
  BY <1>1, Going DEF Evaluating
<1>3. PICK w, v : w = Top(F.vals) /\ v = Operand(Top(F.vals).ref, "own")
  OBVIOUS
<1>4. /\ Pop(F.vals) \in Seq(OperandType) /\ w \in OperandType /\ Len(F.vals) \in DOMAIN F.vals
      /\ w = F.vals[Len(F.vals)]
  BY <1>1, <1>2, <1>3, PopFacts DEF Top
<1>5. mem[w.ref] # "none"
  BY <1>2, <1>4, RefsLive
<1>6. v \in OperandType /\ v.st = "own" /\ v.ref = w.ref
  BY <1>3, <1>4 DEF Operand, OperandType
<1>7. IdleVal(Len(frames), Len(F.blocks), v)
  BY <1>5, <1>6 DEF IdleVal, LiveVal
<1>8. Trades(Top(F.vals), v, <<>>)
  <2>1. \A a : Cardinality(Places(<<>>, a)) = 0
    BY CountsEmpty
  <2>2. \A a : Gives(w, a) = Gives(v, a)
    BY <1>1, <1>3, <1>6 DEF Gives
  <2>3. \A a : Gives(v, a) \in Nat
    BY GivesIs
  <2> QED
    BY <1>3, <2>1, <2>2, <2>3 DEF Trades
<1>9. Hands(F.vals, Append(Pop(F.vals), v), <<>>)
  <2>1. <<>> \in Seq(Addr)
    OBVIOUS
  <2> QED
    BY <1>1, <1>2, <1>6, <1>8, <2>1, HandsTop
<1>10. /\ Dropped(<<>>) /\ <<>> \in Seq(Addr) /\ Among(Pop(F.vals), F.vals)
       /\ Append(Pop(F.vals), v) \in Seq(OperandType)
  BY <1>1, <1>2, <1>4, <1>6, DropsNothing, AmongFacts, AppendFacts
<1> QED
  BY <1>1, <1>3, <1>4, <1>6, <1>7, <1>9, <1>10, IdleStep

\* The operand a reader takes off the stack.
LEMMA TopVal ==
  ASSUME Core, Running, Done, NEW v, v = Top(F.vals)
  PROVE  /\ F.vals \in Seq(OperandType) /\ F.vals # <<>> /\ Pop(F.vals) \in Seq(OperandType)
         /\ v \in OperandType /\ v.ref \in Addr /\ v.st \in {"own", "borrow"}
         /\ mem[v.ref] # "none"
         /\ mem[v.ref] = "heap" => hdr[v.ref] > 0
         /\ v.st = "borrow" => Guard(Len(frames), Len(F.blocks), v.ref)
         /\ Given(v) \in Seq(Addr) /\ \A k \in DOMAIN Given(v) : mem[Given(v)[k]] # "none"
         /\ \A a : Cardinality(Places(Given(v), a)) = Gives(v, a)
         /\ Among(Pop(F.vals), F.vals)
         /\ Len(F.vals) \in DOMAIN F.vals /\ F.vals[Len(F.vals)] = v
         /\ HeapTyped /\ Placed
<1>1. /\ F.vals \in Seq(OperandType) /\ F = frames[Len(frames)] /\ Len(frames) \in DOMAIN frames
      /\ FrameOK(Len(frames)) /\ HeapTyped /\ Placed /\ F.vals # <<>> /\ v.st # "building"
  BY Going DEF Done, HeapGood
<1>2. /\ Pop(F.vals) \in Seq(OperandType) /\ v \in OperandType /\ Len(F.vals) \in DOMAIN F.vals
      /\ F.vals[Len(F.vals)] = v /\ Among(Pop(F.vals), F.vals)
  BY <1>1, PopFacts, AmongFacts DEF Top
<1>3. v.ref \in Addr /\ v.st \in {"own", "borrow"}
  BY <1>1, <1>2 DEF OperandType
<1>4. mem[v.ref] # "none"
  BY <1>1, <1>2, RefsLive
<1>5. mem[v.ref] = "heap" => hdr[v.ref] > 0
  BY <1>1, <1>2, RefsCounted
<1>6. v.st = "borrow" => Guard(Len(frames), Len(F.blocks), v.ref)
  BY <1>1, <1>2 DEF FrameOK, GuardVals
<1>7. Given(v) \in Seq(Addr) /\ \A k \in DOMAIN Given(v) : mem[Given(v)[k]] # "none"
  BY <1>1, <1>2, <1>4, GivenIs
<1>8. \A a : Cardinality(Places(Given(v), a)) = Gives(v, a)
  BY <1>1, <1>2, GivenIs
<1> QED
  BY <1>1, <1>2, <1>3, <1>4, <1>5, <1>6, <1>7, <1>8

\* What is read out of an operand is guarded as the operand is, or by the operand
\* itself when it is dropped.
LEMMA ElementGuard ==
  ASSUME Core, Running, Done, NEW v, v = Top(F.vals), mem[v.ref] = "heap",
         NEW i \in 1 .. Width, body[v.ref][i] # Null,
         Dropped(Given(v)), v.st = "own" => lost'[v.ref] > 0
  PROVE  /\ body[v.ref][i] \in Addr
         /\ \/ Guard(Len(frames), Len(F.blocks), body[v.ref][i])
            \/ \E a \in Addr : mem[a] = "heap" /\ lost'[a] > 0 /\ body[v.ref][i] \in Inside(a)
<1>1. /\ v.ref \in Addr /\ v.st \in {"own", "borrow"} /\ HeapTyped
      /\ v.st = "borrow" => Guard(Len(frames), Len(F.blocks), v.ref)
  BY TopVal
<1>2. body[v.ref][i] \in Addr
  <2>1. body \in [Addr -> [1 .. Width -> Addr \cup {Null}]]
    BY <1>1 DEF HeapTyped
  <2>2. body[v.ref][i] \in Addr \cup {Null}
    BY <1>1, <2>1
  <2> QED
    BY <2>2
<1>3. CASE v.st = "own"
  <2>1. v.ref \in Inside(v.ref)
    BY <1>1, InsideSelf
  <2>2. body[v.ref][i] \in Inside(v.ref)
    BY <1>1, <2>1, InsideWord
  <2> QED
    BY <1>1, <1>2, <1>3, <2>2
<1>4. CASE v.st = "borrow"
  <2>1. PICK a \in Addr : mem[a] = "heap" /\ Kept(Len(frames), Len(F.blocks), a) /\ v.ref \in Inside(a)
    BY <1>1, <1>4 DEF Guard
  <2>2. body[v.ref][i] \in Inside(a)
    BY <1>1, <2>1, InsideWord
  <2> QED
    BY <1>2, <2>1, <2>2 DEF Guard
<1> QED
  BY <1>1, <1>3, <1>4

\* Losing an operand accounts for it, and an owned heap value is then one of
\* the lost.
LEMMA LosesOwn ==
  ASSUME Core, Running, Done, NEW v, v = Top(F.vals), Lose(Given(v)), due' = due
  PROVE  Dropped(Given(v)) /\ (v.st = "own" /\ mem[v.ref] = "heap" => lost'[v.ref] > 0)
<1>1. /\ v.ref \in Addr /\ Given(v) \in Seq(Addr) /\ \A k \in DOMAIN Given(v) : mem[Given(v)[k]] # "none"
      /\ \A a : Cardinality(Places(Given(v), a)) = Gives(v, a)
  BY TopVal
<1>2. Dropped(Given(v))
  BY <1>1, LoseDrops
<1>3. ASSUME v.st = "own", mem[v.ref] = "heap"
      PROVE  lost'[v.ref] > 0
  <2>1. PICK r : r = v.ref
    OBVIOUS
  <2>2. Cardinality(Places(due, r)) + lost'[r] = Cardinality(Places(due, r)) + lost[r] + Gives(v, r)
    BY <1>1, <1>2, <1>3, <2>1 DEF Dropped
  <2>3. Gives(v, r) = 1
    BY <1>3, <2>1 DEF Gives, One
  <2>4. Cardinality(Places(due, r)) \in Nat /\ lost[r] \in Nat
    BY <1>1, <2>1, ClaimsAre DEF Core
  <2>5. lost'[r] \in Int
    <3>1. lost' \in [Addr -> 0 .. MaxLost] /\ MaxLost \in Nat
      BY <1>2, OwnershipAssumption DEF Dropped
    <3> QED
      BY <1>1, <2>1, <3>1
  <2>6. lost'[r] > 0
    BY <2>2, <2>3, <2>4, <2>5
  <2> QED
    BY <2>1, <2>6
<1> QED
  BY <1>2, <1>3

\* Reading an element keeps the invariant (gen_expr FieldAccess, Index).
LEMMA ElementStep ==
  ASSUME Core, lifted' = lifted, NEW i \in 1 .. Width, Element(i)
  PROVE  Core'
<1>1. PICK w, v : w = Top(F.vals) /\ v = Operand(body[w.ref][i], "borrow")
  OBVIOUS
<1>2. /\ Evaluating /\ Running /\ Done /\ mem[w.ref] = "heap" /\ body[w.ref][i] # Null
      /\ SetVals(Append(Pop(F.vals), v)) /\ Lose(Given(w)) /\ UNCHANGED <<heapVars, payload>> /\ due' = due
  BY <1>1 DEF Element, OnHeap, Evaluating
<1>3. /\ F.vals \in Seq(OperandType) /\ F.vals # <<>> /\ Pop(F.vals) \in Seq(OperandType)
      /\ Given(w) \in Seq(Addr) /\ Among(Pop(F.vals), F.vals)
      /\ \A a : Cardinality(Places(Given(w), a)) = Gives(w, a)
  BY <1>1, <1>2, TopVal
<1>4. Dropped(Given(w)) /\ (w.st = "own" => lost'[w.ref] > 0)
  BY <1>1, <1>2, LosesOwn
<1>5. /\ body[w.ref][i] \in Addr
      /\ \/ Guard(Len(frames), Len(F.blocks), body[w.ref][i])
         \/ \E a \in Addr : mem[a] = "heap" /\ lost'[a] > 0 /\ body[w.ref][i] \in Inside(a)
  BY <1>1, <1>2, <1>4, ElementGuard
<1>6. v \in OperandType /\ v.st = "borrow" /\ v.ref = body[w.ref][i]
  BY <1>1, <1>5 DEF Operand, OperandType
<1>7. IdleVal(Len(frames), Len(F.blocks), v)
  BY <1>5, <1>6 DEF IdleVal, LiveVal
<1>8. Trades(Top(F.vals), v, Given(w))
  <2>1. \A a : Gives(v, a) = 0 /\ Gives(w, a) \in Nat
    BY <1>6, GivesIs DEF Gives, One
  <2> QED
    BY <1>1, <1>3, <2>1 DEF Trades
<1>9. Hands(F.vals, Append(Pop(F.vals), v), Given(w)) /\ Append(Pop(F.vals), v) \in Seq(OperandType)
  BY <1>3, <1>6, <1>8, HandsTop, AppendFacts
<1> QED
  BY <1>2, <1>3, <1>4, <1>6, <1>7, <1>9, IdleStep

\* unwrap keeps the invariant: a payload held without a count is a constant
\* (gen_expr MethodCall).
LEMMA UnwrapStep ==
  ASSUME Core, lifted' = lifted, Unwrap
  PROVE  Core'
<1>1. PICK w, v : w = Top(F.vals) /\ v = Operand(payload[w.ref], "own")
  OBVIOUS
<1>2. /\ Evaluating /\ Running /\ Done /\ payload[w.ref] # Null
      /\ SetVals(Append(Pop(F.vals), v)) /\ Lose(Given(w)) /\ UNCHANGED <<heapVars, payload>> /\ due' = due
  BY <1>1 DEF Unwrap, Evaluating
<1>3. /\ F.vals \in Seq(OperandType) /\ F.vals # <<>> /\ Pop(F.vals) \in Seq(OperandType)
      /\ Given(w) \in Seq(Addr) /\ Among(Pop(F.vals), F.vals) /\ w.ref \in Addr /\ Placed
      /\ \A a : Cardinality(Places(Given(w), a)) = Gives(w, a)
  BY <1>1, <1>2, TopVal
<1>4. Dropped(Given(w))
  BY <1>1, <1>2, LosesOwn
<1>5. v \in OperandType /\ v.st = "own" /\ mem[v.ref] = "const"
  <2>1. payload[w.ref] \in Const /\ payload[w.ref] \in Addr
    BY <1>2, <1>3, OwnershipAssumption DEF Placed
  <2> QED
    BY <1>1, <1>3, <2>1 DEF Operand, OperandType, Placed
<1>6. IdleVal(Len(frames), Len(F.blocks), v)
  BY <1>5 DEF IdleVal, LiveVal
<1>7. Trades(Top(F.vals), v, Given(w))
  <2>1. \A a \in Addr : mem[a] = "heap" => Gives(v, a) = 0
    BY <1>5 DEF Gives, One
  <2>2. \A a : Gives(w, a) \in Nat
    BY GivesIs
  <2> QED
    BY <1>1, <1>3, <2>1, <2>2 DEF Trades
<1>8. Hands(F.vals, Append(Pop(F.vals), v), Given(w)) /\ Append(Pop(F.vals), v) \in Seq(OperandType)
  BY <1>3, <1>5, <1>7, HandsTop, AppendFacts
<1> QED
  BY <1>2, <1>3, <1>4, <1>5, <1>6, <1>8, IdleStep

\* The operand on top keeps its value and gets another status, where that is
\* the same claim or the value is never released.
LEMMA StatusStep ==
  ASSUME Core, lifted' = lifted, Evaluating, Done, NEW st \in {"own", "borrow"},
         NEW w, w = Top(F.vals), w.st = st \/ hdr[w.ref] = Heap!Immortal,
         SetVals(Append(Pop(F.vals), Operand(w.ref, st))), UNCHANGED <<heapVars, payload, due, lost>>
  PROVE  Core'
<1>1. Running
  BY DEF Evaluating
<1>2. /\ F.vals \in Seq(OperandType) /\ F.vals # <<>> /\ Pop(F.vals) \in Seq(OperandType)
      /\ Among(Pop(F.vals), F.vals) /\ w.ref \in Addr /\ mem[w.ref] # "none" /\ HeapTyped
      /\ w.st = "borrow" => Guard(Len(frames), Len(F.blocks), w.ref)
      /\ mem[w.ref] = "heap" => hdr[w.ref] > 0
  BY <1>1, TopVal
<1>3. w.st # st => mem[w.ref] \in {"const", "frame"}
  <2>1. mem[w.ref] # "heap" \/ hdr[w.ref] # -1
    BY <1>2
  <2>2. mem[w.ref] \in {"none", "heap", "frame", "const"}
    BY <1>2 DEF HeapTyped
  <2> QED
    BY <1>2, <2>1, <2>2 DEF Heap!Immortal
<1>4. PICK v : v = Operand(w.ref, st)
  OBVIOUS
<1>5. v \in OperandType /\ v.st = st /\ v.ref = w.ref
  BY <1>2, <1>4 DEF Operand, OperandType
<1>6. IdleVal(Len(frames), Len(F.blocks), v)
  <2>1. LiveVal(v)
    BY <1>2, <1>5 DEF LiveVal
  <2>2. st = "borrow" => Guard(Len(frames), Len(F.blocks), w.ref)
    BY <1>2, <1>3 DEF Guard
  <2> QED
    BY <1>5, <2>1, <2>2 DEF IdleVal
<1>7. Trades(Top(F.vals), v, <<>>)
  <2>1. SUFFICES ASSUME NEW a \in Addr, mem[a] = "heap"
                 PROVE  Gives(w, a) = Gives(v, a) + Cardinality(Places(<<>>, a))
    BY DEF Trades
  <2>2. Gives(w, a) = Gives(v, a)
    BY <1>3, <1>5, <2>1 DEF Gives, One
  <2>3. \A b : Cardinality(Places(<<>>, b)) = 0
    BY CountsEmpty
  <2>4. Gives(v, a) \in {0, 1}
    BY GivesIs
  <2> QED
    BY <2>2, <2>3, <2>4
<1>8. <<>> \in Seq(Addr) /\ Dropped(<<>>)
  BY DropsNothing
<1>9. Hands(F.vals, Append(Pop(F.vals), v), <<>>) /\ Append(Pop(F.vals), v) \in Seq(OperandType)
  BY <1>2, <1>5, <1>7, <1>8, HandsTop, AppendFacts
<1>10. UNCHANGED <<heapVars, payload>> /\ SetVals(Append(Pop(F.vals), v))
  BY <1>4
<1> QED
  BY <1>2, <1>5, <1>6, <1>8, <1>9, <1>10, IdleStep

\* A builtin that hands its argument back keeps the invariant where the
\* argument is immortal.
LEMMA HandBackStep ==
  ASSUME Core, lifted \subseteq Leaks, lifted' = lifted, HandBack
  PROVE  Core'
<1>1. PICK w : w = Top(F.vals)
  OBVIOUS
<1>2. /\ Evaluating /\ Done /\ hdr[w.ref] = Heap!Immortal
      /\ SetVals(Append(Pop(F.vals), Operand(w.ref, "own"))) /\ UNCHANGED <<heapVars, payload, due, lost>>
  BY <1>1, Safe DEF HandBack
<1> QED
  BY <1>1, <1>2, StatusStep

\* A branch that is not the first keeps the invariant where it agrees with the
\* first on ownership.
LEMMA OtherBranchStep ==
  ASSUME Core, lifted \subseteq Leaks, lifted' = lifted, NEW st \in {"own", "borrow"}, OtherBranch(st)
  PROVE  Core'
<1>1. PICK w : w = Top(F.vals)
  OBVIOUS
<1>2. /\ Evaluating /\ Done /\ (w.st = st \/ hdr[w.ref] = Heap!Immortal)
      /\ SetVals(Append(Pop(F.vals), Operand(w.ref, st))) /\ UNCHANGED <<heapVars, payload, due, lost>>
  BY <1>1, Safe DEF OtherBranch
<1> QED
  BY <1>1, <1>2, StatusStep

\* The last operand goes, and what it claimed is given up.
LEMMA TakeStep ==
  ASSUME Core, lifted' = lifted, Evaluating, UNCHANGED heapVars, PayloadKept,
         NEW s \in Seq(OperandType), s # <<>>, F.vals = s, SetVals(Pop(s)),
         NEW refs \in Seq(Addr), Dropped(refs), Spends(Top(s), refs)
  PROVE  Core'
<1>1. Pop(s) \in Seq(OperandType) /\ Top(s) \in OperandType /\ Among(Pop(s), s)
  BY PopFacts, AmongFacts
<1>2. Hands(s, Pop(s), refs)
  BY HandsTop
<1> QED
  BY <1>1, <1>2, QuietStep

\* Payloads that do not change stay constants.
LEMMA Keeping == ASSUME Core, payload' = payload PROVE PayloadKept
BY DEF Core, Typed, HeapTyped, Placed, PayloadKept

\* A statement takes the one operand there is.
LEMMA WholeVal ==
  ASSUME Core, Whole, NEW v, v = Top(F.vals)
  PROVE  /\ Evaluating /\ Running /\ Done /\ ~F.transient /\ Block.kind # "arm"
         /\ Pop(F.vals) = <<>> /\ Len(F.vals) = 1 /\ due = <<>> /\ dropping = <<>>
<1>1. Statement /\ Evaluating /\ Running /\ Len(F.vals) = 1 /\ v.st # "building"
  BY DEF Whole, Statement, Evaluating
<1>2. F.vals \in Seq(OperandType) /\ due = <<>> /\ dropping = <<>>
  BY <1>1, Going
<1>3. F.vals # <<>>
  <2>1. Len(<<>>) = 0
    OBVIOUS
  <2> QED
    BY <1>1, <2>1
<1>4. Pop(F.vals) = <<>>
  <2>1. Pop(F.vals) \in Seq(OperandType) /\ Len(Pop(F.vals)) = Len(F.vals) - 1
    BY <1>2, <1>3, PopFacts
  <2> QED
    BY <1>1, <2>1
<1> QED
  BY <1>1, <1>2, <1>3, <1>4 DEF Done, Statement

\* A dropped expression keeps the invariant (gen_stmt Expr).
LEMMA DiscardStep ==
  ASSUME Core, lifted' = lifted, Discard
  PROVE  Core'
<1>1. PICK w : w = Top(F.vals)
  OBVIOUS
<1>2. Whole /\ SetVals(<<>>) /\ Lose(Given(w)) /\ UNCHANGED heapVars /\ payload' = payload /\ due' = due
  BY <1>1 DEF Discard
<1>3. Evaluating /\ Running /\ Done /\ Pop(F.vals) = <<>>
  BY <1>1, <1>2, WholeVal
<1>4. /\ F.vals \in Seq(OperandType) /\ F.vals # <<>> /\ Given(w) \in Seq(Addr)
      /\ \A a : Cardinality(Places(Given(w), a)) = Gives(w, a)
  BY <1>1, <1>3, TopVal
<1>5. Dropped(Given(w))
  BY <1>1, <1>2, <1>3, LosesOwn
<1>6. Spends(Top(F.vals), Given(w))
  BY <1>1, <1>4 DEF Spends
<1>7. PICK s : s = F.vals
  OBVIOUS
<1>8. SetVals(Pop(s))
  BY <1>2, <1>3, <1>7
<1> QED
  BY <1>2, <1>3, <1>4, <1>5, <1>6, <1>7, <1>8, Keeping, TakeStep

\* What a builtin does with what it was handed is accounted for, released or
\* not.
LEMMA SpendDrops ==
  ASSUME Core, due = <<>>, NEW refs \in Seq(Addr), NEW frees, Spend(refs, frees),
         \A k \in DOMAIN refs : mem[refs[k]] # "none"
  PROVE  Dropped(refs)
<1>1. Release(refs) \/ (Lose(refs) /\ due' = due)
  BY DEF Spend
<1> QED
  BY <1>1, ReleaseDrops, LoseDrops

\* A builtin that answers with a number keeps the invariant.
LEMMA MeasureStep ==
  ASSUME Core, lifted' = lifted, NEW frees \in BOOLEAN, Measure(frees)
  PROVE  Core'
<1>1. PICK w : w = Top(F.vals)
  OBVIOUS
<1>2. Whole /\ SetVals(<<>>) /\ Spend(Given(w), frees) /\ UNCHANGED heapVars /\ payload' = payload
  BY <1>1 DEF Measure
<1>3. Evaluating /\ Running /\ Done /\ Pop(F.vals) = <<>> /\ due = <<>>
  BY <1>1, <1>2, WholeVal
<1>4. /\ F.vals \in Seq(OperandType) /\ F.vals # <<>> /\ Given(w) \in Seq(Addr)
      /\ \A k \in DOMAIN Given(w) : mem[Given(w)[k]] # "none"
      /\ \A a : Cardinality(Places(Given(w), a)) = Gives(w, a)
  BY <1>1, <1>3, TopVal
<1>5. Dropped(Given(w))
  BY <1>2, <1>3, <1>4, SpendDrops
<1>6. Spends(Top(F.vals), Given(w))
  BY <1>1, <1>4 DEF Spends
<1>7. PICK s : s = F.vals
  OBVIOUS
<1>8. SetVals(Pop(s))
  BY <1>2, <1>3, <1>7
<1> QED
  BY <1>2, <1>3, <1>4, <1>5, <1>6, <1>7, <1>8, Keeping, TakeStep

\* Storing a payload that is not managed keeps the invariant where it is a
\* constant.
LEMMA StorePayloadStep ==
  ASSUME Core, lifted \subseteq Leaks, lifted' = lifted, StorePayload
  PROVE  Core'
<1>1. PICK w, p : w = Top(F.vals) /\ p = Outer.ref
  OBVIOUS
<1>2. /\ Evaluating /\ Running /\ Done /\ w.ref \in Const /\ payload' = [payload EXCEPT ![p] = w.ref]
      /\ SetVals(Pop(F.vals)) /\ UNCHANGED <<heapVars, due, lost>>
  <2>1. Lift("payload", w.ref \in Const) => w.ref \in Const
    BY DEF Lift, Leaks
  <2>2. /\ Evaluating /\ Done /\ Lift("payload", w.ref \in Const)
        /\ SetVals(Pop(F.vals)) /\ UNCHANGED <<heapVars, due, lost>>
    BY <1>1 DEF StorePayload
  <2>3. payload' = [payload EXCEPT ![p] = w.ref]
    BY <1>1 DEF StorePayload
  <2> QED
    BY <2>1, <2>2, <2>3 DEF Evaluating
<1>3. /\ F.vals \in Seq(OperandType) /\ F.vals # <<>> /\ Placed /\ HeapTyped /\ w.ref \in Addr
  BY <1>1, <1>2, TopVal
<1>4. PayloadKept
  <2>1. payload \in [Addr -> Addr \cup {Null}]
    BY <1>3 DEF HeapTyped
  <2>2. payload' \in [Addr -> Addr \cup {Null}]
    BY <1>2, <1>3, <2>1
  <2>3. \A a \in Addr : payload'[a] \in {payload[a], w.ref}
    BY <1>2, <1>3, <2>1
  <2> QED
    BY <1>2, <1>3, <2>2, <2>3 DEF PayloadKept, Placed
<1>5. Dropped(<<>>) /\ <<>> \in Seq(Addr)
  BY <1>2, DropsNothing
<1>6. Spends(Top(F.vals), <<>>)
  <2>1. mem[w.ref] = "const"
    BY <1>2, <1>3 DEF Placed
  <2>2. \A a \in Addr : mem[a] = "heap" => Gives(w, a) = 0
    BY <2>1 DEF Gives, One
  <2>3. \A a : Cardinality(Places(<<>>, a)) = 0
    BY CountsEmpty
  <2> QED
    BY <1>1, <2>2, <2>3 DEF Spends
<1>7. PICK s : s = F.vals
  OBVIOUS
<1>8. SetVals(Pop(s)) /\ UNCHANGED heapVars
  BY <1>2, <1>7
<1> QED
  BY <1>2, <1>3, <1>4, <1>5, <1>6, <1>7, <1>8, TakeStep

\* A value is built from nothing that was waiting.
LEMMA BornStep ==
  ASSUME Core, lifted' = lifted, Evaluating, NEW v \in OperandType, Scratch(v.ref),
         Built(v.ref, Append(F.vals, v)), UNCHANGED <<due, lost>>,
         v.st = "borrow" => F.transient \/ "nullary" \in lifted
  PROVE  Core'
<1>1. Running /\ F.vals \in Seq(OperandType)
  BY Going DEF Evaluating
<1>2. Dropped(<<>>) /\ <<>> \in Seq(Addr)
  BY DropsNothing
<1>3. PICK tr \in BOOLEAN : tr = F.transient
  BY <1>1, Going, FrameParts
<1>4. PICK c : c = IF v.st = "borrow" /\ ~tr THEN 1 ELSE 0
  OBVIOUS
<1>5. PICK over : over = [b \in Addr |-> IF b = v.ref THEN c ELSE 0]
  OBVIOUS
<1>6. Abandons(over)
  <2>1. over \in [Addr -> Nat]
    BY <1>4, <1>5
  <2>2. ASSUME lifted = {} PROVE c = 0
    BY <1>3, <1>4, <2>2
  <2>3. \A a \in Addr : lifted = {} => over[a] = 0
    BY <1>5, <2>2
  <2> QED
    BY <2>1, <2>3 DEF Abandons
<1>7. v.ref \in Addr
  BY DEF OperandType
<1>8. Builds(v, F.vals, <<>>, over)
  <2>1. SUFFICES ASSUME NEW b \in Addr, b # v.ref \/ ~F.transient
                 PROVE  Cardinality(OwnVals(F.vals, b)) + One(b = v.ref) =
                          Cardinality(OwnVals(F.vals, b)) + Gives(v, b) + Cardinality(Places(<<>>, b)) + over[b]
    BY DEF Builds
  <2>2. over[b] = IF b = v.ref THEN c ELSE 0
    BY <1>5
  <2>3. One(b = v.ref) = IF b = v.ref THEN 1 ELSE 0
    BY DEF One
  <2>4. Gives(v, b) = IF v.st # "borrow" /\ b = v.ref THEN 1 ELSE 0
    BY DEF Gives, One
  <2>5. b = v.ref => ~tr
    BY <1>3, <2>1
  <2>6. One(b = v.ref) = Gives(v, b) + over[b] /\ Gives(v, b) \in {0, 1} /\ over[b] \in {0, 1}
    BY <1>4, <2>2, <2>3, <2>4, <2>5
  <2>7. \A d : Cardinality(Places(<<>>, d)) = 0
    BY CountsEmpty
  <2>8. Cardinality(OwnVals(F.vals, b)) \in Nat
    BY <1>1, CountsFinite
  <2> QED
    BY <2>6, <2>7, <2>8
<1>9. v.st = "borrow" => F.transient \/ over[v.ref] > 0
  <2>1. over[v.ref] = c
    BY <1>5, <1>7
  <2>2. v.st = "borrow" /\ ~tr => c > 0
    BY <1>4
  <2> QED
    BY <1>3, <2>1, <2>2
<1>10. Among(F.vals, F.vals)
  BY <1>1, AmongFacts
<1> QED
  BY <1>1, <1>2, <1>6, <1>8, <1>9, <1>10, BuiltStep

\* A value built from numbers keeps the invariant (gen_expr Range).
LEMMA BuildStep ==
  ASSUME Core, lifted' = lifted, NEW a \in Addr, Build(a)
  PROVE  Core'
<1>1. PICK v : v = Operand(a, "own")
  OBVIOUS
<1>2. v \in OperandType /\ v.ref = a /\ v.st = "own"
  BY <1>1 DEF Operand, OperandType
<1>3. Evaluating /\ Scratch(v.ref) /\ Built(v.ref, Append(F.vals, v)) /\ UNCHANGED <<due, lost>>
  BY <1>1, <1>2 DEF Build
<1> QED
  BY <1>2, <1>3, BornStep

\* A variant built by naming it keeps the invariant: at worst nobody will
\* release it.
LEMMA NullaryVariantStep ==
  ASSUME Core, lifted' = lifted, NEW a \in Addr, NullaryVariant(a)
  PROVE  Core'
<1>1. PICK v : v = Operand(a, "borrow")
  OBVIOUS
<1>2. v \in OperandType /\ v.ref = a /\ v.st = "borrow"
  BY <1>1 DEF Operand, OperandType
<1>3. Evaluating /\ Scratch(v.ref) /\ Built(v.ref, Append(F.vals, v)) /\ UNCHANGED <<due, lost>>
  BY <1>1, <1>2 DEF NullaryVariant
<1>4. F.transient \/ "nullary" \in lifted
  BY DEF NullaryVariant, Lift
<1> QED
  BY <1>2, <1>3, <1>4, BornStep

\* An aggregate under construction keeps the invariant: it has one claim, its
\* builder's.
LEMMA BeginAggregateStep ==
  ASSUME Core, lifted' = lifted, NEW a \in Addr, BeginAggregate(a)
  PROVE  Core'
<1>1. PICK v : v = Operand(a, "building")
  OBVIOUS
<1>2. v \in OperandType /\ v.ref = a /\ v.st = "building"
  BY <1>1 DEF Operand, OperandType
<1>3. Evaluating /\ Scratch(v.ref) /\ Built(v.ref, Append(F.vals, v)) /\ UNCHANGED <<due, lost>>
  BY <1>1, <1>2 DEF BeginAggregate
<1> QED
  BY <1>2, <1>3, BornStep

\* Storing what an operand refers to in the aggregate it was evaluated for.
LEMMA StoreElementStep ==
  ASSUME Core, lifted \subseteq Leaks, lifted' = lifted, NEW i \in 1 .. Width, StoreElement(i)
  PROVE  Core'
<1>1. PICK w, p, c, s : /\ w = Top(F.vals) /\ p = Outer.ref /\ c \in BOOLEAN /\ (c <=> w.st = "borrow")
                        /\ s = F.vals
  OBVIOUS
<1>2. /\ Evaluating /\ Running /\ Done /\ Len(s) >= 2 /\ Outer.st = "building"
      /\ SetVals(Pop(s)) /\ UNCHANGED <<mem, dropping, payload>> /\ due' = due
  BY <1>1 DEF StoreElement, Evaluating
<1>3. RetainIf(c, w.ref)
  BY <1>1 DEF StoreElement, RetainIf
<1>4. /\ mem[p] = "heap" => /\ mem[w.ref] # "frame" /\ body[p][i] = Null
                            /\ body' = [body EXCEPT ![p][i] = w.ref] /\ lost' = lost
      /\ mem[p] # "heap" => Lose(<<w.ref>>) /\ body' = body
  <2>1. Lift("frameWord", mem[w.ref] # "frame") => mem[w.ref] # "frame"
    BY DEF Lift, Leaks
  <2> QED
    BY <1>1, <2>1 DEF StoreElement
<1>5. /\ s \in Seq(OperandType) /\ s # <<>> /\ Pop(s) \in Seq(OperandType)
      /\ w \in OperandType /\ w.ref \in Addr /\ mem[w.ref] # "none"
      /\ mem[w.ref] = "heap" => hdr[w.ref] > 0
      /\ w.st = "borrow" => Guard(Len(frames), Len(F.blocks), w.ref)
      /\ Among(Pop(s), F.vals) /\ Len(s) \in DOMAIN F.vals /\ F.vals[Len(s)] = w
      /\ HeapTyped /\ Placed
  BY <1>1, <1>2, TopVal
<1>6. /\ HeapGood /\ dropping = <<>> /\ Len(frames) \in DOMAIN frames /\ Typed /\ Counts /\ Lives(F)
      /\ F = frames[Len(frames)] /\ F \in FrameType /\ Len(frames) \in Nat
  BY <1>2, Going
<1>7. /\ Len(s) - 1 \in DOMAIN F.vals /\ F.vals[Len(s) - 1].ref = p /\ F.vals[Len(s) - 1].st = "building"
      /\ p \in Addr /\ mem[p] \notin {"none", "const"} /\ (mem[p] = "heap" => hdr[p] = 1)
  <2>1. DOMAIN F.vals = 1 .. Len(s) /\ Len(s) \in Nat
    BY <1>1, <1>5
  <2>2. Len(s) - 1 \in DOMAIN F.vals
    BY <1>2, <2>1
  <2>3. Outer = F.vals[Len(s) - 1]
    BY <1>1 DEF Outer
  <2>4. p \in Addr /\ LiveVal(F.vals[Len(s) - 1])
    BY <1>1, <1>6, <2>2, <2>3, FrameParts DEF Lives
  <2> QED
    BY <1>1, <1>2, <2>2, <2>3, <2>4 DEF LiveVal
<1>8. c => (mem[w.ref] \in {"const", "frame"} \/ (mem[w.ref] = "heap" /\ hdr[w.ref] > 0))
  <2>1. mem[w.ref] \in {"none", "heap", "frame", "const"}
    BY <1>5 DEF HeapTyped
  <2> QED
    BY <1>5, <2>1
<1>9. \A b : /\ Cardinality(OwnVals(s, b)) = Cardinality(OwnVals(Pop(s), b)) + Gives(w, b)
             /\ Cardinality(OwnVals(Pop(s), b)) \in Nat
             /\ Gives(w, b) = One(~c /\ b = w.ref) /\ One(~c /\ b = w.ref) \in {0, 1}
             /\ One(c /\ b = w.ref) + One(~c /\ b = w.ref) = One(b = w.ref)
             /\ One(c /\ b = w.ref) \in {0, 1}
  <2>1. TAKE b
  <2>2. /\ Cardinality(OwnVals(s, b)) = Cardinality(OwnVals(Pop(s), b)) + Gives(w, b)
        /\ Cardinality(OwnVals(Pop(s), b)) \in Nat
    BY <1>1, <1>5, ValsPop
  <2>3. /\ Gives(w, b) = (IF ~c /\ b = w.ref THEN 1 ELSE 0) /\ One(~c /\ b = w.ref) = (IF ~c /\ b = w.ref THEN 1 ELSE 0)
        /\ One(c /\ b = w.ref) = (IF c /\ b = w.ref THEN 1 ELSE 0) /\ One(b = w.ref) = (IF b = w.ref THEN 1 ELSE 0)
    BY <1>1 DEF Gives, One
  <2> QED
    BY <2>2, <2>3
<1>10. ASSUME NEW b \in Addr PROVE Stock(b) \in Int
  <2>1. hdr[b] \in Int
    BY <1>5 DEF HeapTyped
  <2> QED
    BY <2>1, WordsFinite DEF Stock
<1>11. ASSUME \A b \in Addr : hdr'[b] = hdr[b] + One(c /\ b = w.ref /\ mem[b] = "heap")
       PROVE  BuiltAlone
  <2>1. ASSUME NEW b \in Addr, mem[b] = "heap", hdr'[b] # hdr[b]
        PROVE  \E n \in DOMAIN frames : \E d \in Nat : Guard(n, d, b)
    <3>1. hdr[b] \in Int
      BY <1>5 DEF HeapTyped
    <3>2. c /\ b = w.ref
      BY <1>11, <2>1, <3>1 DEF One
    <3>3. Len(F.blocks) \in Nat
      BY <1>6, FrameParts
    <3> QED
      BY <1>1, <1>5, <1>6, <3>2, <3>3
  <2> QED
    BY <2>1, BuildersKept
<1>12. CASE mem[p] = "heap"
  <2>1. /\ \A b \in Addr, j \in 1 .. Width : body[b][j] # p
        /\ \A x \in Claimants(p) : x = <<Len(frames), <<2, Len(s) - 1>>>>
        /\ \A m \in DOMAIN frames : \A d : \A r \in Addr : Guard(m, d, r) => r # p
    <3>1. PICK n, k : n = Len(frames) /\ k = Len(s) - 1
      OBVIOUS
    <3>2. /\ n \in DOMAIN frames /\ k \in DOMAIN frames[n].vals /\ frames[n].vals[k].st = "building"
          /\ frames[n].vals[k].ref = p /\ p \in Addr /\ hdr[p] = 1
      BY <1>6, <1>7, <1>12, <3>1
    <3>3. Typed /\ Counts /\ HeapGood /\ mem[p] = "heap"
      BY <1>6, <1>12
    <3>4. /\ \A b \in Addr, j \in 1 .. Width : body[b][j] # p
          /\ \A x \in Claimants(p) : x = <<n, <<2, k>>>>
          /\ \A m \in DOMAIN frames : \A d : \A r \in Addr : Guard(m, d, r) => r # p
      BY <3>2, <3>3, BuildingAlone
    <3> QED
      BY <3>1, <3>4
  <2>2. w.ref # p
    <3>1. CASE w.st = "borrow"
      BY <1>5, <1>6, <2>1, <3>1
    <3>2. CASE w.st # "borrow"
      <4>1. ASSUME w.ref = p PROVE FALSE
        <5>1. PICK n, k : n = Len(frames) /\ k = Len(s)
          OBVIOUS
        <5>2. /\ n \in DOMAIN frames /\ k \in DOMAIN frames[n].vals /\ frames[n].vals[k].st # "borrow"
              /\ frames[n].vals[k].ref = p
          BY <1>5, <1>6, <3>2, <4>1, <5>1
        <5>3. <<n, <<2, k>>>> \in Claimants(p)
          BY <5>2, ValClaims
        <5>4. k = Len(s) - 1
          BY <2>1, <5>1, <5>3
        <5>5. Len(s) \in Nat
          BY <1>5
        <5> QED
          BY <5>1, <5>4, <5>5
      <4> QED
        BY <4>1
    <3> QED
      BY <3>1, <3>2
  <2>3. mem[w.ref] \in {"heap", "const"}
    <3>1. mem[w.ref] \in {"none", "heap", "frame", "const"}
      BY <1>5 DEF HeapTyped
    <3> QED
      BY <1>4, <1>5, <1>12, <3>1
  <2>4. /\ HeapStep
        /\ \A b \in Addr : hdr'[b] = hdr[b] + One(c /\ b = w.ref /\ mem[b] = "heap")
        /\ \A b \in Addr : Stock(b)' = Stock(b) - One(~c /\ b = w.ref /\ mem[b] = "heap")
    <3>1. PICK v : v = w.ref
      OBVIOUS
    <3>2. /\ v \in Addr /\ RetainIf(c, v) /\ mem' = mem /\ dropping' = dropping /\ payload' = payload
          /\ v # p /\ mem[v] \in {"heap", "const"} /\ (c /\ mem[v] = "heap" => hdr[v] > 0)
          /\ body[p][i] = Null /\ body' = [body EXCEPT ![p][i] = v]
      BY <1>2, <1>3, <1>4, <1>5, <1>12, <2>2, <2>3, <3>1
    <3>3. HeapStep /\ CountsStored(v, c)
      <4>1. /\ HeapGood /\ dropping = <<>> /\ p \in Addr /\ c \in BOOLEAN /\ mem[p] = "heap"
            /\ \A b \in Addr, j \in 1 .. Width : body[b][j] # p
        BY <1>1, <1>6, <1>7, <1>12, <2>1
      <4>2. c /\ mem[v] = "heap" => hdr[v] > 0
        BY <3>2
      <4>3. /\ HeapGood /\ dropping = <<>> /\ p \in Addr /\ v \in Addr /\ i \in 1 .. Width /\ c \in BOOLEAN
            /\ RetainIf(c, v) /\ mem' = mem /\ dropping' = dropping /\ payload' = payload
            /\ mem[p] = "heap" /\ v # p /\ mem[v] \in {"heap", "const"}
            /\ body[p][i] = Null /\ body' = [body EXCEPT ![p][i] = v]
        BY <3>2, <4>1
      <4>4. \A b \in Addr, j \in 1 .. Width : body[b][j] # p
        BY <4>1
      <4> QED
        BY <4>2, <4>3, <4>4, Stored
    <3> QED
      BY <3>1, <3>3 DEF CountsStored
  <2>5. BuiltAlone
    BY <1>11, <2>4
  <2>6. Dropped(<<>>) /\ <<>> \in Seq(Addr)
    BY <1>2, <1>4, <1>12, DropsNothing
  <2>7. Moves(F.vals, Pop(s), <<>>, Zero)
    <3>1. SUFFICES ASSUME NEW b \in Addr, mem'[b] = "heap"
                   PROVE  Stock(b)' + Cardinality(OwnVals(F.vals, b)) =
                            Stock(b) + Cardinality(OwnVals(Pop(s), b)) + Cardinality(Places(<<>>, b)) + Zero[b]
      BY DEF Moves
    <3>2. One(~c /\ b = w.ref /\ mem[b] = "heap") = One(~c /\ b = w.ref)
      BY <1>2, <3>1 DEF One
    <3>3. \A d : Cardinality(Places(<<>>, d)) = 0
      BY CountsEmpty
    <3>4. Zero[b] = 0
      BY ZeroAbandons
    <3>5. Stock(b)' = Stock(b) - One(~c /\ b = w.ref)
      BY <2>4, <3>2
    <3>6. Stock(b) \in Int
      BY <1>10
    <3> QED
      BY <1>1, <1>9, <3>3, <3>4, <3>5, <3>6
  <2> QED
    BY <1>2, <1>5, <2>4, <2>5, <2>6, <2>7, ZeroAbandons, SetValsStep
<1>13. CASE mem[p] # "heap"
  <2>1. Lose(<<w.ref>>) /\ body' = body
    BY <1>4, <1>13
  <2>2. /\ HeapStep
        /\ \A b \in Addr : hdr'[b] = hdr[b] + One(c /\ b = w.ref /\ mem[b] = "heap")
        /\ \A b \in Addr : Stock(b)' = Stock(b) + One(c /\ b = w.ref /\ mem[b] = "heap")
    BY <1>1, <1>2, <1>3, <1>5, <1>6, <1>8, <2>1, Retained
  <2>3. BuiltAlone
    BY <1>11, <2>2
  <2>4. <<w.ref>> \in Seq(Addr) /\ \A a : Cardinality(Places(<<w.ref>>, a)) = One(w.ref = a)
    BY <1>5, PlacesOne
  <2>5. Dropped(<<w.ref>>)
    <3>1. \A k \in DOMAIN <<w.ref>> : mem[<<w.ref>>[k]] # "none"
      BY <1>5
    <3> QED
      BY <1>2, <2>1, <2>4, <3>1, LoseDrops
  <2>6. Moves(F.vals, Pop(s), <<w.ref>>, Zero)
    <3>1. SUFFICES ASSUME NEW b \in Addr, mem'[b] = "heap"
                   PROVE  Stock(b)' + Cardinality(OwnVals(F.vals, b)) =
                            Stock(b) + Cardinality(OwnVals(Pop(s), b)) + Cardinality(Places(<<w.ref>>, b)) + Zero[b]
      BY DEF Moves
    <3>2. One(c /\ b = w.ref /\ mem[b] = "heap") = One(c /\ b = w.ref)
      BY <1>2, <3>1 DEF One
    <3>3. Cardinality(Places(<<w.ref>>, b)) = One(b = w.ref)
      BY <2>4 DEF One
    <3>4. Zero[b] = 0
      BY ZeroAbandons
    <3>5. Stock(b)' = Stock(b) + One(c /\ b = w.ref)
      BY <2>2, <3>2
    <3>6. Stock(b) \in Int
      BY <1>10
    <3>7. PICK x, y, v, q, g, e :
             /\ x = Stock(b) /\ y = Stock(b)' /\ v = Cardinality(OwnVals(F.vals, b))
             /\ q = Cardinality(OwnVals(Pop(s), b)) /\ g = One(~c /\ b = w.ref) /\ e = One(c /\ b = w.ref)
      OBVIOUS
    <3>8. /\ v = q + g /\ q \in Nat /\ g \in {0, 1} /\ e \in {0, 1} /\ y = x + e /\ x \in Int
          /\ Cardinality(Places(<<w.ref>>, b)) = e + g
      <4>1. /\ Cardinality(OwnVals(F.vals, b)) = Cardinality(OwnVals(Pop(s), b)) + One(~c /\ b = w.ref)
            /\ Cardinality(OwnVals(Pop(s), b)) \in Nat /\ One(~c /\ b = w.ref) \in {0, 1}
            /\ One(c /\ b = w.ref) \in {0, 1}
            /\ One(c /\ b = w.ref) + One(~c /\ b = w.ref) = Cardinality(Places(<<w.ref>>, b))
        BY <1>1, <1>9, <3>3
      <4>2. y = x + e /\ x \in Int
        BY <3>5, <3>6, <3>7
      <4> QED
        BY <3>7, <4>1, <4>2
    <3>9. y + v = x + q + (e + g) + 0
      BY <3>8
    <3> QED
      BY <3>4, <3>7, <3>8, <3>9
  <2> QED
    BY <1>2, <1>5, <2>2, <2>3, <2>4, <2>5, <2>6, ZeroAbandons, SetValsStep
<1> QED
  BY <1>12, <1>13

\* The operands go but for `rest`, and the references among them are given up.
Reads(rest, refs) ==
  \A b \in Addr :
    Cardinality(OwnVals(F.vals, b)) = Cardinality(OwnVals(rest, b)) + Cardinality(Places(refs, b))

\* A builtin that reads operands and builds an answer keeps the invariant.
LEMMA ReadStep ==
  ASSUME Core, lifted' = lifted, Evaluating, NEW a \in Addr, Scratch(a),
         NEW rest \in Seq(OperandType), Among(rest, F.vals),
         Built(a, Append(rest, Operand(a, "own"))),
         NEW refs \in Seq(Addr), Dropped(refs), Reads(rest, refs)
  PROVE  Core'
<1>1. PICK v : v = Operand(a, "own")
  OBVIOUS
<1>2. v \in OperandType /\ v.ref = a /\ v.st = "own"
  BY <1>1 DEF Operand, OperandType
<1>3. Builds(v, rest, refs, Zero)
  <2>1. SUFFICES ASSUME NEW b \in Addr
                 PROVE  Cardinality(OwnVals(F.vals, b)) + One(b = v.ref) =
                          Cardinality(OwnVals(rest, b)) + Gives(v, b) + Cardinality(Places(refs, b)) + Zero[b]
    BY DEF Builds
  <2>2. /\ One(b = v.ref) = (IF b = v.ref THEN 1 ELSE 0)
        /\ Gives(v, b) = (IF b = v.ref THEN 1 ELSE 0)
    BY <1>2 DEF Gives, One
  <2>3. /\ Cardinality(OwnVals(F.vals, b)) = Cardinality(OwnVals(rest, b)) + Cardinality(Places(refs, b))
        /\ Zero[b] = 0
    BY ZeroAbandons DEF Reads
  <2>4. Cardinality(OwnVals(rest, b)) \in Nat /\ Cardinality(Places(refs, b)) \in Nat
    BY CountsFinite
  <2> QED
    BY <2>2, <2>3, <2>4
<1>4. v.st = "borrow" => F.transient \/ Zero[v.ref] > 0
  BY <1>2
<1>5. Scratch(v.ref) /\ Built(v.ref, Append(rest, v))
  BY <1>1, <1>2
<1> QED
  BY <1>2, <1>3, <1>4, <1>5, ZeroAbandons, BuiltStep

\* The operand under the one on top, complete as well.
LEMMA OuterVal ==
  ASSUME Core, Running, Done, Len(F.vals) >= 2, Outer.st # "building", NEW v, v = Top(F.vals),
         NEW x, x = Outer
  PROVE  /\ x \in OperandType /\ x.ref \in Addr /\ mem[x.ref] # "none"
         /\ Given(x) \in Seq(Addr) /\ \A k \in DOMAIN Given(x) : mem[Given(x)[k]] # "none"
         /\ \A a : Cardinality(Places(Given(x), a)) = Gives(x, a)
         /\ Under1 \in Seq(OperandType) /\ Among(Under1, F.vals)
         /\ \A a : /\ Cardinality(OwnVals(F.vals, a)) = Cardinality(OwnVals(Under1, a)) + Gives(x, a) + Gives(v, a)
                   /\ Cardinality(OwnVals(Under1, a)) \in Nat
<1>1. PICK s : s = F.vals
  OBVIOUS
<1>2. /\ s \in Seq(OperandType) /\ s # <<>> /\ Len(frames) \in DOMAIN frames /\ F = frames[Len(frames)]
      /\ Len(s) >= 2 /\ v = Top(s)
  BY <1>1, Going DEF Done
<1>3. /\ Pop(s) \in Seq(OperandType) /\ Pop(s) # <<>> /\ Top(Pop(s)) = s[Len(s) - 1]
      /\ Pop(Pop(s)) \in Seq(OperandType) /\ Among(Pop(Pop(s)), s)
  BY <1>2, AmongFacts, PopFacts
<1>4. x = Top(Pop(s)) /\ x = s[Len(s) - 1] /\ Len(s) - 1 \in DOMAIN s
  <2>1. DOMAIN s = 1 .. Len(s) /\ Len(s) \in Nat
    BY <1>2
  <2> QED
    BY <1>1, <1>2, <1>3, <2>1 DEF Outer
<1>5. x \in OperandType /\ x.ref \in Addr
  <2>1. Top(Pop(s)) \in OperandType
    BY <1>3, PopFacts
  <2> QED
    BY <1>4, <2>1 DEF OperandType
<1>6. mem[x.ref] # "none"
  <2>1. PICK n, k : n = Len(frames) /\ k = Len(s) - 1
    OBVIOUS
  <2>2. n \in DOMAIN frames /\ k \in DOMAIN frames[n].vals /\ frames[n].vals[k] = x
    BY <1>1, <1>2, <1>4, <2>1
  <2>3. mem[frames[n].vals[k].ref] # "none"
    BY <2>2, RefsLive
  <2> QED
    BY <2>2, <2>3
<1>7. /\ Given(x) \in Seq(Addr) /\ \A a : Cardinality(Places(Given(x), a)) = Gives(x, a)
      /\ \A k \in DOMAIN Given(x) : Given(x)[k] = x.ref
  BY <1>5, GivenIs
<1>8. Under1 = Pop(Pop(s))
  BY <1>1 DEF Under1
<1>9. ASSUME NEW a
      PROVE  /\ Cardinality(OwnVals(s, a)) = Cardinality(OwnVals(Pop(Pop(s)), a)) + Gives(x, a) + Gives(v, a)
             /\ Cardinality(OwnVals(Pop(Pop(s)), a)) \in Nat
  <2>1. Cardinality(OwnVals(s, a)) = Cardinality(OwnVals(Pop(s), a)) + Gives(v, a)
    BY <1>2, ValsPop
  <2>2. /\ Cardinality(OwnVals(Pop(s), a)) = Cardinality(OwnVals(Pop(Pop(s)), a)) + Gives(x, a)
        /\ Cardinality(OwnVals(Pop(Pop(s)), a)) \in Nat
    BY <1>3, <1>4, ValsPop
  <2> QED
    BY <2>1, <2>2
<1> QED
  BY <1>1, <1>3, <1>5, <1>6, <1>7, <1>8, <1>9

\* array_set keeps the invariant inside a consumed expression, where its copy
\* owns nothing.
LEMMA ArraySetStep ==
  ASSUME Core, lifted \subseteq Leaks, lifted' = lifted, NEW i \in 1 .. Width, NEW a \in Addr, ArraySet(i, a)
  PROVE  Core'
<1>1. PICK w, x : w = Top(F.vals) /\ x = Outer
  OBVIOUS
<1>2. F.transient
  BY DEF ArraySet, Lift, Leaks
<1>3. /\ Evaluating /\ Running /\ Done /\ Len(F.vals) >= 2 /\ x.st # "building"
      /\ Built(a, Append(Under1, Operand(a, "own"))) /\ due' = due
  BY <1>1 DEF ArraySet, Evaluating
<1>4. Lose(Given(x) \o Given(w))
  BY <1>1, <1>2 DEF ArraySet
<1>5. Scratch(a)
  BY <1>2 DEF ArraySet, Scratch
<1>6. /\ Given(w) \in Seq(Addr) /\ \A k \in DOMAIN Given(w) : mem[Given(w)[k]] # "none"
      /\ \A b : Cardinality(Places(Given(w), b)) = Gives(w, b)
  BY <1>1, <1>3, TopVal
<1>7. /\ Given(x) \in Seq(Addr) /\ \A k \in DOMAIN Given(x) : mem[Given(x)[k]] # "none"
      /\ \A b : Cardinality(Places(Given(x), b)) = Gives(x, b)
      /\ Under1 \in Seq(OperandType) /\ Among(Under1, F.vals)
      /\ \A b : /\ Cardinality(OwnVals(F.vals, b)) = Cardinality(OwnVals(Under1, b)) + Gives(x, b) + Gives(w, b)
                /\ Cardinality(OwnVals(Under1, b)) \in Nat
  BY <1>1, <1>3, OuterVal
<1>8. PICK refs : refs = Given(x) \o Given(w)
  OBVIOUS
<1>9. refs \in Seq(Addr) /\ \A k \in DOMAIN refs : mem[refs[k]] # "none"
  <2>1. PICK s, t : s = Given(x) /\ t = Given(w)
    OBVIOUS
  <2>2. PICK S : S = {r \in Addr : mem[r] # "none"}
    OBVIOUS
  <2>3. s \in Seq(S) /\ t \in Seq(S)
    <3>1. /\ s \in Seq(Addr) /\ t \in Seq(Addr) /\ \A k \in DOMAIN s : mem[s[k]] # "none"
          /\ \A k \in DOMAIN t : mem[t[k]] # "none"
      BY <1>6, <1>7, <2>1
    <3>2. (\A k \in DOMAIN s : s[k] \in S) /\ (\A k \in DOMAIN t : t[k] \in S)
      BY <2>2, <3>1
    <3> QED
      BY <3>1, <3>2
  <2>4. s \o t \in Seq(S)
    BY <2>3
  <2> QED
    BY <1>8, <2>1, <2>2, <2>4
<1>10. Dropped(refs)
  BY <1>3, <1>4, <1>8, <1>9, LoseDrops
<1>11. Reads(Under1, refs)
  <2>1. SUFFICES ASSUME NEW b \in Addr
                 PROVE  Cardinality(OwnVals(F.vals, b)) = Cardinality(OwnVals(Under1, b)) + Cardinality(Places(refs, b))
    BY DEF Reads
  <2>2. Cardinality(Places(refs, b)) = Cardinality(Places(Given(x), b)) + Cardinality(Places(Given(w), b))
    BY <1>6, <1>7, <1>8, PlacesConcat
  <2>3. Gives(x, b) \in {0, 1} /\ Gives(w, b) \in {0, 1}
    BY GivesIs
  <2>4. /\ Cardinality(Places(Given(x), b)) = Gives(x, b) /\ Cardinality(Places(Given(w), b)) = Gives(w, b)
        /\ Cardinality(OwnVals(F.vals, b)) = Cardinality(OwnVals(Under1, b)) + Gives(x, b) + Gives(w, b)
        /\ Cardinality(OwnVals(Under1, b)) \in Nat
    BY <1>6, <1>7
  <2> QED
    BY <2>2, <2>3, <2>4
<1> QED
  BY <1>3, <1>5, <1>7, <1>9, <1>10, <1>11, ReadStep

\* What a builtin was handed, in order.
LEMMA FlatOne ==
  ASSUME NEW S, NEW s \in Seq(S), NEW a
  PROVE  /\ FlattenSeq(<<s>>) \in Seq(S)
         /\ Cardinality(Places(FlattenSeq(<<s>>), a)) = Cardinality(Places(s, a))
<1>1. PICK g, P, Q : /\ g = <<s>> /\ P = [k \in DOMAIN g |-> Places(g[k], a)] /\ Q = <<>>
  OBVIOUS
<1>2. g \in Seq(Seq(S)) /\ DOMAIN g = 1 .. 1 /\ g[1] = s
  BY <1>1
<1>3. FlattenSeq(g) \in Seq(S) /\ Cardinality(Places(FlattenSeq(g), a)) = Cardinality(Tagged(P))
  BY <1>1, <1>2, FlattenIs
<1>4. DOMAIN P = 1 .. 0 + 1 /\ P[0 + 1] = Places(s, a)
  BY <1>1, <1>2
<1>5. DOMAIN Q = 1 .. 0 /\ IsFiniteSet(Tagged(Q)) /\ Cardinality(Tagged(Q)) = 0
  <2>1. DOMAIN Q = {} /\ DOMAIN Q = 1 .. 0
    BY <1>1
  <2> QED
    BY <2>1, TaggedEmpty
<1>6. IsFiniteSet(Places(s, a)) /\ Cardinality(Places(s, a)) \in Nat
  BY CountsFinite
<1>7. Cardinality(Tagged(P)) = Cardinality(Tagged(Q)) + Cardinality(Places(s, a))
  <2>1. PICK n \in Nat : n = 0
    OBVIOUS
  <2>2. DOMAIN P = 1 .. n + 1 /\ P[n + 1] = Places(s, a) /\ DOMAIN Q = 1 .. n /\ \A k \in 1 .. n : P[k] = Q[k]
    BY <1>4, <1>5, <2>1
  <2> QED
    BY <1>5, <1>6, <2>2, TaggedAppend
<1> QED
  BY <1>1, <1>3, <1>5, <1>6, <1>7

\* Two lists, flattened.
LEMMA FlatTwo ==
  ASSUME NEW S, NEW s \in Seq(S), NEW t \in Seq(S), NEW a
  PROVE  /\ FlattenSeq(<<s, t>>) \in Seq(S)
         /\ Cardinality(Places(FlattenSeq(<<s, t>>), a)) = Cardinality(Places(s, a)) + Cardinality(Places(t, a))
<1>1. PICK g, P, Q, O : /\ g = <<s, t>> /\ P = [k \in DOMAIN g |-> Places(g[k], a)]
                        /\ Q = [k \in 1 .. 1 |-> Places(s, a)] /\ O = <<>>
  OBVIOUS
<1>2. g \in Seq(Seq(S)) /\ DOMAIN g = 1 .. 2 /\ g[1] = s /\ g[2] = t
  BY <1>1
<1>3. FlattenSeq(g) \in Seq(S) /\ Cardinality(Places(FlattenSeq(g), a)) = Cardinality(Tagged(P))
  BY <1>1, <1>2, FlattenIs
<1>4. /\ DOMAIN P = 1 .. 1 + 1 /\ P[1 + 1] = Places(t, a) /\ P[1] = Places(s, a)
      /\ DOMAIN Q = 1 .. 0 + 1 /\ Q[0 + 1] = Places(s, a) /\ DOMAIN Q = 1 .. 1
      /\ \A k \in 1 .. 1 : P[k] = Q[k]
  BY <1>1, <1>2
<1>5. DOMAIN O = 1 .. 0 /\ IsFiniteSet(Tagged(O)) /\ Cardinality(Tagged(O)) = 0
  <2>1. DOMAIN O = {} /\ DOMAIN O = 1 .. 0
    BY <1>1
  <2> QED
    BY <2>1, TaggedEmpty
<1>6. /\ IsFiniteSet(Places(s, a)) /\ Cardinality(Places(s, a)) \in Nat
      /\ IsFiniteSet(Places(t, a)) /\ Cardinality(Places(t, a)) \in Nat
  BY CountsFinite
<1>7. IsFiniteSet(Tagged(Q)) /\ Cardinality(Tagged(Q)) = Cardinality(Tagged(O)) + Cardinality(Places(s, a))
  <2>1. PICK n \in Nat : n = 0
    OBVIOUS
  <2>2. DOMAIN Q = 1 .. n + 1 /\ Q[n + 1] = Places(s, a) /\ DOMAIN O = 1 .. n /\ \A k \in 1 .. n : Q[k] = O[k]
    BY <1>4, <1>5, <2>1
  <2> QED
    BY <1>5, <1>6, <2>2, TaggedAppend, SMTT(30)
<1>8. Cardinality(Tagged(P)) = Cardinality(Tagged(Q)) + Cardinality(Places(t, a))
  <2>1. PICK n \in Nat : n = 1
    OBVIOUS
  <2>2. DOMAIN P = 1 .. n + 1 /\ P[n + 1] = Places(t, a) /\ DOMAIN Q = 1 .. n /\ \A k \in 1 .. n : P[k] = Q[k]
    BY <1>4, <2>1
  <2> QED
    BY <1>6, <1>7, <2>2, TaggedAppend
<1> QED
  BY <1>1, <1>3, <1>5, <1>6, <1>7, <1>8

\* A builtin that answers with something new keeps the invariant (gen_expr
\* Call).
LEMMA BuiltinStep ==
  ASSUME Core, lifted' = lifted, NEW k \in {1, 2}, NEW a \in Addr, NEW frees \in BOOLEAN, Builtin(k, a, frees)
  PROVE  Core'
<1>1. PICK s, w, x, rest, used, refs :
         /\ s = F.vals /\ w = Top(F.vals) /\ x = Outer
         /\ rest = SubSeq(s, 1, Len(s) - k) /\ used = SubSeq(s, Len(s) - k + 1, Len(s))
         /\ refs = FlattenSeq([j \in 1 .. k |-> Given(used[j])])
  OBVIOUS
<1>2. /\ Evaluating /\ Running /\ Done /\ Len(s) >= k /\ (k = 2 => x.st # "building")
      /\ Scratch(a) /\ Built(a, Append(rest, Operand(a, "own"))) /\ Spend(refs, frees)
  BY <1>1 DEF Builtin, Evaluating
<1>3. /\ s \in Seq(OperandType) /\ s # <<>> /\ Pop(s) \in Seq(OperandType) /\ Among(Pop(s), F.vals)
      /\ Given(w) \in Seq(Addr) /\ \A j \in DOMAIN Given(w) : mem[Given(w)[j]] # "none"
      /\ \A b : Cardinality(Places(Given(w), b)) = Gives(w, b)
  BY <1>1, <1>2, TopVal
<1>4. due = <<>>
  BY <1>2, Going
<1>5. Len(s) \in Nat /\ DOMAIN s = 1 .. Len(s) /\ w = s[Len(s)] /\ x = s[Len(s) - 1]
  BY <1>1, <1>3 DEF Top, Outer
<1>6. PICK S : S = {r \in Addr : mem[r] # "none"}
  OBVIOUS
<1>7. Given(w) \in Seq(S)
  <2>1. PICK t : t = Given(w)
    OBVIOUS
  <2>2. t \in Seq(Addr) /\ \A j \in DOMAIN t : mem[t[j]] # "none"
    BY <1>3, <2>1
  <2>3. \A j \in DOMAIN t : t[j] \in S
    BY <1>6, <2>2
  <2> QED
    BY <2>1, <2>2, <2>3
<1>8. rest \in Seq(OperandType) /\ Among(rest, F.vals) /\ Reads(rest, refs) /\ refs \in Seq(S)
  <2>1. CASE k = 1
    <3>1. rest = Pop(s)
      BY <1>1, <2>1 DEF Pop
    <3>2. [j \in 1 .. k |-> Given(used[j])] = <<Given(w)>>
      <4>1. used[1] = w
        BY <1>1, <1>3, <1>5, <2>1
      <4> QED
        BY <2>1, <4>1
    <3>3. refs \in Seq(S) /\ \A b : Cardinality(Places(refs, b)) = Cardinality(Places(Given(w), b))
      BY <1>1, <1>7, <3>2, FlatOne
    <3>4. Reads(rest, refs)
      <4>1. SUFFICES ASSUME NEW b \in Addr
                     PROVE  Cardinality(OwnVals(s, b)) = Cardinality(OwnVals(rest, b)) + Cardinality(Places(refs, b))
        BY <1>1 DEF Reads
      <4>2. Cardinality(OwnVals(s, b)) = Cardinality(OwnVals(Pop(s), b)) + Gives(w, b)
        BY <1>1, <1>3, ValsPop
      <4> QED
        BY <1>3, <3>1, <3>3, <4>2
    <3> QED
      BY <1>3, <3>1, <3>3, <3>4
  <2>2. CASE k = 2
    <3>1. /\ Given(x) \in Seq(Addr) /\ \A j \in DOMAIN Given(x) : mem[Given(x)[j]] # "none"
          /\ \A b : Cardinality(Places(Given(x), b)) = Gives(x, b)
          /\ Under1 \in Seq(OperandType) /\ Among(Under1, F.vals)
          /\ \A b : /\ Cardinality(OwnVals(F.vals, b)) = Cardinality(OwnVals(Under1, b)) + Gives(x, b) + Gives(w, b)
                    /\ Cardinality(OwnVals(Under1, b)) \in Nat
      BY <1>1, <1>2, <2>2, OuterVal
    <3>2. Given(x) \in Seq(S)
      <4>1. PICK t : t = Given(x)
        OBVIOUS
      <4>2. t \in Seq(Addr) /\ \A j \in DOMAIN t : mem[t[j]] # "none"
        BY <3>1, <4>1
      <4>3. \A j \in DOMAIN t : t[j] \in S
        BY <1>6, <4>2
      <4> QED
        BY <4>1, <4>2, <4>3
    <3>3. rest = Under1
      <4>1. Len(Pop(s)) = Len(s) - 1 /\ Len(s) - 1 \in Nat /\ Pop(s) \in Seq(OperandType)
        <5>1. Len(Pop(s)) = Len(s) - 1
          BY <1>3, PopFacts
        <5> QED
          BY <1>2, <1>3, <1>5, <2>2, <5>1
      <4>2. \A j \in 1 .. Len(s) - 1 : Pop(s)[j] = s[j]
        BY <1>3, PopFacts
      <4>3. Len(s) - 2 \in 0 .. Len(s) /\ Len(s) - 2 \in 0 .. Len(Pop(s))
        BY <1>2, <1>5, <2>2, <4>1
      <4>4. /\ rest \in Seq(OperandType) /\ Len(rest) = Len(s) - 2
            /\ \A j \in 1 .. Len(s) - 2 : rest[j] = s[j]
        BY <1>1, <1>3, <2>2, <4>3, PrefixFacts
      <4>5. Under1 = SubSeq(Pop(s), 1, Len(s) - 2)
        BY <1>1, <1>5, <4>1 DEF Under1, Pop
      <4>6. /\ Len(Under1) = Len(s) - 2
            /\ \A j \in 1 .. Len(s) - 2 : Under1[j] = Pop(s)[j]
        BY <1>3, <4>3, <4>5, PrefixFacts
      <4>7. \A j \in 1 .. Len(rest) : rest[j] = Under1[j]
        <5>1. \A j \in 1 .. Len(s) - 2 : j \in 1 .. Len(s) - 1
          BY <1>5
        <5> QED
          BY <4>2, <4>4, <4>6, <5>1
      <4> QED
        BY <3>1, <4>4, <4>6, <4>7, SeqEqual
    <3>4. [j \in 1 .. k |-> Given(used[j])] = <<Given(x), Given(w)>>
      <4>1. used[1] = x /\ used[2] = w
        BY <1>1, <1>2, <1>3, <1>5, <2>2
      <4> QED
        BY <2>2, <4>1
    <3>5. /\ refs \in Seq(S)
          /\ \A b : Cardinality(Places(refs, b)) = Cardinality(Places(Given(x), b)) + Cardinality(Places(Given(w), b))
      <4>1. PICK s1, s2 : s1 = Given(x) /\ s2 = Given(w)
        OBVIOUS
      <4>2. s1 \in Seq(S) /\ s2 \in Seq(S)
        BY <1>7, <3>2, <4>1
      <4>3. /\ FlattenSeq(<<s1, s2>>) \in Seq(S)
            /\ \A b : Cardinality(Places(FlattenSeq(<<s1, s2>>), b)) = Cardinality(Places(s1, b)) + Cardinality(Places(s2, b))
        BY <4>2, FlatTwo
      <4>4. refs = FlattenSeq(<<s1, s2>>)
        BY <1>1, <3>4, <4>1
      <4> QED
        BY <4>1, <4>3, <4>4
    <3>6. Reads(rest, refs)
      <4>1. SUFFICES ASSUME NEW b \in Addr
                     PROVE  Cardinality(OwnVals(F.vals, b)) = Cardinality(OwnVals(rest, b)) + Cardinality(Places(refs, b))
        BY DEF Reads
      <4>2. Gives(x, b) \in {0, 1} /\ Gives(w, b) \in {0, 1}
        BY GivesIs
      <4>3. /\ Cardinality(OwnVals(F.vals, b)) = Cardinality(OwnVals(rest, b)) + Gives(x, b) + Gives(w, b)
            /\ Cardinality(OwnVals(rest, b)) \in Nat
        BY <3>1, <3>3
      <4>4. Cardinality(Places(refs, b)) = Gives(x, b) + Gives(w, b)
        BY <1>3, <3>1, <3>5
      <4> QED
        BY <4>2, <4>3, <4>4
    <3> QED
      BY <3>1, <3>3, <3>5, <3>6
  <2> QED
    BY <2>1, <2>2
<1>9. refs \in Seq(Addr) /\ \A j \in DOMAIN refs : mem[refs[j]] # "none"
  BY <1>6, <1>8
<1>10. Dropped(refs)
  BY <1>2, <1>4, <1>9, SpendDrops
<1> QED
  BY <1>2, <1>8, <1>9, <1>10, ReadStep

\* From here on the frame builds on itself.
LEMMA BeginPrintStep ==
  ASSUME Core, lifted' = lifted, BeginPrint
  PROVE  Core'
<1>1. /\ Evaluating /\ Running /\ ~F.transient /\ UNCHANGED <<heapVars, payload>> /\ UNCHANGED <<due, lost>>
      /\ SetFrame([F EXCEPT !.transient = TRUE])
  BY DEF BeginPrint, Fresh, Statement, Evaluating
<1>2. HeapGood /\ F \in FrameType /\ Shape(F)
  BY <1>1, Going
<1>3. PICK N, f, G : N = Len(frames) /\ f = F /\ G = [f EXCEPT !.transient = TRUE]
  OBVIOUS
<1>4. frames' = Append(Under, G)
  BY <1>1, <1>3 DEF SetFrame
<1>5. /\ G \in FrameType /\ G.blocks = f.blocks /\ G.loops = f.loops /\ G.spent = f.spent /\ G.unit = f.unit
      /\ G.vals = f.vals /\ G.scratch = f.scratch /\ G.transient
  BY <1>2, <1>3 DEF FrameType
<1>6. HeapStep /\ \A a \in Addr : Stock(a)' = Stock(a) /\ hdr'[a] = hdr[a]
  BY <1>1, <1>2, HeapUntouched
<1>7. Dropped(<<>>) /\ <<>> \in Seq(Addr)
  BY <1>1, DropsNothing
<1>8. BuiltAlone
  BY <1>6, BuildersKept
<1>9. Moves(f.vals, G.vals, <<>>, Zero)
  <2>1. SUFFICES ASSUME NEW a \in Addr
                 PROVE  Stock(a)' + Cardinality(OwnVals(f.vals, a)) =
                          Stock(a) + Cardinality(OwnVals(f.vals, a)) + Cardinality(Places(<<>>, a)) + Zero[a]
    BY <1>5 DEF Moves
  <2>2. Cardinality(OwnVals(f.vals, a)) \in Nat
    BY <1>2, <1>3, CountsFinite, FrameParts
  <2>3. \A b : Cardinality(Places(<<>>, b)) = 0
    BY CountsEmpty
  <2>4. Zero[a] = 0
    BY ZeroAbandons
  <2>5. Stock(a) \in Int
    <3>1. hdr[a] \in Int
      BY <1>2 DEF HeapGood, HeapTyped
    <3> QED
      BY <3>1, WordsFinite DEF Stock
  <2>6. Stock(a)' = Stock(a)
    BY <1>6
  <2> QED
    BY <2>2, <2>3, <2>4, <2>5, <2>6
<1>10. Stays(N, Len(f.blocks), f.vals, G.vals, Zero)
  BY <1>5 DEF Stays
<1>11. (~G.transient => G.scratch = {}) /\ \A a \in G.scratch : a \in f.scratch \/ (mem[a] = "none" /\ mem'[a] = "frame")
  BY <1>5
<1> QED
  <2>1. ~G.transient => G.scratch = {}
    BY <1>11
  <2>2. \A a \in G.scratch : a \in f.scratch \/ (mem[a] = "none" /\ mem'[a] = "frame")
    BY <1>11
  <2>3. Evaluating /\ HeapStep /\ N = Len(frames) /\ f = F /\ frames' = Append(Under, G)
    BY <1>1, <1>3, <1>4, <1>6
  <2>4. /\ G \in FrameType /\ G.blocks = f.blocks /\ G.loops = f.loops /\ G.spent = f.spent /\ G.unit = f.unit
        /\ Abandons(Zero)
    BY <1>5, ZeroAbandons
  <2> QED
    BY <1>7, <1>8, <1>9, <1>10, <2>1, <2>2, <2>3, <2>4, ValsStep

\* The counts hold after a step that takes as much out of the headers as out of
\* the claims and the words.
Balanced ==
  \A a \in Addr : mem'[a] = "heap" =>
    /\ mem[a] = "heap"
    /\ hdr'[a] + Claims(a) + Cardinality(Heap!Words(a)) = hdr[a] + Claims(a)' + Cardinality(Heap!Words(a)')

\* A step that changes a count by what it changes the claims and the words
\* keeps the counts.
LEMMA Books ==
  ASSUME Core, Typed', lifted' = lifted, Balanced
  PROVE  /\ Counts'
         /\ \A a \in Addr : mem'[a] = "heap" /\ Surplus(a) => Surplus(a)'
<1>1. ASSUME NEW a \in Addr, mem'[a] = "heap"
      PROVE  Excess(a)' = Excess(a)
  <2>1. Claims(a) \in Nat
    BY ClaimsAre DEF Core
  <2>2. Claims(a)' \in Nat
    <3>1. /\ Claims(a)' = Total(frames', a) + Cardinality(Places(due', a)) + lost'[a]
          /\ Total(frames', a) \in Nat /\ Cardinality(Places(due', a)) \in Nat /\ lost'[a] \in Nat
      BY ClaimsSumNext
    <3> QED
      BY <3>1
  <2>3. Cardinality(Heap!Words(a)) \in Nat
    BY WordsFinite
  <2>4. Cardinality(Heap!Words(a)') \in Nat
    BY WordsFiniteNext
  <2>5. hdr[a] \in Int /\ hdr'[a] \in Int
    BY DEF Core, Typed, HeapTyped
  <2>6. PICK x, y, c, d, v, w : /\ x = hdr[a] /\ y = hdr'[a] /\ c = Claims(a) /\ d = Claims(a)'
                                /\ v = Cardinality(Heap!Words(a)) /\ w = Cardinality(Heap!Words(a)')
    OBVIOUS
  <2>7. Excess(a) = x - c - v /\ Excess(a)' = y - d - w
    BY <2>6 DEF Excess
  <2>8. y + c + v = x + d + w
    BY <1>1, <2>6 DEF Balanced
  <2>9. x \in Int /\ y \in Int /\ c \in Nat /\ d \in Nat /\ v \in Nat /\ w \in Nat
    BY <2>1, <2>2, <2>3, <2>4, <2>5, <2>6
  <2>10. y - d - w = x - c - v
    BY <2>8, <2>9
  <2> QED
    BY <2>7, <2>10
<1>2. \A a \in Addr : mem'[a] = "heap" => Excess(a) >= 0 /\ (lifted = {} => Excess(a) = 0)
  BY DEF Core, Counts, Balanced
<1>3. Counts'
  BY <1>1, <1>2 DEF Counts
<1>4. \A a \in Addr : mem'[a] = "heap" /\ Surplus(a) => Surplus(a)'
  BY <1>1 DEF Surplus
<1> QED
  BY <1>3, <1>4

\* A list of one operand: its top, and nothing under it.
LEMMA OneBlock ==
  ASSUME NEW s \in Seq(OperandType), Len(s) = 1
  PROVE  s # <<>> /\ Pop(s) = <<>>
<1>1. s # <<>>
  <2>1. Len(<<>>) = 0
    OBVIOUS
  <2> QED
    BY <2>1
<1>2. Pop(s) \in Seq(OperandType) /\ Len(Pop(s)) = 0
  BY <1>1, PopFacts
<1> QED
  BY <1>1, <1>2

\* The text is written and the frame is unwound: no reference is left to what
\* was built on it.
LEMMA EndPrintStep ==
  ASSUME Core, lifted' = lifted, EndPrint
  PROVE  Core'
<1>1. PICK N, f, w, G : /\ N = Len(frames) /\ f = F /\ w = Top(f.vals)
                        /\ G = [f EXCEPT !.transient = FALSE, !.scratch = {}, !.vals = <<>>]
  OBVIOUS
<1>2. /\ Evaluating /\ Running /\ Done /\ Len(f.vals) = 1 /\ Lose(Given(w))
      /\ mem' = [a \in Addr |-> IF a \in f.scratch THEN "none" ELSE mem[a]]
      /\ frames' = Append(Under, G)
      /\ hdr' = hdr /\ body' = body /\ dropping' = dropping /\ payload' = payload /\ due' = due
  BY <1>1 DEF EndPrint, SetFrame, Evaluating
<1>3. /\ frames \in Seq(FrameType) /\ frames # <<>> /\ f \in FrameType /\ FrameOK(N) /\ HeapGood /\ Typed /\ Placed
      /\ f.spent = <<>> /\ Shape(f) /\ LoopShape(f) /\ Lives(f) /\ N \in DOMAIN frames /\ f = frames[N]
      /\ N \in Nat \ {0} /\ f.vals \in Seq(OperandType) /\ f.blocks \in Seq(BlockType) /\ f.loops \in Seq(LoopType)
      /\ HeapTyped
  BY <1>1, <1>2, Going DEF Typed
<1>4. /\ G \in FrameType /\ G.vals = <<>> /\ G.blocks = f.blocks /\ G.loops = f.loops /\ G.spent = <<>>
      /\ G.unit = f.unit /\ G.transient = FALSE /\ G.scratch = {}
  <2>1. <<>> \in Seq(OperandType) /\ {} \in SUBSET Addr /\ FALSE \in BOOLEAN
    OBVIOUS
  <2>2. PICK e, t, z : e = <<>> /\ t = FALSE /\ z = {}
    OBVIOUS
  <2>3. G = [f EXCEPT !.transient = t, !.scratch = z, !.vals = e]
    BY <1>1, <2>2
  <2>4. e \in Seq(OperandType) /\ z \in SUBSET Addr /\ t \in BOOLEAN
    BY <2>1, <2>2
  <2>5. /\ G \in FrameType /\ G.vals = e /\ G.blocks = f.blocks /\ G.loops = f.loops /\ G.spent = f.spent
        /\ G.unit = f.unit /\ G.transient = t /\ G.scratch = z
    BY <1>3, <2>3, <2>4 DEF FrameType
  <2> QED
    BY <1>3, <2>2, <2>5
<1>5. /\ N \in DOMAIN frames' /\ frames' \in Seq(FrameType) /\ Len(frames') = N /\ DOMAIN frames' = 1 .. N
      /\ frames'[N] = G
      /\ \A g \in 1 .. N - 1 : g \in DOMAIN frames /\ g \in DOMAIN frames' /\ frames'[g] = frames[g]
      /\ \A a : Total(frames, a) = Total(Under, a) + Weight(f, a)
      /\ \A a : Total(frames', a) = Total(Under, a) + Weight(G, a)
      /\ \A a : Total(Under, a) \in Nat /\ Weight(f, a) \in Nat /\ Weight(G, a) \in Nat
  <2>1. /\ frames \in Seq(FrameType) /\ frames # <<>> /\ N = Len(frames) /\ f = F
        /\ G \in FrameType /\ frames' = Append(Under, G)
    BY <1>1, <1>2, <1>3, <1>4
  <2> QED
    BY <2>1, TopOnly
<1>6. /\ Given(w) \in Seq(Addr) /\ Dropped(Given(w))
      /\ \A a : Cardinality(Places(Given(w), a)) = Gives(w, a)
  <2>1. w = Top(F.vals)
    BY <1>1
  <2> QED
    BY <1>2, <2>1, TopVal, LosesOwn
<1>7. /\ \A a \in f.scratch : /\ mem[a] = "frame" /\ ~NameAt(f, a)
                              /\ \A g \in DOMAIN frames : g < N => a \notin Refs(frames[g])
  BY <1>3 DEF FrameOK, ScratchAt
<1>8. /\ \A a \in Addr : mem'[a] = (IF a \in f.scratch THEN "none" ELSE mem[a])
      /\ \A a \in Addr : mem'[a] = "heap" <=> mem[a] = "heap"
      /\ \A a \in Addr : mem'[a] = "const" <=> mem[a] = "const"
      /\ \A a \in Addr : mem'[a] = "frame" => mem[a] = "frame"
  BY <1>2, <1>7
<1>9. Typed'
  <2>1. mem' \in [Addr -> {"none", "heap", "frame", "const"}]
    BY <1>2, <1>3 DEF HeapTyped
  <2>2. HeapTyped'
    BY <1>2, <1>3, <2>1 DEF HeapTyped
  <2> QED
    BY <1>5, <1>6, <2>2 DEF Typed, Dropped
<1>10. Balanced
  <2>1. SUFFICES ASSUME NEW a \in Addr, mem'[a] = "heap"
                 PROVE  hdr'[a] + Claims(a) + Cardinality(Heap!Words(a)) = hdr[a] + Claims(a)' + Cardinality(Heap!Words(a)')
    BY <1>8 DEF Balanced
  <2>2. Claims(a)' = Claims(a)
    <3>1. Weight(f, a) = Weight(G, a) + Gives(w, a)
      <4>1. /\ Weight(f, a) = Cardinality(OwnBlocks(f.blocks, a)) + Cardinality(OwnVals(f.vals, a))
                                + Cardinality(Places(f.spent, a)) + Cardinality(OwnLoops(f.loops, a))
            /\ Weight(G, a) = Cardinality(OwnBlocks(G.blocks, a)) + Cardinality(OwnVals(G.vals, a))
                                + Cardinality(Places(G.spent, a)) + Cardinality(OwnLoops(G.loops, a))
        BY <1>3, <1>4, WeightIs
      <4>2. Cardinality(OwnVals(f.vals, a)) = Cardinality(OwnVals(Pop(f.vals), a)) + Gives(w, a)
        BY <1>1, <1>2, <1>3, OneBlock, ValsPop
      <4>3. Pop(f.vals) = <<>>
        BY <1>2, <1>3, OneBlock
      <4>4. Gives(w, a) \in {0, 1}
        BY GivesIs
      <4>5. OwnVals(<<>>, a) = {} /\ Cardinality({}) = 0
        BY CountsEmpty
      <4>6. Cardinality(OwnBlocks(f.blocks, a)) \in Nat
        BY <1>3, BlocksFinite
      <4>7. Cardinality(Places(f.spent, a)) = 0
        BY <1>3, CountsEmpty
      <4>8. Cardinality(OwnLoops(f.loops, a)) \in Nat
        BY <1>3, CountsFinite
      <4>9. Cardinality(Places(G.spent, a)) = 0 /\ Cardinality(OwnVals(G.vals, a)) = 0
        BY <1>4, CountsEmpty
      <4>10. Cardinality(OwnVals(f.vals, a)) = 0 + Gives(w, a)
        BY <4>2, <4>3, <4>5
      <4>11. G.blocks = f.blocks /\ G.loops = f.loops
        BY <1>4
      <4>12. PICK x, y, b, v, l : /\ x = Weight(f, a) /\ y = Weight(G, a) /\ v = Gives(w, a)
                                  /\ b = Cardinality(OwnBlocks(f.blocks, a)) /\ l = Cardinality(OwnLoops(f.loops, a))
        OBVIOUS
      <4>13. x = b + (0 + v) + 0 + l /\ y = b + 0 + 0 + l /\ v \in {0, 1} /\ b \in Nat /\ l \in Nat
        BY <4>1, <4>4, <4>6, <4>7, <4>8, <4>9, <4>10, <4>11, <4>12
      <4>14. x = y + v
        BY <4>13
      <4> QED
        BY <4>12, <4>14
    <3>2. Cardinality(Places(due', a)) + lost'[a] = Cardinality(Places(due, a)) + lost[a] + Gives(w, a)
      BY <1>6, <1>8, <2>1 DEF Dropped
    <3>3. /\ Claims(a) = Total(frames, a) + Cardinality(Places(due, a)) + lost[a]
          /\ Cardinality(Places(due, a)) \in Nat /\ lost[a] \in Nat
      BY <1>3, ClaimsSum
    <3>4. /\ Claims(a)' = Total(frames', a) + Cardinality(Places(due', a)) + lost'[a]
          /\ Cardinality(Places(due', a)) \in Nat /\ lost'[a] \in Nat
      BY <1>9, ClaimsSumNext
    <3>5. Gives(w, a) \in {0, 1}
      BY GivesIs
    <3>6. PICK u, x, y, p, q, l, k, g : /\ u = Total(Under, a) /\ x = Weight(f, a) /\ y = Weight(G, a)
                                        /\ p = Cardinality(Places(due, a)) /\ q = Cardinality(Places(due', a))
                                        /\ l = lost[a] /\ k = lost'[a] /\ g = Gives(w, a)
      OBVIOUS
    <3>7. /\ u \in Nat /\ x \in Nat /\ y \in Nat /\ p \in Nat /\ q \in Nat /\ l \in Nat /\ k \in Nat /\ g \in Nat
          /\ x = y + g /\ q + k = p + l + g /\ Claims(a) = u + x + p + l /\ Claims(a)' = u + y + q + k
      <4>1. u \in Nat /\ x \in Nat /\ y \in Nat
        BY <1>5, <3>6
      <4>2. p \in Nat /\ q \in Nat /\ l \in Nat /\ k \in Nat /\ g \in Nat
        BY <3>3, <3>4, <3>5, <3>6
      <4>3. x = y + g /\ q + k = p + l + g
        BY <3>1, <3>2, <3>6
      <4>4. Total(frames, a) = u + x /\ Total(frames', a) = u + y
        BY <1>5, <3>6
      <4>5. Claims(a) = u + x + p + l /\ Claims(a)' = u + y + q + k
        BY <3>3, <3>4, <3>6, <4>4
      <4> QED
        BY <4>1, <4>2, <4>3, <4>5
    <3>8. u + y + q + k = u + x + p + l
      BY <3>7
    <3> QED
      BY <3>7, <3>8
  <2>3. Heap!Words(a)' = Heap!Words(a)
    BY <1>2, SameWords
  <2> QED
    BY <1>2, <2>2, <2>3
<1>11. Counts' /\ \A a \in Addr : Surplus(a) => Surplus(a)'
  <2>1. Counts' /\ \A a \in Addr : mem'[a] = "heap" /\ Surplus(a) => Surplus(a)'
    BY <1>9, <1>10, Books
  <2> QED
    BY <1>8, <2>1 DEF Surplus
<1>12. \A a \in Addr : Inside(a)' = Inside(a)
  BY <1>2 DEF Inside, Closed
<1>13. Firm
  <2>1. \A a \in Addr : lost[a] > 0 => lost'[a] > 0
    <3>1. TAKE a \in Addr
    <3>2. lost'[a] >= lost[a] /\ lost[a] \in Nat /\ lost'[a] \in Nat
      BY <1>3, <1>6, <1>9, ClaimsSum, ClaimsSumNext DEF Dropped
    <3> QED
      BY <3>2
  <2> QED
    BY <1>2, <1>8, <1>11, <1>12, <2>1 DEF Firm
<1>14. BuiltAlone
  BY <1>2 DEF BuiltAlone
<1>15. Placed'
  <2>1. \A a \in Addr, i \in 1 .. Width : body[a][i] # Null => body[a][i] \in Addr
    <3>1. body \in [Addr -> [1 .. Width -> Addr \cup {Null}]]
      BY <1>3 DEF HeapTyped
    <3> QED
      BY <3>1
  <2>2. \A k \in DOMAIN dropping : dropping[k] \in Addr
    BY <1>2, Going
  <2> QED
    BY <1>2, <1>3, <1>8, <2>1, <2>2 DEF Placed
<1>16. NoCircle'
  BY <1>2, <1>3 DEF NoCircle, OwnersAbove, HeapGood
<1>17. Dues'
  <2>1. due' = <<>>
    BY <1>2, Going
  <2>2. DOMAIN due' = {}
    BY <2>1
  <2>3. \A a \in Addr : lost'[a] > 0 => mem[a] = "heap"
    BY <1>6 DEF Dropped
  <2> QED
    BY <1>8, <2>2, <2>3 DEF Dues
<1>18. Bottom'
  <2>1. frames'[1].unit
    <3>1. CASE N = 1
      BY <1>1, <1>3, <1>4, <1>5, <3>1 DEF Core, Bottom
    <3>2. CASE N # 1
      <4>1. 1 \in 1 .. N - 1 /\ frames # <<>>
        BY <1>1, <1>3, <3>2
      <4>2. frames'[1] = frames[1]
        BY <1>5, <4>1
      <4> QED
        BY <4>1, <4>2 DEF Core, Bottom
    <3> QED
      BY <3>1, <3>2
  <2> QED
    BY <1>4, <1>5, <2>1 DEF Bottom
<1>19. \A n \in 1 .. N - 1 : FrameOK(n)'
  <2>1. PICK m \in Nat : m = N - 1
    BY <1>3
  <2>2. \A n \in 1 .. m : n \in DOMAIN frames /\ n \in DOMAIN frames' /\ frames'[n] = frames[n]
    BY <1>5, <2>1
  <2>3. ASSUME NEW n \in 1 .. m
        PROVE  Remains(n)
    <3>1. n < N /\ n \in DOMAIN frames
      BY <1>3, <2>1, <2>2
    <3>2. \A a \in Refs(frames[n]) : a \in Addr /\ a \notin f.scratch
      BY <1>7, <3>1 DEF Refs
    <3> QED
      BY <1>8, <3>2 DEF Remains
  <2>4. /\ Len(frames) \in Nat /\ Len(frames') \in Nat /\ DOMAIN frames' = 1 .. Len(frames')
        /\ Len(frames') > m => Len(frames) > m
    BY <1>1, <1>3, <1>5
  <2>5. \A n \in 1 .. m : FrameOK(n)'
    BY <1>13, <1>14, <2>2, <2>3, <2>4, KeptBelow
  <2> QED
    BY <2>1, <2>5
<1>20. FrameOK(N)'
  <2>1. \A l \in DOMAIN f.loops : f.loops[l].depth \in Nat /\ f.loops[l].depth < Len(f.blocks)
    BY <1>1, <1>2, LoopsBelow
  <2>2. Shape(G)
    BY <1>3, <1>4 DEF Shape
  <2>3. LoopShape(G)
    <3>1. ASSUME NEW l \in DOMAIN f.loops
          PROVE  LoopAt(G, l)
      <4>1. LoopAt(f, l) /\ f.loops[l].depth < Len(f.blocks)
        BY <1>3, <2>1, <3>1 DEF LoopShape
      <4> QED
        BY <1>4, <4>1 DEF LoopAt, AtVar
    <3> QED
      BY <1>3, <1>4, <3>1 DEF LoopShape
  <2>4. Waiting(N)'
    BY <1>5 DEF Waiting
  <2>5. ScratchAt(N)'
    BY <1>4, <1>5 DEF ScratchAt
  <2>6. \A b \in DOMAIN f.blocks : \A k \in DOMAIN f.blocks[b].names :
           f.blocks[b].names[k].ref # Null =>
              /\ f.blocks[b].names[k].ref \in Addr
              /\ mem'[f.blocks[b].names[k].ref] = mem[f.blocks[b].names[k].ref]
    <3>1. ASSUME NEW b \in DOMAIN f.blocks, NEW k \in DOMAIN f.blocks[b].names, f.blocks[b].names[k].ref # Null
          PROVE  /\ f.blocks[b].names[k].ref \in Addr
                 /\ mem'[f.blocks[b].names[k].ref] = mem[f.blocks[b].names[k].ref]
      <4>1. f.blocks[b].names[k].ref \in Addr
        BY <1>3, <3>1, FrameParts
      <4>2. f.blocks[b].names[k].ref \notin f.scratch
        BY <1>7, <4>1 DEF NameAt
      <4> QED
        BY <1>8, <4>1, <4>2
    <3> QED
      BY <3>1
  <2>7. \A d \in Nat : \A r \in Addr : Guard(N, d, r) /\ mem'[r] = mem[r] => Guard(N, d, r)'
    <3>1. SUFFICES ASSUME NEW d \in Nat, NEW r \in Addr, Guard(N, d, r), mem'[r] = mem[r]
                   PROVE  Guard(N, d, r)'
      OBVIOUS
    <3>2. \A a \in Addr : mem[a] = "heap" /\ r \in Inside(a) /\ Keeps(f, d, a) => Keeps(G, d, a)
      BY <1>4 DEF Keeps
    <3> QED
      BY <1>1, <1>2, <1>3, <1>4, <1>13, <3>1, <3>2, TopGuard
  <2>8. Lives(G)'
    <3>1. \A b \in DOMAIN f.blocks : \A k \in DOMAIN f.blocks[b].names : LiveName(f.blocks[b].names[k])'
      <4>1. TAKE b \in DOMAIN f.blocks
      <4>2. TAKE k \in DOMAIN f.blocks[b].names
      <4>3. f.blocks[b].names[k].own => mem[f.blocks[b].names[k].ref] # "none" /\ f.blocks[b].names[k].ref # Null
        BY <1>3 DEF Lives, LiveName, Shape
      <4> QED
        BY <2>6, <4>3 DEF LiveName
    <3>2. \A l \in DOMAIN f.loops : LiveArr(f.loops[l])'
      <4>1. TAKE l \in DOMAIN f.loops
      <4>2. f.loops[l].arr \in Addr \cup {Null} /\ LiveArr(f.loops[l])
        BY <1>3, FrameParts DEF Lives
      <4> QED
        BY <1>8, <4>2 DEF LiveArr
    <3>3. DOMAIN <<>> = {}
      OBVIOUS
    <3>4. (\A k \in DOMAIN G.vals : LiveVal(G.vals[k])') /\ (\A k \in DOMAIN G.spent : mem'[G.spent[k]] # "none")
      BY <1>4, <3>3
    <3> QED
      BY <1>4, <3>1, <3>2, <3>4 DEF Lives
  <2>9. GuardVals(N)'
    <3>1. DOMAIN frames'[N].vals = {}
      BY <1>4, <1>5
    <3> QED
      BY <3>1 DEF GuardVals
  <2>10. GuardLoops(N)'
    <3>1. ASSUME NEW l \in DOMAIN f.loops, f.loops[l].arr # Null, ~f.loops[l].mine
          PROVE  Guard(N, f.loops[l].depth, f.loops[l].arr)'
      <4>1. /\ f.loops[l].arr \in Addr /\ f.loops[l].depth \in Nat /\ mem[f.loops[l].arr] = "heap"
        BY <1>3, <3>1, FrameParts DEF Lives, LiveArr
      <4>2. mem'[f.loops[l].arr] = mem[f.loops[l].arr]
        BY <1>8, <4>1
      <4>3. Guard(N, f.loops[l].depth, f.loops[l].arr)
        BY <1>3, <3>1 DEF FrameOK, GuardLoops
      <4>4. PICK d, r : d = f.loops[l].depth /\ r = f.loops[l].arr
        OBVIOUS
      <4>5. Guard(N, d, r)'
        BY <2>7, <4>1, <4>2, <4>3, <4>4
      <4> QED
        BY <4>4, <4>5
    <3>2. \A l \in DOMAIN G.loops : G.loops[l].arr # Null /\ ~G.loops[l].mine => Guard(N, G.loops[l].depth, G.loops[l].arr)'
      BY <1>4, <3>1
    <3> QED
      BY <1>5, <3>2 DEF GuardLoops
  <2>11. GuardNames(N)'
    <3>1. ASSUME NEW b \in DOMAIN f.blocks, NEW k \in DOMAIN f.blocks[b].names
          PROVE  GuardName(N, b, k)'
      <4>1. PICK e : e = f.blocks[b].names[k]
        OBVIOUS
      <4>2. frames'[N].blocks[b].names[k] = e /\ frames'[N].blocks[b].kind = f.blocks[b].kind
            /\ frames'[N].blocks = f.blocks /\ frames'[N].loops = f.loops
        BY <1>4, <1>5, <4>1
      <4>3. GuardName(N, b, k)
        BY <1>3, <3>1 DEF FrameOK, GuardNames
      <4>4. Len(f.blocks) \in Nat
        BY <1>3
      <4>5. CASE e.own
        BY <4>2, <4>5 DEF GuardName
      <4>6. CASE f.blocks[b].kind = "arm" /\ e.ref # Null /\ Guard(N, Len(f.blocks), e.ref)
        <5>1. e.ref \in Addr /\ mem'[e.ref] = mem[e.ref]
          BY <2>6, <3>1, <4>1, <4>6
        <5>2. PICK d : d = Len(f.blocks)
          OBVIOUS
        <5>3. Guard(N, d, e.ref)'
          BY <2>7, <4>4, <4>6, <5>1, <5>2
        <5>4. Len(frames'[N].blocks) = d
          BY <4>2, <5>2
        <5> QED
          BY <4>2, <4>6, <5>3, <5>4 DEF GuardName
      <4>7. CASE f.blocks[b].kind # "arm" /\ e.ref # Null /\ Guard(N, 0, e.ref)
        <5>1. e.ref \in Addr /\ mem'[e.ref] = mem[e.ref]
          BY <2>6, <3>1, <4>1, <4>7
        <5>2. PICK d \in Nat : d = 0
          OBVIOUS
        <5>3. Guard(N, d, e.ref)'
          BY <2>7, <4>7, <5>1, <5>2
        <5> QED
          BY <4>2, <4>7, <5>2, <5>3 DEF GuardName
      <4>8. CASE /\ f.blocks[b].kind # "arm"
                 /\ \E l \in DOMAIN f.loops :
                      /\ AtVar(f, l, b, k)
                      /\ e.ref # Null => \E i \in 1 .. Width : body[f.loops[l].arr][i] = e.ref
        <5>1. PICK l \in DOMAIN f.loops :
                      /\ AtVar(f, l, b, k)
                      /\ e.ref # Null => \E i \in 1 .. Width : body[f.loops[l].arr][i] = e.ref
          BY <4>8
        <5>2. l \in DOMAIN frames'[N].loops /\ AtVar(frames'[N], l, b, k)
          BY <4>2, <5>1 DEF AtVar
        <5>3. e.ref # Null => \E i \in 1 .. Width : body'[frames'[N].loops[l].arr][i] = e.ref
          BY <1>2, <4>2, <5>1
        <5> QED
          BY <4>2, <4>8, <5>2, <5>3 DEF GuardName
      <4>9. frames[N].blocks = f.blocks /\ frames[N].loops = f.loops /\ frames[N] = f
        BY <1>3
      <4> QED
        BY <4>1, <4>3, <4>5, <4>6, <4>7, <4>8, <4>9 DEF GuardName
    <3>2. \A b \in DOMAIN G.blocks : \A k \in DOMAIN G.blocks[b].names : GuardName(N, b, k)'
      BY <1>4, <3>1
    <3> QED
      BY <1>5, <3>2 DEF GuardNames
  <2>12. Shape(frames[N])' /\ LoopShape(frames[N])'
    BY <1>5, <2>2, <2>3 DEF Shape, LoopShape, LoopAt, AtVar
  <2>13. Lives(frames[N])'
    BY <1>5, <2>8 DEF Lives
  <2> QED
    BY <2>4, <2>5, <2>9, <2>10, <2>11, <2>12, <2>13 DEF FrameOK
<1>21. \A n \in DOMAIN frames' : FrameOK(n)'
  <2>1. \A n \in 1 .. N : n \in 1 .. N - 1 \/ n = N
    BY <1>3
  <2> QED
    BY <1>5, <1>19, <1>20, <2>1
<1> QED
  BY <1>9, <1>11, <1>15, <1>16, <1>17, <1>18, <1>21 DEF Core

\* Statements: steps of a frame that is left with no operand waiting.

\* Every loop of the new frame is over what is there, and what guarded its array
\* where it stands still does.
LoopsFit(N, f, G) ==
  \A k \in DOMAIN G.loops :
    LET r == G.loops[k].arr
        d == G.loops[k].depth
    IN r # Null =>
         /\ mem[r] = "heap"
         /\ ~G.loops[k].mine =>
              /\ Guard(N, d, r)
              /\ \A a \in Addr : mem[a] = "heap" /\ r \in Inside(a) /\ Keeps(f, d, a) => Keeps(G, d, a)

\* A name stands where it stood, and is a loop's variable if it was.
NameStays(f, G, b, k) ==
  /\ b \in DOMAIN f.blocks /\ k \in DOMAIN f.blocks[b].names
  /\ G.blocks[b].kind = f.blocks[b].kind /\ G.blocks[b].names[k] = f.blocks[b].names[k]
  /\ \A l \in DOMAIN f.loops : AtVar(f, l, b, k) =>
       \E m \in DOMAIN G.loops : AtVar(G, m, b, k) /\ G.loops[m].arr = f.loops[l].arr

\* A name owns what is there, or is the variable of a loop.
NameNew(G, b, k) ==
  LET e == G.blocks[b].names[k]
  IN \/ e.own /\ mem[e.ref] # "none" /\ e.ref \in Addr
     \/ /\ ~e.own /\ G.blocks[b].kind # "arm"
        /\ \E m \in DOMAIN G.loops :
             /\ AtVar(G, m, b, k)
             /\ e.ref # Null => \E i \in 1 .. Width : body[G.loops[m].arr][i] = e.ref

NamesFit(f, G) ==
  \A b \in DOMAIN G.blocks : \A k \in DOMAIN G.blocks[b].names : NameStays(f, G, b, k) \/ NameNew(G, b, k)

\* The blocks, operands and loops of the frame claim what the counts say.
PartsMove(f, G, refs, over) ==
  \A a \in Addr : mem'[a] = "heap" =>
    Stock(a)' + (Cardinality(OwnBlocks(f.blocks, a)) + Cardinality(OwnVals(f.vals, a)) + Cardinality(OwnLoops(f.loops, a))) =
      Stock(a) + (Cardinality(OwnBlocks(G.blocks, a)) + Cardinality(OwnVals(G.vals, a)) + Cardinality(OwnLoops(G.loops, a)))
        + Cardinality(Places(refs, a)) + over[a]

\* The accounts of a frame, from those of its blocks, operands and loops.
LEMMA PartsAccount ==
  ASSUME NEW f \in FrameType, NEW G \in FrameType, f.spent = <<>>, G.spent = <<>>,
         NEW refs, NEW over, PartsMove(f, G, refs, over)
  PROVE  Accounts(f, G, refs, over)
<1>1. SUFFICES ASSUME NEW a \in Addr, mem'[a] = "heap"
               PROVE  Stock(a)' + Weight(f, a) = Stock(a) + Weight(G, a) + Cardinality(Places(refs, a)) + over[a]
  BY DEF Accounts
<1>2. /\ Weight(f, a) = Cardinality(OwnBlocks(f.blocks, a)) + Cardinality(OwnVals(f.vals, a))
                          + Cardinality(Places(f.spent, a)) + Cardinality(OwnLoops(f.loops, a))
      /\ Weight(G, a) = Cardinality(OwnBlocks(G.blocks, a)) + Cardinality(OwnVals(G.vals, a))
                          + Cardinality(Places(G.spent, a)) + Cardinality(OwnLoops(G.loops, a))
  BY WeightIs
<1>3. Cardinality(Places(f.spent, a)) = 0 /\ Cardinality(Places(G.spent, a)) = 0
  BY CountsEmpty
<1>4. ASSUME NEW g \in FrameType
      PROVE  /\ Cardinality(OwnBlocks(g.blocks, a)) \in Nat /\ Cardinality(OwnVals(g.vals, a)) \in Nat
             /\ Cardinality(OwnLoops(g.loops, a)) \in Nat
  <2>1. g.blocks \in Seq(BlockType) /\ g.vals \in Seq(OperandType) /\ g.loops \in Seq(LoopType)
    BY FrameParts
  <2> QED
    BY <2>1, BlocksFinite, CountsFinite
<1>5. PICK b, v, l, c, w, m : /\ b = Cardinality(OwnBlocks(f.blocks, a)) /\ v = Cardinality(OwnVals(f.vals, a))
                              /\ l = Cardinality(OwnLoops(f.loops, a))
                              /\ c = Cardinality(OwnBlocks(G.blocks, a)) /\ w = Cardinality(OwnVals(G.vals, a))
                              /\ m = Cardinality(OwnLoops(G.loops, a))
  OBVIOUS
<1>6. b \in Nat /\ v \in Nat /\ l \in Nat /\ c \in Nat /\ w \in Nat /\ m \in Nat
  BY <1>4, <1>5
<1>7. Weight(f, a) = b + v + l /\ Weight(G, a) = c + w + m
  BY <1>2, <1>3, <1>5, <1>6
<1>8. Stock(a)' + (b + v + l) = Stock(a) + (c + w + m) + Cardinality(Places(refs, a)) + over[a]
  BY <1>1, <1>5 DEF PartsMove
<1> QED
  BY <1>7, <1>8

\* Under a block that is not an arm no arm is open.
LEMMA NoArms ==
  ASSUME NEW f \in FrameType, Shape(f), f.blocks[Len(f.blocks)].kind # "arm"
  PROVE  \A b \in DOMAIN f.blocks : f.blocks[b].kind # "arm"
<1>1. Len(f.blocks) \in Nat /\ DOMAIN f.blocks = 1 .. Len(f.blocks)
  BY FrameParts
<1>2. SUFFICES ASSUME NEW b \in DOMAIN f.blocks, f.blocks[b].kind = "arm"
               PROVE  FALSE
  OBVIOUS
<1>3. b = Len(f.blocks) \/ (b < Len(f.blocks) /\ Len(f.blocks) \in DOMAIN f.blocks)
  BY <1>1
<1> QED
  BY <1>2, <1>3 DEF Shape

\* A step at the level of statements keeps the invariant, where the blocks and
\* loops it leaves fit together, loops and names keep their guards, and the
\* claims are accounted for.
LEMMA StatementStep ==
  ASSUME Core, Running, HeapStep, NEW refs \in Seq(Addr), Dropped(refs), lifted' = lifted,
         NEW over, Abandons(over), BuiltAlone,
         NEW N, N = Len(frames), NEW f, f = F, f.blocks[Len(f.blocks)].kind # "arm",
         NEW G \in FrameType, frames' = Append(Under, G),
         G.spent = <<>>, G.unit = f.unit, G.vals = <<>>, G.scratch = {},
         PartsMove(f, G, refs, over), Shape(G), LoopShape(G), LoopsFit(N, f, G), NamesFit(f, G)
  PROVE  Core'
<1>1. /\ frames # <<>> /\ f \in FrameType /\ f = frames[N] /\ N \in DOMAIN frames /\ f.spent = <<>>
      /\ Shape(f) /\ HeapTyped /\ HeapGood
  BY Going DEF HeapGood
<1>2. Accounts(f, G, refs, over)
  BY <1>1, PartsAccount
<1>3. Firm /\ Grows /\ (FrameOK(N)' => Core')
  BY <1>1, <1>2, TopStep
<1>4. frames'[N] = G
  BY <1>1, TopOnly DEF Core, Typed
<1>5. ASSUME NEW k \in DOMAIN G.loops
      PROVE  /\ LiveArr(G.loops[k])'
             /\ G.loops[k].arr # Null /\ ~G.loops[k].mine => Guard(N, G.loops[k].depth, G.loops[k].arr)'
  <2>1. PICK r, d : r = G.loops[k].arr /\ d = G.loops[k].depth
    OBVIOUS
  <2>2. r \in Addr \cup {Null}
    BY <2>1, FrameParts
  <2>3. CASE r = Null
    BY <2>1, <2>3 DEF LiveArr
  <2>4. CASE r # Null
    <3>1. /\ r \in Addr /\ mem[r] = "heap"
          /\ ~G.loops[k].mine =>
              /\ Guard(N, d, r)
              /\ \A a \in Addr : mem[a] = "heap" /\ r \in Inside(a) /\ Keeps(f, d, a) => Keeps(G, d, a)
      BY <2>1, <2>2, <2>4 DEF LoopsFit
    <3>2. mem'[r] = mem[r]
      BY <1>3, <3>1 DEF Grows
    <3>3. ~G.loops[k].mine => Guard(N, d, r)'
      BY <1>1, <1>3, <3>1, <3>2, TopGuard
    <3> QED
      BY <2>1, <3>1, <3>2, <3>3 DEF LiveArr
  <2> QED
    BY <2>3, <2>4
<1>6. ASSUME NEW b \in DOMAIN G.blocks, NEW k \in DOMAIN G.blocks[b].names
      PROVE  LiveName(G.blocks[b].names[k])' /\ GuardName(N, b, k)'
  <2>1. CASE NameStays(f, G, b, k)
    <3>1. /\ b \in DOMAIN f.blocks /\ k \in DOMAIN f.blocks[b].names
          /\ G.blocks[b].kind = f.blocks[b].kind /\ G.blocks[b].names[k] = f.blocks[b].names[k]
          /\ \A l \in DOMAIN f.loops : AtVar(f, l, b, k) =>
               \E m \in DOMAIN G.loops : AtVar(G, m, b, k) /\ G.loops[m].arr = f.loops[l].arr
      BY <2>1 DEF NameStays
    <3>2. f.blocks[b].kind # "arm"
      BY <1>1, <3>1, NoArms
    <3>3. f.blocks[b].kind = "arm" => \A a \in Addr : Keeps(f, Len(f.blocks), a) => Keeps(G, Len(G.blocks), a)
      BY <3>2
    <3> QED
      BY <1>1, <1>3, <1>6, <3>1, <3>3, NameCarried
  <2>2. CASE NameNew(G, b, k)
    <3>1. PICK e : e = G.blocks[b].names[k]
      OBVIOUS
    <3>2. CASE e.own /\ mem[e.ref] # "none" /\ e.ref \in Addr
      <4>1. mem'[e.ref] # "none"
        BY <1>3, <3>2 DEF Grows
      <4> QED
        BY <1>4, <3>1, <3>2, <4>1 DEF LiveName, GuardName
    <3>3. CASE /\ ~e.own /\ G.blocks[b].kind # "arm"
               /\ \E m \in DOMAIN G.loops :
                    /\ AtVar(G, m, b, k)
                    /\ e.ref # Null => \E i \in 1 .. Width : body[G.loops[m].arr][i] = e.ref
      <4>1. PICK m \in DOMAIN G.loops :
                    /\ AtVar(G, m, b, k)
                    /\ e.ref # Null => \E i \in 1 .. Width : body[G.loops[m].arr][i] = e.ref
        BY <3>3
      <4>2. G.loops[m].arr \in Addr
        BY <4>1, FrameParts DEF AtVar
      <4>3. e.ref # Null => \E i \in 1 .. Width : body'[G.loops[m].arr][i] = e.ref
        BY <1>3, <4>1, <4>2 DEF Grows
      <4>4. AtVar(frames[N], m, b, k)'
        BY <1>4, <4>1 DEF AtVar
      <4> QED
        BY <1>4, <3>1, <3>3, <4>3, <4>4 DEF LiveName, GuardName
    <3> QED
      BY <2>2, <3>1, <3>2, <3>3 DEF NameNew
  <2> QED
    BY <1>6, <2>1, <2>2 DEF NamesFit
<1>7. /\ \A a \in G.scratch : /\ mem'[a] = "frame" /\ ~NameAt(G, a)
                              /\ a \in f.scratch \/ mem[a] = "none"
      /\ \A k \in DOMAIN G.vals : /\ LiveVal(G.vals[k])'
                                  /\ G.vals[k].st = "borrow" => Guard(N, Len(G.blocks), G.vals[k].ref)'
  OBVIOUS
<1>8. FrameOK(N)'
  BY <1>1, <1>3, <1>5, <1>6, <1>7, TopFrame
<1> QED
  BY <1>3, <1>8

\* The loops there were are over what is there.
LEMMA LoopOld ==
  ASSUME Core, Running, NEW f, f = F, NEW l \in DOMAIN f.loops, f.loops[l].arr # Null
  PROVE  /\ f.loops[l].arr \in Addr /\ mem[f.loops[l].arr] = "heap"
         /\ ~f.loops[l].mine => Guard(Len(frames), f.loops[l].depth, f.loops[l].arr)
<1>1. f \in FrameType /\ Lives(f) /\ FrameOK(Len(frames)) /\ f = frames[Len(frames)]
  BY Going
<1> QED
  BY <1>1, FrameParts DEF Lives, LiveArr, FrameOK, GuardLoops

\* The last member of a sequence replaced.
LEMMA LastReplaced ==
  ASSUME NEW S, NEW s \in Seq(S), s # <<>>, NEW e \in S
  PROVE  [s EXCEPT ![Len(s)] = e] = Append(Pop(s), e)
<1>1. PICK t, u, n : t = [s EXCEPT ![Len(s)] = e] /\ u = Append(Pop(s), e) /\ n = Len(s)
  OBVIOUS
<1>2. /\ n \in Nat \ {0} /\ n \in 1 .. Len(s) /\ Pop(s) \in Seq(S) /\ Len(Pop(s)) = n - 1
      /\ \A k \in 1 .. n - 1 : Pop(s)[k] = s[k]
  BY <1>1, PopFacts
<1>3. t \in Seq(S) /\ Len(t) = n /\ t[n] = e /\ \A j \in 1 .. n : j # n => t[j] = s[j]
  BY <1>1, <1>2, ReplaceFacts
<1>4. u \in Seq(S) /\ Len(u) = n /\ u[n] = e /\ \A k \in 1 .. n - 1 : u[k] = Pop(s)[k]
  BY <1>1, <1>2, AppendFacts
<1>5. \A k \in 1 .. n : t[k] = u[k]
  <2>1. \A k \in 1 .. n : k = n \/ k \in 1 .. n - 1
    BY <1>2
  <2> QED
    BY <1>2, <1>3, <1>4, <2>1
<1>6. t = u
  BY <1>3, <1>4, <1>5, SeqEqual
<1> QED
  BY <1>1, <1>6

\* A name is bound in the innermost block.
Bind(s, e) == [s EXCEPT ![Len(s)].names = Append(@, e)]
BindsTo(s, e, t) ==
  /\ t \in Seq(BlockType) /\ Len(t) = Len(s) /\ DOMAIN t = 1 .. Len(s) /\ t # <<>>
  /\ \A b \in 1 .. Len(s) : b # Len(s) => t[b] = s[b]
  /\ t[Len(s)].kind = s[Len(s)].kind
  /\ s[Len(s)].names \in Seq(EntryType)
  /\ t[Len(s)].names = Append(s[Len(s)].names, e)
  /\ \A a : Cardinality(OwnBlocks(t, a)) = Cardinality(OwnBlocks(s, a)) + One(e.own /\ e.ref = a)
  /\ \A a : Cardinality(OwnBlocks(s, a)) \in Nat

\* What binding a name in the innermost block does.
LEMMA BlocksBind ==
  ASSUME NEW s \in Seq(BlockType), s # <<>>, NEW e \in EntryType
  PROVE  BindsTo(s, e, Bind(s, e))
<1>0. PICK t : t = Bind(s, e) /\ t = [s EXCEPT ![Len(s)].names = Append(@, e)]
  BY DEF Bind
<1>1. PICK n, b : n = Len(s) /\ b = [s[n] EXCEPT !.names = Append(@, e)]
  OBVIOUS
<1>2. n \in Nat \ {0} /\ n \in 1 .. Len(s) /\ s[n] \in BlockType /\ s[n].names \in Seq(EntryType)
  <2>1. n \in Nat \ {0} /\ n \in 1 .. Len(s) /\ s[n] \in BlockType
    BY <1>1, PopFacts
  <2> QED
    BY <2>1 DEF BlockType
<1>3. b \in BlockType /\ b.kind = s[n].kind /\ b.names = Append(s[n].names, e)
  <2>1. Append(s[n].names, e) \in Seq(EntryType)
    BY <1>2, AppendFacts
  <2> QED
    BY <1>1, <1>2, <2>1 DEF BlockType
<1>4. t = [s EXCEPT ![n] = b]
  BY <1>0, <1>1
<1>5. /\ t \in Seq(BlockType) /\ Len(t) = n /\ DOMAIN t = 1 .. n /\ t[n] = b
      /\ \A j \in 1 .. n : j # n => t[j] = s[j]
  <2>1. n \in 1 .. Len(s) /\ b \in BlockType
    BY <1>2, <1>3
  <2>2. /\ [s EXCEPT ![n] = b] \in Seq(BlockType) /\ Len([s EXCEPT ![n] = b]) = Len(s)
        /\ DOMAIN [s EXCEPT ![n] = b] = 1 .. Len(s) /\ [s EXCEPT ![n] = b][n] = b
        /\ \A j \in 1 .. Len(s) : j # n => [s EXCEPT ![n] = b][j] = s[j]
    BY <2>1, ReplaceFacts
  <2>3. n = Len(s)
    BY <1>1
  <2> QED
    BY <1>4, <2>2, <2>3
<1>6. t # <<>>
  BY <1>2, <1>5
<1>7. ASSUME NEW a
      PROVE  /\ Cardinality(OwnBlocks(t, a)) = Cardinality(OwnBlocks(s, a)) + One(e.own /\ e.ref = a)
             /\ Cardinality(OwnBlocks(s, a)) \in Nat
  <2>1. t = Append(Pop(s), b) /\ s = Append(Pop(s), s[n]) /\ Pop(s) \in Seq(BlockType)
    <3>1. t = Append(Pop(s), b)
      <4>1. [s EXCEPT ![Len(s)] = b] = Append(Pop(s), b)
        BY <1>3, LastReplaced
      <4>2. n = Len(s)
        BY <1>1
      <4> QED
        BY <1>4, <4>1, <4>2
    <3>2. s = Append(Pop(s), Top(s)) /\ Pop(s) \in Seq(BlockType)
      BY PopFacts
    <3> QED
      BY <1>1, <3>1, <3>2 DEF Top
  <2>2. PICK p : p = Pop(s)
    OBVIOUS
  <2>3. Cardinality(OwnBlocks(Append(p, b), a)) = Cardinality(OwnBlocks(p, a)) + NamesOwned(b.names, a)
    BY <1>3, <2>1, <2>2, BlocksAppend
  <2>4. Cardinality(OwnBlocks(Append(p, s[n]), a)) = Cardinality(OwnBlocks(p, a)) + NamesOwned(s[n].names, a)
    BY <1>2, <2>1, <2>2, BlocksAppend
  <2>5. /\ NamesOwned(b.names, a) = NamesOwned(s[n].names, a) + One(e.own /\ e.ref = a)
        /\ NamesOwned(s[n].names, a) \in Nat
    BY <1>2, <1>3, NamesAppend DEF NamesOwned
  <2>6. Cardinality(OwnBlocks(p, a)) \in Nat /\ Cardinality(OwnBlocks(s, a)) \in Nat
    BY <2>1, <2>2, BlocksFinite
  <2>7. One(e.own /\ e.ref = a) \in {0, 1}
    BY DEF One
  <2>8. Cardinality(OwnBlocks(t, a)) = Cardinality(OwnBlocks(Append(p, b), a))
        /\ Cardinality(OwnBlocks(s, a)) = Cardinality(OwnBlocks(Append(p, s[n]), a))
    BY <2>1, <2>2
  <2> QED
    BY <2>3, <2>4, <2>5, <2>6, <2>7, <2>8
<1>8. BindsTo(s, e, t)
  BY <1>1, <1>2, <1>3, <1>5, <1>6, <1>7 DEF BindsTo
<1> QED
  BY <1>0, <1>8

\* What a statement finds.
LEMMA StatementFacts ==
  ASSUME Core, Statement, NEW N, N = Len(frames), NEW f, f = F
  PROVE  /\ Evaluating /\ Running /\ due = <<>> /\ dropping = <<>> /\ frames # <<>>
         /\ N \in Nat \ {0} /\ N \in DOMAIN frames /\ f = frames[N] /\ f \in FrameType
         /\ Shape(f) /\ LoopShape(f) /\ HeapGood /\ HeapTyped /\ Placed /\ f.spent = <<>>
         /\ f.scratch = {} /\ ~f.transient
         /\ f.blocks \in Seq(BlockType) /\ f.blocks # <<>> /\ f.vals \in Seq(OperandType)
         /\ f.loops \in Seq(LoopType)
         /\ Len(f.blocks) \in Nat \ {0} /\ DOMAIN f.blocks = 1 .. Len(f.blocks)
         /\ f.blocks[Len(f.blocks)].kind # "arm"
         /\ \A l \in DOMAIN f.loops : f.loops[l].depth \in Nat /\ f.loops[l].depth < Len(f.blocks)
<1>1. Evaluating /\ Running /\ ~f.transient /\ f.blocks[Len(f.blocks)].kind # "arm"
  BY DEF Statement, Evaluating, Block
<1>2. /\ due = <<>> /\ dropping = <<>> /\ frames # <<>>
      /\ N \in Nat \ {0} /\ N \in DOMAIN frames /\ f = frames[N] /\ f \in FrameType
      /\ Shape(f) /\ LoopShape(f) /\ HeapGood /\ HeapTyped /\ Placed /\ f.spent = <<>>
      /\ f.blocks \in Seq(BlockType) /\ f.vals \in Seq(OperandType) /\ f.loops \in Seq(LoopType)
  BY <1>1, Going DEF HeapGood
<1>3. f.scratch = {} /\ f.blocks # <<>>
  BY <1>1, <1>2 DEF Shape
<1>4. Len(f.blocks) \in Nat \ {0} /\ DOMAIN f.blocks = 1 .. Len(f.blocks)
  BY <1>2, <1>3
<1>5. \A l \in DOMAIN f.loops : f.loops[l].depth \in Nat /\ f.loops[l].depth < Len(f.blocks)
  BY <1>1, LoopsBelow
<1> QED
  BY <1>1, <1>2, <1>3, <1>4, <1>5

\* A frame with other blocks, operands and loops.
LEMMA NewFrameIs ==
  ASSUME NEW f \in FrameType, NEW B \in Seq(BlockType), NEW V \in Seq(OperandType), NEW L \in Seq(LoopType),
         NEW G, G = [f EXCEPT !.blocks = B, !.vals = V, !.loops = L]
  PROVE  /\ G \in FrameType /\ G.blocks = B /\ G.vals = V /\ G.loops = L
         /\ G.spent = f.spent /\ G.unit = f.unit /\ G.transient = f.transient /\ G.scratch = f.scratch
BY DEF FrameType

\* Blocks, names and loops are added to the frame, and none is changed.
Extends(f, G) ==
  /\ \A b \in DOMAIN f.blocks :
       /\ b \in DOMAIN G.blocks /\ G.blocks[b].kind = f.blocks[b].kind
       /\ \A k \in DOMAIN f.blocks[b].names :
            k \in DOMAIN G.blocks[b].names /\ G.blocks[b].names[k] = f.blocks[b].names[k]
       /\ b < Len(f.blocks) => G.blocks[b] = f.blocks[b]
  /\ \A l \in DOMAIN f.loops : l \in DOMAIN G.loops /\ G.loops[l] = f.loops[l]

\* Loops and names stay as they are in a frame that gains blocks, names or
\* loops.
LEMMA Extended ==
  ASSUME NEW f \in FrameType, NEW G \in FrameType, Extends(f, G), LoopShape(f),
         \A l \in DOMAIN f.loops : f.loops[l].depth \in Nat /\ f.loops[l].depth < Len(f.blocks)
  PROVE  /\ \A l \in DOMAIN f.loops : LoopAt(G, l)
         /\ \A d, a : Keeps(f, d, a) => Keeps(G, d, a)
         /\ \A b \in DOMAIN f.blocks : \A k \in DOMAIN f.blocks[b].names : NameStays(f, G, b, k)
<1>1. /\ Len(f.blocks) \in Nat /\ DOMAIN f.blocks = 1 .. Len(f.blocks)
      /\ Len(G.blocks) \in Nat /\ DOMAIN G.blocks = 1 .. Len(G.blocks)
  BY FrameParts
<1>2. Len(f.blocks) <= Len(G.blocks)
  <2>1. CASE Len(f.blocks) = 0
    BY <1>1, <2>1
  <2>2. CASE Len(f.blocks) # 0
    <3>1. Len(f.blocks) \in DOMAIN f.blocks
      BY <1>1, <2>2
    <3> QED
      BY <1>1, <3>1 DEF Extends
  <2> QED
    BY <2>1, <2>2
<1>3. ASSUME NEW l \in DOMAIN f.loops
      PROVE  LoopAt(G, l)
  <2>1. PICK d : d = f.loops[l].depth
    OBVIOUS
  <2>2. d \in Nat /\ d < Len(f.blocks) /\ G.loops[l] = f.loops[l] /\ d < Len(G.blocks) /\ LoopAt(f, l)
    BY <1>1, <1>2, <2>1 DEF Extends, LoopShape
  <2>3. d \in DOMAIN f.blocks /\ d + 1 \in DOMAIN f.blocks /\ f.blocks[d].kind # "arm" /\ f.blocks[d + 1].kind = "loop"
    BY <1>1, <2>1, <2>2 DEF LoopAt
  <2>4. /\ d \in DOMAIN G.blocks /\ G.blocks[d].kind # "arm" /\ G.blocks[d + 1].kind = "loop"
        /\ G.blocks[d] = f.blocks[d]
    BY <2>2, <2>3 DEF Extends
  <2>5. \A b \in 1 .. d : b \in DOMAIN f.blocks /\ G.blocks[b] = f.blocks[b]
    BY <1>1, <2>2 DEF Extends
  <2>6. f.loops[l].mine => f.loops[l].arr # Null
    BY <2>2 DEF LoopAt
  <2>7. f.loops[l].arr # Null =>
          /\ f.blocks[d].names # <<>>
          /\ \A b \in 1 .. d : \A k \in DOMAIN f.blocks[b].names :
               /\ f.blocks[b].names[k].name = f.loops[l].var <=> AtVar(f, l, b, k)
               /\ AtVar(f, l, b, k) => ~f.blocks[b].names[k].own
    BY <2>1, <2>2 DEF LoopAt
  <2>8. \A b \in 1 .. d : \A k : AtVar(G, l, b, k) <=> AtVar(f, l, b, k)
    BY <2>2, <2>5 DEF AtVar
  <2>9. G.loops[l].arr # Null =>
          /\ G.blocks[d].names # <<>>
          /\ \A b \in 1 .. d : \A k \in DOMAIN G.blocks[b].names :
               /\ G.blocks[b].names[k].name = G.loops[l].var <=> AtVar(G, l, b, k)
               /\ AtVar(G, l, b, k) => ~G.blocks[b].names[k].own
    BY <2>2, <2>4, <2>5, <2>7, <2>8
  <2>10. /\ d < Len(G.blocks) => G.blocks[d + 1].kind = "loop"
         /\ d = Len(G.blocks) => G.vals = <<>> /\ ~G.transient
         /\ G.loops[l].mine => G.loops[l].arr # Null
    BY <1>1, <2>2, <2>4, <2>6
  <2>11. G.loops[l].depth = d
    BY <2>1, <2>2
  <2> QED
    BY <2>4, <2>9, <2>10, <2>11 DEF LoopAt
<1>4. ASSUME NEW d, NEW a, Keeps(f, d, a)
      PROVE  Keeps(G, d, a)
  <2>1. CASE \E b \in DOMAIN f.blocks : b <= d /\
                 \E k \in DOMAIN f.blocks[b].names : f.blocks[b].names[k].own /\ f.blocks[b].names[k].ref = a
    BY <2>1 DEF Extends, Keeps
  <2>2. CASE \E l \in DOMAIN f.loops : f.loops[l].depth < d /\ f.loops[l].mine /\ f.loops[l].arr = a
    BY <2>2 DEF Extends, Keeps
  <2> QED
    BY <1>4, <2>1, <2>2 DEF Keeps
<1>5. ASSUME NEW b \in DOMAIN f.blocks, NEW k \in DOMAIN f.blocks[b].names
      PROVE  NameStays(f, G, b, k)
  <2>1. ASSUME NEW l \in DOMAIN f.loops, AtVar(f, l, b, k)
        PROVE  l \in DOMAIN G.loops /\ AtVar(G, l, b, k) /\ G.loops[l].arr = f.loops[l].arr
    <3>1. b = f.loops[l].depth /\ b < Len(f.blocks)
      BY <2>1 DEF AtVar
    <3>2. G.blocks[b] = f.blocks[b] /\ l \in DOMAIN G.loops /\ G.loops[l] = f.loops[l]
      BY <3>1 DEF Extends
    <3> QED
      BY <2>1, <3>2 DEF AtVar
  <2>2. G.blocks[b].kind = f.blocks[b].kind /\ G.blocks[b].names[k] = f.blocks[b].names[k]
    BY DEF Extends
  <2> QED
    BY <2>1, <2>2 DEF NameStays
<1> QED
  BY <1>3, <1>4, <1>5

\* The loops of a frame that is extended, and the one that is added.
LEMMA LoopsExtended ==
  ASSUME Core, Statement, NEW N, N = Len(frames), NEW f, f = F, NEW G \in FrameType, Extends(f, G),
         \/ G.loops = f.loops
         \/ \E m \in LoopType :
              /\ G.loops = Append(f.loops, m) /\ m.depth = Len(f.blocks) /\ LoopAt(G, Len(f.loops) + 1)
              /\ m.arr # Null => mem[m.arr] = "heap" /\ (~m.mine => Guard(N, Len(f.blocks), m.arr))
  PROVE  LoopShape(G) /\ LoopsFit(N, f, G)
<1>1. /\ f \in FrameType /\ LoopShape(f) /\ Running /\ f.loops \in Seq(LoopType) /\ Len(f.blocks) \in Nat
      /\ \A l \in DOMAIN f.loops : f.loops[l].depth \in Nat /\ f.loops[l].depth < Len(f.blocks)
  BY StatementFacts
<1>2. /\ \A l \in DOMAIN f.loops : LoopAt(G, l)
      /\ \A d, a : Keeps(f, d, a) => Keeps(G, d, a)
  BY <1>1, Extended
<1>3. \A l \in DOMAIN f.loops : G.loops[l] = f.loops[l]
  BY DEF Extends
<1>4. \A l, m \in DOMAIN f.loops : l < m => f.loops[l].depth < f.loops[m].depth
  BY <1>1 DEF LoopShape
<1>5. \A l \in DOMAIN f.loops : f.loops[l].arr # Null =>
        mem[f.loops[l].arr] = "heap" /\ (~f.loops[l].mine => Guard(N, f.loops[l].depth, f.loops[l].arr))
  BY <1>1, LoopOld
<1>6. CASE G.loops = f.loops
  <2>1. LoopShape(G)
    BY <1>2, <1>4, <1>6 DEF LoopShape
  <2>2. LoopsFit(N, f, G)
    BY <1>2, <1>5, <1>6 DEF LoopsFit
  <2> QED
    BY <2>1, <2>2
<1>7. ASSUME NEW m \in LoopType, G.loops = Append(f.loops, m), m.depth = Len(f.blocks), LoopAt(G, Len(f.loops) + 1),
             m.arr # Null => mem[m.arr] = "heap" /\ (~m.mine => Guard(N, Len(f.blocks), m.arr))
      PROVE  LoopShape(G) /\ LoopsFit(N, f, G)
  <2>1. /\ DOMAIN G.loops = 1 .. Len(f.loops) + 1 /\ DOMAIN f.loops = 1 .. Len(f.loops) /\ Len(f.loops) \in Nat
        /\ G.loops[Len(f.loops) + 1] = m
    BY <1>1, <1>7, AppendFacts
  <2>2. \A l \in DOMAIN G.loops : l \in DOMAIN f.loops \/ l = Len(f.loops) + 1
    BY <2>1
  <2>3. \A l \in DOMAIN G.loops : LoopAt(G, l)
    BY <1>2, <1>7, <2>2
  <2>4. ASSUME NEW l \in DOMAIN G.loops, NEW k \in DOMAIN G.loops, l < k
        PROVE  G.loops[l].depth < G.loops[k].depth
    <3>1. l \in DOMAIN f.loops
      BY <2>1, <2>4
    <3>2. CASE k \in DOMAIN f.loops
      BY <1>3, <1>4, <2>4, <3>1, <3>2
    <3>3. CASE k = Len(f.loops) + 1
      BY <1>1, <1>3, <1>7, <2>1, <3>1, <3>3
    <3> QED
      BY <2>2, <3>2, <3>3
  <2>5. LoopShape(G)
    BY <2>3, <2>4 DEF LoopShape
  <2>6. ASSUME NEW k \in DOMAIN G.loops, G.loops[k].arr # Null
        PROVE  /\ mem[G.loops[k].arr] = "heap"
               /\ ~G.loops[k].mine => Guard(N, G.loops[k].depth, G.loops[k].arr)
    <3>1. CASE k \in DOMAIN f.loops
      BY <1>3, <1>5, <2>6, <3>1
    <3>2. CASE k = Len(f.loops) + 1
      BY <1>7, <2>1, <2>6, <3>2
    <3> QED
      BY <2>2, <3>1, <3>2
  <2>7. LoopsFit(N, f, G)
    BY <1>2, <2>6 DEF LoopsFit
  <2> QED
    BY <2>5, <2>7
<1> QED
  BY <1>6, <1>7

\* A statement that takes an operand takes the only one.
LEMMA WholeFacts ==
  ASSUME Core, Whole, NEW N, N = Len(frames), NEW f, f = F, NEW v, v = Top(F.vals)
  PROVE  /\ Statement /\ Done /\ Running
         /\ v \in OperandType /\ v.ref \in Addr /\ v.st \in {"own", "borrow"} /\ mem[v.ref] # "none"
         /\ mem[v.ref] = "heap" => hdr[v.ref] > 0
         /\ v.st = "borrow" => Guard(N, Len(f.blocks), v.ref)
         /\ Given(v) \in Seq(Addr) /\ \A k \in DOMAIN Given(v) : mem[Given(v)[k]] # "none"
         /\ \A a : Cardinality(Places(Given(v), a)) = Gives(v, a)
         /\ \A a : Cardinality(OwnVals(f.vals, a)) = Gives(v, a)
<1>1. Statement /\ Running /\ Len(F.vals) = 1 /\ Top(F.vals).st # "building"
  BY DEF Whole, Statement, Evaluating
<1>2. F.vals \in Seq(OperandType) /\ F.vals # <<>> /\ Pop(F.vals) = <<>>
  BY <1>1, Going, OneBlock
<1>3. Done
  BY <1>1, <1>2 DEF Done
<1>4. /\ v \in OperandType /\ v.ref \in Addr /\ v.st \in {"own", "borrow"} /\ mem[v.ref] # "none"
      /\ mem[v.ref] = "heap" => hdr[v.ref] > 0
      /\ v.st = "borrow" => Guard(N, Len(f.blocks), v.ref)
      /\ Given(v) \in Seq(Addr) /\ \A k \in DOMAIN Given(v) : mem[Given(v)[k]] # "none"
      /\ \A a : Cardinality(Places(Given(v), a)) = Gives(v, a)
  BY <1>1, <1>3, TopVal
<1>5. ASSUME NEW a
      PROVE  Cardinality(OwnVals(f.vals, a)) = Gives(v, a)
  <2>1. Cardinality(OwnVals(F.vals, a)) = Cardinality(OwnVals(<<>>, a)) + Gives(v, a)
    BY <1>2, ValsPop
  <2>2. Cardinality(OwnVals(<<>>, a)) = 0 /\ Gives(v, a) \in {0, 1}
    BY CountsEmpty, GivesIs
  <2>3. f.vals = F.vals
    OBVIOUS
  <2> QED
    BY <2>1, <2>2, <2>3
<1> QED
  BY <1>1, <1>3, <1>4, <1>5

\* What an added loop must be.
LoopsAdd(f, G, N) ==
  \/ G.loops = f.loops
  \/ \E m \in LoopType :
       /\ G.loops = Append(f.loops, m) /\ m.depth = Len(f.blocks) /\ LoopAt(G, Len(f.loops) + 1)
       /\ m.arr # Null => mem[m.arr] = "heap" /\ (~m.mine => Guard(N, Len(f.blocks), m.arr))

NamesAdd(f, G) ==
  \A b \in DOMAIN G.blocks : \A k \in DOMAIN G.blocks[b].names :
    (b \in DOMAIN f.blocks /\ k \in DOMAIN f.blocks[b].names) \/ NameNew(G, b, k)

SameFrame(f, G) ==
  /\ G \in FrameType /\ G.vals = <<>> /\ G.spent = f.spent /\ G.unit = f.unit
  /\ G.transient = f.transient /\ G.scratch = f.scratch

\* A statement that only adds to the frame.
LEMMA ExtendStep ==
  ASSUME Core, Statement, HeapStep, NEW refs \in Seq(Addr), Dropped(refs), lifted' = lifted, BuiltAlone,
         NEW N, N = Len(frames), NEW f, f = F, NEW G, SameFrame(f, G), frames' = Append(Under, G),
         PartsMove(f, G, refs, Zero), Shape(G), Extends(f, G), LoopsAdd(f, G, N), NamesAdd(f, G)
  PROVE  Core'
<1>1. /\ G \in FrameType /\ G.vals = <<>> /\ G.spent = f.spent /\ G.unit = f.unit /\ G.scratch = f.scratch
  BY DEF SameFrame
<1>2. /\ Running /\ f \in FrameType /\ f.spent = <<>> /\ f.scratch = {} /\ LoopShape(f)
      /\ f.blocks[Len(f.blocks)].kind # "arm"
      /\ \A l \in DOMAIN f.loops : f.loops[l].depth \in Nat /\ f.loops[l].depth < Len(f.blocks)
  BY StatementFacts
<1>3. LoopShape(G) /\ LoopsFit(N, f, G)
  BY <1>1, LoopsExtended DEF LoopsAdd
<1>4. \A b \in DOMAIN f.blocks : \A k \in DOMAIN f.blocks[b].names : NameStays(f, G, b, k)
  BY <1>1, <1>2, Extended
<1>5. NamesFit(f, G)
  BY <1>4 DEF NamesFit, NamesAdd
<1>6. Abandons(Zero)
  BY ZeroAbandons
<1>7. G.spent = <<>> /\ G.scratch = {}
  BY <1>1, <1>2
<1> QED
  BY <1>1, <1>2, <1>3, <1>5, <1>6, <1>7, StatementStep

\* A name is bound in the innermost block of the frame.
Binding(f, G, e, K, J) ==
  /\ Shape(G) /\ Extends(f, G)
  /\ \A b \in DOMAIN G.blocks : \A k \in DOMAIN G.blocks[b].names :
       (b \in DOMAIN f.blocks /\ k \in DOMAIN f.blocks[b].names) \/ (b = K /\ k = J)
  /\ K \in DOMAIN G.blocks /\ G.blocks[K].names[J] = e /\ J \in Nat /\ K \in Nat
  /\ G.blocks[K].kind # "arm" /\ Len(G.blocks) = K
  /\ J = Len(G.blocks[K].names) /\ J \in DOMAIN G.blocks[K].names
  /\ \A k \in DOMAIN G.blocks[K].names : k # J =>
       k \in DOMAIN f.blocks[K].names /\ G.blocks[K].names[k] = f.blocks[K].names[k]
  /\ \A a : Cardinality(OwnBlocks(G.blocks, a)) = Cardinality(OwnBlocks(f.blocks, a)) + One(e.own /\ e.ref = a)
  /\ \A a : Cardinality(OwnBlocks(f.blocks, a)) \in Nat

\* A frame that gains a name in its innermost block keeps its shape.
LEMMA FrameBinds ==
  ASSUME NEW f \in FrameType, NEW G \in FrameType, Shape(f), f.blocks[Len(f.blocks)].kind # "arm",
         NEW e \in EntryType, G.blocks = Bind(f.blocks, e),
         G.scratch = {}, e.own => e.ref # Null,
         \A k \in DOMAIN f.blocks[Len(f.blocks)].names : f.blocks[Len(f.blocks)].names[k].name # e.name,
         NEW K, K = Len(f.blocks), NEW J, J = Len(f.blocks[Len(f.blocks)].names) + 1,
         \A l \in DOMAIN f.loops : l \in DOMAIN G.loops /\ G.loops[l] = f.loops[l]
  PROVE  Binding(f, G, e, K, J)
<1>1. f.blocks \in Seq(BlockType) /\ f.blocks # <<>>
  BY FrameParts DEF Shape
<1>2. PICK s, t : s = f.blocks /\ t = G.blocks
  OBVIOUS
<1>3. t = Bind(s, e) /\ s \in Seq(BlockType) /\ s # <<>>
  BY <1>1, <1>2
<1>4. /\ t \in Seq(BlockType) /\ Len(t) = Len(s) /\ DOMAIN t = 1 .. Len(s) /\ t # <<>>
      /\ \A b \in 1 .. Len(s) : b # Len(s) => t[b] = s[b]
      /\ t[Len(s)].kind = s[Len(s)].kind
      /\ s[Len(s)].names \in Seq(EntryType)
      /\ t[Len(s)].names = Append(s[Len(s)].names, e)
      /\ \A a : Cardinality(OwnBlocks(t, a)) = Cardinality(OwnBlocks(s, a)) + One(e.own /\ e.ref = a)
      /\ \A a : Cardinality(OwnBlocks(s, a)) \in Nat
  <2>1. BindsTo(s, e, t)
    BY <1>3, BlocksBind
  <2> QED
    BY <2>1 DEF BindsTo
<1>5. K = Len(s) /\ K \in Nat \ {0} /\ DOMAIN s = 1 .. K /\ DOMAIN t = 1 .. K /\ K \in 1 .. K /\ Len(t) = K
  BY <1>2, <1>3, <1>4
<1>6. PICK u, w : u = s[K].names /\ w = t[K].names
  OBVIOUS
<1>7. /\ u \in Seq(EntryType) /\ w = Append(u, e) /\ J = Len(u) + 1 /\ Len(u) \in Nat
      /\ DOMAIN w = 1 .. J /\ DOMAIN u = 1 .. J - 1 /\ w[J] = e /\ \A k \in 1 .. J - 1 : w[k] = u[k]
  <2>1. u \in Seq(EntryType) /\ w = Append(u, e) /\ J = Len(u) + 1
    BY <1>2, <1>4, <1>5, <1>6
  <2>2. /\ Len(u) \in Nat /\ DOMAIN w = 1 .. Len(u) + 1 /\ DOMAIN u = 1 .. Len(u)
        /\ w[Len(u) + 1] = e /\ \A k \in 1 .. Len(u) : w[k] = u[k]
    BY <2>1, AppendFacts
  <2>3. 1 .. J - 1 = 1 .. Len(u)
    BY <2>1, <2>2
  <2> QED
    BY <2>1, <2>2, <2>3
<1>8. /\ J \in Nat \ {0} /\ J = Len(w) /\ \A k \in DOMAIN w : k \in DOMAIN u \/ k = J
  BY <1>7
<1>9. \A b \in DOMAIN t : b \in DOMAIN s /\ t[b].kind = s[b].kind /\ (b # K => t[b] = s[b])
  BY <1>4, <1>5
<1>10. Extends(f, G)
  <2>1. ASSUME NEW b \in DOMAIN s
        PROVE  /\ b \in DOMAIN t /\ t[b].kind = s[b].kind
               /\ \A k \in DOMAIN s[b].names : k \in DOMAIN t[b].names /\ t[b].names[k] = s[b].names[k]
               /\ b < Len(s) => t[b] = s[b]
    <3>1. CASE b = K
      <4>1. \A k \in DOMAIN u : k \in DOMAIN w /\ w[k] = u[k]
        BY <1>7
      <4>2. K \in DOMAIN t /\ t[K].kind = s[K].kind /\ ~(K < Len(s))
        BY <1>5, <1>9
      <4> QED
        BY <1>6, <3>1, <4>1, <4>2
    <3>2. CASE b # K
      BY <1>5, <1>9, <3>2
    <3> QED
      BY <3>1, <3>2
  <2> QED
    BY <1>2, <2>1 DEF Extends
<1>11. Shape(G)
  <2>1. /\ \A b \in DOMAIN s : s[b].kind = "fn" <=> b = 1
        /\ \A b, c \in DOMAIN s : b < c /\ s[b].kind = "arm" => s[c].kind = "arm"
        /\ \A b \in DOMAIN s : \A j, k \in DOMAIN s[b].names :
             j # k => s[b].names[j].name # s[b].names[k].name
        /\ \A b \in DOMAIN s : \A k \in DOMAIN s[b].names :
             s[b].names[k].own => s[b].names[k].ref # Null /\ s[b].kind # "arm"
    BY <1>2 DEF Shape
  <2>2. /\ \A b \in DOMAIN t : t[b].kind = "fn" <=> b = 1
        /\ \A b, c \in DOMAIN t : b < c /\ t[b].kind = "arm" => t[c].kind = "arm"
    BY <1>9, <2>1
  <2>3. \A k \in DOMAIN u : u[k].name # e.name
    BY <1>2, <1>5, <1>6
  <2>4. ASSUME NEW b \in DOMAIN t
        PROVE  /\ \A j, k \in DOMAIN t[b].names : j # k => t[b].names[j].name # t[b].names[k].name
               /\ \A k \in DOMAIN t[b].names : t[b].names[k].own => t[b].names[k].ref # Null /\ t[b].kind # "arm"
    <3>1. CASE b # K
      BY <1>9, <2>1, <3>1
    <3>2. CASE b = K
      <4>1. /\ \A j, k \in DOMAIN u : j # k => u[j].name # u[k].name
            /\ \A k \in DOMAIN u : u[k].own => u[k].ref # Null
        BY <1>5, <1>6, <2>1
      <4>2. \A j \in DOMAIN u : w[j] = u[j]
        BY <1>7
      <4>3. ASSUME NEW j \in DOMAIN w, NEW k \in DOMAIN w, j # k
            PROVE  w[j].name # w[k].name
        <5>1. CASE j \in DOMAIN u /\ k \in DOMAIN u
          BY <4>1, <4>2, <4>3, <5>1
        <5>2. CASE j \in DOMAIN u /\ k = J
          BY <1>7, <2>3, <4>2, <5>2
        <5>3. CASE k \in DOMAIN u /\ j = J
          BY <1>7, <2>3, <4>2, <5>3
        <5> QED
          BY <1>8, <4>3, <5>1, <5>2, <5>3
      <4>4. \A k \in DOMAIN w : w[k].own => w[k].ref # Null
        BY <1>7, <1>8, <4>1, <4>2
      <4>5. t[K].kind # "arm"
        BY <1>2, <1>4, <1>5
      <4> QED
        BY <1>6, <3>2, <4>3, <4>4, <4>5
    <3> QED
      BY <3>1, <3>2
  <2>5. /\ \A b \in DOMAIN G.blocks : G.blocks[b].kind = "fn" <=> b = 1
        /\ \A b, c \in DOMAIN G.blocks : b < c /\ G.blocks[b].kind = "arm" => G.blocks[c].kind = "arm"
    BY <1>2, <2>2
  <2>8. /\ \A b \in DOMAIN t : \A j, k \in DOMAIN t[b].names : j # k => t[b].names[j].name # t[b].names[k].name
        /\ \A b \in DOMAIN t : \A k \in DOMAIN t[b].names :
             t[b].names[k].own => t[b].names[k].ref # Null /\ t[b].kind # "arm"
    BY <2>4
  <2>6. /\ \A b \in DOMAIN G.blocks : \A j, k \in DOMAIN G.blocks[b].names :
             j # k => G.blocks[b].names[j].name # G.blocks[b].names[k].name
        /\ \A b \in DOMAIN G.blocks : \A k \in DOMAIN G.blocks[b].names :
             G.blocks[b].names[k].own => G.blocks[b].names[k].ref # Null /\ G.blocks[b].kind # "arm"
    BY <1>2, <2>8, ZenonT(60)
  <2>7. G.blocks # <<>>
    BY <1>2, <1>4
  <2> QED
    BY <2>5, <2>6, <2>7 DEF Shape
<1>12. \A b \in DOMAIN t : \A k \in DOMAIN t[b].names :
         (b \in DOMAIN s /\ k \in DOMAIN s[b].names) \/ (b = K /\ k = J)
  <2>1. ASSUME NEW b \in DOMAIN t, NEW k \in DOMAIN t[b].names
        PROVE  (b \in DOMAIN s /\ k \in DOMAIN s[b].names) \/ (b = K /\ k = J)
    <3>1. CASE b = K
      BY <1>5, <1>6, <1>8, <3>1
    <3>2. CASE b # K
      BY <1>9, <3>2
    <3> QED
      BY <3>1, <3>2
  <2> QED
    BY <2>1
<1>13. t[K].names[J] = e /\ J \in DOMAIN t[K].names /\ J = Len(t[K].names) /\ t[K].kind # "arm"
  <2>1. J \in DOMAIN w
    BY <1>7, <1>8
  <2> QED
    BY <1>2, <1>4, <1>5, <1>6, <1>7, <1>8, <2>1
<1>14. \A k \in DOMAIN t[K].names : k # J => k \in DOMAIN s[K].names /\ t[K].names[k] = s[K].names[k]
  BY <1>6, <1>7, <1>8
<1> QED
  BY <1>2, <1>4, <1>5, <1>8, <1>10, <1>11, <1>12, <1>13, <1>14 DEF Binding

\* A block is opened.
LEMMA FrameOpens ==
  ASSUME NEW f \in FrameType, NEW G \in FrameType, Shape(f), f.blocks[Len(f.blocks)].kind # "arm",
         NEW x \in BlockType, G.blocks = Append(f.blocks, x), x.kind \in {"if", "loop"}, x.names = <<>>,
         G.scratch = {}, \A l \in DOMAIN f.loops : l \in DOMAIN G.loops /\ G.loops[l] = f.loops[l]
  PROVE  /\ Shape(G) /\ Extends(f, G)
         /\ \A b \in DOMAIN G.blocks : \A k \in DOMAIN G.blocks[b].names :
               b \in DOMAIN f.blocks /\ k \in DOMAIN f.blocks[b].names
         /\ \A a : Cardinality(OwnBlocks(G.blocks, a)) = Cardinality(OwnBlocks(f.blocks, a))
<1>1. f.blocks \in Seq(BlockType) /\ f.blocks # <<>>
  BY FrameParts DEF Shape
<1>2. PICK s, t, n : s = f.blocks /\ t = G.blocks /\ n = Len(s)
  OBVIOUS
<1>3. t = Append(s, x) /\ s \in Seq(BlockType) /\ s # <<>>
  BY <1>1, <1>2
<1>4. /\ Len(t) = n + 1 /\ n \in Nat /\ DOMAIN t = 1 .. n + 1 /\ DOMAIN s = 1 .. n
      /\ t[n + 1] = x /\ \A k \in 1 .. n : t[k] = s[k]
  BY <1>2, <1>3, AppendFacts
<1>5. n # 0 /\ t # <<>>
  BY <1>2, <1>3, <1>4
<1>6. \A b \in DOMAIN t : (b \in DOMAIN s /\ t[b] = s[b]) \/ (b = n + 1 /\ t[b] = x)
  BY <1>4
<1>7. Extends(f, G)
  <2>1. \A b \in DOMAIN s : b \in DOMAIN t /\ t[b] = s[b]
    BY <1>4
  <2> QED
    BY <1>2, <2>1 DEF Extends
<1>8. DOMAIN x.names = {}
  OBVIOUS
<1>9. Shape(G)
  <2>1. /\ \A b \in DOMAIN s : s[b].kind = "fn" <=> b = 1
        /\ \A b \in DOMAIN s : \A j, k \in DOMAIN s[b].names :
             j # k => s[b].names[j].name # s[b].names[k].name
        /\ \A b \in DOMAIN s : \A k \in DOMAIN s[b].names :
             s[b].names[k].own => s[b].names[k].ref # Null /\ s[b].kind # "arm"
    BY <1>2 DEF Shape
  <2>2. \A b \in DOMAIN s : s[b].kind # "arm"
    BY <1>2, NoArms
  <2>3. \A b \in DOMAIN t : t[b].kind # "arm"
    BY <1>6, <2>2
  <2>4. \A b \in DOMAIN t : t[b].kind = "fn" <=> b = 1
    <3>1. x.kind # "fn" /\ n + 1 # 1
      BY <1>4, <1>5
    <3> QED
      BY <1>6, <2>1, <3>1
  <2>5. \A b \in DOMAIN t : \A j, k \in DOMAIN t[b].names :
             j # k => t[b].names[j].name # t[b].names[k].name
    BY <1>6, <1>8, <2>1
  <2>6. \A b \in DOMAIN t : \A k \in DOMAIN t[b].names :
             t[b].names[k].own => t[b].names[k].ref # Null /\ t[b].kind # "arm"
    BY <1>6, <1>8, <2>1
  <2> QED
    BY <1>2, <1>5, <2>3, <2>4, <2>5, <2>6 DEF Shape
<1>10. \A b \in DOMAIN t : \A k \in DOMAIN t[b].names : b \in DOMAIN s /\ k \in DOMAIN s[b].names
  BY <1>6, <1>8
<1>11. ASSUME NEW a
       PROVE  Cardinality(OwnBlocks(t, a)) = Cardinality(OwnBlocks(s, a))
  <2>1. Cardinality(OwnBlocks(t, a)) = Cardinality(OwnBlocks(s, a)) + NamesOwned(x.names, a)
    BY <1>3, BlocksAppend
  <2>2. NamesOwned(x.names, a) = 0 /\ Cardinality(OwnBlocks(s, a)) \in Nat
    BY <1>3, BlocksFinite, CountsEmpty DEF NamesOwned
  <2> QED
    BY <2>1, <2>2
<1> QED
  BY <1>2, <1>7, <1>9, <1>10, <1>11

\* The stock of a value is a number.
LEMMA StockInt ==
  ASSUME HeapTyped, NEW a \in Addr
  PROVE  Stock(a) \in Int
<1>1. hdr[a] \in Int
  BY DEF HeapTyped
<1> QED
  BY <1>1, WordsFinite DEF Stock

\* The stock of a value is a number after a step.
LEMMA StockIntNext ==
  ASSUME HeapTyped', NEW a \in Addr
  PROVE  Stock(a)' \in Int
<1>1. hdr'[a] \in Int
  BY DEF HeapTyped
<1>2. Stock(a)' = IF mem'[a] = "heap" THEN hdr'[a] - Cardinality(Heap!Words(a)') ELSE 0
  BY DEF Stock
<1> QED
  BY <1>1, <1>2, WordsFiniteNext

\* The operand taken is the new owner's reference, or the owner has its own.
LEMMA RetainedTaken ==
  ASSUME Core, Running, Done, NEW w, w = Top(F.vals), RetainIf(w.st = "borrow", w.ref),
         mem' = mem, body' = body, dropping' = dropping, payload' = payload
  PROVE  /\ HeapStep /\ BuiltAlone
         /\ \A a \in Addr : mem'[a] = "heap" => Stock(a)' + Gives(w, a) = Stock(a) + One(w.ref = a)
<1>1. PICK c \in BOOLEAN : c <=> w.st = "borrow"
  OBVIOUS
<1>2. RetainIf(c, w.ref)
  BY <1>1 DEF RetainIf
<1>3. /\ w \in OperandType /\ w.ref \in Addr /\ mem[w.ref] # "none"
      /\ mem[w.ref] = "heap" => hdr[w.ref] > 0
      /\ w.st = "borrow" => Guard(Len(frames), Len(F.blocks), w.ref)
      /\ HeapTyped /\ Placed
  BY TopVal
<1>4. /\ HeapGood /\ dropping = <<>> /\ Len(frames) \in DOMAIN frames /\ F \in FrameType
  BY Going
<1>5. c => (mem[w.ref] \in {"const", "frame"} \/ (mem[w.ref] = "heap" /\ hdr[w.ref] > 0))
  <2>1. mem[w.ref] \in {"none", "heap", "frame", "const"}
    BY <1>3 DEF HeapTyped
  <2> QED
    BY <1>3, <2>1
<1>6. /\ HeapStep
      /\ \A b \in Addr : hdr'[b] = hdr[b] + One(c /\ b = w.ref /\ mem[b] = "heap")
      /\ \A b \in Addr : Stock(b)' = Stock(b) + One(c /\ b = w.ref /\ mem[b] = "heap")
  <2>1. PICK r : r = w.ref
    OBVIOUS
  <2>2. r \in Addr /\ RetainIf(c, r) /\ (c => (mem[r] \in {"const", "frame"} \/ (mem[r] = "heap" /\ hdr[r] > 0)))
    BY <1>2, <1>3, <1>5, <2>1
  <2>3. /\ HeapStep
        /\ \A b \in Addr : hdr'[b] = hdr[b] + One(c /\ b = r /\ mem[b] = "heap")
        /\ \A b \in Addr : Stock(b)' = Stock(b) + One(c /\ b = r /\ mem[b] = "heap")
    BY <1>4, <2>2, Retained
  <2> QED
    BY <2>1, <2>3
<1>7. BuiltAlone
  <2>1. ASSUME NEW b \in Addr, mem[b] = "heap", hdr'[b] # hdr[b]
        PROVE  \E n \in DOMAIN frames : \E d \in Nat : Guard(n, d, b)
    <3>1. hdr[b] \in Int
      BY <1>3 DEF HeapTyped
    <3>2. c /\ b = w.ref
      BY <1>6, <2>1, <3>1 DEF One
    <3>3. Len(F.blocks) \in Nat
      BY <1>4, FrameParts
    <3> QED
      BY <1>1, <1>3, <1>4, <3>2, <3>3
  <2> QED
    BY <2>1, BuildersKept
<1>8. ASSUME NEW a \in Addr, mem'[a] = "heap"
      PROVE  Stock(a)' + Gives(w, a) = Stock(a) + One(w.ref = a)
  <2>1. Stock(a) \in Int
    BY <1>3, StockInt
  <2>2. Stock(a)' = Stock(a) + One(c /\ a = w.ref /\ mem[a] = "heap")
    BY <1>6
  <2>3. One(c /\ a = w.ref /\ mem[a] = "heap") + Gives(w, a) = One(w.ref = a)
        /\ One(c /\ a = w.ref /\ mem[a] = "heap") \in {0, 1} /\ Gives(w, a) \in {0, 1} /\ One(w.ref = a) \in {0, 1}
    <3>1. mem[a] = "heap"
      BY <1>8
    <3>2. One(c /\ a = w.ref /\ mem[a] = "heap") = (IF c /\ a = w.ref THEN 1 ELSE 0)
      BY <3>1 DEF One
    <3>3. Gives(w, a) = (IF ~c /\ w.ref = a THEN 1 ELSE 0) /\ One(w.ref = a) = (IF w.ref = a THEN 1 ELSE 0)
      BY <1>1 DEF Gives, One
    <3> QED
      BY <3>2, <3>3
  <2> QED
    BY <2>1, <2>2, <2>3
<1> QED
  BY <1>6, <1>7, <1>8

\* What the new owners and the operand taken make of the counts.
Adds(f, G, refs) ==
  \A a \in Addr : mem'[a] = "heap" =>
    \E x, y, z, p \in Nat :
      /\ Cardinality(OwnBlocks(G.blocks, a)) = Cardinality(OwnBlocks(f.blocks, a)) + x
      /\ Cardinality(OwnVals(f.vals, a)) = y
      /\ Cardinality(OwnLoops(G.loops, a)) = Cardinality(OwnLoops(f.loops, a)) + z
      /\ Cardinality(Places(refs, a)) = p
      /\ Stock(a)' + y = Stock(a) + x + z + p

\* The arithmetic of a step that takes the operands and adds names or loops.
LEMMA SixParts ==
  ASSUME NEW s \in Int, NEW t \in Int, NEW b \in Nat, NEW l \in Nat, NEW x \in Nat, NEW y \in Nat,
         NEW z \in Nat, NEW p \in Nat, t + y = s + x + z + p
  PROVE  t + (b + y + l) = s + (b + x + 0 + (l + z)) + p + 0
OBVIOUS

\* The accounts of a frame that gains names or loops for the operands it takes.
LEMMA ExtendMoves ==
  ASSUME HeapTyped, HeapTyped', NEW f \in FrameType, NEW G \in FrameType, G.vals = <<>>, NEW refs,
         Adds(f, G, refs)
  PROVE  PartsMove(f, G, refs, Zero)
<1>1. SUFFICES ASSUME NEW a \in Addr, mem'[a] = "heap"
               PROVE  Stock(a)' + (Cardinality(OwnBlocks(f.blocks, a)) + Cardinality(OwnVals(f.vals, a)) + Cardinality(OwnLoops(f.loops, a))) =
                       Stock(a) + (Cardinality(OwnBlocks(G.blocks, a)) + Cardinality(OwnVals(G.vals, a)) + Cardinality(OwnLoops(G.loops, a)))
                        + Cardinality(Places(refs, a)) + Zero[a]
  BY DEF PartsMove
<1>2. PICK x, y, z, p \in Nat :
      /\ Cardinality(OwnBlocks(G.blocks, a)) = Cardinality(OwnBlocks(f.blocks, a)) + x
      /\ Cardinality(OwnVals(f.vals, a)) = y
      /\ Cardinality(OwnLoops(G.loops, a)) = Cardinality(OwnLoops(f.loops, a)) + z
      /\ Cardinality(Places(refs, a)) = p
      /\ Stock(a)' + y = Stock(a) + x + z + p
  BY <1>1 DEF Adds
<1>3. PICK b, l, s, t : b = Cardinality(OwnBlocks(f.blocks, a)) /\ l = Cardinality(OwnLoops(f.loops, a))
                        /\ s = Stock(a) /\ t = Stock(a)'
  OBVIOUS
<1>4. b \in Nat /\ l \in Nat
  <2>1. f.blocks \in Seq(BlockType) /\ f.loops \in Seq(LoopType)
    BY FrameParts
  <2> QED
    BY <1>3, <2>1, BlocksFinite, CountsFinite
<1>5. s \in Int /\ t \in Int
  BY <1>3, StockInt, StockIntNext
<1>6. t + (b + y + l) = s + (b + x + 0 + (l + z)) + p + 0
  <2>1. t + y = s + x + z + p
    BY <1>2, <1>3
  <2> QED
    BY <1>4, <1>5, <2>1, SixParts
<1>7. Cardinality(OwnVals(G.vals, a)) = 0 /\ Zero[a] = 0
  BY CountsEmpty, ZeroAbandons
<1> QED
  BY <1>2, <1>3, <1>6, <1>7

Remade(f, B, V, L) == [f EXCEPT !.vals = V, !.loops = L, !.blocks = B]

\* A frame whose statement has taken its operands.
LEMMA FrameBoth ==
  ASSUME NEW f \in FrameType, NEW B \in Seq(BlockType), NEW L \in Seq(LoopType), f.scratch = {},
         NEW V, V = <<>>, NEW G, G = Remade(f, B, V, L)
  PROVE  SameFrame(f, G) /\ G \in FrameType /\ G.blocks = B /\ G.loops = L /\ G.vals = V /\ G.scratch = {}
<1>1. V \in Seq(OperandType)
  OBVIOUS
<1>2. /\ G \in FrameType /\ G.blocks = B /\ G.loops = L /\ G.vals = V /\ G.scratch = f.scratch
      /\ G.spent = f.spent /\ G.unit = f.unit /\ G.transient = f.transient
  BY <1>1 DEF FrameType, Remade
<1> QED
  BY <1>2 DEF SameFrame

\* let keeps the invariant: the name owns its value (gen_stmt Let).
LEMMA LetStep ==
  ASSUME Core, lifted \subseteq Leaks, lifted' = lifted, NEW n \in Var, Let(n)
  PROVE  Core'
<1>1. PICK f, w, N, e : f = F /\ w = Top(F.vals) /\ N = Len(frames) /\ e = Entry(n, w.ref, TRUE)
  OBVIOUS
<1>2. /\ Whole /\ RetainIf(w.st = "borrow", w.ref)
      /\ SetFrame([f EXCEPT !.vals = <<>>, !.blocks[Len(f.blocks)].names = Append(@, e)])
      /\ UNCHANGED <<mem, body, dropping, payload, due, lost>>
      /\ \A k \in DOMAIN f.blocks[Len(f.blocks)].names : f.blocks[Len(f.blocks)].names[k].name # n
  <2>1. Lift("redeclare", \A k \in 1 .. Len(Block.names) : Block.names[k].name # n)
        => \A k \in 1 .. Len(Block.names) : Block.names[k].name # n
    BY DEF Lift, Leaks
  <2>2. \A k \in 1 .. Len(Block.names) : Block.names[k].name # n
    BY <2>1 DEF Let
  <2>3. Whole
    BY DEF Let
  <2>4. Running
    BY <2>3 DEF Whole, Statement, Evaluating
  <2>5. F.blocks \in Seq(BlockType) /\ F.blocks # <<>>
    BY <2>4, Going DEF Shape
  <2>6. Len(F.blocks) \in DOMAIN F.blocks
    BY <2>5
  <2>7. Block.names \in Seq(EntryType) /\ Block = f.blocks[Len(f.blocks)]
    <3>1. Block = f.blocks[Len(f.blocks)] /\ Block = F.blocks[Len(F.blocks)]
      BY <1>1 DEF Block
    <3>2. F.blocks[Len(F.blocks)] \in BlockType
      BY <2>5, <2>6
    <3> QED
      BY <3>1, <3>2 DEF BlockType
  <2>8. \A k \in DOMAIN Block.names : Block.names[k].name # n
    BY <2>2, <2>7
  <2> QED
    BY <1>1, <2>3, <2>7, <2>8 DEF Let
<1>3. /\ Statement /\ Done /\ Running
      /\ w \in OperandType /\ w.ref \in Addr /\ w.st \in {"own", "borrow"} /\ mem[w.ref] # "none"
      /\ \A a : Cardinality(OwnVals(f.vals, a)) = Gives(w, a)
  BY <1>1, <1>2, WholeFacts
<1>4. /\ HeapStep /\ BuiltAlone
      /\ \A a \in Addr : mem'[a] = "heap" => Stock(a)' + Gives(w, a) = Stock(a) + One(w.ref = a)
  BY <1>1, <1>2, <1>3, RetainedTaken
<1>5. Dropped(<<>>)
  BY <1>2, DropsNothing
<1>6. /\ f \in FrameType /\ Shape(f) /\ f.scratch = {} /\ f.blocks \in Seq(BlockType) /\ f.blocks # <<>>
      /\ f.blocks[Len(f.blocks)].kind # "arm" /\ HeapTyped /\ f.loops \in Seq(LoopType)
  BY <1>1, <1>3, StatementFacts
<1>7. e \in EntryType /\ e.own /\ e.ref = w.ref /\ e.name = n /\ e.ref # Null
  BY <1>1, <1>3, OwnershipAssumption DEF Entry, EntryType
<1>8. PICK G : G = [f EXCEPT !.vals = <<>>, !.blocks = Bind(f.blocks, e)]
  OBVIOUS
<1>9. frames' = Append(Under, G)
  BY <1>2, <1>6, <1>8 DEF SetFrame, Bind, FrameType
<1>10. Bind(f.blocks, e) \in Seq(BlockType)
  BY <1>6, <1>7, BlocksBind DEF BindsTo
<1>11. SameFrame(f, G) /\ G \in FrameType /\ G.blocks = Bind(f.blocks, e) /\ G.loops = f.loops /\ G.vals = <<>>
       /\ G.scratch = {}
  <2>1. PICK B, V : B = Bind(f.blocks, e) /\ V = <<>>
    OBVIOUS
  <2>2. f \in FrameType /\ B \in Seq(BlockType) /\ f.loops \in Seq(LoopType) /\ f.scratch = {}
    BY <1>6, <1>10, <2>1
  <2>3. G = Remade(f, B, V, f.loops)
    BY <1>8, <2>1, <2>2 DEF FrameType, Remade
  <2>4. SameFrame(f, G) /\ G \in FrameType /\ G.blocks = B /\ G.loops = f.loops /\ G.vals = V /\ G.scratch = {}
    BY <2>1, <2>2, <2>3, FrameBoth
  <2> QED
    BY <2>1, <2>4
<1>12. PICK K, J : K = Len(f.blocks) /\ J = Len(f.blocks[Len(f.blocks)].names) + 1
  OBVIOUS
<1>13. Binding(f, G, e, K, J)
  <2>1. \A l \in DOMAIN f.loops : l \in DOMAIN G.loops /\ G.loops[l] = f.loops[l]
    BY <1>11
  <2>2. e.own => e.ref # Null
    BY <1>7
  <2>3. \A k \in DOMAIN f.blocks[Len(f.blocks)].names : f.blocks[Len(f.blocks)].names[k].name # e.name
    BY <1>2, <1>7
  <2> QED
    BY <1>6, <1>7, <1>11, <1>12, <2>1, <2>2, <2>3, FrameBinds
<1>14. NamesAdd(f, G)
  BY <1>3, <1>7, <1>13 DEF NamesAdd, NameNew, Binding
<1>15. LoopsAdd(f, G, N)
  BY <1>11 DEF LoopsAdd
<1>16. Adds(f, G, <<>>)
  <2>1. ASSUME NEW a \in Addr, mem'[a] = "heap"
        PROVE  \E x, y, z, p \in Nat :
                  /\ Cardinality(OwnBlocks(G.blocks, a)) = Cardinality(OwnBlocks(f.blocks, a)) + x
                  /\ Cardinality(OwnVals(f.vals, a)) = y
                  /\ Cardinality(OwnLoops(G.loops, a)) = Cardinality(OwnLoops(f.loops, a)) + z
                  /\ Cardinality(Places(<<>>, a)) = p
                  /\ Stock(a)' + y = Stock(a) + x + z + p
    <3>1. PICK x, y, l : x = One(w.ref = a) /\ y = Gives(w, a) /\ l = Cardinality(OwnLoops(f.loops, a))
      OBVIOUS
    <3>2. x \in Nat /\ y \in Nat
      BY <3>1, GivesIs
    <3>3. l \in Nat /\ Stock(a) \in Int
      BY <1>6, <3>1, CountsFinite, StockInt
    <3>4. One(e.own /\ e.ref = a) = x
      BY <1>7, <3>1 DEF One
    <3>5. Cardinality(OwnBlocks(G.blocks, a)) = Cardinality(OwnBlocks(f.blocks, a)) + x
      BY <1>13, <3>4 DEF Binding
    <3>6. Cardinality(OwnLoops(G.loops, a)) = Cardinality(OwnLoops(f.loops, a)) + 0
      BY <1>11, <3>1, <3>3
    <3>7. Cardinality(Places(<<>>, a)) = 0
      BY CountsEmpty
    <3>8. Stock(a)' + y = Stock(a) + x + 0 + 0
      BY <1>4, <2>1, <3>1, <3>2, <3>3
    <3>9. Cardinality(OwnVals(f.vals, a)) = y
      BY <1>3, <3>1
    <3> QED
      BY <3>2, <3>5, <3>6, <3>7, <3>8, <3>9
  <2> QED
    BY <2>1 DEF Adds
<1>17. PartsMove(f, G, <<>>, Zero)
  <2>1. HeapTyped'
    BY <1>4 DEF HeapStep
  <2> QED
    BY <1>6, <1>11, <1>16, <2>1, ExtendMoves
<1>18. <<>> \in Seq(Addr)
  OBVIOUS
<1>19. Shape(G) /\ Extends(f, G)
  BY <1>13 DEF Binding
<1> QED
  BY <1>1, <1>3, <1>4, <1>5, <1>9, <1>11, <1>14, <1>15, <1>17, <1>18, <1>19, ExtendStep
=============================================================================
