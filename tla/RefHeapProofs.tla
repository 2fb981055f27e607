--------------------------- MODULE RefHeapProofs ---------------------------
(***************************************************************************)
(* What RefHeap promises, for every set of addresses, every number of      *)
(* words and every bound.  The inductive invariant is HeapInv: the counts  *)
(* are exact, only heap values have words and outside owners, no word      *)
(* dangles, and the values whose drop block runs are the distinct heap     *)
(* values with count zero.                                                 *)
(***************************************************************************)
EXTENDS RefHeap, FiniteSetTheorems, SequenceTheorems, WellFoundedInduction, TLAPS

\* A set of natural numbers that is not empty has a least member.
LEMMA LeastNat ==
  ASSUME NEW S \in SUBSET Nat, S # {}
  PROVE  \E n \in S : \A m \in S : n <= m
<1> DEFINE Below == {p \in Nat \X Nat : p[1] < p[2]}
<1>1. IsWellFoundedOn(Below, Nat)
  BY NatLessThanWellFounded DEF OpToRel
<1>2. \E n \in S : \A m \in S : <<m, n>> \notin Below
  <2> HIDE DEF Below
  <2> QED
    BY <1>1, WFMin
<1>3. PICK n \in S : \A m \in S : <<m, n>> \notin Below
  BY <1>2
<1>4. \A m \in S : ~(m < n)
  BY <1>3
<1> QED
  BY <1>4

\* Constants are where they were placed; constants and frame values are immortal.
Immortals ==
  /\ \A a \in Addr : mem[a] = "const" <=> a \in Const
  /\ \A a \in Addr : mem[a] \in {"const", "frame"} => hdr[a] = Immortal

\* Only heap values have counted words, and only they have outside owners.
HeapOnly ==
  \A a \in Addr : mem[a] # "heap" => body[a] = Empty /\ ext[a] = 0

\* A word holds a heap value or a constant.
WordsLive ==
  \A a \in Addr, i \in Idx :
    body[a][i] # Null => mem[body[a][i]] \in {"heap", "const"}

\* The values being dropped are distinct heap values nobody owns any more.
DropStack ==
  /\ \A k \in 1 .. Len(dropping) : mem[dropping[k]] = "heap" /\ hdr[dropping[k]] = 0
  /\ \A k, l \in 1 .. Len(dropping) : k # l => dropping[k] # dropping[l]

HeapInv ==
  /\ TypeOK
  /\ Immortals
  /\ HeapOnly
  /\ WordsLive
  /\ CountExact
  /\ DropStack

----------------------------------------------------------------------------
\* The owners of a value on the heap are finitely many, so they can be counted.
LEMMA WordsFinite ==
  ASSUME NEW a
  PROVE  IsFiniteSet(Words(a)) /\ Cardinality(Words(a)) \in Nat
<1>1. IsFiniteSet(Addr \X Idx)
  <2>1. 1 \in Int /\ Width \in Int
    BY BoundAssumption
  <2>2. IsFiniteSet(Idx)
    BY <2>1, FS_Interval DEF Idx
  <2>3. IsFiniteSet(Addr)
    BY AddrAssumption
  <2> QED
    BY <2>2, <2>3, FS_Product
<1>2. Words(a) \in SUBSET (Addr \X Idx)
  BY DEF Words
<1> QED
  BY <1>1, <1>2, FS_Subset, FS_CardinalityType

\* Filling an empty word gives the value stored one more owner on the heap and
\* leaves the others as they were.
LEMMA FillWord ==
  ASSUME TypeOK, NEW p \in Addr, NEW i \in Idx, NEW v \in Addr,
         body[p][i] = Null, body' = [body EXCEPT ![p][i] = v]
  PROVE  /\ Words(v)' = Words(v) \cup {<<p, i>>}
         /\ Cardinality(Words(v)') = Cardinality(Words(v)) + 1
         /\ \A a \in Addr : a # v => Words(a)' = Words(a)
<1>1. v # Null
  BY AddrAssumption
<1>2. \A w \in Addr \X Idx :
        body'[w[1]][w[2]] = IF w = <<p, i>> THEN v ELSE body[w[1]][w[2]]
  BY DEF TypeOK
<1>3. Words(v)' = Words(v) \cup {<<p, i>>}
  BY <1>2 DEF Words
<1>4. <<p, i>> \notin Words(v)
  BY <1>1 DEF Words
<1>5. \A a \in Addr : a # v => Words(a)' = Words(a)
  BY <1>2, AddrAssumption DEF Words
<1> QED
  BY <1>3, <1>4, <1>5, WordsFinite, FS_AddElement

\* Clearing a word takes one owner on the heap from the value it held.
LEMMA ClearWord ==
  ASSUME TypeOK, NEW p \in Addr, NEW i \in Idx, NEW v \in Addr,
         body[p][i] = v, body' = [body EXCEPT ![p][i] = Null]
  PROVE  /\ Words(v)' = Words(v) \ {<<p, i>>}
         /\ Cardinality(Words(v)) = Cardinality(Words(v)') + 1
         /\ Cardinality(Words(v)') \in Nat
         /\ \A a \in Addr : a # v => Words(a)' = Words(a)
<1>1. \A w \in Addr \X Idx :
        body'[w[1]][w[2]] = IF w = <<p, i>> THEN Null ELSE body[w[1]][w[2]]
  BY DEF TypeOK
<1>2. Words(v)' = Words(v) \ {<<p, i>>}
  BY <1>1, AddrAssumption DEF Words
<1>3. <<p, i>> \in Words(v)
  BY DEF Words
<1>4. \A a \in Addr : a # v => Words(a)' = Words(a)
  BY <1>1, AddrAssumption DEF Words
<1>5. IsFiniteSet(Words(v)) /\ Cardinality(Words(v)) \in Nat
  BY WordsFinite
<1>6. /\ Cardinality(Words(v) \ {<<p, i>>}) = Cardinality(Words(v)) - 1
      /\ Cardinality(Words(v) \ {<<p, i>>}) \in Nat
  BY <1>3, <1>5, FS_RemoveElement, FS_CardinalityType
<1> QED
  BY <1>2, <1>4, <1>5, <1>6

\* Actions that write no word leave every value's owners on the heap alone.
LEMMA SameWords ==
  ASSUME UNCHANGED body
  PROVE  \A a : Words(a)' = Words(a)
BY DEF Words

\* A value somebody owns, on the heap, has a positive count; one whose count is
\* zero has no owner at all.
LEMMA HeldCount ==
  ASSUME HeapInv, NEW a \in Addr, mem[a] = "heap"
  PROVE  hdr[a] >= 0 /\ (Held(a) <=> hdr[a] > 0)
<1>1. hdr[a] = ext[a] + Cardinality(Words(a)) /\ ext[a] \in Nat
  BY DEF HeapInv, CountExact, TypeOK
<1>2. Cardinality(Words(a)) \in Nat /\ (Cardinality(Words(a)) = 0 <=> Words(a) = {})
  BY WordsFinite, FS_EmptySet
<1> QED
  BY <1>1, <1>2 DEF Held

\* Pushing onto the stack of drop blocks.
LEMMA Push ==
  ASSUME NEW s \in Seq(Addr), NEW a \in Addr
  PROVE  /\ Append(s, a) \in Seq(Addr)
         /\ Len(Append(s, a)) = Len(s) + 1
         /\ Append(s, a)[Len(s) + 1] = a
         /\ \A k \in 1 .. Len(s) : Append(s, a)[k] = s[k]
OBVIOUS

\* Popping it.
LEMMA PopFacts ==
  ASSUME NEW s \in Seq(Addr), s # <<>>
  PROVE  /\ Top(s) \in Addr
         /\ Len(s) \in 1 .. Len(s)
         /\ Pop(s) \in Seq(Addr)
         /\ Len(Pop(s)) = Len(s) - 1
         /\ \A k \in 1 .. Len(Pop(s)) : Pop(s)[k] = s[k] /\ k \in 1 .. Len(s)
<1>1. Len(s) \in Nat /\ Len(s) # 0
  OBVIOUS
<1>2. Len(s) - 1 \in Nat /\ Len(s) - 1 <= Len(s)
  BY <1>1
<1>3. Top(s) \in Addr /\ Len(s) \in 1 .. Len(s)
  BY <1>1 DEF Top
<1>4. \A k \in 1 .. Len(s) - 1 : s[k] \in Addr
  BY <1>1
<1>5. 1 \in Int /\ Len(s) - 1 \in Int
  BY <1>1
<1>6. /\ Pop(s) \in Seq(Addr)
      /\ Len(Pop(s)) = IF 1 <= Len(s) - 1 THEN Len(s) - 1 - 1 + 1 ELSE 0
      /\ \A k \in 1 .. Len(s) - 1 - 1 + 1 : Pop(s)[k] = s[1 + k - 1]
  <2> DEFINE n == Len(s) - 1
  <2>1. n \in Int /\ \A k \in 1 .. n : s[k] \in Addr
    BY <1>4, <1>5
  <2> HIDE DEF n
  <2>2. /\ SubSeq(s, 1, n) \in Seq(Addr)
        /\ Len(SubSeq(s, 1, n)) = IF 1 <= n THEN n - 1 + 1 ELSE 0
        /\ \A k \in 1 .. n - 1 + 1 : SubSeq(s, 1, n)[k] = s[1 + k - 1]
    BY <1>5, <2>1, SubSeqProperties
  <2> QED
    BY <2>2 DEF Pop, n
<1>7. Len(Pop(s)) = Len(s) - 1
  <2>1. CASE 1 <= Len(s) - 1
    BY <1>1, <1>6, <2>1
  <2>2. CASE Len(s) = 1
    BY <1>1, <1>6, <2>2
  <2> QED
    BY <1>1, <2>1, <2>2
<1>8. \A k \in 1 .. Len(Pop(s)) : Pop(s)[k] = s[k] /\ k \in 1 .. Len(s)
  BY <1>1, <1>2, <1>6, <1>7
<1> QED
  BY <1>3, <1>6, <1>7, <1>8
----------------------------------------------------------------------------
\* Every initial state satisfies the invariant.
LEMMA InitInv == Init => HeapInv
<1> SUFFICES ASSUME Init PROVE HeapInv
  OBVIOUS
<1>1. TypeOK
  BY AddrAssumption DEF Init, TypeOK, Empty, Immortal
<1>2. Immortals
  BY DEF Init, Immortals
<1>3. HeapOnly /\ WordsLive /\ CountExact
  BY DEF Init, HeapOnly, WordsLive, CountExact, Empty
<1>4. DropStack
  BY DEF Init, DropStack
<1> QED
  BY <1>1, <1>2, <1>3, <1>4 DEF HeapInv

\* Allocation: nobody holds an address that is free, so a count of one is exact.
LEMMA AllocInv ==
  ASSUME HeapInv, NEW a \in Addr, HeapAlloc(a) \/ FrameAlloc(a)
  PROVE  HeapInv'
<1>1. TypeOK'
  <2>1. CASE HeapAlloc(a)
    BY <2>1 DEF HeapInv, TypeOK, HeapAlloc
  <2>2. CASE FrameAlloc(a)
    BY <2>2 DEF HeapInv, TypeOK, FrameAlloc, Immortal
  <2> QED
    BY <2>1, <2>2
<1>2. Immortals'
  <2>1. mem[a] = "none" /\ a \notin Const
    BY DEF HeapInv, Immortals, HeapAlloc, FrameAlloc
  <2>2. CASE HeapAlloc(a)
    BY <2>1, <2>2 DEF HeapInv, TypeOK, Immortals, HeapAlloc
  <2>3. CASE FrameAlloc(a)
    BY <2>1, <2>3 DEF HeapInv, TypeOK, Immortals, FrameAlloc
  <2> QED
    BY <2>2, <2>3
<1>3. HeapOnly'
  BY DEF HeapInv, TypeOK, HeapOnly, HeapAlloc, FrameAlloc
<1>4. \A b \in Addr, i \in Idx : body[b][i] # a
  BY AddrAssumption DEF HeapInv, TypeOK, WordsLive, HeapAlloc, FrameAlloc
<1>5. WordsLive'
  BY <1>4 DEF HeapInv, TypeOK, WordsLive, HeapAlloc, FrameAlloc
<1>6. CountExact'
  <2>1. Words(a) = {} /\ Cardinality(Words(a)) = 0
    BY <1>4, FS_EmptySet DEF Words
  <2>2. \A b : Words(b)' = Words(b)
    BY SameWords DEF HeapAlloc, FrameAlloc
  <2>3. CASE HeapAlloc(a)
    <3>1. SUFFICES ASSUME NEW b \in Addr, mem'[b] = "heap"
                   PROVE  hdr'[b] = ext'[b] + Cardinality(Words(b)')
      BY DEF CountExact
    <3>2. CASE b = a
      <4>1. hdr'[b] = 1 /\ ext'[b] = 1 /\ Cardinality(Words(b)') = 0
        BY <2>1, <2>2, <2>3, <3>2 DEF HeapInv, TypeOK, HeapAlloc
      <4> QED
        BY <4>1
    <3>3. CASE b # a
      BY <2>2, <2>3, <3>1, <3>3 DEF HeapInv, TypeOK, CountExact, HeapAlloc
    <3> QED
      BY <3>2, <3>3
  <2>4. CASE FrameAlloc(a)
    BY <2>2, <2>4 DEF HeapInv, TypeOK, CountExact, FrameAlloc
  <2> QED
    BY <2>3, <2>4
<1>7. DropStack'
  BY DEF DropStack, HeapAlloc, FrameAlloc
<1> QED
  BY <1>1, <1>2, <1>3, <1>5, <1>6, <1>7 DEF HeapInv

\* Unwinding the frame takes no heap value and nothing a word holds.
LEMMA UnwindInv ==
  ASSUME HeapInv, NEW S \in SUBSET Addr, Unwind(S)
  PROVE  HeapInv'
<1>1. TypeOK'
  BY DEF HeapInv, TypeOK, Unwind
<1>2. Immortals'
  BY DEF HeapInv, Immortals, Unwind
<1>3. HeapOnly'
  BY DEF HeapInv, HeapOnly, Unwind
<1>4. WordsLive'
  BY DEF HeapInv, TypeOK, WordsLive, Unwind
<1>5. CountExact'
  <2>1. \A b : Words(b)' = Words(b)
    BY SameWords DEF Unwind
  <2> QED
    BY <2>1 DEF HeapInv, CountExact, Unwind
<1>6. DropStack'
  BY DEF DropStack, Unwind
<1> QED
  BY <1>1, <1>2, <1>3, <1>4, <1>5, <1>6 DEF HeapInv

\* gen_retain gives one more owner one more count.
LEMMA RetainInv ==
  ASSUME HeapInv, NEW a \in Addr, Retain(a)
  PROVE  HeapInv'
<1>1. hdr[a] # Immortal
  BY HeldCount DEF Retain, Immortal
<1>2. TypeOK'
  BY <1>1 DEF HeapInv, TypeOK, Retain, Bumped
<1>3. Immortals' /\ HeapOnly' /\ WordsLive'
  BY <1>1 DEF HeapInv, TypeOK, Immortals, HeapOnly, WordsLive, Retain, Bumped
<1>4. CountExact'
  <2>1. \A b : Words(b)' = Words(b) /\ Cardinality(Words(b)) \in Nat
    BY SameWords, WordsFinite DEF Retain
  <2> QED
    BY <1>1, <2>1 DEF HeapInv, TypeOK, CountExact, Retain, Bumped
<1>5. DropStack'
  BY DEF DropStack, Retain
<1> QED
  BY <1>2, <1>3, <1>4, <1>5 DEF HeapInv

\* A reference handed over moves from outside the heap into a word.
LEMMA StoreInv ==
  ASSUME HeapInv, NEW a \in Addr, NEW v \in Addr, NEW i \in Idx, Store(a, i, v)
  PROVE  HeapInv'
<1>1. TypeOK'
  BY DEF HeapInv, TypeOK, Store
<1>2. Immortals' /\ HeapOnly'
  BY DEF HeapInv, TypeOK, Immortals, HeapOnly, Store, Building
<1>3. WordsLive'
  BY DEF HeapInv, TypeOK, WordsLive, Store
<1>4. CountExact'
  <2>1. /\ Cardinality(Words(v)') = Cardinality(Words(v)) + 1
        /\ \A b \in Addr : b # v => Words(b)' = Words(b)
    BY FillWord DEF HeapInv, Store
  <2>2. Cardinality(Words(v)) \in Nat
    BY WordsFinite
  <2> QED
    BY <2>1, <2>2 DEF HeapInv, TypeOK, CountExact, Store
<1>5. DropStack'
  BY DEF DropStack, Store
<1> QED
  BY <1>1, <1>2, <1>3, <1>4, <1>5 DEF HeapInv

\* retain_stored counts the word it fills, unless the value is a constant.
LEMMA StoreSharedInv ==
  ASSUME HeapInv, NEW a \in Addr, NEW v \in Addr, NEW i \in Idx, StoreShared(a, i, v)
  PROVE  HeapInv'
<1>1. TypeOK'
  BY DEF HeapInv, TypeOK, StoreShared, Bumped
<1>2. mem[v] = "heap" => hdr[v] # Immortal
  BY HeldCount DEF Immortal
<1>3. Immortals' /\ HeapOnly'
  BY <1>2 DEF HeapInv, TypeOK, Immortals, HeapOnly, StoreShared, Building, Bumped
<1>4. WordsLive'
  BY DEF HeapInv, TypeOK, WordsLive, StoreShared
<1>5. CountExact'
  <2>1. /\ Cardinality(Words(v)') = Cardinality(Words(v)) + 1
        /\ \A b \in Addr : b # v => Words(b)' = Words(b)
    BY FillWord DEF HeapInv, StoreShared
  <2>2. Cardinality(Words(v)) \in Nat
    BY WordsFinite
  <2> QED
    BY <1>2, <2>1, <2>2 DEF HeapInv, TypeOK, CountExact, StoreShared, Bumped
<1>6. DropStack'
  BY DEF DropStack, StoreShared
<1> QED
  BY <1>1, <1>3, <1>4, <1>5, <1>6 DEF HeapInv

\* The entry of a release function: a value that had an owner keeps an exact
\* count, and is pushed only when that was the last one.
LEMMA LetGoStack ==
  ASSUME HeapInv, NEW v \in Addr, mem[v] = "heap", Held(v), LetGo(v)
  PROVE  /\ hdr' = [hdr EXCEPT ![v] = @ - 1]
         /\ hdr[v] \in Nat \ {0}
         /\ dropping' \in Seq(Addr)
         /\ \A k \in 1 .. Len(dropping') : mem[dropping'[k]] = "heap" /\ hdr'[dropping'[k]] = 0
         /\ \A k, l \in 1 .. Len(dropping') : k # l => dropping'[k] # dropping'[l]
<1>1. hdr[v] \in Nat \ {0} /\ hdr[v] # Immortal
  BY HeldCount DEF HeapInv, TypeOK, Immortal
<1>2. /\ hdr' = [hdr EXCEPT ![v] = @ - 1]
      /\ dropping' = IF hdr[v] - 1 <= 0 THEN Append(dropping, v) ELSE dropping
  BY <1>1 DEF LetGo
<1>3. \A k \in 1 .. Len(dropping) : dropping[k] \in Addr /\ dropping[k] # v
  BY <1>1 DEF HeapInv, TypeOK, DropStack
<1>4. CASE hdr[v] = 1
  <2>1. dropping' = Append(dropping, v)
    BY <1>2, <1>4
  <2>2. /\ dropping' \in Seq(Addr)
        /\ Len(dropping') = Len(dropping) + 1
        /\ dropping'[Len(dropping) + 1] = v
        /\ \A k \in 1 .. Len(dropping) : dropping'[k] = dropping[k]
    BY <2>1, Push DEF HeapInv, TypeOK
  <2>3. Len(dropping) \in Nat /\ hdr'[v] = 0
    BY <1>2, <1>4 DEF HeapInv, TypeOK
  <2>4. \A k \in 1 .. Len(dropping') : k \in 1 .. Len(dropping) \/ k = Len(dropping) + 1
    BY <2>2, <2>3
  <2> QED
    BY <1>1, <1>2, <1>3, <2>2, <2>3, <2>4 DEF HeapInv, TypeOK, DropStack
<1>5. CASE hdr[v] # 1
  <2>1. dropping' = dropping
    BY <1>1, <1>2, <1>5
  <2> QED
    BY <1>1, <1>2, <1>3, <2>1 DEF HeapInv, TypeOK, DropStack
<1> QED
  BY <1>4, <1>5

\* An owner outside the heap lets go.
LEMMA ReleaseInv ==
  ASSUME HeapInv, NEW a \in Addr, Release(a)
  PROVE  HeapInv'
<1>1. Held(a) /\ mem[a] = "heap" /\ LetGo(a)
  BY DEF Release, Held
<1>2. /\ hdr' = [hdr EXCEPT ![a] = @ - 1]
      /\ hdr[a] \in Nat \ {0}
  BY <1>1, LetGoStack
<1>3. TypeOK'
  BY <1>1, <1>2, LetGoStack DEF HeapInv, TypeOK, Release
<1>4. Immortals' /\ HeapOnly' /\ WordsLive'
  BY <1>2 DEF HeapInv, TypeOK, Immortals, HeapOnly, WordsLive, Release
<1>5. CountExact'
  <2>1. \A b : Words(b)' = Words(b) /\ Cardinality(Words(b)) \in Nat
    BY SameWords, WordsFinite DEF Release
  <2> QED
    BY <1>2, <2>1 DEF HeapInv, TypeOK, CountExact, Release
<1>6. DropStack'
  BY <1>1, LetGoStack DEF DropStack, Release
<1> QED
  BY <1>3, <1>4, <1>5, <1>6 DEF HeapInv

\* A drop block lets go of a word: the owner it takes from the value is that
\* word, so a constant is left alone and a heap value loses exactly one.
LEMMA ReleaseChildInv ==
  ASSUME HeapInv, NEW i \in Idx, ReleaseChild(i)
  PROVE  HeapInv'
<1>1. PICK p \in Addr : p = Top(dropping) /\ mem[p] = "heap"
  BY PopFacts DEF HeapInv, TypeOK, DropStack, ReleaseChild, DropWord, Top
<1>2. PICK v \in Addr :
        /\ body[p][i] = v /\ mem[v] \in {"heap", "const"}
        /\ body' = [body EXCEPT ![p][i] = Null] /\ LetGo(v)
        /\ UNCHANGED <<mem, ext>>
  BY <1>1 DEF HeapInv, TypeOK, WordsLive, ReleaseChild, DropWord
<1>3. Held(v)
  <2>1. <<p, i>> \in Words(v)
    BY <1>1, <1>2 DEF Words
  <2> QED
    BY <2>1 DEF Held
<1>4. /\ Cardinality(Words(v)) = Cardinality(Words(v)') + 1
      /\ Cardinality(Words(v)') \in Nat
      /\ \A b \in Addr : b # v => Words(b)' = Words(b)
  <2>1. TypeOK /\ body[p][i] = v /\ body' = [body EXCEPT ![p][i] = Null]
    BY <1>2 DEF HeapInv
  <2> QED
    BY <2>1, ClearWord
<1>5. HeapOnly' /\ WordsLive'
  BY <1>1, <1>2 DEF HeapInv, TypeOK, HeapOnly, WordsLive
<1>6. body' \in [Addr -> [Idx -> Addr \cup {Null}]]
  BY <1>1, <1>2 DEF HeapInv, TypeOK
<1>7. CASE mem[v] = "const"
  <2>1. UNCHANGED <<hdr, dropping>>
    BY <1>2, <1>7 DEF HeapInv, Immortals, LetGo
  <2>2. TypeOK' /\ Immortals' /\ DropStack'
    BY <1>2, <1>6, <2>1 DEF HeapInv, TypeOK, Immortals, DropStack
  <2>3. CountExact'
    BY <1>2, <1>4, <1>7, <2>1 DEF HeapInv, CountExact
  <2> QED
    BY <1>5, <2>2, <2>3 DEF HeapInv
<1>8. CASE mem[v] = "heap"
  <2>1. /\ hdr' = [hdr EXCEPT ![v] = @ - 1]
        /\ hdr[v] \in Nat \ {0}
    BY <1>2, <1>3, <1>8, LetGoStack
  <2>2. TypeOK'
    BY <1>2, <1>3, <1>6, <1>8, <2>1, LetGoStack DEF HeapInv, TypeOK
  <2>3. Immortals'
    BY <1>2, <1>8, <2>1 DEF HeapInv, TypeOK, Immortals
  <2>4. CountExact'
    <3>1. SUFFICES ASSUME NEW b \in Addr, mem'[b] = "heap"
                   PROVE  hdr'[b] = ext'[b] + Cardinality(Words(b)')
      BY DEF CountExact
    <3>2. hdr[b] = ext[b] + Cardinality(Words(b)) /\ ext'[b] = ext[b] /\ ext[b] \in Nat
      BY <1>2, <3>1 DEF HeapInv, TypeOK, CountExact
    <3>3. CASE b = v
      <4>1. hdr'[b] = hdr[b] - 1
        BY <2>1, <3>3 DEF HeapInv, TypeOK
      <4> QED
        BY <1>4, <3>2, <3>3, <4>1
    <3>4. CASE b # v
      <4>1. hdr'[b] = hdr[b] /\ Words(b)' = Words(b)
        BY <1>4, <2>1, <3>4 DEF HeapInv, TypeOK
      <4> QED
        BY <3>2, <4>1
    <3> QED
      BY <3>3, <3>4
  <2>5. DropStack'
    BY <1>2, <1>3, <1>8, LetGoStack DEF DropStack
  <2> QED
    BY <1>5, <2>2, <2>3, <2>4, <2>5 DEF HeapInv
<1> QED
  BY <1>2, <1>7, <1>8
\* A drop block ends: its value has no words left and nobody holds it.
LEMMA FreeInv ==
  ASSUME HeapInv, Free
  PROVE  HeapInv'
<1>1. PICK p \in Addr :
        /\ p = Top(dropping) /\ mem[p] = "heap" /\ hdr[p] = 0
        /\ mem' = [mem EXCEPT ![p] = "none"] /\ body[p] = Empty
  BY PopFacts DEF HeapInv, TypeOK, DropStack, Free, DropEnd, Top
<1>2. dropping' = Pop(dropping) /\ UNCHANGED <<hdr, body, ext>>
  BY DEF Free, DropEnd
<1>3. ~Held(p)
  BY <1>1, HeldCount
<1>4. ext[p] = 0 /\ \A b \in Addr, i \in Idx : body[b][i] # p
  <2>1. ext[p] \in Nat /\ ~(ext[p] > 0) /\ Words(p) = {}
    BY <1>3 DEF HeapInv, TypeOK, Held
  <2>2. ASSUME NEW b \in Addr, NEW i \in Idx, body[b][i] = p PROVE FALSE
    <3>1. <<b, i>> \in Words(p)
      BY <2>2 DEF Words
    <3> QED
      BY <2>1, <3>1
  <2> QED
    BY <2>1, <2>2
<1>5. /\ dropping' \in Seq(Addr)
      /\ Len(dropping') = Len(dropping) - 1
      /\ \A k \in 1 .. Len(dropping') : dropping'[k] = dropping[k] /\ k \in 1 .. Len(dropping)
      /\ Len(dropping) \in 1 .. Len(dropping) /\ p = dropping[Len(dropping)]
  <2>1. dropping \in Seq(Addr) /\ dropping # <<>>
    BY DEF HeapInv, TypeOK, Free, DropEnd
  <2>2. p = dropping[Len(dropping)]
    BY <1>1 DEF Top
  <2> QED
    BY <1>2, <2>1, <2>2, PopFacts
<1>6. TypeOK'
  BY <1>1, <1>2, <1>5 DEF HeapInv, TypeOK
<1>7. Immortals' /\ HeapOnly'
  BY <1>1, <1>2, <1>4 DEF HeapInv, TypeOK, Immortals, HeapOnly
<1>8. WordsLive'
  BY <1>1, <1>2, <1>4 DEF HeapInv, TypeOK, WordsLive
<1>9. CountExact'
  BY <1>1, <1>2, SameWords DEF HeapInv, TypeOK, CountExact
<1>10. DropStack'
  <2>1. \A k \in 1 .. Len(dropping') : k # Len(dropping)
    <3>1. Len(dropping) \in Nat /\ Len(dropping') = Len(dropping) - 1
      BY <1>5 DEF HeapInv, TypeOK
    <3> QED
      BY <3>1
  <2>2. \A k \in 1 .. Len(dropping') : dropping'[k] # p /\ dropping[k] \in Addr
    <3>1. SUFFICES ASSUME NEW k \in 1 .. Len(dropping')
                   PROVE  dropping'[k] # p /\ dropping[k] \in Addr
      OBVIOUS
    <3>2. k \in 1 .. Len(dropping) /\ dropping'[k] = dropping[k] /\ k # Len(dropping)
      BY <1>5, <2>1
    <3>3. dropping[k] # dropping[Len(dropping)]
      BY <1>5, <3>2 DEF HeapInv, DropStack
    <3> QED
      BY <1>5, <3>2, <3>3 DEF HeapInv, TypeOK
  <2>3. \A k \in 1 .. Len(dropping') : mem'[dropping'[k]] = "heap" /\ hdr'[dropping'[k]] = 0
    <3>1. SUFFICES ASSUME NEW k \in 1 .. Len(dropping')
                   PROVE  mem'[dropping'[k]] = "heap" /\ hdr'[dropping'[k]] = 0
      OBVIOUS
    <3>2. k \in 1 .. Len(dropping) /\ dropping'[k] = dropping[k]
      BY <1>5
    <3>3. mem[dropping[k]] = "heap" /\ hdr[dropping[k]] = 0 /\ dropping[k] # p
      BY <2>2, <3>2 DEF HeapInv, DropStack
    <3> QED
      BY <1>1, <1>2, <2>2, <3>2, <3>3 DEF HeapInv, TypeOK
  <2>4. \A k, l \in 1 .. Len(dropping') : k # l => dropping'[k] # dropping'[l]
    BY <1>5 DEF HeapInv, DropStack
  <2> QED
    BY <2>3, <2>4 DEF DropStack
<1> QED
  BY <1>6, <1>7, <1>8, <1>9, <1>10 DEF HeapInv

\* Every step keeps the invariant.
LEMMA NextInv == HeapInv /\ [Next]_vars => HeapInv'
<1> SUFFICES ASSUME HeapInv, [Next]_vars PROVE HeapInv'
  OBVIOUS
<1>1. CASE \E a \in Addr : HeapAlloc(a) \/ FrameAlloc(a)
  BY <1>1, AllocInv
<1>2. CASE \E a \in Addr : Retain(a)
  BY <1>2, RetainInv
<1>3. CASE \E a \in Addr : Release(a)
  BY <1>3, ReleaseInv
<1>4. CASE \E S \in SUBSET Addr : Unwind(S)
  BY <1>4, UnwindInv
<1>5. CASE \E a, v \in Addr, i \in Idx : Store(a, i, v)
  BY <1>5, StoreInv
<1>6. CASE \E a, v \in Addr, i \in Idx : StoreShared(a, i, v)
  BY <1>6, StoreSharedInv
<1>7. CASE Free
  BY <1>7, FreeInv
<1>8. CASE \E i \in Idx : ReleaseChild(i)
  BY <1>8, ReleaseChildInv
<1>9. CASE UNCHANGED vars
  <2>1. \A b : Words(b)' = Words(b)
    BY <1>9, SameWords DEF vars
  <2> QED
    BY <1>9, <2>1 DEF vars, HeapInv, TypeOK, Immortals, HeapOnly, WordsLive, CountExact, DropStack
<1> QED
  BY <1>1, <1>2, <1>3, <1>4, <1>5, <1>6, <1>7, <1>8, <1>9 DEF Next, Cascade

----------------------------------------------------------------------------
\* The strengthening holds in every reachable state.
THEOREM Inductive == Spec => []HeapInv
<1> QED
  BY InitInv, NextInv, PTL DEF Spec

\* Every part of the heap keeps its type.
THEOREM TypeCorrect == Spec => []TypeOK
<1>1. HeapInv => TypeOK
  BY DEF HeapInv
<1> QED
  BY Inductive, <1>1, PTL

\* Every heap value's header counts its owners, no more and no fewer
\* (gen_retain, release_fn, gen_release_children).
THEOREM CountsAreExact == Spec => []CountExact
<1>1. HeapInv => CountExact
  BY DEF HeapInv
<1> QED
  BY Inductive, <1>1, PTL

\* No owner, in a word or outside the heap, holds a freed address.
THEOREM NoneDangles == Spec => []NoDangling
<1>1. HeapInv => NoDangling
  <2> SUFFICES ASSUME HeapInv, NEW a \in Addr, Held(a)
               PROVE  mem[a] # "none"
    BY DEF NoDangling
  <2>1. CASE ext[a] > 0
    BY <2>1 DEF HeapInv, HeapOnly
  <2>2. CASE Words(a) # {}
    <3>1. PICK b \in Addr, i \in Idx : body[b][i] = a
      BY <2>2 DEF Words
    <3> QED
      BY <3>1, AddrAssumption DEF HeapInv, WordsLive
  <2> QED
    BY <2>1, <2>2 DEF Held
<1> QED
  BY Inductive, <1>1, PTL

\* A string constant stays where it is and its count is never written.
THEOREM ConstantsAreSafe == Spec => []ConstantsStay
<1>1. HeapInv => ConstantsStay
  BY AddrAssumption DEF HeapInv, Immortals, ConstantsStay
<1> QED
  BY Inductive, <1>1, PTL

\* A step that frees a heap value finds it without an owner: the only such step
\* is the end of its drop block, which a count of zero started.
THEOREM FreeIsSafe == Spec => FreedUnowned
<1> DEFINE Freed == \A a \in Addr : mem[a] = "heap" /\ mem'[a] = "none" => ~Held(a)
<1>1. HeapInv /\ [Next]_vars => Freed
  <2> SUFFICES ASSUME HeapInv, [Next]_vars, NEW a \in Addr, mem[a] = "heap", mem'[a] = "none"
               PROVE  ~Held(a)
    OBVIOUS
  <2>1. CASE Free
    <3>1. a = Top(dropping)
      BY <2>1, PopFacts DEF HeapInv, TypeOK, Free, DropEnd
    <3>2. hdr[a] = 0
      BY <2>1, <3>1, PopFacts DEF HeapInv, TypeOK, DropStack, Free, DropEnd, Top
    <3> QED
      BY <3>2, HeldCount
  <2>2. CASE \E S \in SUBSET Addr : Unwind(S)
    BY <2>2 DEF HeapInv, TypeOK, Unwind
  <2>3. CASE \E b \in Addr : HeapAlloc(b) \/ FrameAlloc(b)
    <3>1. PICK b \in Addr : HeapAlloc(b) \/ FrameAlloc(b)
      BY <2>3
    <3>2. mem'[a] # "none"
      BY <3>1 DEF HeapInv, TypeOK, HeapAlloc, FrameAlloc
    <3> QED
      BY <3>2
  <2>4. CASE UNCHANGED mem
    BY <2>4
  <2> QED
    BY <2>1, <2>2, <2>3, <2>4
    DEF Next, Cascade, Retain, Release, Store, StoreShared, ReleaseChild, DropWord, vars
<1> QED
  BY Inductive, <1>1, PTL DEF Spec, FreedUnowned

----------------------------------------------------------------------------
\* Nothing is left behind.  What is needed besides HeapInv: the words of heap
\* values make no circle, and a value whose count is zero is being dropped.

\* Every owner on the heap ranks above what it owns.
OwnersAbove(rank) ==
  \A a \in Addr, i \in Idx : body[a][i] # Null => rank[a] > rank[body[a][i]]

NoCircle == \E rank \in [Addr -> Nat] : OwnersAbove(rank)

ZeroDropping ==
  \A a \in Addr : mem[a] = "heap" /\ hdr[a] = 0 => \E k \in 1 .. Len(dropping) : dropping[k] = a

LeakInv == HeapInv /\ NoCircle /\ ZeroDropping

\* The initial state has no owner at all.
LEMMA InitLeakInv == Init => LeakInv
<1> SUFFICES ASSUME Init PROVE LeakInv
  OBVIOUS
<1>1. HeapInv /\ ZeroDropping
  BY InitInv DEF Init, ZeroDropping
<1>2. NoCircle
  <2> DEFINE rank == [a \in Addr |-> 0]
  <2>1. rank \in [Addr -> Nat] /\ OwnersAbove(rank)
    BY DEF Init, Empty, OwnersAbove
  <2> QED
    BY <2>1 DEF NoCircle
<1> QED
  BY <1>1, <1>2 DEF LeakInv

\* A word is filled only in a value that no word holds, so it may be ranked above
\* whatever it is given; every other step fills no word.
LEMMA FillNoCircle ==
  ASSUME HeapInv, NoCircle, NEW a \in Addr, NEW v \in Addr, NEW i \in Idx,
         Building(a), v # a, body' = [body EXCEPT ![a][i] = v]
  PROVE  NoCircle'
<1>1. PICK rank \in [Addr -> Nat] : OwnersAbove(rank)
  BY DEF NoCircle
<1>2. \A b \in Addr, j \in Idx : body[b][j] # a
  <2>1. Cardinality(Words(a)) = 0 /\ IsFiniteSet(Words(a))
    <3>1. hdr[a] = ext[a] + Cardinality(Words(a)) /\ hdr[a] = 1 /\ ext[a] = 1
      BY DEF HeapInv, CountExact, Building
    <3>2. Cardinality(Words(a)) \in Nat /\ IsFiniteSet(Words(a))
      BY WordsFinite
    <3> QED
      BY <3>1, <3>2
  <2>2. Words(a) = {}
    BY <2>1, FS_EmptySet
  <2>3. ASSUME NEW b \in Addr, NEW j \in Idx, body[b][j] = a PROVE FALSE
    <3>1. <<b, j>> \in Words(a)
      BY <2>3 DEF Words
    <3> QED
      BY <2>2, <3>1
  <2> QED
    BY <2>3
<1> DEFINE higher == [rank EXCEPT ![a] = rank[a] + rank[v] + 1]
<1>3. higher \in [Addr -> Nat]
  OBVIOUS
<1>4. OwnersAbove(higher)'
  <2>1. SUFFICES ASSUME NEW b \in Addr, NEW j \in Idx, body'[b][j] # Null
                 PROVE  higher[b] > higher[body'[b][j]]
    BY DEF OwnersAbove
  <2>2. CASE b = a /\ j = i
    <3>1. body'[b][j] = v /\ higher[v] = rank[v] /\ higher[b] = rank[a] + rank[v] + 1
      BY <2>2 DEF HeapInv, TypeOK
    <3> QED
      BY <3>1
  <2>3. CASE ~(b = a /\ j = i)
    <3>1. body'[b][j] = body[b][j] /\ body[b][j] \in Addr /\ body[b][j] # a
      BY <1>2, <2>1, <2>3 DEF HeapInv, TypeOK
    <3>2. rank[b] > rank[body[b][j]] /\ higher[body[b][j]] = rank[body[b][j]]
      BY <1>1, <2>1, <3>1 DEF OwnersAbove
    <3>3. higher[b] >= rank[b] /\ higher[b] \in Nat
      OBVIOUS
    <3> QED
      BY <3>1, <3>2, <3>3
  <2> QED
    BY <2>2, <2>3
<1> QED
  BY <1>3, <1>4 DEF NoCircle

\* A step that keeps every word, or empties some, makes no circle.
LEMMA EmptyNoCircle ==
  ASSUME NoCircle, \A a \in Addr, i \in Idx : body'[a][i] \in {body[a][i], Null}
  PROVE  NoCircle'
<1>1. PICK rank \in [Addr -> Nat] : OwnersAbove(rank)
  BY DEF NoCircle
<1>2. OwnersAbove(rank)'
  BY <1>1 DEF OwnersAbove
<1> QED
  BY <1>2 DEF NoCircle

\* No step closes a circle.
LEMMA NextNoCircle ==
  ASSUME HeapInv, NoCircle, [Next]_vars
  PROVE  NoCircle'
<1>1. CASE \E a, v \in Addr, i \in Idx : Store(a, i, v) \/ StoreShared(a, i, v)
  BY <1>1, FillNoCircle DEF Store, StoreShared
<1>2. CASE \E i \in Idx : ReleaseChild(i)
  <2>1. \A a \in Addr, i \in Idx : body'[a][i] \in {body[a][i], Null}
    BY <1>2 DEF ReleaseChild, DropWord, HeapInv, TypeOK
  <2> QED
    BY <2>1, EmptyNoCircle
<1>3. CASE UNCHANGED body
  BY <1>3, EmptyNoCircle
<1> QED
  BY <1>1, <1>2, <1>3
  DEF Next, Cascade, HeapAlloc, FrameAlloc, Unwind, Retain, Release, Free, DropEnd, vars

\* LetGo pushes the value whose count it brings to zero.
LEMMA LetGoDrops ==
  ASSUME HeapInv, ZeroDropping, NEW v \in Addr, LetGo(v), UNCHANGED mem
  PROVE  ZeroDropping'
<1>1. SUFFICES ASSUME NEW a \in Addr, mem[a] = "heap", hdr'[a] = 0
               PROVE  \E k \in 1 .. Len(dropping') : dropping'[k] = a
  BY DEF ZeroDropping
<1>2. CASE UNCHANGED <<hdr, dropping>>
  BY <1>1, <1>2 DEF ZeroDropping
<1>3. CASE /\ hdr' = [hdr EXCEPT ![v] = @ - 1]
           /\ dropping' = IF hdr[v] - 1 <= 0 THEN Append(dropping, v) ELSE dropping
  <2>1. dropping \in Seq(Addr) /\ hdr \in [Addr -> Int]
    BY DEF HeapInv, TypeOK
  <2>2. /\ Len(Append(dropping, v)) = Len(dropping) + 1 /\ Len(dropping) \in Nat
        /\ Append(dropping, v)[Len(dropping) + 1] = v
        /\ \A k \in 1 .. Len(dropping) : Append(dropping, v)[k] = dropping[k]
    BY <2>1, Push
  <2>3. CASE a = v
    <3>1. dropping' = Append(dropping, v)
      BY <1>1, <1>3, <2>1, <2>3
    <3> QED
      BY <2>2, <2>3, <3>1
  <2>4. CASE a # v
    <3>1. PICK k \in 1 .. Len(dropping) : dropping[k] = a
      BY <1>1, <1>3, <2>1, <2>4 DEF ZeroDropping
    <3> QED
      BY <1>3, <2>2, <3>1
  <2> QED
    BY <2>3, <2>4
<1> QED
  BY <1>2, <1>3 DEF LetGo

\* A value whose count reaches zero is being dropped until it is freed.
LEMMA NextZeroDropping ==
  ASSUME HeapInv, ZeroDropping, [Next]_vars
  PROVE  ZeroDropping'
<1>1. CASE \E a \in Addr : HeapAlloc(a)
  BY <1>1 DEF HeapAlloc, ZeroDropping, HeapInv, TypeOK
<1>2. CASE \E a \in Addr : FrameAlloc(a)
  BY <1>2 DEF FrameAlloc, ZeroDropping, HeapInv, TypeOK
<1>3. CASE \E a \in Addr : Retain(a)
  <2>1. PICK a \in Addr : Retain(a)
    BY <1>3
  <2>2. hdr[a] >= 0 /\ hdr[a] \in Int
    BY <2>1, HeldCount DEF Retain, HeapInv, TypeOK
  <2> QED
    BY <2>1, <2>2 DEF Retain, Bumped, ZeroDropping, HeapInv, TypeOK, Immortal
<1>4. CASE \E a \in Addr : Release(a)
  BY <1>4, LetGoDrops DEF Release
<1>5. CASE \E S \in SUBSET Addr : Unwind(S)
  BY <1>5 DEF Unwind, ZeroDropping
<1>6. CASE \E a, v \in Addr, i \in Idx : Store(a, i, v)
  BY <1>6 DEF Store, ZeroDropping
<1>7. CASE \E a, v \in Addr, i \in Idx : StoreShared(a, i, v)
  <2>1. PICK a \in Addr, v \in Addr, i \in Idx : StoreShared(a, i, v)
    BY <1>7
  <2>2. mem[v] = "heap" => hdr[v] >= 0 /\ hdr[v] \in Int
    BY HeldCount DEF HeapInv, TypeOK
  <2> QED
    BY <2>1, <2>2 DEF StoreShared, Bumped, ZeroDropping, HeapInv, TypeOK, Immortal
<1>8. CASE \E i \in Idx : ReleaseChild(i)
  <2>1. PICK i \in Idx : ReleaseChild(i)
    BY <1>8
  <2>2. Top(dropping) \in Addr
    BY <2>1, PopFacts DEF HeapInv, TypeOK, ReleaseChild, DropWord
  <2>3. body[Top(dropping)][i] \in Addr /\ LetGo(body[Top(dropping)][i]) /\ UNCHANGED mem
    BY <2>1, <2>2 DEF HeapInv, TypeOK, ReleaseChild, DropWord
  <2> QED
    BY <2>3, LetGoDrops
<1>9. CASE Free
  <2>1. SUFFICES ASSUME NEW a \in Addr, mem'[a] = "heap", hdr[a] = 0
                 PROVE  \E k \in 1 .. Len(dropping') : dropping'[k] = a
    BY <1>9 DEF Free, DropEnd, ZeroDropping
  <2>2. dropping \in Seq(Addr) /\ dropping # <<>> /\ dropping' = Pop(dropping)
    BY <1>9 DEF Free, DropEnd, HeapInv, TypeOK
  <2>3. mem[a] = "heap" /\ a # Top(dropping)
    BY <1>9, <2>1, <2>2, PopFacts DEF Free, DropEnd, HeapInv, TypeOK
  <2>4. PICK k \in 1 .. Len(dropping) : dropping[k] = a
    BY <2>1, <2>3 DEF ZeroDropping
  <2>5. k # Len(dropping) /\ Len(dropping) \in Nat /\ Len(Pop(dropping)) = Len(dropping) - 1
    BY <2>2, <2>3, <2>4, PopFacts DEF Top
  <2>6. k \in 1 .. Len(Pop(dropping))
    BY <2>5
  <2> QED
    BY <2>2, <2>4, <2>6, PopFacts
<1>10. CASE UNCHANGED vars
  BY <1>10 DEF vars, ZeroDropping
<1> QED
  BY <1>1, <1>2, <1>3, <1>4, <1>5, <1>6, <1>7, <1>8, <1>9, <1>10 DEF Next, Cascade

\* Where every member of a finite set has another above it, the set is empty.
LEMMA NoneOnTop ==
  ASSUME NEW H, IsFiniteSet(H), NEW rank \in [H -> Nat],
         \A a \in H : \E b \in H : rank[b] > rank[a]
  PROVE  H = {}
<1> SUFFICES ASSUME H # {} PROVE FALSE
  OBVIOUS
<1> DEFINE Above(a) == {b \in H : rank[b] > rank[a]}
           S == {Cardinality(Above(a)) : a \in H}
<1>1. \A a \in H : IsFiniteSet(Above(a)) /\ Cardinality(Above(a)) \in Nat
  BY FS_Subset, FS_CardinalityType
<1>2. PICK n \in S : \A m \in S : n <= m
  <2>1. S \in SUBSET Nat /\ S # {}
    BY <1>1
  <2> HIDE DEF S
  <2> QED
    BY <2>1, LeastNat
<1>3. PICK a \in H : n = Cardinality(Above(a))
  BY <1>2
<1>4. PICK b \in H : rank[b] > rank[a]
  OBVIOUS
<1>5. Above(b) \subseteq Above(a) /\ b \in Above(a) /\ b \notin Above(b)
  BY <1>4
<1>6. Cardinality(Above(a)) <= Cardinality(Above(b))
  BY <1>2, <1>3
<1>7. Cardinality(Above(b)) <= Cardinality(Above(a)) /\ Cardinality(Above(a)) # Cardinality(Above(b))
  <2> HIDE DEF Above
  <2> QED
    BY <1>1, <1>5, FS_Subset
<1>8. Cardinality(Above(a)) \in Nat /\ Cardinality(Above(b)) \in Nat
  BY <1>1
<1> HIDE DEF Above
<1> QED
  BY <1>6, <1>7, <1>8

\* Reference cycles cannot be built, so when the last owner outside the heap has
\* let go and no release runs, nothing is left on the heap: a value still there
\* would have an owner on the heap that ranks above it, and so would that one.
THEOREM NothingLeaks == Spec => []NothingLeftBehind
<1>1. LeakInv /\ [Next]_vars => LeakInv'
  BY NextInv, NextNoCircle, NextZeroDropping DEF LeakInv
<1>2. LeakInv => NothingLeftBehind
  <2> SUFFICES ASSUME LeakInv, dropping = <<>>, \A a \in Addr : ext[a] = 0
               PROVE  \A a \in Addr : mem[a] # "heap"
    BY DEF NothingLeftBehind
  <2> DEFINE H == {a \in Addr : mem[a] = "heap"}
  <2>1. PICK rank \in [Addr -> Nat] : OwnersAbove(rank)
    BY DEF LeakInv, NoCircle
  <2> DEFINE inner == [a \in H |-> rank[a]]
  <2>2. inner \in [H -> Nat]
    OBVIOUS
  <2>3. IsFiniteSet(H)
    BY AddrAssumption, FS_Subset
  <2>4. ASSUME NEW a \in H PROVE \E b \in H : inner[b] > inner[a]
    <3>1. hdr[a] # 0
      BY DEF LeakInv, ZeroDropping
    <3>2. Held(a)
      BY <3>1, HeldCount DEF LeakInv, HeapInv, TypeOK
    <3>3. Words(a) # {}
      BY <3>2 DEF Held
    <3>4. PICK b \in Addr, i \in Idx : body[b][i] = a
      BY <3>3 DEF Words
    <3>5. body[b] # Empty /\ a # Null
      BY <3>4, AddrAssumption DEF Empty
    <3>6. b \in H
      BY <3>5 DEF LeakInv, HeapInv, HeapOnly
    <3>7. rank[b] > rank[a]
      BY <2>1, <3>4, <3>5 DEF OwnersAbove
    <3> QED
      BY <3>6, <3>7
  <2>5. H = {}
    <3> HIDE DEF H, inner
    <3> QED
      BY <2>2, <2>3, <2>4, NoneOnTop
  <2> QED
    BY <2>5
<1> QED
  BY InitLeakInv, <1>1, <1>2, PTL DEF Spec
=============================================================================
