--------------------------- MODULE OwnershipProofs --------------------------
(***************************************************************************)
(* The ownership discipline is sound, for every set of addresses, every    *)
(* number of words and every bound: the statements, calls and releases     *)
(* keep the invariant Core of OwnershipLemmas, and so do all steps         *)
(* (Inductive).  From it: counts are exact (CountsAreExact) or cover what  *)
(* will be given back (CountsCover), nothing is used after it was freed    *)
(* (NothingUsedAfterFree), only what is documented as lost remains at the  *)
(* end (OnlyTheLostRemain), and the discipline implements the heap's       *)
(* promise (ImplementsHeap).                                               *)
(***************************************************************************)
EXTENDS OwnershipLemmas


\* Where the heap stays, its stock does.
LEMMA StillHeap ==
  ASSUME Core, Running, UNCHANGED <<heapVars, payload>>
  PROVE  HeapStep /\ BuiltAlone /\ HeapTyped /\ HeapTyped' /\ \A a \in Addr : Stock(a)' = Stock(a) /\ Stock(a) \in Int
<1>1. HeapGood /\ HeapTyped
  BY Going DEF HeapGood
<1>2. HeapStep /\ \A a \in Addr : Stock(a)' = Stock(a) /\ hdr'[a] = hdr[a]
  BY <1>1, HeapUntouched
<1>3. BuiltAlone
  BY <1>2, BuildersKept
<1>4. HeapTyped'
  BY <1>2 DEF HeapStep
<1> QED
  BY <1>1, <1>2, <1>3, <1>4, StockInt

\* The blocks as they were.
LEMMA FrameStays ==
  ASSUME NEW f \in FrameType, NEW G \in FrameType, Shape(f), G.blocks = f.blocks, G.scratch = {},
         \A l \in DOMAIN f.loops : l \in DOMAIN G.loops /\ G.loops[l] = f.loops[l]
  PROVE  Shape(G) /\ Extends(f, G) /\ NamesAdd(f, G)
<1>1. Shape(G)
  BY DEF Shape
<1>2. Extends(f, G) /\ NamesAdd(f, G)
  BY DEF Extends, NamesAdd
<1> QED
  BY <1>1, <1>2

\* A loop is added.
LoopGrows(s, m, t) ==
  /\ t \in Seq(LoopType) /\ Len(s) \in Nat /\ t[Len(s) + 1] = m
  /\ \A l \in DOMAIN s : l \in DOMAIN t /\ t[l] = s[l]
  /\ \A a : /\ Cardinality(OwnLoops(t, a)) = Cardinality(OwnLoops(s, a)) + One(m.mine /\ m.arr = a)
            /\ Cardinality(OwnLoops(s, a)) \in Nat

\* What opening a loop does to the list of loops.
LEMMA LoopAdded ==
  ASSUME NEW s \in Seq(LoopType), NEW m \in LoopType
  PROVE  LoopGrows(s, m, Append(s, m))
<1>0. PICK t : t = Append(s, m)
  OBVIOUS
<1>1. /\ t \in Seq(LoopType) /\ Len(s) \in Nat /\ t[Len(s) + 1] = m
      /\ DOMAIN t = 1 .. Len(s) + 1 /\ DOMAIN s = 1 .. Len(s) /\ \A k \in 1 .. Len(s) : t[k] = s[k]
  BY <1>0, AppendFacts
<1>2. \A l \in DOMAIN s : l \in DOMAIN t /\ t[l] = s[l]
  BY <1>1
<1>3. \A a : /\ Cardinality(OwnLoops(t, a)) = Cardinality(OwnLoops(s, a)) + One(m.mine /\ m.arr = a)
             /\ Cardinality(OwnLoops(s, a)) \in Nat
  BY <1>0, LoopsAppend
<1>4. LoopGrows(s, m, t)
  BY <1>1, <1>2, <1>3 DEF LoopGrows
<1> QED
  BY <1>0, <1>4

\* Opening a branch keeps the invariant (gen_stmt If).
LEMMA OpenBranchStep ==
  ASSUME Core, lifted' = lifted, OpenBranch
  PROVE  Core'
<1>1. PICK f, N, x : f = F /\ N = Len(frames) /\ x = [kind |-> "if", base |-> 0, names |-> <<>>]
  OBVIOUS
<1>2. /\ Statement /\ f.vals = <<>> /\ SetFrame([f EXCEPT !.blocks = Append(@, x)])
      /\ UNCHANGED <<heapVars, payload>> /\ UNCHANGED <<due, lost>>
  BY <1>1 DEF OpenBranch, Fresh
<1>3. /\ Running /\ f \in FrameType /\ Shape(f) /\ f.scratch = {} /\ f.blocks \in Seq(BlockType) /\ f.blocks # <<>>
      /\ f.blocks[Len(f.blocks)].kind # "arm" /\ HeapTyped /\ f.loops \in Seq(LoopType)
  BY <1>1, <1>2, StatementFacts
<1>4. HeapStep /\ BuiltAlone /\ HeapTyped' /\ \A a \in Addr : Stock(a)' = Stock(a) /\ Stock(a) \in Int
  BY <1>2, <1>3, StillHeap
<1>5. Dropped(<<>>)
  BY <1>2, DropsNothing
<1>6. x \in BlockType /\ x.kind \in {"if", "loop"} /\ x.names = <<>>
  <2>1. <<>> \in Seq(EntryType)
    OBVIOUS
  <2> QED
    BY <1>1, <2>1 DEF BlockType
<1>7. PICK B, V : B = Append(f.blocks, x) /\ V = <<>>
  OBVIOUS
<1>8. B \in Seq(BlockType)
  BY <1>3, <1>6, <1>7
<1>9. PICK G : G = Remade(f, B, V, f.loops)
  OBVIOUS
<1>10. frames' = Append(Under, G)
  BY <1>2, <1>3, <1>7, <1>9 DEF SetFrame, Remade, FrameType
<1>11. SameFrame(f, G) /\ G \in FrameType /\ G.blocks = B /\ G.loops = f.loops /\ G.vals = V /\ G.scratch = {}
  <2>1. f \in FrameType /\ B \in Seq(BlockType) /\ f.loops \in Seq(LoopType) /\ f.scratch = {}
    BY <1>3, <1>8
  <2>2. V = <<>>
    BY <1>7
  <2> QED
    BY <2>1, <2>2, <1>9, FrameBoth
<1>12. \A l \in DOMAIN f.loops : l \in DOMAIN G.loops /\ G.loops[l] = f.loops[l]
  BY <1>11
<1>13. /\ Shape(G) /\ Extends(f, G)
       /\ \A b \in DOMAIN G.blocks : \A k \in DOMAIN G.blocks[b].names :
               b \in DOMAIN f.blocks /\ k \in DOMAIN f.blocks[b].names
       /\ \A a : Cardinality(OwnBlocks(G.blocks, a)) = Cardinality(OwnBlocks(f.blocks, a))
  <2>1. G.blocks = Append(f.blocks, x)
    BY <1>7, <1>11
  <2> QED
    BY <1>3, <1>6, <1>11, <1>12, <2>1, FrameOpens
<1>14. NamesAdd(f, G)
  BY <1>13 DEF NamesAdd
<1>15. LoopsAdd(f, G, N)
  BY <1>11 DEF LoopsAdd
<1>16. Adds(f, G, <<>>)
  <2>1. ASSUME NEW a \in Addr, mem'[a] = "heap"
        PROVE  \E x1, y, z, p \in Nat :
                  /\ Cardinality(OwnBlocks(G.blocks, a)) = Cardinality(OwnBlocks(f.blocks, a)) + x1
                  /\ Cardinality(OwnVals(f.vals, a)) = y
                  /\ Cardinality(OwnLoops(G.loops, a)) = Cardinality(OwnLoops(f.loops, a)) + z
                  /\ Cardinality(Places(<<>>, a)) = p
                  /\ Stock(a)' + y = Stock(a) + x1 + z + p
    <3>1. Cardinality(OwnBlocks(f.blocks, a)) \in Nat /\ Cardinality(OwnLoops(f.loops, a)) \in Nat
      BY <1>3, BlocksFinite, CountsFinite
    <3>2. Cardinality(OwnBlocks(G.blocks, a)) = Cardinality(OwnBlocks(f.blocks, a)) + 0
      BY <1>13, <3>1
    <3>3. Cardinality(OwnLoops(G.loops, a)) = Cardinality(OwnLoops(f.loops, a)) + 0
      BY <1>11, <3>1
    <3>4. Cardinality(OwnVals(f.vals, a)) = 0 /\ Cardinality(Places(<<>>, a)) = 0
      BY <1>2, CountsEmpty
    <3>5. Stock(a)' + 0 = Stock(a) + 0 + 0 + 0
      BY <1>4
    <3> QED
      BY <3>2, <3>3, <3>4, <3>5
  <2> QED
    BY <2>1 DEF Adds
<1>17. PartsMove(f, G, <<>>, Zero)
  BY <1>3, <1>4, <1>7, <1>11, <1>16, ExtendMoves
<1>18. <<>> \in Seq(Addr)
  OBVIOUS
<1>19. Shape(G) /\ Extends(f, G)
  BY <1>13
<1> QED
  BY <1>1, <1>2, <1>4, <1>5, <1>10, <1>11, <1>14, <1>15, <1>17, <1>18, <1>19, ExtendStep

\* A loop that counts is opened; what was built for its bounds goes.
LEMMA CountingStep ==
  ASSUME Core, lifted' = lifted, Statement, UNCHANGED <<heapVars, payload>>,
         NEW refs \in Seq(Addr), Dropped(refs), NEW N, N = Len(frames), NEW f, f = F,
         \A a : Cardinality(OwnVals(f.vals, a)) = Cardinality(Places(refs, a)),
         NEW V, V = <<>>, frames' = Append(Under, Remade(f, f.blocks, V, Append(f.loops, Loop(Null, FALSE, Null))))
  PROVE  Core'
<1>1. PICK m, L : m = Loop(Null, FALSE, Null) /\ L = Append(f.loops, m)
  OBVIOUS
<1>2. /\ Running /\ f \in FrameType /\ Shape(f) /\ f.scratch = {} /\ ~f.transient /\ f.blocks \in Seq(BlockType) /\ f.blocks # <<>>
      /\ f.blocks[Len(f.blocks)].kind # "arm" /\ HeapTyped /\ f.loops \in Seq(LoopType)
      /\ Len(f.blocks) \in Nat \ {0} /\ DOMAIN f.blocks = 1 .. Len(f.blocks)
  BY StatementFacts
<1>3. HeapStep /\ BuiltAlone /\ HeapTyped' /\ \A a \in Addr : Stock(a)' = Stock(a) /\ Stock(a) \in Int
  BY <1>2, StillHeap
<1>4. m \in LoopType /\ m.depth = Len(f.blocks) /\ m.arr = Null /\ ~m.mine
  BY <1>1, <1>2 DEF LoopType, Loop
<1>5. /\ L \in Seq(LoopType) /\ Len(f.loops) \in Nat /\ L[Len(f.loops) + 1] = m
      /\ \A l \in DOMAIN f.loops : l \in DOMAIN L /\ L[l] = f.loops[l]
      /\ \A a : /\ Cardinality(OwnLoops(L, a)) = Cardinality(OwnLoops(f.loops, a)) + One(m.mine /\ m.arr = a)
                /\ Cardinality(OwnLoops(f.loops, a)) \in Nat
  <2>1. LoopGrows(f.loops, m, L)
    BY <1>1, <1>2, <1>4, LoopAdded
  <2> QED
    BY <2>1 DEF LoopGrows
<1>6. PICK G : G = Remade(f, f.blocks, V, L)
  OBVIOUS
<1>7. SameFrame(f, G) /\ G \in FrameType /\ G.blocks = f.blocks /\ G.loops = L /\ G.vals = V /\ G.scratch = {}
  <2>1. /\ f \in FrameType /\ f.blocks \in Seq(BlockType) /\ L \in Seq(LoopType) /\ f.scratch = {} /\ V = <<>>
        /\ G = Remade(f, f.blocks, V, L)
    BY <1>2, <1>5, <1>6
  <2> QED
    BY <2>1, FrameBoth
<1>8. frames' = Append(Under, G)
  BY <1>1, <1>6
<1>9. \A l \in DOMAIN f.loops : l \in DOMAIN G.loops /\ G.loops[l] = f.loops[l]
  BY <1>5, <1>7
<1>10. Shape(G) /\ Extends(f, G) /\ NamesAdd(f, G)
  BY <1>2, <1>7, <1>9, FrameStays
<1>11. LoopAt(G, Len(f.loops) + 1)
  <2>1. PICK l : l = Len(f.loops) + 1
    OBVIOUS
  <2>2. G.loops[l] = m /\ Len(f.blocks) \in DOMAIN G.blocks /\ G.blocks[Len(f.blocks)].kind # "arm"
        /\ G.vals = <<>> /\ ~G.transient /\ ~(Len(f.blocks) < Len(G.blocks))
    BY <1>2, <1>5, <1>7, <2>1 DEF SameFrame
  <2> QED
    BY <1>4, <2>1, <2>2 DEF LoopAt
<1>12. LoopsAdd(f, G, N)
  BY <1>1, <1>4, <1>7, <1>11 DEF LoopsAdd
<1>13. Adds(f, G, refs)
  <2>1. ASSUME NEW a \in Addr, mem'[a] = "heap"
        PROVE  \E x, y, z, p \in Nat :
                  /\ Cardinality(OwnBlocks(G.blocks, a)) = Cardinality(OwnBlocks(f.blocks, a)) + x
                  /\ Cardinality(OwnVals(f.vals, a)) = y
                  /\ Cardinality(OwnLoops(G.loops, a)) = Cardinality(OwnLoops(f.loops, a)) + z
                  /\ Cardinality(Places(refs, a)) = p
                  /\ Stock(a)' + y = Stock(a) + x + z + p
    <3>1. PICK p : p = Cardinality(Places(refs, a))
      OBVIOUS
    <3>2. p \in Nat /\ Cardinality(OwnBlocks(f.blocks, a)) \in Nat
      BY <1>2, <3>1, BlocksFinite, CountsFinite
    <3>3. Cardinality(OwnBlocks(G.blocks, a)) = Cardinality(OwnBlocks(f.blocks, a)) + 0
      BY <1>7, <3>2
    <3>4. Cardinality(OwnLoops(G.loops, a)) = Cardinality(OwnLoops(f.loops, a)) + 0
      BY <1>4, <1>5, <1>7 DEF One
    <3>5. Cardinality(OwnVals(f.vals, a)) = p
      BY <3>1
    <3>6. Stock(a)' + p = Stock(a) + 0 + 0 + p
      BY <1>3, <3>2
    <3> QED
      BY <3>1, <3>2, <3>3, <3>4, <3>5, <3>6
  <2> QED
    BY <2>1 DEF Adds
<1>14. PartsMove(f, G, refs, Zero)
  BY <1>2, <1>3, <1>7, <1>13, ExtendMoves
<1> QED
  BY <1>3, <1>7, <1>8, <1>10, <1>12, <1>14, ExtendStep

\* A loop that counts keeps the invariant when it is opened (gen_stmt While,
\* For).
LEMMA OpenCountingStep ==
  ASSUME Core, lifted' = lifted, OpenCounting
  PROVE  Core'
<1>1. PICK f, N, m, V : f = F /\ N = Len(frames) /\ m = Loop(Null, FALSE, Null) /\ V = <<>>
  OBVIOUS
<1>2. /\ Statement /\ f.vals = <<>> /\ SetFrame([f EXCEPT !.loops = Append(@, m)])
      /\ UNCHANGED <<heapVars, payload>> /\ UNCHANGED <<due, lost>>
  BY <1>1 DEF OpenCounting, Fresh
<1>3. f \in FrameType
  BY <1>1, <1>2, StatementFacts
<1>4. Dropped(<<>>) /\ <<>> \in Seq(Addr)
  BY <1>2, DropsNothing
<1>5. frames' = Append(Under, Remade(f, f.blocks, V, Append(f.loops, Loop(Null, FALSE, Null))))
  BY <1>1, <1>2, <1>3 DEF SetFrame, Remade, FrameType
<1>6. \A a : Cardinality(OwnVals(f.vals, a)) = Cardinality(Places(<<>>, a))
  BY <1>2, CountsEmpty
<1> QED
  BY <1>1, <1>2, <1>4, <1>5, <1>6, CountingStep

\* A loop over a range value keeps the invariant when it is opened: the range
\* is let go (for_source).
LEMMA OpenRangeStep ==
  ASSUME Core, lifted' = lifted, OpenRange
  PROVE  Core'
<1>1. PICK f, N, m, w, V : f = F /\ N = Len(frames) /\ m = Loop(Null, FALSE, Null) /\ w = Top(F.vals) /\ V = <<>>
  OBVIOUS
<1>2. /\ Whole /\ SetFrame([f EXCEPT !.vals = V, !.loops = Append(@, m)])
      /\ Release(Given(w)) /\ UNCHANGED <<heapVars, payload>>
  BY <1>1 DEF OpenRange
<1>3. /\ Statement /\ Running /\ Given(w) \in Seq(Addr) /\ \A k \in DOMAIN Given(w) : mem[Given(w)[k]] # "none"
      /\ \A a : Cardinality(Places(Given(w), a)) = Gives(w, a)
      /\ \A a : Cardinality(OwnVals(f.vals, a)) = Gives(w, a)
  BY <1>1, <1>2, WholeFacts
<1>4. f \in FrameType /\ due = <<>>
  BY <1>1, <1>3, StatementFacts
<1>5. Dropped(Given(w))
  BY <1>2, <1>3, <1>4, ReleaseDrops
<1>6. frames' = Append(Under, Remade(f, f.blocks, V, Append(f.loops, Loop(Null, FALSE, Null))))
  BY <1>1, <1>2, <1>4 DEF SetFrame, Remade, FrameType
<1>7. \A a : Cardinality(OwnVals(f.vals, a)) = Cardinality(Places(Given(w), a))
  BY <1>3
<1> QED
  BY <1>1, <1>2, <1>3, <1>5, <1>6, <1>7, CountingStep

\* A name with no binding is in no block.
LEMMA NotBound ==
  ASSUME F.blocks \in Seq(BlockType), NEW n, Bindings(n) = {}
  PROVE  \A b \in DOMAIN F.blocks : \A k \in DOMAIN F.blocks[b].names : F.blocks[b].names[k].name # n
<1>1. SUFFICES ASSUME NEW b \in DOMAIN F.blocks, NEW k \in DOMAIN F.blocks[b].names, F.blocks[b].names[k].name = n
               PROVE  FALSE
  OBVIOUS
<1>2. <<b, k>> \in Sites
  BY SitesAre
<1>3. Bound(<<b, k>>).name = n
  BY <1>1 DEF Bound
<1> QED
  BY <1>2, <1>3 DEF Bindings

\* The loop over an array stands where its variable was bound.
LEMMA ForStands ==
  ASSUME NEW f \in FrameType, NEW G \in FrameType, NEW e \in EntryType, NEW K, NEW J, NEW l, NEW m \in LoopType,
         Binding(f, G, e, K, J), K = Len(f.blocks), G.loops[l] = m, m.depth = K, m.arr # Null, m.var = e.name, ~e.own,
         G.vals = <<>>, ~G.transient,
         \A b \in DOMAIN f.blocks : \A k \in DOMAIN f.blocks[b].names : f.blocks[b].names[k].name # e.name
  PROVE  LoopAt(G, l) /\ AtVar(G, l, K, J)
<1>1. /\ Extends(f, G) /\ K \in DOMAIN G.blocks /\ G.blocks[K].names[J] = e /\ J \in Nat /\ K \in Nat
      /\ G.blocks[K].kind # "arm" /\ Len(G.blocks) = K
      /\ J = Len(G.blocks[K].names) /\ J \in DOMAIN G.blocks[K].names
      /\ \A k \in DOMAIN G.blocks[K].names : k # J =>
           k \in DOMAIN f.blocks[K].names /\ G.blocks[K].names[k] = f.blocks[K].names[k]
  BY DEF Binding
<1>2. AtVar(G, l, K, J)
  BY <1>1 DEF AtVar
<1>3. \A b : \A k : AtVar(G, l, b, k) => b = K /\ k = J
  BY <1>1 DEF AtVar
<1>4. K \in DOMAIN f.blocks
  BY <1>1, FrameParts
<1>5. ASSUME NEW b \in 1 .. K, NEW k \in DOMAIN G.blocks[b].names
      PROVE  /\ G.blocks[b].names[k].name = m.var <=> AtVar(G, l, b, k)
             /\ AtVar(G, l, b, k) => ~G.blocks[b].names[k].own
  <2>1. CASE b = K /\ k = J
    BY <1>1, <1>2, <2>1
  <2>2. CASE b = K /\ k # J
    <3>1. k \in DOMAIN f.blocks[K].names /\ G.blocks[b].names[k] = f.blocks[K].names[k]
      BY <1>1, <1>5, <2>2
    <3>2. G.blocks[b].names[k].name # m.var
      BY <1>4, <3>1
    <3> QED
      BY <1>3, <2>2, <3>2
  <2>3. CASE b # K
    <3>1. b \in DOMAIN f.blocks /\ G.blocks[b] = f.blocks[b]
      <4>1. DOMAIN f.blocks = 1 .. K
        BY FrameParts
      <4>2. b < Len(f.blocks) /\ b \in DOMAIN f.blocks
        BY <1>1, <1>5, <2>3, <4>1
      <4> QED
        BY <1>1, <4>2 DEF Extends
    <3>2. G.blocks[b].names[k].name # m.var
      BY <1>5, <3>1
    <3> QED
      BY <1>3, <2>3, <3>2
  <2> QED
    BY <2>1, <2>2, <2>3
<1>6. G.blocks[K].names # <<>>
  BY <1>1
<1>7. ~(K < Len(G.blocks))
  BY <1>1
<1> QED
  BY <1>1, <1>2, <1>5, <1>6, <1>7 DEF LoopAt

\* A loop over an array keeps the invariant when it is opened: it has the array
\* to release, or a guard holds the array that it borrows (for_source,
\* bind_loop_var).
LEMMA OpenForStep ==
  ASSUME Core, lifted \subseteq Leaks, lifted' = lifted, NEW n \in Var, OpenFor(n)
  PROVE  Core'
<1>1. PICK f, w, N, e, V, m : /\ f = F /\ w = Top(F.vals) /\ N = Len(frames) /\ e = Entry(n, Null, FALSE) /\ V = <<>>
                              /\ m = Loop(w.ref, w.st = "own", n)
  OBVIOUS
<1>2. /\ Whole /\ OnHeap(w.ref) /\ Bindings(n) = {}
      /\ SetFrame([f EXCEPT !.vals = V, !.loops = Append(@, m), !.blocks[Len(f.blocks)].names = Append(@, e)])
      /\ UNCHANGED <<heapVars, payload>> /\ UNCHANGED <<due, lost>>
  <2>1. Lift("loopVar", Bindings(n) = {}) => Bindings(n) = {}
    BY DEF Lift, Leaks
  <2> QED
    BY <1>1, <2>1 DEF OpenFor
<1>3. /\ Statement /\ Done /\ Running
      /\ w \in OperandType /\ w.ref \in Addr /\ w.st \in {"own", "borrow"}
      /\ w.st = "borrow" => Guard(N, Len(f.blocks), w.ref)
      /\ \A a : Cardinality(OwnVals(f.vals, a)) = Gives(w, a)
  BY <1>1, <1>2, WholeFacts
<1>4. HeapStep /\ BuiltAlone /\ HeapTyped' /\ \A a \in Addr : Stock(a)' = Stock(a) /\ Stock(a) \in Int
  BY <1>2, <1>3, StillHeap
<1>5. Dropped(<<>>) /\ <<>> \in Seq(Addr)
  BY <1>2, DropsNothing
<1>6. /\ f \in FrameType /\ Shape(f) /\ f.scratch = {} /\ ~f.transient /\ f.blocks \in Seq(BlockType) /\ f.blocks # <<>>
      /\ f.blocks[Len(f.blocks)].kind # "arm" /\ HeapTyped /\ f.loops \in Seq(LoopType) /\ Len(f.blocks) \in Nat \ {0}
      /\ DOMAIN f.blocks = 1 .. Len(f.blocks)
  BY <1>1, <1>3, StatementFacts
<1>7. e \in EntryType /\ ~e.own /\ e.ref = Null /\ e.name = n
  BY <1>1 DEF Entry, EntryType
<1>8. m \in LoopType /\ m.depth = Len(f.blocks) /\ m.arr = w.ref /\ m.var = n /\ (m.mine <=> w.st = "own") /\ m.arr # Null
  <2>1. PICK c \in BOOLEAN : c = (w.st = "own")
    OBVIOUS
  <2>2. m = Loop(w.ref, c, n) /\ Len(F.blocks) \in Nat /\ Null \notin Addr
    BY <1>1, <1>6, <2>1, OwnershipAssumption
  <2>3. m \in LoopType /\ m.depth = Len(F.blocks) /\ m.arr = w.ref /\ m.var = n /\ m.mine = c
    BY <1>3, <2>2 DEF LoopType, Loop
  <2> QED
    BY <1>1, <1>3, <2>1, <2>2, <2>3
<1>9. PICK B, L : B = Bind(f.blocks, e) /\ L = Append(f.loops, m)
  OBVIOUS
<1>10. B \in Seq(BlockType)
  BY <1>6, <1>7, <1>9, BlocksBind DEF BindsTo
<1>11. LoopGrows(f.loops, m, L)
  BY <1>6, <1>8, <1>9, LoopAdded
<1>12. PICK G : G = Remade(f, B, V, L)
  OBVIOUS
<1>13. frames' = Append(Under, G)
  BY <1>2, <1>6, <1>9, <1>12 DEF SetFrame, Bind, Remade, FrameType
<1>14. SameFrame(f, G) /\ G \in FrameType /\ G.blocks = B /\ G.loops = L /\ G.vals = V /\ G.scratch = {}
  <2>1. f \in FrameType /\ B \in Seq(BlockType) /\ L \in Seq(LoopType) /\ f.scratch = {}
    BY <1>6, <1>10, <1>11 DEF LoopGrows
  <2>2. V = <<>>
    BY <1>1
  <2> QED
    BY <2>1, <2>2, <1>12, FrameBoth
<1>15. PICK K, J : K = Len(f.blocks) /\ J = Len(f.blocks[Len(f.blocks)].names) + 1
  OBVIOUS
<1>16. \A b \in DOMAIN f.blocks : \A k \in DOMAIN f.blocks[b].names : f.blocks[b].names[k].name # e.name
  BY <1>1, <1>2, <1>6, <1>7, NotBound
<1>17. Binding(f, G, e, K, J)
  <2>1. \A l \in DOMAIN f.loops : l \in DOMAIN G.loops /\ G.loops[l] = f.loops[l]
    BY <1>11, <1>14 DEF LoopGrows
  <2>2. e.own => e.ref # Null
    BY <1>7
  <2>3. \A k \in DOMAIN f.blocks[Len(f.blocks)].names : f.blocks[Len(f.blocks)].names[k].name # e.name
    BY <1>6, <1>16
  <2>4. G.blocks = Bind(f.blocks, e)
    BY <1>9, <1>14
  <2> QED
    BY <1>6, <1>7, <1>14, <1>15, <2>1, <2>2, <2>3, <2>4, FrameBinds
<1>18. PICK l : l = Len(f.loops) + 1
  OBVIOUS
<1>19. G.loops[l] = m /\ l \in DOMAIN G.loops
  <2>1. L \in Seq(LoopType) /\ L[l] = m /\ Len(f.loops) \in Nat /\ L = Append(f.loops, m)
    BY <1>9, <1>11, <1>18 DEF LoopGrows
  <2>2. l \in DOMAIN L
    BY <1>6, <1>8, <1>18, <2>1, AppendFacts
  <2> QED
    BY <1>14, <2>1, <2>2
<1>20. LoopAt(G, l) /\ AtVar(G, l, K, J)
  <2>1. m.depth = K /\ m.var = e.name /\ ~e.own /\ m.arr # Null
    BY <1>7, <1>8, <1>15
  <2>2. G.vals = <<>> /\ ~G.transient
    BY <1>1, <1>6, <1>14 DEF SameFrame
  <2> QED
    BY <1>6, <1>7, <1>8, <1>14, <1>15, <1>16, <1>17, <1>19, <2>1, <2>2, ForStands
<1>21. LoopsAdd(f, G, N)
  <2>1. G.loops = Append(f.loops, m) /\ m.depth = Len(f.blocks) /\ LoopAt(G, Len(f.loops) + 1)
    BY <1>8, <1>9, <1>14, <1>18, <1>20
  <2>2. m.arr # Null => mem[m.arr] = "heap" /\ (~m.mine => Guard(N, Len(f.blocks), m.arr))
    BY <1>2, <1>3, <1>8 DEF OnHeap
  <2> QED
    BY <1>8, <2>1, <2>2 DEF LoopsAdd
<1>22. NameNew(G, K, J)
  <2>1. G.blocks[K].names[J] = e /\ G.blocks[K].kind # "arm"
    BY <1>17 DEF Binding
  <2> QED
    BY <1>7, <1>19, <1>20, <2>1 DEF NameNew
<1>23. NamesAdd(f, G) /\ Shape(G) /\ Extends(f, G)
  BY <1>17, <1>22 DEF NamesAdd, Binding
<1>24. Adds(f, G, <<>>)
  <2>1. ASSUME NEW a \in Addr, mem'[a] = "heap"
        PROVE  \E x, y, z, p \in Nat :
                  /\ Cardinality(OwnBlocks(G.blocks, a)) = Cardinality(OwnBlocks(f.blocks, a)) + x
                  /\ Cardinality(OwnVals(f.vals, a)) = y
                  /\ Cardinality(OwnLoops(G.loops, a)) = Cardinality(OwnLoops(f.loops, a)) + z
                  /\ Cardinality(Places(<<>>, a)) = p
                  /\ Stock(a)' + y = Stock(a) + x + z + p
    <3>1. PICK y : y = Gives(w, a)
      OBVIOUS
    <3>2. y \in Nat
      BY <3>1, GivesIs
    <3>3. One(e.own /\ e.ref = a) = 0 /\ One(m.mine /\ m.arr = a) = y
      BY <1>3, <1>7, <1>8, <3>1 DEF One, Gives
    <3>4. Cardinality(OwnBlocks(G.blocks, a)) = Cardinality(OwnBlocks(f.blocks, a)) + 0
      BY <1>17, <3>3 DEF Binding
    <3>5. Cardinality(OwnLoops(G.loops, a)) = Cardinality(OwnLoops(f.loops, a)) + y
      BY <1>11, <1>14, <3>3 DEF LoopGrows
    <3>6. Cardinality(OwnVals(f.vals, a)) = y /\ Cardinality(Places(<<>>, a)) = 0
      BY <1>3, <3>1, CountsEmpty
    <3>7. Stock(a)' + y = Stock(a) + 0 + y + 0
      BY <1>4, <3>2
    <3> QED
      BY <3>2, <3>4, <3>5, <3>6, <3>7
  <2> QED
    BY <2>1 DEF Adds
<1>25. PartsMove(f, G, <<>>, Zero)
  BY <1>1, <1>4, <1>6, <1>14, <1>24, ExtendMoves
<1>26. frames' = Append(Under, G) /\ SameFrame(f, G) /\ f = F /\ N = Len(frames)
  BY <1>1, <1>13, <1>14
<1> QED
  BY <1>3, <1>4, <1>5, <1>21, <1>23, <1>25, <1>26, ExtendStep

\* The loops are the same ones.
SameLoops(f, G) ==
  /\ DOMAIN G.loops = DOMAIN f.loops
  /\ \A l \in DOMAIN f.loops : /\ G.loops[l].arr = f.loops[l].arr /\ G.loops[l].mine = f.loops[l].mine
                               /\ G.loops[l].var = f.loops[l].var /\ G.loops[l].depth = f.loops[l].depth

\* The blocks above `c` are left.
Cut(f, G, c) ==
  /\ c \in 1 .. Len(f.blocks) /\ Len(G.blocks) = c
  /\ \A b \in 1 .. c : G.blocks[b] = f.blocks[b]
  /\ SameLoops(f, G)
  /\ \A l \in DOMAIN f.loops : f.loops[l].depth <= c
  /\ G.vals = <<>> /\ ~G.transient /\ G.scratch = {}

\* A frame cut back to the blocks some loop stands in keeps its shape and its
\* guards.
LEMMA CutFits ==
  ASSUME Core, Running, NEW N, N = Len(frames), NEW f, f = F, NEW G \in FrameType, NEW c, Cut(f, G, c)
  PROVE  Shape(G) /\ LoopShape(G) /\ LoopsFit(N, f, G) /\ NamesFit(f, G)
<1>1. /\ f \in FrameType /\ Shape(f) /\ LoopShape(f)
  BY Going
<1>2. /\ DOMAIN f.blocks = 1 .. Len(f.blocks) /\ Len(f.blocks) \in Nat
      /\ DOMAIN G.blocks = 1 .. Len(G.blocks)
      /\ \A l \in DOMAIN f.loops : f.loops[l].depth \in Nat
  BY <1>1, FrameParts
<1>3. /\ c \in Nat \ {0} /\ DOMAIN G.blocks = 1 .. c
      /\ \A b \in DOMAIN G.blocks : b \in DOMAIN f.blocks /\ G.blocks[b] = f.blocks[b]
  BY <1>2 DEF Cut
<1>4. DOMAIN G.loops = DOMAIN f.loops
  BY DEF Cut, SameLoops
<1>5. Shape(G)
  <2>1. G.blocks # <<>>
    BY <1>3
  <2>2. G.scratch = {}
    BY DEF Cut
  <2> QED
    BY <1>1, <1>3, <2>1, <2>2 DEF Shape
<1>6. ASSUME NEW l \in DOMAIN f.loops
      PROVE  /\ \A b \in DOMAIN G.blocks : \A k : AtVar(G, l, b, k) <=> AtVar(f, l, b, k)
             /\ LoopAt(G, l)
             /\ \A a : Keeps(f, f.loops[l].depth, a) => Keeps(G, f.loops[l].depth, a)
  <2>1. PICK d : d = f.loops[l].depth
    OBVIOUS
  <2>2. /\ d \in Nat /\ d <= c /\ G.loops[l].depth = d /\ G.loops[l].arr = f.loops[l].arr
        /\ G.loops[l].mine = f.loops[l].mine /\ G.loops[l].var = f.loops[l].var
    BY <1>2, <2>1 DEF Cut, SameLoops
  <2>3. \A b \in DOMAIN G.blocks : \A k : AtVar(G, l, b, k) <=> AtVar(f, l, b, k)
    BY <1>3, <2>1, <2>2 DEF AtVar
  <2>4. LoopAt(f, l)
    BY <1>1 DEF LoopShape
  <2>5. d \in DOMAIN f.blocks /\ f.blocks[d].kind # "arm"
        /\ (d < Len(f.blocks) => f.blocks[d + 1].kind = "loop")
        /\ (f.loops[l].mine => f.loops[l].arr # Null)
    BY <2>1, <2>4 DEF LoopAt
  <2>6. d \in DOMAIN G.blocks /\ G.blocks[d] = f.blocks[d]
    BY <1>2, <1>3, <2>2, <2>5
  <2>7. d < Len(G.blocks) => G.blocks[d + 1].kind = "loop"
    BY <1>2, <1>3, <2>2, <2>5 DEF Cut
  <2>8. G.loops[l].arr # Null =>
          /\ G.blocks[d].names # <<>>
          /\ \A b \in 1 .. d : \A k \in DOMAIN G.blocks[b].names :
               /\ G.blocks[b].names[k].name = G.loops[l].var <=> AtVar(G, l, b, k)
               /\ AtVar(G, l, b, k) => ~G.blocks[b].names[k].own
    <3>1. \A b \in 1 .. d : b \in DOMAIN G.blocks
      BY <1>3, <2>2
    <3>2. f.loops[l].arr # Null =>
            /\ f.blocks[d].names # <<>>
            /\ \A b \in 1 .. d : \A k \in DOMAIN f.blocks[b].names :
               /\ f.blocks[b].names[k].name = f.loops[l].var <=> AtVar(f, l, b, k)
               /\ AtVar(f, l, b, k) => ~f.blocks[b].names[k].own
      BY <2>1, <2>4 DEF LoopAt
    <3>3. \A b \in 1 .. d : G.blocks[b] = f.blocks[b] /\ \A k : AtVar(G, l, b, k) <=> AtVar(f, l, b, k)
      BY <1>3, <2>3, <3>1
    <3>4. ASSUME f.loops[l].arr # Null, NEW b \in 1 .. d, NEW k \in DOMAIN G.blocks[b].names
          PROVE  /\ G.blocks[b].names[k].name = G.loops[l].var <=> AtVar(G, l, b, k)
                 /\ AtVar(G, l, b, k) => ~G.blocks[b].names[k].own
      <4>1. G.blocks[b] = f.blocks[b] /\ (AtVar(G, l, b, k) <=> AtVar(f, l, b, k)) /\ G.loops[l].var = f.loops[l].var
        BY <2>2, <3>3
      <4>2. k \in DOMAIN f.blocks[b].names
        BY <4>1
      <4>3. /\ f.blocks[b].names[k].name = f.loops[l].var <=> AtVar(f, l, b, k)
            /\ AtVar(f, l, b, k) => ~f.blocks[b].names[k].own
        BY <3>2, <3>4, <4>2
      <4> QED
        BY <4>1, <4>3
    <3> QED
      BY <2>2, <2>6, <3>2, <3>4
  <2>9. LoopAt(G, l)
    <3>1. G.vals = <<>> /\ ~G.transient
      BY DEF Cut
    <3> QED
      BY <2>2, <2>5, <2>6, <2>7, <2>8, <3>1 DEF LoopAt
  <2>10. ASSUME NEW a, Keeps(f, d, a)
         PROVE  Keeps(G, d, a)
    <3>1. CASE \E b \in DOMAIN f.blocks : b <= d /\
                 \E k \in DOMAIN f.blocks[b].names : f.blocks[b].names[k].own /\ f.blocks[b].names[k].ref = a
      <4>1. PICK b \in DOMAIN f.blocks : b <= d /\
                 \E k \in DOMAIN f.blocks[b].names : f.blocks[b].names[k].own /\ f.blocks[b].names[k].ref = a
        BY <3>1
      <4>2. b \in DOMAIN G.blocks /\ G.blocks[b] = f.blocks[b]
        BY <1>2, <1>3, <2>2, <4>1
      <4> QED
        BY <4>1, <4>2 DEF Keeps
    <3>2. CASE \E j \in DOMAIN f.loops : f.loops[j].depth < d /\ f.loops[j].mine /\ f.loops[j].arr = a
      BY <1>4, <3>2 DEF Keeps, Cut, SameLoops
    <3> QED
      BY <2>10, <3>1, <3>2 DEF Keeps
  <2> QED
    BY <2>1, <2>3, <2>9, <2>10
<1>7. LoopShape(G)
  <2>1. \A l \in DOMAIN G.loops : LoopAt(G, l)
    BY <1>4, <1>6
  <2>2. \A l, m \in DOMAIN G.loops : l < m => G.loops[l].depth < G.loops[m].depth
    BY <1>1, <1>4 DEF LoopShape, Cut, SameLoops
  <2> QED
    BY <2>1, <2>2 DEF LoopShape
<1>8. LoopsFit(N, f, G)
  <2>1. ASSUME NEW l \in DOMAIN G.loops, G.loops[l].arr # Null
        PROVE  /\ mem[G.loops[l].arr] = "heap"
               /\ ~G.loops[l].mine =>
                    /\ Guard(N, G.loops[l].depth, G.loops[l].arr)
                    /\ \A a : Keeps(f, G.loops[l].depth, a) => Keeps(G, G.loops[l].depth, a)
    <3>1. /\ l \in DOMAIN f.loops /\ G.loops[l].arr = f.loops[l].arr /\ G.loops[l].mine = f.loops[l].mine
          /\ G.loops[l].depth = f.loops[l].depth
      BY <1>4 DEF Cut, SameLoops
    <3> QED
      BY <1>6, <2>1, <3>1, LoopOld
  <2> QED
    BY <2>1 DEF LoopsFit
<1>9. NamesFit(f, G)
  <2>1. ASSUME NEW b \in DOMAIN G.blocks, NEW k \in DOMAIN G.blocks[b].names
        PROVE  NameStays(f, G, b, k)
    <3>1. b \in DOMAIN f.blocks /\ G.blocks[b] = f.blocks[b]
      BY <1>3
    <3>2. \A l \in DOMAIN f.loops : AtVar(f, l, b, k) =>
            l \in DOMAIN G.loops /\ AtVar(G, l, b, k) /\ G.loops[l].arr = f.loops[l].arr
      BY <1>4, <1>6 DEF Cut, SameLoops
    <3> QED
      BY <2>1, <3>1, <3>2 DEF NameStays
  <2> QED
    BY <2>1 DEF NamesFit
<1> QED
  BY <1>5, <1>7, <1>8, <1>9

\* The loops claim what they claimed.
LEMMA SameLoopsClaim ==
  ASSUME NEW f, NEW G, SameLoops(f, G), NEW a
  PROVE  OwnLoops(G.loops, a) = OwnLoops(f.loops, a)
BY DEF SameLoops, OwnLoops

\* What a name of the innermost block owns is what it holds.
LEMMA OwnTop ==
  ASSUME Core, Running, NEW d, d = Len(F.blocks)
  PROVE  \A k \in DOMAIN F.blocks[d].names : F.blocks[d].names[k].own =>
            /\ Holds(F.blocks[d].names[k].name) = F.blocks[d].names[k].ref
            /\ F.blocks[d].names[k].ref \in {r \in Addr : mem[r] # "none"}
<1>1. /\ F \in FrameType /\ Shape(F) /\ F.blocks \in Seq(BlockType) /\ Lives(F)
  BY Going
<1>2. d \in DOMAIN F.blocks /\ DOMAIN F.blocks = 1 .. d /\ d \in Nat
  BY <1>1 DEF Shape
<1>3. SUFFICES ASSUME NEW k \in DOMAIN F.blocks[d].names, F.blocks[d].names[k].own
               PROVE  /\ Holds(F.blocks[d].names[k].name) = F.blocks[d].names[k].ref
                      /\ F.blocks[d].names[k].ref \in {r \in Addr : mem[r] # "none"}
  OBVIOUS
<1>4. PICK n, s : n = F.blocks[d].names[k].name /\ s = <<d, k>>
  OBVIOUS
<1>5. s[1] = d /\ s[2] = k /\ Bound(s) = F.blocks[d].names[k] /\ s \in Sites
  BY <1>1, <1>2, <1>4, SitesAre DEF Bound
<1>6. s \in Bindings(n)
  BY <1>4, <1>5 DEF Bindings
<1>7. ASSUME NEW t \in Bindings(n)
      PROVE  Later(s, t)
  <2>1. t \in Sites /\ Bound(t).name = n
    BY DEF Bindings
  <2>2. /\ t[1] \in DOMAIN F.blocks /\ t[2] \in DOMAIN F.blocks[t[1]].names /\ t[2] \in 1 .. Len(F.blocks[t[1]].names)
    BY <1>1, <2>1, SitesAre
  <2>3. CASE t[1] = d
    <3>1. t[2] = k
      BY <1>1, <1>2, <1>4, <2>1, <2>2, <2>3 DEF Shape, Bound
    <3>2. t[2] \in Nat
      BY <2>2
    <3> QED
      BY <1>5, <2>3, <3>1, <3>2 DEF Later
  <2>4. CASE t[1] # d
    BY <1>2, <1>5, <2>2, <2>4 DEF Later
  <2> QED
    BY <2>3, <2>4
<1>8. Resolve(n) = s
  BY <1>1, <1>6, <1>7, ResolveIs
<1>9. Holds(n) = F.blocks[d].names[k].ref
  BY <1>5, <1>8 DEF Holds
<1>10. F.blocks[d].names[k].ref \in Addr /\ mem[F.blocks[d].names[k].ref] # "none"
  <2>1. F.blocks[d].names[k].ref \in Addr \cup {Null} /\ F.blocks[d].names[k].ref # Null
    BY <1>1, <1>2, <1>3, FrameParts DEF Shape
  <2>2. LiveName(F.blocks[d].names[k])
    BY <1>1, <1>2 DEF Lives
  <2> QED
    BY <1>3, <2>1, <2>2 DEF LiveName
<1> QED
  BY <1>4, <1>9, <1>10

\* The names of the innermost block are released, each once.
LEMMA TopOwned ==
  ASSUME Core, Running, NEW d, d = Len(F.blocks)
  PROVE  /\ Owned(d) \in Seq(Addr) /\ \A k \in DOMAIN Owned(d) : mem[Owned(d)[k]] # "none"
         /\ \A a : /\ Cardinality(Places(Owned(d), a)) = NamesOwned(F.blocks[d].names, a)
                   /\ NamesOwned(F.blocks[d].names, a) \in Nat
<1>1. F.blocks \in Seq(BlockType) /\ Shape(F)
  BY Going
<1>2. d \in DOMAIN F.blocks
  BY <1>1 DEF Shape
<1>3. PICK S : S = {r \in Addr : mem[r] # "none"}
  OBVIOUS
<1>4. \A k \in DOMAIN F.blocks[d].names : F.blocks[d].names[k].own =>
            /\ Holds(F.blocks[d].names[k].name) = F.blocks[d].names[k].ref
            /\ F.blocks[d].names[k].ref \in S
  BY <1>3, OwnTop
<1>5. ASSUME NEW a
      PROVE  /\ Owned(d) \in Seq(S)
             /\ Cardinality(Places(Owned(d), a)) = NamesOwned(F.blocks[d].names, a)
             /\ NamesOwned(F.blocks[d].names, a) \in Nat
  BY <1>1, <1>2, <1>4, OwnedIs
<1>6. PICK q : q = Owned(d)
  OBVIOUS
<1>7. q \in Seq(S)
  BY <1>5, <1>6
<1>8. q \in Seq(Addr) /\ \A k \in DOMAIN q : mem[q[k]] # "none"
  BY <1>3, <1>7
<1> QED
  BY <1>5, <1>6, <1>8

\* What blocks and operands are left, is to release or goes.
Frees(f, G, refs, over) ==
  \A a \in Addr : mem'[a] = "heap" =>
    \E b, l, p, o \in Nat :
      /\ Cardinality(OwnBlocks(G.blocks, a)) = b /\ Cardinality(OwnLoops(G.loops, a)) = l
      /\ Cardinality(Places(refs, a)) = p /\ over[a] = o
      /\ Cardinality(OwnBlocks(f.blocks, a)) + Cardinality(OwnLoops(f.loops, a)) = b + l + p + o

\* The accounts of a frame that gives up names or loops.
LEMMA FreesMoves ==
  ASSUME NEW f \in FrameType, NEW G \in FrameType, f.vals = <<>>, G.vals = <<>>, NEW refs, NEW over,
         \A a \in Addr : Stock(a)' = Stock(a) /\ Stock(a) \in Int, Frees(f, G, refs, over)
  PROVE  PartsMove(f, G, refs, over)
<1>1. SUFFICES ASSUME NEW a \in Addr, mem'[a] = "heap"
               PROVE  Stock(a)' + (Cardinality(OwnBlocks(f.blocks, a)) + Cardinality(OwnVals(f.vals, a)) + Cardinality(OwnLoops(f.loops, a))) =
                       Stock(a) + (Cardinality(OwnBlocks(G.blocks, a)) + Cardinality(OwnVals(G.vals, a)) + Cardinality(OwnLoops(G.loops, a)))
                        + Cardinality(Places(refs, a)) + over[a]
  BY DEF PartsMove
<1>2. PICK b, l, p, o \in Nat :
      /\ Cardinality(OwnBlocks(G.blocks, a)) = b /\ Cardinality(OwnLoops(G.loops, a)) = l
      /\ Cardinality(Places(refs, a)) = p /\ over[a] = o
      /\ Cardinality(OwnBlocks(f.blocks, a)) + Cardinality(OwnLoops(f.loops, a)) = b + l + p + o
  BY <1>1 DEF Frees
<1>3. PICK s, c, m : s = Stock(a) /\ c = Cardinality(OwnBlocks(f.blocks, a)) /\ m = Cardinality(OwnLoops(f.loops, a))
  OBVIOUS
<1>4. s \in Int /\ Stock(a)' = s /\ c \in Nat /\ m \in Nat
  <2>1. f.blocks \in Seq(BlockType) /\ f.loops \in Seq(LoopType)
    BY FrameParts
  <2> QED
    BY <1>3, <2>1, BlocksFinite, CountsFinite
<1>5. Cardinality(OwnVals(G.vals, a)) = 0 /\ Cardinality(OwnVals(f.vals, a)) = 0
  BY CountsEmpty
<1>6. s + (c + 0 + m) = s + (b + 0 + l) + p + o
  BY <1>2, <1>3, <1>4
<1> QED
  BY <1>2, <1>3, <1>4, <1>5, <1>6

\* Closing a block keeps the invariant: what it owned is released
\* (close_block).
LEMMA CloseBlockStep ==
  ASSUME Core, lifted' = lifted, CloseBlock
  PROVE  Core'
<1>1. PICK f, N, V, B, d : f = F /\ N = Len(frames) /\ V = <<>> /\ B = Pop(F.blocks) /\ d = Len(F.blocks)
  OBVIOUS
<1>2. /\ Statement /\ f.vals = <<>> /\ SetFrame([f EXCEPT !.blocks = B]) /\ Release(Owned(d))
      /\ UNCHANGED <<heapVars, payload>> /\ Block.kind \in {"if", "loop"}
  BY <1>1 DEF CloseBlock, Fresh
<1>3. /\ Running /\ due = <<>> /\ f \in FrameType /\ Shape(f) /\ f.scratch = {} /\ ~f.transient /\ f.blocks \in Seq(BlockType) /\ f.blocks # <<>>
      /\ f.blocks[Len(f.blocks)].kind # "arm" /\ HeapTyped /\ f.loops \in Seq(LoopType)
      /\ Len(f.blocks) \in Nat \ {0} /\ DOMAIN f.blocks = 1 .. Len(f.blocks) /\ f.spent = <<>>
      /\ \A l \in DOMAIN f.loops : f.loops[l].depth \in Nat /\ f.loops[l].depth < Len(f.blocks)
  BY <1>1, <1>2, StatementFacts
<1>4. HeapStep /\ BuiltAlone /\ HeapTyped' /\ \A a \in Addr : Stock(a)' = Stock(a) /\ Stock(a) \in Int
  BY <1>2, <1>3, StillHeap
<1>5. /\ Owned(d) \in Seq(Addr) /\ \A k \in DOMAIN Owned(d) : mem[Owned(d)[k]] # "none"
      /\ \A a : /\ Cardinality(Places(Owned(d), a)) = NamesOwned(f.blocks[d].names, a)
                /\ NamesOwned(f.blocks[d].names, a) \in Nat
  BY <1>1, <1>3, TopOwned
<1>6. Dropped(Owned(d))
  BY <1>2, <1>3, <1>5, ReleaseDrops
<1>7. /\ B \in Seq(BlockType) /\ Len(B) = d - 1 /\ d \in Nat \ {0} /\ d = Len(f.blocks)
      /\ \A k \in 1 .. d - 1 : B[k] = f.blocks[k]
      /\ f.blocks = Append(B, f.blocks[d]) /\ f.blocks[d] \in BlockType
  BY <1>1, <1>3, PopFacts, SMTT(30) DEF Top
<1>8. PICK G : G = Remade(f, B, V, f.loops)
  OBVIOUS
<1>9. frames' = Append(Under, G)
  <2>1. [f EXCEPT !.blocks = B] = G
    BY <1>1, <1>2, <1>3, <1>8 DEF Remade, FrameType
  <2> QED
    BY <1>2, <2>1 DEF SetFrame
<1>10. SameFrame(f, G) /\ G \in FrameType /\ G.blocks = B /\ G.loops = f.loops /\ G.vals = V /\ G.scratch = {}
  BY <1>1, <1>3, <1>7, <1>8, FrameBoth
<1>11. d - 1 \in 1 .. Len(f.blocks)
  <2>1. d # 1
    <3>1. f.blocks[d].kind \in {"if", "loop"} /\ 1 \in DOMAIN f.blocks
      BY <1>1, <1>2, <1>3 DEF Block
    <3> QED
      BY <1>3, <3>1 DEF Shape
  <2>2. d \in Nat \ {0} /\ Len(f.blocks) = d
    BY <1>7
  <2>3. d - 1 \in 1 .. d
    BY <2>1, <2>2
  <2> QED
    BY <2>2, <2>3
<1>12. Cut(f, G, d - 1)
  <2>1. SameLoops(f, G)
    BY <1>10 DEF SameLoops
  <2>2. G.vals = <<>> /\ ~G.transient
    BY <1>1, <1>3, <1>10 DEF SameFrame
  <2>3. \A l \in DOMAIN f.loops : f.loops[l].depth <= d - 1
    BY <1>3, <1>7
  <2> QED
    BY <1>7, <1>10, <1>11, <2>1, <2>2, <2>3 DEF Cut
<1>13. Shape(G) /\ LoopShape(G) /\ LoopsFit(N, f, G) /\ NamesFit(f, G)
  BY <1>1, <1>3, <1>10, <1>12, CutFits
<1>14. Frees(f, G, Owned(d), Zero)
  <2>1. ASSUME NEW a \in Addr, mem'[a] = "heap"
        PROVE  \E b, l, p, o \in Nat :
                  /\ Cardinality(OwnBlocks(G.blocks, a)) = b /\ Cardinality(OwnLoops(G.loops, a)) = l
                  /\ Cardinality(Places(Owned(d), a)) = p /\ Zero[a] = o
                  /\ Cardinality(OwnBlocks(f.blocks, a)) + Cardinality(OwnLoops(f.loops, a)) = b + l + p + o
    <3>1. PICK b, l, p : b = Cardinality(OwnBlocks(B, a)) /\ l = Cardinality(OwnLoops(f.loops, a))
                         /\ p = NamesOwned(f.blocks[d].names, a)
      OBVIOUS
    <3>2. b \in Nat /\ l \in Nat /\ p \in Nat
      BY <1>3, <1>5, <1>7, <3>1, BlocksFinite, CountsFinite
    <3>3. Cardinality(OwnBlocks(f.blocks, a)) = b + p
      <4>1. PICK x : x = f.blocks[d] /\ x \in BlockType
        BY <1>7
      <4>2. Cardinality(OwnBlocks(Append(B, x), a)) = Cardinality(OwnBlocks(B, a)) + NamesOwned(x.names, a)
        BY <1>7, <4>1, BlocksAppend
      <4> QED
        BY <1>7, <3>1, <4>1, <4>2
    <3>4. Cardinality(OwnBlocks(f.blocks, a)) + Cardinality(OwnLoops(f.loops, a)) = b + l + p + 0
      BY <3>1, <3>2, <3>3
    <3>5. Cardinality(OwnBlocks(G.blocks, a)) = b /\ Cardinality(OwnLoops(G.loops, a)) = l
      BY <1>10, <3>1
    <3>6. Cardinality(Places(Owned(d), a)) = p /\ Zero[a] = 0
      BY <1>5, <3>1, ZeroAbandons
    <3> QED
      BY <3>2, <3>4, <3>5, <3>6
  <2> QED
    BY <2>1 DEF Frees
<1>15. PartsMove(f, G, Owned(d), Zero)
  <2>1. f \in FrameType /\ G \in FrameType /\ f.vals = <<>> /\ G.vals = <<>>
    BY <1>1, <1>2, <1>3, <1>10
  <2>2. \A a \in Addr : Stock(a)' = Stock(a) /\ Stock(a) \in Int
    BY <1>4
  <2> QED
    BY <1>14, <2>1, <2>2, FreesMoves
<1>16. /\ G \in FrameType /\ G.spent = <<>> /\ G.unit = f.unit /\ G.vals = <<>> /\ G.scratch = {}
  BY <1>1, <1>3, <1>10 DEF SameFrame
<1>17. Abandons(Zero)
  BY ZeroAbandons
<1>18. PICK refs : refs = Owned(d)
  OBVIOUS
<1>19. refs \in Seq(Addr) /\ Dropped(refs) /\ PartsMove(f, G, refs, Zero)
  BY <1>5, <1>6, <1>15, <1>18
<1>20. N = Len(frames) /\ f = F /\ f.blocks[Len(f.blocks)].kind # "arm"
  BY <1>1, <1>3
<1> QED
  BY <1>3, <1>4, <1>9, <1>13, <1>16, <1>17, <1>19, <1>20, StatementStep

\* break and continue keep the invariant: what they pass is abandoned, if
\* anything.
LEMMA LeaveStep ==
  ASSUME Core, lifted \subseteq Leaks, lifted' = lifted, NEW out \in BOOLEAN, Leave(out)
  PROVE  Core'
<1>1. PICK f, N, V, c, B, n, L :
        /\ f = F /\ N = Len(frames) /\ V = <<>> /\ c = Top(F.loops).depth
        /\ B = SubSeq(F.blocks, 1, c) /\ n = Len(F.loops)
        /\ L = [F.loops EXCEPT ![n].over = out]
  OBVIOUS
<1>2. /\ Statement /\ f.vals = <<>> /\ f.loops # <<>> /\ Lift("break", NothingOwned(c))
      /\ SetFrame([f EXCEPT !.blocks = B, !.loops = L])
      /\ UNCHANGED <<heapVars, payload>> /\ UNCHANGED <<due, lost>>
  BY <1>1 DEF Leave, Fresh
<1>3. /\ Running /\ due = <<>> /\ f \in FrameType /\ Shape(f) /\ LoopShape(f) /\ f.scratch = {} /\ ~f.transient
      /\ f.blocks \in Seq(BlockType) /\ f.blocks # <<>>
      /\ f.blocks[Len(f.blocks)].kind # "arm" /\ HeapTyped /\ f.loops \in Seq(LoopType)
      /\ Len(f.blocks) \in Nat \ {0} /\ DOMAIN f.blocks = 1 .. Len(f.blocks) /\ f.spent = <<>>
      /\ \A l \in DOMAIN f.loops : f.loops[l].depth \in Nat /\ f.loops[l].depth < Len(f.blocks)
  BY <1>1, <1>2, StatementFacts
<1>4. HeapStep /\ BuiltAlone /\ HeapTyped' /\ \A a \in Addr : Stock(a)' = Stock(a) /\ Stock(a) \in Int
  BY <1>2, <1>3, StillHeap
<1>5. Dropped(<<>>) /\ <<>> \in Seq(Addr)
  BY <1>2, DropsNothing
<1>6. /\ n \in DOMAIN f.loops /\ n = Len(f.loops) /\ DOMAIN f.loops = 1 .. n /\ n \in Nat \ {0}
      /\ c = f.loops[n].depth /\ f.loops[n] \in LoopType
  <2>1. n = Len(f.loops) /\ c = f.loops[n].depth
    BY <1>1 DEF Top
  <2>2. Len(f.loops) \in 1 .. Len(f.loops) /\ DOMAIN f.loops = 1 .. Len(f.loops) /\ Len(f.loops) \in Nat \ {0}
    BY <1>2, <1>3, PopFacts
  <2> QED
    BY <1>3, <2>1, <2>2
<1>7. /\ c \in Nat /\ c < Len(f.blocks) /\ c \in DOMAIN f.blocks
  BY <1>3, <1>6 DEF LoopShape, LoopAt
<1>8. /\ B \in Seq(BlockType) /\ Len(B) = c /\ DOMAIN B = 1 .. c
      /\ \A k \in 1 .. c : B[k] = f.blocks[k] /\ k \in DOMAIN f.blocks
  <2>1. c \in 0 .. Len(f.blocks) /\ B = SubSeq(f.blocks, 1, c)
    BY <1>1, <1>3, <1>7
  <2> QED
    BY <1>3, <2>1, PrefixFacts
<1>9. /\ L \in Seq(LoopType) /\ DOMAIN L = DOMAIN f.loops
      /\ \A l \in DOMAIN f.loops : /\ L[l].arr = f.loops[l].arr /\ L[l].mine = f.loops[l].mine
                                   /\ L[l].var = f.loops[l].var /\ L[l].depth = f.loops[l].depth
  <2>1. PICK m : m = [f.loops[n] EXCEPT !.over = out]
    OBVIOUS
  <2>2. m \in LoopType /\ m.arr = f.loops[n].arr /\ m.mine = f.loops[n].mine
        /\ m.var = f.loops[n].var /\ m.depth = f.loops[n].depth
    BY <1>6, <2>1 DEF LoopType
  <2>3. L = [f.loops EXCEPT ![n] = m]
    BY <1>1, <2>1
  <2>4. /\ L \in Seq(LoopType) /\ DOMAIN L = DOMAIN f.loops /\ L[n] = m
        /\ \A l \in DOMAIN f.loops : l # n => L[l] = f.loops[l]
    BY <1>3, <1>6, <2>2, <2>3
  <2> QED
    BY <2>2, <2>4
<1>10. PICK G : G = Remade(f, B, V, L)
  OBVIOUS
<1>11. frames' = Append(Under, G)
  BY <1>1, <1>2, <1>3, <1>10 DEF SetFrame, Remade, FrameType
<1>12. SameFrame(f, G) /\ G \in FrameType /\ G.blocks = B /\ G.loops = L /\ G.vals = V /\ G.scratch = {}
  <2>1. f \in FrameType /\ B \in Seq(BlockType) /\ L \in Seq(LoopType) /\ f.scratch = {} /\ V = <<>>
    BY <1>1, <1>3, <1>8, <1>9
  <2> QED
    BY <1>10, <2>1, FrameBoth
<1>13. SameLoops(f, G)
  BY <1>9, <1>12 DEF SameLoops
<1>14. Cut(f, G, c)
  <2>1. c \in 1 .. Len(f.blocks)
    BY <1>3, <1>7
  <2>2. G.vals = <<>> /\ ~G.transient
    BY <1>1, <1>3, <1>12 DEF SameFrame
  <2>3. \A l \in DOMAIN f.loops : f.loops[l].depth <= c
    <3>1. ASSUME NEW l \in DOMAIN f.loops PROVE f.loops[l].depth <= c
      <4>1. CASE l = n
        BY <1>6, <1>7, <4>1
      <4>2. CASE l < n
        BY <1>3, <1>6, <4>2 DEF LoopShape
      <4> QED
        BY <1>6, <4>1, <4>2
    <3> QED
      BY <3>1
  <2> QED
    BY <1>8, <1>12, <1>13, <2>1, <2>2, <2>3 DEF Cut
<1>15. Shape(G) /\ LoopShape(G) /\ LoopsFit(N, f, G) /\ NamesFit(f, G)
  BY <1>1, <1>3, <1>12, <1>14, CutFits
<1>16. PICK over : over = [a \in Addr |-> Cardinality(OwnBlocks(f.blocks, a)) - Cardinality(OwnBlocks(B, a))]
  OBVIOUS
<1>17. ASSUME NEW a \in Addr
       PROVE  /\ over[a] \in Nat /\ lifted = {} => over[a] = 0
              /\ Cardinality(OwnBlocks(f.blocks, a)) = Cardinality(OwnBlocks(B, a)) + over[a]
              /\ over[a] \in Nat
  <2>1. \A x : x \in OwnBlocks(B, a) => x \in OwnBlocks(f.blocks, a)
    BY <1>8 DEF OwnBlocks, Tagged
  <2>2. OwnBlocks(B, a) \subseteq OwnBlocks(f.blocks, a)
    BY <2>1
  <2>3. /\ IsFiniteSet(OwnBlocks(f.blocks, a)) /\ Cardinality(OwnBlocks(f.blocks, a)) \in Nat
        /\ Cardinality(OwnBlocks(B, a)) \in Nat
    BY <1>3, <1>8, BlocksFinite
  <2>4. Cardinality(OwnBlocks(B, a)) <= Cardinality(OwnBlocks(f.blocks, a))
    BY <2>2, <2>3, FS_Subset
  <2>5. over[a] = Cardinality(OwnBlocks(f.blocks, a)) - Cardinality(OwnBlocks(B, a))
    BY <1>16
  <2>6. ASSUME lifted = {}
        PROVE  over[a] = 0
    <3>1. \A b \in c + 1 .. Len(f.blocks) : Owned(b) = <<>>
      BY <1>1, <1>2, <2>6 DEF Lift, NothingOwned
    <3>2. \A b \in c + 1 .. Len(f.blocks) : \A k \in DOMAIN f.blocks[b].names : ~f.blocks[b].names[k].own
      <4>1. ASSUME NEW b \in c + 1 .. Len(f.blocks)
            PROVE  \A k \in DOMAIN f.blocks[b].names : ~f.blocks[b].names[k].own
        <5>1. b \in DOMAIN F.blocks /\ Owned(b) = <<>> /\ F.blocks \in Seq(BlockType)
          BY <1>1, <1>3, <1>7, <3>1
        <5> QED
          BY <1>1, <5>1, OwnedNone
      <4> QED
        BY <4>1
    <3>3. \A b \in DOMAIN f.blocks : b \in 1 .. c \/ b \in c + 1 .. Len(f.blocks)
      BY <1>3, <1>7
    <3>4. \A b \in DOMAIN f.blocks : OwnNames(f.blocks[b].names, a) = {} \/ (b \in DOMAIN B /\ B[b] = f.blocks[b])
      BY <1>8, <3>2, <3>3 DEF OwnNames
    <3>5. \A x : x \in OwnBlocks(f.blocks, a) => x \in OwnBlocks(B, a)
      BY <3>4 DEF OwnBlocks, Tagged
    <3>6. OwnBlocks(f.blocks, a) = OwnBlocks(B, a)
      BY <2>1, <3>5
    <3> QED
      BY <2>3, <2>5, <3>6
  <2> QED
    BY <2>3, <2>4, <2>5, <2>6
<1>18. Abandons(over)
  BY <1>16, <1>17 DEF Abandons
<1>19. Frees(f, G, <<>>, over)
  <2>1. ASSUME NEW a \in Addr, mem'[a] = "heap"
        PROVE  \E b, l, p, o \in Nat :
                  /\ Cardinality(OwnBlocks(G.blocks, a)) = b /\ Cardinality(OwnLoops(G.loops, a)) = l
                  /\ Cardinality(Places(<<>>, a)) = p /\ over[a] = o
                  /\ Cardinality(OwnBlocks(f.blocks, a)) + Cardinality(OwnLoops(f.loops, a)) = b + l + p + o
    <3>1. PICK b, l, o : b = Cardinality(OwnBlocks(B, a)) /\ l = Cardinality(OwnLoops(f.loops, a)) /\ o = over[a]
      OBVIOUS
    <3>2. b \in Nat /\ l \in Nat /\ o \in Nat
      BY <1>3, <1>8, <1>17, <3>1, BlocksFinite, CountsFinite
    <3>3. Cardinality(OwnBlocks(f.blocks, a)) + Cardinality(OwnLoops(f.loops, a)) = b + l + 0 + o
      BY <1>17, <3>1, <3>2
    <3>4. Cardinality(OwnBlocks(G.blocks, a)) = b /\ Cardinality(OwnLoops(G.loops, a)) = l
      BY <1>12, <1>13, <3>1, SameLoopsClaim
    <3>5. Cardinality(Places(<<>>, a)) = 0
      BY CountsEmpty
    <3> QED
      BY <3>1, <3>2, <3>3, <3>4, <3>5
  <2> QED
    BY <2>1 DEF Frees
<1>20. PartsMove(f, G, <<>>, over)
  <2>1. f \in FrameType /\ G \in FrameType /\ f.vals = <<>> /\ G.vals = <<>>
    BY <1>1, <1>2, <1>3, <1>12
  <2>2. \A a \in Addr : Stock(a)' = Stock(a) /\ Stock(a) \in Int
    BY <1>4
  <2> QED
    BY <1>19, <2>1, <2>2, FreesMoves
<1>21. /\ G \in FrameType /\ G.spent = <<>> /\ G.unit = f.unit /\ G.vals = <<>> /\ G.scratch = {}
  BY <1>1, <1>3, <1>12 DEF SameFrame
<1>22. N = Len(frames) /\ f = F /\ f.blocks[Len(f.blocks)].kind # "arm"
  BY <1>1, <1>3
<1> QED
  BY <1>3, <1>4, <1>5, <1>11, <1>15, <1>18, <1>20, <1>21, <1>22, StatementStep

\* A name is stored to.
Rebound(s, b, k, r) == [s EXCEPT ![b].names[k].ref = r]
ReboundTo(s, b, k, r, t) ==
  /\ t \in Seq(BlockType) /\ Len(t) = Len(s) /\ DOMAIN t = DOMAIN s
  /\ \A c \in DOMAIN s : c # b => t[c] = s[c]
  /\ t[b].kind = s[b].kind /\ Len(t[b].names) = Len(s[b].names) /\ DOMAIN t[b].names = DOMAIN s[b].names
  /\ \A j \in DOMAIN s[b].names : j # k => t[b].names[j] = s[b].names[j]
  /\ t[b].names[k].name = s[b].names[k].name /\ t[b].names[k].own = s[b].names[k].own /\ t[b].names[k].ref = r
  /\ \A a : /\ Cardinality(OwnBlocks(t, a)) + One(s[b].names[k].own /\ s[b].names[k].ref = a) =
                 Cardinality(OwnBlocks(s, a)) + One(s[b].names[k].own /\ r = a)
            /\ Cardinality(OwnBlocks(t, a)) \in Nat /\ Cardinality(OwnBlocks(s, a)) \in Nat

\* What storing in a name does to the blocks and their claims.
LEMMA Rebinds ==
  ASSUME NEW s \in Seq(BlockType), NEW b \in DOMAIN s, NEW k \in DOMAIN s[b].names, NEW r \in Addr \cup {Null}
  PROVE  ReboundTo(s, b, k, r, Rebound(s, b, k, r))
<1>1. PICK u, e, v, x, t :
        /\ u = s[b].names /\ e = [s[b].names[k] EXCEPT !.ref = r]
        /\ v = [s[b].names EXCEPT ![k] = [s[b].names[k] EXCEPT !.ref = r]]
        /\ x = [s[b] EXCEPT !.names = [s[b].names EXCEPT ![k] = [s[b].names[k] EXCEPT !.ref = r]]]
        /\ t = Rebound(s, b, k, r)
  OBVIOUS
<1>2. s[b] \in BlockType /\ u \in Seq(EntryType) /\ k \in DOMAIN u /\ u[k] \in EntryType
  <2>1. s[b] \in BlockType
    OBVIOUS
  <2>2. u \in Seq(EntryType) /\ k \in DOMAIN u
    BY <1>1, <2>1 DEF BlockType
  <2> QED
    BY <2>1, <2>2
<1>3. /\ e = [u[k] EXCEPT !.ref = r] /\ v = [u EXCEPT ![k] = e] /\ x = [s[b] EXCEPT !.names = v]
      /\ t = [s EXCEPT ![b] = x]
  BY <1>1 DEF Rebound
<1>4. e \in EntryType /\ e.name = u[k].name /\ e.own = u[k].own /\ e.ref = r
  BY <1>2, <1>3 DEF EntryType
<1>5. /\ v \in Seq(EntryType) /\ Len(v) = Len(u) /\ DOMAIN v = DOMAIN u /\ v[k] = e
      /\ \A j \in DOMAIN u : j # k => v[j] = u[j]
  <2>1. DOMAIN u = 1 .. Len(u)
    BY <1>2
  <2>2. k \in 1 .. Len(u)
    BY <1>2, <2>1
  <2>3. /\ [u EXCEPT ![k] = e] \in Seq(EntryType) /\ Len([u EXCEPT ![k] = e]) = Len(u)
        /\ DOMAIN [u EXCEPT ![k] = e] = 1 .. Len(u) /\ [u EXCEPT ![k] = e][k] = e
        /\ \A j \in 1 .. Len(u) : j # k => [u EXCEPT ![k] = e][j] = u[j]
    BY <1>2, <1>4, <2>2, ReplaceFacts
  <2> QED
    BY <1>3, <2>1, <2>3
<1>6. x \in BlockType /\ x.kind = s[b].kind /\ x.names = v
  BY <1>2, <1>3, <1>5 DEF BlockType
<1>7. /\ t \in Seq(BlockType) /\ Len(t) = Len(s) /\ DOMAIN t = DOMAIN s /\ t[b] = x
      /\ \A c \in DOMAIN s : c # b => t[c] = s[c]
  <2>1. DOMAIN s = 1 .. Len(s)
    OBVIOUS
  <2>2. b \in 1 .. Len(s)
    BY <2>1
  <2>3. /\ [s EXCEPT ![b] = x] \in Seq(BlockType) /\ Len([s EXCEPT ![b] = x]) = Len(s)
        /\ DOMAIN [s EXCEPT ![b] = x] = 1 .. Len(s) /\ [s EXCEPT ![b] = x][b] = x
        /\ \A j \in 1 .. Len(s) : j # b => [s EXCEPT ![b] = x][j] = s[j]
    BY <1>6, <2>2, ReplaceFacts
  <2> QED
    BY <1>3, <2>1, <2>3
<1>8. ASSUME NEW a
      PROVE  /\ Cardinality(OwnBlocks(t, a)) + One(u[k].own /\ u[k].ref = a) =
                 Cardinality(OwnBlocks(s, a)) + One(u[k].own /\ r = a)
             /\ Cardinality(OwnBlocks(t, a)) \in Nat /\ Cardinality(OwnBlocks(s, a)) \in Nat
  <2>1. PICK X, Y, z : X = OwnBlocks(s, a) /\ Y = OwnBlocks(t, a) /\ z = <<b, k>>
    OBVIOUS
  <2>2. \A y : y \in X <=> \E c \in DOMAIN s : \E j \in OwnNames(s[c].names, a) : y = <<c, j>>
    BY <2>1 DEF OwnBlocks, Tagged
  <2>3. \A y : y \in Y <=> \E c \in DOMAIN s : \E j \in OwnNames(t[c].names, a) : y = <<c, j>>
    BY <1>7, <2>1 DEF OwnBlocks, Tagged
  <2>4. \A j : j # k => (j \in OwnNames(v, a) <=> j \in OwnNames(u, a))
    BY <1>5 DEF OwnNames
  <2>5. \A c \in DOMAIN s : \A j : <<c, j>> # z => (j \in OwnNames(t[c].names, a) <=> j \in OwnNames(s[c].names, a))
    BY <1>1, <1>6, <1>7, <2>1, <2>4
  <2>6. \A y : y # z => (y \in X <=> y \in Y)
    BY <2>2, <2>3, <2>5
  <2>7. X \ {z} = Y \ {z}
    BY <2>6
  <2>8. IsFiniteSet(X) /\ Cardinality(X) \in Nat
    BY <2>1, BlocksFinite
  <2>9. Cardinality(Y) + One(z \in X) = Cardinality(X) + One(z \in Y) /\ Cardinality(Y) \in Nat
    BY <2>7, <2>8, OneSite
  <2>10. z \in X <=> u[k].own /\ u[k].ref = a
    <3>1. z \in X <=> k \in OwnNames(s[b].names, a)
      BY <2>1, <2>2
    <3> QED
      BY <1>1, <1>2, <3>1 DEF OwnNames
  <2>11. z \in Y <=> u[k].own /\ r = a
    <3>1. z \in Y <=> k \in OwnNames(t[b].names, a)
      BY <2>1, <2>3
    <3>2. t[b].names = v /\ k \in DOMAIN v
      BY <1>2, <1>5, <1>6, <1>7
    <3> QED
      BY <1>4, <1>5, <3>1, <3>2 DEF OwnNames
  <2>12. One(z \in X) = One(u[k].own /\ u[k].ref = a) /\ One(z \in Y) = One(u[k].own /\ r = a)
    BY <2>10, <2>11 DEF One
  <2> QED
    BY <2>1, <2>8, <2>9, <2>12
<1>9. /\ t[b].kind = s[b].kind /\ Len(t[b].names) = Len(s[b].names) /\ DOMAIN t[b].names = DOMAIN s[b].names
      /\ \A j \in DOMAIN s[b].names : j # k => t[b].names[j] = s[b].names[j]
      /\ t[b].names[k].name = s[b].names[k].name /\ t[b].names[k].own = s[b].names[k].own /\ t[b].names[k].ref = r
  BY <1>1, <1>4, <1>5, <1>6, <1>7
<1>10. \A a : /\ Cardinality(OwnBlocks(t, a)) + One(s[b].names[k].own /\ s[b].names[k].ref = a) =
                 Cardinality(OwnBlocks(s, a)) + One(s[b].names[k].own /\ r = a)
              /\ Cardinality(OwnBlocks(t, a)) \in Nat /\ Cardinality(OwnBlocks(s, a)) \in Nat
  BY <1>1, <1>8
<1>11. ReboundTo(s, b, k, r, t)
  BY <1>7, <1>9, <1>10 DEF ReboundTo
<1> QED
  BY <1>1, <1>11

\* The names of a frame keep their places; a loop's body may be opened.
Remold(f, G) ==
  /\ SameLoops(f, G)
  /\ \A b \in DOMAIN f.blocks :
       /\ G.blocks[b].kind = f.blocks[b].kind /\ Len(G.blocks[b].names) = Len(f.blocks[b].names)
       /\ DOMAIN G.blocks[b].names = DOMAIN f.blocks[b].names
       /\ \A k \in DOMAIN f.blocks[b].names :
            /\ G.blocks[b].names[k].name = f.blocks[b].names[k].name
            /\ G.blocks[b].names[k].own = f.blocks[b].names[k].own
            /\ f.blocks[b].names[k].own => G.blocks[b].names[k].ref # Null
  /\ \/ Len(G.blocks) = Len(f.blocks)
     \/ /\ Len(G.blocks) = Len(f.blocks) + 1
        /\ G.blocks[Len(f.blocks) + 1].kind = "loop" /\ G.blocks[Len(f.blocks) + 1].names = <<>>
  /\ G.vals = <<>> /\ ~G.transient /\ G.scratch = {}

\* A frame with the same blocks, names and owners, whatever the names hold,
\* keeps its shape.
LEMMA Remolded ==
  ASSUME NEW f \in FrameType, NEW G \in FrameType, Shape(f), LoopShape(f), f.blocks[Len(f.blocks)].kind # "arm",
         Remold(f, G)
  PROVE  /\ Shape(G) /\ LoopShape(G)
         /\ \A l \in DOMAIN f.loops : \A b \in DOMAIN f.blocks : \A k : AtVar(G, l, b, k) <=> AtVar(f, l, b, k)
         /\ \A b \in DOMAIN G.blocks : \A k \in DOMAIN G.blocks[b].names :
              b \in DOMAIN f.blocks /\ k \in DOMAIN f.blocks[b].names
<1>1. PICK s, t, n : s = f.blocks /\ t = G.blocks /\ n = Len(s)
  OBVIOUS
<1>2. /\ n \in Nat \ {0} /\ DOMAIN s = 1 .. n /\ Len(t) \in Nat /\ DOMAIN t = 1 .. Len(t)
  <2>1. s \in Seq(BlockType) /\ s # <<>> /\ t \in Seq(BlockType)
    BY <1>1, FrameParts DEF Shape
  <2> QED
    BY <1>1, <2>1
<1>3. /\ \A b \in DOMAIN s :
       /\ t[b].kind = s[b].kind /\ Len(t[b].names) = Len(s[b].names)
       /\ DOMAIN t[b].names = DOMAIN s[b].names
       /\ \A k \in DOMAIN s[b].names :
            /\ t[b].names[k].name = s[b].names[k].name
            /\ t[b].names[k].own = s[b].names[k].own
            /\ s[b].names[k].own => t[b].names[k].ref # Null
      /\ \/ Len(t) = n
         \/ Len(t) = n + 1 /\ t[n + 1].kind = "loop" /\ t[n + 1].names = <<>>
  BY <1>1 DEF Remold
<1>4. /\ \A b \in DOMAIN s : b \in DOMAIN t
      /\ \A b \in DOMAIN t : b \in DOMAIN s \/ (b = n + 1 /\ Len(t) = n + 1 /\ t[b].kind = "loop" /\ DOMAIN t[b].names = {})
  <2>1. CASE Len(t) = n
    <3>1. DOMAIN t = DOMAIN s
      BY <1>2, <2>1
    <3> QED
      BY <3>1
  <2>2. CASE Len(t) = n + 1 /\ t[n + 1].kind = "loop" /\ t[n + 1].names = <<>>
    <3>1. DOMAIN t = DOMAIN s \cup {n + 1}
      BY <1>2, <2>2
    <3>2. DOMAIN t[n + 1].names = {}
      BY <2>2
    <3> QED
      BY <2>2, <3>1, <3>2
  <2> QED
    BY <1>3, <2>1, <2>2
<1>5. \A b \in DOMAIN t : \A k \in DOMAIN t[b].names : b \in DOMAIN s /\ k \in DOMAIN s[b].names
  BY <1>3, <1>4
<1>6. Shape(G)
  <2>1. /\ \A b \in DOMAIN s : s[b].kind = "fn" <=> b = 1
        /\ \A b \in DOMAIN s : \A j, k \in DOMAIN s[b].names :
             j # k => s[b].names[j].name # s[b].names[k].name
        /\ \A b \in DOMAIN s : \A k \in DOMAIN s[b].names :
             s[b].names[k].own => s[b].names[k].ref # Null /\ s[b].kind # "arm"
    BY <1>1 DEF Shape
  <2>2. \A b \in DOMAIN s : s[b].kind # "arm"
    BY <1>1, NoArms
  <2>3. \A b \in DOMAIN t : t[b].kind # "arm"
    BY <1>3, <1>4, <2>2
  <2>4. \A b \in DOMAIN t : t[b].kind = "fn" <=> b = 1
    <3>1. n + 1 # 1
      BY <1>2
    <3> QED
      BY <1>3, <1>4, <2>1, <3>1
  <2>5. \A b \in DOMAIN t : \A j, k \in DOMAIN t[b].names :
             j # k => t[b].names[j].name # t[b].names[k].name
    <3>1. ASSUME NEW b \in DOMAIN t, NEW j \in DOMAIN t[b].names, NEW k \in DOMAIN t[b].names, j # k
          PROVE  t[b].names[j].name # t[b].names[k].name
      <4>1. b \in DOMAIN s /\ j \in DOMAIN s[b].names /\ k \in DOMAIN s[b].names
        BY <1>5
      <4>2. t[b].names[j].name = s[b].names[j].name /\ t[b].names[k].name = s[b].names[k].name
        BY <1>3, <4>1
      <4>3. s[b].names[j].name # s[b].names[k].name
        BY <2>1, <3>1, <4>1
      <4> QED
        BY <4>2, <4>3
    <3> QED
      BY <3>1
  <2>6. \A b \in DOMAIN t : \A k \in DOMAIN t[b].names :
             t[b].names[k].own => t[b].names[k].ref # Null /\ t[b].kind # "arm"
    BY <1>3, <1>5, <2>1, <2>3
  <2>7. G.scratch = {}
    BY DEF Remold
  <2>8. t # <<>>
    <3>1. 1 \in DOMAIN s
      BY <1>2
    <3>2. 1 \in DOMAIN t
      BY <1>4, <3>1
    <3> QED
      BY <3>2
  <2> QED
    BY <1>1, <2>3, <2>4, <2>5, <2>6, <2>7, <2>8 DEF Shape
<1>7. DOMAIN G.loops = DOMAIN f.loops
  BY DEF Remold, SameLoops
<1>8. ASSUME NEW l \in DOMAIN f.loops
      PROVE  /\ \A b \in DOMAIN s : \A k : AtVar(G, l, b, k) <=> AtVar(f, l, b, k)
             /\ LoopAt(G, l)
  <2>1. PICK d : d = f.loops[l].depth
    OBVIOUS
  <2>2. /\ G.loops[l].depth = d /\ G.loops[l].arr = f.loops[l].arr
        /\ G.loops[l].mine = f.loops[l].mine /\ G.loops[l].var = f.loops[l].var
    BY <2>1 DEF Remold, SameLoops
  <2>3. \A b \in DOMAIN s : \A k : AtVar(G, l, b, k) <=> AtVar(f, l, b, k)
    BY <1>1, <1>3, <2>1, <2>2 DEF AtVar
  <2>4. LoopAt(f, l)
    BY DEF LoopShape
  <2>5. d \in DOMAIN s /\ s[d].kind # "arm"
        /\ (d < n => s[d + 1].kind = "loop")
        /\ (f.loops[l].mine => f.loops[l].arr # Null)
    BY <1>1, <2>1, <2>4 DEF LoopAt
  <2>6. d \in DOMAIN t /\ t[d].kind # "arm"
    BY <1>3, <1>4, <2>5
  <2>7. d < Len(t) => t[d + 1].kind = "loop"
    <3>1. CASE d < n
      <4>1. d + 1 \in DOMAIN s
        BY <1>2, <2>5, <3>1
      <4> QED
        BY <1>3, <2>5, <3>1, <4>1
    <3>2. CASE ~(d < n)
      <4>1. d = n
        BY <1>2, <2>5, <3>2
      <4> QED
        BY <1>2, <1>3, <4>1
    <3> QED
      BY <3>1, <3>2
  <2>8. f.loops[l].arr # Null =>
          /\ s[d].names # <<>>
          /\ \A b \in 1 .. d : \A k \in DOMAIN s[b].names :
               /\ s[b].names[k].name = f.loops[l].var <=> AtVar(f, l, b, k)
               /\ AtVar(f, l, b, k) => ~s[b].names[k].own
    BY <1>1, <2>1, <2>4 DEF LoopAt
  <2>9. ASSUME f.loops[l].arr # Null
        PROVE  /\ t[d].names # <<>>
               /\ \A b \in 1 .. d : \A k \in DOMAIN t[b].names :
                    /\ t[b].names[k].name = G.loops[l].var <=> AtVar(G, l, b, k)
                    /\ AtVar(G, l, b, k) => ~t[b].names[k].own
    <3>1. t[d].names # <<>>
      <4>1. s[d].names \in Seq(EntryType)
        BY <1>1, <2>5, FrameParts
      <4>2. Len(s[d].names) # 0
        BY <2>8, <2>9, <4>1
      <4>3. Len(t[d].names) # 0
        BY <1>3, <2>5, <4>2
      <4> QED
        BY <4>3
    <3>2. ASSUME NEW b \in 1 .. d, NEW k \in DOMAIN t[b].names
          PROVE  /\ t[b].names[k].name = G.loops[l].var <=> AtVar(G, l, b, k)
                 /\ AtVar(G, l, b, k) => ~t[b].names[k].own
      <4>1. b \in DOMAIN s
        BY <1>2, <2>5
      <4>2. k \in DOMAIN s[b].names /\ t[b].names[k].name = s[b].names[k].name /\ t[b].names[k].own = s[b].names[k].own
        BY <1>3, <3>2, <4>1
      <4>3. AtVar(G, l, b, k) <=> AtVar(f, l, b, k)
        BY <2>3, <4>1
      <4>4. /\ s[b].names[k].name = f.loops[l].var <=> AtVar(f, l, b, k)
            /\ AtVar(f, l, b, k) => ~s[b].names[k].own
        BY <2>8, <2>9, <4>2
      <4> QED
        BY <2>2, <4>2, <4>3, <4>4
    <3> QED
      BY <3>1, <3>2
  <2>10. LoopAt(G, l)
    <3>1. G.vals = <<>> /\ ~G.transient
      BY DEF Remold
    <3> QED
      BY <1>1, <2>2, <2>5, <2>6, <2>7, <2>9, <3>1 DEF LoopAt
  <2> QED
    BY <2>3, <2>10
<1>9. LoopShape(G)
  <2>1. \A l \in DOMAIN G.loops : LoopAt(G, l)
    BY <1>7, <1>8
  <2>2. \A l, m \in DOMAIN G.loops : l < m => G.loops[l].depth < G.loops[m].depth
    BY <1>7 DEF LoopShape, Remold, SameLoops
  <2> QED
    BY <2>1, <2>2 DEF LoopShape
<1> QED
  BY <1>1, <1>5, <1>6, <1>8, <1>9

\* What a name is assigned: one reference to the name, one to be released.
LEMMA SevenParts ==
  ASSUME NEW s \in Int, NEW t \in Int, NEW b \in Nat, NEW c \in Nat, NEW l \in Nat, NEW g \in Nat,
         NEW x \in Nat, NEW y \in Nat, t + g = s + x, c + y = b + x
  PROVE  t + (b + g + l) = s + (c + 0 + l) + y + 0
OBVIOUS

\* Names that keep their places and what they are, and a loop keeps its array.
Renews(f, G, i, j) ==
  /\ \A b \in DOMAIN f.blocks : \A k \in DOMAIN f.blocks[b].names :
       (b = i /\ k = j) \/ G.blocks[b].names[k] = f.blocks[b].names[k]
  /\ i \in DOMAIN f.blocks /\ j \in DOMAIN f.blocks[i].names =>
       /\ f.blocks[i].names[j].own =>
            \A l \in DOMAIN f.loops :
              f.loops[l].mine \/ f.loops[l].arr \notin Inside(f.blocks[i].names[j].ref)
       /\ NameNew(G, i, j)

\* A frame in which one name holds something else keeps its shape and its
\* guards.
LEMMA RemoldFits ==
  ASSUME Core, Running, NEW N, N = Len(frames), NEW f, f = F, NEW G \in FrameType,
         f.blocks[Len(f.blocks)].kind # "arm", Remold(f, G), NEW i, NEW j, Renews(f, G, i, j)
  PROVE  Shape(G) /\ LoopShape(G) /\ LoopsFit(N, f, G) /\ NamesFit(f, G)
<1>0. /\ \A b \in DOMAIN f.blocks : \A k \in DOMAIN f.blocks[b].names :
           (b = i /\ k = j) \/ G.blocks[b].names[k] = f.blocks[b].names[k]
      /\ i \in DOMAIN f.blocks /\ j \in DOMAIN f.blocks[i].names /\ f.blocks[i].names[j].own =>
           \A l \in DOMAIN f.loops :
              f.loops[l].mine \/ f.loops[l].arr \notin Inside(f.blocks[i].names[j].ref)
      /\ i \in DOMAIN f.blocks /\ j \in DOMAIN f.blocks[i].names => NameNew(G, i, j)
  BY DEF Renews
<1>1. f \in FrameType /\ Shape(f) /\ LoopShape(f)
  BY Going
<1>2. /\ Shape(G) /\ LoopShape(G)
      /\ \A l \in DOMAIN f.loops : \A b \in DOMAIN f.blocks : \A k : AtVar(G, l, b, k) <=> AtVar(f, l, b, k)
      /\ \A b \in DOMAIN G.blocks : \A k \in DOMAIN G.blocks[b].names :
            b \in DOMAIN f.blocks /\ k \in DOMAIN f.blocks[b].names
  BY <1>1, Remolded
<1>3. /\ DOMAIN G.loops = DOMAIN f.loops
      /\ \A l \in DOMAIN f.loops : /\ G.loops[l].arr = f.loops[l].arr /\ G.loops[l].mine = f.loops[l].mine
                                   /\ G.loops[l].var = f.loops[l].var /\ G.loops[l].depth = f.loops[l].depth
  BY DEF Remold, SameLoops
<1>4. /\ Len(f.blocks) \in Nat /\ DOMAIN f.blocks = 1 .. Len(f.blocks)
      /\ DOMAIN G.blocks = 1 .. Len(G.blocks) /\ Len(G.blocks) \in Nat
  BY <1>1, FrameParts
<1>5. \A b \in DOMAIN f.blocks : b \in DOMAIN G.blocks /\ G.blocks[b].kind = f.blocks[b].kind
                                  /\ DOMAIN G.blocks[b].names = DOMAIN f.blocks[b].names
  <2>1. Len(G.blocks) >= Len(f.blocks)
    BY <1>4 DEF Remold
  <2> QED
    BY <1>4, <2>1 DEF Remold
<1>6. LoopsFit(N, f, G)
  <2>1. ASSUME NEW l \in DOMAIN G.loops, G.loops[l].arr # Null
        PROVE  /\ mem[G.loops[l].arr] = "heap"
               /\ ~G.loops[l].mine =>
                    /\ Guard(N, G.loops[l].depth, G.loops[l].arr)
                    /\ \A a \in Addr : mem[a] = "heap" /\ G.loops[l].arr \in Inside(a) /\ Keeps(f, G.loops[l].depth, a)
                          => Keeps(G, G.loops[l].depth, a)
    <3>1. PICK d, r : d = f.loops[l].depth /\ r = f.loops[l].arr
      OBVIOUS
    <3>2. /\ l \in DOMAIN f.loops /\ G.loops[l].arr = r /\ G.loops[l].mine = f.loops[l].mine
          /\ G.loops[l].depth = d
      BY <1>3, <3>1
    <3>3. mem[r] = "heap" /\ (~f.loops[l].mine => Guard(N, d, r))
      BY <2>1, <3>1, <3>2, LoopOld
    <3>4. ASSUME ~f.loops[l].mine, NEW a \in Addr, mem[a] = "heap", r \in Inside(a), Keeps(f, d, a)
          PROVE  Keeps(G, d, a)
      <4>1. CASE \E b \in DOMAIN f.blocks : b <= d /\
                 \E k \in DOMAIN f.blocks[b].names : f.blocks[b].names[k].own /\ f.blocks[b].names[k].ref = a
        <5>1. PICK b \in DOMAIN f.blocks : b <= d /\
                 \E k \in DOMAIN f.blocks[b].names : f.blocks[b].names[k].own /\ f.blocks[b].names[k].ref = a
          BY <4>1
        <5>2. PICK k \in DOMAIN f.blocks[b].names : f.blocks[b].names[k].own /\ f.blocks[b].names[k].ref = a
          BY <5>1
        <5>3. ~(b = i /\ k = j)
          BY <1>0, <3>1, <3>2, <3>4, <5>2
        <5>4. G.blocks[b].names[k] = f.blocks[b].names[k]
          BY <1>0, <5>3
        <5>5. b \in DOMAIN G.blocks /\ k \in DOMAIN G.blocks[b].names
          BY <1>5
        <5> QED
          BY <5>1, <5>2, <5>4, <5>5 DEF Keeps
      <4>2. CASE \E m \in DOMAIN f.loops : f.loops[m].depth < d /\ f.loops[m].mine /\ f.loops[m].arr = a
        BY <1>3, <4>2 DEF Keeps
      <4> QED
        BY <3>4, <4>1, <4>2 DEF Keeps
    <3> QED
      BY <3>2, <3>3, <3>4
  <2> QED
    BY <2>1 DEF LoopsFit
<1>7. NamesFit(f, G)
  <2>1. ASSUME NEW b \in DOMAIN G.blocks, NEW k \in DOMAIN G.blocks[b].names
        PROVE  NameStays(f, G, b, k) \/ NameNew(G, b, k)
    <3>1. b \in DOMAIN f.blocks /\ k \in DOMAIN f.blocks[b].names
      BY <1>2
    <3>2. CASE b = i /\ k = j
      BY <1>0, <3>1, <3>2
    <3>3. CASE ~(b = i /\ k = j)
      <4>1. G.blocks[b].names[k] = f.blocks[b].names[k] /\ G.blocks[b].kind = f.blocks[b].kind
        BY <1>0, <1>5, <3>1, <3>3
      <4>2. \A l \in DOMAIN f.loops : AtVar(f, l, b, k) =>
              l \in DOMAIN G.loops /\ AtVar(G, l, b, k) /\ G.loops[l].arr = f.loops[l].arr
        BY <1>2, <1>3, <3>1
      <4> QED
        BY <3>1, <4>1, <4>2 DEF NameStays
    <3> QED
      BY <3>2, <3>3
  <2> QED
    BY <2>1 DEF NamesFit
<1> QED
  BY <1>2, <1>6, <1>7

\* Assigning keeps the invariant: the new value is counted before the old one
\* is released, and no loop walks what goes (gen_stmt Assign).
LEMMA AssignStep ==
  ASSUME Core, lifted \subseteq Leaks, lifted' = lifted, NEW n \in Var, Assign(n)
  PROVE  Core'
<1>1. PICK f, w, N, V, s, i, j, old :
        /\ f = F /\ w = Top(F.vals) /\ N = Len(frames) /\ V = <<>>
        /\ s = Resolve(n) /\ i = s[1] /\ j = s[2] /\ old = Bound(s).ref
  OBVIOUS
<1>2. /\ Whole /\ Bindings(n) # {} /\ Bound(s).own /\ NotWalked(old)
      /\ RetainIf(w.st = "borrow", w.ref)
      /\ SetFrame([f EXCEPT !.vals = V, !.blocks[i].names[j].ref = w.ref])
      /\ due' = <<old>>
      /\ UNCHANGED <<mem, body, dropping, payload, lost>>
  <2>1. Lift("assignBorrowed", Bound(s).own) => Bound(s).own
    BY DEF Lift, Leaks
  <2>2. Lift("assignWalked", NotWalked(old)) => NotWalked(old)
    BY DEF Lift, Leaks
  <2> QED
    BY <1>1, <2>1, <2>2 DEF Assign
<1>3. /\ Statement /\ Done /\ Running
      /\ w \in OperandType /\ w.ref \in Addr /\ w.st \in {"own", "borrow"} /\ mem[w.ref] # "none"
      /\ \A a : Cardinality(OwnVals(f.vals, a)) = Gives(w, a)
  BY <1>1, <1>2, WholeFacts
<1>4. /\ HeapStep /\ BuiltAlone
      /\ \A a \in Addr : mem'[a] = "heap" => Stock(a)' + Gives(w, a) = Stock(a) + One(w.ref = a)
  BY <1>1, <1>2, <1>3, RetainedTaken
<1>5. /\ f \in FrameType /\ Shape(f) /\ f.scratch = {} /\ ~f.transient /\ f.blocks \in Seq(BlockType) /\ f.blocks # <<>>
      /\ f.blocks[Len(f.blocks)].kind # "arm" /\ HeapTyped /\ f.loops \in Seq(LoopType) /\ due = <<>>
      /\ f.spent = <<>> /\ Lives(f)
  BY <1>1, <1>3, StatementFacts, Going
<1>6. /\ i \in DOMAIN f.blocks /\ j \in DOMAIN f.blocks[i].names
      /\ f.blocks[i].names[j].own /\ f.blocks[i].names[j].ref = old
  <2>1. s \in Sites /\ F.blocks \in Seq(BlockType)
    BY <1>1, <1>2, <1>5, ResolveExists
  <2>2. s[1] \in DOMAIN F.blocks /\ s[2] \in DOMAIN F.blocks[s[1]].names
    BY <2>1, SitesAre
  <2> QED
    BY <1>1, <1>2, <2>2 DEF Bound
<1>7. old \in Addr /\ mem[old] # "none"
  <2>1. f.blocks[i].names[j].ref # Null
    BY <1>5, <1>6 DEF Shape
  <2>2. f.blocks[i].names[j].ref \in Addr \cup {Null}
    BY <1>5, <1>6, FrameParts
  <2>3. LiveName(f.blocks[i].names[j])
    BY <1>5, <1>6 DEF Lives
  <2> QED
    BY <1>6, <2>1, <2>2, <2>3 DEF LiveName
<1>8. PICK refs : refs = <<old>>
  OBVIOUS
<1>9. refs \in Seq(Addr) /\ \A a : Cardinality(Places(refs, a)) = One(old = a)
  BY <1>7, <1>8, PlacesOne
<1>10. Dropped(refs)
  <2>1. \A k \in DOMAIN refs : mem[refs[k]] # "none"
    BY <1>7, <1>8
  <2>2. due' = refs /\ lost' = lost
    BY <1>2, <1>8
  <2> QED
    BY <1>5, <1>9, <2>1, <2>2, DueDrops
<1>11. PICK B, r : B = Rebound(f.blocks, i, j, r) /\ r = w.ref
  OBVIOUS
<1>12. ReboundTo(f.blocks, i, j, r, B)
  <2>1. r \in Addr \cup {Null}
    BY <1>3, <1>11
  <2> QED
    BY <1>5, <1>6, <1>11, <2>1, Rebinds
<1>13. PICK G : G = Remade(f, B, V, f.loops)
  OBVIOUS
<1>14. frames' = Append(Under, G)
  BY <1>2, <1>5, <1>11, <1>13, ZenonT(60) DEF SetFrame, Rebound, Remade, FrameType
<1>15. SameFrame(f, G) /\ G \in FrameType /\ G.blocks = B /\ G.loops = f.loops /\ G.vals = V /\ G.scratch = {}
  <2>1. f \in FrameType /\ B \in Seq(BlockType) /\ f.loops \in Seq(LoopType) /\ f.scratch = {} /\ V = <<>>
    BY <1>1, <1>5, <1>12 DEF ReboundTo
  <2> QED
    BY <2>1, <1>13, FrameBoth
<1>16. \A b \in DOMAIN f.blocks : \A k \in DOMAIN f.blocks[b].names :
            (b = i /\ k = j) \/ G.blocks[b].names[k] = f.blocks[b].names[k]
  BY <1>12, <1>15 DEF ReboundTo
<1>17. /\ G.blocks[i].names[j].own /\ G.blocks[i].names[j].ref = w.ref
       /\ G.blocks[i].names[j].name = f.blocks[i].names[j].name
  BY <1>6, <1>11, <1>12, <1>15 DEF ReboundTo
<1>18. Remold(f, G)
  <2>1. SameLoops(f, G)
    BY <1>15 DEF SameLoops
  <2>2. ASSUME NEW b \in DOMAIN f.blocks
        PROVE  /\ G.blocks[b].kind = f.blocks[b].kind /\ Len(G.blocks[b].names) = Len(f.blocks[b].names)
               /\ DOMAIN G.blocks[b].names = DOMAIN f.blocks[b].names
               /\ \A k \in DOMAIN f.blocks[b].names :
                    /\ G.blocks[b].names[k].name = f.blocks[b].names[k].name
                    /\ G.blocks[b].names[k].own = f.blocks[b].names[k].own
                    /\ f.blocks[b].names[k].own => G.blocks[b].names[k].ref # Null
    <3>1. /\ G.blocks[b].kind = f.blocks[b].kind /\ Len(G.blocks[b].names) = Len(f.blocks[b].names)
          /\ DOMAIN G.blocks[b].names = DOMAIN f.blocks[b].names
      BY <1>12, <1>15 DEF ReboundTo
    <3>2. ASSUME NEW k \in DOMAIN f.blocks[b].names
          PROVE  /\ G.blocks[b].names[k].name = f.blocks[b].names[k].name
                 /\ G.blocks[b].names[k].own = f.blocks[b].names[k].own
                 /\ f.blocks[b].names[k].own => G.blocks[b].names[k].ref # Null
      <4>1. CASE b = i /\ k = j
        <5>1. w.ref # Null
          BY <1>3, OwnershipAssumption
        <5>2. G.blocks[i].names[j].own = f.blocks[i].names[j].own
          BY <1>12, <1>15 DEF ReboundTo
        <5> QED
          BY <1>17, <4>1, <5>1, <5>2
      <4>2. CASE ~(b = i /\ k = j)
        <5>1. G.blocks[b].names[k] = f.blocks[b].names[k]
          BY <1>16, <4>2
        <5> QED
          BY <1>5, <5>1 DEF Shape
      <4> QED
        BY <4>1, <4>2
    <3> QED
      BY <3>1, <3>2
  <2>3. Len(G.blocks) = Len(f.blocks)
    BY <1>12, <1>15 DEF ReboundTo
  <2>4. G.vals = <<>> /\ ~G.transient /\ G.scratch = {}
    BY <1>1, <1>5, <1>15 DEF SameFrame
  <2> QED
    BY <2>1, <2>2, <2>3, <2>4 DEF Remold
<1>19. \A l \in DOMAIN f.loops : f.loops[l].mine \/ f.loops[l].arr \notin Inside(old)
  <2>1. DOMAIN f.loops = 1 .. Len(f.loops)
    BY <1>5
  <2> QED
    BY <1>1, <1>2, <2>1 DEF NotWalked
<1>20. NameNew(G, i, j)
  BY <1>3, <1>17 DEF NameNew
<1>21. Shape(G) /\ LoopShape(G) /\ LoopsFit(N, f, G) /\ NamesFit(f, G)
  <2>1. f.blocks[i].names[j].own => \A l \in DOMAIN f.loops :
              f.loops[l].mine \/ f.loops[l].arr \notin Inside(f.blocks[i].names[j].ref)
    BY <1>6, <1>19
  <2>2. Renews(f, G, i, j)
    BY <1>16, <1>20, <2>1 DEF Renews
  <2> QED
    BY <1>1, <1>3, <1>5, <1>15, <1>18, <2>2, RemoldFits
<1>22. PartsMove(f, G, refs, Zero)
  <2>1. ASSUME NEW a \in Addr, mem'[a] = "heap"
        PROVE  Stock(a)' + (Cardinality(OwnBlocks(f.blocks, a)) + Cardinality(OwnVals(f.vals, a)) + Cardinality(OwnLoops(f.loops, a))) =
      Stock(a) + (Cardinality(OwnBlocks(G.blocks, a)) + Cardinality(OwnVals(G.vals, a)) + Cardinality(OwnLoops(G.loops, a)))
        + Cardinality(Places(refs, a)) + Zero[a]
    <3>1. PICK p, q, b, c, l, g, x, y :
            /\ p = Stock(a) /\ q = Stock(a)' /\ b = Cardinality(OwnBlocks(f.blocks, a))
            /\ c = Cardinality(OwnBlocks(G.blocks, a)) /\ l = Cardinality(OwnLoops(f.loops, a))
            /\ g = Gives(w, a) /\ x = One(w.ref = a) /\ y = One(old = a)
      OBVIOUS
    <3>2. g \in Nat /\ x \in Nat /\ y \in Nat
      <4>1. Gives(w, a) \in {0, 1} /\ One(w.ref = a) \in {0, 1} /\ One(old = a) \in {0, 1}
        BY GivesIs DEF One
      <4> QED
        BY <3>1, <4>1
    <3>3. l \in Nat /\ p \in Int /\ q \in Int
      <4>1. HeapTyped'
        BY <1>4 DEF HeapStep
      <4> QED
        BY <1>5, <3>1, <4>1, CountsFinite, StockInt, StockIntNext
    <3>4. b \in Nat /\ c \in Nat /\ c + y = b + x
      <4>1. /\ Cardinality(OwnBlocks(B, a)) + One(f.blocks[i].names[j].own /\ f.blocks[i].names[j].ref = a) =
                 Cardinality(OwnBlocks(f.blocks, a)) + One(f.blocks[i].names[j].own /\ r = a)
            /\ Cardinality(OwnBlocks(B, a)) \in Nat /\ Cardinality(OwnBlocks(f.blocks, a)) \in Nat
        BY <1>12 DEF ReboundTo
      <4>2. One(f.blocks[i].names[j].own /\ f.blocks[i].names[j].ref = a) = y
            /\ One(f.blocks[i].names[j].own /\ r = a) = x
        BY <1>6, <1>11, <3>1 DEF One
      <4> QED
        BY <1>15, <3>1, <4>1, <4>2
    <3>5. q + g = p + x
      BY <1>4, <2>1, <3>1
    <3>6. q + (b + g + l) = p + (c + 0 + l) + y + 0
      BY <3>2, <3>3, <3>4, <3>5, SevenParts
    <3>7. Cardinality(OwnVals(f.vals, a)) = g /\ Cardinality(Places(refs, a)) = y /\ Zero[a] = 0
          /\ Cardinality(OwnVals(G.vals, a)) = 0 /\ Cardinality(OwnLoops(G.loops, a)) = l
      <4>1. Cardinality(OwnVals(f.vals, a)) = g
        BY <1>3, <3>1
      <4>2. Cardinality(Places(refs, a)) = y
        BY <1>9, <3>1
      <4>3. Zero[a] = 0
        BY ZeroAbandons
      <4>4. Cardinality(OwnVals(G.vals, a)) = 0
        <5>1. G.vals = <<>>
          BY <1>1, <1>15
        <5> QED
          BY <5>1, CountsEmpty
      <4>5. Cardinality(OwnLoops(G.loops, a)) = l
        BY <1>15, <3>1
      <4> QED
        BY <4>1, <4>2, <4>3, <4>4, <4>5
    <3> QED
      BY <3>1, <3>6, <3>7
  <2> QED
    BY <2>1 DEF PartsMove
<1>23. G.spent = <<>> /\ G.unit = f.unit /\ G.vals = <<>> /\ G.scratch = {}
  BY <1>1, <1>5, <1>15 DEF SameFrame
<1>24. N = Len(frames) /\ f = F /\ Abandons(Zero)
  BY <1>1, ZeroAbandons
<1> QED
  BY <1>3, <1>4, <1>5, <1>9, <1>10, <1>14, <1>15, <1>21, <1>22, <1>23, <1>24, StatementStep

\* What is known of the running frame at the head of its innermost loop.
LEMMA HeadFacts ==
  ASSUME Core, Running, AtHead, NEW f, f = F, NEW n, n = Len(F.loops), NEW l, l = Top(F.loops)
  PROVE  /\ n \in Nat \ {0} /\ n \in DOMAIN f.loops /\ DOMAIN f.loops = 1 .. n
         /\ l = f.loops[n] /\ l \in LoopType /\ l.depth = Len(f.blocks)
         /\ f \in FrameType /\ Shape(f) /\ LoopShape(f) /\ f.vals = <<>> /\ ~f.transient /\ f.scratch = {}
         /\ f.blocks \in Seq(BlockType) /\ f.blocks # <<>> /\ f.loops \in Seq(LoopType)
         /\ f.blocks[Len(f.blocks)].kind # "arm" /\ f.spent = <<>>
         /\ Len(f.blocks) \in Nat \ {0} /\ DOMAIN f.blocks = 1 .. Len(f.blocks)
         /\ l.mine => l.arr # Null
<1>1. /\ f \in FrameType /\ Shape(f) /\ LoopShape(f) /\ f.spent = <<>>
      /\ f.blocks \in Seq(BlockType) /\ f.loops \in Seq(LoopType)
  BY Going
<1>2. f.loops # <<>> /\ Len(f.blocks) = l.depth
  BY DEF AtHead
<1>3. /\ n \in Nat \ {0} /\ n \in DOMAIN f.loops /\ DOMAIN f.loops = 1 .. n
      /\ l = f.loops[n] /\ l \in LoopType
  <2>1. n = Len(f.loops) /\ l = f.loops[n]
    BY DEF Top
  <2>2. Len(f.loops) \in 1 .. Len(f.loops) /\ DOMAIN f.loops = 1 .. Len(f.loops) /\ Len(f.loops) \in Nat \ {0}
    BY <1>1, <1>2, PopFacts
  <2> QED
    BY <1>1, <2>1, <2>2
<1>4. f.blocks # <<>>
  BY <1>1 DEF Shape
<1>5. Len(f.blocks) \in Nat \ {0} /\ DOMAIN f.blocks = 1 .. Len(f.blocks)
  BY <1>1, <1>4
<1>6. LoopAt(f, n)
  BY <1>1, <1>3 DEF LoopShape
<1>7. f.vals = <<>> /\ ~f.transient /\ f.blocks[Len(f.blocks)].kind # "arm" /\ (l.mine => l.arr # Null)
  BY <1>2, <1>3, <1>6 DEF LoopAt
<1>8. f.scratch = {}
  BY <1>1, <1>7 DEF Shape
<1> QED
  BY <1>1, <1>2, <1>3, <1>4, <1>5, <1>7, <1>8

\* The variable of the loop there is the last name of the block, and stands for
\* nothing else.
LEMMA HeadVar ==
  ASSUME Core, Running, AtHead, NEW f, f = F, NEW n, n = Len(F.loops), NEW l, l = Top(F.loops), l.arr # Null,
         NEW K, K = Len(f.blocks), NEW J, J = Len(f.blocks[K].names)
  PROVE  /\ K \in DOMAIN f.blocks /\ J \in DOMAIN f.blocks[K].names
         /\ f.blocks[K].names # <<>> /\ f.blocks[K].names \in Seq(EntryType)
         /\ ~f.blocks[K].names[J].own /\ f.blocks[K].names[J].name = l.var
         /\ Bindings(l.var) = {<<K, J>>} /\ Resolve(l.var) = <<K, J>>
         /\ l.arr \in Addr /\ mem[l.arr] = "heap"
<1>1. /\ n \in DOMAIN f.loops /\ l = f.loops[n] /\ l \in LoopType /\ l.depth = K
      /\ f \in FrameType /\ LoopShape(f) /\ f.blocks \in Seq(BlockType)
      /\ K \in Nat \ {0} /\ DOMAIN f.blocks = 1 .. K
  BY HeadFacts
<1>2. LoopAt(f, n)
  BY <1>1 DEF LoopShape
<1>3. /\ f.blocks[K].names # <<>>
      /\ \A b \in 1 .. K : \A k \in DOMAIN f.blocks[b].names :
           /\ f.blocks[b].names[k].name = l.var <=> AtVar(f, n, b, k)
           /\ AtVar(f, n, b, k) => ~f.blocks[b].names[k].own
  BY <1>1, <1>2 DEF LoopAt
<1>4. \A b, k : AtVar(f, n, b, k) <=> b = K /\ k = Len(f.blocks[b].names)
  BY <1>1 DEF AtVar
<1>5. K \in DOMAIN f.blocks /\ K \in 1 .. K
  BY <1>1
<1>6. f.blocks[K].names \in Seq(EntryType)
  BY <1>1, <1>5, FrameParts
<1>7. J \in DOMAIN f.blocks[K].names
  BY <1>3, <1>6
<1>8. ~f.blocks[K].names[J].own /\ f.blocks[K].names[J].name = l.var
  BY <1>3, <1>4, <1>5, <1>7
<1>9. PICK s : s = <<K, J>>
  OBVIOUS
<1>10. s[1] = K /\ s[2] = J /\ s \in Sites /\ Bound(s) = f.blocks[K].names[J]
  BY <1>1, <1>5, <1>7, <1>9, SitesAre DEF Bound
<1>11. \A t : t \in Bindings(l.var) <=> t = s
  <2>1. ASSUME NEW t \in Bindings(l.var)
        PROVE  t = s
    <3>1. t \in Sites /\ Bound(t).name = l.var
      BY DEF Bindings
    <3>2. t = <<t[1], t[2]>> /\ t[1] \in DOMAIN f.blocks /\ t[2] \in DOMAIN f.blocks[t[1]].names
      BY <1>1, <3>1, SitesAre
    <3>3. f.blocks[t[1]].names[t[2]].name = l.var
      BY <3>1 DEF Bound
    <3>4. t[1] \in 1 .. K
      BY <1>1, <3>2
    <3>5. t[1] = K /\ t[2] = Len(f.blocks[t[1]].names)
      BY <1>3, <1>4, <3>2, <3>3, <3>4
    <3> QED
      BY <1>9, <3>2, <3>5
  <2>2. s \in Bindings(l.var)
    BY <1>8, <1>10 DEF Bindings
  <2> QED
    BY <2>1, <2>2
<1>12. Bindings(l.var) = {s}
  BY <1>11
<1>13. Resolve(l.var) = s
  <2>1. F.blocks \in Seq(BlockType) /\ Bindings(l.var) # {}
    BY <1>1, <1>12
  <2>2. Resolve(l.var) \in Bindings(l.var)
    BY <2>1, ResolveExists
  <2> QED
    BY <1>11, <2>2
<1>14. l.arr \in Addr /\ mem[l.arr] = "heap"
  BY <1>1, LoopOld
<1> QED
  BY <1>3, <1>5, <1>6, <1>7, <1>8, <1>9, <1>12, <1>13, <1>14

\* The blocks of a frame with at most one name, which owns nothing, stored to.
Stores(s, t, i, j) ==
  /\ t \in Seq(BlockType) /\ Len(t) = Len(s) /\ DOMAIN t = DOMAIN s
  /\ \A b \in DOMAIN s :
       /\ t[b].kind = s[b].kind /\ Len(t[b].names) = Len(s[b].names) /\ DOMAIN t[b].names = DOMAIN s[b].names
       /\ \A k \in DOMAIN s[b].names :
            /\ t[b].names[k].name = s[b].names[k].name
            /\ t[b].names[k].own = s[b].names[k].own
            /\ (b = i /\ k = j /\ ~s[b].names[k].own) \/ t[b].names[k] = s[b].names[k]
  /\ \A a : Cardinality(OwnBlocks(t, a)) = Cardinality(OwnBlocks(s, a))

\* A loop that counts stores nothing.
LEMMA StoresNothing ==
  ASSUME NEW s \in Seq(BlockType)
  PROVE  Stores(s, s, 0, 0)
BY DEF Stores

\* A loop over an array stores to its variable, which owns nothing.
LEMMA StoresOne ==
  ASSUME NEW s \in Seq(BlockType), NEW i \in DOMAIN s, NEW j \in DOMAIN s[i].names, ~s[i].names[j].own,
         NEW r \in Addr \cup {Null}, NEW t, t = Rebound(s, i, j, r)
  PROVE  Stores(s, t, i, j) /\ t[i].names[j].ref = r
<1>1. ReboundTo(s, i, j, r, t)
  BY Rebinds
<1>2. \A a : Cardinality(OwnBlocks(t, a)) = Cardinality(OwnBlocks(s, a))
  <2>1. ASSUME NEW a
        PROVE  Cardinality(OwnBlocks(t, a)) = Cardinality(OwnBlocks(s, a))
    <3>1. PICK p, q : p = Cardinality(OwnBlocks(t, a)) /\ q = Cardinality(OwnBlocks(s, a))
      OBVIOUS
    <3>2. /\ Cardinality(OwnBlocks(t, a)) + One(s[i].names[j].own /\ s[i].names[j].ref = a) =
                 Cardinality(OwnBlocks(s, a)) + One(s[i].names[j].own /\ r = a)
          /\ Cardinality(OwnBlocks(t, a)) \in Nat /\ Cardinality(OwnBlocks(s, a)) \in Nat
      BY <1>1 DEF ReboundTo
    <3>3. One(s[i].names[j].own /\ s[i].names[j].ref = a) = 0 /\ One(s[i].names[j].own /\ r = a) = 0
      BY DEF One
    <3>4. p + 0 = q + 0 /\ p \in Nat /\ q \in Nat
      BY <3>1, <3>2, <3>3
    <3> QED
      BY <3>1, <3>4
  <2> QED
    BY <2>1
<1>3. \A b \in DOMAIN s :
       /\ t[b].kind = s[b].kind /\ Len(t[b].names) = Len(s[b].names) /\ DOMAIN t[b].names = DOMAIN s[b].names
       /\ \A k \in DOMAIN s[b].names :
            /\ t[b].names[k].name = s[b].names[k].name
            /\ t[b].names[k].own = s[b].names[k].own
            /\ (b = i /\ k = j /\ ~s[b].names[k].own) \/ t[b].names[k] = s[b].names[k]
  BY <1>1 DEF ReboundTo
<1> QED
  BY <1>1, <1>2, <1>3 DEF Stores, ReboundTo

\* The loop's variable, its word of the array stored.
VarStored(s, L, i, j, t) ==
  i \in DOMAIN s /\ j \in DOMAIN s[i].names =>
    /\ ~s[i].names[j].own
    /\ \E m \in DOMAIN L :
         /\ L[m].arr # Null /\ i = L[m].depth /\ j = Len(s[i].names)
         /\ \E w \in 1 .. Width : body[L[m].arr][w] = t[i].names[j].ref

\* A turn of a loop keeps the invariant, whatever the loop walks.
LEMMA TurnGoes ==
  ASSUME Core, Running, AtHead, lifted' = lifted, UNCHANGED <<heapVars, payload>>, UNCHANGED <<due, lost>>,
         NEW f, f = F, NEW V, V = <<>>, NEW x, x = [kind |-> "loop", base |-> 0, names |-> <<>>],
         NEW t \in Seq(BlockType), NEW i, NEW j, Stores(f.blocks, t, i, j),
         NEW L \in Seq(LoopType), NEW M, M = [f EXCEPT !.loops = L], SameLoops(f, M),
         VarStored(f.blocks, L, i, j, t),
         NEW G, G = Remade(f, Append(t, x), V, L), frames' = Append(Under, G)
  PROVE  Core'
<1>1. PICK N, n, l, s : N = Len(frames) /\ n = Len(F.loops) /\ l = Top(F.loops) /\ s = f.blocks
  OBVIOUS
<1>2. /\ f \in FrameType /\ Shape(f) /\ LoopShape(f) /\ f.vals = <<>> /\ ~f.transient /\ f.scratch = {}
      /\ s \in Seq(BlockType) /\ s # <<>> /\ f.loops \in Seq(LoopType)
      /\ f.blocks[Len(f.blocks)].kind # "arm" /\ f.spent = <<>>
      /\ Len(s) \in Nat \ {0} /\ DOMAIN s = 1 .. Len(s)
  BY <1>1, HeadFacts
<1>3. HeapStep /\ BuiltAlone /\ HeapTyped' /\ \A a \in Addr : Stock(a)' = Stock(a) /\ Stock(a) \in Int
  BY StillHeap
<1>4. Dropped(<<>>) /\ <<>> \in Seq(Addr)
  BY DropsNothing
<1>5. x \in BlockType /\ x.kind = "loop" /\ x.names = <<>>
  <2>1. <<>> \in Seq(EntryType)
    OBVIOUS
  <2> QED
    BY <2>1 DEF BlockType
<1>6. PICK B : B = Append(t, x)
  OBVIOUS
<1>7. /\ B \in Seq(BlockType) /\ Len(B) = Len(s) + 1 /\ B[Len(s) + 1] = x
      /\ \A b \in DOMAIN s : B[b] = t[b]
  <2>1. Len(t) = Len(s) /\ DOMAIN t = DOMAIN s
    BY <1>1 DEF Stores
  <2> QED
    BY <1>2, <1>5, <1>6, <2>1, AppendFacts
<1>8. SameFrame(f, G) /\ G \in FrameType /\ G.blocks = B /\ G.loops = L /\ G.vals = V /\ G.scratch = {}
  <2>1. G = Remade(f, B, V, L)
    BY <1>6
  <2>2. f \in FrameType /\ B \in Seq(BlockType) /\ L \in Seq(LoopType) /\ f.scratch = {} /\ V = <<>>
    BY <1>2, <1>7
  <2> QED
    BY <2>1, <2>2, FrameBoth
<1>9. SameLoops(f, G)
  <2>1. M.loops = L
    BY <1>2 DEF FrameType
  <2> QED
    BY <1>8, <2>1 DEF SameLoops
<1>10. ASSUME NEW b \in DOMAIN s
       PROVE  /\ G.blocks[b] = t[b]
              /\ t[b].kind = s[b].kind /\ Len(t[b].names) = Len(s[b].names) /\ DOMAIN t[b].names = DOMAIN s[b].names
              /\ \A k \in DOMAIN s[b].names :
                   /\ t[b].names[k].name = s[b].names[k].name
                   /\ t[b].names[k].own = s[b].names[k].own
                   /\ (b = i /\ k = j /\ ~s[b].names[k].own) \/ t[b].names[k] = s[b].names[k]
  <2>1. G.blocks[b] = t[b]
    BY <1>7, <1>8
  <2>2. Stores(s, t, i, j)
    BY <1>1
  <2> QED
    BY <2>1, <2>2 DEF Stores
<1>11. Remold(f, G)
  <2>1. \A b \in DOMAIN s : \A k \in DOMAIN s[b].names :
           s[b].names[k].own => s[b].names[k].ref # Null
    BY <1>1, <1>2 DEF Shape
  <2>2. \A b \in DOMAIN s :
       /\ G.blocks[b].kind = s[b].kind /\ Len(G.blocks[b].names) = Len(s[b].names)
       /\ DOMAIN G.blocks[b].names = DOMAIN s[b].names
       /\ \A k \in DOMAIN s[b].names :
            /\ G.blocks[b].names[k].name = s[b].names[k].name
            /\ G.blocks[b].names[k].own = s[b].names[k].own
            /\ s[b].names[k].own => G.blocks[b].names[k].ref # Null
    <3>1. ASSUME NEW b \in DOMAIN s
          PROVE  /\ G.blocks[b].kind = s[b].kind /\ Len(G.blocks[b].names) = Len(s[b].names)
                 /\ DOMAIN G.blocks[b].names = DOMAIN s[b].names
      BY <1>10
    <3>2. ASSUME NEW b \in DOMAIN s, NEW k \in DOMAIN s[b].names
          PROVE  /\ G.blocks[b].names[k].name = s[b].names[k].name
                 /\ G.blocks[b].names[k].own = s[b].names[k].own
                 /\ s[b].names[k].own => G.blocks[b].names[k].ref # Null
      <4>1. /\ G.blocks[b] = t[b]
            /\ t[b].names[k].name = s[b].names[k].name /\ t[b].names[k].own = s[b].names[k].own
        BY <1>10
      <4>2. ASSUME s[b].names[k].own
            PROVE  t[b].names[k] = s[b].names[k]
        BY <1>10, <4>2
      <4> QED
        BY <2>1, <4>1, <4>2
    <3> QED
      BY <3>1, <3>2
  <2>3. Len(G.blocks) = Len(s) + 1 /\ G.blocks[Len(s) + 1].kind = "loop" /\ G.blocks[Len(s) + 1].names = <<>>
    BY <1>5, <1>7, <1>8
  <2>4. G.vals = <<>> /\ ~G.transient /\ G.scratch = {}
    BY <1>2, <1>8 DEF SameFrame
  <2> QED
    BY <1>1, <1>9, <2>2, <2>3, <2>4 DEF Remold
<1>12. i \in DOMAIN f.blocks /\ j \in DOMAIN f.blocks[i].names => ~f.blocks[i].names[j].own /\ NameNew(G, i, j)
  <2>1. SUFFICES ASSUME i \in DOMAIN s, j \in DOMAIN s[i].names
                 PROVE  ~s[i].names[j].own /\ NameNew(G, i, j)
    BY <1>1
  <2>2. PICK m \in DOMAIN L :
         /\ L[m].arr # Null /\ i = L[m].depth /\ j = Len(s[i].names)
         /\ \E w \in 1 .. Width : body[L[m].arr][w] = t[i].names[j].ref
    BY <1>1, <2>1 DEF VarStored
  <2>3. ~s[i].names[j].own
    BY <1>1, <2>1 DEF VarStored
  <2>4. G.blocks[i] = t[i] /\ t[i].kind = s[i].kind /\ Len(t[i].names) = Len(s[i].names)
        /\ t[i].names[j].own = s[i].names[j].own
    BY <1>10, <2>1
  <2>5. s[i].kind # "arm"
    BY <1>1, <1>2, <2>1, NoArms
  <2>6. AtVar(G, m, i, j)
    BY <1>8, <2>2, <2>4 DEF AtVar
  <2>7. ~G.blocks[i].names[j].own /\ G.blocks[i].kind # "arm"
    BY <2>3, <2>4, <2>5
  <2>8. \E w \in 1 .. Width : body[G.loops[m].arr][w] = G.blocks[i].names[j].ref
    BY <1>8, <2>2, <2>4, ZenonT(60)
  <2>9. m \in DOMAIN G.loops
    BY <1>8
  <2>10. NameNew(G, i, j)
    BY <2>6, <2>7, <2>8, <2>9 DEF NameNew
  <2> QED
    BY <2>3, <2>10
<1>13. Shape(G) /\ LoopShape(G) /\ LoopsFit(N, f, G) /\ NamesFit(f, G)
  <2>1. \A b \in DOMAIN f.blocks : \A k \in DOMAIN f.blocks[b].names :
            (b = i /\ k = j) \/ G.blocks[b].names[k] = f.blocks[b].names[k]
    <3>1. ASSUME NEW b \in DOMAIN s, NEW k \in DOMAIN s[b].names
          PROVE  (b = i /\ k = j) \/ G.blocks[b].names[k] = s[b].names[k]
      <4>1. G.blocks[b] = t[b] /\ ((b = i /\ k = j) \/ t[b].names[k] = s[b].names[k])
        BY <1>10
      <4> QED
        BY <4>1
    <3> QED
      BY <1>1, <3>1
  <2>2. i \in DOMAIN f.blocks /\ j \in DOMAIN f.blocks[i].names /\ f.blocks[i].names[j].own =>
            \A m \in DOMAIN f.loops :
              f.loops[m].mine \/ f.loops[m].arr \notin Inside(f.blocks[i].names[j].ref)
    BY <1>12
  <2>3. i \in DOMAIN f.blocks /\ j \in DOMAIN f.blocks[i].names => NameNew(G, i, j)
    BY <1>12
  <2>4. N = Len(frames) /\ f = F /\ G \in FrameType /\ f.blocks[Len(f.blocks)].kind # "arm" /\ Remold(f, G)
    BY <1>1, <1>2, <1>8, <1>11
  <2>5. Renews(f, G, i, j)
    BY <2>1, <2>2, <2>3 DEF Renews
  <2> QED
    BY <2>4, <2>5, RemoldFits
<1>14. Frees(f, G, <<>>, Zero)
  <2>1. ASSUME NEW a \in Addr, mem'[a] = "heap"
        PROVE  \E b, k, p, o \in Nat :
                  /\ Cardinality(OwnBlocks(G.blocks, a)) = b /\ Cardinality(OwnLoops(G.loops, a)) = k
                  /\ Cardinality(Places(<<>>, a)) = p /\ Zero[a] = o
                  /\ Cardinality(OwnBlocks(f.blocks, a)) + Cardinality(OwnLoops(f.loops, a)) = b + k + p + o
    <3>1. PICK b, k : b = Cardinality(OwnBlocks(s, a)) /\ k = Cardinality(OwnLoops(f.loops, a))
      OBVIOUS
    <3>2. b \in Nat /\ k \in Nat
      BY <1>2, <3>1, BlocksFinite, CountsFinite
    <3>3. Cardinality(OwnBlocks(t, a)) = b
      BY <1>1, <3>1 DEF Stores
    <3>4. Cardinality(OwnBlocks(B, a)) = Cardinality(OwnBlocks(t, a)) + NamesOwned(x.names, a)
      BY <1>5, <1>6, BlocksAppend
    <3>5. NamesOwned(x.names, a) = 0
      BY <1>5, CountsEmpty DEF NamesOwned
    <3>6. Cardinality(OwnBlocks(G.blocks, a)) = b
      BY <1>8, <3>2, <3>3, <3>4, <3>5
    <3>7. Cardinality(OwnLoops(G.loops, a)) = k
      BY <1>9, <3>1, SameLoopsClaim
    <3>8. Cardinality(Places(<<>>, a)) = 0 /\ Zero[a] = 0
      BY CountsEmpty, ZeroAbandons
    <3>9. Cardinality(OwnBlocks(f.blocks, a)) + Cardinality(OwnLoops(f.loops, a)) = b + k + 0 + 0
      BY <1>1, <3>1, <3>2
    <3> QED
      BY <3>2, <3>6, <3>7, <3>8, <3>9
  <2> QED
    BY <2>1 DEF Frees
<1>15. PartsMove(f, G, <<>>, Zero)
  <2>1. f \in FrameType /\ G \in FrameType /\ f.vals = <<>> /\ G.vals = <<>>
    BY <1>2, <1>8
  <2>2. \A a \in Addr : Stock(a)' = Stock(a) /\ Stock(a) \in Int
    BY <1>3
  <2> QED
    BY <1>14, <2>1, <2>2, FreesMoves
<1>16. G.spent = <<>> /\ G.unit = f.unit /\ G.vals = <<>> /\ G.scratch = {}
  BY <1>2, <1>8 DEF SameFrame
<1>17. N = Len(frames) /\ f = F /\ Abandons(Zero)
  BY <1>1, ZeroAbandons
<1> QED
  BY <1>2, <1>3, <1>4, <1>8, <1>13, <1>15, <1>16, <1>17, StatementStep

\* A turn of a loop keeps the invariant: its variable is inside the array
\* walked (gen_stmt For).
LEMMA TurnStep ==
  ASSUME Core, lifted' = lifted, Turn
  PROVE  Core'
<1>1. PICK f, n, l, V, x :
        /\ f = F /\ n = Len(F.loops) /\ l = Top(F.loops) /\ V = <<>>
        /\ x = [kind |-> "loop", base |-> 0, names |-> <<>>]
  OBVIOUS
<1>2. /\ Running /\ AtHead /\ UNCHANGED <<heapVars, payload>> /\ UNCHANGED <<due, lost>>
      /\ More(l)
      /\ l.arr = Null => SetFrame([f EXCEPT !.blocks = Append(@, x)])
      /\ l.arr # Null =>
           SetFrame([[f EXCEPT !.loops[n].next = @ + 1,
                               !.blocks[Resolve(l.var)[1]].names[Resolve(l.var)[2]].ref = body[l.arr][l.next]]
                       EXCEPT !.blocks = Append(@, x)])
  BY <1>1 DEF Turn
<1>3. /\ n \in Nat \ {0} /\ n \in DOMAIN f.loops /\ DOMAIN f.loops = 1 .. n
      /\ l = f.loops[n] /\ l \in LoopType /\ l.depth = Len(f.blocks)
      /\ f \in FrameType /\ f.vals = <<>>
      /\ f.blocks \in Seq(BlockType) /\ f.blocks # <<>> /\ f.loops \in Seq(LoopType)
      /\ Len(f.blocks) \in Nat \ {0} /\ DOMAIN f.blocks = 1 .. Len(f.blocks)
  BY <1>1, <1>2, HeadFacts
<1>4. CASE l.arr = Null
  <2>1. PICK t, L, M, G, i : /\ t = f.blocks /\ L = f.loops /\ M = [f EXCEPT !.loops = L]
                             /\ G = Remade(f, Append(t, x), V, L) /\ i = 0
    OBVIOUS
  <2>2. frames' = Append(Under, G)
    <3>1. [f EXCEPT !.blocks = Append(@, x)] = G
      BY <1>1, <1>3, <2>1 DEF Remade, FrameType
    <3> QED
      BY <1>2, <1>4, <3>1 DEF SetFrame
  <2>3. t \in Seq(BlockType) /\ L \in Seq(LoopType)
    BY <1>3, <2>1
  <2>4. Stores(f.blocks, t, i, i)
    BY <1>3, <2>1, StoresNothing
  <2>5. SameLoops(f, M)
    <3>1. M.loops = f.loops
      BY <1>3, <2>1 DEF FrameType
    <3> QED
      BY <3>1 DEF SameLoops
  <2>6. VarStored(f.blocks, L, i, i, t)
    <3>1. i \notin DOMAIN f.blocks
      BY <1>3, <2>1
    <3> QED
      BY <3>1 DEF VarStored
  <2> QED
    BY <1>1, <1>2, <2>1, <2>2, <2>3, <2>4, <2>5, <2>6, TurnGoes
<1>5. CASE l.arr # Null
  <2>1. PICK K, J, w : K = Len(f.blocks) /\ J = Len(f.blocks[K].names) /\ w = body[l.arr][l.next]
    OBVIOUS
  <2>2. /\ K \in DOMAIN f.blocks /\ J \in DOMAIN f.blocks[K].names
        /\ ~f.blocks[K].names[J].own /\ Resolve(l.var) = <<K, J>>
        /\ l.arr \in Addr
    BY <1>1, <1>2, <1>5, <2>1, HeadVar
  <2>3. Resolve(l.var)[1] = K /\ Resolve(l.var)[2] = J
    BY <2>2
  <2>4. l.next \in 1 .. Width /\ w \in Addr \cup {Null}
    <3>1. l.next \in Nat \ {0} /\ Width \in Nat
      BY <1>3, OwnershipAssumption DEF LoopType
    <3>2. l.next <= Width
      BY <1>2, <1>5 DEF More
    <3>3. HeapTyped
      BY <1>2, Going DEF HeapGood
    <3> QED
      BY <2>1, <2>2, <3>1, <3>2, <3>3 DEF HeapTyped
  <2>5. PICK m, L, M, t, G :
          /\ m = [f.loops[n] EXCEPT !.next = @ + 1] /\ L = [f.loops EXCEPT ![n] = m]
          /\ M = [f EXCEPT !.loops = L] /\ t = Rebound(f.blocks, K, J, w)
          /\ G = Remade(f, Append(t, x), V, L)
    OBVIOUS
  <2>6. frames' = Append(Under, G)
    <3>1. SetFrame([[f EXCEPT !.loops[n].next = @ + 1, !.blocks[K].names[J].ref = w] EXCEPT !.blocks = Append(@, x)])
      BY <1>2, <1>5, <2>1, <2>3
    <3> QED
      BY <1>1, <1>3, <2>5, <3>1, ZenonT(60) DEF SetFrame, Remade, Rebound, FrameType
  <2>7. /\ m \in LoopType /\ m.arr = l.arr /\ m.mine = l.mine /\ m.var = l.var /\ m.depth = l.depth
    <3>1. PICK q : q = l.next + 1
      OBVIOUS
    <3>2. l.next \in Nat \ {0}
      BY <1>3 DEF LoopType
    <3>3. q \in Nat \ {0}
      BY <3>1, <3>2
    <3>4. m = [l EXCEPT !.next = q]
      BY <1>3, <2>5, <3>1
    <3> QED
      BY <1>3, <3>3, <3>4 DEF LoopType
  <2>8. /\ L \in Seq(LoopType) /\ DOMAIN L = DOMAIN f.loops /\ L[n] = m
        /\ \A k \in DOMAIN f.loops : k # n => L[k] = f.loops[k]
    BY <1>3, <2>5, <2>7
  <2>9. SameLoops(f, M)
    <3>1. M.loops = L
      BY <1>3, <2>5 DEF FrameType
    <3>2. \A k \in DOMAIN f.loops : /\ L[k].arr = f.loops[k].arr /\ L[k].mine = f.loops[k].mine
                                    /\ L[k].var = f.loops[k].var /\ L[k].depth = f.loops[k].depth
      BY <1>3, <2>7, <2>8
    <3> QED
      BY <2>8, <3>1, <3>2 DEF SameLoops
  <2>10. Stores(f.blocks, t, K, J) /\ t[K].names[J].ref = w
    BY <1>3, <2>2, <2>4, <2>5, StoresOne
  <2>11. t \in Seq(BlockType)
    BY <2>10 DEF Stores
  <2>12. VarStored(f.blocks, L, K, J, t)
    <3>1. L[n].arr # Null /\ K = L[n].depth /\ J = Len(f.blocks[K].names)
      BY <1>3, <1>5, <2>1, <2>7, <2>8
    <3>2. body[L[n].arr][l.next] = t[K].names[J].ref
      BY <2>1, <2>7, <2>8, <2>10
    <3>3. n \in DOMAIN L
      BY <1>3, <2>8
    <3> QED
      BY <2>2, <2>4, <3>1, <3>2, <3>3 DEF VarStored
  <2> QED
    BY <1>1, <1>2, <2>5, <2>6, <2>8, <2>9, <2>10, <2>11, <2>12, TurnGoes
<1> QED
  BY <1>4, <1>5

\* The blocks of a frame whose innermost loop, at depth K, is over.
Ends(s, t, K, v) ==
  /\ t \in Seq(BlockType) /\ Len(t) = K /\ DOMAIN t = 1 .. K
  /\ \A b \in 1 .. K : b # K => t[b] = s[b]
  /\ t[K].kind = s[K].kind
  /\ \A k \in DOMAIN t[K].names : k \in DOMAIN s[K].names /\ t[K].names[k] = s[K].names[k]
  /\ v => Len(s[K].names) \notin DOMAIN t[K].names
  /\ \A a : Cardinality(OwnBlocks(t, a)) = Cardinality(OwnBlocks(s, a))

Unbound(s, K) == [s EXCEPT ![K].names = Pop(@)]

\* What unbinding the loop's variable does to the blocks.
LEMMA EndsUnbound ==
  ASSUME NEW s \in Seq(BlockType), NEW K, K = Len(s), s # <<>>, s[K].names # <<>>,
         ~s[K].names[Len(s[K].names)].own
  PROVE  Ends(s, Unbound(s, K), K, TRUE)
<1>1. PICK u, y, t : u = s[K].names /\ y = [s[K] EXCEPT !.names = Pop(u)] /\ t = Unbound(s, K)
  OBVIOUS
<1>2. /\ K \in Nat \ {0} /\ K \in 1 .. K /\ DOMAIN s = 1 .. K /\ s[K] \in BlockType /\ s[K] = Top(s)
  BY DEF Top
<1>3. u \in Seq(EntryType) /\ u # <<>>
  BY <1>1, <1>2 DEF BlockType
<1>4. PICK e, v, J : e = Top(u) /\ v = Pop(u) /\ J = Len(u)
  OBVIOUS
<1>5. /\ e \in EntryType /\ v \in Seq(EntryType) /\ J \in Nat \ {0} /\ DOMAIN v = 1 .. J - 1 /\ DOMAIN u = 1 .. J
      /\ \A k \in 1 .. J - 1 : v[k] = u[k]
      /\ u = Append(v, e) /\ ~e.own
  <2>1. e = u[J]
    BY <1>4 DEF Top
  <2> QED
    <3>1. /\ Top(u) \in EntryType /\ Pop(u) \in Seq(EntryType) /\ Len(u) \in Nat \ {0} /\ DOMAIN u = 1 .. Len(u)
          /\ DOMAIN Pop(u) = 1 .. Len(u) - 1 /\ \A k \in 1 .. Len(u) - 1 : Pop(u)[k] = u[k]
          /\ u = Append(Pop(u), Top(u))
      BY <1>3, PopFacts
    <3>2. ~e.own
      BY <1>1, <1>4, <2>1
    <3> QED
      BY <1>4, <3>1, <3>2
<1>6. y \in BlockType /\ y.kind = s[K].kind /\ y.names = v
  BY <1>1, <1>2, <1>4, <1>5 DEF BlockType
<1>7. t = [s EXCEPT ![K] = y]
  BY <1>1 DEF Unbound
<1>8. /\ t \in Seq(BlockType) /\ Len(t) = K /\ DOMAIN t = 1 .. K /\ t[K] = y
      /\ \A b \in 1 .. K : b # K => t[b] = s[b]
  BY <1>2, <1>6, <1>7, ReplaceFacts
<1>9. ASSUME NEW a
      PROVE  Cardinality(OwnBlocks(t, a)) = Cardinality(OwnBlocks(s, a))
  <2>1. PICK p : p = Pop(s)
    OBVIOUS
  <2>2. p \in Seq(BlockType) /\ s = Append(p, s[K])
    BY <1>2, <2>1, PopFacts
  <2>3. t = Append(p, y)
    BY <1>6, <1>7, <2>1, LastReplaced
  <2>4. Cardinality(OwnBlocks(s, a)) = Cardinality(OwnBlocks(p, a)) + NamesOwned(u, a)
    BY <1>1, <1>2, <2>2, BlocksAppend, ZenonT(60)
  <2>5. Cardinality(OwnBlocks(t, a)) = Cardinality(OwnBlocks(p, a)) + NamesOwned(v, a)
    BY <1>6, <2>2, <2>3, BlocksAppend
  <2>6. NamesOwned(u, a) = NamesOwned(v, a) + One(e.own /\ e.ref = a) /\ NamesOwned(v, a) \in Nat
    BY <1>5, NamesAppend DEF NamesOwned
  <2>7. One(e.own /\ e.ref = a) = 0
    BY <1>5 DEF One
  <2>8. NamesOwned(u, a) = NamesOwned(v, a)
    BY <2>6, <2>7
  <2> QED
    BY <2>4, <2>5, <2>8
<1>10. \A k \in DOMAIN t[K].names : k \in DOMAIN s[K].names /\ t[K].names[k] = s[K].names[k]
  <2>1. t[K].names = v /\ s[K].names = u
    BY <1>1, <1>6, <1>8
  <2>2. \A k \in 1 .. J - 1 : k \in 1 .. J
    BY <1>5
  <2> QED
    BY <1>5, <2>1, <2>2
<1>11. Len(s[K].names) \notin DOMAIN t[K].names
  BY <1>1, <1>4, <1>5, <1>6, <1>8
<1>12. Ends(s, t, K, TRUE)
  BY <1>6, <1>8, <1>9, <1>10, <1>11 DEF Ends
<1> QED
  BY <1>1, <1>12

\* A loop without a variable leaves the blocks as they are.
LEMMA EndsSame ==
  ASSUME NEW s \in Seq(BlockType), NEW K, K = Len(s), s # <<>>
  PROVE  Ends(s, s, K, FALSE)
<1>1. K \in Nat \ {0} /\ DOMAIN s = 1 .. K
  OBVIOUS
<1> QED
  BY <1>1 DEF Ends

\* What a frame has kept when its innermost loop is over.
LEMMA EndFits ==
  ASSUME Core, Running, AtHead, NEW N, N = Len(frames), NEW f, f = F, NEW K, K = Len(f.blocks),
         NEW l, l = Top(F.loops), NEW G \in FrameType, NEW v \in BOOLEAN, v \/ l.arr = Null,
         Ends(f.blocks, G.blocks, K, v), G.loops = Pop(f.loops), G.vals = <<>>, G.scratch = {}
  PROVE  Shape(G) /\ LoopShape(G) /\ LoopsFit(N, f, G) /\ NamesFit(f, G)
<1>1. PICK n, s, t : n = Len(F.loops) /\ s = f.blocks /\ t = G.blocks
  OBVIOUS
<1>2. /\ n \in Nat \ {0} /\ n \in DOMAIN f.loops /\ DOMAIN f.loops = 1 .. n
      /\ l = f.loops[n] /\ l \in LoopType /\ l.depth = K
      /\ f \in FrameType /\ Shape(f) /\ LoopShape(f)
      /\ s \in Seq(BlockType) /\ f.loops \in Seq(LoopType) /\ f.loops # <<>>
      /\ f.blocks[K].kind # "arm"
      /\ K \in Nat \ {0} /\ DOMAIN s = 1 .. K
  BY <1>1, HeadFacts DEF AtHead
<1>3. /\ t \in Seq(BlockType) /\ Len(t) = K /\ DOMAIN t = 1 .. K
      /\ \A b \in 1 .. K : b # K => t[b] = s[b]
      /\ t[K].kind = s[K].kind
      /\ \A k \in DOMAIN t[K].names : k \in DOMAIN s[K].names /\ t[K].names[k] = s[K].names[k]
      /\ v => Len(s[K].names) \notin DOMAIN t[K].names
  BY <1>1 DEF Ends
<1>4. /\ DOMAIN G.loops = 1 .. n - 1
      /\ \A k \in 1 .. n - 1 : G.loops[k] = f.loops[k] /\ k \in DOMAIN f.loops
  <2>1. PICK L, P : L = f.loops /\ P = Pop(f.loops)
    OBVIOUS
  <2>2. L \in Seq(LoopType) /\ L # <<>> /\ Len(L) = n /\ P = Pop(L)
    BY <1>1, <1>2, <2>1
  <2>3. DOMAIN P = 1 .. n - 1 /\ \A k \in 1 .. n - 1 : P[k] = L[k] /\ k \in 1 .. n
    BY <2>2, PopFacts, SMTT(30)
  <2> QED
    BY <1>2, <2>1, <2>3
<1>5. ASSUME NEW k \in DOMAIN G.loops
      PROVE  /\ k \in DOMAIN f.loops /\ G.loops[k] = f.loops[k] /\ f.loops[k].depth \in Nat /\ f.loops[k].depth < K
             /\ f.loops[k].depth \in 1 .. K - 1 /\ k # n /\ k < n
  <2>1. k \in 1 .. n - 1
    BY <1>4
  <2>2. k \in DOMAIN f.loops /\ G.loops[k] = f.loops[k] /\ k # n /\ k < n
    BY <1>2, <1>4, <2>1
  <2>3. f.loops[k].depth \in Nat
    BY <1>2, <2>2, FrameParts
  <2>4. f.loops[k].depth < f.loops[n].depth
    BY <1>2, <2>2 DEF LoopShape
  <2>5. f.loops[k].depth \in DOMAIN s
    BY <1>1, <1>2, <2>2 DEF LoopShape, LoopAt
  <2> QED
    BY <1>2, <2>2, <2>3, <2>4, <2>5
<1>6. \A b \in DOMAIN t : b \in DOMAIN s /\ t[b].kind = s[b].kind
  BY <1>2, <1>3
<1>7. \A b \in DOMAIN t : \A k \in DOMAIN t[b].names : k \in DOMAIN s[b].names /\ t[b].names[k] = s[b].names[k]
  BY <1>3
<1>8. Shape(G)
  <2>1. t # <<>>
    BY <1>2, <1>3
  <2>2. /\ \A b \in DOMAIN s : s[b].kind = "fn" <=> b = 1
        /\ \A b, c \in DOMAIN s : b < c /\ s[b].kind = "arm" => s[c].kind = "arm"
        /\ \A b \in DOMAIN s : \A j, k \in DOMAIN s[b].names :
             j # k => s[b].names[j].name # s[b].names[k].name
        /\ \A b \in DOMAIN s : \A k \in DOMAIN s[b].names :
             s[b].names[k].own => s[b].names[k].ref # Null /\ s[b].kind # "arm"
    BY <1>1, <1>2 DEF Shape
  <2>3. /\ \A b \in DOMAIN t : t[b].kind = "fn" <=> b = 1
        /\ \A b, c \in DOMAIN t : b < c /\ t[b].kind = "arm" => t[c].kind = "arm"
    BY <1>6, <2>2
  <2>4. \A b \in DOMAIN t : \A j, k \in DOMAIN t[b].names :
             j # k => t[b].names[j].name # t[b].names[k].name
    BY <1>6, <1>7, <2>2
  <2>5. \A b \in DOMAIN t : \A k \in DOMAIN t[b].names :
             t[b].names[k].own => t[b].names[k].ref # Null /\ t[b].kind # "arm"
    BY <1>6, <1>7, <2>2
  <2> QED
    BY <1>1, <2>1, <2>3, <2>4, <2>5 DEF Shape
<1>9. ASSUME NEW k \in DOMAIN G.loops
      PROVE  LoopAt(G, k)
  <2>1. PICK d : d = f.loops[k].depth
    OBVIOUS
  <2>2. /\ k \in DOMAIN f.loops /\ G.loops[k] = f.loops[k] /\ d \in 1 .. K - 1
    BY <1>5, <2>1
  <2>3. LoopAt(f, k)
    BY <1>2, <2>2 DEF LoopShape
  <2>4. /\ d \in DOMAIN s /\ s[d].kind # "arm"
        /\ d < Len(s) => s[d + 1].kind = "loop"
        /\ f.loops[k].mine => f.loops[k].arr # Null
        /\ f.loops[k].arr # Null =>
          /\ s[d].names # <<>>
          /\ \A b \in 1 .. d : \A j \in DOMAIN s[b].names :
               /\ s[b].names[j].name = f.loops[k].var <=> AtVar(f, k, b, j)
               /\ AtVar(f, k, b, j) => ~s[b].names[j].own
    BY <1>1, <2>1, <2>3 DEF LoopAt
  <2>5. \A b \in 1 .. d : t[b] = s[b] /\ \A j : AtVar(G, k, b, j) <=> AtVar(f, k, b, j)
    <3>1. \A b \in 1 .. d : b \in 1 .. K /\ b # K
      BY <1>2, <2>2
    <3>2. \A b \in 1 .. d : t[b] = s[b]
      BY <1>3, <3>1
    <3> QED
      BY <1>1, <2>2, <3>2 DEF AtVar
  <2>6. d \in DOMAIN t /\ t[d] = s[d] /\ d < Len(t) /\ d # Len(t)
    <3>1. d \in 1 .. d /\ d \in 1 .. K /\ d < K
      BY <1>2, <2>2
    <3> QED
      BY <1>2, <1>3, <2>5, <3>1
  <2>7. t[d + 1].kind = "loop"
    <3>1. d + 1 \in 1 .. K /\ d < Len(s)
      BY <1>1, <1>2, <2>2
    <3> QED
      BY <1>3, <1>6, <2>4, <3>1
  <2>8. f.loops[k].arr # Null =>
          /\ t[d].names # <<>>
          /\ \A b \in 1 .. d : \A j \in DOMAIN t[b].names :
               /\ t[b].names[j].name = f.loops[k].var <=> AtVar(G, k, b, j)
               /\ AtVar(G, k, b, j) => ~t[b].names[j].own
    BY <2>4, <2>5, <2>6
  <2> QED
    BY <1>1, <2>1, <2>2, <2>4, <2>6, <2>7, <2>8 DEF LoopAt
<1>10. LoopShape(G)
  <2>1. \A k, m \in DOMAIN G.loops : k < m => G.loops[k].depth < G.loops[m].depth
    BY <1>2, <1>5 DEF LoopShape
  <2> QED
    BY <1>9, <2>1 DEF LoopShape
<1>11. LoopsFit(N, f, G)
  <2>1. ASSUME NEW k \in DOMAIN G.loops, G.loops[k].arr # Null
        PROVE  /\ mem[G.loops[k].arr] = "heap"
               /\ ~G.loops[k].mine =>
                    /\ Guard(N, G.loops[k].depth, G.loops[k].arr)
                    /\ \A a \in Addr : mem[a] = "heap" /\ G.loops[k].arr \in Inside(a) /\ Keeps(f, G.loops[k].depth, a)
                          => Keeps(G, G.loops[k].depth, a)
    <3>1. PICK d : d = f.loops[k].depth
      OBVIOUS
    <3>2. /\ k \in DOMAIN f.loops /\ G.loops[k] = f.loops[k] /\ d \in Nat /\ d < K
      BY <1>5, <3>1
    <3>3. ASSUME NEW a, Keeps(f, d, a)
          PROVE  Keeps(G, d, a)
      <4>1. CASE \E b \in DOMAIN f.blocks : b <= d /\
                 \E j \in DOMAIN f.blocks[b].names : f.blocks[b].names[j].own /\ f.blocks[b].names[j].ref = a
        <5>1. PICK b \in DOMAIN f.blocks : b <= d /\
                 \E j \in DOMAIN f.blocks[b].names : f.blocks[b].names[j].own /\ f.blocks[b].names[j].ref = a
          BY <4>1
        <5>2. b \in 1 .. K /\ b # K
          BY <1>1, <1>2, <3>2, <5>1
        <5>3. b \in DOMAIN G.blocks /\ G.blocks[b] = f.blocks[b]
          BY <1>1, <1>3, <5>2
        <5> QED
          BY <5>1, <5>3 DEF Keeps
      <4>2. CASE \E m \in DOMAIN f.loops : f.loops[m].depth < d /\ f.loops[m].mine /\ f.loops[m].arr = a
        <5>1. PICK m \in DOMAIN f.loops : f.loops[m].depth < d /\ f.loops[m].mine /\ f.loops[m].arr = a
          BY <4>2
        <5>2. m # n
          BY <1>2, <3>2, <5>1
        <5>3. m \in 1 .. n - 1
          BY <1>2, <5>2
        <5>4. m \in DOMAIN G.loops /\ G.loops[m] = f.loops[m]
          BY <1>4, <5>3
        <5> QED
          BY <5>1, <5>4 DEF Keeps
      <4> QED
        BY <3>3, <4>1, <4>2 DEF Keeps
    <3>4. mem[f.loops[k].arr] = "heap" /\ (~f.loops[k].mine => Guard(N, d, f.loops[k].arr))
      BY <2>1, <3>1, <3>2, LoopOld
    <3> QED
      BY <3>1, <3>2, <3>3, <3>4
  <2> QED
    BY <2>1 DEF LoopsFit
<1>12. NamesFit(f, G)
  <2>1. ASSUME NEW b \in DOMAIN G.blocks, NEW k \in DOMAIN G.blocks[b].names
        PROVE  NameStays(f, G, b, k)
    <3>1. /\ b \in DOMAIN f.blocks /\ k \in DOMAIN f.blocks[b].names
          /\ G.blocks[b].kind = f.blocks[b].kind /\ G.blocks[b].names[k] = f.blocks[b].names[k]
      BY <1>1, <1>6, <1>7
    <3>2. ASSUME NEW m \in DOMAIN f.loops, AtVar(f, m, b, k)
          PROVE  m \in DOMAIN G.loops /\ AtVar(G, m, b, k) /\ G.loops[m].arr = f.loops[m].arr
      <4>1. f.loops[m].arr # Null /\ b = f.loops[m].depth /\ k = Len(f.blocks[b].names)
        BY <3>2 DEF AtVar
      <4>2. m # n
        <5>1. SUFFICES ASSUME m = n PROVE FALSE
          OBVIOUS
        <5>2. b = K /\ v
          BY <1>2, <4>1, <5>1
        <5> QED
          BY <1>1, <1>3, <4>1, <5>2
      <4>3. m \in 1 .. n - 1
        BY <1>2, <4>2
      <4>4. m \in DOMAIN G.loops /\ G.loops[m] = f.loops[m]
        BY <1>4, <4>3
      <4>5. b \in 1 .. K /\ b # K
        BY <1>2, <1>5, <4>1, <4>4
      <4>6. G.blocks[b] = f.blocks[b]
        BY <1>1, <1>3, <4>5
      <4> QED
        BY <4>1, <4>4, <4>6 DEF AtVar
    <3> QED
      BY <3>1, <3>2 DEF NameStays
  <2> QED
    BY <2>1 DEF NamesFit
<1> QED
  BY <1>8, <1>10, <1>11, <1>12

\* The exit of a loop keeps the invariant: the array it had is released
\* (gen_stmt For, While).
LEMMA EndLoopStep ==
  ASSUME Core, lifted' = lifted, EndLoop
  PROVE  Core'
<1>1. PICK f, N, n, l, V, K, L, refs :
        /\ f = F /\ N = Len(frames) /\ n = Len(F.loops) /\ l = Top(F.loops) /\ V = <<>> /\ K = Len(f.blocks)
        /\ L = Pop(f.loops) /\ refs = IF l.mine THEN <<l.arr>> ELSE <<>>
  OBVIOUS
<1>2. /\ Running /\ AtHead /\ UNCHANGED <<heapVars, payload>>
      /\ SetFrame(IF l.arr # Null /\ Cardinality(Bindings(l.var)) = 1
                    THEN [[f EXCEPT !.loops = L] EXCEPT !.blocks[Resolve(l.var)[1]].names = Pop(@)]
                    ELSE [f EXCEPT !.loops = L])
      /\ Release(refs)
  BY <1>1 DEF EndLoop
<1>3. /\ n \in Nat \ {0} /\ n \in DOMAIN f.loops /\ DOMAIN f.loops = 1 .. n
      /\ l = f.loops[n] /\ l \in LoopType /\ l.depth = K
      /\ f \in FrameType /\ f.vals = <<>> /\ f.scratch = {} /\ f.spent = <<>>
      /\ f.blocks \in Seq(BlockType) /\ f.blocks # <<>> /\ f.loops \in Seq(LoopType)
      /\ f.blocks[K].kind # "arm"
      /\ l.mine => l.arr # Null
  BY <1>1, <1>2, HeadFacts
<1>4. HeapStep /\ BuiltAlone /\ HeapTyped' /\ \A a \in Addr : Stock(a)' = Stock(a) /\ Stock(a) \in Int
  BY <1>2, StillHeap
<1>5. PICK v \in BOOLEAN : v = (l.arr # Null)
  OBVIOUS
<1>6. PICK B : B = IF v THEN Unbound(f.blocks, K) ELSE f.blocks
  OBVIOUS
<1>7. PICK G : G = Remade(f, B, V, L)
  OBVIOUS
<1>8. frames' = Append(Under, G) /\ Ends(f.blocks, B, K, v)
  <2>1. CASE l.arr = Null
    <3>1. ~v /\ B = f.blocks
      BY <1>5, <1>6, <2>1
    <3>2. [f EXCEPT !.loops = L] = G
      BY <1>1, <1>3, <1>7, <3>1 DEF Remade, FrameType
    <3>3. v = FALSE
      BY <3>1
    <3>4. Ends(f.blocks, f.blocks, K, FALSE)
      BY <1>1, <1>3, EndsSame
    <3> QED
      BY <1>2, <2>1, <3>1, <3>2, <3>3, <3>4 DEF SetFrame
  <2>2. CASE l.arr # Null
    <3>1. PICK J : J = Len(f.blocks[K].names)
      OBVIOUS
    <3>2. /\ f.blocks[K].names # <<>> /\ ~f.blocks[K].names[J].own
          /\ Bindings(l.var) = {<<K, J>>} /\ Resolve(l.var) = <<K, J>>
      BY <1>1, <1>2, <2>2, <3>1, HeadVar
    <3>3. Cardinality(Bindings(l.var)) = 1 /\ Resolve(l.var)[1] = K
      <4>1. Cardinality({<<K, J>>}) = 1
        BY FS_Singleton
      <4>2. Resolve(l.var)[1] = K
        BY <3>2
      <4> QED
        BY <3>2, <4>1, <4>2
    <3>4. v = TRUE /\ B = Unbound(f.blocks, K)
      BY <1>5, <1>6, <2>2
    <3>5. SetFrame([[f EXCEPT !.loops = L] EXCEPT !.blocks[K].names = Pop(@)])
      BY <1>2, <2>2, <3>3
    <3>6. [[f EXCEPT !.loops = L] EXCEPT !.blocks[K].names = Pop(@)] = G
      BY <1>1, <1>3, <1>7, <3>4 DEF Remade, Unbound, FrameType
    <3>7. Ends(f.blocks, Unbound(f.blocks, K), K, TRUE)
      BY <1>1, <1>3, <3>1, <3>2, EndsUnbound
    <3> QED
      BY <3>4, <3>5, <3>6, <3>7 DEF SetFrame
  <2> QED
    BY <2>1, <2>2
<1>9. L \in Seq(LoopType)
  <2>1. f.loops # <<>>
    BY <1>1, <1>2 DEF AtHead
  <2> QED
    BY <1>1, <1>3, <2>1, PopFacts
<1>10. SameFrame(f, G) /\ G \in FrameType /\ G.blocks = B /\ G.loops = L /\ G.vals = V /\ G.scratch = {}
  <2>1. f \in FrameType /\ B \in Seq(BlockType) /\ L \in Seq(LoopType) /\ f.scratch = {} /\ V = <<>>
    BY <1>1, <1>3, <1>8, <1>9 DEF Ends
  <2> QED
    BY <1>7, <2>1, FrameBoth
<1>11. Shape(G) /\ LoopShape(G) /\ LoopsFit(N, f, G) /\ NamesFit(f, G)
  <2>1. v \/ l.arr = Null
    BY <1>5
  <2>2. Ends(f.blocks, G.blocks, K, v)
    BY <1>8, <1>10
  <2>3. G.loops = Pop(f.loops) /\ G.vals = <<>> /\ G.scratch = {}
    BY <1>1, <1>10
  <2> QED
    BY <1>1, <1>2, <1>10, <2>1, <2>2, <2>3, EndFits
<1>12. /\ refs \in Seq(Addr) /\ \A k \in DOMAIN refs : mem[refs[k]] # "none"
       /\ \A a : Cardinality(Places(refs, a)) = One(l.mine /\ l.arr = a)
  <2>1. CASE l.mine
    <3>1. l.arr # Null
      BY <1>3, <2>1
    <3>2. l.arr \in Addr /\ mem[l.arr] = "heap"
      BY <1>1, <1>2, <1>3, <3>1, LoopOld
    <3>3. refs = <<l.arr>>
      BY <1>1, <2>1
    <3>4. refs \in Seq(Addr) /\ \A a : Cardinality(Places(refs, a)) = One(l.arr = a)
      BY <3>2, <3>3, PlacesOne
    <3>5. \A k \in DOMAIN refs : mem[refs[k]] # "none"
      BY <3>2, <3>3
    <3>6. \A a : One(l.mine /\ l.arr = a) = One(l.arr = a)
      BY <2>1 DEF One
    <3> QED
      BY <3>4, <3>5, <3>6
  <2>2. CASE ~l.mine
    <3>1. refs = <<>>
      BY <1>1, <2>2
    <3>2. refs \in Seq(Addr) /\ \A k \in DOMAIN refs : mem[refs[k]] # "none"
      BY <3>1
    <3>3. \A a : Cardinality(Places(refs, a)) = 0
      BY <3>1, CountsEmpty
    <3>4. \A a : One(l.mine /\ l.arr = a) = 0
      BY <2>2 DEF One
    <3> QED
      BY <3>2, <3>3, <3>4
  <2> QED
    BY <2>1, <2>2
<1>13. Dropped(refs)
  <2>1. due = <<>>
    BY <1>2 DEF Running
  <2> QED
    BY <1>2, <1>12, <2>1, ReleaseDrops
<1>14. Frees(f, G, refs, Zero)
  <2>1. ASSUME NEW a \in Addr, mem'[a] = "heap"
        PROVE  \E b, k, p, o \in Nat :
                  /\ Cardinality(OwnBlocks(G.blocks, a)) = b /\ Cardinality(OwnLoops(G.loops, a)) = k
                  /\ Cardinality(Places(refs, a)) = p /\ Zero[a] = o
                  /\ Cardinality(OwnBlocks(f.blocks, a)) + Cardinality(OwnLoops(f.loops, a)) = b + k + p + o
    <3>1. PICK b, k, p : /\ b = Cardinality(OwnBlocks(f.blocks, a)) /\ k = Cardinality(OwnLoops(L, a))
                         /\ p = One(l.mine /\ l.arr = a)
      OBVIOUS
    <3>2. b \in Nat /\ k \in Nat /\ p \in Nat
      BY <1>3, <1>9, <3>1, BlocksFinite, CountsFinite DEF One
    <3>3. Cardinality(OwnBlocks(G.blocks, a)) = b
      BY <1>8, <1>10, <3>1 DEF Ends
    <3>4. Cardinality(OwnLoops(f.loops, a)) = k + p
      <4>1. f.loops = Append(L, l)
        <5>1. f.loops # <<>>
          BY <1>1, <1>2 DEF AtHead
        <5>2. f.loops = Append(Pop(f.loops), Top(f.loops))
          BY <1>3, <5>1, PopFacts
        <5> QED
          BY <1>1, <5>2
      <4>2. Cardinality(OwnLoops(Append(L, l), a)) = Cardinality(OwnLoops(L, a)) + One(l.mine /\ l.arr = a)
        BY <1>3, <1>9, LoopsAppend
      <4> QED
        BY <3>1, <4>1, <4>2
    <3>5. Cardinality(OwnLoops(G.loops, a)) = k /\ Cardinality(Places(refs, a)) = p /\ Zero[a] = 0
      BY <1>10, <1>12, <3>1, ZeroAbandons
    <3>6. b + (k + p) = b + k + p + 0
      BY <3>2
    <3>7. Cardinality(OwnBlocks(f.blocks, a)) + Cardinality(OwnLoops(f.loops, a)) = b + k + p + 0
      BY <3>1, <3>4, <3>6
    <3> QED
      BY <3>2, <3>3, <3>5, <3>7
  <2> QED
    BY <2>1 DEF Frees
<1>15. PartsMove(f, G, refs, Zero)
  <2>1. f \in FrameType /\ G \in FrameType /\ f.vals = <<>> /\ G.vals = <<>>
    BY <1>1, <1>3, <1>10
  <2>2. \A a \in Addr : Stock(a)' = Stock(a) /\ Stock(a) \in Int
    BY <1>4
  <2> QED
    BY <1>14, <2>1, <2>2, FreesMoves
<1>16. G.spent = <<>> /\ G.unit = f.unit /\ G.vals = <<>> /\ G.scratch = {}
  BY <1>1, <1>3, <1>10 DEF SameFrame
<1>17. N = Len(frames) /\ f = F /\ Abandons(Zero) /\ f.blocks[Len(f.blocks)].kind # "arm"
  BY <1>1, <1>3, ZeroAbandons
<1> QED
  BY <1>2, <1>4, <1>8, <1>10, <1>11, <1>12, <1>13, <1>15, <1>16, <1>17, StatementStep

\* The blocks of a frame after an arm is opened or closed: the same but for the
\* arm, which owns nothing.
ArmMove(f, G) ==
  /\ Shape(G)
  /\ \A b \in DOMAIN f.blocks : b \in DOMAIN G.blocks => G.blocks[b] = f.blocks[b]
  /\ \A b \in DOMAIN f.blocks : b \notin DOMAIN G.blocks => \A k \in DOMAIN f.blocks[b].names : ~f.blocks[b].names[k].own
  /\ \A l \in DOMAIN f.loops : f.loops[l].depth < Len(G.blocks)
  /\ \A a : Cardinality(OwnBlocks(G.blocks, a)) = Cardinality(OwnBlocks(f.blocks, a))

\* What an arm binds.
ArmBinds(N, d, r) ==
  /\ r \in Addr /\ mem[r] \in {"heap", "const"}
  /\ Guard(N, d, r) \/ \E a \in Addr : mem[a] = "heap" /\ lost'[a] > 0 /\ r \in Inside(a)
NewArm(N, f, G) ==
  \A b \in DOMAIN G.blocks : b \notin DOMAIN f.blocks =>
    /\ G.blocks[b].kind = "arm"
    /\ \A k \in DOMAIN G.blocks[b].names :
         ~G.blocks[b].names[k].own /\ ArmBinds(N, Len(f.blocks), G.blocks[b].names[k].ref)

\* The accounts of a step that opens or closes an arm.
LEMMA ArmAccount ==
  ASSUME HeapTyped, \A a \in Addr : Stock(a)' = Stock(a), NEW f \in FrameType, NEW G \in FrameType,
         f.spent = <<>>, G.spent = <<>>, ArmMove(f, G), G.loops = f.loops,
         NEW refs \in Seq(Addr), Hands(f.vals, G.vals, refs),
         \A a \in Addr : mem'[a] = mem[a]
  PROVE  Accounts(f, G, refs, Zero)
<1>1. PartsMove(f, G, refs, Zero)
  <2>1. ASSUME NEW a \in Addr, mem'[a] = "heap"
        PROVE  Stock(a)' + (Cardinality(OwnBlocks(f.blocks, a)) + Cardinality(OwnVals(f.vals, a)) + Cardinality(OwnLoops(f.loops, a))) =
      Stock(a) + (Cardinality(OwnBlocks(G.blocks, a)) + Cardinality(OwnVals(G.vals, a)) + Cardinality(OwnLoops(G.loops, a)))
        + Cardinality(Places(refs, a)) + Zero[a]
    <3>1. PICK s, b, v, w, l, p :
            /\ s = Stock(a) /\ b = Cardinality(OwnBlocks(f.blocks, a)) /\ v = Cardinality(OwnVals(f.vals, a))
            /\ w = Cardinality(OwnVals(G.vals, a)) /\ l = Cardinality(OwnLoops(f.loops, a))
            /\ p = Cardinality(Places(refs, a))
      OBVIOUS
    <3>2. s \in Int /\ b \in Nat /\ w \in Nat /\ l \in Nat /\ p \in Nat
      <4>1. f.blocks \in Seq(BlockType) /\ G.vals \in Seq(OperandType) /\ f.loops \in Seq(LoopType)
        BY FrameParts
      <4> QED
        BY <3>1, <4>1, BlocksFinite, CountsFinite, StockInt
    <3>3. v = w + p
      <4>1. mem[a] = "heap"
        BY <2>1
      <4> QED
        BY <3>1, <4>1 DEF Hands
    <3>4. s + (b + (w + p) + l) = s + (b + w + l) + p + 0
      BY <3>2
    <3>5. Stock(a)' = s /\ Cardinality(OwnBlocks(G.blocks, a)) = b /\ Cardinality(OwnLoops(G.loops, a)) = l
      BY <3>1 DEF ArmMove
    <3>6. Zero[a] = 0
      BY ZeroAbandons
    <3> QED
      BY <3>1, <3>3, <3>4, <3>5, <3>6
  <2> QED
    BY <2>1 DEF PartsMove
<1> QED
  BY <1>1, PartsAccount

\* A step that opens or closes an arm keeps the invariant.
LEMMA ArmStep ==
  ASSUME Core, Evaluating, UNCHANGED <<heapVars, payload>>, lifted' = lifted,
         NEW refs \in Seq(Addr), Dropped(refs),
         NEW N, N = Len(frames), NEW f, f = F,
         NEW G \in FrameType, frames' = Append(Under, G),
         G.loops = f.loops, G.spent = f.spent, G.unit = f.unit, G.transient = f.transient, G.scratch = f.scratch,
         Among(G.vals, f.vals), Hands(f.vals, G.vals, refs), ArmMove(f, G), NewArm(N, f, G)
  PROVE  Core'
<1>0. mem' = mem /\ hdr' = hdr /\ body' = body /\ \A a \in Addr : mem'[a] = mem[a] /\ hdr'[a] = hdr[a]
  BY DEF heapVars
<1>1. Running /\ frames \in Seq(FrameType) /\ frames # <<>>
  BY DEF Core, Typed, Evaluating, Running
<1>2. /\ N \in Nat \ {0} /\ N \in DOMAIN frames /\ frames'[N] = G /\ frames[N] = f /\ f \in FrameType
      /\ FrameOK(N) /\ Placed /\ f.spent = <<>> /\ HeapTyped
  BY <1>1, TopOnly DEF Core, Bottom, Typed
<1>3. HeapStep /\ BuiltAlone /\ HeapTyped' /\ \A a \in Addr : Stock(a)' = Stock(a)
  BY <1>1, StillHeap
<1>4. Accounts(f, G, refs, Zero)
  <2>1. G.spent = <<>> /\ \A a \in Addr : mem'[a] = mem[a]
    BY <1>0, <1>2
  <2> QED
    BY <1>2, <1>3, <2>1, ArmAccount
<1>5. /\ Firm /\ Grows /\ Typed' /\ Counts'
      /\ FrameOK(N)' => Core'
  <2>1. G.spent = <<>> /\ Abandons(Zero)
    BY <1>2, ZeroAbandons
  <2> QED
    BY <1>1, <1>3, <1>4, <2>1, TopStep
<1>6. PICK s, t, n, m : s = f.blocks /\ t = G.blocks /\ n = Len(s) /\ m = Len(t)
  OBVIOUS
<1>7. /\ n \in Nat /\ m \in Nat /\ DOMAIN s = 1 .. n /\ DOMAIN t = 1 .. m
      /\ \A b \in DOMAIN s : b \in DOMAIN t => t[b] = s[b]
      /\ \A l \in DOMAIN f.loops : f.loops[l].depth < m /\ f.loops[l].depth < n /\ f.loops[l].depth \in Nat
      /\ \A l \in DOMAIN f.loops : LoopAt(f, l)
  <2>1. n \in Nat /\ m \in Nat /\ DOMAIN s = 1 .. n /\ DOMAIN t = 1 .. m
    BY <1>2, <1>6, FrameParts
  <2>2. \A l \in DOMAIN f.loops : f.loops[l].depth < n /\ f.loops[l].depth \in Nat
    BY <1>6, LoopsBelow
  <2>3. \A l \in DOMAIN f.loops : LoopAt(f, l)
    BY <1>2 DEF FrameOK, LoopShape
  <2> QED
    BY <1>6, <2>1, <2>2, <2>3 DEF ArmMove
<1>8. ASSUME NEW l \in DOMAIN f.loops
      PROVE  /\ f.loops[l].depth \in DOMAIN s /\ f.loops[l].depth \in DOMAIN t
             /\ f.loops[l].depth + 1 \in DOMAIN s /\ f.loops[l].depth + 1 \in DOMAIN t
             /\ \A b \in 1 .. f.loops[l].depth : b \in DOMAIN s /\ b \in DOMAIN t /\ t[b] = s[b]
             /\ t[f.loops[l].depth + 1] = s[f.loops[l].depth + 1]
  <2>1. PICK d : d = f.loops[l].depth
    OBVIOUS
  <2>2. d \in Nat /\ d < m /\ d < n /\ d \in DOMAIN s
    BY <1>6, <1>7, <2>1 DEF LoopAt
  <2>3. d \in 1 .. n /\ d \in 1 .. m /\ d + 1 \in 1 .. n /\ d + 1 \in 1 .. m
    BY <1>7, <2>2
  <2>4. \A b \in 1 .. d : b \in 1 .. n /\ b \in 1 .. m
    BY <1>7, <2>3
  <2> QED
    BY <1>7, <2>1, <2>3, <2>4
<1>9. \A l \in DOMAIN f.loops : \A b \in DOMAIN s : \A k : AtVar(f, l, b, k) => AtVar(G, l, b, k)
  <2>1. ASSUME NEW l \in DOMAIN f.loops, NEW b \in DOMAIN s, NEW k, AtVar(f, l, b, k)
        PROVE  AtVar(G, l, b, k)
    <3>1. f.loops[l].arr # Null /\ b = f.loops[l].depth /\ k = Len(s[b].names)
      BY <1>6, <2>1 DEF AtVar
    <3>2. b \in 1 .. f.loops[l].depth
      BY <1>7, <1>8, <3>1
    <3>3. t[b] = s[b]
      BY <1>8, <3>2
    <3> QED
      BY <1>6, <3>1, <3>3 DEF AtVar
  <2> QED
    BY <2>1
<1>10. \A d : \A a : Keeps(f, d, a) /\ (d <= m \/ d = n) => Keeps(G, IF d = n THEN m ELSE d, a)
  <2>1. ASSUME NEW d, NEW a, Keeps(f, d, a), d <= m \/ d = n
        PROVE  Keeps(G, IF d = n THEN m ELSE d, a)
    <3>1. PICK c : c = IF d = n THEN m ELSE d
      OBVIOUS
    <3>2. CASE \E b \in DOMAIN f.blocks : b <= d /\
                 \E j \in DOMAIN f.blocks[b].names : f.blocks[b].names[j].own /\ f.blocks[b].names[j].ref = a
      <4>1. PICK b \in DOMAIN f.blocks : b <= d /\
                 \E j \in DOMAIN f.blocks[b].names : f.blocks[b].names[j].own /\ f.blocks[b].names[j].ref = a
        BY <3>2
      <4>2. b \in DOMAIN G.blocks
        BY <4>1 DEF ArmMove
      <4>3. G.blocks[b] = f.blocks[b]
        BY <1>6, <1>7, <4>2
      <4>4. b <= c
        BY <1>6, <1>7, <3>1, <4>1, <4>2
      <4>5. Keeps(G, c, a)
        BY <4>1, <4>2, <4>3, <4>4 DEF Keeps
      <4> QED
        BY <3>1, <4>5
    <3>3. CASE \E j \in DOMAIN f.loops : f.loops[j].depth < d /\ f.loops[j].mine /\ f.loops[j].arr = a
      <4>1. PICK j \in DOMAIN f.loops : f.loops[j].depth < d /\ f.loops[j].mine /\ f.loops[j].arr = a
        BY <3>3
      <4>2. f.loops[j].depth < c
        BY <1>7, <3>1, <4>1
      <4>3. Keeps(G, c, a)
        BY <4>1, <4>2 DEF Keeps
      <4> QED
        BY <3>1, <4>3
    <3> QED
      BY <2>1, <3>2, <3>3 DEF Keeps
  <2> QED
    BY <2>1
<1>11. \A l \in DOMAIN f.loops : \A a : Keeps(f, f.loops[l].depth, a) => Keeps(G, f.loops[l].depth, a)
  <2>1. ASSUME NEW l \in DOMAIN f.loops, NEW a, Keeps(f, f.loops[l].depth, a)
        PROVE  Keeps(G, f.loops[l].depth, a)
    <3>1. PICK d : d = f.loops[l].depth
      OBVIOUS
    <3>2. d <= m /\ d # n
      BY <1>7, <3>1
    <3> QED
      BY <1>10, <2>1, <3>1, <3>2
  <2> QED
    BY <2>1
<1>12. \A a : Keeps(f, n, a) => Keeps(G, m, a)
  BY <1>10
<1>13. Shape(G)
  BY DEF ArmMove
<1>14. LoopShape(G)
  <2>1. ASSUME NEW l \in DOMAIN f.loops
        PROVE  LoopAt(G, l)
    <3>1. PICK d : d = f.loops[l].depth
      OBVIOUS
    <3>2. /\ d \in DOMAIN s /\ d \in DOMAIN t /\ t[d] = s[d] /\ t[d + 1] = s[d + 1] /\ d < n /\ d < m /\ d # m
          /\ \A b \in 1 .. d : b \in DOMAIN s /\ t[b] = s[b]
      <4>1. d \in Nat /\ d < n /\ d < m /\ d \in DOMAIN s /\ d \in DOMAIN t
        BY <1>7, <1>8, <3>1
      <4>2. d \in 1 .. d /\ d # m
        BY <1>7, <4>1
      <4> QED
        BY <1>8, <3>1, <4>1, <4>2
    <3>3. LoopAt(f, l)
      BY <1>7
    <3>4. /\ s[d].kind # "arm" /\ s[d + 1].kind = "loop"
          /\ f.loops[l].mine => f.loops[l].arr # Null
          /\ f.loops[l].arr # Null =>
              /\ s[d].names # <<>>
              /\ \A b \in 1 .. d : \A j \in DOMAIN s[b].names :
                   /\ s[b].names[j].name = f.loops[l].var <=> AtVar(f, l, b, j)
                   /\ AtVar(f, l, b, j) => ~s[b].names[j].own
      BY <1>6, <3>1, <3>2, <3>3 DEF LoopAt
    <3>5. \A b \in 1 .. d : t[b] = s[b] /\ \A j : AtVar(G, l, b, j) <=> AtVar(f, l, b, j)
      BY <1>6, <3>2 DEF AtVar
    <3>6. f.loops[l].arr # Null =>
              /\ t[d].names # <<>>
              /\ \A b \in 1 .. d : \A j \in DOMAIN t[b].names :
                   /\ t[b].names[j].name = f.loops[l].var <=> AtVar(G, l, b, j)
                   /\ AtVar(G, l, b, j) => ~t[b].names[j].own
      BY <3>2, <3>4, <3>5
    <3> QED
      BY <1>6, <3>1, <3>2, <3>4, <3>6 DEF LoopAt
  <2>2. \A l, k \in DOMAIN f.loops : l < k => f.loops[l].depth < f.loops[k].depth
    BY <1>2 DEF FrameOK, LoopShape
  <2> QED
    BY <2>1, <2>2 DEF LoopShape
<1>15. \A a \in G.scratch : /\ mem'[a] = "frame" /\ ~NameAt(G, a) /\ (a \in f.scratch \/ mem[a] = "none")
  <2>1. SUFFICES ASSUME NEW a \in f.scratch
                 PROVE  mem'[a] = "frame" /\ ~NameAt(G, a)
    OBVIOUS
  <2>2. a \in Addr
    BY <1>2, FrameParts
  <2>3. mem[a] = "frame" /\ ~NameAt(f, a)
    BY <1>2 DEF FrameOK, ScratchAt
  <2>5. mem'[a] = "frame"
    BY <1>0, <2>2, <2>3
  <2>4. ASSUME NEW b \in DOMAIN G.blocks, NEW k \in DOMAIN G.blocks[b].names
        PROVE  G.blocks[b].names[k].ref # a
    <3>1. CASE b \in DOMAIN f.blocks
      <4>1. G.blocks[b] = f.blocks[b]
        BY <3>1 DEF ArmMove
      <4> QED
        BY <2>3, <3>1, <4>1 DEF NameAt
    <3>2. CASE b \notin DOMAIN f.blocks
      <4>1. mem[G.blocks[b].names[k].ref] \in {"heap", "const"}
        BY <3>2 DEF NewArm, ArmBinds
      <4> QED
        BY <2>3, <4>1
    <3> QED
      BY <3>1, <3>2
  <2> QED
    BY <2>4, <2>5 DEF NameAt
<1>16. ASSUME NEW r \in Addr, Guard(N, n, r)
       PROVE  Guard(N, m, r)'
  <2>1. mem'[r] = mem[r] /\ \A a \in Addr : mem[a] = "heap" /\ r \in Inside(a) /\ Keeps(f, n, a) => Keeps(G, m, a)
    BY <1>0, <1>12
  <2> QED
    BY <1>1, <1>5, <1>16, <2>1, TopGuard
<1>17. ASSUME NEW k \in DOMAIN G.vals
       PROVE  /\ LiveVal(G.vals[k])'
              /\ G.vals[k].st = "borrow" => Guard(N, Len(G.blocks), G.vals[k].ref)'
  <2>1. PICK v : v = G.vals[k]
    OBVIOUS
  <2>2. PICK j \in DOMAIN f.vals : f.vals[j] = v
    BY <2>1 DEF Among
  <2>3. LiveVal(v) /\ (v.st = "borrow" => Guard(N, n, v.ref)) /\ v.ref \in Addr
    BY <1>2, <1>6, <2>2, FrameParts DEF FrameOK, Lives, GuardVals
  <2>4. LiveVal(v)'
    BY <1>0, <2>3 DEF LiveVal
  <2> QED
    BY <1>6, <1>16, <2>1, <2>3, <2>4
<1>18. ASSUME NEW l \in DOMAIN G.loops
       PROVE  /\ LiveArr(G.loops[l])'
              /\ G.loops[l].arr # Null /\ ~G.loops[l].mine => Guard(N, G.loops[l].depth, G.loops[l].arr)'
  BY <1>1, <1>5, <1>11, LoopCarried
<1>19. ASSUME NEW b \in DOMAIN G.blocks, NEW k \in DOMAIN G.blocks[b].names
       PROVE  LiveName(G.blocks[b].names[k])' /\ GuardName(N, b, k)'
  <2>1. CASE b \in DOMAIN f.blocks
    <3>1. G.blocks[b] = f.blocks[b]
      BY <2>1 DEF ArmMove
    <3>2. /\ k \in DOMAIN f.blocks[b].names /\ G.blocks[b].kind = f.blocks[b].kind
          /\ G.blocks[b].names[k] = f.blocks[b].names[k]
      BY <3>1
    <3>3. \A a \in Addr : Keeps(f, Len(f.blocks), a) => Keeps(G, Len(G.blocks), a)
      BY <1>6, <1>12
    <3>4. \A l \in DOMAIN f.loops : AtVar(f, l, b, k) =>
            \E j \in DOMAIN G.loops : AtVar(G, j, b, k) /\ G.loops[j].arr = f.loops[l].arr
      BY <1>6, <1>9, <2>1
    <3> QED
      BY <1>1, <1>5, <2>1, <3>2, <3>3, <3>4, NameCarried
  <2>2. CASE b \notin DOMAIN f.blocks
    <3>1. PICK r : r = G.blocks[b].names[k].ref
      OBVIOUS
    <3>2. /\ G.blocks[b].kind = "arm" /\ ~G.blocks[b].names[k].own
          /\ r \in Addr
          /\ Guard(N, n, r) \/ \E a \in Addr : mem[a] = "heap" /\ lost'[a] > 0 /\ r \in Inside(a)
      BY <1>6, <2>2, <3>1 DEF NewArm, ArmBinds
    <3>3. Guard(N, m, r)'
      <4>1. CASE Guard(N, n, r)
        BY <1>16, <3>2, <4>1
      <4>2. CASE \E a \in Addr : mem[a] = "heap" /\ lost'[a] > 0 /\ r \in Inside(a)
        <5>1. PICK a \in Addr : mem[a] = "heap" /\ lost'[a] > 0 /\ r \in Inside(a)
          BY <4>2
        <5>2. mem'[a] = "heap" /\ r \in Inside(a)'
          BY <1>0, <1>2, <1>3, <1>5, <5>1, InsideGrows
        <5>3. Kept(N, m, a)'
          BY <5>1 DEF Kept
        <5> QED
          BY <5>2, <5>3 DEF Guard
      <4> QED
        BY <3>2, <4>1, <4>2
    <3>4. LiveName(G.blocks[b].names[k])'
      BY <3>2 DEF LiveName
    <3>5. r # Null
      BY <3>2, OwnershipAssumption
    <3>6. frames'[N].blocks[b].names[k].ref = r /\ frames'[N].blocks[b].kind = "arm" /\ Len(frames'[N].blocks) = m
      BY <1>2, <1>6, <3>1, <3>2
    <3>7. GuardName(N, b, k)'
      BY <3>3, <3>5, <3>6 DEF GuardName
    <3> QED
      BY <3>4, <3>7
  <2> QED
    BY <2>1, <2>2
<1>20. FrameOK(N)'
  <2>1. G.spent = <<>>
    BY <1>2
  <2> QED
    BY <1>1, <1>5, <1>13, <1>14, <1>15, <1>17, <1>18, <1>19, <2>1, TopFrame
<1> QED
  BY <1>5, <1>20

\* The running frame with other blocks and operands.
Armed(f, B, V) == [f EXCEPT !.vals = V, !.blocks = B]

\* A frame with other blocks and operands.
LEMMA FrameArmed ==
  ASSUME NEW f \in FrameType, NEW B \in Seq(BlockType), NEW V \in Seq(OperandType), NEW G, G = Armed(f, B, V)
  PROVE  /\ G \in FrameType /\ G.blocks = B /\ G.vals = V /\ G.loops = f.loops
         /\ G.spent = f.spent /\ G.unit = f.unit /\ G.transient = f.transient /\ G.scratch = f.scratch
BY DEF Armed, FrameType

\* A block without owners claims nothing.
LEMMA NothingNamed ==
  ASSUME NEW names \in Seq(EntryType), \A k \in DOMAIN names : ~names[k].own
  PROVE  \A a : NamesOwned(names, a) = 0
<1>1. \A a : OwnNames(names, a) = {}
  BY DEF OwnNames
<1>2. Cardinality({}) = 0
  BY FS_EmptySet
<1> QED
  BY <1>1, <1>2 DEF NamesOwned

\* A frame that opens an arm keeps its shape.
LEMMA ArmOpens ==
  ASSUME NEW f \in FrameType, NEW G \in FrameType, Shape(f), NEW x \in BlockType, x.kind = "arm",
         \A k \in DOMAIN x.names : k = 1 /\ ~x.names[k].own,
         G.blocks = Append(f.blocks, x), G.transient = f.transient, G.scratch = f.scratch,
         \A l \in DOMAIN f.loops : f.loops[l].depth \in Nat /\ f.loops[l].depth < Len(f.blocks)
  PROVE  /\ ArmMove(f, G)
         /\ \A b \in DOMAIN G.blocks : b \notin DOMAIN f.blocks => G.blocks[b] = x
<1>1. PICK s, t, n : s = f.blocks /\ t = G.blocks /\ n = Len(s)
  OBVIOUS
<1>2. /\ s \in Seq(BlockType) /\ t = Append(s, x) /\ n \in Nat /\ DOMAIN s = 1 .. n /\ DOMAIN t = 1 .. n + 1
      /\ Len(t) = n + 1 /\ t[n + 1] = x /\ \A b \in 1 .. n : t[b] = s[b]
      /\ s # <<>> /\ t # <<>> /\ x.names \in Seq(EntryType)
  <2>1. s \in Seq(BlockType) /\ t = Append(s, x) /\ s # <<>>
    BY <1>1, FrameParts DEF Shape
  <2>2. x.names \in Seq(EntryType)
    BY DEF BlockType
  <2> QED
    BY <1>1, <2>1, <2>2, AppendFacts
<1>3. \A b : b \in DOMAIN t => (b \in DOMAIN s /\ t[b] = s[b]) \/ (b = n + 1 /\ t[b] = x /\ b \notin DOMAIN s)
  BY <1>2
<1>4. 1 \in DOMAIN s /\ n + 1 # 1 /\ \A b \in DOMAIN s : b < n + 1 /\ b \in DOMAIN t
  <2>1. n # 0
    BY <1>1, <1>2
  <2> QED
    BY <1>2, <2>1
<1>5. Shape(G)
  <2>1. \A b \in DOMAIN t : t[b].kind = "fn" <=> b = 1
    BY <1>1, <1>3, <1>4 DEF Shape
  <2>2. ASSUME NEW b \in DOMAIN t, NEW c \in DOMAIN t, b < c, t[b].kind = "arm"
        PROVE  t[c].kind = "arm"
    <3>1. CASE c \in DOMAIN s
      <4>1. b \in DOMAIN s
        BY <1>2, <2>2, <3>1
      <4> QED
        BY <1>1, <1>2, <2>2, <3>1, <4>1 DEF Shape
    <3> QED
      BY <1>3, <3>1
  <2>3. ASSUME NEW b \in DOMAIN t, NEW j \in DOMAIN t[b].names, NEW k \in DOMAIN t[b].names, j # k
        PROVE  t[b].names[j].name # t[b].names[k].name
    <3>1. b \in DOMAIN s /\ t[b] = s[b]
      BY <1>3, <2>3
    <3> QED
      BY <1>1, <2>3, <3>1 DEF Shape
  <2>4. ASSUME NEW b \in DOMAIN t, NEW k \in DOMAIN t[b].names, t[b].names[k].own
        PROVE  t[b].names[k].ref # Null /\ t[b].kind # "arm"
    <3>1. b \in DOMAIN s /\ t[b] = s[b]
      BY <1>3, <2>4
    <3> QED
      BY <1>1, <2>4, <3>1 DEF Shape
  <2>5. ~G.transient => G.scratch = {}
    BY DEF Shape
  <2> QED
    BY <1>1, <1>2, <2>1, <2>2, <2>3, <2>4, <2>5, SMTT(30) DEF Shape
<1>6. \A a : Cardinality(OwnBlocks(t, a)) = Cardinality(OwnBlocks(s, a))
  <2>1. TAKE a
  <2>2. NamesOwned(x.names, a) = 0
    BY <1>2, NothingNamed
  <2>3. Cardinality(OwnBlocks(t, a)) = Cardinality(OwnBlocks(s, a)) + NamesOwned(x.names, a)
    BY <1>2, BlocksAppend
  <2>4. Cardinality(OwnBlocks(s, a)) \in Nat
    BY <1>2, BlocksFinite
  <2> QED
    BY <2>2, <2>3, <2>4
<1>7. \A l \in DOMAIN f.loops : f.loops[l].depth < n + 1
  BY <1>1, <1>2
<1>8. ArmMove(f, G)
  <2>1. \A b \in DOMAIN s : b \in DOMAIN t
    BY <1>4
  <2>2. \A b \in DOMAIN s : t[b] = s[b]
    BY <1>2
  <2> QED
    BY <1>1, <1>2, <1>5, <1>6, <1>7, <2>1, <2>2 DEF ArmMove
<1> QED
  BY <1>1, <1>3, <1>8

\* A frame that closes an arm keeps its shape.
LEMMA ArmCloses ==
  ASSUME NEW f \in FrameType, NEW G \in FrameType, Shape(f), LoopShape(f), f.blocks[Len(f.blocks)].kind = "arm",
         G.blocks = Pop(f.blocks), G.transient = f.transient, G.scratch = f.scratch,
         \A l \in DOMAIN f.loops : f.loops[l].depth \in Nat /\ f.loops[l].depth < Len(f.blocks)
  PROVE  /\ ArmMove(f, G)
         /\ \A b \in DOMAIN G.blocks : b \in DOMAIN f.blocks
<1>1. PICK s, t, n, x : s = f.blocks /\ t = G.blocks /\ n = Len(s) /\ x = s[n]
  OBVIOUS
<1>2. /\ s \in Seq(BlockType) /\ t \in Seq(BlockType) /\ n \in Nat \ {0} /\ DOMAIN s = 1 .. n
      /\ DOMAIN t = 1 .. n - 1 /\ Len(t) = n - 1 /\ s = Append(t, x) /\ \A b \in 1 .. n - 1 : t[b] = s[b]
      /\ x \in BlockType /\ x.names \in Seq(EntryType)
  <2>1. s \in Seq(BlockType) /\ s # <<>> /\ t = Pop(s) /\ x = Top(s)
    BY <1>1, FrameParts DEF Shape, Top
  <2>2. x \in BlockType
    BY <2>1, PopFacts
  <2>3. x.names \in Seq(EntryType)
    BY <2>2 DEF BlockType
  <2> QED
    BY <1>1, <2>1, <2>2, <2>3, PopFacts
<1>3. n # 1 /\ n \in DOMAIN s /\ x.kind = "arm"
  <2>1. n \in DOMAIN s /\ x.kind = "arm"
    BY <1>1, <1>2
  <2> QED
    BY <1>1, <2>1 DEF Shape
<1>4. \A b \in DOMAIN t : b \in DOMAIN s /\ t[b] = s[b]
  BY <1>2
<1>5. t # <<>> /\ 1 \in DOMAIN t
  <2>1. n - 1 # 0 /\ n - 1 \in Nat
    BY <1>2, <1>3
  <2> QED
    BY <1>2, <2>1
<1>6. Shape(G)
  BY <1>1, <1>4, <1>5 DEF Shape
<1>7. \A k \in DOMAIN x.names : ~x.names[k].own
  BY <1>1, <1>3 DEF Shape
<1>8. \A a : Cardinality(OwnBlocks(t, a)) = Cardinality(OwnBlocks(s, a))
  <2>1. TAKE a
  <2>2. NamesOwned(x.names, a) = 0
    BY <1>2, <1>7, NothingNamed
  <2>3. Cardinality(OwnBlocks(s, a)) = Cardinality(OwnBlocks(t, a)) + NamesOwned(x.names, a)
    BY <1>2, BlocksAppend
  <2>4. Cardinality(OwnBlocks(t, a)) \in Nat
    BY <1>2, BlocksFinite
  <2> QED
    BY <2>2, <2>3, <2>4
<1>9. ASSUME NEW l \in DOMAIN f.loops
      PROVE  f.loops[l].depth < n - 1
  <2>1. PICK d : d = f.loops[l].depth
    OBVIOUS
  <2>2. d \in Nat /\ d < n
    BY <1>1, <2>1
  <2>3. s[d + 1].kind = "loop"
    BY <1>1, <2>1, <2>2 DEF LoopShape, LoopAt
  <2>4. d + 1 # n
    BY <1>1, <1>3, <2>3
  <2> QED
    BY <1>2, <2>1, <2>2, <2>4
<1>10. \A b \in DOMAIN s : b \notin DOMAIN t => b = n
  BY <1>2
<1>11. ArmMove(f, G)
  <2>1. \A l \in DOMAIN f.loops : f.loops[l].depth < Len(t)
    BY <1>2, <1>9
  <2>2. \A b \in DOMAIN s : b \in DOMAIN t => t[b] = s[b]
    BY <1>4
  <2>3. \A b \in DOMAIN s : b \notin DOMAIN t => \A k \in DOMAIN s[b].names : ~s[b].names[k].own
    BY <1>1, <1>7, <1>10
  <2> QED
    BY <1>1, <1>6, <1>8, <2>1, <2>2, <2>3 DEF ArmMove
<1> QED
  BY <1>1, <1>4, <1>11

\* Closing an arm keeps the invariant: an arm owns nothing (gen_expr Match).
LEMMA CloseArmStep ==
  ASSUME Core, lifted' = lifted, CloseArm
  PROVE  Core'
<1>1. PICK f, N, B, V, d, refs : /\ f = F /\ N = Len(frames) /\ B = Pop(F.blocks) /\ V = F.vals
                                 /\ d = Len(F.blocks) /\ refs = Owned(d)
  OBVIOUS
<1>2. /\ Evaluating /\ f.blocks[d].kind = "arm" /\ SetFrame([f EXCEPT !.blocks = Pop(@)])
      /\ Release(refs) /\ UNCHANGED <<heapVars, payload>>
  BY <1>1 DEF CloseArm, Block
<1>3. /\ Running /\ due = <<>> /\ f \in FrameType /\ Shape(f) /\ LoopShape(f)
      /\ f.blocks \in Seq(BlockType) /\ f.blocks # <<>> /\ V \in Seq(OperandType)
  BY <1>1, <1>2, Going DEF Evaluating, Shape
<1>4. \A l \in DOMAIN f.loops : f.loops[l].depth \in Nat /\ f.loops[l].depth < Len(f.blocks)
  BY <1>1, <1>2, LoopsBelow
<1>5. /\ refs \in Seq(Addr) /\ \A k \in DOMAIN refs : mem[refs[k]] # "none"
      /\ \A a : Cardinality(Places(refs, a)) = NamesOwned(f.blocks[d].names, a)
  BY <1>1, <1>3, TopOwned
<1>6. Dropped(refs)
  BY <1>2, <1>3, <1>5, ReleaseDrops
<1>7. PICK G : G = Armed(f, B, V)
  OBVIOUS
<1>8. B \in Seq(BlockType)
  BY <1>1, <1>3, PopFacts
<1>9. frames' = Append(Under, G)
  <2>1. [f EXCEPT !.blocks = Pop(@)] = G
    BY <1>1, <1>3, <1>7 DEF Armed, FrameType
  <2> QED
    BY <1>2, <2>1 DEF SetFrame
<1>10. /\ G \in FrameType /\ G.blocks = Pop(f.blocks) /\ G.vals = f.vals /\ G.loops = f.loops /\ G.spent = f.spent
       /\ G.unit = f.unit /\ G.transient = f.transient /\ G.scratch = f.scratch
  BY <1>1, <1>3, <1>7, <1>8, FrameArmed
<1>11. ArmMove(f, G) /\ \A b \in DOMAIN G.blocks : b \in DOMAIN f.blocks
  <2>1. f.blocks[Len(f.blocks)].kind = "arm"
    BY <1>1, <1>2
  <2> QED
    BY <1>3, <1>4, <1>10, <2>1, ArmCloses
<1>12. NewArm(N, f, G)
  BY <1>11 DEF NewArm
<1>13. Among(G.vals, f.vals)
  BY <1>10 DEF Among
<1>14. Hands(f.vals, G.vals, refs)
  <2>1. ASSUME NEW a \in Addr
        PROVE  Cardinality(OwnVals(f.vals, a)) = Cardinality(OwnVals(f.vals, a)) + Cardinality(Places(refs, a))
    <3>1. d \in DOMAIN f.blocks /\ f.blocks[d].names \in Seq(EntryType)
      <4>1. d \in DOMAIN f.blocks
        BY <1>1, <1>3, PopFacts
      <4> QED
        BY <1>3, <4>1, FrameParts
    <3>2. \A k \in DOMAIN f.blocks[d].names : ~f.blocks[d].names[k].own
      BY <1>2, <1>3, <3>1 DEF Shape
    <3>3. NamesOwned(f.blocks[d].names, a) = 0
      BY <3>1, <3>2, NothingNamed
    <3>4. Cardinality(Places(refs, a)) = 0
      BY <1>5, <3>3
    <3>5. Cardinality(OwnVals(f.vals, a)) \in Nat
      BY <1>1, <1>3, CountsFinite
    <3> QED
      BY <3>4, <3>5
  <2> QED
    BY <1>10, <2>1 DEF Hands
<1>15. refs \in Seq(Addr) /\ N = Len(frames) /\ f = F
  BY <1>1, <1>5
<1> QED
  BY <1>2, <1>6, <1>9, <1>10, <1>11, <1>12, <1>13, <1>14, <1>15, ArmStep

\* What an arm binds is guarded: it is inside the scrutinee.
LEMMA ArmWord ==
  ASSUME Core, Running, Done, NEW v, v = Top(F.vals), mem[v.ref] = "heap", NEW i \in 1 .. Width,
         NEW word, word = (IF payload[v.ref] # Null THEN payload[v.ref] ELSE body[v.ref][i]), word # Null,
         Dropped(Given(v)), v.st = "own" => lost'[v.ref] > 0
  PROVE  ArmBinds(Len(frames), Len(F.blocks), word)
<1>1. v.ref \in Addr /\ HeapTyped /\ Placed
  BY TopVal
<1>2. CASE payload[v.ref] # Null
  <2>1. word \in Const /\ word \in Addr
    BY <1>1, <1>2, OwnershipAssumption DEF Placed
  <2>2. mem[word] = "const"
    BY <1>1, <2>1 DEF Placed
  <2> QED
    BY <2>1, <2>2 DEF ArmBinds, Guard
<1>3. CASE payload[v.ref] = Null
  <2>1. word = body[v.ref][i] /\ body[v.ref][i] # Null
    BY <1>3
  <2>2. /\ word \in Addr
        /\ \/ Guard(Len(frames), Len(F.blocks), word)
           \/ \E a \in Addr : mem[a] = "heap" /\ lost'[a] > 0 /\ word \in Inside(a)
    BY <2>1, ElementGuard
  <2>3. mem[word] \in {"heap", "const"}
    BY <1>1, <2>1 DEF Placed
  <2> QED
    BY <2>2, <2>3 DEF ArmBinds
<1> QED
  BY <1>2, <1>3

\* Opening an arm keeps the invariant (gen_expr Match).
LEMMA OpenArmStep ==
  ASSUME Core, lifted' = lifted, NEW n \in Var, NEW i \in 1 .. Width, OpenArm(n, i)
  PROVE  Core'
<1>1. PICK f, N, v, w : /\ f = F /\ N = Len(frames) /\ v = Top(F.vals)
                        /\ w = IF payload[v.ref] # Null THEN payload[v.ref] ELSE body[v.ref][i]
  OBVIOUS
<1>2. PICK x, e, b : e = Entry(n, w, FALSE) /\ b = Len(F.vals) - 1 /\ x = [kind |-> "arm", base |-> b, names |-> <<e>>]
  OBVIOUS
<1>3. /\ Evaluating /\ Done /\ OnHeap(v.ref) /\ w # Null /\ Lose(Given(v))
      /\ SetFrame([f EXCEPT !.vals = Pop(@), !.blocks = Append(@, x)])
      /\ UNCHANGED <<heapVars, payload>> /\ due' = due
  BY <1>1, <1>2 DEF OpenArm
<1>4. /\ Running /\ f \in FrameType /\ Shape(f) /\ f.blocks \in Seq(BlockType) /\ f.vals \in Seq(OperandType)
  BY <1>1, <1>3, Going DEF Evaluating
<1>5. \A l \in DOMAIN f.loops : f.loops[l].depth \in Nat /\ f.loops[l].depth < Len(f.blocks)
  BY <1>1, <1>3, LoopsBelow
<1>6. /\ Pop(f.vals) \in Seq(OperandType) /\ f.vals # <<>> /\ v \in OperandType /\ v.ref \in Addr
      /\ Given(v) \in Seq(Addr) /\ \A a : Cardinality(Places(Given(v), a)) = Gives(v, a)
      /\ Among(Pop(f.vals), f.vals)
  BY <1>1, <1>3, <1>4, TopVal
<1>7. mem[v.ref] = "heap" /\ Dropped(Given(v)) /\ (v.st = "own" => lost'[v.ref] > 0)
  BY <1>1, <1>3, <1>4, LosesOwn DEF OnHeap
<1>8. ArmBinds(N, Len(f.blocks), w)
  BY <1>1, <1>3, <1>4, <1>7, ArmWord
<1>9. e \in EntryType /\ e.ref = w /\ ~e.own
  <2>1. w \in Addr
    BY <1>8 DEF ArmBinds
  <2> QED
    BY <1>2, <2>1 DEF Entry, EntryType
<1>10. x \in BlockType /\ x.kind = "arm" /\ x.names = <<e>>
  <2>1. b \in Nat
    <3>1. Len(f.vals) \in Nat \ {0}
      BY <1>4, <1>6, PopFacts
    <3> QED
      BY <1>1, <1>2, <3>1
  <2>2. PICK names : names = <<e>>
    OBVIOUS
  <2>3. names \in Seq(EntryType)
    BY <1>9, <2>2
  <2>4. [kind |-> "arm", base |-> b, names |-> names] \in BlockType
    BY <2>1, <2>3 DEF BlockType
  <2> QED
    BY <1>2, <2>2, <2>4
<1>11. \A k \in DOMAIN x.names : k = 1 /\ ~x.names[k].own /\ x.names[k].ref = w
  BY <1>9, <1>10
<1>12. PICK B, V, G : B = Append(f.blocks, x) /\ V = Pop(f.vals) /\ G = Armed(f, B, V)
  OBVIOUS
<1>13. B \in Seq(BlockType)
  BY <1>4, <1>10, <1>12, AppendFacts
<1>14. frames' = Append(Under, G)
  <2>1. [f EXCEPT !.vals = Pop(@), !.blocks = Append(@, x)] = G
    BY <1>4, <1>12 DEF Armed, FrameType
  <2> QED
    BY <1>3, <2>1 DEF SetFrame
<1>15. /\ G \in FrameType /\ G.blocks = B /\ G.vals = V /\ G.loops = f.loops /\ G.spent = f.spent
       /\ G.unit = f.unit /\ G.transient = f.transient /\ G.scratch = f.scratch
  <2>1. f \in FrameType /\ B \in Seq(BlockType) /\ V \in Seq(OperandType) /\ G = Armed(f, B, V)
    BY <1>4, <1>6, <1>12, <1>13
  <2> QED
    BY <2>1, FrameArmed
<1>16. ArmMove(f, G) /\ \A c \in DOMAIN G.blocks : c \notin DOMAIN f.blocks => G.blocks[c] = x
  <2>1. G.blocks = Append(f.blocks, x) /\ \A k \in DOMAIN x.names : k = 1 /\ ~x.names[k].own
    BY <1>11, <1>12, <1>15
  <2> QED
    BY <1>4, <1>5, <1>10, <1>15, <2>1, ArmOpens
<1>17. NewArm(N, f, G)
  BY <1>8, <1>10, <1>11, <1>16 DEF NewArm
<1>18. Hands(f.vals, G.vals, Given(v)) /\ Among(G.vals, f.vals)
  <2>1. Spends(v, Given(v))
    BY <1>6 DEF Spends
  <2>2. Hands(f.vals, Pop(f.vals), Given(v))
    BY <1>1, <1>4, <1>6, <2>1, HandsTop
  <2> QED
    BY <1>6, <1>12, <1>15, <2>2
<1>19. PICK refs : refs = Given(v)
  OBVIOUS
<1>20. refs \in Seq(Addr) /\ Dropped(refs) /\ Hands(f.vals, G.vals, refs) /\ N = Len(frames) /\ f = F
  BY <1>1, <1>6, <1>7, <1>18, <1>19
<1> QED
  BY <1>3, <1>14, <1>15, <1>16, <1>17, <1>18, <1>20, ArmStep

\* A frame that goes on waiting, or that is returned to: only its operands and
\* what it spends have changed.
Resembles(f, G) ==
  /\ G \in FrameType /\ G.blocks = f.blocks /\ G.loops = f.loops /\ G.transient = f.transient /\ G.scratch = f.scratch
SameBelow(n) == \A g \in 1 .. n - 1 : g \in DOMAIN frames /\ g \in DOMAIN frames' /\ frames'[g] = frames[g]
Standing(f) == \A l \in DOMAIN f.loops : f.loops[l].depth < Len(f.blocks)
Handed(f, G) ==
  /\ \A k \in DOMAIN G.vals : \/ \E j \in DOMAIN f.vals : f.vals[j] = G.vals[k]
                              \/ G.vals[k].st = "own" /\ mem'[G.vals[k].ref] # "none"
  /\ \A k \in DOMAIN G.spent : mem'[G.spent[k]] # "none"

\* A frame that gains or loses operands and spent arguments, and nothing else,
\* keeps what is known of it.
LEMMA FrameKept ==
  ASSUME Core, Firm, Grows, BuiltAlone, NEW n \in DOMAIN frames, frames' \in Seq(FrameType), n \in DOMAIN frames',
         NEW f, f = frames[n], NEW G, frames'[n] = G, Resembles(f, G), SameBelow(n), Standing(f), Handed(f, G)
  PROVE  FrameOK(n)'
<1>1. /\ frames'[n] = G /\ f \in FrameType /\ FrameOK(n) /\ n \in Nat /\ frames[n] = f
      /\ Typed /\ HeapTyped /\ Placed
  BY DEF Core, Typed
<1>2. /\ f.blocks \in Seq(BlockType) /\ f.vals \in Seq(OperandType)
      /\ f.loops \in Seq(LoopType) /\ f.scratch \in SUBSET Addr
      /\ G.blocks = f.blocks /\ G.loops = f.loops /\ G.transient = f.transient /\ G.scratch = f.scratch
  BY <1>1, FrameParts DEF Resembles
<1>3. Shape(G) /\ LoopShape(G)
  <2>1. Shape(f) /\ LoopShape(f)
    BY <1>1 DEF FrameOK
  <2>2. Shape(G)
    BY <1>2, <2>1 DEF Shape
  <2>3. \A l \in DOMAIN f.loops : LoopAt(G, l)
    <3>1. TAKE l \in DOMAIN f.loops
    <3>2. LoopAt(f, l)
      BY <2>1 DEF LoopShape
    <3>3. f.loops[l].depth # Len(f.blocks)
      <4>1. f.loops[l].depth < Len(f.blocks) /\ f.loops[l].depth \in Nat
        BY <1>1, FrameParts DEF Standing
      <4> QED
        BY <4>1
    <3> QED
      BY <1>2, <3>2, <3>3 DEF LoopAt, AtVar
  <2> QED
    BY <1>2, <2>1, <2>2, <2>3 DEF LoopShape
<1>4. Shape(frames[n])' /\ LoopShape(frames[n])'
  <2>1. Shape(frames[n])'
    BY <1>1, <1>3 DEF Shape
  <2>2. LoopShape(frames[n])'
    BY <1>1, <1>3 DEF LoopShape, LoopAt, AtVar
  <2> QED
    BY <2>1, <2>2
<1>5. Waiting(n)'
  BY <1>1, <1>2 DEF Waiting, Standing
<1>6. ASSUME NEW k \in DOMAIN f.vals
      PROVE  /\ f.vals[k].ref \in Addr /\ mem'[f.vals[k].ref] = mem[f.vals[k].ref]
             /\ mem'[f.vals[k].ref] # "none"
  <2>1. f.vals[k].ref \in Addr
    BY <1>1, FrameParts
  <2>2. mem[f.vals[k].ref] # "none"
    BY <1>1, RefsLive
  <2> QED
    BY <2>1, <2>2 DEF Grows
<1>8. ASSUME NEW b \in DOMAIN f.blocks, NEW k \in DOMAIN f.blocks[b].names, f.blocks[b].names[k].ref # Null
      PROVE  /\ f.blocks[b].names[k].ref \in Addr
             /\ mem'[f.blocks[b].names[k].ref] = mem[f.blocks[b].names[k].ref]
             /\ mem'[f.blocks[b].names[k].ref] # "none"
  <2>1. PICK r : r = f.blocks[b].names[k].ref
    OBVIOUS
  <2>2. r \in Addr
    BY <1>1, <1>8, <2>1, FrameParts
  <2>3. mem[r] # "none"
    BY <1>1, <1>8, <2>1, RefsLive
  <2> QED
    BY <2>1, <2>2, <2>3 DEF Grows
<1>9. ASSUME NEW l \in DOMAIN f.loops, f.loops[l].arr # Null
      PROVE  /\ f.loops[l].arr \in Addr
             /\ mem'[f.loops[l].arr] = "heap" /\ mem[f.loops[l].arr] = "heap"
             /\ \A i \in 1 .. Width : body[f.loops[l].arr][i] # Null => body'[f.loops[l].arr][i] = body[f.loops[l].arr][i]
  BY <1>1, <1>9, FrameParts, RefsCounted DEF Firm
<1>11. ScratchAt(n)'
  <2>1. ScratchAt(n)
    BY <1>1 DEF FrameOK
  <2>2. \A a \in f.scratch : mem[a] = "frame" /\ ~NameAt(f, a) /\ \A g \in DOMAIN frames : g < n => a \notin Refs(frames[g])
    BY <1>1, <2>1 DEF ScratchAt
  <2>3. \A a \in f.scratch : mem'[a] = "frame"
    BY <1>2, <2>2 DEF Grows
  <2>4. \A g \in DOMAIN frames' : g < n => frames'[g] = frames[g] /\ g \in DOMAIN frames
    <3>1. \A g \in DOMAIN frames' : g < n => g \in 1 .. n - 1
      BY <1>1
    <3> QED
      BY <3>1 DEF SameBelow
  <2>5. \A a \in f.scratch : ~NameAt(G, a)
    BY <1>2, <2>2 DEF NameAt
  <2> QED
    BY <1>1, <1>2, <2>2, <2>3, <2>4, <2>5 DEF ScratchAt, Refs, NameAt
<1>12. Lives(frames[n])'
  <2>1. Lives(f)
    BY <1>1 DEF FrameOK
  <2>2. \A b \in DOMAIN G.blocks : \A k \in DOMAIN G.blocks[b].names : LiveName(G.blocks[b].names[k])'
    <3>1. SUFFICES ASSUME NEW b \in DOMAIN f.blocks, NEW k \in DOMAIN f.blocks[b].names, f.blocks[b].names[k].own
                   PROVE  mem'[f.blocks[b].names[k].ref] # "none"
      BY <1>2 DEF LiveName
    <3>2. f.blocks[b].names[k].ref # Null
      BY <1>1, <3>1 DEF FrameOK, Shape
    <3> QED
      BY <1>8, <3>2
  <2>3. \A k \in DOMAIN G.vals : LiveVal(G.vals[k])'
    <3>1. TAKE k \in DOMAIN G.vals
    <3>2. CASE \E j \in DOMAIN f.vals : f.vals[j] = G.vals[k]
      <4>1. PICK j \in DOMAIN f.vals : f.vals[j] = G.vals[k]
        BY <3>2
      <4>2. LiveVal(f.vals[j])
        BY <2>1 DEF Lives
      <4>3. f.vals[j].st = "building" /\ mem[f.vals[j].ref] = "heap" => hdr'[f.vals[j].ref] = hdr[f.vals[j].ref]
        BY <1>1 DEF BuiltAlone
      <4> QED
        BY <1>6, <4>1, <4>2, <4>3 DEF LiveVal
    <3>3. CASE G.vals[k].st = "own" /\ mem'[G.vals[k].ref] # "none"
      BY <3>3 DEF LiveVal
    <3> QED
      BY <3>2, <3>3 DEF Handed
  <2>4. \A k \in DOMAIN G.spent : mem'[G.spent[k]] # "none"
    BY DEF Handed
  <2>5. \A l \in DOMAIN G.loops : LiveArr(G.loops[l])'
    BY <1>2, <1>9 DEF LiveArr
  <2> QED
    BY <1>1, <2>2, <2>3, <2>4, <2>5 DEF Lives
<1>13. ASSUME NEW d, NEW r \in Addr, Guard(n, d, r), mem'[r] = mem[r]
       PROVE  Guard(n, d, r)'
  <2>1. \A a \in Addr : KeptBy(n, d, a) => KeptBy(n, d, a)'
    <3>2. \A a \in Addr : Keeps(frames[n], d, a)' = Keeps(frames[n], d, a)
      BY <1>1, <1>2 DEF Keeps
    <3>3. \A g \in 1 .. n - 1 : \A a \in Addr : KeepsAll(frames[g], a)' = KeepsAll(frames[g], a)
      BY DEF Keeps, KeepsAll, SameBelow
    <3> QED
      BY <3>2, <3>3 DEF KeptBy
  <2> QED
    BY <1>1, <1>13, <2>1, GuardCarried
<1>14. GuardVals(n)'
  <2>1. ASSUME NEW k \in DOMAIN G.vals, G.vals[k].st = "borrow"
        PROVE  Guard(n, Len(f.blocks), G.vals[k].ref)'
    <3>1. PICK j \in DOMAIN f.vals : f.vals[j] = G.vals[k]
      BY <2>1 DEF Handed
    <3>2. PICK r : r = f.vals[j].ref
      OBVIOUS
    <3>3. r \in Addr /\ mem'[r] = mem[r] /\ Guard(n, Len(f.blocks), r)
      BY <1>1, <1>6, <2>1, <3>1, <3>2 DEF FrameOK, GuardVals
    <3> QED
      BY <1>13, <3>1, <3>2, <3>3
  <2> QED
    BY <1>1, <1>2, <2>1 DEF GuardVals
<1>15. GuardLoops(n)'
  <2>1. \A l \in DOMAIN f.loops : f.loops[l].arr # Null /\ ~f.loops[l].mine => Guard(n, f.loops[l].depth, f.loops[l].arr)'
    BY <1>1, <1>9, <1>13 DEF FrameOK, GuardLoops
  <2> QED
    BY <1>1, <1>2, <2>1 DEF GuardLoops
<1>16. GuardNames(n)'
  <2>1. SUFFICES ASSUME NEW b \in DOMAIN f.blocks, NEW k \in DOMAIN f.blocks[b].names
                 PROVE  GuardName(n, b, k)'
    BY <1>1, <1>2 DEF GuardNames
  <2>2. PICK e : e = f.blocks[b].names[k]
    OBVIOUS
  <2>3. GuardName(n, b, k) /\ frames'[n].blocks = f.blocks /\ frames'[n].loops = f.loops
    BY <1>1, <1>2 DEF FrameOK, GuardNames
  <2>4. CASE e.own
    BY <2>2, <2>3, <2>4 DEF GuardName
  <2>5. CASE f.blocks[b].kind = "arm" /\ e.ref # Null /\ Guard(n, Len(f.blocks), e.ref)
    <3>1. Guard(n, Len(f.blocks), e.ref)'
      BY <1>8, <1>13, <2>2, <2>5
    <3> QED
      BY <2>2, <2>3, <2>5, <3>1 DEF GuardName
  <2>6. CASE f.blocks[b].kind # "arm" /\ e.ref # Null /\ Guard(n, 0, e.ref)
    <3>1. Guard(n, 0, e.ref)'
      BY <1>8, <1>13, <2>2, <2>6
    <3> QED
      BY <2>2, <2>3, <2>6, <3>1 DEF GuardName
  <2>7. CASE /\ f.blocks[b].kind # "arm"
             /\ \E l \in DOMAIN f.loops :
                  /\ AtVar(f, l, b, k)
                  /\ e.ref # Null => \E i \in 1 .. Width : body[f.loops[l].arr][i] = e.ref
    <3>1. PICK l \in DOMAIN f.loops :
                  /\ AtVar(f, l, b, k)
                  /\ e.ref # Null => \E i \in 1 .. Width : body[f.loops[l].arr][i] = e.ref
      BY <2>7
    <3>2. e.ref # Null => \E i \in 1 .. Width : body'[f.loops[l].arr][i] = e.ref
      BY <1>9, <3>1 DEF AtVar
    <3>3. AtVar(frames[n], l, b, k)' /\ l \in DOMAIN frames'[n].loops
      BY <2>3, <3>1 DEF AtVar
    <3>4. frames'[n].loops[l].arr = f.loops[l].arr /\ frames'[n].blocks[b].names[k] = e
          /\ frames'[n].blocks[b].kind # "arm"
      BY <2>2, <2>3, <2>7
    <3> QED
      BY <3>2, <3>3, <3>4 DEF GuardName
  <2> QED
    BY <1>1, <2>2, <2>3, <2>4, <2>5, <2>6, <2>7 DEF GuardName
<1> QED
  BY <1>4, <1>5, <1>11, <1>12, <1>14, <1>15, <1>16 DEF FrameOK

\* The books of a step that changes more than the running frame.
Bills(refs, over) ==
  \A a \in Addr : mem'[a] = "heap" =>
    Stock(a)' + Total(frames, a) = Stock(a) + Total(frames', a) + Cardinality(Places(refs, a)) + over[a]

\* A step that adds to the heap and accounts for all claims keeps counts and
\* types, and is firm.
LEMMA StackStep ==
  ASSUME Core, HeapStep, NEW refs \in Seq(Addr), Dropped(refs), lifted' = lifted,
         frames' \in Seq(FrameType), NEW over, Abandons(over), Bills(refs, over)
  PROVE  Firm /\ Grows /\ Typed' /\ Counts' /\ Dues' /\ \A n \in DOMAIN frames : Remains(n)
<1>1. Typed' /\ Counts' /\ Firmer
  <2>1. /\ over \in [Addr -> Nat] /\ \A a \in Addr : lifted = {} => over[a] = 0
        /\ \A a \in Addr : mem'[a] = "heap" =>
             Stock(a)' + Total(frames, a) = Stock(a) + Total(frames', a) + Cardinality(Places(refs, a)) + over[a]
    BY DEF Abandons, Bills
  <2> QED
    BY <2>1, Ledger
<1>2. Firm /\ Grows /\ \A n \in DOMAIN frames : Remains(n)
  BY <1>1, FirmerFirm DEF Firmer
<1>3. Dues'
  BY <1>2, DuesKept
<1> QED
  BY <1>1, <1>2, <1>3

\* A callee starts with its argument named and nothing else.
Callee(e, unit) == [NewFrame(<<e>>) EXCEPT !.unit = unit]

\* A callee's frame: one block, with a name that owns nothing.
LEMMA CalleeIs ==
  ASSUME NEW e \in EntryType, ~e.own, NEW unit \in BOOLEAN, NEW K, K = Callee(e, unit)
  PROVE  /\ K \in FrameType /\ Len(K.blocks) = 1 /\ DOMAIN K.blocks = {1} /\ K.blocks # <<>>
         /\ K.blocks[1].kind = "fn" /\ K.blocks[1].names = <<e>>
         /\ K.vals = <<>> /\ K.spent = <<>> /\ K.loops = <<>> /\ ~K.transient /\ K.scratch = {}
         /\ \A a : Weight(K, a) = 0
<1>1. PICK ns : ns = <<e>>
  OBVIOUS
<1>2. ns \in Seq(EntryType) /\ DOMAIN ns = {1} /\ \A k \in DOMAIN ns : ns[k] = e
  BY <1>1
<1>3. PICK x : x = [kind |-> "fn", base |-> 0, names |-> ns]
  OBVIOUS
<1>4. x \in BlockType /\ x.kind = "fn" /\ x.names = ns
  BY <1>2, <1>3 DEF BlockType
<1>5. PICK B, V, S, L : B = <<x>> /\ V = <<>> /\ S = <<>> /\ L = <<>>
  OBVIOUS
<1>6. /\ B \in Seq(BlockType) /\ Len(B) = 1 /\ DOMAIN B = {1} /\ B # <<>> /\ B[1] = x
      /\ V \in Seq(OperandType) /\ S \in Seq(Addr) /\ L \in Seq(LoopType)
  BY <1>4, <1>5
<1>7. K = [blocks |-> B, vals |-> V, spent |-> S, loops |-> L, transient |-> FALSE, scratch |-> {}, unit |-> unit]
  BY <1>1, <1>3, <1>5 DEF Callee, NewFrame
<1>8. K \in FrameType
  BY <1>6, <1>7 DEF FrameType
<1>9. ASSUME NEW a
      PROVE  Weight(K, a) = 0
  <2>1. Cardinality(OwnBlocks(B, a)) = 0
    <3>1. B = Append(<<>>, x) /\ <<>> \in Seq(BlockType)
      BY <1>5
    <3>2. NamesOwned(ns, a) = 0
      BY <1>2, NothingNamed
    <3>3. OwnBlocks(<<>>, a) = {}
      <4>1. PICK t : t = [b \in DOMAIN <<>> |-> OwnNames(<<>>[b].names, a)]
        OBVIOUS
      <4>2. Tagged(t) = {}
        <5>1. DOMAIN t = {}
          BY <4>1
        <5> QED
          BY <5>1, TaggedEmpty
      <4> QED
        BY <4>1, <4>2 DEF OwnBlocks
    <3>4. Cardinality(OwnBlocks(<<>>, a)) = 0
      BY <3>3, FS_EmptySet
    <3>5. Cardinality(OwnBlocks(Append(<<>>, x), a)) = Cardinality(OwnBlocks(<<>>, a)) + NamesOwned(x.names, a)
      BY <1>4, <3>1, BlocksAppend
    <3> QED
      BY <1>4, <3>1, <3>2, <3>4, <3>5
  <2>2. /\ Weight(K, a) = Cardinality(OwnBlocks(K.blocks, a)) + Cardinality(OwnVals(K.vals, a))
                             + Cardinality(Places(K.spent, a)) + Cardinality(OwnLoops(K.loops, a))
    BY <1>8, WeightIs
  <2>3. Cardinality(OwnVals(V, a)) = 0 /\ Cardinality(Places(S, a)) = 0 /\ Cardinality(OwnLoops(L, a)) = 0
    BY <1>5, CountsEmpty
  <2>4. K.blocks = B /\ K.vals = V /\ K.spent = S /\ K.loops = L
    BY <1>7
  <2> QED
    BY <2>1, <2>2, <2>3, <2>4
<1>10. /\ K.blocks = B /\ K.vals = V /\ K.spent = S /\ K.loops = L /\ ~K.transient /\ K.scratch = {}
  BY <1>7
<1>11. /\ Len(K.blocks) = 1 /\ DOMAIN K.blocks = {1} /\ K.blocks # <<>>
       /\ K.blocks[1].kind = "fn" /\ K.blocks[1].names = <<e>>
  BY <1>1, <1>4, <1>6, <1>10
<1> QED
  BY <1>5, <1>8, <1>9, <1>10, <1>11

\* The caller keeps what it built for the call.
Calling(f, V, S) == [f EXCEPT !.vals = V, !.spent = S]

\* A caller's frame.
LEMMA CallingIs ==
  ASSUME NEW f \in FrameType, NEW V \in Seq(OperandType), NEW S \in Seq(Addr), NEW H, H = Calling(f, V, S)
  PROVE  /\ H \in FrameType /\ H.vals = V /\ H.spent = S /\ H.unit = f.unit
         /\ Resembles(f, H)
<1>1. /\ H \in FrameType /\ H.vals = V /\ H.spent = S /\ H.unit = f.unit /\ H.blocks = f.blocks /\ H.loops = f.loops
      /\ H.transient = f.transient /\ H.scratch = f.scratch
  BY DEF Calling, FrameType
<1> QED
  BY <1>1 DEF Resembles

\* The claim on an argument built for a call moves from the operands to the
\* spent arguments.
LEMMA CallingWeighs ==
  ASSUME NEW f \in FrameType, NEW H \in FrameType, Resembles(f, H), f.spent = <<>>, Hands(f.vals, H.vals, H.spent)
  PROVE  \A a \in Addr : mem[a] = "heap" => Weight(H, a) = Weight(f, a)
<1>1. TAKE a \in Addr
<1>2. HAVE mem[a] = "heap"
<1>3. PICK b, v, w, s, l : /\ b = Cardinality(OwnBlocks(f.blocks, a)) /\ v = Cardinality(OwnVals(f.vals, a))
                           /\ w = Cardinality(OwnVals(H.vals, a)) /\ s = Cardinality(Places(H.spent, a))
                           /\ l = Cardinality(OwnLoops(f.loops, a))
  OBVIOUS
<1>4. v = w + s
  BY <1>2, <1>3 DEF Hands
<1>5. Cardinality(Places(f.spent, a)) = 0
  BY CountsEmpty
<1>6. Weight(f, a) = b + v + 0 + l
  BY <1>3, <1>5, WeightIs
<1>7. Weight(H, a) = b + w + s + l
  BY <1>3, WeightIs DEF Resembles
<1>8. b \in Nat /\ w \in Nat /\ s \in Nat /\ l \in Nat
  <2>1. f.blocks \in Seq(BlockType) /\ H.vals \in Seq(OperandType) /\ H.spent \in Seq(Addr) /\ f.loops \in Seq(LoopType)
    BY FrameParts
  <2> QED
    BY <1>3, <2>1, BlocksFinite, CountsFinite
<1> QED
  BY <1>4, <1>6, <1>7, <1>8

\* A callee's frame is in order: what it names is guarded by its caller.
LEMMA CalleeFits ==
  ASSUME NEW n \in Nat, frames' \in Seq(FrameType), Len(frames') = n, NEW e \in EntryType, ~e.own, NEW unit \in BOOLEAN,
         n \in DOMAIN frames', frames'[n] = Callee(e, unit), e.ref # Null, Guard(n, 0, e.ref)'
  PROVE  FrameOK(n)'
<1>1. PICK K : K = Callee(e, unit)
  OBVIOUS
<1>2. /\ K \in FrameType /\ Len(K.blocks) = 1 /\ DOMAIN K.blocks = {1} /\ K.blocks # <<>>
      /\ K.blocks[1].kind = "fn" /\ K.blocks[1].names = <<e>>
      /\ K.vals = <<>> /\ K.spent = <<>> /\ K.loops = <<>> /\ ~K.transient /\ K.scratch = {}
      /\ frames'[n] = K
  BY <1>1, CalleeIs
<1>3. /\ \A b \in DOMAIN K.blocks : b = 1
      /\ \A b \in DOMAIN K.blocks : \A k \in DOMAIN K.blocks[b].names : k = 1 /\ K.blocks[b].names[k] = e
      /\ DOMAIN K.vals = {} /\ DOMAIN K.spent = {} /\ DOMAIN K.loops = {}
  BY <1>2
<1>4. Shape(K)
  <2>1. \A b, c \in DOMAIN K.blocks : ~(b < c)
    BY <1>3
  <2> QED
    BY <1>2, <1>3, <2>1 DEF Shape
<1>5. LoopShape(K)
  BY <1>3 DEF LoopShape
<1>6. Shape(frames[n])' /\ LoopShape(frames[n])'
  <2>1. Shape(frames[n])'
    BY <1>2, <1>4 DEF Shape
  <2>2. LoopShape(frames[n])'
    BY <1>2, <1>5 DEF LoopShape, LoopAt, AtVar
  <2> QED
    BY <2>1, <2>2
<1>7. Waiting(n)'
  BY <1>2 DEF Waiting
<1>8. ScratchAt(n)'
  BY <1>2 DEF ScratchAt
<1>9. Lives(frames[n])'
  BY <1>2, <1>3 DEF Lives, LiveName
<1>10. GuardVals(n)' /\ GuardLoops(n)'
  BY <1>2, <1>3 DEF GuardVals, GuardLoops
<1>11. GuardNames(n)'
  BY <1>2, <1>3 DEF GuardNames, GuardName
<1> QED
  BY <1>6, <1>7, <1>8, <1>9, <1>10, <1>11 DEF FrameOK

\* The accounts of a call.
LEMMA CallBills ==
  ASSUME Core, Running, HeapTyped', \A a \in Addr : Stock(a)' = Stock(a), mem' = mem,
         NEW H \in FrameType, NEW K \in FrameType, frames' = Append(Append(Under, H), K),
         \A a \in Addr : mem[a] = "heap" => Weight(H, a) = Weight(F, a),
         \A a : Weight(K, a) = 0
  PROVE  Bills(<<>>, Zero)
<1>1. ASSUME NEW a \in Addr, mem'[a] = "heap"
      PROVE  Stock(a)' + Total(frames, a) = Stock(a) + Total(frames', a) + Cardinality(Places(<<>>, a)) + Zero[a]
  <2>1. frames \in Seq(FrameType) /\ frames # <<>>
    BY DEF Core, Typed, Running
  <2>2. Under \in Seq(FrameType) /\ F \in FrameType /\ frames = Append(Under, F)
    BY <2>1, Decomposed
  <2>3. PICK s, t, w : s = Stock(a) /\ t = Total(Under, a) /\ w = Weight(F, a)
    OBVIOUS
  <2>4. Total(frames, a) = t + w
    BY <2>2, <2>3, TotalAppend
  <2>5. PICK U : U = Append(Under, H)
    OBVIOUS
  <2>6. U \in Seq(FrameType)
    BY <2>2, <2>5
  <2>7. Total(U, a) = t + Weight(H, a)
    BY <2>2, <2>3, <2>5, TotalAppend
  <2>8. Total(frames', a) = Total(U, a) + Weight(K, a)
    <3>1. Total(Append(U, K), a) = Total(U, a) + Weight(K, a)
      BY <2>6, TotalAppend
    <3> QED
      BY <2>5, <3>1
  <2>9. Weight(H, a) = w /\ Weight(K, a) = 0
    BY <1>1, <2>3
  <2>10. s \in Int /\ t \in Nat /\ w \in Nat
    <3>1. HeapTyped
      BY DEF Core, Typed
    <3> QED
      BY <2>2, <2>3, <3>1, StockInt, TotalFinite, WeightIs
  <2>11. Cardinality(Places(<<>>, a)) = 0 /\ Zero[a] = 0
    BY CountsEmpty, ZeroAbandons
  <2>12. s + (t + w) = s + ((t + w) + 0) + 0 + 0
    BY <2>10
  <2>13. Stock(a)' = s /\ Stock(a) = s
    BY <2>3
  <2> QED
    BY <2>4, <2>7, <2>8, <2>9, <2>11, <2>12, <2>13
<1> QED
  BY <1>1 DEF Bills

\* A call keeps the invariant (gen_expr Call, gen_arg).
LEMMA CallStep ==
  ASSUME Core, lifted' = lifted, NEW n \in Var, NEW unit \in BOOLEAN, Call(n, unit)
  PROVE  Core'
<1>1. PICK f, N, v, V, S, e : /\ f = F /\ N = Len(frames) /\ v = Top(F.vals) /\ V = Pop(F.vals) /\ S = Given(v)
                              /\ e = Entry(n, v.ref, FALSE)
  OBVIOUS
<1>2. PICK H, K : H = Calling(f, V, S) /\ K = Callee(e, unit)
  OBVIOUS
<1>3. /\ Evaluating /\ Done /\ UNCHANGED <<heapVars, payload>> /\ UNCHANGED <<due, lost>>
      /\ frames' = Append(Append(Under, [f EXCEPT !.vals = Pop(@), !.spent = S]),
                          [NewFrame(<<e>>) EXCEPT !.unit = unit])
  BY <1>1 DEF Call
<1>4. /\ Running /\ f \in FrameType /\ f.spent = <<>> /\ frames \in Seq(FrameType) /\ frames # <<>>
      /\ N \in Nat \ {0} /\ N \in DOMAIN frames /\ f = frames[N] /\ FrameOK(N) /\ HeapTyped /\ due = <<>>
  BY <1>1, <1>3, Going DEF Evaluating, HeapGood
<1>5. /\ V \in Seq(OperandType) /\ f.vals # <<>> /\ f.vals \in Seq(OperandType) /\ v \in OperandType /\ v.ref \in Addr
      /\ v.st \in {"own", "borrow"} /\ mem[v.ref] # "none"
      /\ v.st = "borrow" => Guard(N, Len(f.blocks), v.ref)
      /\ S \in Seq(Addr) /\ (\A k \in DOMAIN S : mem[S[k]] # "none")
      /\ \A a : Cardinality(Places(S, a)) = Gives(v, a)
      /\ Among(V, f.vals)
  BY <1>1, <1>3, <1>4, TopVal
<1>6. e \in EntryType /\ ~e.own /\ e.ref = v.ref /\ e.ref # Null
  BY <1>1, <1>5, OwnershipAssumption DEF Entry, EntryType
<1>7. /\ H \in FrameType /\ H.vals = V /\ H.spent = S /\ H.unit = f.unit /\ Resembles(f, H)
  BY <1>2, <1>4, <1>5, CallingIs
<1>8. K \in FrameType /\ K.spent = <<>> /\ \A a : Weight(K, a) = 0
  BY <1>2, <1>6, CalleeIs
<1>9. frames' = Append(Append(Under, H), K)
  <2>1. [f EXCEPT !.vals = Pop(@), !.spent = S] = H
    BY <1>1, <1>2, <1>4 DEF Calling, FrameType
  <2>2. [NewFrame(<<e>>) EXCEPT !.unit = unit] = K
    BY <1>2 DEF Callee
  <2> QED
    BY <1>3, <2>1, <2>2
<1>10. /\ Under \in Seq(FrameType) /\ Len(Under) = N - 1 /\ DOMAIN Under = 1 .. N - 1
       /\ \A g \in 1 .. N - 1 : Under[g] = frames[g] /\ g \in DOMAIN frames
  BY <1>1, <1>4, Decomposed
<1>11. /\ frames' \in Seq(FrameType) /\ Len(frames') = N + 1 /\ DOMAIN frames' = 1 .. N + 1
       /\ frames'[N] = H /\ frames'[N + 1] = K
       /\ \A g \in 1 .. N - 1 : frames'[g] = frames[g] /\ g \in DOMAIN frames /\ g \in DOMAIN frames'
       /\ N \in DOMAIN frames' /\ N + 1 \in DOMAIN frames'
  <2>1. PICK U : U = Append(Under, H)
    OBVIOUS
  <2>2. /\ U \in Seq(FrameType) /\ Len(U) = N /\ U[N] = H /\ \A g \in 1 .. N - 1 : U[g] = frames[g]
    <3>1. /\ Append(Under, H) \in Seq(FrameType) /\ Len(Append(Under, H)) = Len(Under) + 1
          /\ Append(Under, H)[Len(Under) + 1] = H /\ \A g \in 1 .. Len(Under) : Append(Under, H)[g] = Under[g]
      BY <1>7, <1>10, AppendFacts
    <3>2. (N - 1) + 1 = N
      BY <1>4
    <3> QED
      BY <1>10, <2>1, <3>1, <3>2
  <2>3. /\ Append(U, K) \in Seq(FrameType) /\ Len(Append(U, K)) = N + 1 /\ DOMAIN Append(U, K) = 1 .. N + 1
        /\ Append(U, K)[N + 1] = K /\ \A g \in 1 .. N : Append(U, K)[g] = U[g]
    BY <1>8, <2>2, AppendFacts
  <2>4. /\ N \in 1 .. N /\ N \in 1 .. N + 1 /\ N + 1 \in 1 .. N + 1
        /\ \A g \in 1 .. N - 1 : g \in 1 .. N /\ g \in 1 .. N + 1
    BY <1>4
  <2> QED
    BY <1>9, <1>10, <2>1, <2>2, <2>3, <2>4
<1>12. HeapStep /\ BuiltAlone /\ HeapTyped' /\ \A a \in Addr : Stock(a)' = Stock(a)
  BY <1>3, <1>4, StillHeap
<1>13. mem' = mem
  BY <1>3 DEF heapVars
<1>14. Hands(f.vals, V, S)
  <2>1. Spends(v, S)
    BY <1>5 DEF Spends
  <2> QED
    BY <1>1, <1>5, <2>1, HandsTop
<1>15. \A a \in Addr : mem[a] = "heap" => Weight(H, a) = Weight(f, a)
  BY <1>4, <1>7, <1>14, CallingWeighs
<1>16. Bills(<<>>, Zero)
  BY <1>1, <1>4, <1>7, <1>8, <1>9, <1>12, <1>13, <1>15, CallBills
<1>17. Firm /\ Grows /\ Typed' /\ Counts' /\ Dues' /\ \A g \in DOMAIN frames : Remains(g)
  <2>1. PICK refs : refs = <<>>
    OBVIOUS
  <2>2. refs \in Seq(Addr) /\ Dropped(refs) /\ Bills(refs, Zero) /\ Abandons(Zero)
    BY <1>3, <1>16, <2>1, DropsNothing, ZeroAbandons
  <2> QED
    BY <1>11, <1>12, <2>2, StackStep
<1>18. \A g \in 1 .. N - 1 : FrameOK(g)'
  <2>1. PICK m : m = N - 1
    OBVIOUS
  <2>2. /\ m \in Nat /\ Len(frames') > m /\ Len(frames) > m /\ Len(frames) \in Nat /\ Len(frames') \in Nat
        /\ DOMAIN frames' = 1 .. Len(frames')
    BY <1>1, <1>4, <1>11, <2>1
  <2>3. \A g \in 1 .. m : g \in DOMAIN frames /\ g \in DOMAIN frames' /\ frames'[g] = frames[g] /\ Remains(g)
    BY <1>11, <1>17, <2>1
  <2>4. \A g \in 1 .. m : FrameOK(g)'
    BY <1>12, <1>17, <2>2, <2>3, KeptBelow
  <2> QED
    BY <2>1, <2>4
<1>19. FrameOK(N)'
  <2>1. SameBelow(N)
    BY <1>11 DEF SameBelow
  <2>2. Standing(f)
    BY <1>1, <1>3, LoopsBelow DEF Standing
  <2>3. Handed(f, H)
    <3>1. \A k \in DOMAIN V : \E j \in DOMAIN f.vals : f.vals[j] = V[k]
      BY <1>5 DEF Among
    <3>2. \A k \in DOMAIN S : mem'[S[k]] # "none"
      BY <1>5, <1>13
    <3> QED
      BY <1>7, <3>1, <3>2 DEF Handed
  <2> QED
    BY <1>4, <1>7, <1>11, <1>12, <1>17, <2>1, <2>2, <2>3, FrameKept
<1>20. Guard(N + 1, 0, v.ref)'
  <2>1. PICK r : r = v.ref
    OBVIOUS
  <2>2. \A a \in Addr : KeepsAll(H, a) => KeptBy(N + 1, 0, a)'
    <3>1. N \in 1 .. (N + 1) - 1
      BY <1>4
    <3> QED
      BY <1>11, <3>1 DEF KeptBy, KeepsAll, Keeps
  <2>3. CASE mem[r] \in {"const", "frame"}
    BY <1>13, <2>1, <2>3 DEF Guard
  <2>4. CASE v.st = "borrow"
    <3>1. ASSUME NEW a \in Addr, KeptBy(N, Len(f.blocks), a)
          PROVE  KeptBy(N + 1, 0, a)'
      <4>1. CASE Keeps(frames[N], Len(f.blocks), a)
        <5>1. Keeps(H, Len(H.blocks), a)
          BY <1>4, <1>7, <4>1 DEF Keeps, Resembles
        <5> QED
          BY <2>2, <5>1 DEF KeepsAll
      <4>2. CASE \E g \in 1 .. N - 1 : KeepsAll(frames[g], a)
        <5>1. PICK g \in 1 .. N - 1 : KeepsAll(frames[g], a)
          BY <4>2
        <5>2. g \in 1 .. (N + 1) - 1 /\ frames'[g] = frames[g]
          BY <1>4, <1>11
        <5>3. KeepsAll(frames[g], a)'
          BY <5>1, <5>2 DEF KeepsAll, Keeps
        <5> QED
          BY <5>2, <5>3 DEF KeptBy
      <4> QED
        BY <3>1, <4>1, <4>2 DEF KeptBy
    <3>2. r \in Addr /\ Guard(N, Len(f.blocks), r) /\ mem'[r] = mem[r]
      BY <1>5, <1>13, <2>1, <2>4
    <3>3. Guard(N + 1, 0, r)'
      BY <1>4, <1>17, <3>1, <3>2, GuardCarried
    <3> QED
      BY <2>1, <3>3
  <2>5. CASE v.st = "own" /\ mem[r] = "heap"
    <3>1. S = <<r>>
      BY <1>1, <2>1, <2>5 DEF Given
    <3>2. KeepsAll(H, r)
      <4>1. 1 \in DOMAIN H.spent /\ H.spent[1] = r
        BY <1>7, <3>1
      <4> QED
        BY <4>1 DEF KeepsAll
    <3>3. r \in Addr /\ r \in Inside(r)
      BY <1>5, <2>1, InsideSelf
    <3>4. r \in Inside(r)'
      BY <1>4, <1>17, <3>3, InsideGrows
    <3>5. KeptBy(N + 1, 0, r)'
      BY <2>2, <3>2, <3>3
    <3>6. Kept(N + 1, 0, r)'
      BY <3>5 DEF KeptBy, Kept
    <3> QED
      BY <1>13, <2>1, <2>5, <3>3, <3>4, <3>6 DEF Guard
  <2>6. mem[r] \in {"none", "heap", "frame", "const"}
    BY <1>4, <1>5, <2>1 DEF HeapTyped
  <2> QED
    BY <1>5, <2>1, <2>3, <2>4, <2>5, <2>6
<1>21. FrameOK(N + 1)'
  <2>1. PICK M : M = N + 1
    OBVIOUS
  <2>2. /\ M \in Nat /\ Len(frames') = M /\ M \in DOMAIN frames' /\ frames'[M] = Callee(e, unit)
        /\ Guard(M, 0, e.ref)'
    BY <1>2, <1>4, <1>6, <1>11, <1>20, <2>1
  <2>3. FrameOK(M)'
    BY <1>6, <1>11, <2>2, CalleeFits
  <2> QED
    BY <2>1, <2>3
<1>22. Bottom'
  <2>1. CASE N = 1
    BY <1>1, <1>4, <1>7, <1>8, <1>11, <2>1 DEF Core, Bottom
  <2>2. CASE N # 1
    <3>1. 1 \in 1 .. N - 1
      BY <1>4, <2>2
    <3>2. frames'[1] = frames[1]
      BY <1>11, <3>1
    <3> QED
      BY <1>4, <1>8, <1>11, <3>2 DEF Core, Bottom
  <2> QED
    BY <2>1, <2>2
<1>23. \A g \in DOMAIN frames' : FrameOK(g)'
  <2>1. \A g \in 1 .. N + 1 : g \in 1 .. N - 1 \/ g = N \/ g = N + 1
    BY <1>4
  <2> QED
    BY <1>11, <1>18, <1>19, <1>21, <2>1
<1> QED
  BY <1>12, <1>17, <1>22, <1>23 DEF Core, HeapStep

\* What is released on the way out, and then what the caller spent.
LEMMA ExitDrops ==
  ASSUME Core, due = <<>>, NEW refs \in Seq(Addr), NEW S \in Seq(Addr), NEW c \in BOOLEAN,
         IF c THEN due' = refs /\ Lose(S) ELSE due' = refs \o S /\ lost' = lost,
         \A k \in DOMAIN refs : mem[refs[k]] # "none", \A k \in DOMAIN S : mem[S[k]] # "none"
  PROVE  refs \o S \in Seq(Addr) /\ Dropped(refs \o S)
<1>1. PICK t : t = refs \o S
  OBVIOUS
<1>2. t \in Seq(Addr) /\ \A a : /\ Cardinality(Places(t, a)) = Cardinality(Places(refs, a)) + Cardinality(Places(S, a))
                                /\ Cardinality(Places(refs, a)) \in Nat /\ Cardinality(Places(S, a)) \in Nat
  BY <1>1, PlacesConcat
<1>3. \A k \in DOMAIN t : mem[t[k]] # "none"
  <2>1. \A k \in 1 .. Len(refs) + Len(S) : k \in 1 .. Len(refs) \/ (k - Len(refs) \in 1 .. Len(S) /\ ~(k <= Len(refs)))
    OBVIOUS
  <2>2. DOMAIN t = 1 .. Len(refs) + Len(S)
    BY <1>1
  <2>3. \A k \in 1 .. Len(refs) : t[k] = refs[k] /\ k \in DOMAIN refs
    BY <1>1
  <2>4. \A k \in 1 .. Len(refs) + Len(S) : ~(k <= Len(refs)) => t[k] = S[k - Len(refs)]
    BY <1>1
  <2>5. DOMAIN S = 1 .. Len(S)
    OBVIOUS
  <2> QED
    BY <2>1, <2>2, <2>3, <2>4, <2>5, SMTT(30)
<1>4. CASE ~c
  <2>1. due' = t /\ lost' = lost
    BY <1>1, <1>4
  <2>2. Dropped(t)
    BY <1>2, <1>3, <2>1, DueDrops
  <2> QED
    BY <1>1, <1>2, <2>2
<1>5. CASE c
  <2>1. due' = refs /\ Lose(S)
    BY <1>5
  <2>2. /\ lost' \in [Addr -> 0 .. MaxLost]
        /\ \A a \in Addr : lost'[a] >= lost[a] /\ (lost'[a] > 0 => mem[a] = "heap")
        /\ \A a \in Addr : /\ lost'[a] \in Nat /\ lost[a] \in Nat
                           /\ mem[a] \in {"heap", "none"} => lost'[a] = lost[a] + Cardinality(Places(S, a))
    BY <2>1, LoseCounts
  <2>3. ASSUME NEW a \in Addr, mem[a] \in {"heap", "none"}
        PROVE  Cardinality(Places(due', a)) + lost'[a] =
                 Cardinality(Places(due, a)) + lost[a] + Cardinality(Places(t, a))
    <3>1. Cardinality(Places(due, a)) = 0
      BY CountsEmpty
    <3>2. PICK p, q, l : p = Cardinality(Places(refs, a)) /\ q = Cardinality(Places(S, a)) /\ l = lost[a]
      OBVIOUS
    <3>3. p \in Nat /\ q \in Nat /\ l \in Nat /\ lost'[a] = l + q /\ Cardinality(Places(t, a)) = p + q
      BY <1>2, <2>2, <2>3, <3>2
    <3>4. p + (l + q) = 0 + l + (p + q)
      BY <3>3
    <3> QED
      BY <2>1, <3>1, <3>2, <3>3, <3>4
  <2>4. Dropped(t)
    BY <2>1, <2>2, <2>3 DEF Dropped
  <2> QED
    BY <1>1, <1>2, <2>4
<1> QED
  BY <1>4, <1>5

\* A function is left with nothing of its own but what it releases or abandons.
Quits(released, answer, over) ==
  \A a \in Addr : mem'[a] = "heap" =>
    \E s, t \in Int : \E w, x, r, o \in Nat :
      /\ Stock(a) = s /\ Stock(a)' = t /\ Weight(F, a) = w /\ Cardinality(OwnVals(answer, a)) = x
      /\ Cardinality(Places(released, a)) = r /\ over[a] = o
      /\ t + w = s + x + r + o

\* One answer more among the operands.
LEMMA Concatenated ==
  ASSUME NEW s \in Seq(OperandType), NEW t \in Seq(OperandType), t = <<>> \/ \E v \in OperandType : t = <<v>>, NEW a
  PROVE  /\ s \o t \in Seq(OperandType)
         /\ Cardinality(OwnVals(s \o t, a)) = Cardinality(OwnVals(s, a)) + Cardinality(OwnVals(t, a))
         /\ Cardinality(OwnVals(t, a)) \in Nat /\ Cardinality(OwnVals(s, a)) \in Nat
<1>1. Cardinality(OwnVals(s, a)) \in Nat /\ Cardinality(OwnVals(t, a)) \in Nat
  BY CountsFinite
<1>2. CASE t = <<>>
  <2>1. s \o t = s
    BY <1>2
  <2>2. Cardinality(OwnVals(t, a)) = 0
    BY <1>2, CountsEmpty
  <2> QED
    BY <1>1, <2>1, <2>2
<1>3. CASE \E v \in OperandType : t = <<v>>
  <2>1. PICK v \in OperandType : t = <<v>>
    BY <1>3
  <2>2. s \o t = Append(s, v) /\ t = Append(<<>>, v) /\ <<>> \in Seq(OperandType)
    BY <2>1
  <2>3. Cardinality(OwnVals(Append(s, v), a)) = Cardinality(OwnVals(s, a)) + Gives(v, a)
    BY ValsAppend
  <2>4. Cardinality(OwnVals(Append(<<>>, v), a)) = Cardinality(OwnVals(<<>>, a)) + Gives(v, a)
    BY <2>2, ValsAppend
  <2>5. Cardinality(OwnVals(<<>>, a)) = 0 /\ Gives(v, a) \in {0, 1}
    BY CountsEmpty, GivesIs
  <2> QED
    BY <1>1, <2>2, <2>3, <2>4, <2>5
<1> QED
  BY <1>2, <1>3

\* The caller as its callee leaves it.
Resumed(f, V) == [f EXCEPT !.spent = <<>>, !.vals = V]

\* A caller's frame after the return.
LEMMA ResumedIs ==
  ASSUME NEW f \in FrameType, NEW V \in Seq(OperandType), NEW H, H = Resumed(f, V)
  PROVE  H \in FrameType /\ H.vals = V /\ H.spent = <<>> /\ H.unit = f.unit /\ Resembles(f, H)
<1>1. PICK S : S = <<>>
  OBVIOUS
<1>2. S \in Seq(Addr) /\ H = [f EXCEPT !.spent = S, !.vals = V]
  BY <1>1 DEF Resumed
<1>3. /\ H \in FrameType /\ H.vals = V /\ H.spent = S /\ H.unit = f.unit /\ H.blocks = f.blocks /\ H.loops = f.loops
      /\ H.transient = f.transient /\ H.scratch = f.scratch
  BY <1>2 DEF FrameType
<1> QED
  BY <1>1, <1>3 DEF Resembles

\* What the caller spent goes and the answer comes.
Splits(f, H, t, a) ==
  \E w, x, p \in Nat : /\ Weight(f, a) = w + p /\ Weight(H, a) = w + x
                       /\ Cardinality(OwnVals(t, a)) = x /\ Cardinality(Places(f.spent, a)) = p

\* What a caller claims after the return: no spent argument, and the answer.
LEMMA ResumedWeighs ==
  ASSUME NEW f \in FrameType, NEW H \in FrameType, Resembles(f, H), H.spent = <<>>,
         NEW t \in Seq(OperandType), t = <<>> \/ \E v \in OperandType : t = <<v>>, H.vals = f.vals \o t, NEW a
  PROVE  Splits(f, H, t, a)
<1>1. PICK b, v, x, p, l : /\ b = Cardinality(OwnBlocks(f.blocks, a)) /\ v = Cardinality(OwnVals(f.vals, a))
                           /\ x = Cardinality(OwnVals(t, a)) /\ p = Cardinality(Places(f.spent, a))
                           /\ l = Cardinality(OwnLoops(f.loops, a))
  OBVIOUS
<1>2. f.blocks \in Seq(BlockType) /\ f.vals \in Seq(OperandType) /\ f.spent \in Seq(Addr) /\ f.loops \in Seq(LoopType)
  BY FrameParts
<1>3. b \in Nat /\ v \in Nat /\ x \in Nat /\ p \in Nat /\ l \in Nat
  BY <1>1, <1>2, BlocksFinite, CountsFinite
<1>4. Cardinality(OwnVals(H.vals, a)) = v + x
  BY <1>1, <1>2, Concatenated
<1>5. Cardinality(Places(H.spent, a)) = 0
  BY CountsEmpty
<1>6. Weight(f, a) = b + v + p + l
  BY <1>1, WeightIs
<1>7. Weight(H, a) = b + (v + x) + 0 + l
  BY <1>1, <1>4, <1>5, WeightIs DEF Resembles
<1>8. PICK w : w = b + v + l
  OBVIOUS
<1>9. w \in Nat /\ Weight(f, a) = w + p /\ Weight(H, a) = w + x
  BY <1>3, <1>6, <1>7, <1>8
<1> QED
  BY <1>1, <1>3, <1>9 DEF Splits

\* What a function answers with belongs to its caller.
Answers(t) ==
  /\ t \in Seq(OperandType) /\ (t = <<>> \/ \E v \in OperandType : t = <<v>>)
  /\ \A k \in DOMAIN t : t[k].st = "own" /\ mem'[t[k].ref] # "none"

\* The claims on the stack, and on what a return leaves of it.
Stacked(base, C, H) ==
  /\ \A a : Total(frames, a) = Total(base, a) + Weight(C, a) + Weight(F, a)
  /\ \A a : Total(frames', a) = Total(base, a) + Weight(H, a)
  /\ \A a : Total(base, a) \in Nat

\* The stack after a return.
Returned(N, H) ==
  /\ frames' \in Seq(FrameType) /\ Len(frames') = N - 1 /\ DOMAIN frames' = 1 .. N - 1
  /\ N - 1 \in DOMAIN frames' /\ frames'[N - 1] = H
  /\ \A g \in 1 .. N - 2 : g \in DOMAIN frames /\ g \in DOMAIN frames' /\ frames'[g] = frames[g]

\* The running frame and the one it returns to.
LEMMA TwoFrames ==
  ASSUME frames \in Seq(FrameType), NEW N, N = Len(frames), N > 1,
         NEW C, C = frames[N - 1], NEW base, base = SubSeq(frames, 1, N - 2), NEW H \in FrameType,
         frames' = Append(base, H)
  PROVE  N - 1 \in Nat \ {0} /\ N - 1 \in DOMAIN frames /\ C \in FrameType /\ Stacked(base, C, H) /\ Returned(N, H)
<1>1. /\ N \in Nat /\ N - 1 \in 1 .. N /\ N - 2 \in 0 .. N /\ N - 2 \in Nat /\ (N - 2) + 1 = N - 1 /\ N - 1 \in Nat \ {0}
      /\ DOMAIN frames = 1 .. N /\ frames # <<>>
  OBVIOUS
<1>2. /\ base \in Seq(FrameType) /\ Len(base) = N - 2 /\ DOMAIN base = 1 .. N - 2
      /\ \A g \in 1 .. N - 2 : base[g] = frames[g] /\ g \in 1 .. N
  BY <1>1, PrefixFacts
<1>3. C \in FrameType /\ N - 1 \in DOMAIN frames
  BY <1>1
<1>4. /\ F \in FrameType /\ Under \in Seq(FrameType) /\ frames = Append(Under, F) /\ Len(Under) = N - 1
      /\ \A g \in 1 .. N - 1 : Under[g] = frames[g]
  BY <1>1, Decomposed
<1>5. /\ Append(base, C) \in Seq(FrameType) /\ Len(Append(base, C)) = N - 1
      /\ Append(base, C)[N - 1] = C /\ \A g \in 1 .. N - 2 : Append(base, C)[g] = base[g]
  <2>1. /\ Append(base, C) \in Seq(FrameType) /\ Len(Append(base, C)) = Len(base) + 1
        /\ Append(base, C)[Len(base) + 1] = C /\ \A g \in 1 .. Len(base) : Append(base, C)[g] = base[g]
    BY <1>2, <1>3, AppendFacts
  <2> QED
    BY <1>1, <1>2, <2>1
<1>6. Under = Append(base, C)
  <2>1. PICK W : W = Append(base, C)
    OBVIOUS
  <2>2. \A g \in 1 .. N - 1 : g \in 1 .. N - 2 \/ g = N - 1
    BY <1>1
  <2>3. \A g \in 1 .. N - 1 : Under[g] = W[g]
    BY <1>1, <1>2, <1>4, <1>5, <2>1, <2>2, SMTT(30)
  <2>4. W \in Seq(FrameType) /\ Len(W) = N - 1
    BY <1>5, <2>1
  <2>5. Under = W
    BY <1>1, <1>4, <2>3, <2>4, SeqEqual
  <2> QED
    BY <2>1, <2>5
<1>7. \A a : Total(frames, a) = Total(base, a) + Weight(C, a) + Weight(F, a)
  <2>1. TAKE a
  <2>2. Total(Append(Under, F), a) = Total(Under, a) + Weight(F, a)
    BY <1>4, TotalAppend
  <2>3. Total(Append(base, C), a) = Total(base, a) + Weight(C, a)
    BY <1>2, <1>3, TotalAppend
  <2>4. Total(frames, a) = Total(Under, a) + Weight(F, a)
    BY <1>4, <2>2
  <2>5. Total(Under, a) = Total(base, a) + Weight(C, a)
    BY <1>6, <2>3
  <2> QED
    BY <2>4, <2>5
<1>8. \A a : Total(frames', a) = Total(base, a) + Weight(H, a)
  <2>1. TAKE a
  <2>2. Total(Append(base, H), a) = Total(base, a) + Weight(H, a)
    BY <1>2, TotalAppend
  <2> QED
    BY <2>2
<1>9. \A a : Total(base, a) \in Nat
  BY <1>2, TotalFinite
<1>10. /\ frames' \in Seq(FrameType) /\ Len(frames') = N - 1 /\ DOMAIN frames' = 1 .. N - 1
       /\ frames'[N - 1] = H
       /\ \A g \in 1 .. N - 2 : frames'[g] = base[g]
  <2>1. /\ Append(base, H) \in Seq(FrameType) /\ Len(Append(base, H)) = Len(base) + 1
        /\ DOMAIN Append(base, H) = 1 .. Len(base) + 1
        /\ Append(base, H)[Len(base) + 1] = H /\ \A g \in 1 .. Len(base) : Append(base, H)[g] = base[g]
    BY <1>2, AppendFacts
  <2> QED
    BY <1>1, <1>2, <2>1
<1>11. N - 1 \in 1 .. N - 1 /\ \A g \in 1 .. N - 2 : g \in 1 .. N - 1
  BY <1>1
<1>12. Stacked(base, C, H)
  BY <1>7, <1>8, <1>9 DEF Stacked
<1>13. \A g \in 1 .. N - 2 : g \in DOMAIN frames /\ g \in DOMAIN frames' /\ frames'[g] = frames[g]
  BY <1>1, <1>2, <1>10, <1>11
<1>14. Returned(N, H)
  BY <1>10, <1>11, <1>13 DEF Returned
<1> QED
  BY <1>1, <1>3, <1>12, <1>14

\* The arithmetic of a return to a caller.
LEMMA ReturnParts ==
  ASSUME NEW s \in Int, NEW u \in Int, NEW w \in Nat, NEW x \in Nat, NEW r \in Nat, NEW o \in Nat,
         NEW k \in Nat, NEW p \in Nat, NEW b \in Nat, u + w = s + x + r + o
  PROVE  u + (b + (k + p) + w) = s + (b + (k + x)) + (r + p) + o
OBVIOUS

\* The accounts of a return to a caller.
LEMMA BackBills ==
  ASSUME NEW r0, NEW t \in Seq(OperandType), NEW over, Quits(r0, t, over), NEW S \in Seq(Addr), r0 \in Seq(Addr),
         NEW C \in FrameType, NEW H \in FrameType, Resembles(C, H), H.spent = <<>>, C.spent = S,
         t = <<>> \/ \E v \in OperandType : t = <<v>>, H.vals = C.vals \o t,
         NEW base, Stacked(base, C, H)
  PROVE  Bills(r0 \o S, over)
<1>1. ASSUME NEW a \in Addr, mem'[a] = "heap"
      PROVE  Stock(a)' + Total(frames, a) = Stock(a) + Total(frames', a) + Cardinality(Places(r0 \o S, a)) + over[a]
  <2>1. PICK s, u \in Int : \E w, x, r, o \in Nat :
          /\ Stock(a) = s /\ Stock(a)' = u /\ Weight(F, a) = w /\ Cardinality(OwnVals(t, a)) = x
          /\ Cardinality(Places(r0, a)) = r /\ over[a] = o
          /\ u + w = s + x + r + o
    BY <1>1 DEF Quits
  <2>2. PICK w, x, r, o \in Nat :
          /\ Stock(a) = s /\ Stock(a)' = u /\ Weight(F, a) = w /\ Cardinality(OwnVals(t, a)) = x
          /\ Cardinality(Places(r0, a)) = r /\ over[a] = o
          /\ u + w = s + x + r + o
    BY <2>1
  <2>3. PICK k, y, p \in Nat : /\ Weight(C, a) = k + p /\ Weight(H, a) = k + y
                               /\ Cardinality(OwnVals(t, a)) = y /\ Cardinality(Places(C.spent, a)) = p
    <3>1. Splits(C, H, t, a)
      BY ResumedWeighs
    <3> QED
      BY <3>1 DEF Splits
  <2>4. y = x
    BY <2>2, <2>3
  <2>5. PICK b \in Nat : b = Total(base, a)
    BY DEF Stacked
  <2>6. Cardinality(Places(r0 \o S, a)) = r + p
    BY <2>2, <2>3, PlacesConcat
  <2>7. Total(frames, a) = b + (k + p) + w /\ Total(frames', a) = b + (k + x)
    BY <2>2, <2>3, <2>4, <2>5 DEF Stacked
  <2>8. u + (b + (k + p) + w) = s + (b + (k + x)) + (r + p) + o
    <3>1. u + w = s + x + r + o
      BY <2>2
    <3> QED
      BY <3>1, ReturnParts
  <2> QED
    BY <2>2, <2>6, <2>7, <2>8
<1> QED
  BY <1>1 DEF Bills

\* A return to a caller keeps the invariant.
LEMMA BackStep ==
  ASSUME Core, Running, lifted' = lifted, HeapStep, BuiltAlone, NEW released \in Seq(Addr),
         \A k \in DOMAIN released : mem[released[k]] # "none",
         NEW t, Answers(t), NEW over, Abandons(over), Quits(released, t, over), Exit(released, t), Len(frames) > 1
  PROVE  Core'
<1>1. PICK N, C, base, V, S : /\ N = Len(frames) /\ C = frames[N - 1] /\ base = SubSeq(frames, 1, N - 2)
                              /\ V = C.vals \o t /\ S = C.spent
  OBVIOUS
<1>2. PICK H : H = Resumed(C, V)
  OBVIOUS
<1>3. /\ frames' = Append(base, [C EXCEPT !.spent = <<>>, !.vals = @ \o t])
      /\ IF C.transient THEN due' = released /\ Lose(S) ELSE due' = released \o S /\ UNCHANGED lost
  BY <1>1 DEF Exit, BackTo
<1>4. /\ frames \in Seq(FrameType) /\ due = <<>> /\ t \in Seq(OperandType)
      /\ t = <<>> \/ \E v \in OperandType : t = <<v>>
  BY DEF Core, Typed, Running, Answers
<1>5. N \in Nat /\ N - 1 \in 1 .. N /\ N - 1 \in DOMAIN frames /\ C \in FrameType /\ N > 1
  BY <1>1, <1>4
<1>6. C.vals \in Seq(OperandType) /\ S \in Seq(Addr) /\ C.transient \in BOOLEAN
  BY <1>1, <1>5, FrameParts
<1>7. V \in Seq(OperandType)
  BY <1>1, <1>4, <1>6, Concatenated
<1>8. H \in FrameType /\ H.vals = V /\ H.spent = <<>> /\ H.unit = C.unit /\ Resembles(C, H)
  BY <1>2, <1>5, <1>7, ResumedIs
<1>9. frames' = Append(base, H)
  <2>1. [C EXCEPT !.spent = <<>>, !.vals = @ \o t] = H
    BY <1>1, <1>2, <1>5 DEF Resumed, FrameType
  <2> QED
    BY <1>3, <2>1
<1>10. /\ N - 1 \in Nat \ {0} /\ Stacked(base, C, H)
       /\ frames' \in Seq(FrameType) /\ Len(frames') = N - 1 /\ DOMAIN frames' = 1 .. N - 1
       /\ N - 1 \in DOMAIN frames' /\ frames'[N - 1] = H
       /\ \A g \in 1 .. N - 2 : g \in DOMAIN frames /\ g \in DOMAIN frames' /\ frames'[g] = frames[g]
  <2>1. N - 1 \in Nat \ {0} /\ Stacked(base, C, H) /\ Returned(N, H)
    BY <1>1, <1>4, <1>5, <1>8, <1>9, TwoFrames
  <2> QED
    BY <2>1 DEF Returned
<1>11. FrameOK(N - 1) /\ Lives(C)
  BY <1>1, <1>5 DEF Core, FrameOK
<1>12. released \o S \in Seq(Addr) /\ Dropped(released \o S)
  <2>1. \A k \in DOMAIN S : mem[S[k]] # "none"
    BY <1>1, <1>11 DEF Lives
  <2>2. PICK c \in BOOLEAN : c = C.transient
    BY <1>6
  <2>3. IF c THEN due' = released /\ Lose(S) ELSE due' = released \o S /\ lost' = lost
    BY <1>3, <2>2
  <2> QED
    BY <1>4, <1>6, <2>1, <2>3, ExitDrops
<1>13. Bills(released \o S, over)
  <2>1. H.vals = C.vals \o t /\ C.spent = S
    BY <1>1, <1>8
  <2> QED
    BY <1>4, <1>5, <1>6, <1>8, <1>10, <2>1, BackBills
<1>14. Firm /\ Grows /\ Typed' /\ Counts' /\ Dues' /\ \A n \in DOMAIN frames : Remains(n)
  <2>1. PICK refs : refs = released \o S
    OBVIOUS
  <2>2. refs \in Seq(Addr) /\ Dropped(refs) /\ Bills(refs, over)
    BY <1>12, <1>13, <2>1
  <2> QED
    BY <1>10, <2>2, StackStep
<1>15. \A g \in 1 .. N - 2 : FrameOK(g)'
  <2>1. PICK m : m = N - 2
    OBVIOUS
  <2>2. /\ m \in Nat /\ Len(frames') > m /\ Len(frames) > m /\ Len(frames) \in Nat /\ Len(frames') \in Nat
        /\ DOMAIN frames' = 1 .. Len(frames')
    BY <1>1, <1>5, <1>10, <2>1
  <2>3. \A g \in 1 .. m : g \in DOMAIN frames /\ g \in DOMAIN frames' /\ frames'[g] = frames[g] /\ Remains(g)
    BY <1>10, <1>14, <2>1
  <2>4. \A g \in 1 .. m : FrameOK(g)'
    BY <1>14, <2>2, <2>3, KeptBelow
  <2> QED
    BY <2>1, <2>4
<1>16. PICK M : M = N - 1
  OBVIOUS
<1>17. FrameOK(M)'
  <2>1. SameBelow(M)
    <3>1. (N - 1) - 1 = N - 2
      BY <1>5
    <3> QED
      BY <1>10, <1>16, <3>1 DEF SameBelow
  <2>2. Standing(C)
    <3>1. M < Len(frames) /\ Waiting(M)
      BY <1>1, <1>5, <1>11, <1>16 DEF FrameOK
    <3> QED
      BY <1>1, <1>16, <3>1 DEF Waiting, Standing
  <2>3. Handed(C, H)
    <3>1. ASSUME NEW k \in DOMAIN V
          PROVE  (\E j \in DOMAIN C.vals : C.vals[j] = V[k]) \/ (V[k].st = "own" /\ mem'[V[k].ref] # "none")
      <4>1. PICK p, q : p = Len(C.vals) /\ q = Len(t)
        OBVIOUS
      <4>2. p \in Nat /\ q \in Nat /\ DOMAIN V = 1 .. p + q /\ DOMAIN C.vals = 1 .. p /\ DOMAIN t = 1 .. q
        BY <1>1, <1>4, <1>6, <4>1
      <4>3. CASE k <= p
        <5>1. V[k] = C.vals[k] /\ k \in DOMAIN C.vals
          BY <1>1, <1>4, <1>6, <4>1, <4>2, <4>3
        <5> QED
          BY <5>1
      <4>4. CASE ~(k <= p)
        <5>1. V[k] = t[k - p] /\ k - p \in DOMAIN t
          BY <1>1, <1>4, <1>6, <4>1, <4>2, <4>4
        <5> QED
          BY <5>1 DEF Answers
      <4> QED
        BY <4>3, <4>4
    <3>2. DOMAIN H.spent = {}
      BY <1>8
    <3> QED
      BY <1>8, <3>1, <3>2 DEF Handed
  <2>4. M \in DOMAIN frames /\ M \in DOMAIN frames' /\ frames'[M] = H /\ C = frames[M]
    BY <1>1, <1>5, <1>10, <1>16
  <2> QED
    BY <1>8, <1>10, <1>14, <2>1, <2>2, <2>3, <2>4, FrameKept
<1>18. Bottom'
  <2>1. frames'[1].unit = frames[1].unit
    <3>1. CASE M = 1
      BY <1>1, <1>8, <1>10, <1>16, <3>1
    <3>2. CASE M # 1
      <4>1. 1 \in 1 .. N - 2
        BY <1>5, <1>16, <3>2
      <4> QED
        BY <1>10, <4>1
    <3> QED
      BY <3>1, <3>2
  <2>2. frames # <<>> /\ frames[1].unit
    BY DEF Core, Bottom, Running
  <2> QED
    BY <1>8, <1>10, <2>1, <2>2 DEF Bottom
<1>19. \A g \in DOMAIN frames' : FrameOK(g)'
  <2>1. \A g \in 1 .. N - 1 : g \in 1 .. N - 2 \/ g = M
    BY <1>5, <1>16
  <2> QED
    BY <1>10, <1>15, <1>17, <2>1
<1> QED
  BY <1>14, <1>18, <1>19 DEF Core, HeapStep

\* Leaving the first frame keeps the invariant.
LEMMA LastStep ==
  ASSUME Core, Running, lifted' = lifted, HeapStep, NEW released \in Seq(Addr),
         \A k \in DOMAIN released : mem[released[k]] # "none",
         NEW t, t = <<>>, NEW over, Abandons(over), Quits(released, t, over), Exit(released, t), ~(Len(frames) > 1)
  PROVE  Core'
<1>1. frames' = <<>> /\ Release(released)
  BY DEF Exit
<1>2. frames \in Seq(FrameType) /\ frames # <<>> /\ due = <<>>
  BY DEF Core, Typed, Running
<1>3. /\ F \in FrameType /\ Under \in Seq(FrameType) /\ frames = Append(Under, F) /\ Len(Under) = Len(frames) - 1
      /\ Len(frames) \in Nat \ {0}
  BY <1>2, Decomposed
<1>4. Under = <<>>
  <2>1. Len(Under) = 0
    BY <1>3
  <2> QED
    BY <1>3, <2>1
<1>5. Dropped(released)
  BY <1>1, <1>2, ReleaseDrops
<1>6. Bills(released, over)
  <2>1. ASSUME NEW a \in Addr, mem'[a] = "heap"
        PROVE  Stock(a)' + Total(frames, a) = Stock(a) + Total(frames', a) + Cardinality(Places(released, a)) + over[a]
    <3>1. PICK s, u \in Int : \E w, x, r, o \in Nat :
          /\ Stock(a) = s /\ Stock(a)' = u /\ Weight(F, a) = w /\ Cardinality(OwnVals(t, a)) = x
          /\ Cardinality(Places(released, a)) = r /\ over[a] = o
          /\ u + w = s + x + r + o
      BY <2>1 DEF Quits
    <3>2. PICK w, x, r, o \in Nat :
          /\ Stock(a) = s /\ Stock(a)' = u /\ Weight(F, a) = w /\ Cardinality(OwnVals(t, a)) = x
          /\ Cardinality(Places(released, a)) = r /\ over[a] = o
          /\ u + w = s + x + r + o
      BY <3>1
    <3>3. x = 0
      BY <3>2, CountsEmpty
    <3>4. Total(frames, a) = 0 + w
      <4>1. Total(Append(Under, F), a) = Total(Under, a) + Weight(F, a)
        BY <1>3, TotalAppend
      <4>2. Total(Under, a) = 0
        BY <1>4, TotalEmpty
      <4> QED
        BY <1>3, <3>2, <4>1, <4>2
    <3>5. Total(frames', a) = 0
      BY <1>1, TotalEmpty
    <3>6. u + (0 + w) = s + 0 + r + o
      BY <3>2, <3>3
    <3> QED
      BY <3>2, <3>4, <3>5, <3>6
  <2> QED
    BY <2>1 DEF Bills
<1>7. Typed' /\ Counts' /\ Dues'
  <2>1. frames' \in Seq(FrameType)
    BY <1>1
  <2> QED
    BY <1>5, <1>6, <2>1, StackStep
<1> QED
  BY <1>1, <1>7 DEF Core, HeapStep, Bottom

\* Leaving a function keeps the invariant, where what it claims is released,
\* answered or abandoned.
LEMMA ExitStep ==
  ASSUME Core, Running, lifted' = lifted, HeapStep, BuiltAlone, NEW released \in Seq(Addr),
         \A k \in DOMAIN released : mem[released[k]] # "none",
         NEW t, Answers(t), ~(Len(frames) > 1) => t = <<>>,
         NEW over, Abandons(over), Quits(released, t, over), Exit(released, t)
  PROVE  Core'
BY BackStep, LastStep

\* What the running frame claims, its operands being `v` at most.
LEMMA RunningWeighs ==
  ASSUME Core, Running, NEW f, f = F, NEW a
  PROVE  /\ Cardinality(OwnBlocks(f.blocks, a)) \in Nat /\ Cardinality(OwnLoops(f.loops, a)) \in Nat
         /\ Cardinality(OwnVals(f.vals, a)) \in Nat
         /\ Weight(F, a) = Cardinality(OwnBlocks(f.blocks, a)) + Cardinality(OwnVals(f.vals, a))
                             + Cardinality(OwnLoops(f.loops, a))
<1>1. /\ f \in FrameType /\ f.spent = <<>> /\ f.blocks \in Seq(BlockType) /\ f.vals \in Seq(OperandType)
      /\ f.loops \in Seq(LoopType)
  BY Going
<1>2. PICK b, v, l : b = Cardinality(OwnBlocks(f.blocks, a)) /\ v = Cardinality(OwnVals(f.vals, a))
                     /\ l = Cardinality(OwnLoops(f.loops, a))
  OBVIOUS
<1>3. b \in Nat /\ v \in Nat /\ l \in Nat
  BY <1>1, <1>2, BlocksFinite, CountsFinite
<1>4. Cardinality(Places(f.spent, a)) = 0
  BY <1>1, CountsEmpty
<1>5. Weight(F, a) = b + v + 0 + l
  BY <1>1, <1>2, <1>4, WeightIs
<1> QED
  BY <1>2, <1>3, <1>5

\* The loops of a frame that is left with arrays of its own to release.
Walked(f) == [a \in Addr |-> Cardinality(OwnLoops(f.loops, a))]

\* A return abandons the arrays of the loops it leaves, and none without a
\* hazard.
LEMMA WalkedAbandons ==
  ASSUME Core, Running, Lift("loopReturn", NoLoopArray), NEW f, f = F
  PROVE  Abandons(Walked(f)) /\ \A a \in Addr : Walked(f)[a] = Cardinality(OwnLoops(f.loops, a))
<1>1. f.loops \in Seq(LoopType)
  BY Going
<1>2. \A a \in Addr : Walked(f)[a] = Cardinality(OwnLoops(f.loops, a)) /\ Cardinality(OwnLoops(f.loops, a)) \in Nat
  BY <1>1, CountsFinite DEF Walked
<1>3. ASSUME lifted = {}, NEW a \in Addr
      PROVE  Walked(f)[a] = 0
  <2>1. NoLoopArray
    BY <1>3 DEF Lift
  <2>2. OwnLoops(f.loops, a) = {}
    BY <1>1, <2>1 DEF NoLoopArray, OwnLoops
  <2> QED
    BY <1>2, <2>2, FS_EmptySet
<1>4. Walked(f) \in [Addr -> Nat]
  BY <1>1, CountsFinite DEF Walked
<1> QED
  BY <1>2, <1>3, <1>4 DEF Abandons

\* release_all_open releases what the blocks own, where each name resolves to
\* its owner.
LEMMA AllOwned ==
  ASSUME Core, Running, \A s \in Sites : Bound(s).own => Resolve(Bound(s).name) = s, NEW f, f = F
  PROVE  /\ AllOpen \in Seq(Addr) /\ \A k \in DOMAIN AllOpen : mem[AllOpen[k]] # "none"
         /\ \A a : Cardinality(Places(AllOpen, a)) = Cardinality(OwnBlocks(f.blocks, a))
<1>1. PICK S : S = {r \in Addr : mem[r] # "none"}
  OBVIOUS
<1>2. f.blocks \in Seq(BlockType) /\ f \in FrameType /\ Shape(f) /\ Lives(f)
  BY Going
<1>3. ASSUME NEW b \in DOMAIN F.blocks, NEW k \in DOMAIN F.blocks[b].names, F.blocks[b].names[k].own
      PROVE  /\ Holds(F.blocks[b].names[k].name) = F.blocks[b].names[k].ref
             /\ F.blocks[b].names[k].ref \in S
  <2>1. <<b, k>> \in Sites
    BY <1>2, SitesAre
  <2>2. Bound(<<b, k>>) = F.blocks[b].names[k]
    BY DEF Bound
  <2>3. Resolve(F.blocks[b].names[k].name) = <<b, k>>
    BY <1>3, <2>1, <2>2
  <2>4. Holds(F.blocks[b].names[k].name) = F.blocks[b].names[k].ref
    BY <2>2, <2>3 DEF Holds
  <2>5. f.blocks[b].names[k].ref \in Addr \cup {Null} /\ f.blocks[b].names[k].ref # Null
    BY <1>2, <1>3, FrameParts DEF Shape
  <2>6. mem[f.blocks[b].names[k].ref] # "none"
    BY <1>2, <1>3 DEF Lives, LiveName
  <2> QED
    BY <1>1, <2>4, <2>5, <2>6
<1>4. \A a : AllOpen \in Seq(S) /\ Cardinality(Places(AllOpen, a)) = Cardinality(OwnBlocks(f.blocks, a))
  BY <1>2, <1>3, AllOpenIs
<1>5. AllOpen \in Seq(S)
  BY <1>4
<1>6. S \subseteq Addr /\ \A r \in S : mem[r] # "none"
  BY <1>1
<1>7. PICK t : t = AllOpen
  OBVIOUS
<1>8. t \in Seq(Addr) /\ \A k \in DOMAIN t : mem[t[k]] # "none"
  BY <1>5, <1>6, <1>7
<1> QED
  BY <1>4, <1>7, <1>8

\* A return's answer is handed over.
LEMMA OneAnswer ==
  ASSUME NEW r \in Addr, mem'[r] # "none", NEW t, t = <<Operand(r, "own")>>
  PROVE  Answers(t) /\ \A a : Cardinality(OwnVals(t, a)) = One(r = a)
<1>1. PICK v : v = Operand(r, "own")
  OBVIOUS
<1>2. v \in OperandType /\ v.ref = r /\ v.st = "own"
  BY <1>1 DEF Operand, OperandType
<1>3. t = <<v>> /\ t \in Seq(OperandType) /\ \A k \in DOMAIN t : t[k] = v
  BY <1>1, <1>2
<1>4. Answers(t)
  BY <1>2, <1>3 DEF Answers
<1>5. ASSUME NEW a
      PROVE  Cardinality(OwnVals(t, a)) = One(r = a)
  <2>1. t = Append(<<>>, v) /\ <<>> \in Seq(OperandType)
    BY <1>3
  <2>2. Cardinality(OwnVals(Append(<<>>, v), a)) = Cardinality(OwnVals(<<>>, a)) + Gives(v, a)
    BY <1>2, <2>1, ValsAppend
  <2>3. Cardinality(OwnVals(<<>>, a)) = 0
    BY CountsEmpty
  <2>4. Gives(v, a) = One(r = a) /\ One(r = a) \in {0, 1}
    BY <1>2 DEF Gives, One
  <2> QED
    BY <2>1, <2>2, <2>3, <2>4
<1> QED
  BY <1>4, <1>5

\* The arithmetic of a return with a value.
LEMMA ReturnMoves ==
  ASSUME NEW s \in Int, NEW u \in Int, NEW b \in Nat, NEW l \in Nat, NEW g \in Nat, NEW x \in Nat, u + g = s + x
  PROVE  u + (b + g + l) = s + x + b + l
OBVIOUS

\* return with a value keeps the invariant: the value is counted for the caller
\* before the open blocks are released (gen_stmt Return).
LEMMA ReturnStep ==
  ASSUME Core, lifted \subseteq Leaks, lifted' = lifted, Return
  PROVE  Core'
<1>1. PICK f, v, t, refs, over : /\ f = F /\ v = Top(F.vals) /\ t = <<Operand(v.ref, "own")>>
                                 /\ refs = AllOpen /\ over = Walked(f)
  OBVIOUS
<1>2. /\ Whole /\ ~f.unit /\ Lift("loopReturn", NoLoopArray)
      /\ Lift("shadowReturn", \A s \in Sites : Bound(s).own => Resolve(Bound(s).name) = s)
      /\ RetainIf(v.st = "borrow", v.ref) /\ Exit(refs, t)
      /\ mem' = mem /\ body' = body /\ dropping' = dropping /\ payload' = payload
  BY <1>1 DEF Return
<1>3. \A s \in Sites : Bound(s).own => Resolve(Bound(s).name) = s
  BY <1>2, Safe
<1>4. /\ Statement /\ Done /\ Running /\ v.ref \in Addr /\ mem[v.ref] # "none"
      /\ \A a : Cardinality(OwnVals(f.vals, a)) = Gives(v, a)
  <2>1. PICK N : N = Len(frames)
    OBVIOUS
  <2> QED
    BY <1>1, <1>2, <2>1, WholeFacts
<1>5. /\ HeapStep /\ BuiltAlone
      /\ \A a \in Addr : mem'[a] = "heap" => Stock(a)' + Gives(v, a) = Stock(a) + One(v.ref = a)
  BY <1>1, <1>2, <1>4, RetainedTaken
<1>6. /\ refs \in Seq(Addr) /\ \A k \in DOMAIN refs : mem[refs[k]] # "none"
      /\ \A a : Cardinality(Places(refs, a)) = Cardinality(OwnBlocks(f.blocks, a))
  BY <1>1, <1>3, <1>4, AllOwned
<1>7. Answers(t) /\ \A a : Cardinality(OwnVals(t, a)) = One(v.ref = a)
  BY <1>1, <1>2, <1>4, OneAnswer
<1>8. Abandons(over) /\ \A a \in Addr : over[a] = Cardinality(OwnLoops(f.loops, a))
  BY <1>1, <1>2, <1>4, WalkedAbandons
<1>9. Quits(refs, t, over)
  <2>1. ASSUME NEW a \in Addr, mem'[a] = "heap"
        PROVE  \E s, u \in Int : \E w, x, r, o \in Nat :
                 /\ Stock(a) = s /\ Stock(a)' = u /\ Weight(F, a) = w /\ Cardinality(OwnVals(t, a)) = x
                 /\ Cardinality(Places(refs, a)) = r /\ over[a] = o
                 /\ u + w = s + x + r + o
    <3>1. PICK s, u, b, l, g, x : /\ s = Stock(a) /\ u = Stock(a)' /\ b = Cardinality(OwnBlocks(f.blocks, a))
                                  /\ l = Cardinality(OwnLoops(f.loops, a)) /\ g = Gives(v, a) /\ x = One(v.ref = a)
      OBVIOUS
    <3>2. s \in Int /\ u \in Int
      BY <1>5, <3>1, StockInt, StockIntNext DEF HeapStep, Core, Typed
    <3>3. b \in Nat /\ l \in Nat /\ g \in Nat /\ x \in Nat
      <4>1. g \in {0, 1} /\ x \in {0, 1}
        BY <3>1, GivesIs
      <4> QED
        BY <1>1, <1>4, <3>1, <4>1, RunningWeighs
    <3>4. u + g = s + x
      BY <1>5, <2>1, <3>1
    <3>5. Weight(F, a) = b + g + l
      BY <1>1, <1>4, <3>1, RunningWeighs
    <3>6. u + (b + g + l) = s + x + b + l
      BY <3>2, <3>3, <3>4, ReturnMoves
    <3>7. PICK w : w = b + g + l
      OBVIOUS
    <3>8. w \in Nat /\ u + w = s + x + b + l /\ Weight(F, a) = w
      BY <3>3, <3>5, <3>6, <3>7
    <3>9. Cardinality(OwnVals(t, a)) = x /\ Cardinality(Places(refs, a)) = b /\ over[a] = l
      BY <1>6, <1>7, <1>8, <3>1
    <3> QED
      BY <3>1, <3>2, <3>3, <3>8, <3>9, ZenonT(60)
  <2> QED
    BY <2>1 DEF Quits
<1>10. Len(frames) > 1
  <2>1. frames \in Seq(FrameType) /\ frames # <<>> /\ frames[1].unit
    BY <1>4 DEF Core, Typed, Bottom, Running
  <2>2. ~F.unit
    BY <1>1, <1>2
  <2>3. Len(frames) # 1
    BY <2>1, <2>2 DEF F
  <2>4. Len(frames) \in Nat /\ Len(frames) # 0
    BY <2>1
  <2>5. PICK n : n = Len(frames)
    OBVIOUS
  <2>6. n \in Nat /\ n # 0 /\ n # 1
    BY <2>3, <2>4, <2>5
  <2>7. n > 1
    BY <2>6
  <2> QED
    BY <2>5, <2>7
<1> QED
  BY <1>2, <1>4, <1>5, <1>6, <1>7, <1>8, <1>9, <1>10, ExitStep

\* What goes with a frame that releases nothing.
Left(f) == [a \in Addr |-> Cardinality(OwnBlocks(f.blocks, a)) + Cardinality(OwnLoops(f.loops, a))]

\* A bare return abandons what is open, and nothing without a hazard.
LEMMA LeftAbandons ==
  ASSUME Core, Running, Lift("loopReturn", NoLoopArray), Lift("bareReturn", NothingOwned(0)), NEW f, f = F
  PROVE  Abandons(Left(f))
<1>1. f.loops \in Seq(LoopType) /\ f.blocks \in Seq(BlockType)
  BY Going
<1>2. ASSUME NEW a \in Addr
      PROVE  /\ Cardinality(OwnBlocks(f.blocks, a)) \in Nat /\ Cardinality(OwnLoops(f.loops, a)) \in Nat
             /\ Cardinality(OwnBlocks(f.blocks, a)) + Cardinality(OwnLoops(f.loops, a)) \in Nat
  <2>1. PICK b, l : b = Cardinality(OwnBlocks(f.blocks, a)) /\ l = Cardinality(OwnLoops(f.loops, a))
    OBVIOUS
  <2>2. b \in Nat /\ l \in Nat
    BY <1>1, <2>1, BlocksFinite, CountsFinite
  <2> QED
    BY <2>1, <2>2
<1>3. ASSUME lifted = {}, NEW a \in Addr
      PROVE  Left(f)[a] = 0
  <2>1. NoLoopArray /\ NothingOwned(0)
    BY <1>3 DEF Lift
  <2>2. OwnLoops(f.loops, a) = {}
    BY <1>1, <2>1 DEF NoLoopArray, OwnLoops
  <2>3. \A b \in DOMAIN F.blocks : Owned(b) = <<>>
    <3>1. DOMAIN F.blocks = 1 .. Len(F.blocks) /\ 0 + 1 = 1
      BY <1>1
    <3> QED
      BY <2>1, <3>1 DEF NothingOwned
  <2>4. \A b \in DOMAIN F.blocks : \A k \in DOMAIN F.blocks[b].names : ~F.blocks[b].names[k].own
    BY <1>1, <2>3, OwnedNone
  <2>5. OwnBlocks(f.blocks, a) = {}
    <3>1. PICK t : t = [b \in DOMAIN f.blocks |-> OwnNames(f.blocks[b].names, a)]
      OBVIOUS
    <3>2. \A b \in DOMAIN f.blocks : OwnNames(f.blocks[b].names, a) = {}
      BY <2>4 DEF OwnNames
    <3>3. DOMAIN t = DOMAIN f.blocks /\ \A b \in DOMAIN t : t[b] = {}
      BY <3>1, <3>2
    <3>4. Tagged(t) = {}
      BY <3>3 DEF Tagged
    <3> QED
      BY <3>1, <3>4 DEF OwnBlocks
  <2>6. Cardinality({}) = 0
    BY FS_EmptySet
  <2>7. Left(f)[a] = 0 + 0
    BY <2>2, <2>5, <2>6 DEF Left
  <2> QED
    BY <2>7
<1>4. Left(f) \in [Addr -> Nat]
  BY <1>2 DEF Left
<1> QED
  BY <1>3, <1>4 DEF Abandons

\* return with nothing keeps the invariant (gen_stmt Return).
LEMMA BareReturnStep ==
  ASSUME Core, lifted' = lifted, BareReturn
  PROVE  Core'
<1>1. PICK f, t, refs, over : f = F /\ t = <<>> /\ refs = <<>> /\ over = Left(f)
  OBVIOUS
<1>2. /\ Fresh /\ Lift("loopReturn", NoLoopArray) /\ Lift("bareReturn", NothingOwned(0)) /\ Exit(refs, t)
      /\ UNCHANGED <<heapVars, payload>>
  BY <1>1 DEF BareReturn
<1>3. Running /\ f.vals = <<>>
  BY <1>1, <1>2 DEF Fresh, Statement, Evaluating
<1>4. HeapStep /\ BuiltAlone /\ \A a \in Addr : Stock(a)' = Stock(a) /\ Stock(a) \in Int
  BY <1>2, <1>3, StillHeap
<1>5. Abandons(over)
  BY <1>1, <1>2, <1>3, LeftAbandons
<1>6. Quits(refs, t, over)
  <2>1. ASSUME NEW a \in Addr, mem'[a] = "heap"
        PROVE  \E s, u \in Int : \E w, x, r, o \in Nat :
                 /\ Stock(a) = s /\ Stock(a)' = u /\ Weight(F, a) = w /\ Cardinality(OwnVals(t, a)) = x
                 /\ Cardinality(Places(refs, a)) = r /\ over[a] = o
                 /\ u + w = s + x + r + o
    <3>1. PICK s, b, l : /\ s = Stock(a) /\ b = Cardinality(OwnBlocks(f.blocks, a))
                         /\ l = Cardinality(OwnLoops(f.loops, a))
      OBVIOUS
    <3>2. s \in Int /\ Stock(a)' = s /\ b \in Nat /\ l \in Nat
      BY <1>1, <1>3, <1>4, <3>1, RunningWeighs
    <3>3. Cardinality(OwnVals(f.vals, a)) = 0 /\ Cardinality(OwnVals(t, a)) = 0 /\ Cardinality(Places(refs, a)) = 0
      BY <1>1, <1>3, CountsEmpty
    <3>4. Weight(F, a) = b + 0 + l
      BY <1>1, <1>3, <3>1, <3>3, RunningWeighs
    <3>5. over[a] = b + l
      BY <1>1, <3>1 DEF Left
    <3>6. PICK w : w = b + l
      OBVIOUS
    <3>7. w \in Nat /\ Weight(F, a) = w /\ over[a] = w /\ s + w = s + 0 + 0 + w
      BY <3>2, <3>4, <3>5, <3>6
    <3> QED
      BY <3>1, <3>2, <3>3, <3>7
  <2> QED
    BY <2>1 DEF Quits
<1>7. Answers(t) /\ refs \in Seq(Addr) /\ \A k \in DOMAIN refs : mem[refs[k]] # "none"
  BY <1>1 DEF Answers
<1> QED
  BY <1>1, <1>2, <1>3, <1>4, <1>5, <1>6, <1>7, ExitStep

\* The end of a body keeps the invariant: its block is closed
\* (compile_to_executable).
LEMMA FallOffStep ==
  ASSUME Core, lifted' = lifted, FallOff
  PROVE  Core'
<1>1. PICK f, t, d, refs : f = F /\ t = <<>> /\ d = Len(F.blocks) /\ refs = Owned(d)
  OBVIOUS
<1>2. /\ Fresh /\ f.loops = <<>> /\ Block.kind = "fn" /\ Exit(Owned(1), t) /\ UNCHANGED <<heapVars, payload>>
  BY <1>1 DEF FallOff
<1>3. Running /\ f.vals = <<>>
  BY <1>1, <1>2 DEF Fresh, Statement, Evaluating
<1>4. HeapStep /\ BuiltAlone /\ \A a \in Addr : Stock(a)' = Stock(a) /\ Stock(a) \in Int
  BY <1>2, <1>3, StillHeap
<1>5. f.blocks \in Seq(BlockType) /\ f.blocks # <<>> /\ Shape(f)
  BY <1>1, <1>3, Going DEF Shape
<1>6. d = 1
  <2>1. d \in DOMAIN f.blocks /\ f.blocks[d].kind = "fn"
    BY <1>1, <1>2, <1>5, PopFacts DEF Block
  <2> QED
    BY <1>5, <2>1 DEF Shape
<1>7. /\ refs \in Seq(Addr) /\ \A k \in DOMAIN refs : mem[refs[k]] # "none"
      /\ \A a : Cardinality(Places(refs, a)) = NamesOwned(f.blocks[d].names, a)
  BY <1>1, <1>3, TopOwned
<1>8. \A a : Cardinality(OwnBlocks(f.blocks, a)) = Cardinality(Places(refs, a))
  <2>1. TAKE a
  <2>2. PICK B, x : B = Pop(f.blocks) /\ x = Top(f.blocks)
    OBVIOUS
  <2>3. B \in Seq(BlockType) /\ x \in BlockType /\ Len(B) = 0 /\ f.blocks = Append(B, x) /\ x = f.blocks[d]
    <3>1. /\ Top(f.blocks) \in BlockType /\ Pop(f.blocks) \in Seq(BlockType)
          /\ Len(Pop(f.blocks)) = Len(f.blocks) - 1 /\ f.blocks = Append(Pop(f.blocks), Top(f.blocks))
      BY <1>5, PopFacts
    <3>2. Len(f.blocks) = 1 /\ Top(f.blocks) = f.blocks[d]
      BY <1>1, <1>6 DEF Top
    <3> QED
      BY <2>2, <3>1, <3>2
  <2>4. Cardinality(OwnBlocks(B, a)) = 0
    <3>1. DOMAIN B = {}
      BY <2>3
    <3>2. PICK s : s = [b \in DOMAIN B |-> OwnNames(B[b].names, a)]
      OBVIOUS
    <3>3. Cardinality(Tagged(s)) = 0
      <4>1. DOMAIN s = {}
        BY <3>1, <3>2
      <4> QED
        BY <4>1, TaggedEmpty
    <3> QED
      BY <3>2, <3>3 DEF OwnBlocks
  <2>5. Cardinality(OwnBlocks(Append(B, x), a)) = Cardinality(OwnBlocks(B, a)) + NamesOwned(x.names, a)
    BY <2>3, BlocksAppend
  <2>6. NamesOwned(x.names, a) \in Nat
    <3>1. x.names \in Seq(EntryType)
      BY <2>3 DEF BlockType
    <3> QED
      BY <3>1, CountsFinite DEF NamesOwned
  <2>7. PICK p, q, y : /\ p = NamesOwned(x.names, a) /\ q = Cardinality(OwnBlocks(B, a))
                       /\ y = Cardinality(OwnBlocks(Append(B, x), a))
    OBVIOUS
  <2>8. p \in Nat /\ q = 0 /\ y = q + p
    BY <2>4, <2>5, <2>6, <2>7
  <2>9. y = p
    BY <2>8
  <2>10. Cardinality(OwnBlocks(f.blocks, a)) = NamesOwned(f.blocks[d].names, a)
    BY <2>3, <2>7, <2>9
  <2> QED
    BY <1>7, <2>10
<1>9. Quits(refs, t, Zero)
  <2>1. ASSUME NEW a \in Addr, mem'[a] = "heap"
        PROVE  \E s, u \in Int : \E w, x, r, o \in Nat :
                 /\ Stock(a) = s /\ Stock(a)' = u /\ Weight(F, a) = w /\ Cardinality(OwnVals(t, a)) = x
                 /\ Cardinality(Places(refs, a)) = r /\ Zero[a] = o
                 /\ u + w = s + x + r + o
    <3>1. PICK s, b : s = Stock(a) /\ b = Cardinality(OwnBlocks(f.blocks, a))
      OBVIOUS
    <3>2. s \in Int /\ Stock(a)' = s /\ b \in Nat
      BY <1>1, <1>3, <1>4, <3>1, RunningWeighs
    <3>3. Cardinality(OwnVals(f.vals, a)) = 0 /\ Cardinality(OwnVals(t, a)) = 0 /\ Cardinality(OwnLoops(f.loops, a)) = 0
      BY <1>1, <1>2, <1>3, CountsEmpty
    <3>4. Weight(F, a) = b + 0 + 0
      BY <1>1, <1>3, <3>1, <3>3, RunningWeighs
    <3>5. Weight(F, a) = b /\ s + b = s + 0 + b + 0
      BY <3>2, <3>4
    <3>6. Zero[a] = 0 /\ Cardinality(Places(refs, a)) = b
      BY <1>8, <3>1, ZeroAbandons
    <3> QED
      BY <3>1, <3>2, <3>3, <3>5, <3>6
  <2> QED
    BY <2>1 DEF Quits
<1>10. Answers(t) /\ Exit(refs, t) /\ Abandons(Zero)
  BY <1>1, <1>2, <1>6, ZeroAbandons DEF Answers
<1> QED
  BY <1>1, <1>3, <1>4, <1>7, <1>9, <1>10, ExitStep

----------------------------------------------------------------------------
\* While a release runs the program stands still: only the heap changes.

\* A step of a release leaves every frame as it was and the invariant with it.
LEMMA StillStep ==
  ASSUME Core, lifted' = lifted, frames' = frames, Firm, BuiltAlone, \A n \in DOMAIN frames : Remains(n),
         Typed', Placed', NoCircle', Dues', Balanced
  PROVE  Core'
<1>1. frames \in Seq(FrameType)
  BY DEF Core, Typed
<1>2. PICK m \in Nat : m = Len(frames)
  BY <1>1
<1>3. DOMAIN frames = 1 .. m /\ Len(frames) = m
  BY <1>1, <1>2
<1>4. /\ \A n \in 1 .. m : n \in DOMAIN frames /\ n \in DOMAIN frames' /\ frames'[n] = frames[n] /\ Remains(n)
      /\ Len(frames) \in Nat /\ Len(frames') \in Nat /\ DOMAIN frames' = 1 .. Len(frames')
      /\ Len(frames') > m => Len(frames) > m
  BY <1>3
<1>5. \A n \in 1 .. m : FrameOK(n)'
  BY <1>4, KeptBelow
<1>6. \A n \in DOMAIN frames' : FrameOK(n)'
  BY <1>3, <1>5
<1>7. Counts'
  BY Books
<1>8. Bottom'
  BY DEF Core, Bottom
<1> QED
  BY <1>6, <1>7, <1>8 DEF Core

\* Whoever calls the first release has one claim less.
LEMMA PlacesTail ==
  ASSUME NEW S, NEW s \in Seq(S), s # <<>>, NEW a
  PROVE  /\ Tail(s) \in Seq(S) /\ Head(s) \in S
         /\ Cardinality(Places(s, a)) = Cardinality(Places(Tail(s), a)) + One(Head(s) = a)
<1>1. PICK t, h, o : t = Tail(s) /\ h = Head(s) /\ o = <<Head(s)>>
  OBVIOUS
<1>2. /\ t \in Seq(S) /\ h \in S /\ o \in Seq(S) /\ o = <<h>>
  BY <1>1
<1>3. s = o \o t
  BY <1>1, <1>2
<1>4. /\ Cardinality(Places(o \o t, a)) = Cardinality(Places(o, a)) + Cardinality(Places(t, a))
      /\ Cardinality(Places(t, a)) \in Nat
  <2>1. t \in Seq(S) /\ o \in Seq(S)
    BY <1>2
  <2> QED
    BY <2>1, PlacesConcat
<1>5. Cardinality(Places(t, a)) \in Nat
  BY <1>4
<1>6. Cardinality(Places(o, a)) = One(h = a)
  <2>1. Places(o, a) = IF h = a THEN {1} ELSE {}
    BY <1>2 DEF Places
  <2>2. Cardinality({}) = 0 /\ Cardinality({1}) = 1
    BY FS_EmptySet, FS_Singleton
  <2> QED
    BY <2>1, <2>2 DEF One
<1>7. PICK x, y, z : x = Cardinality(Places(s, a)) /\ y = Cardinality(Places(t, a)) /\ z = One(h = a)
  OBVIOUS
<1>8. x = z + y /\ y \in Nat /\ z \in {0, 1}
  BY <1>3, <1>4, <1>5, <1>6, <1>7 DEF One
<1>9. x = y + z
  BY <1>8
<1> QED
  BY <1>1, <1>2, <1>7, <1>9

\* What has a count of zero has no claim, and no word holds it.
LEMMA ZeroIsFree ==
  ASSUME Core, NEW p \in Addr, mem[p] = "heap", hdr[p] = 0
  PROVE  /\ Claims(p) = 0 /\ Places(due, p) = {} /\ lost[p] = 0
         /\ Heap!Words(p) = {} /\ \A b \in Addr, i \in 1 .. Width : body[b][i] # p
<1>1. Excess(p) >= 0
  BY DEF Core, Counts
<1>2. PICK c, w : c = Claims(p) /\ w = Cardinality(Heap!Words(p))
  OBVIOUS
<1>3. c \in Nat /\ w \in Nat /\ 0 - c - w >= 0
  BY <1>1, <1>2, ClaimsAre, WordsFinite DEF Core, Excess
<1>4. c = 0 /\ w = 0
  BY <1>3
<1>5. Heap!Words(p) = {}
  BY <1>2, <1>4, WordsFinite, FS_EmptySet
<1>6. \A b \in Addr, i \in 1 .. Width : body[b][i] # p
  <2>1. SUFFICES ASSUME NEW b \in Addr, NEW i \in 1 .. Width, body[b][i] = p
                 PROVE  <<b, i>> \in Heap!Words(p)
    BY <1>5
  <2> QED
    BY <2>1 DEF Heap!Words, Heap!Idx
<1>7. lost[p] \in Nat /\ ~(lost[p] > 0) /\ Places(due, p) = {}
  <2>1. ~(Claims(p) >= 1)
    BY <1>2, <1>4
  <2> QED
    BY <2>1, Claimed, ClaimsAre DEF Core
<1> QED
  BY <1>2, <1>4, <1>5, <1>6, <1>7

\* Taking one reference down: what the entry of a release function does to the
\* header and to the values being dropped.
LetsGo(a) ==
  /\ hdr' \in [Addr -> Int] /\ dropping' \in Seq(Addr)
  /\ \A b \in Addr : hdr'[b] = hdr[b] - One(b = a /\ mem[b] = "heap")
  /\ \A k \in DOMAIN dropping' : \/ k \in DOMAIN dropping /\ dropping'[k] = dropping[k]
                                 \/ /\ k = Len(dropping) + 1 /\ dropping'[k] = a
                                    /\ mem[a] = "heap" /\ hdr'[a] = 0
  /\ DOMAIN dropping \subseteq DOMAIN dropping' /\ DOMAIN dropping = 1 .. Len(dropping) /\ Len(dropping) \in Nat
  /\ mem[a] = "heap" /\ hdr'[a] = 0 => Len(dropping) + 1 \in DOMAIN dropping'

\* The entry of a release function, of a value that is there.
LEMMA LetGoIs ==
  ASSUME Core, NEW a \in Addr, mem[a] # "none", mem[a] = "heap" => hdr[a] > 0, Heap!LetGo(a)
  PROVE  LetsGo(a)
<1>1. hdr \in [Addr -> Int] /\ dropping \in Seq(Addr) /\ mem[a] \in {"heap", "frame", "const"}
  BY DEF Core, Typed, HeapTyped
<1>2. Len(dropping) \in Nat /\ DOMAIN dropping = 1 .. Len(dropping)
  BY <1>1
<1>3. CASE mem[a] # "heap"
  <2>1. hdr[a] = Heap!Immortal
    BY <1>1, <1>3 DEF Core, Placed
  <2>2. hdr' = hdr /\ dropping' = dropping
    BY <2>1 DEF Heap!LetGo
  <2>3. \A b \in Addr : hdr[b] = hdr[b] - One(b = a /\ mem[b] = "heap")
    <3>1. SUFFICES ASSUME NEW b \in Addr PROVE hdr[b] = hdr[b] - One(b = a /\ mem[b] = "heap")
      OBVIOUS
    <3>2. One(b = a /\ mem[b] = "heap") = 0
      BY <1>3 DEF One
    <3> QED
      BY <1>1, <3>2
  <2> QED
    BY <1>1, <1>2, <1>3, <2>2, <2>3 DEF LetsGo
<1>4. CASE mem[a] = "heap"
  <2>1. PICK h : h = hdr[a]
    OBVIOUS
  <2>2. h \in Int /\ h > 0
    BY <1>1, <1>4, <2>1
  <2>3. h # -1 /\ h - 1 \in Int /\ (h - 1 <= 0 <=> h - 1 = 0)
    BY <2>2
  <2>4. /\ hdr' = [hdr EXCEPT ![a] = h - 1]
        /\ dropping' = IF h - 1 = 0 THEN Append(dropping, a) ELSE dropping
    BY <2>1, <2>3 DEF Heap!LetGo, Heap!Immortal
  <2>5. hdr' \in [Addr -> Int] /\ hdr'[a] = h - 1 /\ \A b \in Addr : b # a => hdr'[b] = hdr[b]
    BY <1>1, <2>3, <2>4
  <2>6. ASSUME NEW b \in Addr
        PROVE  hdr'[b] = hdr[b] - One(b = a /\ mem[b] = "heap")
    <3>1. CASE b = a
      <4>1. One(b = a /\ mem[b] = "heap") = 1
        BY <1>4, <3>1 DEF One
      <4> QED
        BY <2>1, <2>5, <3>1, <4>1
    <3>2. CASE b # a
      <4>1. One(b = a /\ mem[b] = "heap") = 0
        BY <3>2 DEF One
      <4>2. hdr[b] \in Int
        BY <1>1
      <4> QED
        BY <2>5, <3>2, <4>1, <4>2
    <3> QED
      BY <3>1, <3>2
  <2>7. CASE h - 1 = 0
    <3>1. dropping' = Append(dropping, a)
      BY <2>4, <2>7
    <3>2. /\ Append(dropping, a) \in Seq(Addr)
          /\ DOMAIN Append(dropping, a) = 1 .. Len(dropping) + 1
          /\ Append(dropping, a)[Len(dropping) + 1] = a
          /\ \A k \in 1 .. Len(dropping) : Append(dropping, a)[k] = dropping[k]
      BY <1>1, AppendFacts
    <3>3. hdr'[a] = 0
      BY <2>5, <2>7
    <3>4. \A k \in 1 .. Len(dropping) + 1 : k \in 1 .. Len(dropping) \/ k = Len(dropping) + 1
      BY <1>2
    <3>5. Len(dropping) + 1 \in 1 .. Len(dropping) + 1 /\ 1 .. Len(dropping) \subseteq 1 .. Len(dropping) + 1
      BY <1>2
    <3>6. \A k \in DOMAIN dropping' : \/ k \in DOMAIN dropping /\ dropping'[k] = dropping[k]
                                      \/ k = Len(dropping) + 1 /\ dropping'[k] = a
      BY <1>2, <3>1, <3>2, <3>4
    <3>7. dropping' \in Seq(Addr) /\ DOMAIN dropping \subseteq DOMAIN dropping' /\ Len(dropping) + 1 \in DOMAIN dropping'
      BY <1>2, <3>1, <3>2, <3>5
    <3> QED
      BY <1>2, <1>4, <2>5, <2>6, <3>3, <3>6, <3>7 DEF LetsGo
  <2>8. CASE h - 1 # 0
    <3>1. dropping' = dropping /\ hdr'[a] # 0
      BY <2>4, <2>5, <2>8
    <3> QED
      BY <1>1, <1>2, <2>5, <2>6, <3>1 DEF LetsGo
  <2> QED
    BY <2>7, <2>8
<1> QED
  BY <1>3, <1>4

\* The values being dropped are the values with count zero, one more perhaps.
LEMMA LetGoPlaced ==
  ASSUME Core, NEW a \in Addr, mem[a] = "heap" => hdr[a] > 0, LetsGo(a),
         mem' = mem, payload' = payload, HeapTyped',
         \A b \in Addr, i \in 1 .. Width : body'[b][i] = body[b][i] \/ body'[b][i] = Null
  PROVE  Placed'
<1>1. Placed /\ HeapTyped
  BY DEF Core, Typed
<1>2. \A b \in Addr : mem[b] = "heap" \/ hdr'[b] = hdr[b]
  <2>1. TAKE b \in Addr
  <2>2. CASE mem[b] # "heap"
    <3>1. One(b = a /\ mem[b] = "heap") = 0 /\ hdr[b] \in Int
      BY <1>1, <2>2 DEF One, HeapTyped
    <3>2. hdr'[b] = hdr[b] - One(b = a /\ mem[b] = "heap")
      BY DEF LetsGo
    <3> QED
      BY <3>1, <3>2
  <2> QED
    BY <2>2
<1>3. \A b \in Addr : b # a => hdr'[b] = hdr[b]
  <2>1. TAKE b \in Addr
  <2>2. SUFFICES ASSUME b # a PROVE hdr'[b] = hdr[b]
    OBVIOUS
  <2>3. One(b = a /\ mem[b] = "heap") = 0 /\ hdr[b] \in Int
    BY <1>1, <2>2 DEF One, HeapTyped
  <2>4. hdr'[b] = hdr[b] - One(b = a /\ mem[b] = "heap")
    BY DEF LetsGo
  <2> QED
    BY <2>3, <2>4
<1>4. \A k \in DOMAIN dropping : dropping[k] \in Addr /\ dropping[k] # a /\ mem[dropping[k]] = "heap" /\ hdr[dropping[k]] = 0
  <2>1. dropping \in Seq(Addr)
    BY <1>1 DEF HeapTyped
  <2>2. \A k \in DOMAIN dropping : dropping[k] \in Addr
    BY <2>1
  <2>3. \A k \in DOMAIN dropping : mem[dropping[k]] = "heap" /\ hdr[dropping[k]] = 0
    BY <1>1 DEF Placed
  <2>4. mem[a] = "heap" => hdr[a] # 0
    <3>1. hdr[a] \in Int
      BY <1>1 DEF HeapTyped
    <3> QED
      BY <3>1
  <2> QED
    BY <2>2, <2>3, <2>4
<1>5. \A k \in DOMAIN dropping' : mem[dropping'[k]] = "heap" /\ hdr'[dropping'[k]] = 0
  BY <1>3, <1>4 DEF LetsGo
<1>6. \A k, l \in DOMAIN dropping' : k # l => dropping'[k] # dropping'[l]
  <2>1. TAKE k, l \in DOMAIN dropping'
  <2>2. \A m, n \in DOMAIN dropping : m # n => dropping[m] # dropping[n]
    BY <1>1 DEF Placed
  <2> QED
    BY <1>4, <2>2 DEF LetsGo
<1>7. \A b \in Addr : mem[b] = "heap" /\ hdr'[b] = 0 => \E k \in DOMAIN dropping' : dropping'[k] = b
  <2>1. SUFFICES ASSUME NEW b \in Addr, mem[b] = "heap", hdr'[b] = 0
                 PROVE  \E k \in DOMAIN dropping' : dropping'[k] = b
    OBVIOUS
  <2>2. CASE b = a
    <3>1. Len(dropping) + 1 \in DOMAIN dropping' /\ Len(dropping) \in Nat /\ DOMAIN dropping = 1 .. Len(dropping)
      BY <2>1, <2>2 DEF LetsGo
    <3>2. Len(dropping) + 1 \notin DOMAIN dropping
      BY <3>1
    <3>3. dropping'[Len(dropping) + 1] = a
      BY <3>1, <3>2 DEF LetsGo
    <3> QED
      BY <2>2, <3>1, <3>3
  <2>3. CASE b # a
    <3>1. PICK k \in DOMAIN dropping : dropping[k] = b
      BY <1>1, <1>3, <2>1, <2>3 DEF Placed
    <3>2. k \in DOMAIN dropping' /\ k \in 1 .. Len(dropping) /\ Len(dropping) \in Nat
      BY <3>1 DEF LetsGo
    <3>3. k # Len(dropping) + 1
      BY <3>2
    <3>4. dropping'[k] = dropping[k]
      BY <3>2, <3>3 DEF LetsGo
    <3> QED
      BY <3>1, <3>2, <3>4
  <2> QED
    BY <2>2, <2>3
<1>8. /\ \A b \in Addr : mem'[b] = "const" <=> b \in Const
      /\ \A b \in Addr : mem'[b] \in {"const", "frame"} => hdr'[b] = Heap!Immortal
      /\ \A b \in Addr : payload'[b] \in Const \cup {Null}
  BY <1>1, <1>2 DEF Placed
<1>9. /\ \A b \in Addr, i \in 1 .. Width : body'[b][i] # Null => mem'[body'[b][i]] \in {"heap", "const"}
      /\ \A b \in Addr : mem'[b] # "heap" => body'[b] = Heap!Empty
  <2>1. \A b \in Addr, i \in 1 .. Width : body[b][i] # Null => mem[body[b][i]] \in {"heap", "const"}
    BY <1>1 DEF Placed
  <2>2. ASSUME NEW b \in Addr, mem[b] # "heap"
        PROVE  body'[b] = Heap!Empty
    <3>1. body[b] = [i \in 1 .. Width |-> Null]
      BY <1>1, <2>2 DEF Placed, Heap!Empty, Heap!Idx
    <3>2. body' \in [Addr -> [1 .. Width -> Addr \cup {Null}]]
      BY DEF HeapTyped
    <3>3. \A i \in 1 .. Width : body'[b][i] = Null
      BY <3>1
    <3>4. body'[b] = [i \in 1 .. Width |-> Null]
      BY <3>2, <3>3
    <3> QED
      BY <3>4 DEF Heap!Empty, Heap!Idx
  <2> QED
    BY <2>1, <2>2
<1> QED
  BY <1>5, <1>6, <1>7, <1>8, <1>9 DEF Placed

\* The generated code makes the next release call.
LEMMA NextReleaseStep ==
  ASSUME Core, lifted' = lifted, NextRelease
  PROVE  Core'
<1>1. PICK h : h = Head(due)
  OBVIOUS
<1>2. /\ due # <<>> /\ dropping = <<>> /\ h \in Addr /\ mem[h] # "none"
      /\ due' = Tail(due) /\ frames' = frames /\ lost' = lost /\ Heap!LetGo(h)
      /\ mem' = mem /\ body' = body /\ payload' = payload
  BY <1>1 DEF NextRelease
<1>3. Typed /\ HeapTyped /\ Placed /\ NoCircle /\ Dues /\ due \in Seq(Addr) /\ Counts
  BY DEF Core, Typed
<1>4. \A a \in Addr : /\ Cardinality(Places(due, a)) = Cardinality(Places(due', a)) + One(h = a)
                      /\ Cardinality(Places(due', a)) \in Nat
  <2>1. TAKE a \in Addr
  <2>2. /\ Tail(due) \in Seq(Addr)
        /\ Cardinality(Places(due, a)) = Cardinality(Places(Tail(due), a)) + One(Head(due) = a)
    BY <1>2, <1>3, PlacesTail
  <2>3. Cardinality(Places(Tail(due), a)) \in Nat
    BY <2>2, CountsFinite
  <2> QED
    BY <1>1, <1>2, <2>2, <2>3
<1>5. mem[h] = "heap" => hdr[h] > 0
  <2>1. SUFFICES ASSUME mem[h] = "heap" PROVE hdr[h] > 0
    OBVIOUS
  <2>2. Places(due, h) # {}
    <3>1. 1 \in DOMAIN due /\ due[1] = h
      BY <1>1, <1>2, <1>3
    <3> QED
      BY <3>1 DEF Places
  <2>3. Claims(h) >= 1 /\ Excess(h) >= 0
    BY <1>2, <1>3, <2>1, <2>2, Claimed DEF Counts
  <2>4. PICK x, c, w : x = hdr[h] /\ c = Claims(h) /\ w = Cardinality(Heap!Words(h))
    OBVIOUS
  <2>5. x \in Int /\ c \in Nat /\ w \in Nat /\ c >= 1 /\ x - c - w >= 0
    BY <1>2, <1>3, <2>3, <2>4, ClaimsAre, WordsFinite DEF HeapTyped, Excess
  <2>6. x > 0
    BY <2>5
  <2> QED
    BY <2>4, <2>6
<1>6. LetsGo(h)
  BY <1>2, <1>5, LetGoIs
<1>7. HeapTyped' /\ Typed'
  <2>1. hdr' \in [Addr -> Int] /\ dropping' \in Seq(Addr)
    BY <1>6 DEF LetsGo
  <2>2. HeapTyped'
    BY <1>2, <1>3, <2>1 DEF HeapTyped
  <2>3. due' \in Seq(Addr)
    BY <1>2, <1>3, PlacesTail
  <2> QED
    BY <1>2, <1>3, <2>2, <2>3 DEF Typed
<1>8. Placed'
  BY <1>2, <1>5, <1>6, <1>7, LetGoPlaced
<1>9. NoCircle'
  BY <1>2, <1>3 DEF NoCircle, OwnersAbove
<1>10. Dues'
  <2>1. \A k \in DOMAIN Tail(due) : k + 1 \in DOMAIN due /\ Tail(due)[k] = due[k + 1]
    BY <1>2, <1>3
  <2> QED
    BY <1>2, <1>3, <2>1 DEF Dues
<1>11. Heap!Words(h)' = Heap!Words(h) /\ \A a \in Addr : Heap!Words(a)' = Heap!Words(a)
  BY <1>2, SameWords
<1>12. Balanced
  <2>1. SUFFICES ASSUME NEW a \in Addr, mem[a] = "heap"
                 PROVE  hdr'[a] + Claims(a) + Cardinality(Heap!Words(a)) = hdr[a] + Claims(a)' + Cardinality(Heap!Words(a)')
    BY <1>2 DEF Balanced
  <2>2. Claims(a) = Total(frames, a) + Cardinality(Places(due, a)) + lost[a] /\ Total(frames, a) \in Nat /\ lost[a] \in Nat
    BY <1>3, ClaimsSum
  <2>3. Claims(a)' = Total(frames, a) + Cardinality(Places(due', a)) + lost[a]
    BY <1>2, <1>7, ClaimsSumNext
  <2>4. hdr'[a] = hdr[a] - One(a = h /\ mem[a] = "heap") /\ hdr[a] \in Int
    BY <1>3, <1>6 DEF LetsGo, HeapTyped
  <2>5. One(a = h /\ mem[a] = "heap") = One(h = a) /\ One(h = a) \in {0, 1}
    BY <2>1 DEF One
  <2>6. PICK x, y, t, p, q, l, o, w, c, d :
             /\ x = hdr[a] /\ y = hdr'[a] /\ t = Total(frames, a) /\ p = Cardinality(Places(due, a))
             /\ q = Cardinality(Places(due', a)) /\ l = lost[a] /\ o = One(h = a)
             /\ w = Cardinality(Heap!Words(a)) /\ c = Claims(a) /\ d = Claims(a)'
    OBVIOUS
  <2>7. /\ x \in Int /\ t \in Nat /\ q \in Nat /\ l \in Nat /\ o \in {0, 1} /\ w \in Nat
        /\ y = x - o /\ p = q + o /\ c = t + p + l /\ d = t + q + l
    BY <1>4, <2>2, <2>3, <2>4, <2>5, <2>6, WordsFinite
  <2>8. y + c + w = x + d + w
    BY <2>7
  <2> QED
    BY <1>11, <2>6, <2>8
<1>13. \A a \in Addr : Surplus(a) => Surplus(a)'
  <2>1. \A a \in Addr : mem'[a] = "heap" /\ Surplus(a) => Surplus(a)'
    BY <1>7, <1>12, Books
  <2> QED
    BY <1>2, <2>1 DEF Surplus
<1>14. Firm
  <2>1. \A a \in Addr : Inside(a)' = Inside(a)
    BY <1>2 DEF Inside, Closed
  <2> QED
    BY <1>2, <1>13, <2>1 DEF Firm
<1>15. BuiltAlone
  <2>1. SUFFICES ASSUME NEW n \in DOMAIN frames, NEW k \in DOMAIN frames[n].vals,
                        frames[n].vals[k].st = "building", mem[frames[n].vals[k].ref] = "heap"
                 PROVE  hdr'[frames[n].vals[k].ref] = hdr[frames[n].vals[k].ref]
    BY DEF BuiltAlone
  <2>2. PICK p : p = frames[n].vals[k].ref
    OBVIOUS
  <2>3. frames[n] \in FrameType /\ Lives(frames[n]) /\ HeapGood
    BY DEF Core, Typed, FrameOK, HeapGood
  <2>4. p \in Addr /\ hdr[p] = 1
    BY <2>1, <2>2, <2>3, FrameParts DEF Lives, LiveVal
  <2>5. Places(due, p) = {}
    BY <1>3, <2>1, <2>2, <2>3, <2>4, BuildingAlone
  <2>6. p # h
    <3>1. 1 \in DOMAIN due /\ due[1] = h
      BY <1>1, <1>2, <1>3
    <3> QED
      BY <2>5, <3>1 DEF Places
  <2>7. hdr'[p] = hdr[p] - One(p = h /\ mem[p] = "heap") /\ hdr[p] \in Int /\ One(p = h /\ mem[p] = "heap") = 0
    BY <1>3, <1>6, <2>4, <2>6 DEF LetsGo, HeapTyped, One
  <2> QED
    BY <2>2, <2>7
<1>16. \A n \in DOMAIN frames : Remains(n)
  BY <1>2 DEF Remains
<1> QED
  BY <1>2, <1>7, <1>8, <1>9, <1>10, <1>12, <1>14, <1>15, <1>16, StillStep

\* Everything inside a value still held stays inside it when a value with count
\* zero loses a word: that value is inside no other.
LEMMA InsideBeside ==
  ASSUME Core, NEW p \in Addr, mem[p] = "heap", hdr[p] = 0,
         \A b \in Addr : b # p => body'[b] = body[b], NEW a \in Addr, a # p
  PROVE  Inside(a) \subseteq Inside(a)'
<1>1. p \notin Inside(a)
  <2>1. SUFFICES ASSUME p \in Inside(a) PROVE FALSE
    OBVIOUS
  <2>2. HeapTyped
    BY DEF Core, Typed
  <2>3. PICK q \in Inside(a), i \in 1 .. Width : body[q][i] = p
    BY <2>1, <2>2, InsideOwned
  <2>4. q \in Addr
    BY <2>3, InsideSelf
  <2>5. \A b \in Addr, k \in 1 .. Width : body[b][k] # p
    BY ZeroIsFree
  <2> QED
    BY <2>3, <2>4, <2>5
<1>2. ASSUME NEW r \in Inside(a), NEW S \in SUBSET Addr, a \in S, Closed(S)'
      PROVE  r \in S
  <2>1. PICK T : T = S \cap Inside(a)
    OBVIOUS
  <2>2. T \in SUBSET Addr /\ a \in T
    BY <1>2, <2>1, InsideSelf
  <2>3. ASSUME NEW q \in T, NEW i \in 1 .. Width, body[q][i] # Null
        PROVE  body[q][i] \in T
    <3>1. q \in S /\ q \in Inside(a) /\ q \in Addr /\ q # p
      BY <1>1, <2>1, <2>2
    <3>2. body[q][i] \in Inside(a)
      BY <2>3, <3>1, InsideWord DEF Core, Typed
    <3>3. body'[q][i] \in S \cup {Null} /\ body'[q] = body[q]
      BY <1>2, <3>1 DEF Closed
    <3> QED
      BY <2>1, <2>3, <3>2, <3>3
  <2>4. Closed(T)
    BY <2>3 DEF Closed
  <2> QED
    BY <1>2, <2>1, <2>2, <2>4 DEF Inside
<1>3. ASSUME NEW r \in Inside(a)
      PROVE  r \in Inside(a)'
  BY <1>2 DEF Inside
<1> QED
  BY <1>3

\* What a word holds is a heap value or a constant.
LEMMA WordHolds ==
  ASSUME Core, NEW a \in Addr, NEW i \in 1 .. Width, NEW c, c = body[a][i], c # Null
  PROVE  c \in Addr /\ mem[c] \in {"heap", "const"}
<1>1. body \in [Addr -> [1 .. Width -> Addr \cup {Null}]] /\ Placed
  BY DEF Core, Typed, HeapTyped
<1>2. body[a][i] \in Addr \cup {Null}
  BY <1>1
<1>3. mem[body[a][i]] \in {"heap", "const"}
  BY <1>1 DEF Placed
<1> QED
  BY <1>2, <1>3

\* A drop block releases the next word of the value it empties.
LEMMA ReleaseChildStep ==
  ASSUME Core, lifted' = lifted, UNCHANGED <<payload, frames, due, lost>>,
         NEW i \in 1 .. Width, Heap!DropWord(i)
  PROVE  Core'
<1>1. PICK p, c : p = dropping[Len(dropping)] /\ c = body[p][i]
  OBVIOUS
<1>2. /\ dropping # <<>> /\ c # Null /\ Heap!LetGo(c) /\ body' = [body EXCEPT ![p][i] = Null]
      /\ mem' = mem /\ payload' = payload /\ frames' = frames /\ due' = due /\ lost' = lost
  BY <1>1 DEF Heap!DropWord, Heap!Top
<1>3. Typed /\ HeapTyped /\ Placed /\ NoCircle /\ Dues /\ Counts /\ dropping \in Seq(Addr)
      /\ body \in [Addr -> [1 .. Width -> Addr \cup {Null}]] /\ hdr \in [Addr -> Int]
  BY DEF Core, Typed, HeapTyped
<1>4. p \in Addr /\ mem[p] = "heap" /\ hdr[p] = 0
  <2>1. Len(dropping) \in DOMAIN dropping /\ dropping[Len(dropping)] \in Addr
    BY <1>2, <1>3
  <2> QED
    BY <1>1, <1>3, <2>1 DEF Placed
<1>5. c \in Addr /\ mem[c] \in {"heap", "const"} /\ c # p /\ body[p][i] = c
  <2>1. c \in Addr /\ mem[c] \in {"heap", "const"}
    BY <1>1, <1>2, <1>4, WordHolds
  <2>2. c # p
    BY <1>1, <1>4, ZeroIsFree
  <2> QED
    BY <1>1, <2>1, <2>2
<1>6. mem[c] = "heap" => hdr[c] > 0
  <2>1. SUFFICES ASSUME mem[c] = "heap", ~(hdr[c] > 0) PROVE FALSE
    OBVIOUS
  <2>2. Excess(c) >= 0
    BY <1>3, <1>5, <2>1 DEF Counts
  <2>3. PICK x, d, w : x = hdr[c] /\ d = Claims(c) /\ w = Cardinality(Heap!Words(c))
    OBVIOUS
  <2>4. x \in Int /\ d \in Nat /\ w \in Nat /\ x - d - w >= 0 /\ ~(x > 0)
    BY <1>3, <1>5, <2>1, <2>2, <2>3, ClaimsAre, WordsFinite DEF Excess
  <2>5. x = 0
    BY <2>4
  <2> QED
    BY <1>4, <1>5, <2>1, <2>3, <2>5, ZeroIsFree
<1>7. LetsGo(c)
  BY <1>2, <1>5, <1>6, LetGoIs
<1>8. /\ body' \in [Addr -> [1 .. Width -> Addr \cup {Null}]]
      /\ \A b \in Addr : b # p => body'[b] = body[b]
      /\ \A b \in Addr, j \in 1 .. Width : body'[b][j] = body[b][j] \/ body'[b][j] = Null
  BY <1>2, <1>3, <1>4
<1>9. HeapTyped' /\ Typed'
  <2>1. hdr' \in [Addr -> Int] /\ dropping' \in Seq(Addr)
    BY <1>7 DEF LetsGo
  <2>2. HeapTyped'
    BY <1>2, <1>3, <1>8, <2>1 DEF HeapTyped
  <2> QED
    BY <1>2, <1>3, <2>2 DEF Typed
<1>10. Placed'
  BY <1>2, <1>5, <1>6, <1>7, <1>8, <1>9, LetGoPlaced
<1>11. NoCircle'
  BY <1>3, <1>8, EmptyNoCircle
<1>12. Dues'
  BY <1>2, <1>3 DEF Dues
<1>13. /\ Cardinality(Heap!Words(c)) = Cardinality(Heap!Words(c)') + 1
       /\ Cardinality(Heap!Words(c)') \in Nat
       /\ \A a \in Addr : a # c => Heap!Words(a)' = Heap!Words(a)
  BY <1>2, <1>3, <1>4, <1>5, ClearWord, ZenonT(60)
<1>14. Balanced
  <2>1. SUFFICES ASSUME NEW a \in Addr, mem[a] = "heap"
                 PROVE  hdr'[a] + Claims(a) + Cardinality(Heap!Words(a)) = hdr[a] + Claims(a)' + Cardinality(Heap!Words(a)')
    BY <1>2 DEF Balanced
  <2>2. Claims(a)' = Claims(a) /\ Claims(a) \in Nat
    <3>1. /\ Claims(a)' = Total(frames', a) + Cardinality(Places(due', a)) + lost'[a]
          /\ Claims(a) = Total(frames, a) + Cardinality(Places(due, a)) + lost[a]
      BY <1>3, <1>9, ClaimsSum, ClaimsSumNext
    <3> QED
      BY <1>2, <1>3, <3>1, ClaimsAre
  <2>3. hdr'[a] = hdr[a] - One(a = c /\ mem[a] = "heap") /\ hdr[a] \in Int
    BY <1>3, <1>7 DEF LetsGo
  <2>4. PICK x, y, d, w, z : x = hdr[a] /\ y = hdr'[a] /\ d = Claims(a) /\ w = Cardinality(Heap!Words(a))
                             /\ z = Cardinality(Heap!Words(a)')
    OBVIOUS
  <2>5. x \in Int /\ d \in Nat /\ w \in Nat
    BY <2>2, <2>3, <2>4, WordsFinite
  <2>6. CASE a = c
    <3>1. One(a = c /\ mem[a] = "heap") = 1
      BY <2>1, <2>6 DEF One
    <3>2. y = x - 1 /\ w = z + 1 /\ z \in Nat
      BY <1>13, <2>3, <2>4, <2>6, <3>1
    <3>3. y + d + w = x + d + z
      BY <2>5, <3>2
    <3> QED
      BY <2>2, <2>4, <3>3
  <2>7. CASE a # c
    <3>1. One(a = c /\ mem[a] = "heap") = 0
      BY <2>7 DEF One
    <3>2. y = x - 0 /\ w = z
      BY <1>13, <2>3, <2>4, <2>7, <3>1
    <3>3. y + d + w = x + d + z
      BY <2>5, <3>2
    <3> QED
      BY <2>2, <2>4, <3>3
  <2> QED
    BY <2>6, <2>7
<1>15. \A a \in Addr : Surplus(a) => Surplus(a)'
  <2>1. \A a \in Addr : mem'[a] = "heap" /\ Surplus(a) => Surplus(a)'
    BY <1>9, <1>14, Books
  <2> QED
    BY <1>2, <2>1 DEF Surplus
<1>16. Firm
  <2>1. ASSUME NEW a \in Addr, hdr[a] > 0
        PROVE  a # p
    <3>1. ~(0 > 0)
      OBVIOUS
    <3> QED
      BY <1>4, <2>1, <3>1
  <2>2. \A a \in Addr : a # p => Inside(a) \subseteq Inside(a)'
    BY <1>4, <1>8, InsideBeside
  <2> QED
    BY <1>2, <1>8, <1>15, <2>1, <2>2 DEF Firm
<1>17. BuiltAlone
  <2>1. SUFFICES ASSUME NEW n \in DOMAIN frames, NEW k \in DOMAIN frames[n].vals,
                        frames[n].vals[k].st = "building", mem[frames[n].vals[k].ref] = "heap"
                 PROVE  hdr'[frames[n].vals[k].ref] = hdr[frames[n].vals[k].ref]
    BY DEF BuiltAlone
  <2>2. PICK q : q = frames[n].vals[k].ref
    OBVIOUS
  <2>3. frames[n] \in FrameType /\ Lives(frames[n]) /\ HeapGood
    BY DEF Core, Typed, FrameOK, HeapGood
  <2>4. q \in Addr /\ hdr[q] = 1
    BY <2>1, <2>2, <2>3, FrameParts DEF Lives, LiveVal
  <2>5. \A b \in Addr, j \in 1 .. Width : body[b][j] # q
    BY <1>3, <2>1, <2>2, <2>3, <2>4, BuildingAlone
  <2>6. q # c
    BY <1>4, <1>5, <2>5
  <2>7. hdr'[q] = hdr[q] - One(q = c /\ mem[q] = "heap") /\ hdr[q] \in Int /\ One(q = c /\ mem[q] = "heap") = 0
    BY <1>3, <1>7, <2>4, <2>6 DEF LetsGo, One
  <2> QED
    BY <2>2, <2>7
<1>18. \A n \in DOMAIN frames : Remains(n)
  BY <1>2 DEF Remains
<1> QED
  BY <1>2, <1>9, <1>10, <1>11, <1>12, <1>14, <1>16, <1>17, <1>18, StillStep

\* A drop block ends: the value it emptied is freed.
LEMMA FreeStep ==
  ASSUME Core, lifted' = lifted, UNCHANGED <<payload, frames, due, lost>>, Heap!DropEnd
  PROVE  Core'
<1>1. PICK p, e : p = dropping[Len(dropping)] /\ e = Len(dropping)
  OBVIOUS
<1>2. /\ dropping # <<>> /\ body[p] = Heap!Empty /\ mem' = [mem EXCEPT ![p] = "none"]
      /\ dropping' = Pop(dropping) /\ hdr' = hdr /\ body' = body
      /\ payload' = payload /\ frames' = frames /\ due' = due /\ lost' = lost
  BY <1>1 DEF Heap!DropEnd, Heap!Top, Heap!Pop, Pop
<1>3. Typed /\ HeapTyped /\ Placed /\ NoCircle /\ Dues /\ Counts /\ dropping \in Seq(Addr)
      /\ mem \in [Addr -> {"none", "heap", "frame", "const"}] /\ hdr \in [Addr -> Int]
      /\ body \in [Addr -> [1 .. Width -> Addr \cup {Null}]]
  BY DEF Core, Typed, HeapTyped
<1>4. /\ Pop(dropping) \in Seq(Addr) /\ DOMAIN dropping = 1 .. e /\ e \in Nat \ {0} /\ e \in 1 .. e
      /\ DOMAIN Pop(dropping) = 1 .. e - 1
      /\ \A k \in 1 .. e - 1 : Pop(dropping)[k] = dropping[k] /\ k \in 1 .. e
  BY <1>1, <1>2, <1>3, PopFacts
<1>5. \A k \in 1 .. e : k \in 1 .. e - 1 \/ k = e
  BY <1>4
<1>6. p \in Addr /\ mem[p] = "heap" /\ hdr[p] = 0 /\ dropping[e] = p
  <2>1. e \in DOMAIN dropping /\ dropping[e] \in Addr
    BY <1>3, <1>4
  <2> QED
    BY <1>1, <1>3, <2>1 DEF Placed
<1>7. /\ mem' \in [Addr -> {"none", "heap", "frame", "const"}] /\ mem'[p] = "none"
      /\ \A a \in Addr : a # p => mem'[a] = mem[a]
  BY <1>2, <1>3, <1>6
<1>8. HeapTyped' /\ Typed'
  <2>1. HeapTyped'
    BY <1>2, <1>3, <1>4, <1>7 DEF HeapTyped
  <2> QED
    BY <1>2, <1>3, <2>1 DEF Typed
<1>9. \A k \in 1 .. e - 1 : dropping[k] \in Addr /\ dropping[k] # p /\ mem'[dropping[k]] = "heap" /\ hdr[dropping[k]] = 0
  <2>1. TAKE k \in 1 .. e - 1
  <2>2. k \in DOMAIN dropping /\ e \in DOMAIN dropping /\ k # e
    BY <1>4
  <2>3. dropping[k] \in Addr
    BY <1>3, <2>2
  <2>4. dropping[k] # dropping[e] /\ mem[dropping[k]] = "heap" /\ hdr[dropping[k]] = 0
    BY <1>3, <2>2 DEF Placed
  <2> QED
    BY <1>6, <1>7, <2>3, <2>4
<1>10. Placed'
  <2>1. /\ \A a \in Addr : mem'[a] = "const" <=> a \in Const
        /\ \A a \in Addr : mem'[a] \in {"const", "frame"} => hdr'[a] = Heap!Immortal
        /\ \A a \in Addr : mem'[a] # "heap" => body'[a] = Heap!Empty
        /\ \A a \in Addr : payload'[a] \in Const \cup {Null}
    BY <1>2, <1>3, <1>6, <1>7 DEF Placed
  <2>2. \A a \in Addr, i \in 1 .. Width : body'[a][i] # Null => mem'[body'[a][i]] \in {"heap", "const"}
    <3>1. SUFFICES ASSUME NEW a \in Addr, NEW i \in 1 .. Width, body[a][i] # Null
                   PROVE  mem'[body[a][i]] \in {"heap", "const"}
      BY <1>2
    <3>2. body[a][i] \in Addr /\ mem[body[a][i]] \in {"heap", "const"}
      BY <3>1, WordHolds
    <3>3. body[a][i] # p
      BY <1>6, ZeroIsFree
    <3> QED
      BY <1>7, <3>2, <3>3
  <2>3. \A k, l \in 1 .. e - 1 : k # l => dropping[k] # dropping[l]
    BY <1>3, <1>4 DEF Placed
  <2>4. /\ \A k \in DOMAIN dropping' : mem'[dropping'[k]] = "heap" /\ hdr'[dropping'[k]] = 0
        /\ \A k, l \in DOMAIN dropping' : k # l => dropping'[k] # dropping'[l]
    BY <1>2, <1>4, <1>9, <2>3
  <2>5. \A a \in Addr : mem'[a] = "heap" /\ hdr'[a] = 0 => \E k \in DOMAIN dropping' : dropping'[k] = a
    <3>1. SUFFICES ASSUME NEW a \in Addr, mem'[a] = "heap", hdr[a] = 0
                   PROVE  \E k \in DOMAIN dropping' : dropping'[k] = a
      BY <1>2
    <3>2. a # p
      BY <1>7, <3>1
    <3>3. PICK k \in DOMAIN dropping : dropping[k] = a
      BY <1>3, <1>7, <3>1, <3>2 DEF Placed
    <3>4. k \in 1 .. e - 1
      BY <1>4, <1>5, <1>6, <3>2, <3>3
    <3> QED
      BY <1>2, <1>4, <3>3, <3>4
  <2> QED
    BY <2>1, <2>2, <2>4, <2>5 DEF Placed
<1>11. NoCircle'
  BY <1>2, <1>3 DEF NoCircle, OwnersAbove
<1>12. Dues'
  <2>1. Places(due, p) = {} /\ lost[p] = 0
    BY <1>6, ZeroIsFree
  <2>2. \A k \in DOMAIN due : due[k] \in Addr /\ due[k] # p
    <3>1. due \in Seq(Addr)
      BY <1>3 DEF Typed
    <3>2. \A k \in DOMAIN due : due[k] # p
      BY <2>1 DEF Places
    <3> QED
      BY <3>1, <3>2
  <2>3. ~(0 > 0)
    OBVIOUS
  <2>4. \A a \in Addr : lost[a] > 0 => a # p
    BY <2>1, <2>3
  <2> QED
    BY <1>2, <1>3, <1>7, <2>2, <2>4 DEF Dues
<1>13. \A a \in Addr : Heap!Words(a)' = Heap!Words(a)
  BY <1>2, SameWords
<1>14. Balanced
  <2>1. SUFFICES ASSUME NEW a \in Addr, mem'[a] = "heap"
                 PROVE  /\ mem[a] = "heap"
                        /\ hdr'[a] + Claims(a) + Cardinality(Heap!Words(a)) = hdr[a] + Claims(a)' + Cardinality(Heap!Words(a)')
    BY DEF Balanced
  <2>2. Claims(a)' = Claims(a)
    <3>1. /\ Claims(a)' = Total(frames', a) + Cardinality(Places(due', a)) + lost'[a]
          /\ Claims(a) = Total(frames, a) + Cardinality(Places(due, a)) + lost[a]
      BY <1>3, <1>8, ClaimsSum, ClaimsSumNext
    <3> QED
      BY <1>2, <3>1
  <2> QED
    BY <1>2, <1>7, <1>13, <2>1, <2>2
<1>15. \A a \in Addr : Surplus(a) => Surplus(a)'
  <2>1. \A a \in Addr : mem'[a] = "heap" /\ Surplus(a) => Surplus(a)'
    BY <1>8, <1>14, Books
  <2>2. ~Surplus(p)
    <3>1. Cardinality(Heap!Words(p)) = 0 /\ Claims(p) = 0
      BY <1>6, ZeroIsFree, FS_EmptySet
    <3>2. Excess(p) = 0 - 0 - 0
      BY <1>6, <3>1 DEF Excess
    <3>3. ~(Excess(p) > 0)
      BY <3>2
    <3> QED
      BY <3>3 DEF Surplus
  <2>3. \A a \in Addr : Surplus(a) /\ a # p => mem'[a] = "heap"
    BY <1>7 DEF Surplus
  <2> QED
    BY <2>1, <2>2, <2>3
<1>16. Firm
  <2>1. ASSUME NEW a \in Addr, hdr[a] > 0
        PROVE  a # p
    <3>1. ~(0 > 0)
      OBVIOUS
    <3> QED
      BY <1>6, <2>1, <3>1
  <2>2. \A a \in Addr : Inside(a)' = Inside(a)
    BY <1>2 DEF Inside, Closed
  <2> QED
    BY <1>2, <1>7, <1>15, <2>1, <2>2 DEF Firm
<1>17. BuiltAlone
  BY <1>2 DEF BuiltAlone
<1>18. \A n \in DOMAIN frames : Remains(n)
  <2>1. SUFFICES ASSUME NEW n \in DOMAIN frames, NEW a \in Refs(frames[n])
                 PROVE  mem'[a] = mem[a]
    BY DEF Remains
  <2>2. a \in Addr
    BY <2>1 DEF Refs
  <2>3. a # p
    <3>1. SUFFICES ASSUME a = p PROVE FALSE
      OBVIOUS
    <3>2. hdr[a] > 0 \/ \E w \in Addr \X (1 .. Width) : body[w[1]][w[2]] = a
      BY <1>6, <2>1, <3>1, RefsCounted
    <3>3. \A b \in Addr, j \in 1 .. Width : body[b][j] # p
      BY <1>6, ZeroIsFree
    <3>4. \A w \in Addr \X (1 .. Width) : w[1] \in Addr /\ w[2] \in 1 .. Width
      OBVIOUS
    <3>5. ~(0 > 0)
      OBVIOUS
    <3> QED
      BY <1>6, <3>1, <3>2, <3>3, <3>4, <3>5
  <2> QED
    BY <1>7, <2>2, <2>3
<1> QED
  BY <1>2, <1>8, <1>10, <1>11, <1>12, <1>14, <1>16, <1>17, <1>18, StillStep

\* A drop block's next step keeps the invariant (release_fn,
\* gen_release_children).
LEMMA CascadeStep ==
  ASSUME Core, lifted' = lifted, Cascade
  PROVE  Core'
<1>1. UNCHANGED <<payload, frames, due, lost>> /\ (Heap!DropEnd \/ \E i \in 1 .. Width : Heap!DropWord(i))
  BY DEF Cascade
<1>2. CASE Heap!DropEnd
  BY <1>1, <1>2, FreeStep
<1>3. CASE \E i \in 1 .. Width : Heap!DropWord(i)
  BY <1>1, <1>3, ReleaseChildStep
<1> QED
  BY <1>1, <1>2, <1>3

----------------------------------------------------------------------------
\* The invariant holds at the start and every step keeps it.

\* The frame a program starts in.
LEMMA EmptyFrame ==
  ASSUME NEW B \in Seq(BlockType), NEW v \in Seq(OperandType), NEW s \in Seq(Addr), NEW l \in Seq(LoopType)
  PROVE  [blocks |-> B, vals |-> v, spent |-> s, loops |-> l, transient |-> FALSE, scratch |-> {}, unit |-> TRUE]
           \in FrameType
BY DEF FrameType

\* The first frame is in order.
LEMMA FirstFrame ==
  ASSUME NEW f, f = NewFrame(<<>>)
  PROVE  /\ f \in FrameType /\ f.blocks # <<>> /\ DOMAIN f.blocks = {1} /\ f.blocks[1].kind = "fn"
         /\ DOMAIN f.blocks[1].names = {} /\ DOMAIN f.vals = {} /\ DOMAIN f.spent = {} /\ f.spent = <<>>
         /\ DOMAIN f.loops = {} /\ ~f.transient /\ f.scratch = {} /\ f.unit /\ Len(f.blocks) = 1
<1>1. PICK e : e = <<>>
  OBVIOUS
<1>2. /\ e \in Seq(EntryType) /\ e \in Seq(OperandType) /\ e \in Seq(Addr) /\ e \in Seq(LoopType) /\ DOMAIN e = {}
  BY <1>1
<1>3. PICK b : b = [kind |-> "fn", base |-> 0, names |-> e]
  OBVIOUS
<1>4. b \in BlockType /\ b.kind = "fn" /\ b.names = e
  BY <1>2, <1>3 DEF BlockType
<1>5. PICK B : B = <<b>>
  OBVIOUS
<1>6. B \in Seq(BlockType) /\ Len(B) = 1 /\ DOMAIN B = {1} /\ B[1] = b /\ B # <<>>
  BY <1>4, <1>5
<1>7. f = [blocks |-> B, vals |-> e, spent |-> e, loops |-> e, transient |-> FALSE, scratch |-> {}, unit |-> TRUE]
  BY <1>1, <1>3, <1>5 DEF NewFrame
<1>8. f \in FrameType
  BY <1>2, <1>6, <1>7, EmptyFrame, ZenonT(60)
<1>9. f.blocks = B /\ f.vals = e /\ f.spent = e /\ f.loops = e /\ ~f.transient /\ f.scratch = {} /\ f.unit
  BY <1>7
<1> QED
  BY <1>1, <1>2, <1>4, <1>6, <1>8, <1>9

\* The invariant holds at the start.
LEMMA InitCore == Init => Core
<1> SUFFICES ASSUME Init PROVE Core
  OBVIOUS
<1>1. PICK f : f = NewFrame(<<>>)
  OBVIOUS
<1>2. /\ mem = [a \in Addr |-> IF a \in Const THEN "const" ELSE "none"]
      /\ hdr = [a \in Addr |-> IF a \in Const THEN Heap!Immortal ELSE 0]
      /\ body = [a \in Addr |-> Heap!Empty] /\ dropping = <<>>
      /\ payload = [a \in Addr |-> Null] /\ lost = [a \in Addr |-> 0] /\ due = <<>> /\ frames = <<f>>
  BY <1>1 DEF Init, Heap!Init
<1>3. \A a \in Addr : /\ mem[a] \in {"const", "none"} /\ (mem[a] = "const" <=> a \in Const)
                      /\ (mem[a] = "const" => hdr[a] = Heap!Immortal)
                      /\ body[a] = Heap!Empty /\ payload[a] = Null /\ lost[a] = 0
                      /\ \A i \in 1 .. Width : body[a][i] = Null
  BY <1>2 DEF Heap!Empty, Heap!Idx
<1>4. /\ f \in FrameType /\ f.blocks # <<>> /\ DOMAIN f.blocks = {1} /\ f.blocks[1].kind = "fn"
      /\ DOMAIN f.blocks[1].names = {} /\ DOMAIN f.vals = {} /\ DOMAIN f.spent = {} /\ f.spent = <<>>
      /\ DOMAIN f.loops = {} /\ ~f.transient /\ f.scratch = {} /\ f.unit /\ Len(f.blocks) = 1
  BY <1>1, FirstFrame
<1>5. frames \in Seq(FrameType) /\ frames[1] = f /\ DOMAIN frames = {1} /\ Len(frames) = 1
  BY <1>2, <1>4
<1>6. Typed
  <2>1. mem \in [Addr -> {"none", "heap", "frame", "const"}]
    BY <1>2
  <2>2. hdr \in [Addr -> Int]
    <3>1. Heap!Immortal \in Int
      BY DEF Heap!Immortal
    <3> QED
      BY <1>2, <3>1
  <2>3. body \in [Addr -> [1 .. Width -> Addr \cup {Null}]]
    BY <1>2 DEF Heap!Empty, Heap!Idx
  <2>4. payload \in [Addr -> Addr \cup {Null}]
    BY <1>2
  <2>5. lost \in [Addr -> 0 .. MaxLost]
    <3>1. 0 \in 0 .. MaxLost
      BY OwnershipAssumption
    <3> QED
      BY <1>2, <3>1
  <2>6. due \in Seq(Addr) /\ dropping \in Seq(Addr)
    BY <1>2
  <2> QED
    BY <1>5, <2>1, <2>2, <2>3, <2>4, <2>5, <2>6 DEF Typed, HeapTyped
<1>7. Counts
  BY <1>3 DEF Counts
<1>8. Placed
  <2>1. DOMAIN dropping = {}
    BY <1>2
  <2> QED
    BY <1>3, <2>1 DEF Placed
<1>9. NoCircle
  <2>1. [a \in Addr |-> 0] \in [Addr -> Nat]
    OBVIOUS
  <2> QED
    BY <1>3, <2>1 DEF NoCircle, OwnersAbove
<1>10. Dues
  <2>1. DOMAIN due = {} /\ ~(0 > 0)
    BY <1>2
  <2> QED
    BY <1>3, <2>1 DEF Dues
<1>11. Bottom
  BY <1>4, <1>5 DEF Bottom
<1>12. FrameOK(1)
  <2>1. Shape(f)
    <3>1. ~(1 < 1)
      OBVIOUS
    <3> QED
      BY <1>4, <3>1 DEF Shape
  <2>2. LoopShape(f)
    BY <1>4 DEF LoopShape
  <2>3. Lives(f)
    BY <1>4 DEF Lives
  <2>4. Waiting(1) /\ ScratchAt(1) /\ GuardVals(1) /\ GuardLoops(1) /\ GuardNames(1)
    BY <1>4, <1>5 DEF Waiting, ScratchAt, GuardVals, GuardLoops, GuardNames
  <2> QED
    BY <1>5, <2>1, <2>2, <2>3, <2>4 DEF FrameOK
<1> QED
  BY <1>5, <1>6, <1>7, <1>8, <1>9, <1>10, <1>11, <1>12 DEF Core

\* A step that changes nothing keeps the invariant.
LEMMA StutterStep ==
  ASSUME Core, UNCHANGED vars
  PROVE  Core'
<1>1. /\ mem' = mem /\ hdr' = hdr /\ body' = body /\ dropping' = dropping /\ payload' = payload
      /\ frames' = frames /\ lifted' = lifted /\ due' = due /\ lost' = lost
  BY DEF vars
<1>2. Typed' /\ Placed' /\ NoCircle' /\ Dues'
  <2>1. Typed /\ Placed /\ NoCircle /\ Dues
    BY DEF Core
  <2>2. Typed'
    BY <1>1, <2>1 DEF Typed, HeapTyped
  <2>3. Placed'
    BY <1>1, <2>1 DEF Placed
  <2>4. NoCircle'
    BY <1>1, <2>1 DEF NoCircle, OwnersAbove
  <2> QED
    BY <1>1, <2>1, <2>2, <2>3, <2>4 DEF Dues
<1>3. \A a \in Addr : Claims(a)' = Claims(a)
  <2>1. TAKE a \in Addr
  <2>2. /\ Claims(a)' = Total(frames', a) + Cardinality(Places(due', a)) + lost'[a]
        /\ Claims(a) = Total(frames, a) + Cardinality(Places(due, a)) + lost[a]
    BY <1>2, ClaimsSum, ClaimsSumNext DEF Core
  <2> QED
    BY <1>1, <2>2
<1>4. \A a \in Addr : Heap!Words(a)' = Heap!Words(a)
  BY <1>1, SameWords
<1>5. Balanced
  BY <1>1, <1>3, <1>4 DEF Balanced
<1>6. Firm
  <2>1. \A a \in Addr : Inside(a)' = Inside(a)
    BY <1>1 DEF Inside, Closed
  <2>2. \A a \in Addr : Surplus(a) => Surplus(a)'
    BY <1>1, <1>3, <1>4 DEF Surplus, Excess
  <2> QED
    BY <1>1, <2>1, <2>2 DEF Firm
<1>7. BuiltAlone /\ \A n \in DOMAIN frames : Remains(n)
  BY <1>1 DEF BuiltAlone, Remains
<1> QED
  BY <1>1, <1>2, <1>5, <1>6, <1>7, StillStep

\* Every expression keeps the invariant (gen_expr).
LEMMA ExpressionStep ==
  ASSUME Core, lifted \subseteq Leaks, lifted' = lifted, Expression
  PROVE  Core'
<1>1. CASE \E n \in Var : Name(n)
  BY <1>1, NameStep
<1>2. CASE \E a \in Addr : Literal(a) \/ Build(a) \/ NullaryVariant(a) \/ BeginAggregate(a)
  BY <1>2, LiteralStep, BuildStep, NullaryVariantStep, BeginAggregateStep
<1>3. CASE \E i \in 1 .. Width : StoreElement(i) \/ Element(i)
  BY <1>3, StoreElementStep, ElementStep
<1>4. CASE StorePayload \/ EndAggregate \/ Unwrap \/ HandBack
  BY <1>4, StorePayloadStep, EndAggregateStep, UnwrapStep, HandBackStep
<1>5. CASE \E k \in {1, 2}, a \in Addr, frees \in BOOLEAN : Builtin(k, a, frees)
  BY <1>5, BuiltinStep
<1>6. CASE \E i \in 1 .. Width, a \in Addr : ArraySet(i, a)
  BY <1>6, ArraySetStep
<1>7. CASE \E st \in {"own", "borrow"} : OtherBranch(st)
  BY <1>7, OtherBranchStep
<1>8. CASE \E n \in Var, i \in 1 .. Width : OpenArm(n, i)
  BY <1>8, OpenArmStep
<1>9. CASE CloseArm
  BY <1>9, CloseArmStep
<1>10. CASE \E n \in Var, unit \in BOOLEAN : Call(n, unit)
  BY <1>10, CallStep
<1> QED
  BY <1>1, <1>2, <1>3, <1>4, <1>5, <1>6, <1>7, <1>8, <1>9, <1>10 DEF Expression

\* Every statement keeps the invariant (gen_stmt).
LEMMA StatementsStep ==
  ASSUME Core, lifted \subseteq Leaks, lifted' = lifted, Statements
  PROVE  Core'
<1>1. CASE \E n \in Var : Let(n) \/ Assign(n) \/ OpenFor(n)
  BY <1>1, LetStep, AssignStep, OpenForStep
<1>2. CASE Discard \/ OpenBranch \/ CloseBlock
  BY <1>2, DiscardStep, OpenBranchStep, CloseBlockStep
<1>3. CASE \E frees \in BOOLEAN : Measure(frees)
  BY <1>3, MeasureStep
<1>4. CASE OpenCounting \/ OpenRange \/ Turn \/ EndLoop
  BY <1>4, OpenCountingStep, OpenRangeStep, TurnStep, EndLoopStep
<1>5. CASE Break \/ Continue
  BY <1>5, LeaveStep DEF Break, Continue
<1>6. CASE BeginPrint \/ EndPrint
  BY <1>6, BeginPrintStep, EndPrintStep
<1>7. CASE Return \/ BareReturn \/ FallOff
  BY <1>7, ReturnStep, BareReturnStep, FallOffStep
<1> QED
  BY <1>1, <1>2, <1>3, <1>4, <1>5, <1>6, <1>7 DEF Statements

\* Every step keeps the invariant, where only leaks are lifted.
LEMMA NextCore ==
  ASSUME Core, lifted \subseteq Leaks, [Next]_vars
  PROVE  Core' /\ lifted' = lifted
<1>1. CASE UNCHANGED vars
  BY <1>1, StutterStep DEF vars
<1>2. CASE Next
  <2>1. lifted' = lifted /\ (Expression \/ Statements \/ NextRelease \/ Cascade)
    BY <1>2 DEF Next
  <2> QED
    BY <2>1, ExpressionStep, StatementsStep, NextReleaseStep, CascadeStep
<1> QED
  BY <1>1, <1>2

\* The invariant holds in every state of every program whose hazards, if any,
\* only leave something behind.
THEOREM Inductive == Spec => []OwnInv
<1>1. Init => OwnInv
  BY InitCore DEF OwnInv
<1>2. OwnInv /\ [Next]_vars => OwnInv'
  <2> SUFFICES ASSUME OwnInv, [Next]_vars PROVE OwnInv'
    OBVIOUS
  <2>1. lifted' = lifted
    BY DEF Next, vars
  <2>2. CASE lifted \subseteq Leaks
    BY <2>2, NextCore DEF OwnInv
  <2>3. CASE ~(lifted \subseteq Leaks)
    BY <2>1, <2>3 DEF OwnInv
  <2> QED
    BY <2>2, <2>3
<1> QED
  BY <1>1, <1>2, PTL DEF Spec

----------------------------------------------------------------------------
\* What the invariant says of a program.

\* Both modules count with the same operator.
LEMMA HeapSize == \A S : Heap!Cardinality(S) = Cardinality(S)
BY DEF Heap!Cardinality, Cardinality

\* In a program with no hazard every count is exact (gen_retain, gen_release,
\* release_fn, and the bookkeeping of `owned` and `transient`): it is the number
\* of claims of the generated code and of words.
THEOREM CountsAreExact == Spec => []CountExact
<1>1. OwnInv => CountExact
  <2> SUFFICES ASSUME OwnInv, lifted = {}, NEW a \in Addr, mem[a] = "heap"
               PROVE  hdr[a] = ext[a] + Cardinality(Heap!Words(a))
    BY HeapSize DEF CountExact, Heap!CountExact
  <2>1. Core
    BY DEF OwnInv
  <2>2. Excess(a) = 0 /\ hdr[a] \in Int
    BY <2>1 DEF Core, Counts, Typed, HeapTyped
  <2>3. PICK h, c, w : h = hdr[a] /\ c = Claims(a) /\ w = Cardinality(Heap!Words(a))
    OBVIOUS
  <2>4. h \in Int /\ c \in Nat /\ w \in Nat /\ h - c - w = 0
    BY <2>1, <2>2, <2>3, ClaimsAre, WordsFinite DEF Core, Excess
  <2>5. h = c + w
    BY <2>4
  <2>6. ext[a] = Claims(a)
    BY DEF ext
  <2> QED
    BY <2>3, <2>5, <2>6
<1> QED
  BY Inductive, <1>1, PTL

\* Programs whose hazards only leave something behind are never short of a
\* count: what the code will give back is covered, so nothing is freed early.
THEOREM CountsCover == Spec => [](lifted \subseteq Leaks => CountCovers)
<1>1. OwnInv => (lifted \subseteq Leaks => CountCovers)
  <2> SUFFICES ASSUME Core, NEW a \in Addr, mem[a] = "heap"
               PROVE  hdr[a] >= Claims(a) + Cardinality(Heap!Words(a))
    BY DEF CountCovers, OwnInv
  <2>1. Excess(a) >= 0 /\ hdr[a] \in Int
    BY DEF Core, Counts, Typed, HeapTyped
  <2>2. PICK h, c, w : h = hdr[a] /\ c = Claims(a) /\ w = Cardinality(Heap!Words(a))
    OBVIOUS
  <2>3. h \in Int /\ c \in Nat /\ w \in Nat /\ h - c - w >= 0
    BY <2>1, <2>2, ClaimsAre, WordsFinite DEF Core, Excess
  <2>4. h >= c + w
    BY <2>3
  <2> QED
    BY <2>2, <2>4
<1> QED
  BY Inductive, <1>1, PTL

\* In such a program every reference still to be used is to a value that is
\* there: nothing is used after it was freed (produces_owned, close_block,
\* release_all_open).
THEOREM NothingUsedAfterFree == Spec => [](lifted \subseteq Leaks => Usable)
<1>1. OwnInv => (lifted \subseteq Leaks => Usable)
  <2> SUFFICES ASSUME Core PROVE Usable
    BY DEF OwnInv
  <2>1. due \in Seq(Addr) /\ frames \in Seq(FrameType) /\ Dues
    BY DEF Core, Typed
  <2>2. \A k \in 1 .. Len(due) : Live(due[k])
    <3>1. \A k \in DOMAIN due : due[k] \in Addr
      BY <2>1
    <3>2. DOMAIN due = 1 .. Len(due)
      BY <2>1
    <3> QED
      BY <2>1, <3>1, <3>2 DEF Dues, Live
  <2>3. ASSUME NEW n \in 1 .. Len(frames)
        PROVE  /\ \A k \in 1 .. Len(frames[n].vals) : Live(frames[n].vals[k].ref)
               /\ \A k \in 1 .. Len(frames[n].spent) : Live(frames[n].spent[k])
               /\ \A l \in 1 .. Len(frames[n].loops) : frames[n].loops[l].arr # Null => Live(frames[n].loops[l].arr)
               /\ \A b \in 1 .. Len(frames[n].blocks) : \A k \in 1 .. Len(frames[n].blocks[b].names) :
                    frames[n].blocks[b].names[k].ref # Null => Live(frames[n].blocks[b].names[k].ref)
    <3>1. n \in DOMAIN frames /\ frames[n] \in FrameType
      BY <2>1
    <3>2. PICK f : f = frames[n]
      OBVIOUS
    <3>3. f \in FrameType
      BY <3>1, <3>2
    <3>4. \A k \in DOMAIN f.vals : Live(f.vals[k].ref)
      BY <3>1, <3>2, <3>3, FrameParts, RefsLive DEF Live
    <3>5. \A k \in DOMAIN f.spent : Live(f.spent[k])
      BY <3>1, <3>2, <3>3, FrameParts, RefsLive DEF Live
    <3>6. \A l \in DOMAIN f.loops : f.loops[l].arr # Null => Live(f.loops[l].arr)
      BY <3>1, <3>2, <3>3, FrameParts, RefsLive DEF Live
    <3>7. \A b \in DOMAIN f.blocks : \A k \in DOMAIN f.blocks[b].names :
            f.blocks[b].names[k].ref # Null => Live(f.blocks[b].names[k].ref)
      BY <3>1, <3>2, <3>3, FrameParts, RefsLive DEF Live
    <3>8. /\ DOMAIN f.vals = 1 .. Len(f.vals) /\ DOMAIN f.spent = 1 .. Len(f.spent)
          /\ DOMAIN f.loops = 1 .. Len(f.loops) /\ DOMAIN f.blocks = 1 .. Len(f.blocks)
      BY <3>3, FrameParts
    <3>9. ASSUME NEW b \in DOMAIN f.blocks
          PROVE  DOMAIN f.blocks[b].names = 1 .. Len(f.blocks[b].names)
      <4>1. f.blocks[b].names \in Seq(EntryType)
        BY <3>3, FrameParts
      <4> QED
        BY <4>1
    <3> QED
      BY <3>2, <3>4, <3>5, <3>6, <3>7, <3>8, <3>9
  <2> QED
    BY <2>2, <2>3 DEF Usable
<1> QED
  BY Inductive, <1>1, PTL

\* In such a program every part of the state keeps its type, the code
\* generator's bookkeeping and the heap alike.
THEOREM TypeCorrect == Spec => [](lifted \subseteq Leaks => TypeOK)
<1>1. OwnInv => (lifted \subseteq Leaks => TypeOK)
  <2> SUFFICES ASSUME Core PROVE TypeOK
    BY DEF OwnInv
  <2>1. Typed /\ HeapTyped /\ frames \in Seq(FrameType)
    BY DEF Core, Typed
  <2>2. ext \in [Addr -> Nat]
    BY <2>1, ClaimsAre DEF ext
  <2>3. Heap!TypeOK
    BY <2>1, <2>2 DEF Heap!TypeOK, HeapTyped, Heap!Idx
  <2>4. ASSUME NEW n \in DOMAIN frames
        PROVE  /\ frames[n].blocks # <<>>
               /\ \A l \in DOMAIN frames[n].loops : frames[n].loops[l].depth <= Len(frames[n].blocks)
    <3>1. Shape(frames[n]) /\ LoopShape(frames[n]) /\ frames[n] \in FrameType
      BY <2>1 DEF Core, FrameOK
    <3>2. ASSUME NEW l \in DOMAIN frames[n].loops
          PROVE  frames[n].loops[l].depth <= Len(frames[n].blocks)
      <4>1. frames[n].loops[l].depth \in DOMAIN frames[n].blocks
        BY <3>1 DEF LoopShape, LoopAt
      <4>2. DOMAIN frames[n].blocks = 1 .. Len(frames[n].blocks) /\ Len(frames[n].blocks) \in Nat
        BY <3>1, FrameParts
      <4>3. PICK d, m : d = frames[n].loops[l].depth /\ m = Len(frames[n].blocks)
        OBVIOUS
      <4>4. m \in Nat /\ d \in 1 .. m
        BY <4>1, <4>2, <4>3
      <4>5. d <= m
        BY <4>4
      <4> QED
        BY <4>3, <4>5
    <3> QED
      BY <3>1, <3>2 DEF Shape
  <2> QED
    BY <2>1, <2>3, <2>4 DEF TypeOK, Typed, HeapTyped
<1> QED
  BY Inductive, <1>1, PTL

\* Where every member of a finite set has another above it, the set is empty.
LEMMA NoneOnTop ==
  ASSUME NEW H, IsFiniteSet(H), NEW rank \in [H -> Nat],
         \A a \in H : \E b \in H : rank[b] > rank[a]
  PROVE  H = {}
<1> SUFFICES ASSUME H # {} PROVE FALSE
  OBVIOUS
<1> DEFINE Above(a) == {b \in H : rank[b] > rank[a]}
           S == {Cardinality(Above(a)) : a \in H}
<1>1. \A a \in H : IsFiniteSet(Above(a)) /\ Cardinality(Above(a)) \in Nat
  BY FS_Subset, FS_CardinalityType
<1>2. PICK n \in S : \A m \in S : n <= m
  <2>1. S \in SUBSET Nat /\ S # {}
    BY <1>1
  <2> HIDE DEF S
  <2> QED
    BY <2>1, LeastNat
<1>3. PICK a \in H : n = Cardinality(Above(a))
  BY <1>2
<1>4. PICK b \in H : rank[b] > rank[a]
  OBVIOUS
<1>5. Above(b) \subseteq Above(a) /\ b \in Above(a) /\ b \notin Above(b)
  BY <1>4
<1>6. Cardinality(Above(a)) <= Cardinality(Above(b))
  BY <1>2, <1>3
<1>7. Cardinality(Above(b)) <= Cardinality(Above(a)) /\ Cardinality(Above(a)) # Cardinality(Above(b))
  <2> HIDE DEF Above
  <2> QED
    BY <1>1, <1>5, FS_Subset
<1>8. Cardinality(Above(a)) \in Nat /\ Cardinality(Above(b)) \in Nat
  BY <1>1
<1> HIDE DEF Above
<1> QED
  BY <1>6, <1>7, <1>8

\* When a program without a hazard has ended, what is still on the heap was lost
\* inside a consumed expression, or is inside something that was: anything else
\* would be owned by a value of its kind that ranks above it, without end.
THEOREM OnlyTheLostRemain == Spec => []OnlyLostRemains
<1>1. OwnInv => OnlyLostRemains
  <2> SUFFICES ASSUME Core, lifted = {}, frames = <<>>, due = <<>>, dropping = <<>>
               PROVE  \A a \in Addr : mem[a] = "heap" => \E b \in Addr : lost[b] > 0 /\ a \in Inside(b)
    BY DEF OnlyLostRemains, OwnInv
  <2> DEFINE Apart(a) == \A b \in Addr : lost[b] > 0 => a \notin Inside(b)
             H == {a \in Addr : mem[a] = "heap" /\ Apart(a)}
  <2>1. PICK rank \in [Addr -> Nat] : OwnersAbove(rank)
    BY DEF Core, NoCircle
  <2>2. PICK inner : inner = [a \in H |-> rank[a]]
    OBVIOUS
  <2>3. inner \in [H -> Nat] /\ \A a \in H : inner[a] = rank[a]
    BY <2>2
  <2>4. IsFiniteSet(H)
    BY OwnershipAssumption, FS_Subset
  <2>5. Typed /\ HeapTyped /\ Placed /\ Counts
    BY DEF Core, Typed
  <2>6. ASSUME NEW a \in H PROVE \E b \in H : inner[b] > inner[a]
    <3>1. a \in Addr /\ mem[a] = "heap" /\ Apart(a)
      OBVIOUS
    <3>2. ~(lost[a] > 0)
      BY <3>1, InsideSelf
    <3>3. Claims(a) = 0
      <4>1. Total(frames, a) = 0
        BY TotalEmpty
      <4>2. Cardinality(Places(due, a)) = 0
        BY CountsEmpty
      <4>3. Claims(a) = Total(frames, a) + Cardinality(Places(due, a)) + lost[a] /\ lost[a] \in Nat
        BY <2>5, <3>1, ClaimsSum
      <4>4. PICK l : l = lost[a]
        OBVIOUS
      <4>5. l \in Nat /\ ~(l > 0) /\ Claims(a) = 0 + 0 + l
        BY <3>2, <4>1, <4>2, <4>3, <4>4
      <4> QED
        BY <4>5
    <3>4. hdr[a] # 0
      <4>1. DOMAIN dropping = {}
        OBVIOUS
      <4> QED
        BY <2>5, <3>1, <4>1 DEF Placed
    <3>5. Heap!Words(a) # {}
      <4>1. SUFFICES ASSUME Heap!Words(a) = {} PROVE FALSE
        OBVIOUS
      <4>2. Cardinality(Heap!Words(a)) = 0
        BY <4>1, FS_EmptySet
      <4>3. Excess(a) = 0 /\ hdr[a] \in Int
        BY <2>5, <3>1 DEF Counts, HeapTyped
      <4>4. hdr[a] - 0 - 0 = 0
        BY <3>3, <4>2, <4>3 DEF Excess
      <4> QED
        BY <3>4, <4>3, <4>4
    <3>6. PICK b \in Addr, i \in 1 .. Width : body[b][i] = a
      BY <3>5 DEF Heap!Words, Heap!Idx
    <3>7. a # Null
      BY <3>1, OwnershipAssumption
    <3>8. mem[b] = "heap"
      <4>1. SUFFICES ASSUME mem[b] # "heap" PROVE FALSE
        OBVIOUS
      <4>2. body[b] = [j \in 1 .. Width |-> Null]
        BY <2>5, <4>1 DEF Placed, Heap!Empty, Heap!Idx
      <4>3. body[b][i] = Null
        BY <4>2
      <4> QED
        BY <3>6, <3>7, <4>3
    <3>9. Apart(b)
      <4>1. SUFFICES ASSUME NEW c \in Addr, lost[c] > 0, b \in Inside(c) PROVE FALSE
        OBVIOUS
      <4>2. a \in Inside(c)
        BY <2>5, <3>6, <3>7, <4>1, InsideWord
      <4> QED
        BY <3>1, <4>1, <4>2
    <3>10. b \in H
      BY <3>8, <3>9
    <3>11. rank[b] > rank[a]
      BY <2>1, <3>6, <3>7 DEF OwnersAbove
    <3> QED
      BY <2>3, <3>10, <3>11
  <2>7. H = {}
    <3> HIDE DEF H
    <3> QED
      BY <2>3, <2>4, <2>6, NoneOnTop
  <2>8. SUFFICES ASSUME NEW a \in Addr, mem[a] = "heap"
                 PROVE  \E b \in Addr : lost[b] > 0 /\ a \in Inside(b)
    OBVIOUS
  <2>9. ~Apart(a)
    BY <2>7, <2>8
  <2> QED
    BY <2>9
<1> QED
  BY Inductive, <1>1, PTL

----------------------------------------------------------------------------
\* The discipline implements the heap's promise.  In a program without a hazard
\* the claims on a value are its count less the words that hold it, so what a
\* step does to the heap's outside owners shows in the heap itself.

\* A step of the heap, or none.
HeapSteps == [Heap!Next]_(Heap!vars)

\* Two consecutive states of a program without a hazard.
Sound == Core /\ Core' /\ lifted = {} /\ lifted' = {}

\* The outside owners of a heap value are its count less the words that hold
\* it.
LEMMA ExtIs ==
  ASSUME Core, lifted = {}
  PROVE  /\ ext \in [Addr -> Nat]
         /\ \A a \in Addr : /\ ext[a] = Stock(a)
                            /\ mem[a] = "heap" => /\ ext[a] = Claims(a)
                                                  /\ hdr[a] = ext[a] + Cardinality(Heap!Words(a))
<1>1. Typed /\ HeapTyped /\ Counts
  BY DEF Core, Typed
<1>2. ext \in [Addr -> Nat]
  BY <1>1, ClaimsAre DEF ext
<1>3. ASSUME NEW a \in Addr
      PROVE  /\ ext[a] = Stock(a)
             /\ mem[a] = "heap" => ext[a] = Claims(a) /\ hdr[a] = ext[a] + Cardinality(Heap!Words(a))
  <2>1. CASE mem[a] = "heap"
    <3>1. PICK h, c, w : h = hdr[a] /\ c = Claims(a) /\ w = Cardinality(Heap!Words(a))
      OBVIOUS
    <3>2. Excess(a) = 0
      BY <1>1, <2>1 DEF Counts
    <3>3. h \in Int /\ c \in Nat /\ w \in Nat /\ h - c - w = 0
      BY <1>1, <3>1, <3>2, ClaimsAre, WordsFinite DEF HeapTyped, Excess
    <3>4. c = h - w /\ h = c + w
      BY <3>3
    <3>5. ext[a] = c
      BY <2>1, <3>1 DEF ext
    <3>6. Stock(a) = h - w
      BY <2>1, <3>1 DEF Stock
    <3> QED
      BY <3>1, <3>4, <3>5, <3>6
  <2>2. CASE mem[a] # "heap"
    BY <2>2 DEF ext, Stock
  <2> QED
    BY <2>1, <2>2
<1> QED
  BY <1>2, <1>3

\* ExtIs after a step.
LEMMA ExtIsNext ==
  ASSUME Core', lifted' = {}
  PROVE  /\ ext' \in [Addr -> Nat]
         /\ \A a \in Addr : ext'[a] = Stock(a)'
<1>1. Typed' /\ HeapTyped' /\ Counts'
  BY DEF Core, Typed
<1>2. \A a \in Addr : Claims(a)' \in Nat
  <2>1. TAKE a \in Addr
  <2>2. PICK x, y, z, c : x = Total(frames', a) /\ y = Cardinality(Places(due', a)) /\ z = lost'[a] /\ c = Claims(a)'
    OBVIOUS
  <2>3. c = x + y + z /\ x \in Nat /\ y \in Nat /\ z \in Nat
    BY <1>1, <2>2, ClaimsSumNext
  <2>4. c \in Nat
    BY <2>3
  <2> QED
    BY <2>2, <2>4
<1>3. ext' \in [Addr -> Nat]
  BY <1>2 DEF ext
<1>4. ASSUME NEW a \in Addr
      PROVE  ext'[a] = Stock(a)'
  <2>1. CASE mem'[a] = "heap"
    <3>1. PICK h, c, w : h = hdr'[a] /\ c = Claims(a)' /\ w = Cardinality(Heap!Words(a)')
      OBVIOUS
    <3>2. Excess(a)' = 0
      BY <1>1, <2>1 DEF Counts
    <3>3. h \in Int /\ c \in Nat /\ w \in Nat /\ h - c - w = 0
      BY <1>1, <1>2, <3>1, <3>2, WordsFiniteNext DEF HeapTyped, Excess
    <3>4. c = h - w
      BY <3>3
    <3>5. ext'[a] = c
      BY <2>1, <3>1 DEF ext
    <3>6. Stock(a)' = h - w
      BY <2>1, <3>1 DEF Stock
    <3> QED
      BY <3>1, <3>4, <3>5, <3>6
  <2>2. CASE mem'[a] # "heap"
    BY <2>2 DEF ext, Stock
  <2> QED
    BY <2>1, <2>2
<1> QED
  BY <1>3, <1>4

\* Where the stock of every value stays, so do its outside owners.
LEMMA ExtStays ==
  ASSUME Sound, \A a \in Addr : Stock(a)' = Stock(a)
  PROVE  ext' = ext
<1>1. ext \in [Addr -> Nat] /\ ext' \in [Addr -> Nat] /\ \A a \in Addr : ext'[a] = ext[a]
  BY ExtIs, ExtIsNext DEF Sound
<1> QED
  BY <1>1

\* A step that leaves the heap alone leaves its outside owners alone.
LEMMA StillMoves ==
  ASSUME Sound, UNCHANGED heapVars
  PROVE  HeapSteps
<1>1. mem' = mem /\ hdr' = hdr /\ body' = body /\ dropping' = dropping
  BY DEF heapVars
<1>2. \A a \in Addr : Stock(a)' = Stock(a)
  BY <1>1, SameWords DEF Stock
<1>3. ext' = ext
  BY <1>2, ExtStays
<1> QED
  BY <1>1, <1>3 DEF HeapSteps, Heap!vars

\* scratch_bytes is heap_bytes or frame_bytes.
LEMMA ScratchMoves ==
  ASSUME Sound, Running, NEW a \in Addr, Scratch(a)
  PROVE  HeapSteps
<1>1. HeapGood /\ dropping = <<>>
  BY Going DEF Sound
<1>2. /\ mem[a] = "none"
      /\ mem' = [mem EXCEPT ![a] = IF F.transient THEN "frame" ELSE "heap"]
      /\ hdr' = [hdr EXCEPT ![a] = IF F.transient THEN Heap!Immortal ELSE 1]
      /\ body' = body /\ dropping' = dropping
  BY DEF Scratch
<1>3. \A b \in Addr : Stock(b)' = Stock(b) + One(b = a /\ ~F.transient)
  BY <1>1, Scratched
<1>4. /\ ext \in [Addr -> Nat] /\ ext' \in [Addr -> Nat]
      /\ \A b \in Addr : ext[b] = Stock(b) /\ ext'[b] = Stock(b)'
  BY ExtIs, ExtIsNext DEF Sound
<1>5. CASE F.transient
  <2>1. ASSUME NEW b \in Addr PROVE ext'[b] = ext[b]
    <3>1. One(b = a /\ ~F.transient) = 0 /\ ext[b] \in Nat
      BY <1>4, <1>5 DEF One
    <3>2. ext'[b] = ext[b] + One(b = a /\ ~F.transient)
      BY <1>3, <1>4
    <3> QED
      BY <3>1, <3>2
  <2>2. ext' = ext
    BY <1>4, <2>1
  <2>3. mem' = [mem EXCEPT ![a] = "frame"] /\ hdr' = [hdr EXCEPT ![a] = Heap!Immortal]
    BY <1>2, <1>5
  <2>4. Heap!FrameAlloc(a)
    BY <1>1, <1>2, <2>2, <2>3 DEF Heap!FrameAlloc
  <2> QED
    BY <2>4 DEF HeapSteps, Heap!Next
<1>6. CASE ~F.transient
  <2>1. ext[a] = 0
    BY <1>2, <1>4 DEF Stock
  <2>2. ASSUME NEW b \in Addr PROVE ext'[b] = IF b = a THEN 1 ELSE ext[b]
    <3>1. One(b = a /\ ~F.transient) = (IF b = a THEN 1 ELSE 0) /\ ext[b] \in Nat
      BY <1>4, <1>6 DEF One
    <3>2. ext'[b] = ext[b] + One(b = a /\ ~F.transient)
      BY <1>3, <1>4
    <3> QED
      BY <2>1, <3>1, <3>2
  <2>3. ext' = [ext EXCEPT ![a] = 1]
    BY <1>4, <2>2
  <2>4. mem' = [mem EXCEPT ![a] = "heap"] /\ hdr' = [hdr EXCEPT ![a] = 1]
    BY <1>2, <1>6
  <2>5. Heap!HeapAlloc(a)
    BY <1>1, <1>2, <2>3, <2>4, OwnershipAssumption DEF Heap!HeapAlloc
  <2> QED
    BY <2>5 DEF HeapSteps, Heap!Next
<1> QED
  BY <1>5, <1>6

\* What has a count has an owner.
LEMMA CountedHeld ==
  ASSUME Core, lifted = {}, NEW r \in Addr, mem[r] = "heap", hdr[r] > 0
  PROVE  Heap!Held(r)
<1>1. hdr[r] = ext[r] + Cardinality(Heap!Words(r)) /\ ext[r] \in Nat
  BY ExtIs
<1>2. CASE Heap!Words(r) = {}
  <2>1. Cardinality(Heap!Words(r)) = 0
    BY <1>2, FS_EmptySet
  <2>2. PICK e : e = ext[r]
    OBVIOUS
  <2>3. e \in Nat /\ e + 0 > 0
    BY <1>1, <2>1, <2>2
  <2>4. e > 0
    BY <2>3
  <2> QED
    BY <2>2, <2>4 DEF Heap!Held
<1>3. CASE Heap!Words(r) # {}
  BY <1>3 DEF Heap!Held
<1> QED
  BY <1>2, <1>3

\* gen_retain for whoever takes a borrowed operand.
LEMMA RetainMoves ==
  ASSUME Sound, Running, NEW r \in Addr, NEW c \in BOOLEAN, RetainIf(c, r),
         mem' = mem, body' = body, dropping' = dropping, payload' = payload,
         mem[r] # "none", mem[r] = "heap" => hdr[r] > 0
  PROVE  HeapSteps
<1>1. HeapGood /\ dropping = <<>> /\ HeapTyped /\ Placed
  BY Going DEF Sound, HeapGood
<1>2. mem[r] \in {"heap", "const", "frame"}
  BY <1>1 DEF HeapTyped
<1>3. CASE ~c \/ mem[r] # "heap"
  <2>1. hdr' = hdr
    BY <1>1, <1>2, <1>3 DEF RetainIf, Heap!Bumped, Placed
  <2> QED
    BY <2>1, StillMoves DEF heapVars
<1>4. CASE c /\ mem[r] = "heap"
  <2>1. hdr[r] < MaxCount /\ hdr' = Heap!Bumped(r)
    BY <1>4 DEF RetainIf
  <2>2. c => (mem[r] \in {"const", "frame"} \/ (mem[r] = "heap" /\ hdr[r] > 0))
    BY <1>4
  <2>3. \A b \in Addr : Stock(b)' = Stock(b) + One(c /\ b = r /\ mem[b] = "heap")
    BY <1>1, <2>2, Retained
  <2>4. /\ ext \in [Addr -> Nat] /\ ext' \in [Addr -> Nat]
        /\ \A b \in Addr : ext[b] = Stock(b) /\ ext'[b] = Stock(b)'
    BY ExtIs, ExtIsNext DEF Sound
  <2>5. ASSUME NEW b \in Addr PROVE ext'[b] = IF b = r THEN ext[b] + 1 ELSE ext[b]
    <3>1. One(c /\ b = r /\ mem[b] = "heap") = (IF b = r THEN 1 ELSE 0) /\ ext[b] \in Nat
      BY <1>4, <2>4 DEF One
    <3>2. ext'[b] = ext[b] + One(c /\ b = r /\ mem[b] = "heap")
      BY <2>3, <2>4
    <3> QED
      BY <3>1, <3>2
  <2>6. ext' = [ext EXCEPT ![r] = @ + 1]
    BY <2>4, <2>5
  <2>7. ext[r] < MaxCount
    <3>1. hdr[r] = ext[r] + Cardinality(Heap!Words(r))
      BY <1>4, ExtIs DEF Sound
    <3>2. PICK h, e, w, m : h = hdr[r] /\ e = ext[r] /\ w = Cardinality(Heap!Words(r)) /\ m = MaxCount
      OBVIOUS
    <3>3. h = e + w /\ e \in Nat /\ w \in Nat /\ m \in Nat /\ h < m
      BY <2>1, <2>4, <3>1, <3>2, WordsFinite, OwnershipAssumption
    <3>4. e < m
      BY <3>3
    <3> QED
      BY <3>2, <3>4
  <2>8. Heap!Held(r)
    BY <1>4, CountedHeld DEF Sound
  <2>9. Heap!Retain(r)
    BY <1>1, <1>4, <2>1, <2>6, <2>7, <2>8 DEF Heap!Retain
  <2> QED
    BY <2>9 DEF HeapSteps, Heap!Next
<1> QED
  BY <1>3, <1>4

\* A word is filled with what was built for it, or with what somebody names.
LEMMA StoreMoves ==
  ASSUME Sound, Running, NEW p \in Addr, NEW v \in Addr, NEW i \in 1 .. Width, NEW c \in BOOLEAN,
         RetainIf(c, v), mem' = mem, dropping' = dropping, payload' = payload,
         Heap!Building(p), v # p, \A b \in Addr, j \in 1 .. Width : body[b][j] # p,
         mem[v] \in {"heap", "const"}, mem[v] = "heap" => hdr[v] > 0,
         body[p][i] = Null, body' = [body EXCEPT ![p][i] = v]
  PROVE  HeapSteps
<1>1. HeapGood /\ dropping = <<>> /\ HeapTyped /\ Placed
  BY Going DEF Sound, HeapGood
<1>2. mem[p] = "heap"
  BY DEF Heap!Building
<1>3. \A b \in Addr : Stock(b)' = Stock(b) - One(~c /\ b = v /\ mem[b] = "heap")
  <2>1. c /\ mem[v] = "heap" => hdr[v] > 0
    OBVIOUS
  <2>2. CountsStored(v, c)
    BY <1>1, <1>2, <2>1, Stored
  <2> QED
    BY <2>2 DEF CountsStored
<1>4. /\ ext \in [Addr -> Nat] /\ ext' \in [Addr -> Nat]
      /\ \A b \in Addr : ext[b] = Stock(b) /\ ext'[b] = Stock(b)'
  BY ExtIs, ExtIsNext DEF Sound
<1>5. CASE mem[v] = "heap" /\ ~c
  <2>1. ASSUME NEW b \in Addr PROVE ext'[b] = IF b = v THEN ext[b] - 1 ELSE ext[b]
    <3>1. One(~c /\ b = v /\ mem[b] = "heap") = (IF b = v THEN 1 ELSE 0) /\ ext[b] \in Nat
      BY <1>4, <1>5 DEF One
    <3>2. ext'[b] = ext[b] - One(~c /\ b = v /\ mem[b] = "heap")
      BY <1>3, <1>4
    <3> QED
      BY <3>1, <3>2
  <2>2. ext' = [ext EXCEPT ![v] = @ - 1]
    BY <1>4, <2>1
  <2>3. ext[v] > 0
    <3>1. PICK e, d : e = ext[v] /\ d = ext'[v]
      OBVIOUS
    <3>2. e \in Nat /\ d \in Nat /\ d = e - 1
      BY <1>4, <2>1, <3>1
    <3>3. e > 0
      BY <3>2
    <3> QED
      BY <3>1, <3>3
  <2>4. hdr' = hdr
    BY <1>5 DEF RetainIf
  <2>5. Heap!Store(p, i, v)
    BY <1>1, <1>5, <2>2, <2>3, <2>4 DEF Heap!Store
  <2> QED
    BY <2>5 DEF HeapSteps, Heap!Next, Heap!Idx
<1>6. CASE mem[v] = "const" \/ c
  <2>1. ASSUME NEW b \in Addr PROVE ext'[b] = ext[b]
    <3>1. One(~c /\ b = v /\ mem[b] = "heap") = 0 /\ ext[b] \in Nat
      BY <1>4, <1>6 DEF One
    <3>2. ext'[b] = ext[b] - One(~c /\ b = v /\ mem[b] = "heap")
      BY <1>3, <1>4
    <3> QED
      BY <3>1, <3>2
  <2>2. ext' = ext
    BY <1>4, <2>1
  <2>3. hdr' = Heap!Bumped(v)
    <3>1. CASE c
      BY <3>1 DEF RetainIf
    <3>2. CASE ~c
      <4>1. hdr[v] = Heap!Immortal /\ hdr' = hdr
        BY <1>1, <1>6, <3>2 DEF RetainIf, Placed
      <4> QED
        BY <4>1 DEF Heap!Bumped
    <3> QED
      BY <3>1, <3>2
  <2>4. mem[v] = "const" \/ (mem[v] = "heap" /\ Heap!Held(v))
    BY CountedHeld DEF Sound
  <2>5. Heap!StoreShared(p, i, v)
    BY <1>1, <2>2, <2>3, <2>4 DEF Heap!StoreShared
  <2> QED
    BY <2>5 DEF HeapSteps, Heap!Next, Heap!Idx
<1> QED
  BY <1>5, <1>6

\* Whatever takes the operand on top, retaining it where it is borrowed.
LEMMA TakenMoves ==
  ASSUME Sound, Running, Done, NEW v, v = Top(F.vals), RetainIf(v.st = "borrow", v.ref),
         mem' = mem, body' = body, dropping' = dropping, payload' = payload
  PROVE  HeapSteps
<1>1. PICK c, r : c \in BOOLEAN /\ (c <=> v.st = "borrow") /\ r = v.ref
  OBVIOUS
<1>2. v.ref \in Addr /\ mem[v.ref] # "none" /\ (mem[v.ref] = "heap" => hdr[v.ref] > 0)
  BY TopVal DEF Sound
<1>3. r \in Addr /\ mem[r] # "none" /\ (mem[r] = "heap" => hdr[r] > 0) /\ c \in BOOLEAN
  BY <1>1, <1>2
<1>4. RetainIf(c, r)
  BY <1>1 DEF RetainIf
<1>5. mem[r] = "heap" => hdr[r] > 0
  BY <1>3
<1> QED
  BY <1>3, <1>4, <1>5, RetainMoves

\* What a value is built for.
LEMMA BuildsMove ==
  ASSUME Sound, NEW a \in Addr,
         \/ Build(a) \/ NullaryVariant(a) \/ BeginAggregate(a)
         \/ \E k \in {1, 2}, frees \in BOOLEAN : Builtin(k, a, frees)
         \/ \E i \in 1 .. Width : ArraySet(i, a)
  PROVE  HeapSteps
<1>1. Running
  BY DEF Build, NullaryVariant, BeginAggregate, Builtin, ArraySet, Evaluating
<1>2. Scratch(a)
  <2>1. CASE Build(a) \/ NullaryVariant(a) \/ BeginAggregate(a)
    BY <2>1 DEF Build, NullaryVariant, BeginAggregate
  <2>2. CASE \E k \in {1, 2}, frees \in BOOLEAN : Builtin(k, a, frees)
    BY <2>2 DEF Builtin
  <2>3. CASE \E i \in 1 .. Width : ArraySet(i, a)
    <3>1. PICK i \in 1 .. Width : ArraySet(i, a)
      BY <2>3
    <3>2. F.transient
      BY <3>1 DEF ArraySet, Lift, Sound
    <3>3. /\ mem[a] = "none" /\ mem' = [mem EXCEPT ![a] = IF F.transient THEN "frame" ELSE "heap"]
          /\ hdr' = [hdr EXCEPT ![a] = IF F.transient THEN Heap!Immortal ELSE 1]
          /\ payload' = [payload EXCEPT ![a] = Null] /\ dropping' = dropping
          /\ body' = IF F.transient THEN body
                      ELSE [body EXCEPT ![a] = [body[Outer.ref] EXCEPT ![i] = Top(F.vals).ref]]
      BY <3>1 DEF ArraySet
    <3>4. body' = body
      BY <3>2, <3>3
    <3> QED
      BY <3>3, <3>4 DEF Scratch
  <2> QED
    BY <2>1, <2>2, <2>3
<1> QED
  BY <1>1, <1>2, ScratchMoves

\* An element is stored: in a heap value, or in one on the frame that owns nothing.
LEMMA StoreElementMoves ==
  ASSUME Sound, NEW i \in 1 .. Width, StoreElement(i)
  PROVE  HeapSteps
<1>1. PICK w, p, c, s, v : /\ w = Top(F.vals) /\ p = Outer.ref /\ c \in BOOLEAN /\ (c <=> w.st = "borrow")
                           /\ s = F.vals /\ v = w.ref
  OBVIOUS
<1>2. /\ Running /\ Done /\ Len(s) >= 2 /\ Outer.st = "building"
      /\ mem' = mem /\ dropping' = dropping /\ payload' = payload
  BY <1>1 DEF StoreElement, Evaluating
<1>3. RetainIf(c, v) /\ RetainIf(w.st = "borrow", w.ref)
  BY <1>1 DEF StoreElement, RetainIf
<1>4. /\ mem[p] = "heap" => /\ mem[v] # "frame" /\ body[p][i] = Null
                            /\ body' = [body EXCEPT ![p][i] = v]
      /\ mem[p] # "heap" => body' = body
  <2>1. Lift("frameWord", mem[w.ref] # "frame") => mem[w.ref] # "frame"
    BY DEF Lift, Sound
  <2> QED
    BY <1>1, <2>1 DEF StoreElement
<1>5. /\ s \in Seq(OperandType) /\ s # <<>> /\ v \in Addr /\ mem[v] # "none"
      /\ mem[v] = "heap" => hdr[v] > 0
      /\ w.st = "borrow" => Guard(Len(frames), Len(F.blocks), v)
      /\ Len(s) \in DOMAIN F.vals /\ F.vals[Len(s)] = w /\ HeapTyped
  <2>1. Core
    BY DEF Sound
  <2> QED
    BY <1>1, <1>2, <2>1, TopVal
<1>6. /\ HeapGood /\ Len(frames) \in DOMAIN frames /\ Typed /\ Counts /\ Lives(F)
      /\ F = frames[Len(frames)] /\ F \in FrameType
  <2>1. Core
    BY DEF Sound
  <2> QED
    BY <1>2, <2>1, Going
<1>7. /\ Len(s) - 1 \in DOMAIN F.vals /\ F.vals[Len(s) - 1].ref = p /\ F.vals[Len(s) - 1].st = "building"
      /\ p \in Addr /\ (mem[p] = "heap" => hdr[p] = 1)
  <2>1. DOMAIN F.vals = 1 .. Len(s) /\ Len(s) \in Nat
    BY <1>1, <1>5
  <2>2. Len(s) - 1 \in DOMAIN F.vals
    BY <1>2, <2>1
  <2>3. Outer = F.vals[Len(s) - 1]
    BY <1>1 DEF Outer
  <2>4. p \in Addr /\ LiveVal(F.vals[Len(s) - 1])
    BY <1>1, <1>6, <2>2, <2>3, FrameParts DEF Lives
  <2> QED
    BY <1>1, <1>2, <2>2, <2>3, <2>4 DEF LiveVal
<1>8. CASE mem[p] = "heap"
  <2>1. PICK n, k : n = Len(frames) /\ k = Len(s) - 1
    OBVIOUS
  <2>2. /\ n \in DOMAIN frames /\ k \in DOMAIN frames[n].vals /\ frames[n].vals[k].st = "building"
        /\ frames[n].vals[k].ref = p /\ p \in Addr /\ hdr[p] = 1
    BY <1>6, <1>7, <1>8, <2>1
  <2>3. Typed /\ Counts /\ HeapGood /\ mem[p] = "heap"
    BY <1>6, <1>8
  <2>4. /\ \A b \in Addr, j \in 1 .. Width : body[b][j] # p
        /\ Claims(p) = 1
        /\ \A x \in Claimants(p) : x = <<n, <<2, k>>>>
        /\ \A m \in DOMAIN frames : \A d : \A r \in Addr : Guard(m, d, r) => r # p
    BY <2>2, <2>3, BuildingAlone
  <2>5. v # p
    <3>1. CASE w.st = "borrow"
      BY <1>5, <1>6, <2>4, <3>1
    <3>2. CASE w.st # "borrow"
      <4>1. ASSUME v = p PROVE FALSE
        <5>1. PICK h : h = Len(s)
          OBVIOUS
        <5>2. /\ n \in DOMAIN frames /\ h \in DOMAIN frames[n].vals /\ frames[n].vals[h].st # "borrow"
              /\ frames[n].vals[h].ref = p
          BY <1>1, <1>5, <1>6, <2>1, <3>2, <4>1, <5>1
        <5>3. <<n, <<2, h>>>> \in Claimants(p)
          BY <5>2, ValClaims
        <5>4. h = Len(s) - 1
          BY <2>1, <2>4, <5>3
        <5>5. Len(s) \in Nat
          BY <1>5
        <5> QED
          BY <5>1, <5>4, <5>5
      <4> QED
        BY <4>1
    <3> QED
      BY <3>1, <3>2
  <2>6. mem[v] \in {"heap", "const"}
    <3>1. mem[v] \in {"none", "heap", "frame", "const"}
      BY <1>5 DEF HeapTyped
    <3> QED
      BY <1>4, <1>5, <1>8, <3>1
  <2>7. Heap!Building(p)
    <3>1. ext[p] = Claims(p)
      BY <1>8, <2>2 DEF ext
    <3> QED
      BY <1>8, <2>2, <2>4, <3>1 DEF Heap!Building
  <2>8. mem[v] = "heap" => hdr[v] > 0
    BY <1>5
  <2>9. /\ Running /\ p \in Addr /\ v \in Addr /\ c \in BOOLEAN /\ RetainIf(c, v)
        /\ mem' = mem /\ dropping' = dropping /\ payload' = payload
        /\ body[p][i] = Null /\ body' = [body EXCEPT ![p][i] = v]
        /\ \A b \in Addr, j \in 1 .. Width : body[b][j] # p
    BY <1>1, <1>2, <1>3, <1>4, <1>5, <1>8, <2>2, <2>4
  <2> QED
    BY <2>5, <2>6, <2>7, <2>8, <2>9, StoreMoves
<1>9. CASE mem[p] # "heap"
  <2>1. body' = body
    BY <1>4, <1>9
  <2> QED
    BY <1>1, <1>2, <1>3, <2>1, TakenMoves
<1> QED
  BY <1>8, <1>9

\* A print ends: the frame values built for it go, and no word holds one.
LEMMA EndPrintMoves ==
  ASSUME Sound, EndPrint
  PROVE  HeapSteps
<1>1. PICK S : S = F.scratch
  OBVIOUS
<1>2. /\ Running /\ mem' = [a \in Addr |-> IF a \in S THEN "none" ELSE mem[a]]
      /\ hdr' = hdr /\ body' = body /\ dropping' = dropping /\ payload' = payload
  BY <1>1 DEF EndPrint, Evaluating
<1>3. Core
  BY DEF Sound
<1>4. /\ HeapTyped /\ dropping = <<>> /\ S \in SUBSET Addr /\ FrameOK(Len(frames)) /\ F = frames[Len(frames)]
  BY <1>1, <1>2, <1>3, Going DEF HeapGood
<1>5. mem \in [Addr -> {"none", "heap", "frame", "const"}]
  BY <1>4 DEF HeapTyped
<1>6. CASE S = {}
  <2>1. mem' = mem
    BY <1>2, <1>5, <1>6
  <2> QED
    BY <1>2, <2>1, StillMoves DEF heapVars
<1>7. CASE S # {}
  <2>1. ASSUME NEW a \in S PROVE mem[a] = "frame" /\ a \in Addr
    BY <1>1, <1>4 DEF FrameOK, ScratchAt
  <2>2. ASSUME NEW a \in S PROVE Heap!Words(a) = {}
    <3>1. SUFFICES ASSUME Heap!Words(a) # {} PROVE FALSE
      OBVIOUS
    <3>2. PICK b \in Addr, i \in 1 .. Width : body[b][i] = a
      BY <3>1 DEF Heap!Words, Heap!Idx
    <3>3. a # Null
      BY <2>1, OwnershipAssumption
    <3>4. mem[a] \in {"heap", "const"}
      BY <1>3, <3>2, <3>3, WordHolds
    <3> QED
      BY <2>1, <3>4
  <2>3. ext' = ext
    <3>1. ASSUME NEW a \in Addr PROVE Stock(a)' = Stock(a)
      <4>1. mem'[a] = "heap" <=> mem[a] = "heap"
        BY <1>2, <2>1
      <4>2. Heap!Words(a)' = Heap!Words(a)
        BY <1>2, SameWords
      <4> QED
        BY <1>2, <4>1, <4>2 DEF Stock
    <3> QED
      BY <3>1, ExtStays
  <2>4. Heap!Unwind(S)
    BY <1>2, <1>4, <1>7, <2>1, <2>2, <2>3 DEF Heap!Unwind
  <2> QED
    BY <1>4, <2>4 DEF HeapSteps, Heap!Next
<1> QED
  BY <1>6, <1>7

\* The next release call is an outside owner's.
LEMMA NextReleaseMoves ==
  ASSUME Sound, NextRelease
  PROVE  HeapSteps
<1>1. PICK h : h = Head(due)
  OBVIOUS
<1>2. /\ due # <<>> /\ dropping = <<>> /\ h \in Addr /\ mem[h] # "none"
      /\ Heap!LetGo(h) /\ mem' = mem /\ body' = body /\ payload' = payload
  BY <1>1 DEF NextRelease
<1>3. Core /\ Typed /\ HeapTyped /\ Placed /\ due \in Seq(Addr)
  BY DEF Sound, Core, Typed
<1>4. CASE mem[h] # "heap"
  <2>1. mem[h] \in {"none", "heap", "frame", "const"}
    BY <1>2, <1>3 DEF HeapTyped
  <2>2. hdr[h] = Heap!Immortal
    BY <1>2, <1>3, <1>4, <2>1 DEF Placed
  <2>3. hdr' = hdr /\ dropping' = dropping
    BY <1>2, <2>2 DEF Heap!LetGo
  <2> QED
    BY <1>2, <2>3, StillMoves DEF heapVars
<1>5. CASE mem[h] = "heap"
  <2>1. Places(due, h) # {}
    <3>1. 1 \in DOMAIN due /\ due[1] = h
      BY <1>1, <1>2, <1>3
    <3> QED
      BY <3>1 DEF Places
  <2>2. Claims(h) >= 1
    BY <1>2, <1>3, <2>1, Claimed
  <2>3. ext[h] = Claims(h) /\ hdr[h] = ext[h] + Cardinality(Heap!Words(h)) /\ ext[h] \in Nat
    BY <1>2, <1>5, ExtIs DEF Sound
  <2>4. ext[h] > 0 /\ hdr[h] > 0
    <3>1. PICK e, w, x : e = ext[h] /\ w = Cardinality(Heap!Words(h)) /\ x = hdr[h]
      OBVIOUS
    <3>2. e \in Nat /\ w \in Nat /\ e >= 1 /\ x = e + w
      BY <2>2, <2>3, <3>1, WordsFinite
    <3>3. e > 0 /\ x > 0
      BY <3>2
    <3> QED
      BY <3>1, <3>3
  <2>5. LetsGo(h)
    BY <1>2, <1>3, <2>4, LetGoIs
  <2>6. /\ ext \in [Addr -> Nat] /\ ext' \in [Addr -> Nat]
        /\ \A b \in Addr : ext[b] = Stock(b) /\ ext'[b] = Stock(b)'
    BY ExtIs, ExtIsNext DEF Sound
  <2>7. ASSUME NEW b \in Addr PROVE ext'[b] = IF b = h THEN ext[b] - 1 ELSE ext[b]
    <3>1. CASE mem[b] = "heap"
      <4>1. Heap!Words(b)' = Heap!Words(b)
        BY <1>2, SameWords
      <4>2. PICK x, y, w, o : x = hdr[b] /\ y = hdr'[b] /\ w = Cardinality(Heap!Words(b)) /\ o = One(b = h /\ mem[b] = "heap")
        OBVIOUS
      <4>3. y = x - o /\ x \in Int /\ w \in Nat /\ o = IF b = h THEN 1 ELSE 0
        BY <1>3, <2>5, <3>1, <4>2, WordsFinite DEF LetsGo, HeapTyped, One
      <4>4. y - w = IF b = h THEN (x - w) - 1 ELSE x - w
        BY <4>3
      <4>5. Stock(b) = x - w /\ Stock(b)' = y - w
        BY <1>2, <3>1, <4>1, <4>2 DEF Stock
      <4> QED
        BY <2>6, <4>4, <4>5
    <3>2. CASE mem[b] # "heap"
      <4>1. Stock(b) = 0 /\ Stock(b)' = 0
        BY <1>2, <3>2 DEF Stock
      <4> QED
        BY <1>5, <2>6, <3>2, <4>1
    <3> QED
      BY <3>1, <3>2
  <2>8. ext' = [ext EXCEPT ![h] = @ - 1]
    BY <2>6, <2>7
  <2>9. Heap!Release(h)
    BY <1>2, <1>5, <2>4, <2>8 DEF Heap!Release
  <2> QED
    BY <1>2, <2>9 DEF HeapSteps, Heap!Next
<1> QED
  BY <1>4, <1>5

\* A drop block's step: nobody outside the heap gains or loses a reference, and
\* what is freed at its end nobody claims.
LEMMA CascadeMoves ==
  ASSUME Sound, Cascade
  PROVE  HeapSteps
<1>1. Core /\ Typed /\ Typed' /\ Placed /\ dropping \in Seq(Addr)
  BY DEF Sound, Core, Typed, HeapTyped
<1>2. /\ frames' = frames /\ due' = due /\ lost' = lost
      /\ Heap!DropEnd \/ \E i \in 1 .. Width : Heap!DropWord(i)
  BY DEF Cascade
<1>3. ASSUME NEW a \in Addr PROVE Claims(a)' = Claims(a)
  <2>1. Claims(a)' = Total(frames', a) + Cardinality(Places(due', a)) + lost'[a]
    BY <1>1, ClaimsSumNext
  <2>2. Claims(a) = Total(frames, a) + Cardinality(Places(due, a)) + lost[a]
    BY <1>1, ClaimsSum
  <2> QED
    BY <1>2, <2>1, <2>2
<1>4. ext \in [Addr -> Nat] /\ ext' \in [Addr -> Nat]
  BY ExtIs, ExtIsNext DEF Sound
<1>5. CASE Heap!DropEnd
  <2>1. PICK p : p = dropping[Len(dropping)]
    OBVIOUS
  <2>2. dropping # <<>> /\ mem' = [mem EXCEPT ![p] = "none"]
    BY <1>5, <2>1 DEF Heap!DropEnd, Heap!Top
  <2>3. p \in Addr /\ mem[p] = "heap" /\ hdr[p] = 0
    <3>1. Len(dropping) \in DOMAIN dropping /\ dropping[Len(dropping)] \in Addr
      BY <1>1, <2>2
    <3> QED
      BY <1>1, <2>1, <3>1 DEF Placed
  <2>4. Claims(p) = 0
    BY <1>1, <2>3, ZeroIsFree
  <2>5. mem \in [Addr -> {"none", "heap", "frame", "const"}]
    BY <1>1 DEF Typed, HeapTyped
  <2>6. ASSUME NEW a \in Addr PROVE ext'[a] = ext[a]
    <3>1. CASE a = p
      BY <2>2, <2>3, <2>4, <2>5, <3>1 DEF ext
    <3>2. CASE a # p
      <4>1. mem'[a] = mem[a]
        BY <2>2, <2>5, <3>2
      <4> QED
        BY <1>3, <4>1 DEF ext
    <3> QED
      BY <3>1, <3>2
  <2>7. ext' = ext
    BY <1>4, <2>6
  <2> QED
    BY <1>5, <2>7 DEF Heap!Free, HeapSteps, Heap!Next, Heap!Cascade
<1>6. CASE \E i \in 1 .. Width : Heap!DropWord(i)
  <2>1. PICK i \in 1 .. Width : Heap!DropWord(i)
    BY <1>6
  <2>2. mem' = mem
    BY <2>1 DEF Heap!DropWord
  <2>3. ASSUME NEW a \in Addr PROVE ext'[a] = ext[a]
    BY <1>3, <2>2 DEF ext
  <2>4. ext' = ext
    BY <1>4, <2>3
  <2> QED
    BY <2>1, <2>4 DEF Heap!ReleaseChild, HeapSteps, Heap!Next, Heap!Cascade, Heap!Idx
<1> QED
  BY <1>2, <1>5, <1>6

\* Every expression is a step of the heap, or none.
LEMMA ExpressionMoves ==
  ASSUME Sound, Expression
  PROVE  HeapSteps
<1>1. CASE \E n \in Var : Name(n)
  BY <1>1, StillMoves DEF Name
<1>2. CASE \E a \in Addr : Literal(a)
  BY <1>2, StillMoves DEF Literal
<1>3. CASE \E a \in Addr : Build(a) \/ NullaryVariant(a) \/ BeginAggregate(a)
  BY <1>3, BuildsMove
<1>4. CASE \E i \in 1 .. Width : StoreElement(i)
  BY <1>4, StoreElementMoves
<1>5. CASE \E i \in 1 .. Width : Element(i)
  BY <1>5, StillMoves DEF Element
<1>6. CASE StorePayload \/ EndAggregate \/ Unwrap \/ HandBack
  BY <1>6, StillMoves DEF StorePayload, EndAggregate, Unwrap, HandBack
<1>7. CASE \E k \in {1, 2}, a \in Addr, frees \in BOOLEAN : Builtin(k, a, frees)
  BY <1>7, BuildsMove
<1>8. CASE \E i \in 1 .. Width, a \in Addr : ArraySet(i, a)
  BY <1>8, BuildsMove
<1>9. CASE \E st \in {"own", "borrow"} : OtherBranch(st)
  BY <1>9, StillMoves DEF OtherBranch
<1>10. CASE \E n \in Var, i \in 1 .. Width : OpenArm(n, i)
  BY <1>10, StillMoves DEF OpenArm
<1>11. CASE CloseArm
  BY <1>11, StillMoves DEF CloseArm
<1>12. CASE \E n \in Var, unit \in BOOLEAN : Call(n, unit)
  BY <1>12, StillMoves DEF Call
<1> QED
  BY <1>1, <1>2, <1>3, <1>4, <1>5, <1>6, <1>7, <1>8, <1>9, <1>10, <1>11, <1>12 DEF Expression

\* Statements that take an operand are steps of the heap, or none.
LEMMA TakersMove ==
  ASSUME Sound, (\E n \in Var : Let(n) \/ Assign(n)) \/ Return
  PROVE  HeapSteps
<1>1. PICK v : v = Top(F.vals)
  OBVIOUS
<1>2. Whole /\ RetainIf(v.st = "borrow", v.ref) /\ UNCHANGED <<mem, body, dropping, payload>>
  <2>1. CASE \E n \in Var : Let(n)
    BY <1>1, <2>1 DEF Let
  <2>2. CASE \E n \in Var : Assign(n)
    BY <1>1, <2>2 DEF Assign
  <2>3. CASE Return
    BY <1>1, <2>3 DEF Return
  <2> QED
    BY <2>1, <2>2, <2>3
<1>3. Running /\ Done
  BY <1>1, <1>2, WholeVal DEF Sound
<1> QED
  BY <1>1, <1>2, <1>3, TakenMoves

\* Every statement is a step of the heap, or none.
LEMMA StatementsMove ==
  ASSUME Sound, Statements
  PROVE  HeapSteps
<1>1. CASE (\E n \in Var : Let(n) \/ Assign(n)) \/ Return
  BY <1>1, TakersMove
<1>2. CASE \E n \in Var : OpenFor(n)
  BY <1>2, StillMoves DEF OpenFor
<1>3. CASE Discard \/ OpenBranch \/ CloseBlock
  BY <1>3, StillMoves DEF Discard, OpenBranch, CloseBlock
<1>4. CASE \E frees \in BOOLEAN : Measure(frees)
  BY <1>4, StillMoves DEF Measure
<1>5. CASE OpenCounting \/ OpenRange \/ Turn \/ EndLoop
  BY <1>5, StillMoves DEF OpenCounting, OpenRange, Turn, EndLoop
<1>6. CASE Break \/ Continue
  BY <1>6, StillMoves DEF Break, Continue, Leave
<1>7. CASE BeginPrint
  BY <1>7, StillMoves DEF BeginPrint
<1>8. CASE EndPrint
  BY <1>8, EndPrintMoves
<1>9. CASE BareReturn \/ FallOff
  BY <1>9, StillMoves DEF BareReturn, FallOff
<1> QED
  BY <1>1, <1>2, <1>3, <1>4, <1>5, <1>6, <1>7, <1>8, <1>9 DEF Statements

\* In a program without a hazard each step of the generated code is a step of
\* the heap, or leaves the heap and its outside owners alone.
LEMMA NextMoves ==
  ASSUME Sound, [Next]_vars
  PROVE  HeapSteps
<1>1. CASE UNCHANGED vars
  BY <1>1, StillMoves DEF vars, heapVars
<1>2. CASE Next
  BY <1>2, ExpressionMoves, StatementsMove, NextReleaseMoves, CascadeMoves DEF Next
<1> QED
  BY <1>1, <1>2

\* The discipline of the code generator (gen_expr, gen_stmt) implements the
\* promise of the heap, RefHeap, in every program without a hazard: it stores
\* only in what nobody else has, retains only what somebody holds, releases only
\* what it owns, and unwinds from the frame only what no word holds.
THEOREM ImplementsHeap == Spec /\ lifted = {} => HeapSpec
<1>1. Init /\ lifted = {} => Heap!Init
  <2> SUFFICES ASSUME Init PROVE Heap!Init
    OBVIOUS
  <2> QED
    BY DEF Init
<1>2. OwnInv /\ OwnInv' /\ lifted = {} /\ [Next]_vars => HeapSteps /\ (lifted = {})'
  <2> SUFFICES ASSUME OwnInv, OwnInv', lifted = {}, [Next]_vars PROVE HeapSteps /\ lifted' = {}
    OBVIOUS
  <2>1. lifted' = lifted
    BY DEF Next, vars
  <2>2. Sound
    BY <2>1 DEF OwnInv, Sound
  <2> QED
    BY <2>1, <2>2, NextMoves
<1>3. HeapSteps => [Heap!Next]_(Heap!vars)
  BY DEF HeapSteps
<1> QED
  BY <1>1, <1>2, <1>3, Inductive, PTL DEF Spec, HeapSpec, Heap!Spec
=============================================================================
