----------------------------- MODULE Ownership -----------------------------
(***************************************************************************)
(* The ownership discipline of the native backend                          *)
(* (compiler/src/codegen_llvm.rs): which references a compiled program     *)
(* retains and releases, and when.                                         *)
(*                                                                         *)
(* The module runs every program of a small size at once.  Each action is  *)
(* one expression or statement form: what gen_expr or gen_stmt emits for   *)
(* it, together with the code generator's own bookkeeping (`owned`, the    *)
(* names each open block must release; `named`, what a name resolves to;   *)
(* `transient`, whether a value may live on the frame).  The bookkeeping   *)
(* belongs to the text and the heap to the run; a body leaves the          *)
(* bookkeeping as it found it, so following the executed path keeps both.  *)
(*                                                                         *)
(* An operand is a value an expression left behind and nobody has taken    *)
(* yet.  Its status is what produces_owned answers for that expression:    *)
(* "own", a reference handed over, or "borrow", one that still belongs to  *)
(* whoever named it.  "building" is an aggregate whose elements are still  *)
(* being evaluated.  Only values behind a counted pointer are operands:    *)
(* numbers own nothing and are left out, and so are the conditions.        *)
(*                                                                         *)
(* `lifted` is what the program under way may do of the things under which *)
(* the discipline is not sound.  Where it is {} the module implements      *)
(* RefHeap.                                                                *)
(***************************************************************************)
EXTENDS Integers, Sequences, FiniteSets, SequencesExt

CONSTANTS
  Addr, Const, Width, Null,   \* as in RefHeap
  Var,        \* the names a program uses
  HazardSets, \* the kinds of program: sets of restrictions lifted
  MaxDepth,   \* bound: frames on the call stack
  MaxBlocks,  \* bound: open blocks, over the whole stack
  MaxNames,   \* bound: names bound, over the whole stack
  MaxVals,    \* bound: operands waiting, over the whole stack
  MaxCount,   \* bound: the count in a header
  MaxLost     \* bound: the references lost of one value

AllHazards == {
  "break",          \* break or continue past a name still to release
  "bareReturn",     \* return; past a name still to release
  "loopReturn",     \* return out of a loop over its own array
  "shadowReturn",   \* return where an owned name is shadowed
  "redeclare",      \* one block declares a name twice
  "loopVar",        \* a loop variable named as a name in scope
  "nullary",        \* a payload-free variant, built by naming it
  "handBack",       \* a builtin that answers with its argument, or part of it
  "otherBranch",    \* a branch that is not the first differs in ownership
  "assignBorrowed", \* assigning a parameter or a variable a pattern or loop bound
  "assignWalked",   \* assigning the array a loop is walking
  "frameWord",      \* a consumed value stored into something a call builds
  "arraySet",       \* array_set of values that are counted
  "payload" }       \* a payload whose declared type is a type parameter

ASSUME OwnershipAssumption ==
  /\ IsFiniteSet(Addr) /\ Addr \cap Var = {} /\ Null \notin Addr /\ Const \subseteq Addr
  /\ HazardSets \subseteq SUBSET AllHazards
  /\ {MaxDepth, MaxBlocks, MaxNames, MaxVals, MaxCount, MaxLost, Width} \subseteq Nat
  /\ MaxCount > 0

VARIABLES
  mem, hdr, body, dropping,   \* the heap, as in RefHeap
  payload,  \* a word whose type does not say it is counted (Option, Result)
  frames,   \* the call stack; the last is running
  lifted,   \* the kind of program this is, a member of HazardSets
  due,      \* the release calls the generated code makes next, in order
  lost      \* ghost: references dropped without a release, as documented

heapVars == <<mem, hdr, body, dropping>>
vars == <<mem, hdr, body, dropping, payload, frames, lifted, due, lost>>

----------------------------------------------------------------------------
\* The running frame.

F == frames[Len(frames)]
Under == SubSeq(frames, 1, Len(frames) - 1)
Block == F.blocks[Len(F.blocks)]
Top(s) == s[Len(s)]
Pop(s) == SubSeq(s, 1, Len(s) - 1)

\* The members of a sequence of sets, each with its place in the sequence.
Tagged(s) == UNION {{i} \X s[i] : i \in DOMAIN s}

NewFrame(names) ==
  [blocks |-> <<[kind |-> "fn", base |-> 0, names |-> names]>>, vals |-> <<>>,
   spent |-> <<>>, loops |-> <<>>, transient |-> FALSE, scratch |-> {}, unit |-> TRUE]

Entry(n, r, own) == [name |-> n, ref |-> r, own |-> own]
Operand(r, st) == [ref |-> r, st |-> st]

\* The code between two expressions runs only while no release does.
Running == frames # <<>> /\ due = <<>> /\ dropping = <<>>

\* At the head of its innermost loop the frame has no body block open.
AtHead == F.loops # <<>> /\ Len(F.blocks) = Top(F.loops).depth

\* An expression may be evaluated; a statement may start, or take its operand.
Evaluating == Running /\ ~AtHead
Statement == Evaluating /\ ~F.transient /\ Block.kind # "arm"
Whole == Statement /\ Len(F.vals) = 1 /\ Top(F.vals).st # "building"
Fresh == Statement /\ F.vals = <<>>

\* Room for more, within the bounds.
Count(size(_)) == SumFunction([f \in 1 .. Len(frames) |-> size(frames[f])])
Opens == Count(LAMBDA f : Len(f.blocks))
Binds == Count(LAMBDA f : SumFunction([b \in 1 .. Len(f.blocks) |-> Len(f.blocks[b].names)]))
Waits == Count(LAMBDA f : Len(f.vals))
RoomForBlock == Opens < MaxBlocks
RoomForName == Binds < MaxNames
Room == Waits < MaxVals

\* Where a name is bound in the frame, and the binding it resolves to: `named`
\* holds the one made last.
Sites == Tagged([b \in DOMAIN F.blocks |-> DOMAIN F.blocks[b].names])
Bound(s) == F.blocks[s[1]].names[s[2]]
Bindings(n) == {s \in Sites : Bound(s).name = n}
Resolve(n) ==
  CHOOSE s \in Bindings(n) :
    \A t \in Bindings(n) : t[1] < s[1] \/ (t[1] = s[1] /\ t[2] <= s[2])
Holds(n) == Bound(Resolve(n)).ref

\* release_names: what a block recorded as owned, last first, each name read
\* through what it resolves to now.
Owned(b) ==
  LET names == F.blocks[b].names
      gives(e) == IF e.own THEN <<Holds(e.name)>> ELSE <<>>
  IN FlattenSeq(Reverse([k \in DOMAIN names |-> gives(names[k])]))

\* release_all_open: every open block, innermost first.
AllOpen == FlattenSeq(Reverse([b \in 1 .. Len(F.blocks) |-> Owned(b)]))

\* Nothing the blocks above `depth` recorded, or the frame's loops hold.
NothingOwned(depth) == \A b \in depth + 1 .. Len(F.blocks) : Owned(b) = <<>>
NoLoopArray == \A l \in 1 .. Len(F.loops) : ~F.loops[l].mine

Lift(h, safe) == h \in lifted \/ safe

----------------------------------------------------------------------------
\* Who claims an address: the operands, names, loops and release calls that
\* will give one reference up each.
OwnNames(names, a) == {k \in DOMAIN names : names[k].own /\ names[k].ref = a}
OwnBlocks(blocks, a) == Tagged([b \in DOMAIN blocks |-> OwnNames(blocks[b].names, a)])
OwnVals(vals, a) == {k \in DOMAIN vals : vals[k].st # "borrow" /\ vals[k].ref = a}
OwnLoops(loops, a) == {l \in DOMAIN loops : loops[l].mine /\ loops[l].arr = a}
Places(refs, a) == {k \in DOMAIN refs : refs[k] = a}

\* The claims of one frame, and of the program.
FrameClaims(f, a) ==
  Tagged(<<OwnBlocks(f.blocks, a), OwnVals(f.vals, a), Places(f.spent, a), OwnLoops(f.loops, a)>>)
Claims(a) ==
  Cardinality(Tagged([k \in DOMAIN frames |-> FrameClaims(frames[k], a)]))
    + Cardinality(Places(due, a)) + lost[a]

\* RefHeap's outside owners are the claims on heap values.
ext == [a \in Addr |-> IF mem[a] = "heap" THEN Claims(a) ELSE 0]
Heap == INSTANCE RefHeap WITH MaxExt <- MaxCount

\* Mutant: what is borrowed is recorded without a retain.
RetainNever(borrowed, a) == hdr' = hdr

\* gen_retain on behalf of a borrowed operand; nothing for one handed over.
RetainIf(borrowed, a) ==
  IF borrowed THEN hdr[a] < MaxCount /\ hdr' = Heap!Bumped(a) ELSE hdr' = hdr

\* The references `refs` go without a release.
Lose(refs) ==
  LET times(a) == Cardinality({k \in 1 .. Len(refs) : refs[k] = a /\ mem[a] = "heap"})
  IN /\ lost' = [a \in Addr |-> lost[a] + times(a)]
     /\ \A a \in Addr : lost'[a] <= MaxLost

\* gen_release: inside a consumed expression it emits nothing.
Release(refs) ==
  IF F.transient THEN Lose(refs) /\ UNCHANGED due
                 ELSE due' = refs /\ UNCHANGED lost

\* Mutant: an argument is released whoever it belongs to.
GivenAlways(v) == <<v.ref>>

\* release_arg and gen_arg: only what was built for the call is given up.
Given(v) == IF v.st = "own" THEN <<v.ref>> ELSE <<>>
SetFrame(f) == frames' = Append(Under, f)
SetVals(vals) == SetFrame([F EXCEPT !.vals = vals])
OnHeap(a) == a \in Addr /\ mem[a] = "heap"
Live(a) == a \in Addr /\ mem[a] # "none"

Init ==
  /\ Heap!Init
  /\ payload = [a \in Addr |-> Null]
  /\ frames = <<NewFrame(<<>>)>>
  /\ lifted \in HazardSets
  /\ due = <<>>
  /\ lost = [a \in Addr |-> 0]

----------------------------------------------------------------------------
\* Expressions that leave an operand.

\* scratch_bytes and scratch_slots: the frame when the value is consumed here,
\* the heap when it may escape.
Scratch(a) ==
  /\ mem[a] = "none"
  /\ mem' = [mem EXCEPT ![a] = IF F.transient THEN "frame" ELSE "heap"]
  /\ hdr' = [hdr EXCEPT ![a] = IF F.transient THEN Heap!Immortal ELSE 1]
  /\ payload' = [payload EXCEPT ![a] = Null]
  /\ UNCHANGED <<body, dropping>>

\* The frame with `a` built in it and `vals` waiting.
Built(a, vals) ==
  SetFrame([F EXCEPT !.vals = vals, !.scratch = IF F.transient THEN @ \cup {a} ELSE @])

\* Ident: a local that has been stored to.
Name(n) ==
  /\ Evaluating /\ Room /\ Bindings(n) # {} /\ Holds(n) # Null
  /\ SetVals(Append(F.vals, Operand(Holds(n), "borrow")))
  /\ UNCHANGED <<heapVars, payload, due, lost>>

\* Str: the address of a constant, handed over like anything built here.
Literal(c) ==
  /\ Evaluating /\ Room /\ c \in Const
  /\ SetVals(Append(F.vals, Operand(c, "own")))
  /\ UNCHANGED <<heapVars, payload, due, lost>>

\* A value built from numbers: a range, the text of an int.
Build(a) ==
  /\ Evaluating /\ Room
  /\ Scratch(a)
  /\ Built(a, Append(F.vals, Operand(a, "own")))
  /\ UNCHANGED <<due, lost>>

\* Ident naming a variant without a payload, of an enum that has one elsewhere:
\* it allocates, and produces_owned answers for an identifier all the same.
NullaryVariant(a) ==
  /\ Evaluating /\ Room /\ Lift("nullary", F.transient)
  /\ Scratch(a)
  /\ Built(a, Append(F.vals, Operand(a, "borrow")))
  /\ UNCHANGED <<due, lost>>

\* ArrayLit, StructLit, a variant with a payload: room first, elements after.
BeginAggregate(a) ==
  /\ Evaluating /\ Waits + 1 < MaxVals
  /\ Scratch(a)
  /\ Built(a, Append(F.vals, Operand(a, "building")))
  /\ UNCHANGED <<due, lost>>

\* The operand on top, complete, and the operand under it.
Done == F.vals # <<>> /\ Top(F.vals).st # "building"
Outer == F.vals[Len(F.vals) - 1]
Under1 == Pop(Pop(F.vals))

\* An element is stored and retain_stored runs on it.  The words of a value on
\* the frame are never released, so what they are given is lost.
StoreElement(i) ==
  /\ Evaluating /\ Len(F.vals) >= 2 /\ Done /\ Outer.st = "building"
  /\ LET v == Top(F.vals)
         p == Outer.ref
     IN /\ RetainIf(v.st = "borrow", v.ref)
        /\ IF mem[p] = "heap"
             THEN /\ Lift("frameWord", mem[v.ref] # "frame")
                  /\ body[p][i] = Null /\ \A j \in 1 .. i - 1 : body[p][j] # Null
                  /\ body' = [body EXCEPT ![p][i] = v.ref]
                  /\ UNCHANGED lost
             ELSE i = 1 /\ Lose(<<v.ref>>) /\ UNCHANGED body
  /\ SetVals(Pop(F.vals))
  /\ UNCHANGED <<mem, dropping, payload, due>>

\* A payload declared as the enum's type parameter is not managed: it is stored
\* and neither retained now nor released with its owner.
StorePayload ==
  /\ Evaluating /\ Len(F.vals) >= 2 /\ Done /\ Outer.st = "building"
  /\ Lift("payload", Top(F.vals).ref \in Const)
  /\ LET p == Outer.ref
     IN /\ body[p] = Heap!Empty /\ payload[p] = Null
        /\ payload' = [payload EXCEPT ![p] = Top(F.vals).ref]
  /\ SetVals(Pop(F.vals))
  /\ UNCHANGED <<heapVars, due, lost>>

EndAggregate ==
  /\ Evaluating /\ F.vals # <<>> /\ Top(F.vals).st = "building"
  /\ SetVals(Append(Pop(F.vals), Operand(Top(F.vals).ref, "own")))
  /\ UNCHANGED <<heapVars, payload, due, lost>>

\* FieldAccess and Index: the word, still the aggregate's.  An aggregate built
\* on the spot is dropped by the expression it was returned into.
Element(i) ==
  /\ Evaluating /\ Done /\ OnHeap(Top(F.vals).ref)
  /\ body[Top(F.vals).ref][i] # Null
  /\ SetVals(Append(Pop(F.vals), Operand(body[Top(F.vals).ref][i], "borrow")))
  /\ Lose(Given(Top(F.vals)))
  /\ UNCHANGED <<heapVars, payload, due>>

\* unwrap: a method call, so the payload counts as handed over.
Unwrap ==
  /\ Evaluating /\ Done /\ OnHeap(Top(F.vals).ref)
  /\ payload[Top(F.vals).ref] # Null
  /\ SetVals(Append(Pop(F.vals), Operand(payload[Top(F.vals).ref], "own")))
  /\ Lose(Given(Top(F.vals)))
  /\ UNCHANGED <<heapVars, payload, due>>

\* The references a builtin was handed: some release them (a join, a comparison,
\* len, to_string), the others drop them (substring, trim, split, contains).
Spend(refs, frees) == IF frees THEN Release(refs) ELSE Lose(refs) /\ UNCHANGED due

\* A builtin that reads its last k operands and answers with something new.
Builtin(k, a, frees) ==
  /\ Evaluating /\ Done /\ Len(F.vals) >= k /\ k \in {1, 2}
  /\ k = 2 => Outer.st # "building"
  /\ Scratch(a)
  /\ LET rest == SubSeq(F.vals, 1, Len(F.vals) - k)
         used == SubSeq(F.vals, Len(F.vals) - k + 1, Len(F.vals))
     IN /\ Built(a, Append(rest, Operand(a, "own")))
        /\ Spend(FlattenSeq([j \in 1 .. k |-> Given(used[j])]), frees)

\* array_set: a copy of the array's words with one replaced, and none of them is
\* retained.  On the heap the copy shares them with the array, uncounted.
ArraySet(i, a) ==
  /\ Evaluating /\ Len(F.vals) >= 2 /\ Done /\ OnHeap(Outer.ref) /\ mem[a] = "none"
  /\ Outer.st # "building" /\ body[Outer.ref][i] # Null
  /\ Lift("arraySet", F.transient)
  /\ mem' = [mem EXCEPT ![a] = IF F.transient THEN "frame" ELSE "heap"]
  /\ hdr' = [hdr EXCEPT ![a] = IF F.transient THEN Heap!Immortal ELSE 1]
  /\ body' = IF F.transient THEN body
              ELSE [body EXCEPT ![a] = [body[Outer.ref] EXCEPT ![i] = Top(F.vals).ref]]
  /\ payload' = [payload EXCEPT ![a] = Null]
  /\ Built(a, Append(Under1, Operand(a, "own")))
  /\ Lose(Given(Outer) \o IF F.transient THEN Given(Top(F.vals)) ELSE <<>>)
  /\ UNCHANGED <<dropping, due>>

\* A builtin that hands its argument, or part of it, straight back: to_string of
\* a string, array_get.  It is a call, so produces_owned says it is new.
HandBack ==
  /\ Evaluating /\ Done /\ Top(F.vals).st = "borrow"
  /\ Lift("handBack", hdr[Top(F.vals).ref] = Heap!Immortal)
  /\ SetVals(Append(Pop(F.vals), Operand(Top(F.vals).ref, "own")))
  /\ UNCHANGED <<heapVars, payload, due, lost>>

\* If and Match as expressions: the value of a branch that is not the first
\* goes by what produces_owned says of the first.
OtherBranch(st) ==
  /\ Evaluating /\ Done /\ st \in {"own", "borrow"}
  /\ Lift("otherBranch", Top(F.vals).st = st \/ hdr[Top(F.vals).ref] = Heap!Immortal)
  /\ SetVals(Append(Pop(F.vals), Operand(Top(F.vals).ref, st)))
  /\ UNCHANGED <<heapVars, payload, due, lost>>

----------------------------------------------------------------------------
\* Match arms.

\* The scrutinee is read and an arm opened, its payload bound.  A scrutinee
\* built on the spot is dropped.
OpenArm(n, i) ==
  /\ Evaluating /\ Done /\ RoomForBlock /\ RoomForName /\ OnHeap(Top(F.vals).ref)
  /\ LET v == Top(F.vals)
         word == IF payload[v.ref] # Null THEN payload[v.ref] ELSE body[v.ref][i]
     IN /\ word # Null
        /\ SetFrame([F EXCEPT !.vals = Pop(@),
              !.blocks = Append(@, [kind |-> "arm", base |-> Len(F.vals) - 1,
                                    names |-> <<Entry(n, word, FALSE)>>])]) 
        /\ Lose(Given(v))
  /\ UNCHANGED <<heapVars, payload, due>>

\* The arm's value is there: close_block.
CloseArm ==
  /\ Evaluating /\ Block.kind = "arm" /\ Done /\ Len(F.vals) = Block.base + 1
  /\ SetFrame([F EXCEPT !.blocks = Pop(@)])
  /\ Release(Owned(Len(F.blocks)))
  /\ UNCHANGED <<heapVars, payload>>

----------------------------------------------------------------------------
\* print: its argument is built in a consumed expression, and the stack is
\* unwound when it has been written.

BeginPrint ==
  /\ Fresh
  /\ SetFrame([F EXCEPT !.transient = TRUE])
  /\ UNCHANGED <<heapVars, payload, due, lost>>

EndPrint ==
  /\ Evaluating /\ F.transient /\ Block.kind # "arm" /\ Len(F.vals) = 1 /\ Done
  /\ mem' = [a \in Addr |-> IF a \in F.scratch THEN "none" ELSE mem[a]]
  /\ Lose(Given(Top(F.vals)))
  /\ SetFrame([F EXCEPT !.transient = FALSE, !.scratch = {}, !.vals = <<>>])
  /\ UNCHANGED <<hdr, body, dropping, payload, due>>

----------------------------------------------------------------------------
\* Statements.

\* Mutant: a name is recorded as an owner and does not become one.
LetUncounted(n) ==
  /\ Whole /\ RoomForName
  /\ SetFrame([F EXCEPT !.vals = <<>>,
        !.blocks[Len(F.blocks)].names = Append(@, Entry(n, Top(F.vals).ref, TRUE))])
  /\ UNCHANGED <<heapVars, payload, due, lost>>

\* let: the value's reference is the name's, or the name takes its own.
Let(n) ==
  /\ Whole /\ RoomForName
  /\ Lift("redeclare", \A k \in 1 .. Len(Block.names) : Block.names[k].name # n)
  /\ LET v == Top(F.vals)
     IN /\ RetainIf(v.st = "borrow", v.ref)
        /\ SetFrame([F EXCEPT !.vals = <<>>,
              !.blocks[Len(F.blocks)].names = Append(@, Entry(n, v.ref, TRUE))])
  /\ UNCHANGED <<mem, body, dropping, payload, due, lost>>

\* What is reachable from a value through the words it owns.
Closed(S) == \A p \in S, i \in 1 .. Width : body[p][i] \in S \cup {Null}
Inside(a) == {b \in Addr : \A S \in SUBSET Addr : a \in S /\ Closed(S) => b \in S}

\* No loop of the frame walks an array that belongs to `a`.
NotWalked(a) ==
  \A l \in 1 .. Len(F.loops) : F.loops[l].mine \/ F.loops[l].arr \notin Inside(a)

\* An assignment: store, retain what was borrowed, and only then release what
\* the name held, so rebinding a name to itself is safe.
Assign(n) ==
  /\ Whole /\ Bindings(n) # {}
  /\ LET v == Top(F.vals)
         s == Resolve(n)
         old == Bound(s).ref
     IN /\ Lift("assignBorrowed", Bound(s).own) /\ Lift("assignWalked", NotWalked(old))
        /\ RetainIf(v.st = "borrow", v.ref)
        /\ SetFrame([F EXCEPT !.vals = <<>>, !.blocks[s[1]].names[s[2]].ref = v.ref])
        /\ due' = <<old>>
  /\ UNCHANGED <<mem, body, dropping, payload, lost>>

\* An expression statement: the value is dropped, never having been named.
Discard ==
  /\ Whole
  /\ SetVals(<<>>)
  /\ Lose(Given(Top(F.vals)))
  /\ UNCHANGED <<heapVars, payload, due>>

\* A builtin that answers with a number: nothing of the argument is kept.
Measure(frees) ==
  /\ Whole
  /\ SetVals(<<>>)
  /\ Spend(Given(Top(F.vals)), frees)
  /\ UNCHANGED <<heapVars, payload>>

\* A branch of an if statement.
OpenBranch ==
  /\ Fresh /\ RoomForBlock
  /\ SetFrame([F EXCEPT !.blocks = Append(@, [kind |-> "if", base |-> 0, names |-> <<>>])])
  /\ UNCHANGED <<heapVars, payload, due, lost>>

\* The end of a branch or of a loop's body: close_block.
CloseBlock ==
  /\ Fresh /\ Block.kind \in {"if", "loop"}
  /\ SetFrame([F EXCEPT !.blocks = Pop(@)])
  /\ Release(Owned(Len(F.blocks)))
  /\ UNCHANGED <<heapVars, payload>>

----------------------------------------------------------------------------
\* Loops.  `arr` is the array walked, Null for a loop that counts; `mine` says
\* the loop has it to release; `over` is set on the way to the loop's exit.

\* Mutant: the loop thinks its body block is part of what encloses it.
LoopInside(arr, mine, n) ==
  [arr |-> arr, mine |-> mine, var |-> n, next |-> 1, over |-> FALSE, depth |-> Len(F.blocks) + 1]

Loop(arr, mine, n) ==
  [arr |-> arr, mine |-> mine, var |-> n, next |-> 1, over |-> FALSE, depth |-> Len(F.blocks)]

\* while, and for over two bounds or a number.
OpenCounting ==
  /\ Fresh /\ RoomForBlock
  /\ SetFrame([F EXCEPT !.loops = Append(@, Loop(Null, FALSE, Null))])
  /\ UNCHANGED <<heapVars, payload, due, lost>>

\* for over a range held in a value: both ends are read and the range, if it
\* was built for the loop, goes at once.
OpenRange ==
  /\ Whole /\ RoomForBlock
  /\ SetFrame([F EXCEPT !.vals = <<>>, !.loops = Append(@, Loop(Null, FALSE, Null))])
  /\ Release(Given(Top(F.vals)))
  /\ UNCHANGED <<heapVars, payload>>

\* for over an array.  bind_loop_var runs before open_block: the variable is
\* bound in the block the loop stands in, and nothing is stored to it yet.
OpenFor(n) ==
  /\ Whole /\ RoomForBlock /\ RoomForName
  /\ Lift("loopVar", Bindings(n) = {})
  /\ LET v == Top(F.vals)
     IN /\ OnHeap(v.ref)
        /\ SetFrame([F EXCEPT !.vals = <<>>,
              !.loops = Append(@, Loop(v.ref, v.st = "own", n)),
              !.blocks[Len(F.blocks)].names = Append(@, Entry(n, Null, FALSE))])
  /\ UNCHANGED <<heapVars, payload, due, lost>>

\* The loop has another turn to make, or cannot know that it has not.
More(l) ==
  /\ ~l.over
  /\ l.arr # Null => OnHeap(l.arr) /\ l.next <= Width /\ body[l.arr][l.next] # Null

Turn ==
  /\ Running /\ AtHead
  /\ LET l == Top(F.loops)
         s == Resolve(l.var)
         open(f) == [f EXCEPT !.blocks = Append(@, [kind |-> "loop", base |-> 0, names |-> <<>>])]
         next(f) == [f EXCEPT !.loops[Len(F.loops)].next = @ + 1,
                              !.blocks[s[1]].names[s[2]].ref = body[l.arr][l.next]]
     IN /\ More(l)
        /\ SetFrame(IF l.arr = Null THEN open(F) ELSE open(next(F)))
  /\ UNCHANGED <<heapVars, payload, due, lost>>

\* The exit: the array built in the header is released.  The variable keeps its
\* place in `named`, which matters where it stands over another name.
EndLoop ==
  /\ Running /\ AtHead
  /\ LET l == Top(F.loops)
         s == Resolve(l.var)
         gone(f) == [f EXCEPT !.blocks[s[1]].names = Pop(@)]
         out == [F EXCEPT !.loops = Pop(@)]
     IN /\ l.arr = Null \/ ~More(l)
        /\ SetFrame(IF l.arr # Null /\ Cardinality(Bindings(l.var)) = 1 THEN gone(out) ELSE out)
        /\ Release(IF l.mine THEN <<l.arr>> ELSE <<>>)
  /\ UNCHANGED <<heapVars, payload>>

\* break and continue: a branch to the exit or to the next turn, and no block
\* on the way there is released.
Leave(over) ==
  /\ Fresh /\ F.loops # <<>>
  /\ LET d == Top(F.loops).depth
     IN /\ Lift("break", NothingOwned(d))
        /\ SetFrame([F EXCEPT !.blocks = SubSeq(@, 1, d), !.loops[Len(F.loops)].over = over])
  /\ UNCHANGED <<heapVars, payload, due, lost>>

Break == Leave(TRUE)
Continue == Leave(FALSE)

----------------------------------------------------------------------------
\* Calls.

\* The argument is nobody's: the callee only names it, and what was built for
\* the call waits in `spent` until it returns.
Call(n, unit) ==
  /\ Evaluating /\ Done /\ Len(frames) < MaxDepth /\ RoomForBlock /\ RoomForName
  /\ unit => Whole
  /\ frames' = Append(Append(Under, [F EXCEPT !.vals = Pop(@), !.spent = Given(Top(F.vals))]),
                      [NewFrame(<<Entry(n, Top(F.vals).ref, FALSE)>>) EXCEPT !.unit = unit])
  /\ UNCHANGED <<heapVars, payload, due, lost>>

\* The function is left: its own releases have been named, and back in the caller
\* release_spent follows.  Leaving the first frame ends the program.
BackTo(caller, released, answer) ==
  /\ frames' = Append(SubSeq(frames, 1, Len(frames) - 2),
                      [caller EXCEPT !.spent = <<>>, !.vals = @ \o answer])
  /\ IF caller.transient
       THEN due' = released /\ Lose(caller.spent)
       ELSE due' = released \o caller.spent /\ UNCHANGED lost

Exit(released, answer) ==
  IF Len(frames) > 1
    THEN BackTo(frames[Len(frames) - 1], released, answer)
    ELSE frames' = <<>> /\ Release(released)

\* return with a value: counted for whoever receives it, before every open
\* block is released.
Return ==
  /\ Whole /\ ~F.unit
  /\ Lift("loopReturn", NoLoopArray)
  /\ Lift("shadowReturn", \A s \in Sites : Bound(s).own => Resolve(Bound(s).name) = s)
  /\ LET v == Top(F.vals)
     IN /\ RetainIf(v.st = "borrow", v.ref)
        /\ Exit(AllOpen, <<Operand(v.ref, "own")>>)
  /\ UNCHANGED <<mem, body, dropping, payload>>

\* return with nothing: the function ends there, and nothing is released.
BareReturn ==
  /\ Fresh /\ F.unit
  /\ Lift("loopReturn", NoLoopArray) /\ Lift("bareReturn", NothingOwned(0))
  /\ Exit(<<>>, <<>>)
  /\ UNCHANGED <<heapVars, payload>>

\* Mutant: the end of a body abandons its block.
FallOffKeeping ==
  /\ Fresh /\ F.loops = <<>> /\ Block.kind = "fn" /\ F.unit
  /\ Exit(<<>>, <<>>)
  /\ UNCHANGED <<heapVars, payload>>

\* The end of a function's body: close_block.
FallOff ==
  /\ Fresh /\ F.loops = <<>> /\ Block.kind = "fn" /\ F.unit
  /\ Exit(Owned(1), <<>>)
  /\ UNCHANGED <<heapVars, payload>>

----------------------------------------------------------------------------
\* The release functions.

\* The next release call.  A count read from memory that is no longer a value
\* is undefined: the run is not followed past it.
NextRelease ==
  /\ due # <<>> /\ dropping = <<>>
  /\ Head(due) \in Addr /\ mem[Head(due)] # "none"
  /\ due' = Tail(due)
  /\ frames' = frames /\ lost' = lost
  /\ Heap!LetGo(Head(due))
  /\ UNCHANGED <<mem, body, payload>>

Cascade ==
  /\ UNCHANGED <<payload, frames, due, lost>>
  /\ Heap!DropEnd \/ \E i \in 1 .. Width : Heap!DropWord(i)

Expression ==
  \/ \E n \in Var : Name(n)
  \/ \E a \in Addr : Literal(a) \/ Build(a) \/ NullaryVariant(a) \/ BeginAggregate(a)
  \/ \E i \in 1 .. Width : StoreElement(i) \/ Element(i)
  \/ StorePayload \/ EndAggregate \/ Unwrap \/ HandBack
  \/ \E k \in {1, 2}, a \in Addr, frees \in BOOLEAN : Builtin(k, a, frees)
  \/ \E i \in 1 .. Width, a \in Addr : ArraySet(i, a)
  \/ \E st \in {"own", "borrow"} : OtherBranch(st)
  \/ \E n \in Var, i \in 1 .. Width : OpenArm(n, i)
  \/ CloseArm
  \/ \E n \in Var, unit \in BOOLEAN : Call(n, unit)

Statements ==
  \/ \E n \in Var : Let(n) \/ Assign(n) \/ OpenFor(n)
  \/ Discard \/ OpenBranch \/ CloseBlock
  \/ \E frees \in BOOLEAN : Measure(frees)
  \/ OpenCounting \/ OpenRange \/ Turn \/ EndLoop \/ Break \/ Continue
  \/ BeginPrint \/ EndPrint
  \/ Return \/ BareReturn \/ FallOff

Next == (Expression \/ Statements \/ NextRelease \/ Cascade) /\ UNCHANGED lifted

Spec == Init /\ [][Next]_vars

----------------------------------------------------------------------------
EntryType == [name : Var, ref : Addr \cup {Null}, own : BOOLEAN]
OperandType == [ref : Addr, st : {"own", "borrow", "building"}]
BlockType == [kind : {"fn", "arm", "if", "loop"}, base : Nat, names : Seq(EntryType)]
LoopType ==
  [arr : Addr \cup {Null}, mine : BOOLEAN, var : Var \cup {Null}, next : Nat \ {0},
   over : BOOLEAN, depth : Nat]
FrameType ==
  [blocks : Seq(BlockType), vals : Seq(OperandType), spent : Seq(Addr), loops : Seq(LoopType),
   transient : BOOLEAN, scratch : SUBSET Addr, unit : BOOLEAN]

\* Every part of the state keeps its type, and every loop stands in a block that
\* is open (gen_stmt For, While; close_block).
TypeOK ==
  /\ Heap!TypeOK
  /\ payload \in [Addr -> Addr \cup {Null}]
  /\ lost \in [Addr -> 0 .. MaxLost]
  /\ due \in Seq(Addr)
  /\ frames \in Seq(FrameType)
  /\ \A f \in DOMAIN frames :
       /\ frames[f].blocks # <<>>
       /\ \A l \in DOMAIN frames[f].loops : frames[f].loops[l].depth <= Len(frames[f].blocks)

\* Every reference the program can still use is to a value that is there: what
\* its operands and names hold, borrowed or not, the arrays its loops walk, and
\* what it is about to release (produces_owned, close_block, release_all_open).
Usable ==
  /\ \A k \in 1 .. Len(due) : Live(due[k])
  /\ \A f \in 1 .. Len(frames) :
       /\ \A k \in 1 .. Len(frames[f].vals) : Live(frames[f].vals[k].ref)
       /\ \A k \in 1 .. Len(frames[f].spent) : Live(frames[f].spent[k])
       /\ \A l \in 1 .. Len(frames[f].loops) : frames[f].loops[l].arr # Null => Live(frames[f].loops[l].arr)
       /\ \A b \in 1 .. Len(frames[f].blocks) : \A k \in 1 .. Len(frames[f].blocks[b].names) :
            frames[f].blocks[b].names[k].ref # Null => Live(frames[f].blocks[b].names[k].ref)

\* In a program without a hazard the count in a header is what the generated
\* code will give back: the claims of names, operands, loops and release calls,
\* and the words that hold it.
CountExact == lifted = {} => Heap!CountExact

\* No count is below the references that will still be given up, so nothing is
\* freed early.
CountCovers ==
  \A a \in Addr : mem[a] = "heap" => hdr[a] >= Claims(a) + Cardinality(Heap!Words(a))

\* Every value on the heap has something that will let go of it.
NothingUnowned ==
  dropping = <<>> => \A a \in Addr : mem[a] = "heap" => Claims(a) > 0 \/ Heap!Words(a) # {}

\* When a program without a hazard has ended, what is left was dropped in one of
\* the two ways the README owns up to, or belongs to something that was.
OnlyLostRemains ==
  lifted = {} /\ frames = <<>> /\ due = <<>> /\ dropping = <<>> =>
    \A a \in Addr : mem[a] = "heap" => \E b \in Addr : lost[b] > 0 /\ a \in Inside(b)

\* The discipline implements the heap's promise.
HeapSpec == Heap!Spec
=============================================================================
