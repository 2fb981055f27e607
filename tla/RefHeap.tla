------------------------------ MODULE RefHeap ------------------------------
(***************************************************************************)
(* The reference-counted heap of the native backend                        *)
(* (compiler/src/codegen_llvm.rs): what the compiled program is promised   *)
(* about allocation, retain and release, whoever the owners are.           *)
(*                                                                         *)
(* Every value sits behind a 16-byte header that holds its count.  A value *)
(* is on the heap (counted), on the frame, or a constant; the last two     *)
(* carry the count Immortal, which never moves.  An aggregate owns the     *)
(* values its words hold.  `ext` says how many owners a heap value has     *)
(* outside the heap: names, temporaries, release calls still to be made.   *)
(* Ownership.tla is the code generator's discipline for those owners, and  *)
(* implements this module.                                                 *)
(*                                                                         *)
(* A release that brings a count to zero runs the drop block of the type's *)
(* release function: it releases the value's words in order, each a nested *)
(* call of a release function, then frees the value.  `dropping` is the    *)
(* stack of the values whose drop block is running, innermost last.        *)
(***************************************************************************)
EXTENDS Integers, Sequences, FiniteSets

CONSTANTS
  Addr,     \* the addresses a value may have
  Const,    \* those that are string constants of the module
  Width,    \* how many counted words a value has at most
  MaxExt,   \* bound: owners outside the heap, per value
  Null      \* a word that holds no counted value

ASSUME AddrAssumption == IsFiniteSet(Addr) /\ Const \subseteq Addr /\ Null \notin Addr
ASSUME BoundAssumption == Width \in Nat /\ MaxExt \in Nat

VARIABLES
  mem,      \* what each address is: nothing, a heap value, a frame value, a constant
  hdr,      \* the count in the header
  body,     \* the counted words of a value
  ext,      \* owners of a heap value outside the heap
  dropping  \* release functions inside their drop block, innermost last

vars == <<mem, hdr, body, ext, dropping>>

Idx == 1 .. Width
Empty == [i \in Idx |-> Null]

\* IMMORTAL is u64::MAX; the signed comparisons of release_fn read it as -1.
Immortal == -1

\* The words that hold `a`: its owners on the heap.
Words(a) == {w \in Addr \X Idx : body[w[1]][w[2]] = a}

\* A value somebody still owns.
Held(a) == ext[a] > 0 \/ Words(a) # {}

Top(s) == s[Len(s)]
Pop(s) == SubSeq(s, 1, Len(s) - 1)

Init ==
  /\ mem = [a \in Addr |-> IF a \in Const THEN "const" ELSE "none"]
  /\ hdr = [a \in Addr |-> IF a \in Const THEN Immortal ELSE 0]
  /\ body = [a \in Addr |-> Empty]
  /\ ext = [a \in Addr |-> 0]
  /\ dropping = <<>>

----------------------------------------------------------------------------
\* Building values.

\* heap_bytes: a header with a count of one, for the owner that asked for it.
HeapAlloc(a) ==
  /\ dropping = <<>> /\ mem[a] = "none" /\ MaxExt > 0
  /\ mem' = [mem EXCEPT ![a] = "heap"]
  /\ hdr' = [hdr EXCEPT ![a] = 1]
  /\ ext' = [ext EXCEPT ![a] = 1]
  /\ UNCHANGED <<body, dropping>>

\* frame_bytes: the same header, with the count that never moves.
FrameAlloc(a) ==
  /\ dropping = <<>> /\ mem[a] = "none"
  /\ mem' = [mem EXCEPT ![a] = "frame"]
  /\ hdr' = [hdr EXCEPT ![a] = Immortal]
  /\ UNCHANGED <<body, ext, dropping>>

\* stack_release: every frame value above the mark goes, without a release.
Unwind(S) ==
  /\ dropping = <<>> /\ S # {}
  /\ \A a \in S : mem[a] = "frame" /\ Words(a) = {}
  /\ mem' = [a \in Addr |-> IF a \in S THEN "none" ELSE mem[a]]
  /\ UNCHANGED <<hdr, body, ext, dropping>>

----------------------------------------------------------------------------
\* Taking and handing over references.

\* Mutant: a retain that leaves the count alone.
NotBumped(a) == hdr

\* The header's count after gen_retain.
Bumped(a) == IF hdr[a] = Immortal THEN hdr ELSE [hdr EXCEPT ![a] = @ + 1]

\* gen_retain for a new owner outside the heap.
Retain(a) ==
  /\ dropping = <<>> /\ mem[a] = "heap" /\ Held(a) /\ ext[a] < MaxExt
  /\ hdr' = Bumped(a)
  /\ ext' = [ext EXCEPT ![a] = @ + 1]
  /\ UNCHANGED <<mem, body, dropping>>

\* An aggregate under construction: on the heap, and only its builder has it.
Building(a) == mem[a] = "heap" /\ hdr[a] = 1 /\ ext[a] = 1

\* A value built on the spot is stored: its reference moves into the word.
Store(a, i, v) ==
  /\ dropping = <<>> /\ Building(a) /\ body[a][i] = Null /\ v # a
  /\ mem[v] = "heap" /\ ext[v] > 0
  /\ body' = [body EXCEPT ![a][i] = v]
  /\ ext' = [ext EXCEPT ![v] = @ - 1]
  /\ UNCHANGED <<mem, hdr, dropping>>

\* retain_stored: a value somebody else names is stored and counted again; a
\* constant is stored as it is.
StoreShared(a, i, v) ==
  /\ dropping = <<>> /\ Building(a) /\ body[a][i] = Null /\ v # a
  /\ mem[v] = "const" \/ (mem[v] = "heap" /\ Held(v))
  /\ body' = [body EXCEPT ![a][i] = v]
  /\ hdr' = Bumped(v)
  /\ UNCHANGED <<mem, ext, dropping>>

----------------------------------------------------------------------------
\* Letting go.

\* Mutant: the drop block starts one owner early.
LetGoEarly(a) ==
  IF hdr[a] = Immortal
    THEN UNCHANGED <<hdr, dropping>>
    ELSE /\ hdr' = [hdr EXCEPT ![a] = @ - 1]
         /\ dropping' = IF hdr[a] - 1 <= 1 THEN Append(dropping, a) ELSE dropping

\* Mutant: the count goes down before the sentinel is tested.
LetGoBlind(a) ==
  /\ hdr' = [hdr EXCEPT ![a] = @ - 1]
  /\ dropping' = IF hdr[a] - 1 = 0 THEN Append(dropping, a) ELSE dropping

\* The entry of a release function: an immortal count is left alone, any other
\* is taken down by one, and at zero the drop block starts.
LetGo(a) ==
  IF hdr[a] = Immortal
    THEN UNCHANGED <<hdr, dropping>>
    ELSE /\ hdr' = [hdr EXCEPT ![a] = @ - 1]
         /\ dropping' = IF hdr[a] - 1 <= 0 THEN Append(dropping, a) ELSE dropping

\* Mutant: anybody may release, owner or not.
ReleaseAnyhow(a) ==
  /\ dropping = <<>> /\ mem[a] = "heap"
  /\ ext' = [ext EXCEPT ![a] = @ - 1]
  /\ LetGo(a)
  /\ UNCHANGED <<mem, body>>

\* gen_release by an owner outside the heap.
Release(a) ==
  /\ dropping = <<>> /\ mem[a] = "heap" /\ ext[a] > 0
  /\ ext' = [ext EXCEPT ![a] = @ - 1]
  /\ LetGo(a)
  /\ UNCHANGED <<mem, body>>

\* gen_release_children: the innermost drop block releases its next word.
DropWord(i) ==
  /\ dropping # <<>>
  /\ LET p == Top(dropping) IN
       /\ body[p][i] # Null
       /\ \A j \in Idx : j < i => body[p][j] = Null
       /\ LetGo(body[p][i])
       /\ body' = [body EXCEPT ![p][i] = Null]
  /\ UNCHANGED mem

\* Mutant: a value is freed with its words still in it.
FreeWhole ==
  /\ dropping # <<>>
  /\ mem' = [mem EXCEPT ![Top(dropping)] = "none"]
  /\ body' = [body EXCEPT ![Top(dropping)] = Empty]
  /\ dropping' = Pop(dropping)
  /\ UNCHANGED <<hdr, ext>>

\* Mutant: the end of a drop block jumps back instead of returning.
FreeAgain ==
  /\ dropping # <<>> /\ body[Top(dropping)] = Empty
  /\ UNCHANGED vars

\* The end of the drop block: free, and return to the enclosing release.
DropEnd ==
  /\ dropping # <<>> /\ body[Top(dropping)] = Empty
  /\ mem' = [mem EXCEPT ![Top(dropping)] = "none"]
  /\ dropping' = Pop(dropping)
  /\ UNCHANGED <<hdr, body>>

\* Nobody outside the heap gains or loses a reference by either.
ReleaseChild(i) == DropWord(i) /\ UNCHANGED ext
Free == DropEnd /\ UNCHANGED ext

----------------------------------------------------------------------------
Cascade == Free \/ \E i \in Idx : ReleaseChild(i)

Next ==
  \/ \E a \in Addr : HeapAlloc(a) \/ FrameAlloc(a) \/ Retain(a) \/ Release(a)
  \/ \E S \in SUBSET Addr : Unwind(S)
  \/ \E a, v \in Addr, i \in Idx : Store(a, i, v) \/ StoreShared(a, i, v)
  \/ Cascade

Spec == Init /\ [][Next]_vars

\* The release functions are straight-line code: once one has started, the
\* processor runs it to the end.
FairSpec == Spec /\ WF_vars(Cascade)

----------------------------------------------------------------------------
TypeOK ==
  /\ mem \in [Addr -> {"none", "heap", "frame", "const"}]
  /\ hdr \in [Addr -> Int]
  /\ body \in [Addr -> [Idx -> Addr \cup {Null}]]
  /\ ext \in [Addr -> Nat]
  /\ dropping \in Seq(Addr)

\* The count in a heap value's header is exactly the number of its owners:
\* those outside the heap and the words that hold it (gen_retain, release_fn).
CountExact ==
  \A a \in Addr : mem[a] = "heap" => hdr[a] = ext[a] + Cardinality(Words(a))

\* No owner is left holding an address that was freed, reclaimed with the frame
\* or never allocated: neither a word of a live value nor an owner outside.
NoDangling ==
  \A a \in Addr : Held(a) => mem[a] # "none"

\* A value is freed only after the last owner has let go: release_fn calls free
\* on nothing that a word or a name can still reach.
FreedUnowned ==
  [][\A a \in Addr : mem[a] = "heap" /\ mem'[a] = "none" => ~Held(a)]_vars

\* A constant outlives the program and its count is never written: the test for
\* the sentinel comes before the decrement in release_fn.
ConstantsStay ==
  \A a \in Const : mem[a] = "const" /\ hdr[a] = Immortal

\* Reference cycles cannot be built, so when no owner is left outside the heap
\* and no release is running, nothing is left on the heap (README, "nothing is
\* left behind by construction").
NothingLeftBehind ==
  dropping = <<>> /\ (\A a \in Addr : ext[a] = 0) => \A a \in Addr : mem[a] # "heap"

\* A release that has started finishes: every nested drop block ends, however
\* deep the values it lets go of are nested.
ReleaseEnds == dropping # <<>> ~> dropping = <<>>
=============================================================================
