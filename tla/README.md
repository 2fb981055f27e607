# A verification development for the Zarrin compiler

Zarrin (`compiler/src`, about 8000 lines of Rust) is a small language with two
implementations that promise to agree: a tree-walking interpreter (`codegen.rs`)
and a native backend that emits LLVM IR (`codegen_llvm.rs`). This directory holds
TLA+ models of the parts of the compiler, and of the programs it emits, whose
correctness a test hardly reaches; the TLC configurations that check them on
small instances; and machine-checked proofs of the results that matter most.

The modules are read from the source. Where a doc or a comment says something
else than the code does, the module follows the code. Five such disagreements have
a run that is expected to fail and shows them. The others are excluded by name from the
property that compares the two sides; they are listed under *Known disagreements*.

## The system

| component | source | state it keeps | operations |
|---|---|---|---|
| driver | `main.rs` | list of imported paths, statements in order | `resolve_imports`, `run`, `build`, `check`, `emit-ast`, exit status |
| lexer, parser, AST | `lexer.rs`, `parser.rs`, `ast.rs` | position in the text, `in_header` | tokens, recursive descent, holes of a string, tail expression as return |
| type checker | `typecheck.rs` | stack of scopes, function and struct tables | walk a statement, type of an expression, match coverage |
| monomorphizer | `monomorphize.rs` | templates, set of instances made, output program | `expand`: rewrite, collect instances, up to 16 rounds |
| variants | `variants.rs` | index from variant name to enums | `build`, `lookup` |
| interpreter | `codegen.rs` | scopes, globals, `returned`, `should_break`, `should_continue`, `break_value` | `eval_stmt`, `eval_expr`, `call_frame`, `run` |
| native backend | `codegen_llvm.rs` | `named`, `owned`, `shadowed`, `transient`, `loop_exit`, `loop_continue`, `loop_result_ptr` | `gen_expr`, `gen_stmt`, `compile_to_executable` |
| the compiled program's heap | emitted by `codegen_llvm.rs` | a 16-byte header with a count before every value | allocate, retain, release, drop |
| text and numbers at run time | emitted by `codegen_llvm.rs`, `codegen.rs` | none | UTF-8 indices, checked arithmetic, formatting |
| macros | `codegen_llvm.rs`, `codegen.rs` | none | substitution before code generation; a call in the interpreter |
| diagnostics, builtins table | `diagnostic.rs`, `builtins.rs` | none | render, list |

How they meet: the driver lexes, parses and resolves imports, checks types,
monomorphizes, and hands the program to one backend or the other. The native
backend asks the type checker for types while it generates code, with a
`TypeEnv` it keeps in step with the scopes it opens and closes. The program it
emits runs alone: its heap is a protocol between code emitted at different
places (a function and its caller, a block and the loop around it, a release
function and the one it was called from), none of which sees the others. No part
of the system is concurrent; nothing is persisted. What is hard is

- **ownership over paths**: a reference taken at one place must be given up exactly
  once on every path, through blocks, branches, loops, early exits, calls and
  aggregates, by code that was emitted from a static record (`owned`, `named`);
- **nested releases**: dropping a value releases what it holds, from inside the
  release of the value that held it;
- **flags that stand for jumps**: the interpreter's `returned`, `should_break` and
  `should_continue` must make a recursive evaluator do what the native backend
  does with branches;
- **worklists that must end**: monomorphization discovers instances while it
  rewrites, imports lead to imports, and to the files they came from;
- **one meaning, twice**: an arm that matches, an index into a text, an overflow, a macro
  are each written once over Rust's values and once over words, bytes and branches;
- **two scans of one text**: the lexer takes a string's escapes out, the parser looks for
  its holes in what is left.

## What makes each component correct

- *heap*: the count of a value is the number of its owners; nothing owned is
  freed; constants are never touched; a release ends; when no owner is left
  nothing is left on the heap.
- *ownership discipline*: every reference taken is given up once; nothing the
  program can still name is gone; what is dropped without a release is what the
  README of the repository says is dropped.
- *control flow*: both backends run the same statements in the same order and
  leave loops and functions at the same place.
- *monomorphizer*: it ends within its rounds or says so; every use of a generic
  names an instance that exists; distinct instances have distinct names.
- *driver*: each file is taken once, cycles end, what a file imports comes before it,
  nothing runs that the checker refuses.
- *type checker and variants*: a match that is accepted covers every value, one that
  covers every variant is accepted, and neither depends on the order of declarations.
- *match at run time*: both backends take the same arm and bind the same values.
- *text and numbers*: an index is a character index and never splits a character;
  an overflow stops both backends with the same message.
- *parser*: what is written for an expression or a string is what is read.
- *macros*: a macro substituted is the macro called.

## Modules

| module | what it is |
|---|---|
| `RefHeap` | the abstract specification: the reference-counted heap, whoever its owners are |
| `RefHeapProofs` | its inductive invariant and the theorems |
| `MCRefHeap` | instance for TLC: three addresses and a constant |
| `Ownership` | the detailed specification: which references the generated code takes and gives up, and when; implements `RefHeap` |
| `OwnershipLemmas` | its inductive invariant, and the steps that change the operands of the running frame only |
| `OwnershipProofs` | the other steps, the theorems, and the refinement of `RefHeap` |
| `MCOwnership` | instances for TLC |
| `Nesting` | the constructs a running program is inside of, shared by the next two |
| `NativeFlow` | where compiled programs jump, and what a name stands for there; the abstract specification of control flow |
| `InterpFlow` | the interpreter's flags, scopes and call frames; implements `NativeFlow` |
| `InterpFlowProofs` | its inductive invariant: types, balanced scopes, flags |
| `AgreementProofs` | the refinement, one step after the other |
| `MCFlow` | instances for TLC |
| `Monomorphize` | `expand`: rounds of renaming and copying, over all small programs |
| `MonomorphizeProofs` | what is accepted is right, and shallow programs are accepted |
| `MCMonomorphize` | three generic functions, for TLC |
| `Imports` | the driver: `resolve_imports` with its stack of calls, and the commands |
| `ImportsProofs` | its theorems |
| `MCImports` | four files that import one another in every shape |
| `Matching` | variants, match coverage, and the two ways a `match` is run |
| `Numbers` | machine integers, in the interpreter and compiled |
| `NumbersProofs` | the two agree at every width |
| `Text` | the builtins on text, over characters and over bytes |
| `Reading` | string literals: the lexer's escapes, the parser's holes |
| `Expressions` | the expression parser, and how an expression is written |
| `Macros` | a macro as a call and as a substitution |
| `Programs` | a fragment of a program through reading, checking and both backends: composes the six above |
| `MCPrograms` | the fragments |

### RefHeap

State: `mem` (what an address is), `hdr` (the count in the header), `body` (the
counted words of a value), `ext` (owners outside the heap) and `dropping` (the
release functions that are inside their drop block, innermost last). `HeapAlloc`
is `heap_bytes`, `FrameAlloc` `frame_bytes`, `Unwind` the `stack_release` at the
end of `consumed`, `Retain` `gen_retain`, `Store` and `StoreShared`
`retain_stored` with a value built on the spot or merely named. `LetGo` is the
entry of a release function (sentinel, decrement, test), `Release` calls it for an
owner outside the heap, `ReleaseChild` for the next word of the innermost drop
block, `Free` ends that block. What the last two do to the heap alone is `DropWord` and
`DropEnd`, which `Ownership` takes over as they are. The release functions interleave with nothing
else: every other action requires `dropping = <<>>`.

`Store` and `StoreShared` fill the words of a value that only its builder has
(`Building`), which is why cycles cannot be built and why `NothingLeftBehind`
holds.

### Ownership

The module runs all programs of a small size at once: each action is one
expression or statement form with everything `gen_expr` or `gen_stmt` emits for
it. Besides the heap, the state is the call stack. A frame has its open blocks
with the names they bind (`owned` and `named` in the code generator), the operands
waiting to be used, its loops, and whether it evaluates a consumed expression
(`transient`, the argument of `print`). `due` is the list of release calls the
generated code makes next; `lost` is a ghost that counts references dropped
without a release.

An operand's status is what `produces_owned` answers: `own` or `borrow`. This is
the whole discipline: `let`, an assignment, a return and an aggregate retain what
is borrowed; a call, a comparison, `len` and the like release what was handed over.
Evaluation order is the code's: an aggregate's room is taken before its elements
are evaluated, an assignment stores and retains before it releases, a return
retains before it releases the open blocks, `spent` arguments go after the call.

A program is of one kind (`lifted`), chosen at the start from `HazardSets`: a set of names,
each of which lifts one restriction under which the discipline is sound. For a program
without hazards `lifted` is empty; for each name the code does lose, or free too early,
a reference:

| hazard | the restriction | what the code does without it |
|---|---|---|
| `break` | break and continue leave no owned name behind | branches past the releases: leak |
| `bareReturn` | so does `return;` | emits the return only: leak |
| `loopReturn` | no return out of a loop over an array built in its header | the array's release is at the loop's exit: leak |
| `shadowReturn` | a return sees every owner under its own name | releases the inner value twice, the outer never |
| `redeclare` | a block declares a name once | releases the second value twice |
| `loopVar` | a loop variable's name is new | the outer owner's release goes to the last element |
| `nullary` | a payload-free variant is not kept | retained once too often: leak |
| `handBack` | what `to_string` or `array_get` hands back is immortal | released by somebody who never retained it |
| `otherBranch` | branches agree in ownership | the first branch's answer is used for all |
| `assignBorrowed` | only owned names are assigned | the caller's, the element's or the payload's reference is released |
| `assignWalked` | the array a loop walks is not assigned | freed while it is walked |
| `frameWord` | frame values are not stored in heap values | harmless: the heap value is itself lost |
| `arraySet` | `array_set` of counted values only in a consumed expression | two arrays own one count |
| `payload` | a payload of a type parameter's type is a constant | neither retained nor released |

Where `lifted` is empty, `Ownership` implements `RefHeap`: `ext` is mapped to the number
of claims on a value (names that own it, operands handed over, loops that own
their array, release calls still to be made, lost references), so every retain and
release of the generated code must be one its heap allows.

Abstractions: operands have no type, so the model allows an element access
wherever there is a word to read; only counted values are operands; conditions are
nondeterministic; a call has one argument that may be counted; the words of a frame
value are not tracked, what is stored there is counted as lost, which is what
happens to it. A method receiver or a match scrutinee that was built on the spot is
dropped without a release, as in the code. Not modelled: statements inside a loop
used as an expression (no block is opened there, so what they declare is recorded
in the enclosing block), a consumed expression inside another, a program without
`main` (its top level has no open block), a function that promises a value and falls
off its end.

### NativeFlow and InterpFlow

Both run all programs at once: every statement and every operand is a free choice
among the forms there are. Both keep the constructs the program is inside of
(`ctx`, `stack`: top level, functions, ifs, loops, and loops used for their value),
innermost last, with where control is in each (`at`) and what its current
statement will do with the value it waits for (`wait`). One name is followed;
a value is that of the expression just evaluated (`acc`).

`NativeFlow` is the code `gen_stmt` and `gen_expr` emit. A break drops everything down
to the innermost loop in one step (the top of `loop_exit`), a continue goes to that
loop's head, a return leaves the function. `names` is what the compile-time map
`named` and the slots it points to amount to; `results` are the slots of
`loop_result_ptr`.

`InterpFlow` is the evaluator: `Break`, `Continue` and `Return` only set a flag. `after` is
the moment when a statement has come back to the construct that runs it, and the
`After` actions are the tests made there, one disjunct per test, in each construct's own
order, with the flags that test clears and the scope it pops. A `let` or an assignment sets no flag, so the test the
code makes behind one is left out. `scopes`, `saved`
and `globals` are the interpreter's environment. `EndTurn` tests `should_break` once
more, as the code does after a body; it matters when a flag was set before the loop.

Refinement: a flag that is set stands for a jump already made. `Landed` cuts the
stack to where the flag will lead, `NameAt` finds the scope of each construct, and the
steps in between stutter. So the interpreter must leave through every `if`, loop and
call to exactly the place the compiled program jumps to, with the same bindings there
and the same value.

Here too a program is of one kind, `lifted`, and `Depths` says which kinds there are and how
deep each may nest. Each restriction lifted alone makes the two disagree, or (`strayBreak`,
`topReturn`) leaves a flag set that stands for no jump at all:

| hazard | the restriction | what happens without it |
|---|---|---|
| `loopReturn` | no return inside a loop used as an expression | interpreted, it is the loop's value; compiled, it leaves the function |
| `strayBreak` | break and continue only in a loop of the same function | the flag survives the call and acts on the caller's loop; compiled, it is nothing |
| `breakValue` | a statement loop inside a loop expression breaks without a value | compiled, it becomes the outer loop's value; interpreted, it is dropped |
| `topReturn` | no return outside functions | the interpreter runs on with the flag set |
| `loopLet`, `loopVar` | what a loop expression, or a loop's header, binds is a new name | compiled, the name is taken over from the enclosing block |

Abstractions: a call's arguments, `let` of anything but a literal, and loops over arrays
(walked like ranges) are left out; a literal test goes either way, a computed one holds
of every value but 0. A program is either a top level or a `main`, because compiled
programs ignore the top level when there is a `main`; a function does not read a
global, because that does not compile. `if` and `match` as expressions are not
modelled.

### Monomorphize

A program is the calls its functions make: who is called, and whether with the
caller's own parameter or an int, inside how many layers of array. `Specialise` is one
round: the type checker's instantiations (it walks generic bodies, where `T` is a
type of its own), the renaming of every call site, also in the generic functions, and
the missing copies, made from the functions as they were at the beginning of the
round. `Reject` is the check failing in a later round, which the code takes for a type
that grows. `source` keeps the program as given, so that the properties can compare.

`Sound` compares what `main` reaches in the result with the instances the source means,
computed on their own. `AcceptsShallow` says which programs are surely accepted.
`RejectsOnlyGrowing` is what the comment in the code promises, and fails: the templates
of a later round have been rewritten by an earlier one. In source terms: with
`fn c<T>(x: T) -> T { return x; }`, `fn b<T>(x: T) -> T { return c(x); }` and
`fn a<T>(x: T) -> T { return b(x); }`, the call `a(1)` is rejected as needing a new copy
every time: `b$int`, made in the second round, calls `c$T`. The same happens when a generic
function calls another one that calls itself. The limit of sixteen rounds is never met:
in every instance checked the third round is the last.

### Imports

State: the files (`project`) and the command given, both fixed; `stage`, how far `main` has
come; `visited`, the import spellings taken so far; `stack`, the calls of
`resolve_imports` that are open, each with its file, its next statement and `new_stmts`;
`program`, the list at the end; `report`, the diagnostic. One action is one statement of
the file on top of the stack: `Keep` copies it, `Skip` passes over an import whose spelling is
in `visited`, `Enter` marks the spelling, reads and parses the file and calls, `Fail` stops
where the file cannot be read or parsed. `Return` splices the callee's statements in. `Refuse`
and `Accept` are `check_or_exit` and the match in `check`, `Expand` is `expand_or_exit`, which
may fail on any statement (`Monomorphize` says when), `EmitAst` skips the checker.

A file's place is a sequence of names, a spelling a sequence with `.` and `..`; `Meant` joins
them as `base_dir.join` does. `visited` holds spellings and never places, as in the code. That is
why `NothingTwice` asks for `OneSpelling` (no file has two, and none imports the root, which is
never marked) and `NothingMissed` for `OneMeaning` (a spelling means one file wherever it
stands): without these the code does take a file twice, or leaves one out.
`ImportsComeFirst` asks for the first of these and for no circles; in a circle somebody comes first.
The reference (`Reached`, `Before`) is stated from the files alone: the least set of files that has the
root, or the imports of a file, and all its own imports.

What a diagnostic of the checker or of the monomorphizer shows is always the root's text, with a
position from the file the statement was in (`Stop(Root, program[i][1])`); no property
says that these are one file, because they are not.

### Programs and its parts

`Programs` has one fragment at a time: `FrontEnd` reads and checks it, `BackEnds` runs it in the
interpreter and as a compiled program. What a fragment may be is the constant `Fragments`, a set
for each topic; the parts are pure functions. For each, the module says where the two
backends are known not to be the same language, and the property compares them everywhere else.

- `Matching`. `Index`, `Lookup` and `Unique` are `variants.rs`; `Exhaustive` is `check_exhaustive`,
  `PatternFits` `check_pattern`. `Interpret` tries pattern by pattern, asks the guard after each, and
  compares payloads in depth. `Compiled` compares tags (`Tag`, `TestPattern`), then loads payload
  words by position (`Slot`, `BoundInArm`). `MatchTakesEveryValue` and `RefusedForCause` relate the checker to both
  backends, `OrderOfDeclarations` compares a program with its declarations reversed.
  `ArmsAgree` compares the compiled `match` with what the interpreter does: the same arm, the same values bound.
  Two things are left out, on which the two do differ. Compiled code asks nothing of a payload, so a value
  whose payload a literal turns down takes the arm all the same (`TurnedDown`: `A(0, x)` takes every `A`, `Option::Some(0)` every `Some`);
  the values of the same match that no literal turns down are compared. And arms of several patterns that bind,
  and a variable bound to a whole value that is no int (`BindsOddly`): compiled, the last pattern's slots win, and the
  variable is the compared word. Code written after a pattern that always matches stands behind a branch in the same
  basic block; the module is handed to `llc` as text, which reads it as a block that nothing reaches, so in the model
  it is a test never asked.
- `Numbers`. `EvalInts`, `EvalBools`, `EvalUnary` are the interpreter, `GenBinary` and `GenUnary` the emitted code, with
  `<<"undefined">>` for an `sdiv` or `srem` that LLVM gives no meaning. Left out of the comparison: `&&` and `||`
  on ints other than 0 and 1, which compiled programs join bit by bit, and sums and orders of bools, at which the
  interpreter stops.
- `Text`. A character is the sequence of its bytes. The compiled builtins walk bytes (`Skip`, `Walk`, `CountParts`,
  `Extract`, `Spn`, `Cspn`). Left out: `split` by an empty text, which runs on for ever compiled, and `trim` of
  text with blanks inside, of which the compiled one keeps the first word only.
- `Reading`. `Lex` takes escapes out and `Scan` cuts at braces. `Written` is how a program has to write given
  parts. Left out: a backslash right before a brace (`BackslashBeforeBrace`), which the second scan takes for an escape.
- `Expressions`. The functions of `parser.rs` by name. `Write` is the reference: parentheses only where the reading would
  change without them; in a header also around a struct literal in an index, an array, a field of another
  literal or a method's argument, because `in_header` is cleared in parentheses and calls only.
- `Macros`. `Eval` is the interpreter with `call_frame`, `ExpandLet`, `Expand` and `Substitute` the expander, whose result
  is then run by the same `Eval`. `tick` stands for any effect. Left out (`Divides`): effects in arguments
  used other than once and in order, names of a body that meet the caller's, bodies without `return`, calls in arrays, and
  macros of several statements that are not a whole `let`.

## Runs

| run | instance | what it shows |
|---|---|---|
| `refheap` | 3 addresses, 1 constant, 2 words, at most 2 outside owners | the six properties of the heap; three addresses allow a value shared by two words of one aggregate and by two aggregates, and drops nested three deep |
| `own_calls` | 2 addresses, depth 2, 3 blocks, 3 bindings of 1 name; two kinds of program | without a hazard: exact counts through calls, nested blocks and loops, nothing but documented losses at the end; with `break`, `bareReturn`, `loopReturn` and `nullary`: references leak and nothing worse |
| `own_blocks` | 2 addresses and a constant, 1 frame, 2 names | nothing usable is gone; refinement of `RefHeap` |
| `own_break` | hazard `break` | violated: a value nobody will release |
| `own_shadow_return` | hazard `shadowReturn` | violated: a release of a value that is gone |
| `own_assign_param` | hazard `assignBorrowed` | violated: the caller's name dangles |
| `flow` | programs without a hazard 4 constructs deep, programs with every hazard 3 deep, 1 turn | without a hazard the interpreter implements the compiled program's jumps, and no statement runs while a flag is set; with all of them scopes stay balanced, whatever flag a body is left by |
| `flow_loop_return` | hazard `loopReturn` | violated: a return becomes a loop's value |
| `mono_accept` | 3 generic functions, each with at most 1 call, 2 calls in main | accepted programs are right; programs nested one deep are accepted |
| `mono_reject` | the same | violated: finitely many copies are enough, and the program is rejected |
| `imports` | 4300 projects of 4 files, 6 spellings, 4 commands | the driver ends, takes everything once and in order, and runs nothing unchecked |
| `programs` | some 55000 fragments of six topics, words of 4 bits | accepted matches take every value; the backends agree on matches, numbers, text and macros; literals and expressions are read as written |

Bounds. In `Ownership` every action that adds a frame, block, name, operand, count
or lost reference has the bound in its guard (`MaxDepth`, `MaxBlocks`, `MaxNames`,
`MaxVals`, `MaxCount`, `MaxLost`), all over the whole call stack. Two addresses suffice
to tell an aggregate from what it holds, an old value from a new one and a shadowed
owner from the one over it; every violation listed above was found within them.
Deadlock is not checked there: the program ends, and runs stop at the bounds. It is
checked for `RefHeap`.

In the flow modules `MaxDepth` counts constructs over the whole call stack. Four let a
jump cross an `if` on its way out of a loop that stands in a loop or a called function,
and a call happen inside a loop inside a function; a cut at that depth loses no
interaction of the flags, since each construct acts on its own flags only. One turn
of a counted loop, tested loops without bound, and a literal besides the 0 a loop
starts from keep apart an old value, a new one and none. In `Monomorphize`, `MaxCalls`
and `MaxMain` bound bodies, `Horizon` (8) is more than the longest chain of different
instances three functions can form without growing (seven), and `ROUNDS`, 16 in the
code, is 5. The generic functions are symmetric: no property or action names one.

In `Imports` the root imports up to two of six spellings and each other file one: that is
enough for a circle of two or three files with or without the root, a file under the two spellings `b`
and `../b`, `b` meaning two files (beside `main` and in the directory `d`), an import met a second time in another
file while the first is still open or after it is done, and a failure under an import that
follows another. `Programs` has two arms of one pattern, or one of two patterns and
another; enums with a payload of two words and of none, in both orders, with and without a second enum
that declares one of the names; every pair of words of four bits, where the least integer, its negation and every
overflow occur (the agreement on ints is proved for every width); texts up to four
characters of one to three bytes, two of which share their first byte, with indices from -1 to one past the
bound; literals of up to two strings of up to two characters around holes, one of which holds braces;
expressions two constructors deep, which is what a binding power, a postfix or a
header can be wrong about; a macro of two parameters and one of one, whose bodies use each parameter never,
once, twice or in a branch, and call each other.

Fairness. `RefHeap` has weak fairness of the release functions' own steps. They are
straight-line code with no wait and no loop but the one over an array's words, so a
release that has started runs on. `Imports` has weak fairness of `Next`: the driver is one
sequential process that waits for nobody, and `Ends` says that it needs finitely many steps.

## Proofs

Every theorem holds for all values of the constants that satisfy the assumptions of its
modules. `Depths`, `MaxDepth` and the other bounds are constants too, so a theorem about
a bounded model is one about programs of any size.

tlapm has no induction over data here (the library's induction theorems take an operator for a
parameter, which no installed prover instantiates). Where an argument needs one, it goes by least
counterexample: `LeastNat` proves that a set of natural numbers that is not empty has a least member,
and the numbers for which a claim fails are such a set.

**The heap** (`RefHeapProofs`; `AddrAssumption`, `BoundAssumption`): `TypeCorrect`, `CountsAreExact`,
`NoneDangles`, `ConstantsAreSafe`, `FreeIsSafe` and `NothingLeaks`.
`CountExact` and `NoDangling` are not inductive alone. That a count reaches zero
only when nobody owns the value needs the count to be exact; that it stays exact
when a drop block empties a word needs that value to be neither freed nor
reallocated meanwhile; and that a freed value leaves no word behind needs the
values being dropped to be distinct, with count zero. `HeapInv` is their
conjunction with the types, the place of constants, the immortality of frame
values, and the fact that only heap values have words and outside owners. The
proof has one step per action; cardinality lemmas say what filling and clearing one
word does to the owners of every value.

`NothingLeaks` (`NothingLeftBehind`) adds `NoCircle`: the values can be ranked so that every owner ranks above what it
owns. It is kept because a word is filled only in a value nobody holds yet, which can be ranked above
everything. A value left on the heap when nobody outside owns one has, its count being exact and positive, an
owner on the heap, which ranks above it; so the highest of the finitely many left has none.

**The ownership discipline** (`OwnershipLemmas`, `OwnershipProofs`; `OwnershipAssumption`):
`CountsAreExact`, `OnlyTheLostRemain` and `ImplementsHeap` for programs without a hazard; `CountsCover`,
`NothingUsedAfterFree` and `TypeCorrect` for those whose hazards are among `Leaks`: `break`, `bareReturn`, `loopReturn` and `nullary`.
The others free something early, as `own_shadow_return` and `own_assign_param` show, and nothing is claimed of
programs that have them; `TypeOK` is not either, because a release that was not owed takes a count below
zero. `OwnInv` says that `Core` holds of the programs claimed.

`Counts` is the part the properties are about: `Excess`, a value's count less its claims and the words that hold it, is never
negative, and is zero without hazards. A step that releases must know that the value it releases is there, which is
`Lives` and `Dues`. A step that retains or stores what it only borrows must know the same of that, and a borrower has
no claim: this is what the rest of `Core` is for. `Guard` says why a borrowed value is there. It is a constant or on the frame; or it lies
inside a value that stays (`Kept`): one that a name or a loop will release, and only when the blocks the
borrower stands in are closed (`Keeps`), one a caller keeps for as long as the call lasts, or one that nobody will
release (`Surplus`, `lost`). The guard of an operand ranges over the blocks open now, that of a loop's array over those open
where the loop stands, that of a parameter over the callers only, that of a name bound by an arm over the blocks around it. It follows that a block can
be closed when no operand is left over from inside it, and the shape of blocks and loops says that this is when the
code closes one: `Shape` (arms are innermost and own nothing), `LoopShape` (no operand waits at the head of a loop,
its variable is the last name of its block and owns nothing, and its name is nobody else's), `Waiting`. `ScratchAt` says that what a consumed expression
leaves on the frame is known to no name and no caller, so that it may be unwound.

`OnlyTheLostRemain` needs `NoCircle`, as in the heap: of the values left that lie in nothing lost, the one ranked
highest has a count, hence a claim or an owner; nobody is left to claim, and its owner lies in nothing lost either and ranks higher.

The proof has a lemma per action, and the actions fall into groups for which one lemma does the counting: those that change the operands of
the running frame (`ValsStep`), its blocks and names, its loops, a call and a return, and the release of what
is due. Each takes the claims before and after apart into blocks, operands, arguments and loops (`WeightIs`), which are
cardinalities of sets of positions, and the guards into those that stay as they are and those of what is new.

`ImplementsHeap` needs that the claims are what the counts leave over, so that the mapped `ext` is a number and moves by one where the code
retains or releases. Each action is then `HeapAlloc`, `Store`, `Retain`, `Release` or another of the heap's own actions, or a stutter: a
reference that passes from an operand to a name changes who claims it and not how many do (`ExpressionMoves`, `TakersMove`,
`StatementsMove`). `DropWord` and
`DropEnd` say nothing of `ext`, so `Ownership` does not rule out a drop block that would change the claims: that none does is
part of the proof.

**Control flow** (`InterpFlowProofs`; `FlowAssumption`, `DepthsAssumption`): `FlowTypes`, `ScopesStayBalanced` and
`NothingRunsUnderAFlag`. `FlowInv` is inductive: the types; `Nested`, which constructs may stand in which and wait for
what; `Control`, what a value or a statement just finished says of the innermost construct; `Balanced`, the number
of scopes of the call and of each call under it; and `FlagInv`, for programs without a hazard: at most one jump is on its way,
a break or continue only where the call has a loop open, a return only in a function and in no loop expression, and a value awaited for
one of them only where that jump would be allowed. The last part is what the
restrictions give where a jump starts, and what must still be so when a callee has come back. Heights and counts of calls are
cardinalities of sets of positions; `HeightStep` relates them from one construct to the next, and least
counterexamples give the rest.
`FlowAssumption` asks that `None` be no number, because a return of 0 must differ from no return.

**The two backends agree** (`AgreementProofs`): `CompiledAgrees` proves `Agree`, the refinement, for every depth
and number of turns. The abstract state is that of the constructs the interpreter would be in if the jump that a set flag stands for were
made: with no flag it is all of them (`AtRest`), otherwise a prefix, to the function (`AtReturn`), to the loop (`AtBreak`), or to the
loop at its next turn (`AtContinue`). `NamesOf` reads the native bindings off the scopes; lemmas say how it
follows a push, a pop, a turn, a `let` and an assignment, and that the innermost scope that binds the name is the
innermost construct that does. Each action then has a lemma of its own: `...Agrees`, it is the native action of
its name, or `...Still`, the native state is the same before and after.

`AgreeInv` adds two facts to `FlowInv`. `Alone`: a loop whose variable is the name followed stands where the name
means nothing else. The native loop variable takes the place of an enclosing binding; the interpreter's has a scope
of its own; without `Alone` the two part. `Landing`: a value awaited for a break inside a loop expression is for
such a loop and not for a statement loop within it. The native `break` stores it in the innermost slot, whosever it is.
Both are what the restrictions give when the loop, or the value, is begun, and hold as long as it is open.

**The monomorphizer** (`MonomorphizeProofs`; `MonomorphizeAssumption`): `AcceptedIsSound` proves `Sound`. A program on the way is
`Faithful`: the source's functions and copies of them, a call being the source's call, of the function itself or of one of its copies.
A round in which no copy is missing renames every call of a generic function to a copy that is there; the others were checked
before it. So in the result each call is of the copy for the type it passes, and what main leads to, to any depth, is what the
source's instances are, to the same depth. `ShallowIsAccepted` proves `AcceptsShallow` under `ROUNDS > 2`: two rounds reach a program that
the third leaves alone. The code has sixteen; with two the theorem is false.

**The imports** (`ImportsProofs`; `ProjectAssumption`): `DepthIsBounded`, `OnlyCheckedProgramsRun`, `ImportsTypes`, `StatementsComeOnce`,
`StatementsAllCome` and `ImportedIsThere`, for every set of projects and every finite set of spellings. The depth: a call is added
only with a spelling that was not visited, so `DepthInv` keeps with the bound that `visited` is a
subset of the finite `Spellings` and grows by one where the stack does. `OnlyChecked` is inductive as it
stands: past `resolved` neither the files nor the list change, and only `Accept` leads on for the commands
that run or report. `ImportsTypes` needs `TypeInv`, which adds that the file of every open call is one
that was read and parsed, so its statements are a sequence, and that the stack is
empty outside resolving.

The last three are about what is taken, and in what order, so `Resolution` is an invariant of the open calls together: what they have
taken, read from the outermost in, is a list of positions (`Positions`, `Less`), and `SameItems` and
`OneMoreItem` say that a step leaves it as it is or adds one at the end; when a call returns, its statements move to
its caller's list and stay in place. `Missed`: behind an open call's position everything is taken or visited, and so is all of a visited file
that is no longer open. `Single`: nothing is taken twice, no file is open twice, and nothing is taken ahead of an open call's
position. `Ordered`: the list is in order, and what stands as an import above a statement that is taken is visited and
no longer open. `Reached` and `Before` are least closed sets, stated with quantifiers over
sets of files; they have no recursion to argue about.

**Machine integers** (`NumbersProofs`; `WidthAssumption`): `IntsAgree`, `EvalInts` and `GenBinary` give the same answer to arithmetic,
division and comparison on ints of every width, and `NegationAgrees`, `EvalUnary` and `GenUnary` to the prefixes. The steps: wrapping
changes exactly the numbers outside the words; the quotient
of two words is outside only for the least integer by -1.

Only model-checked: `ReleaseEnds` and `Ends`, which are liveness; and the topics of `Programs` other than
numbers. The parts of `Programs` are recursive functions over patterns, texts and expressions, declared `RECURSIVE`, and
what such a function computes for every input is an induction over data.

## Known disagreements

What the code does against a doc, a comment or the other backend. The first five each have a run
that TLC must find violated; the properties of the passing runs leave out the rest where named.

| disagreement | where |
|---|---|
| a break leaves owned names behind; `CONTRIBUTING.md:104-106` says they are released | run `own_break` |
| a return releases a shadowed owner's value never, the inner one's twice | run `own_shadow_return` |
| assigning a parameter releases what the caller owns | run `own_assign_param` |
| a return in a loop expression: the loop's value interpreted, a return compiled | run `flow_loop_return` |
| a program with finitely many instances is refused as growing | run `mono_reject` |
| `A(0, x)` takes every `A` in compiled programs; `typecheck.rs:819-820` has it leave the rest of `A` | `ArmsAgree`: `TurnedDown` |
| arms of several patterns that bind, and names for a whole value that is no int | `ArmsAgree`: `BindsOddly` |
| jumps and bindings in and around loop expressions, stray jumps, returns at top level | `Agree`, `JumpsFirst`: the hazards of `InterpFlow` |
| owned values under the other restrictions of `Ownership` | its hazards |
| `&&` and `\|\|` on ints, sums and orders of bools | `NumbersAgree`: `Numbers!Divides` |
| `trim` with a blank inside, `split` by an empty text | `TextAgrees`: `Text!Divides` |
| a macro whose substitution is not the call | `MacrosAgree`: `Macros!Divides` |
| a backslash before a brace in a literal | `LiteralReadsBack`: `BackslashBeforeBrace` |
| one file under two spellings, two files under one | `NothingTwice`, `NothingMissed`: `OneSpelling`, `OneMeaning` |

## Not modelled

- Rendering of diagnostics and the table of builtins: a pure function and a constant.
- Tokens other than strings, statements and declarations in the parser: one token of
  lookahead and no state, which the tests cover well.
- Scopes and the types of expressions other than `match` and calls in the type checker; unknown types.
- Floats, order of strings, formatting of values, white space other than the blank.
- In macros: assignments and `if` statements in a body, macros as statements, macros that call
  themselves (the expander does not end), code at top level.
- What the interpreter does with aggregates and methods: values are copied there.
- The holes of a string are opaque; that their positions start again at 1:1, and that
  imported files bring positions of their own, is listed as a hazard of the monomorphizer's call sites.
- LLVM optimisation, linking.
- The depth of the native stack: releasing a long chain recurses.

## Plan

1. `RefHeap`, `Ownership` and the proofs of `RefHeap` (done).
2. `NativeFlow` and `InterpFlow`, refinement between them (done).
3. `Monomorphize` (done).
4. `Imports` and its proofs (done).
5. The pure algorithms, each against a reference or against its twin in the other backend, composed in
   `Programs` (done), and the proof for machine integers (done).
6. Statements inside loop expressions, and `if` and `match` used as expressions, in both
   flow modules and in `Ownership`.
7. Call sites by position in `Monomorphize`: several files, top-level calls, holes of strings.
8. Proofs: control flow, the refinement from `InterpFlow` to `NativeFlow`, the monomorphizer, the imports, leaks, the
   ownership discipline and its refinement of the heap (done).
