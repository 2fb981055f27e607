------------------------------ MODULE Nesting ------------------------------
(***************************************************************************)
(* The constructs a running program is inside of, outermost first.  Both   *)
(* backends nest the same way; how they get out again is where they        *)
(* differ: NativeFlow jumps, InterpFlow sets flags.                        *)
(***************************************************************************)
EXTENDS Integers, Sequences, FiniteSets, FiniteSetsExt

CONSTANTS
  Val,       \* the values a literal may have
  None,      \* no value
  MaxDepth,  \* bound: constructs open, over the whole call stack
  MaxTurns   \* bound: turns of a counted loop

ASSUME FlowAssumption ==
  /\ Val \subseteq Nat \ {0} /\ None \notin Nat
  /\ MaxDepth \in Nat /\ MaxTurns \in Nat

Frames == {"top", "fn"}                  \* top level of a program, a function
StmtLoops == {"while", "for"}
LoopExprs == {"whileExpr", "forExpr"}    \* a loop used for its value
Loops == StmtLoops \cup LoopExprs
Counted == {"for", "forExpr"}
Tested == {"while", "whileExpr"}

\* What the statement under way does with the value it waits for: nothing is
\* awaited, the value is dropped, returned, given to break, or a loop's test.
Waits == {"none", "drop", "ret", "brk", "test"}

\* A construct just entered.  A counted loop runs from 0 to `end`; `named` says
\* its variable is the name the model follows.
Place(kind, end, named) ==
  [kind |-> kind, at |-> IF kind \in Loops THEN "head" ELSE "body", wait |-> "none",
   next |-> 0, end |-> end, named |-> named]

\* The loop headers there are: a tested loop, and counted ones.
Headers(tested, counted, turns) ==
  {Place(tested, 0, FALSE)} \cup {Place(counted, n, named) : n \in 0 .. turns, named \in BOOLEAN}

Top(s) == s[Len(s)]
Pop(s) == SubSeq(s, 1, Len(s) - 1)
Waiting(c, use) == [c EXCEPT ![Len(c)].wait = use]

\* The function the nest is in, and the loops open in it.
FrameOf(c) == Max({k \in 1 .. Len(c) : c[k].kind \in Frames})
OpenLoops(c) == {k \in FrameOf(c) + 1 .. Len(c) : c[k].kind \in Loops}
OpenLoopExprs(c) == {k \in OpenLoops(c) : c[k].kind \in LoopExprs}

\* A function whose value nobody takes.
UnitFrame(c) == LET k == FrameOf(c) IN k > 1 => c[k - 1].wait = "drop"

\* The innermost construct is a loop: its next turn, or its body.
NextTurn(c) ==
  [c EXCEPT ![Len(c)].at = "head",
            ![Len(c)].next = IF Top(c).kind \in Counted THEN @ + 1 ELSE @]
InBody(c) == [c EXCEPT ![Len(c)].at = "body"]

\* Mutant: the comparison with the end lets one turn too many.
MayTurnOnceMore(p) == p.at = "head" /\ (p.kind \in Counted => p.next <= p.end)

\* A loop at its head may go round again, or end.  The outcome of a literal
\* test is free; a test that is computed holds of every value but 0.
MayTurn(p) == p.at = "head" /\ (p.kind \in Counted => p.next < p.end)
MayEnd(p) == p.at = "head" /\ (p.kind \in Counted => p.next >= p.end)
=============================================================================
