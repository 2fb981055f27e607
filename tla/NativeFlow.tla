----------------------------- MODULE NativeFlow -----------------------------
(***************************************************************************)
(* Where control goes in a compiled program, and which variable a name     *)
(* means there: the branches gen_stmt and gen_expr emit                    *)
(* (compiler/src/codegen_llvm.rs).  A break is one jump to the block on    *)
(* top of loop_exit, a continue one to the top of loop_continue, a return  *)
(* leaves the function.  InterpFlow implements this module.                *)
(*                                                                         *)
(* Like Ownership, the module runs all programs at once: every statement   *)
(* is a free choice among the forms there are.  One name is followed; a    *)
(* statement that does neither is no step at all.                          *)
(***************************************************************************)
EXTENDS Nesting

VARIABLES
  ctx,      \* the constructs the running code stands in
  names,    \* for each, what the name is bound to in the block it opened
  results,  \* for each, the slot loop_result_ptr points to, if it has one
  acc       \* the value an expression has just left

vars == <<ctx, names, results, acc>>

T == Top(ctx)
Running == ctx # <<>> /\ acc = None /\ T.wait = "none"
Ready == Running /\ T.at = "body"

Init ==
  /\ \E kind \in Frames : ctx = <<Place(kind, 0, FALSE)>>
  /\ names = <<None>> /\ results = <<0>>
  /\ acc = None

\* Control stands in the first k constructs of c.
Keep(c, k) ==
  /\ ctx' = SubSeq(c, 1, k)
  /\ names' = SubSeq(names, 1, k)

----------------------------------------------------------------------------
\* Names.  `named` is one map: a block puts it back when it closes, and a loop
\* used as an expression opens none.

Binding == {k \in FrameOf(ctx) .. Len(ctx) : names[k] # None}
EnclosingBlock == Max({k \in FrameOf(ctx) .. Len(ctx) - 1 : ctx[k].kind \notin LoopExprs})

\* A binding made straight in a loop expression takes over the name from the
\* enclosing block, from the first turn on here; in the code already when the
\* loop is passed by.  Where nothing else bears the name it ends with the turn:
\* the type checker lets nobody read it after.
BindingPlace(blockless) ==
  IF blockless /\ Binding \ {Len(ctx)} # {} THEN EnclosingBlock ELSE Len(ctx)

\* let
Let(v) ==
  /\ Ready
  /\ names' = [names EXCEPT ![BindingPlace(T.kind \in LoopExprs)] = v]
  /\ UNCHANGED <<ctx, results, acc>>

\* assignment
Assign(v) ==
  /\ Ready /\ Binding # {}
  /\ names' = [names EXCEPT ![Max(Binding)] = v]
  /\ UNCHANGED <<ctx, results, acc>>

----------------------------------------------------------------------------
\* Going in.

Enter(place, use) ==
  /\ Len(ctx) < MaxDepth
  /\ ctx' = Append(Waiting(ctx, use), place)
  /\ names' = Append(names, None)
  /\ results' = Append(results, 0)
  /\ UNCHANGED acc

If == Ready /\ Enter(Place("if", 0, FALSE), "none")
Loop(p) == Ready /\ Enter(p, "none")

\* An expression whose value the statement, or the loop's test, waits for.
\* A break outside every loop does not evaluate what it is given.
MayWait(use) ==
  /\ Running /\ use # "none"
  /\ IF use = "test" THEN T.at = "head" /\ T.kind \in Tested ELSE T.at = "body"
  /\ use = "brk" => OpenLoops(ctx) # {}

Call(use) == MayWait(use) /\ Enter(Place("fn", 0, FALSE), use)
LoopExpr(p, use) == MayWait(use) /\ Enter(p, use)

\* The name itself is the expression.
Read(use) ==
  /\ MayWait(use) /\ Binding # {}
  /\ ctx' = Waiting(ctx, use) /\ acc' = names[Max(Binding)]
  /\ UNCHANGED <<names, results>>

\* The head of a loop branches to its body; bind_loop_var runs before open_block.
Turn ==
  /\ Running /\ MayTurn(T)
  /\ ctx' = InBody(ctx)
  /\ names' = IF T.named THEN [names EXCEPT ![BindingPlace(TRUE)] = T.next] ELSE names
  /\ UNCHANGED <<results, acc>>

----------------------------------------------------------------------------
\* Coming out.

\* A loop is over: after the loop, with its slot's value if it has one.
LoopOver(c, k, slots) ==
  /\ Keep(c, k - 1)
  /\ results' = SubSeq(slots, 1, k - 1)
  /\ acc' = IF c[k].kind \in LoopExprs THEN slots[k] ELSE None

EndLoop ==
  /\ Running /\ MayEnd(T)
  /\ LoopOver(ctx, Len(ctx), results)

\* The next turn of the loop at k.
TurnAgain(c, k) ==
  /\ ctx' = NextTurn(SubSeq(c, 1, k))
  /\ names' = Append(SubSeq(names, 1, k - 1), None)
  /\ results' = SubSeq(results, 1, k)
  /\ acc' = None

\* Out of the function, with a value for the caller; out of main, the end.
Leave(c, v) ==
  LET k == FrameOf(c)
  IN /\ Keep(c, k - 1)
     /\ results' = SubSeq(results, 1, k - 1)
     /\ acc' = IF k = 1 THEN None ELSE v

\* The end of a body.  A function that falls off its end returns nothing.
EndIf ==
  /\ Ready /\ T.kind = "if"
  /\ Keep(ctx, Len(ctx) - 1) /\ results' = Pop(results)
  /\ UNCHANGED acc

EndTurn == Ready /\ T.kind \in Loops /\ TurnAgain(ctx, Len(ctx))
FallOff == Ready /\ T.kind \in Frames /\ UnitFrame(ctx) /\ Leave(ctx, 0)

\* break stores its value in the innermost slot, whosever it is, and jumps to
\* the innermost exit.  Outside every loop it is nothing.
BreakFrom(c, v) ==
  LET e == OpenLoopExprs(c)
      slots == IF v # None /\ e # {} THEN [results EXCEPT ![Max(e)] = v] ELSE results
  IN IF OpenLoops(c) = {} THEN Keep(c, Len(c)) /\ acc' = None /\ UNCHANGED results
                          ELSE LoopOver(c, Max(OpenLoops(c)), slots)

Break(v) == Ready /\ BreakFrom(ctx, v)

Continue ==
  /\ Ready /\ OpenLoops(ctx) # {}
  /\ TurnAgain(ctx, Max(OpenLoops(ctx)))

Return(v) ==
  /\ Ready
  /\ v = None => UnitFrame(ctx)
  /\ Leave(ctx, IF v = None THEN 0 ELSE v)

\* The value is there, and the statement that waited for it goes on.
Take ==
  /\ acc # None
  /\ LET c == Waiting(ctx, "none")
     IN \/ /\ T.wait = "drop"
           /\ ctx' = c /\ acc' = None
           /\ UNCHANGED <<names, results>>
        \/ T.wait = "ret" /\ Leave(c, acc)
        \/ T.wait = "brk" /\ BreakFrom(c, acc)
        \/ /\ T.wait = "test" /\ acc # 0
           /\ ctx' = InBody(c) /\ acc' = None
           /\ UNCHANGED <<names, results>>
        \/ T.wait = "test" /\ acc = 0 /\ LoopOver(c, Len(c), results)

Uses == Waits \ {"none"}

Next ==
  \/ \E v \in Val : Let(v) \/ Assign(v)
  \/ \E v \in Val \cup {None} : Break(v) \/ Return(v)
  \/ If \/ Turn \/ EndLoop \/ EndIf \/ EndTurn \/ FallOff \/ Continue \/ Take
  \/ \E p \in Headers("while", "for", MaxTurns) : Loop(p)
  \/ \E use \in Uses : Call(use) \/ Read(use)
  \/ \E use \in Uses, p \in Headers("whileExpr", "forExpr", MaxTurns) : LoopExpr(p, use)

Spec == Init /\ [][Next]_vars
=============================================================================
