----------------------------- MODULE InterpFlow -----------------------------
(***************************************************************************)
(* Where control goes in the interpreter (compiler/src/codegen.rs).  The   *)
(* evaluator is recursive and has no jumps: break, continue and return set *)
(* should_break, should_continue and returned, and every construct, when a *)
(* statement of its body has come back, looks at the flags and decides     *)
(* whether to go on, to leave, and which flag to clear.                    *)
(*                                                                         *)
(* `after` is the moment between a statement's return and the next one's   *)
(* start.  The programs are free, as in NativeFlow; `lifted` is what the   *)
(* program under way may do of the things the two backends differ in.      *)
(* Where it is {} the module implements NativeFlow: a flag that is set     *)
(* stands for a jump that has been made.                                   *)
(***************************************************************************)
EXTENDS Nesting

CONSTANT Depths  \* the kinds of program, each with a bound on its nesting

AllHazards == {
  "loopReturn",   \* a return inside a loop used as an expression
  "strayBreak",   \* break or continue in a function with no loop open
  "breakValue",   \* break with a value out of a statement loop in a loop expression
  "topReturn",    \* a return outside every function
  "loopLet",      \* a let straight in a loop expression, over a name in use
  "loopVar" }     \* a loop variable over a name in use

ASSUME DepthsAssumption ==
  /\ DOMAIN Depths \subseteq SUBSET AllHazards
  /\ \A h \in DOMAIN Depths : Depths[h] \in 1 .. MaxDepth

VARIABLES
  stack,    \* the constructs being evaluated
  after,    \* a statement of the innermost one has just come back
  scopes,   \* of the current call, what each open scope binds the name to
  saved,    \* the scopes of the calls underneath
  globals,  \* what the name is bound to outside every function
  returned, should_break, should_continue, break_value,
  acc,      \* as in NativeFlow
  lifted    \* the kind of program this is: the restrictions lifted

flags == <<returned, should_break, should_continue, break_value>>
vars == <<stack, after, scopes, saved, globals, returned, should_break,
          should_continue, break_value, acc, lifted>>

T == Top(stack)
Running == stack # <<>> /\ ~after /\ acc = None /\ T.wait = "none"
Ready == Running /\ T.at = "body"

Lift(h, safe) == h \in lifted \/ safe

Init ==
  /\ \E kind \in Frames :
       /\ stack = <<Place(kind, 0, FALSE)>>
       /\ scopes = IF kind = "fn" THEN <<None>> ELSE <<>>
  /\ after = FALSE /\ saved = <<>> /\ globals = None
  /\ returned = None /\ should_break = FALSE /\ should_continue = FALSE /\ break_value = None
  /\ acc = None
  /\ lifted \in DOMAIN Depths

----------------------------------------------------------------------------
\* declare, assign, lookup.  A function sees the globals only where it does not
\* use the name itself, so the name stands for a local wherever there is one.

InFunction == stack[FrameOf(stack)].kind = "fn"
Found == {k \in 1 .. Len(scopes) : scopes[k] # None}
Known == Found # {} \/ (~InFunction /\ globals # None)
Value == IF Found # {} THEN scopes[Max(Found)] ELSE globals

Declare(v) ==
  IF scopes = <<>> THEN globals' = v /\ UNCHANGED scopes
                   ELSE scopes' = [scopes EXCEPT ![Len(scopes)] = v] /\ UNCHANGED globals

\* The flags are tested after a let and an assignment too (codegen.rs:185-189);
\* neither sets one, so the next statement is the one behind it.
Let(v) ==
  /\ Ready
  /\ T.kind \in LoopExprs => Lift("loopLet", Found \subseteq {Len(scopes)} /\ (InFunction \/ globals = None))
  /\ Declare(v)
  /\ UNCHANGED <<stack, after, saved, flags, acc>>

Assign(v) ==
  /\ Ready /\ Known
  /\ IF Found # {} THEN scopes' = [scopes EXCEPT ![Max(Found)] = v] /\ UNCHANGED globals
                   ELSE globals' = v /\ UNCHANGED scopes
  /\ UNCHANGED <<stack, after, saved, flags, acc>>

----------------------------------------------------------------------------
\* Going in.  A scope is pushed with the body, not with the construct.

Enter(place, use) ==
  /\ Len(stack) < Depths[lifted]
  /\ stack' = Append(Waiting(stack, use), place)
  /\ UNCHANGED <<after, globals, flags, acc>>

If ==
  /\ Ready /\ Enter(Place("if", 0, FALSE), "none")
  /\ scopes' = Append(scopes, None) /\ UNCHANGED saved

Loop(p) ==
  /\ Ready /\ (p.named => Lift("loopVar", ~Known))
  /\ Enter(p, "none") /\ UNCHANGED <<scopes, saved>>

MayWait(use) ==
  /\ Running /\ use # "none"
  /\ IF use = "test" THEN T.at = "head" /\ T.kind \in Tested ELSE T.at = "body"
  /\ use = "brk" => Lift("strayBreak", OpenLoops(stack) # {})
  /\ use = "brk" /\ OpenLoopExprs(stack) # {} =>
       Lift("breakValue", stack[Max(OpenLoops(stack))].kind \in LoopExprs)
  /\ use = "ret" => Lift("loopReturn", OpenLoopExprs(stack) = {}) /\ Lift("topReturn", InFunction)

\* call_frame
Call(use) ==
  /\ MayWait(use) /\ Enter(Place("fn", 0, FALSE), use)
  /\ scopes' = <<None>> /\ saved' = Append(saved, scopes)

LoopExpr(p, use) ==
  /\ MayWait(use) /\ (p.named => Lift("loopVar", ~Known))
  /\ Enter(p, use)
  /\ UNCHANGED <<scopes, saved>>

\* The name itself is the expression.
Read(use) ==
  /\ MayWait(use) /\ Known
  /\ stack' = Waiting(stack, use) /\ acc' = Value
  /\ UNCHANGED <<after, scopes, saved, globals, flags>>

EnterBody(c) ==
  /\ stack' = InBody(c)
  /\ scopes' = Append(scopes, IF T.named THEN T.next ELSE None)

Turn ==
  /\ Running /\ MayTurn(T)
  /\ EnterBody(stack)
  /\ UNCHANGED <<after, saved, globals, flags, acc>>

----------------------------------------------------------------------------
\* Jumps: a flag, and back to whoever runs the body.

SetReturn(v) == returned' = v /\ UNCHANGED <<should_break, should_continue, break_value>>
SetBreak(v) ==
  /\ should_break' = TRUE
  /\ break_value' = IF v = None THEN break_value ELSE v
  /\ UNCHANGED <<returned, should_continue>>

Break(v) ==
  /\ Ready /\ Lift("strayBreak", OpenLoops(stack) # {})
  /\ v # None /\ OpenLoopExprs(stack) # {} =>
       Lift("breakValue", stack[Max(OpenLoops(stack))].kind \in LoopExprs)
  /\ SetBreak(v) /\ after' = TRUE
  /\ UNCHANGED <<stack, scopes, saved, globals, acc>>

Continue ==
  /\ Ready /\ Lift("strayBreak", OpenLoops(stack) # {})
  /\ should_continue' = TRUE /\ after' = TRUE
  /\ UNCHANGED <<stack, scopes, saved, globals, returned, should_break, break_value, acc>>

Return(v) ==
  /\ Ready /\ (v = None => UnitFrame(stack))
  /\ Lift("loopReturn", OpenLoopExprs(stack) = {}) /\ Lift("topReturn", InFunction)
  /\ SetReturn(IF v = None THEN 0 ELSE v) /\ after' = TRUE
  /\ UNCHANGED <<stack, scopes, saved, globals, acc>>

\* The value of an expression is there, and its statement is completed.
TakeStatement ==
  /\ acc # None /\ T.wait \in {"drop", "ret", "brk"}
  /\ stack' = Waiting(stack, "none") /\ acc' = None /\ after' = TRUE
  /\ CASE T.wait = "ret" -> SetReturn(acc)
       [] T.wait = "brk" -> SetBreak(acc)
       [] OTHER -> UNCHANGED flags
  /\ UNCHANGED <<scopes, saved, globals>>

----------------------------------------------------------------------------
\* Coming out.

\* The loop on top of the stack c is over; a loop expression answers v.
LoopOver(c, v) ==
  /\ stack' = Pop(c)
  /\ IF Top(c).kind \in LoopExprs THEN acc' = v /\ after' = FALSE
                                  ELSE acc' = None /\ after' = TRUE

EndLoop ==
  /\ Running /\ MayEnd(T) /\ LoopOver(stack, 0)
  /\ UNCHANGED <<scopes, saved, globals, flags>>

TakeTest ==
  /\ acc # None /\ T.wait = "test"
  /\ LET c == Waiting(stack, "none")
     IN IF acc # 0 THEN EnterBody(c) /\ acc' = None /\ UNCHANGED after
                   ELSE LoopOver(c, 0) /\ UNCHANGED scopes
  /\ UNCHANGED <<saved, globals, flags>>

PopScope == scopes' = Pop(scopes)

EndIf ==
  /\ Ready /\ T.kind = "if"
  /\ stack' = Pop(stack) /\ after' = TRUE /\ PopScope
  /\ UNCHANGED <<saved, globals, flags, acc>>

\* A call is over and its caller has the value; under main there is nobody.
CallOver(v) ==
  /\ stack' = Pop(stack)
  /\ IF Len(stack) = 1 THEN scopes' = <<>> /\ acc' = None /\ UNCHANGED saved
                       ELSE scopes' = Top(saved) /\ saved' = Pop(saved) /\ acc' = v
  /\ after' = FALSE

FallOff ==
  /\ Ready /\ T.kind \in Frames /\ UnitFrame(stack)
  /\ CallOver(0)
  /\ UNCHANGED <<globals, flags>>

GoOn == after' = FALSE /\ UNCHANGED <<stack, scopes, saved, globals, flags, acc>>
Quiet == returned = None /\ ~should_break /\ ~should_continue

\* Mutant: only a break gets out of an if, so a continue runs on.
AfterInIfForgetful ==
  /\ after /\ stack # <<>> /\ T.kind = "if"
  /\ IF returned = None /\ ~should_break
       THEN GoOn
       ELSE stack' = Pop(stack) /\ PopScope /\ UNCHANGED <<after, saved, globals, flags, acc>>

\* if: any flag leaves the branch, and stays set for whoever is concerned.
AfterInIf ==
  /\ after /\ stack # <<>> /\ T.kind = "if"
  /\ IF Quiet THEN GoOn
     ELSE stack' = Pop(stack) /\ PopScope /\ UNCHANGED <<after, saved, globals, flags, acc>>

\* A function ends with `returned`; it does not look at the other flags.
AfterInCall ==
  /\ after /\ stack # <<>> /\ T.kind = "fn"
  /\ IF returned = None THEN GoOn
     ELSE CallOver(returned) /\ returned' = None
          /\ UNCHANGED <<globals, should_break, should_continue, break_value>>

\* run looks at no flag at all.
AfterAtTop == after /\ stack # <<>> /\ T.kind = "top" /\ GoOn

\* Mutant: one of the ways out of a loop's body keeps its scope.
ReturnThroughLoopOpen ==
  /\ returned # None
  /\ stack' = Pop(stack)
  /\ UNCHANGED <<scopes, after, saved, globals, flags, acc>>

\* while and for, statements: a return leaves the loop with the flag still set...
ReturnThroughLoop ==
  /\ returned # None
  /\ stack' = Pop(stack) /\ PopScope
  /\ UNCHANGED <<after, saved, globals, flags, acc>>

\* ...a continue is cleared and makes the next turn...
ContinueInLoop ==
  /\ should_continue /\ should_continue' = FALSE
  /\ ~should_break
  /\ stack' = NextTurn(stack) /\ PopScope /\ after' = FALSE
  /\ UNCHANGED <<saved, globals, returned, should_break, break_value, acc>>

\* Mutant: a break only ends the turn.
BreakOfLoopAsContinue ==
  /\ should_break /\ should_break' = FALSE /\ break_value' = None
  /\ stack' = NextTurn(stack) /\ PopScope /\ after' = FALSE
  /\ UNCHANGED <<saved, globals, returned, should_continue, acc>>

\* ...and a break is cleared, with any value it had, and ends the loop.
BreakOfLoop ==
  /\ should_break /\ should_break' = FALSE /\ break_value' = None
  /\ should_continue' = (should_continue /\ ~after)
  /\ LoopOver(stack, 0) /\ PopScope
  /\ UNCHANGED <<saved, globals, returned>>

AfterInLoop ==
  /\ after /\ stack # <<>> /\ T.kind \in StmtLoops
  /\ \/ ReturnThroughLoop
     \/ returned = None /\ (ContinueInLoop \/ BreakOfLoop)
     \/ Quiet /\ GoOn

\* while and for, expressions: the break, with its value, comes first, then the
\* continue; a return is taken as the loop's own value.
BreakOfLoopExpr ==
  /\ should_break /\ should_break' = FALSE /\ break_value' = None
  /\ LoopOver(stack, IF break_value = None THEN 0 ELSE break_value) /\ PopScope
  /\ UNCHANGED <<saved, globals, returned, should_continue>>

ReturnIntoLoopExpr ==
  /\ returned # None /\ returned' = None
  /\ LoopOver(stack, returned) /\ PopScope
  /\ UNCHANGED <<saved, globals, should_break, should_continue, break_value>>

AfterInLoopExpr ==
  /\ after /\ stack # <<>> /\ T.kind \in LoopExprs
  /\ \/ BreakOfLoopExpr
     \/ ContinueInLoop
     \/ ~should_break /\ ~should_continue /\ ReturnIntoLoopExpr
     \/ Quiet /\ GoOn

\* The body of a loop has run to its end.  All but `for` expressions look at
\* should_break once more.
EndTurn ==
  /\ Ready
  /\ \/ /\ T.kind \in Loops /\ (should_break => T.kind = "forExpr")
        /\ stack' = NextTurn(stack) /\ PopScope
        /\ UNCHANGED <<after, saved, globals, flags, acc>>
     \/ T.kind \in StmtLoops /\ BreakOfLoop
     \/ T.kind = "whileExpr" /\ BreakOfLoopExpr

After == AfterInIf \/ AfterInCall \/ AfterAtTop \/ AfterInLoop \/ AfterInLoopExpr

Uses == Waits \ {"none"}

Step ==
  \/ \E v \in Val : Let(v) \/ Assign(v)
  \/ \E v \in Val \cup {None} : Break(v) \/ Return(v)
  \/ If \/ Turn \/ EndLoop \/ EndIf \/ EndTurn \/ FallOff \/ Continue
  \/ TakeStatement \/ TakeTest \/ After
  \/ \E p \in Headers("while", "for", MaxTurns) : Loop(p)
  \/ \E use \in Uses : Call(use) \/ Read(use)
  \/ \E use \in Uses, p \in Headers("whileExpr", "forExpr", MaxTurns) : LoopExpr(p, use)

Next == Step /\ UNCHANGED lifted

Spec == Init /\ [][Next]_vars
----------------------------------------------------------------------------
\* The jump a set flag stands for has been made already.

\* Where the compiled program stands meanwhile.
Landed ==
  LET loop == Max(OpenLoops(stack))
  IN CASE returned # None -> SubSeq(stack, 1, FrameOf(stack) - 1)
       [] returned = None /\ should_break -> SubSeq(stack, 1, loop - 1)
       [] returned = None /\ ~should_break /\ should_continue -> NextTurn(SubSeq(stack, 1, loop))
       [] OTHER -> stack

LandedValue ==
  CASE returned # None -> IF FrameOf(stack) = 1 THEN None ELSE returned
    [] returned = None /\ should_break /\ stack[Max(OpenLoops(stack))].kind \in LoopExprs ->
         IF break_value = None THEN 0 ELSE break_value
    [] OTHER -> acc

\* The scopes of the call the k-th construct belongs to, and which is its own.
Calls(k) == Cardinality({j \in 1 .. k : stack[j].kind \in Frames})
ScopesAt(k) == IF Calls(k) = Calls(Len(stack)) THEN scopes ELSE saved[Calls(k)]
Opened(k) ==
  {j \in FrameOf(SubSeq(stack, 1, k)) .. k : stack[j].at = "body" /\ stack[j].kind # "top"}
NameAt(k) ==
  CASE Landed[k].at = "head" -> None
    [] Landed[k].at = "body" /\ stack[k].kind = "top" -> globals
    [] OTHER -> ScopesAt(k)[Cardinality(Opened(k))]

Native == INSTANCE NativeFlow WITH
  ctx <- Landed,
  names <- [k \in 1 .. Len(Landed) |-> NameAt(k)],
  results <- [k \in 1 .. Len(Landed) |-> 0],
  acc <- LandedValue

----------------------------------------------------------------------------
TypeOK ==
  /\ stack \in Seq([kind : Frames \cup Loops \cup {"if"}, at : {"head", "body"}, wait : Waits,
                    next : 0 .. MaxTurns, end : 0 .. MaxTurns, named : BOOLEAN])
  /\ Len(stack) <= Depths[lifted]
  /\ {after, should_break, should_continue} \subseteq BOOLEAN
  /\ {globals, acc, returned, break_value} \subseteq Nat \cup {None}
  /\ scopes \in Seq(Nat \cup {None})
  /\ \A k \in 1 .. Len(saved) : saved[k] \in Seq(Nat \cup {None})

\* Every way into a body pushes a scope and every way out pops it, whichever
\* flag it leaves by: the scopes are those of the bodies open in the call, and
\* a call has saved those of each call under it.
ScopesBalanced ==
  stack # <<>> =>
    /\ Len(scopes) = Cardinality(Opened(Len(stack)))
    /\ Len(saved) = Calls(Len(stack)) - 1
    /\ \A k \in 1 .. Len(stack) :
         stack[k].wait # "none" /\ k < Len(stack) /\ stack[k + 1].kind = "fn" =>
           Len(saved[Calls(k)]) = Cardinality(Opened(k))

\* In a program without a hazard no statement starts, and no value is taken,
\* while a jump is under way: the statements between it and where it leads are
\* never evaluated.
JumpsFirst == lifted = {} /\ ~after => Quiet /\ break_value = None

\* The two backends agree, whatever the program does: the interpreter is where
\* the compiled program is, the name means the same, and every expression has the
\* same value (what CONTRIBUTING.md says of the backends).
AgreeAlways == Native!Spec

\* They do on every program without a hazard.
Agree ==
  /\ lifted = {} => Native!Init
  /\ [][lifted = {} => Native!Next]_(Native!vars)
=============================================================================
