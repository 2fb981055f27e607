------------------------------ MODULE Programs ------------------------------
(***************************************************************************)
(* One program fragment at a time, through the whole of zarrinc (main.rs): *)
(* written and read, checked, and then both run by the interpreter and     *)
(* compiled.  The parts are pure functions, each in a module of its own;   *)
(* what a fragment may be is a CONSTANT, a set of fragments for each topic.  *)
(***************************************************************************)
EXTENDS Numbers, Sequences

CONSTANT Fragments

M == INSTANCE Matching
T == INSTANCE Text
R == INSTANCE Reading
E == INSTANCE Expressions
X == INSTANCE Macros

VARIABLES fragment,  \* the fragment, a record with its topic
          stage,     \* "written", "accepted", "refused" or "done"
          answer     \* what the stages have found out
vars == <<fragment, stage, answer>>

Init == /\ \E topic \in DOMAIN Fragments : fragment \in Fragments[topic]
        /\ stage = "written"
        /\ answer = [verdict |-> "none"]

(***************************************************************************)
(* The front end.  A literal is lexed and parsed to parts, an expression   *)
(* parsed to a tree, a match checked; the other fragments are ones that    *)
(* always check.                                                           *)
(***************************************************************************)

Verdict(f) ==
  CASE f.topic = "match" -> M!Check(f.decls, f.ty, f.arms)
    [] f.topic = "literal" -> R!Read(R!Written(f.parts))[1]
    [] f.topic = "expression" -> E!ParseExpr(E!Source(f.e, f.header), f.header).e[1]
    [] OTHER -> "accepted"

Accepted(verdict) == verdict \notin {"error", "not exhaustive", "bad pattern"}

FrontEnd ==
  /\ stage = "written"
  /\ stage' = IF Accepted(Verdict(fragment)) THEN "accepted" ELSE "refused"
  /\ answer' = [verdict |-> Verdict(fragment)]
  /\ UNCHANGED fragment

\* A match is asked about every value of its type.
Interpreted(f) ==
  CASE f.topic = "match" -> [v \in f.values |-> M!Interpret(f.decls, f.arms, v)]
    [] f.topic = "number" -> Interpret(f)
    [] f.topic = "text" -> T!Interpret(f)
    [] f.topic = "macro" -> X!Interpret(f)
    [] f.topic = "literal" -> R!Read(R!Written(f.parts))
    [] f.topic = "expression" -> E!ParseExpr(E!Source(f.e, f.header), f.header)

\* Both backends get the one tree the parser built.
Compile(f) ==
  CASE f.topic = "match" -> [v \in f.values |-> M!Compiled(f.decls, f.arms, v)]
    [] f.topic = "number" -> Compiled(f)
    [] f.topic = "text" -> T!Compiled(f)
    [] f.topic = "macro" -> X!Compiled(f)
    [] OTHER -> Interpreted(f)

BackEndsIdle ==
  /\ stage = "accepted"
  /\ stage' = "done"
  /\ UNCHANGED <<fragment, answer>>

BackEnds ==
  /\ stage = "accepted"
  /\ stage' = "done"
  /\ answer' = [verdict |-> answer.verdict, interpreted |-> Interpreted(fragment), compiled |-> Compile(fragment)]
  /\ UNCHANGED fragment

Next == FrontEnd \/ BackEnds
Spec == Init /\ [][Next]_vars

(***************************************************************************)
(* Properties.                                                             *)
(***************************************************************************)

TypeOK ==
  /\ fragment.topic \in DOMAIN Fragments
  /\ stage \in {"written", "accepted", "refused", "done"}
  /\ stage = "done" <=> "compiled" \in DOMAIN answer

Done(topic) == stage = "done" /\ fragment.topic = topic
Same == answer.interpreted = answer.compiled

\* README.md:26-28, "A `match` must cover its scrutinee": no value of the type
\* gets past the arms of a match that check_exhaustive and check_pattern let
\* through, in either backend, whatever the guards answer.
MatchTakesEveryValue ==
  Done("match") =>
    \A v \in fragment.values : answer.interpreted[v].arm # 0 /\ answer.compiled[v].arm # 0

\* A match refused as not exhaustive has a value that no arm is sure to take:
\* none without a guard and without a question to the payload.
RefusedForCause ==
  stage = "refused" /\ fragment.topic = "match" /\ answer.verdict = "not exhaustive" =>
    LET sure == SelectSeq(fragment.arms, LAMBDA a : a.guard = "none")
        Asks(p) == p.kind = "variant" /\ \E j \in DOMAIN p.inner : ~M!Irrefutable(p.inner[j])
        plain == [i \in DOMAIN sure |-> [sure[i] EXCEPT !.patterns = SelectSeq(@, LAMBDA p : ~Asks(p))]]
    IN  \/ \E v \in fragment.values : M!Interpret(fragment.decls, plain, v).arm = 0
        \/ \E i \in DOMAIN fragment.arms : \E k \in DOMAIN fragment.arms[i].patterns :
             ~M!PatternFits(M!Index(fragment.decls), fragment.ty, fragment.arms[i].patterns[k])

\* variants.rs:56-61, 118-127: an ambiguous name is refused "rather than a coin
\* flip".  What a match means depends on the declarations, not on their order.
OrderOfDeclarations ==
  Done("match") \/ (stage = "refused" /\ fragment.topic = "match") =>
    LET other == [i \in DOMAIN fragment.decls |-> fragment.decls[Len(fragment.decls) + 1 - i]]
    IN  /\ M!Check(other, fragment.ty, fragment.arms) = answer.verdict
        /\ stage = "done" => \A v \in fragment.values :
             M!Compiled(other, fragment.arms, v).arm = answer.compiled[v].arm

\* Where the compiled match is known to bind in its own way: an arm of several
\* patterns makes the loads of all of them, and a name for the whole value is the
\* word that was compared (codegen_llvm.rs:2350-2389).
BindsOddly(f) ==
  LET Binds(p) == \/ p.kind = "variable"
                  \/ p.kind = "variant" /\ \E j \in DOMAIN p.inner : p.inner[j].kind = "variable"
  IN  \E i \in DOMAIN f.arms : LET pats == f.arms[i].patterns IN
        \/ Len(pats) > 1 /\ \E k \in DOMAIN pats : Binds(pats[k])
        \/ pats[1].kind = "variable" /\ f.ty # "int"

\* The compiled match asks nothing of a payload (codegen_llvm.rs:2350-2353): a C
\* that `C(0)` turns down takes that arm, though typecheck.rs:819-820 has `C(0)`
\* "leave the rest of `C` unmatched".
TurnedDown(f, v) ==
  \E i \in DOMAIN f.arms : \E k \in DOMAIN f.arms[i].patterns : LET p == f.arms[i].patterns[k] IN
    /\ p.kind = "variant" /\ v.kind = "enum" /\ p.name.name = v.name
    /\ \E j \in DOMAIN p.inner : p.inner[j].kind = "literal" /\ p.inner[j].value # v.args[j]

\* CONTRIBUTING.md:53-54, on match: an accepted match takes the arm that the
\* interpreter takes and binds the same values to the same names, where it does not
\* bind oddly and for every value whose payload no pattern turns down.
ArmsAgree ==
  Done("match") /\ ~BindsOddly(fragment) =>
    \A v \in fragment.values :
      answer.compiled[v] = answer.interpreted[v] \/ TurnedDown(fragment, v)

\* CONTRIBUTING.md:53-54, on machine integers: the same word or the same
\* failure, and no instruction is reached with operands it has no meaning for
\* (codegen_llvm.rs:233-281, 436-448, 1505-1540).
NumbersAgree == Done("number") => answer.compiled # <<"undefined">> /\ (Same \/ Divides(fragment))

\* The builtins on text, over characters and over bytes: the same answer, no
\* copy from outside the text, and every slot of split's array filled.
TextAgrees == Done("text") => Same \/ T!Divides(fragment)

\* A macro substituted is the macro called, unless it divides them.
MacrosAgree == Done("macro") => Same \/ X!Divides(fragment)

\* What a literal is written for is what the parser hands on, and nothing of
\* the program after the closing quote is eaten with it.
LiteralReadsBack ==
  Done("literal") \/ (stage = "refused" /\ fragment.topic = "literal") =>
    \/ R!BackslashBeforeBrace(fragment.parts)
    \/ stage = "done" /\ answer.interpreted = <<"parts", fragment.parts, <<>>>>

\* An expression is read with the grouping it was written for, and the reading
\* ends before the brace of the body.
ExpressionReadsBack ==
  Done("expression") \/ (stage = "refused" /\ fragment.topic = "expression") =>
    /\ stage = "done"
    /\ answer.interpreted = [e |-> fragment.e, rest |-> <<IF fragment.header THEN "{" ELSE ";">>]
=============================================================================
