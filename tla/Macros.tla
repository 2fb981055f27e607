------------------------------- MODULE Macros -------------------------------
(***************************************************************************)
(* `macro`: a call in the interpreter, which evaluates the arguments once  *)
(* and runs the body in a frame of its own (codegen.rs); a substitution in *)
(* the native backend, which copies the arguments' expressions to where    *)
(* the parameters stand, before anything is generated (codegen_llvm.rs).   *)
(*                                                                         *)
(* The program is `let r = e` where v and t are bound already.  An         *)
(* expression is <<"int", n>>, <<"name", x>>, <<"tick">> (a call with an   *)
(* effect: it counts, and answers with the count), <<"add", l, r>>,        *)
(* <<"if", c, l, r>>, <<"array", e>> or <<"call", macro, arguments>>.      *)
(* A macro is [params, lets, ends, result]: `let` statements, then its     *)
(* result as a `return` or as a last expression.  A tick stands for any    *)
(* effect: output, or stopping the program.                                *)
(***************************************************************************)
EXTENDS Naturals, Sequences, FiniteSets
LOCAL INSTANCE SequencesExt

\* A point of an evaluation: what was answered, how far the count is, and
\* whether the program has stopped there.
At(value, ticks) == [value |-> value, ticks |-> ticks, ok |-> TRUE]
Stopped(ticks) == [value |-> 0, ticks |-> ticks, ok |-> FALSE]

RECURSIVE Eval(_, _, _, _), EvalArgs(_, _, _, _, _), EvalLets(_, _, _, _)

\* The frame of a macro's body: its parameters and nothing of the caller's.
Frame(params, values) == [x \in {params[i] : i \in DOMAIN params} |->
                            values[CHOOSE i \in DOMAIN params : params[i] = x]]
Bound(env, x, v) == [y \in DOMAIN env \cup {x} |-> IF y = x THEN v ELSE env[y]]

EvalArgs(args, env, macros, ticks, values) ==
  IF args = <<>> THEN [values |-> values, ticks |-> ticks, ok |-> TRUE]
  ELSE LET a == Eval(Head(args), env, macros, ticks) IN
       IF a.ok THEN EvalArgs(Tail(args), env, macros, a.ticks, Append(values, a.value))
       ELSE [values |-> values, ticks |-> a.ticks, ok |-> FALSE]

\* Statements: the bindings they leave; the name "" is an expression's own.
EvalLets(lets, env, macros, ticks) ==
  IF lets = <<>> THEN [env |-> env, ticks |-> ticks, ok |-> TRUE]
  ELSE LET a == Eval(lets[1][2], env, macros, ticks) IN
       IF a.ok THEN EvalLets(Tail(lets), IF lets[1][1] = "" THEN env ELSE Bound(env, lets[1][1], a.value),
                             macros, a.ticks)
       ELSE [env |-> env, ticks |-> a.ticks, ok |-> FALSE]

\* A name nobody bound, and a call nobody declared, stop the program.  A body
\* that does not `return` answers with nothing, here 0.
Eval(e, env, macros, ticks) ==
  CASE e[1] = "int" -> At(e[2], ticks)
    [] e[1] = "name" -> IF e[2] \in DOMAIN env THEN At(env[e[2]], ticks) ELSE Stopped(ticks)
    [] e[1] = "tick" -> At(ticks + 1, ticks + 1)
    [] e[1] = "array" -> Eval(e[2], env, macros, ticks)
    [] e[1] = "add" ->
         LET l == Eval(e[2], env, macros, ticks)
             r == Eval(e[3], env, macros, l.ticks)
         IN  IF ~l.ok THEN l ELSE IF ~r.ok THEN r ELSE At(10 * l.value + r.value, r.ticks)
    [] e[1] = "if" ->
         LET c == Eval(e[2], env, macros, ticks)
         IN  IF ~c.ok THEN c ELSE Eval(IF c.value # 0 THEN e[3] ELSE e[4], env, macros, c.ticks)
    [] e[1] = "call" ->
         IF e[2] \notin DOMAIN macros THEN Stopped(ticks)
         ELSE LET m == macros[e[2]]
                  args == EvalArgs(e[3], env, macros, ticks, <<>>)
                  body == EvalLets(m.lets, Frame(m.params, args.values), macros, args.ticks)
                  result == Eval(m.result, body.env, macros, body.ticks)
              IN  IF ~args.ok THEN Stopped(args.ticks)
                  ELSE IF ~body.ok \/ ~result.ok THEN Stopped(body.ticks)
                  ELSE At(IF m.ends = "return" THEN result.value ELSE 0, result.ticks)

\* What the program is left with: r and the names it had, and the count.
Outcome(lets, env, macros) ==
  LET r == EvalLets(lets, env, macros, 0)
      seen == (DOMAIN env \cup {"r"}) \cap DOMAIN r.env
  IN  IF r.ok THEN [ok |-> TRUE, env |-> [x \in seen |-> r.env[x]], ticks |-> r.ticks] ELSE [ok |-> FALSE]

Interpret(p) == Outcome(<<<<"r", p.value>>>>, p.env, p.macros)

(***************************************************************************)
(* The expansion.                                                          *)
(***************************************************************************)

Single(m) == m.lets = <<>>
Multi(m) == m.lets # <<>>

RECURSIVE Substitute(_, _, _), Expand(_, _)

\* The arguments are not read again: a name in one is the caller's.
ArgMap(m, args, macros) == Frame(m.params, [i \in DOMAIN args |-> Substitute(args[i], <<>>, macros)])

\* One parameter after the other, so that an argument is read by the next one.
SubstitutedInTurn(e, map, macros) ==
  IF DOMAIN map = {"p", "q"}
  THEN Substitute(Substitute(e, [x \in {"p"} |-> map[x]], macros), [x \in {"q"} |-> map[x]], macros)
  ELSE Substitute(e, map, macros)
Substituted(e, map, macros) == Substitute(e, map, macros)

Substitute(e, map, macros) ==
  CASE e[1] = "name" /\ e[2] \in DOMAIN map -> map[e[2]]
    [] e[1] = "add" -> <<"add", Substitute(e[2], map, macros), Substitute(e[3], map, macros)>>
    [] e[1] = "if" -> <<"if", Substitute(e[2], map, macros), Substitute(e[3], map, macros),
                        Substitute(e[4], map, macros)>>
    [] e[1] = "array" -> <<"array", Substitute(e[2], map, macros)>>
    [] e[1] = "call" ->
         Expand(<<"call", e[2], [i \in DOMAIN e[3] |-> Substitute(e[3][i], map, macros)]>>, macros)
    [] OTHER -> e

\* expand_macros_in_expr: it does not look inside an array.
Expand(e, macros) ==
  CASE e[1] = "call" /\ e[2] \in DOMAIN macros ->
         IF Single(macros[e[2]])
         THEN Substituted(macros[e[2]].result, ArgMap(macros[e[2]], e[3], macros), macros)
         ELSE e
    [] e[1] = "call" /\ e[2] \notin DOMAIN macros ->
         <<"call", e[2], [i \in DOMAIN e[3] |-> Expand(e[3][i], macros)]>>
    [] e[1] = "add" -> <<"add", Expand(e[2], macros), Expand(e[3], macros)>>
    [] e[1] = "if" -> <<"if", Expand(e[2], macros), Expand(e[3], macros), Expand(e[4], macros)>>
    [] OTHER -> e

\* `let x = m(..)` with several statements in the body: they come in its place,
\* and the `return` becomes the `let`.
ExpandLet(x, e, macros) ==
  IF e[1] = "call" /\ e[2] \in DOMAIN macros /\ Multi(macros[e[2]])
  THEN LET m == macros[e[2]]
           map == ArgMap(m, e[3], macros)
       IN  [i \in DOMAIN m.lets |-> <<m.lets[i][1], Substitute(m.lets[i][2], map, macros)>>]
           \o <<<<IF m.ends = "return" THEN x ELSE "", Substitute(m.result, map, macros)>>>>
  ELSE <<<<x, Expand(e, macros)>>>>

RECURSIVE Names(_), Calls(_, _)
Names(e) ==
  CASE e[1] = "name" -> {e[2]}
    [] e[1] = "add" -> Names(e[2]) \cup Names(e[3])
    [] e[1] = "if" -> Names(e[2]) \cup Names(e[3]) \cup Names(e[4])
    [] e[1] = "array" -> Names(e[2])
    [] e[1] = "call" -> UNION {Names(e[3][i]) : i \in DOMAIN e[3]}
    [] OTHER -> {}

\* The calls in e, and whether each is in an array.
Calls(e, inArray) ==
  CASE e[1] = "add" -> Calls(e[2], inArray) \cup Calls(e[3], inArray)
    [] e[1] = "if" -> Calls(e[2], inArray) \cup Calls(e[3], inArray) \cup Calls(e[4], inArray)
    [] e[1] = "array" -> Calls(e[2], TRUE)
    [] e[1] = "call" -> {<<e[2], inArray>>} \cup UNION {Calls(e[3][i], inArray) : i \in DOMAIN e[3]}
    [] OTHER -> {}

Free(lets) ==
  UNION {Names(lets[i][2]) \ {lets[j][1] : j \in 1 .. i - 1} : i \in DOMAIN lets}

\* A name nobody bound stops the compiler, and so does a call to a macro that
\* is left: there is no such function.
Compiled(p) ==
  LET lets == ExpandLet("r", p.value, p.macros)
  IN  IF /\ Free(lets) \subseteq DOMAIN p.env
         /\ \A i \in DOMAIN lets : Calls(lets[i][2], FALSE) = {}
      THEN Outcome(lets, p.env, <<>>) ELSE [ok |-> FALSE]

(***************************************************************************)
(* Where a substitution is not a call.                                     *)
(***************************************************************************)

RECURSIVE Order(_), HasTick(_)
\* The names of e in the order they are evaluated; a branch may skip some.
Order(e) ==
  CASE e[1] = "name" -> <<e[2]>>
    [] e[1] = "add" -> Order(e[2]) \o Order(e[3])
    [] e[1] = "if" -> <<"?">>
    [] e[1] = "array" -> Order(e[2])
    [] e[1] = "call" -> FlattenSeq([i \in DOMAIN e[3] |-> Order(e[3][i])])
    [] OTHER -> <<>>

HasTick(e) ==
  \/ e[1] = "tick"
  \/ e[1] = "array" /\ HasTick(e[2])
  \/ e[1] = "add" /\ (HasTick(e[2]) \/ HasTick(e[3]))
  \/ e[1] = "if" /\ (HasTick(e[2]) \/ HasTick(e[3]) \/ HasTick(e[4]))
  \/ e[1] = "call" /\ \E i \in DOMAIN e[3] : HasTick(e[3][i])

Statements(m) == Append(m.lets, <<"", m.result>>)
Parameters(m) == {m.params[i] : i \in DOMAIN m.params}
Locals(m) == {m.lets[i][1] : i \in DOMAIN m.lets}

\* Each parameter is evaluated once, in the order of the arguments.
Linear(m) ==
  SelectSeq(FlattenSeq([i \in DOMAIN Statements(m) |-> Order(Statements(m)[i][2])]),
            LAMBDA x : x \in Parameters(m) \cup {"?"}) = m.params

\* Where the two differ: an effect in an argument that is not used exactly
\* once; a body that names what is not its own, or whose own names are the
\* caller's too; a call in an array, and one of several statements that is not
\* the whole value; a body that has no `return`.
Divides(p) ==
  LET Called(e) == Calls(e, FALSE)
      bodies == {p.macros[n] : n \in DOMAIN p.macros}
      inside == UNION {UNION {Called(Statements(m)[i][2]) : i \in DOMAIN Statements(m)} : m \in bodies}
      parts == IF p.value[1] = "call" THEN UNION {Called(p.value[3][i]) : i \in DOMAIN p.value[3]}
               ELSE Called(p.value)
  IN  \/ HasTick(p.value) /\ \E m \in bodies : ~Linear(m)
      \/ \E m \in bodies : \/ ~(Free(Statements(m)) \subseteq Parameters(m))
                           \/ Locals(m) \cap DOMAIN p.env # {}
                           \/ m.ends = "expr"
      \/ \E c \in Called(p.value) : c[2]
      \/ \E c \in inside \cup parts : Multi(p.macros[c[1]])
=============================================================================
