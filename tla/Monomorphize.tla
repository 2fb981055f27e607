---------------------------- MODULE Monomorphize ----------------------------
(***************************************************************************)
(* Specialising generic functions (compiler/src/monomorphize.rs, `expand`).*)
(* A round type-checks the program, which says for every call of a generic *)
(* function what its type parameter stands for; the calls are renamed to   *)
(* copies, and the copies that are missing are added.  Rounds go on until  *)
(* none is missing.                                                        *)
(*                                                                         *)
(* A program is the calls its functions make.  Every generic function has  *)
(* one parameter x : T, and a call passes x or an int, put into some       *)
(* layers of array, which is how a type can grow.                          *)
(***************************************************************************)
EXTENDS Integers, Sequences, FiniteSets

CONSTANTS
  Generics,  \* the generic functions of the source
  ROUNDS,    \* rounds before `expand` gives up (16 in the code)
  MaxCalls,  \* bound: calls in the body of a generic function
  MaxMain,   \* bound: calls in main
  Horizon    \* bound: depth to which calls are followed by the properties

ASSUME MonomorphizeAssumption ==
  /\ "main" \notin Generics
  /\ {ROUNDS, MaxCalls, MaxMain, Horizon} \subseteq Nat \ {0}

VARIABLES
  source,   \* the program given
  program,  \* `current`: a function by its name
  round,
  verdict   \* "running", "ok" (the program is the result) or "rejected"

vars == <<source, program, round, verdict>>

----------------------------------------------------------------------------
\* Types and names.

Type(base, layers) == [base |-> base, layers |-> layers]
T == Type("T", 0)
Wrapped(t, n) == [t EXCEPT !.layers = @ + n]
Substitute(t, arg) == IF t.base = "T" THEN Wrapped(arg, t.layers) ELSE t

\* A function of the source, and its copy for a type.
Original(f) == [fn |-> f, args |-> <<>>]
Mangle(f, t) == [fn |-> f, args |-> <<t>>]
Main == Original("main")

\* A body is a sequence of calls; one that passes x has the base "x".
Calls(passed) ==
  [callee : {Original(f) : f \in Generics}, passes : passed, layers : {0, 1}]
Bodies(passed, n) == UNION {[1 .. k -> Calls(passed)] : k \in 0 .. n}

Program(bodies, main) ==
  [n \in {Original(f) : f \in Generics} \cup {Main} |->
     IF n = Main THEN [generic |-> FALSE, param |-> Type("int", 0), calls |-> main]
                 ELSE [generic |-> TRUE, param |-> T, calls |-> bodies[n.fn]]]

Init ==
  /\ \E bodies \in [Generics -> Bodies({"x", "int"}, MaxCalls)], main \in Bodies({"int"}, MaxMain) :
       source = Program(bodies, main)
  /\ program = source /\ round = 0 /\ verdict = "running"

----------------------------------------------------------------------------
\* The type checker.  It walks the bodies of generic functions too, where T is
\* a type like any other.

Sites(p) == UNION {{<<g, i>> : i \in 1 .. Len(p[g].calls)} : g \in DOMAIN p}
CallAt(p, s) == p[s[1]].calls[s[2]]
Callee(p, s) == p[CallAt(p, s).callee]
ArgType(p, s) ==
  IF CallAt(p, s).passes = "x" THEN Wrapped(p[s[1]].param, CallAt(p, s).layers)
                               ELSE Type("int", CallAt(p, s).layers)

WellTyped(p) ==
  \A s \in Sites(p) : Callee(p, s).generic \/ ArgType(p, s) = Callee(p, s).param

\* The calls of generic functions, and the copy each one needs.
Instantiations(p) == {s \in Sites(p) : Callee(p, s).generic}
Target(p, s) == Mangle(CallAt(p, s).callee.fn, ArgType(p, s))

----------------------------------------------------------------------------
\* A round.

\* Mutant: a call is known by its position alone, and copies share positions.
RenamedByPosition(p, s) ==
  LET there == {r \in Instantiations(p) : r[2] = s[2]}
  IN IF s \in Instantiations(p) THEN [CallAt(p, s) EXCEPT !.callee = Target(p, CHOOSE r \in there : TRUE)]
                                ELSE CallAt(p, s)

Renamed(p, s) ==
  IF s \in Instantiations(p) THEN [CallAt(p, s) EXCEPT !.callee = Target(p, s)]
                             ELSE CallAt(p, s)

\* Every function is rewritten, the generic ones included.
Rewritten(p, g) == [p[g] EXCEPT !.calls = [i \in 1 .. Len(p[g].calls) |-> Renamed(p, <<g, i>>)]]

Missing(p) == {Target(p, s) : s \in Instantiations(p)} \ DOMAIN p

\* Mutant: a copy is made of the function as this round has rewritten it.
CopyOfRewritten(p, n) ==
  LET template == p[Original(n.fn)]
  IN [generic |-> FALSE, param |-> Substitute(template.param, n.args[1]),
      calls |-> Rewritten(p, Original(n.fn)).calls]

\* A copy is made of the function as it was when the round began.
Copy(p, n) ==
  LET template == p[Original(n.fn)]
  IN [generic |-> FALSE, param |-> Substitute(template.param, n.args[1]), calls |-> template.calls]

Specialise ==
  /\ verdict = "running" /\ WellTyped(program) /\ Instantiations(program) # {}
  /\ program' = [n \in DOMAIN program \cup Missing(program) |->
                   IF n \in DOMAIN program THEN Rewritten(program, n) ELSE Copy(program, n)]
  /\ round' = round + 1
  /\ verdict' = CASE Missing(program) = {} -> "ok"
                  [] Missing(program) # {} /\ round + 1 = ROUNDS -> "rejected"
                  [] OTHER -> "running"
  /\ UNCHANGED source

\* Nothing generic is called.
Settle ==
  /\ verdict = "running" /\ WellTyped(program) /\ Instantiations(program) = {}
  /\ verdict' = "ok"
  /\ UNCHANGED <<source, program, round>>

\* Whatever the checker says of a program this pass has changed is taken to
\* mean that a type grows.
Reject ==
  /\ verdict = "running" /\ ~WellTyped(program)
  /\ verdict' = "rejected"
  /\ UNCHANGED <<source, program, round>>

Next == Specialise \/ Settle \/ Reject

Spec == Init /\ [][Next]_vars
----------------------------------------------------------------------------
\* What a program runs: the functions main leads to, followed step by step.

Reached(p) ==
  LET f[k \in 0 .. Horizon] ==
        IF k = 0 THEN {Main}
        ELSE LET now == f[k - 1]
             IN now \cup {CallAt(p, s).callee : s \in {r \in Sites(p) : r[1] \in now}}
  IN f[Horizon]

\* What the source means: a generic function at each type it is called with.
InstanceCalls(n) ==
  LET body == source[Original(n.fn)].calls
  IN {Mangle(body[i].callee.fn,
             IF body[i].passes = "x" THEN Wrapped(n.args[1], body[i].layers)
                                     ELSE Type("int", body[i].layers)) : i \in 1 .. Len(body)}
Instances(roots) ==
  LET f[k \in 0 .. Horizon] ==
        IF k = 0 THEN roots
        ELSE LET now == f[k - 1] IN now \cup UNION {InstanceCalls(n) : n \in now}
  IN f[Horizon]

\* What is accepted runs exactly the instances the source means: every call a
\* backend can come to is to a copy that is there and takes what it is given.
\* The last round is not type-checked, and a copy is found by name alone.
Sound ==
  verdict = "ok" =>
    /\ Reached(program) = Instances({Main})
    /\ Reached(program) \subseteq DOMAIN program
    /\ \A s \in Sites(program) : s[1] \in Reached(program) =>
         ~Callee(program, s).generic /\ ArgType(program, s) = Callee(program, s).param

\* A program is accepted whose generic functions call, besides themselves, only
\* generic functions that pass on nothing of the type they are given.
Shallow ==
  \A f, g \in Generics : \A i \in 1 .. Len(source[Original(f)].calls), j \in 1 .. Len(source[Original(g)].calls) :
    source[Original(f)].calls[i].callee = Original(g) =>
      \/ source[Original(g)].calls[j].passes = "int"
      \/ f = g /\ source[Original(f)].calls[i].layers = 0 /\ source[Original(f)].calls[i].passes = "x"
AcceptsShallow == verdict = "rejected" => ~Shallow

\* "Programs where that never settles are rejected" (monomorphize.rs:53-55): no
\* program is rejected for which a finite set of copies is enough, whatever type
\* a generic function nobody calls is given.
RejectsOnlyGrowing ==
  LET all == Instances({Main} \cup {Mangle(f, T) : f \in Generics})
  IN verdict = "rejected" => \E n \in all : ~(InstanceCalls(n) \subseteq all)
=============================================================================
