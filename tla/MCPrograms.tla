----------------------------- MODULE MCPrograms -----------------------------
(* The fragments Programs is asked about. *)
EXTENDS Programs

Upto(S, n) == UNION {[1 .. k -> S] : k \in 0 .. n}

(***************************************************************************)
(* Matches on an enum E with a variant of two ints, A, and one of none, B; *)
(* on the predeclared Option; on a bool; on an int.                        *)
(***************************************************************************)

Wild == [kind |-> "wildcard"]
Var(x) == [kind |-> "variable", name |-> x]
Lit(ty, n) == [kind |-> "literal", value |-> [kind |-> ty, word |-> n]]
Pat(enum, n, inner) == [kind |-> "variant", name |-> [enum |-> enum, name |-> n], inner |-> inner]
Zero == Lit("int", 0)

Enum(n, variants) == [name |-> n, variants |-> variants]
A == [name |-> "A", arity |-> 2]
B == [name |-> "B", arity |-> 0]
AisF == [name |-> "A", arity |-> 0]
SomeOfG == [name |-> "Some", arity |-> 0]

Value(enum, n, args) ==
  [kind |-> "enum", enum |-> enum, name |-> n, args |-> [i \in DOMAIN args |-> [kind |-> "int", word |-> args[i]]]]
Words(ty, S) == {[kind |-> ty, word |-> n] : n \in S}

OfE == [ty |-> "E",
        declss |-> {<<Enum("E", <<A, B>>)>>, <<Enum("E", <<B, A>>)>>, <<Enum("E", <<A, B>>), Enum("F", <<AisF>>)>>},
        patterns |-> {Wild, Var("x"), Pat("", "A", <<Var("x"), Var("y")>>), Pat("", "A", <<Var("y"), Wild>>),
                      Pat("", "A", <<Zero, Var("x")>>), Pat("", "A", <<>>), Pat("", "B", <<>>),
                      Pat("E", "A", <<Wild, Var("x")>>), Pat("E", "B", <<>>), Pat("F", "A", <<>>)},
        values |-> {Value("E", "B", <<>>), Value("E", "A", <<0, 1>>), Value("E", "A", <<1, 0>>)}]
OfOption == [ty |-> "Option",
             declss |-> {<<>>, <<Enum("G", <<SomeOfG>>)>>},
             patterns |-> {Wild, Var("x"), Pat("", "Some", <<Var("x")>>), Pat("Option", "Some", <<Zero>>),
                           Pat("Option", "Some", <<Var("x")>>), Pat("", "None", <<>>)},
             values |-> {Value("Option", "None", <<>>), Value("Option", "Some", <<0>>), Value("Option", "Some", <<1>>)}]
OfBool == [ty |-> "bool", declss |-> {<<>>}, patterns |-> {Wild, Var("x"), Lit("bool", 0), Lit("bool", 1)},
           values |-> Words("bool", {0, 1})]
OfInt == [ty |-> "int", declss |-> {<<>>}, patterns |-> {Wild, Var("x"), Lit("int", 0), Lit("int", 1), Pat("", "None", <<>>)},
          values |-> Words("int", {0, 1, 2})]

\* Two arms of one pattern, one arm of two, or one of two and then one of one.
Singles(P) == {<<p>> : p \in P}
ArmsOver(P) ==
  LET One == [patterns : Singles(P), guard : {"none", "holds", "fails"}]
      Two == [patterns : P \X P, guard : {"none", "holds", "fails"}]
  IN  (One \X One) \cup {<<a>> : a \in Two} \cup (Two \X [patterns : Singles(P), guard : {"none"}])
MatchesOn(of) ==
  [topic : {"match"}, ty : {of.ty}, decls : of.declss, arms : ArmsOver(of.patterns), values : {of.values}]
Matches == MatchesOn(OfE) \cup MatchesOn(OfOption) \cup MatchesOn(OfBool) \cup MatchesOn(OfInt)

(***************************************************************************)
(* Every operator on every pair of words.                                  *)
(***************************************************************************)

NumberQuestions ==
  LET Binary == Arithmetic \cup Dividing \cup Comparison \cup Logic IN
  {[topic |-> "number", ty |-> "int", op |-> o, left |-> a, right |-> b] : o \in Binary, a \in Word, b \in Word}
  \cup {[topic |-> "number", ty |-> "bool", op |-> o, left |-> a, right |-> b] : o \in Binary, a \in 0 .. 1, b \in 0 .. 1}
  \cup {[topic |-> "number", ty |-> "int", op |-> o, left |-> a] : o \in {"-", "!"}, a \in Word}
  \cup {[topic |-> "number", ty |-> "bool", op |-> "!", left |-> a] : a \in 0 .. 1}

(***************************************************************************)
(* Texts of characters of one, two and three bytes; two of them share      *)
(* their first byte.                                                       *)
(***************************************************************************)

a == <<"a">>   space == <<" ">>
e1 == <<"c3", "a8">>   e2 == <<"c3", "a9">>   euro == <<"e2", "82", "ac">>

Ask(op, s, o, i, j) == [topic |-> "text", op |-> op, text |-> s, other |-> o, from |-> i, to |-> j]
TextQuestions ==
  {Ask("substring", s, <<>>, i, j) : s \in Upto({a, e1, euro}, 3), i \in -1 .. 4, j \in -1 .. 4}
  \cup {Ask(op, s, <<>>, i, 0) : op \in {"char_at", "len"}, s \in Upto({a, e1, euro}, 3), i \in -1 .. 3}
  \cup {Ask("trim", s, <<>>, 0, 0) : s \in Upto({a, e1, space}, 4)}
  \cup {Ask(op, s, d, 0, 0) : op \in {"split", "contains"}, s \in Upto({a, e1, e2}, 4), d \in Upto({a, e1, e2}, 2)}

(***************************************************************************)
(* Literals of strings and holes, with no two strings side by side.        *)
(***************************************************************************)

Strings == {<<"str", s>> : s \in Upto({"n", "newline", "\\", "quote", "{", "}"}, 2) \ {<<>>}}
Holes == {<<"hole", <<"n">>>>, <<"hole", <<"{", "n", "}">>>>}
Literals ==
  LET Parts == Strings \cup Holes
      Apart(ps) == \A i \in 1 .. Len(ps) - 1 : ps[i][1] = "hole" \/ ps[i + 1][1] = "hole"
      Sequences == {<<<<"str", <<>>>>>>} \cup {<<p>> : p \in Parts}
                   \cup {<<p, q>> : p \in Parts, q \in Parts} \cup {<<p, h, q>> : p \in Parts, h \in Holes, q \in Parts}
  IN  {[topic |-> "literal", parts |-> ps] : ps \in {qs \in Sequences : Apart(qs)}}

(***************************************************************************)
(* Expressions two constructors deep.                                      *)
(***************************************************************************)

Over(S) ==
  {<<"unary", o, x>> : o \in E!Prefix, x \in S} \cup {<<"binary", o, x, y>> : o \in DOMAIN E!Power, x \in S, y \in S}
  \cup {<<k, x>> : k \in {"struct", "call", "array", "field"}, x \in S}
  \cup {<<k, x, y>> : k \in {"range", "method", "index"}, x \in S, y \in S}
Names == {<<"name">>, <<"variant">>}
Small == Names \cup Over({<<"name">>})
Expressions ==
  {[topic |-> "expression", e |-> x, header |-> h] : x \in Small \cup Over(Small) \cup Over(Names), h \in BOOLEAN}
  \cup {[topic |-> "expression", e |-> <<k, <<"name">>, x>>, header |-> h] :
          k \in {"index", "range"}, x \in Over(Over({<<"name">>})), h \in BOOLEAN}

(***************************************************************************)
(* Macros m(p, q) and s(p), called with each argument.                     *)
(***************************************************************************)

N(x) == <<"name", x>>
Add(x, y) == <<"add", x, y>>
S(x) == <<"call", "s", <<x>>>>
Macro(params, lets, ends, result) == [params |-> params, lets |-> lets, ends |-> ends, result |-> result]

InnerMacros == {Macro(<<"p">>, <<>>, "return", r) : r \in {N("p"), Add(N("p"), N("p")), N("v")}}
               \cup {Macro(<<"p">>, <<>>, "expr", N("p")), Macro(<<"p">>, <<<<"u", N("p")>>>>, "return", N("u"))}
OuterMacros ==
  {Macro(<<"p", "q">>, lets, "return", r) :
     lets \in {<<>>, <<<<"u", N("p")>>>>, <<<<"t", N("q")>>>>},
     r \in {Add(N("p"), N("q")), Add(N("q"), N("p")), Add(S(N("p")), N("q")), S(Add(N("q"), N("p"))),
            <<"if", N("p"), N("q"), N("p")>>, Add(N("u"), N("q")), <<"array", S(N("q"))>>}}
Arguments == {<<"int", 0>>, <<"tick">>, N("v"), N("p"), N("q"), Add(N("t"), <<"tick">>), S(N("q")), <<"array", S(N("v"))>>}
Expansions ==
  {[topic |-> "macro", value |-> e, env |-> [x \in {"v", "t", "p", "q"} |->
      CASE x = "v" -> 1 [] x = "t" -> 2 [] x = "p" -> 3 [] x = "q" -> 4], macros |-> [m |-> o, s |-> i]] :
     e \in {<<"call", "m", <<x, y>>>> : x \in Arguments, y \in Arguments}
           \cup {Add(S(x), y) : x \in Arguments, y \in Arguments} \cup {<<"array", S(x)>> : x \in Arguments},
     o \in OuterMacros, i \in InnerMacros}

MCFragments ==
  [match |-> Matches, number |-> NumberQuestions, text |-> TextQuestions,
   literal |-> Literals, expression |-> Expressions, macro |-> Expansions]
=============================================================================
