----------------------------- MODULE Expressions -----------------------------
(***************************************************************************)
(* How parser.rs reads an expression: binding powers, prefixes, postfixes, *)
(* and the header of an `if`, `while`, `for` or `match`, where a brace     *)
(* after a name opens the body and not a struct literal.                   *)
(*                                                                         *)
(* A token is a string; `v` is a name, `P` one with a capital: a variant,  *)
(* or the struct whose one field is x.  A list of arguments or elements    *)
(* has one member.  An expression is a sequence that starts with its       *)
(* constructor: <<"name">>, <<"variant">>, <<"struct", e>>,                *)
(* <<"unary", op, e>>, <<"binary", op, l, r>>, <<"range", l, r>>,          *)
(* <<"call", e>>, <<"array", e>>, <<"field", e>>, <<"method", e, arg>> or  *)
(* <<"index", e, i>>.                                                      *)
(* A parse is [e |-> expression, rest |-> tokens left]; what the parser    *)
(* refuses has the expression <<"error">>.                                 *)
(***************************************************************************)
EXTENDS Naturals, Sequences
LOCAL INSTANCE SequencesExt

Power == [op \in {"||", "&&", "==", "+", "*"} |->
            CASE op = "||" -> 1 [] op = "&&" -> 2 [] op = "==" -> 3 [] op = "+" -> 4 [] op = "*" -> 5]
Prefix == {"-", "!"}

Wrong == <<"error">>
Parsed(e, rest) == [e |-> e, rest |-> rest]
IsWrong(r) == r.e = Wrong
Peek(toks) == IF toks = <<>> THEN "eof" ELSE Head(toks)

\* f(e, rest) once r parsed and the token after it is tok, which is passed over.
Closed(r, tok, F(_)) ==
  IF IsWrong(r) \/ Peek(r.rest) # tok THEN Parsed(Wrong, r.rest) ELSE Parsed(F(r.e), Tail(r.rest))

RECURSIVE ParseBinop(_, _, _), ClimbFrom(_, _, _), ParseRange(_, _), ParseUnary(_, _),
          ParsePostfix(_, _), ParsePrimary(_, _)

\* Inside parentheses and call arguments a brace is a struct literal again.
NestedKeeps(header) == header
Nested(header) == FALSE

ParsePrimary(toks, header) ==
  CASE Peek(toks) = "(" -> Closed(ParseRange(Tail(toks), Nested(header)), ")", LAMBDA e : e)
    [] Peek(toks) = "[" -> Closed(ParseRange(Tail(toks), header), "]", LAMBDA e : <<"array", e>>)
    [] Peek(toks) = "P" /\ Peek(Tail(toks)) = "{" /\ ~header ->
         IF IsPrefix(<<"P", "{", "x", ":">>, toks)
         THEN Closed(ParseRange(SubSeq(toks, 5, Len(toks)), header), "}", LAMBDA e : <<"struct", e>>)
         ELSE Parsed(Wrong, toks)
    [] Peek(toks) = "v" /\ Peek(Tail(toks)) = "(" ->
         Closed(ParseRange(SubSeq(toks, 3, Len(toks)), Nested(header)), ")", LAMBDA e : <<"call", e>>)
    [] Peek(toks) = "v" /\ Peek(Tail(toks)) # "(" -> Parsed(<<"name">>, Tail(toks))
    [] Peek(toks) = "P" /\ (Peek(Tail(toks)) # "{" \/ header) -> Parsed(<<"variant">>, Tail(toks))
    [] OTHER -> Parsed(Wrong, toks)

\* The postfixes that follow r.
RECURSIVE Postfixes(_, _)
Postfixes(r, header) ==
  CASE IsWrong(r) -> r
    [] ~IsWrong(r) /\ IsPrefix(<<".", "x", "(">>, r.rest) ->
         Postfixes(Closed(ParseRange(SubSeq(r.rest, 4, Len(r.rest)), header), ")",
                          LAMBDA arg : <<"method", r.e, arg>>), header)
    [] ~IsWrong(r) /\ IsPrefix(<<".", "x">>, r.rest) /\ ~IsPrefix(<<".", "x", "(">>, r.rest) ->
         Postfixes(Parsed(<<"field", r.e>>, SubSeq(r.rest, 3, Len(r.rest))), header)
    [] ~IsWrong(r) /\ Peek(r.rest) = "[" ->
         Postfixes(Closed(ParseRange(Tail(r.rest), header), "]", LAMBDA i : <<"index", r.e, i>>), header)
    [] OTHER -> r

ParsePostfix(toks, header) == Postfixes(ParsePrimary(toks, header), header)

ParseUnary(toks, header) ==
  IF Peek(toks) \in Prefix
  THEN LET r == ParseUnary(Tail(toks), header)
       IN  IF IsWrong(r) THEN r ELSE Parsed(<<"unary", Head(toks), r.e>>, r.rest)
  ELSE ParsePostfix(toks, header)

\* The right operand binds one tighter: operators of one level group to the left.
RightPowerSame(op) == Power[op]
RightPower(op) == Power[op] + 1

\* left, and the operators after it that bind at least as tight as min.
ClimbFrom(left, min, header) ==
  IF IsWrong(left) \/ Peek(left.rest) \notin DOMAIN Power \/ Power[Peek(left.rest)] < min THEN left
  ELSE LET op == Head(left.rest)
           right == ParseBinop(Tail(left.rest), RightPower(op), header)
       IN  IF IsWrong(right) THEN right
           ELSE ClimbFrom(Parsed(<<"binary", op, left.e, right.e>>, right.rest), min, header)

ParseBinop(toks, min, header) == ClimbFrom(ParseUnary(toks, header), min, header)

ParseRange(toks, header) ==
  LET left == ParseBinop(toks, 0, header) IN
  IF IsWrong(left) \/ Peek(left.rest) # ".." THEN left
  ELSE LET right == ParseBinop(Tail(left.rest), 0, header)
       IN  IF IsWrong(right) THEN right ELSE Parsed(<<"range", left.e, right.e>>, right.rest)

ParseExpr(toks, header) == ParseRange(toks, header)

(***************************************************************************)
(* The reference: how an expression is written, parentheses only where its *)
(* reading would change without them.  `level` is what the place asks for: *)
(* 0 a range, 1 to 5 an operator of that power, 6 a prefix, 7 a postfix.   *)
(* In a header every struct literal outside parentheses and call arguments *)
(* needs a pair.                                                           *)
(***************************************************************************)

Level(e) ==
  CASE e[1] = "range" -> 0
    [] e[1] = "binary" -> Power[e[2]]
    [] e[1] = "unary" -> 6
    [] OTHER -> 7

RECURSIVE Write(_, _, _)
Write(e, level, header) ==
  LET Parens == \/ Level(e) < level
                \/ header /\ e[1] = "struct"
      In == IF Parens THEN FALSE ELSE header
      Plain ==
        CASE e[1] = "name" -> <<"v">>
          [] e[1] = "variant" -> <<"P">>
          [] e[1] = "struct" -> <<"P", "{", "x", ":">> \o Write(e[2], 0, In) \o <<"}">>
          [] e[1] = "unary" -> <<e[2]>> \o Write(e[3], 6, In)
          [] e[1] = "binary" -> Write(e[3], Power[e[2]], In) \o <<e[2]>> \o Write(e[4], Power[e[2]] + 1, In)
          [] e[1] = "range" -> Write(e[2], 1, In) \o <<"..">> \o Write(e[3], 1, In)
          [] e[1] = "call" -> <<"v", "(">> \o Write(e[2], 0, FALSE) \o <<")">>
          [] e[1] = "array" -> <<"[">> \o Write(e[2], 0, In) \o <<"]">>
          [] e[1] = "field" -> Write(e[2], 7, In) \o <<".", "x">>
          [] e[1] = "method" -> Write(e[2], 7, In) \o <<".", "x", "(">> \o Write(e[3], 0, In) \o <<")">>
          [] e[1] = "index" -> Write(e[2], 7, In) \o <<"[">> \o Write(e[3], 0, In) \o <<"]">>
  IN  IF Parens THEN <<"(">> \o Plain \o <<")">> ELSE Plain

\* An expression where a statement ends, or before the body of a header.
Source(e, header) == Write(e, 0, header) \o (IF header THEN <<"{">> ELSE <<";">>)
=============================================================================
