------------------------------- MODULE Reading -------------------------------
(***************************************************************************)
(* A string literal from the characters a program is written in to the     *)
(* parts it stands for: the lexer takes the escapes out (lexer.rs), the    *)
(* parser cuts what is left at the braces (parser.rs).                     *)
(*                                                                         *)
(* Characters are one-letter names: "n" stands for a letter that is also   *)
(* an escape, NL for a line feed, "\\" for a backslash and Q for a quote.  *)
(* A part is <<"str", characters>> or <<"hole", characters of the          *)
(* expression>>.                                                           *)
(***************************************************************************)
EXTENDS Naturals, Sequences
LOCAL INSTANCE SequencesExt

Q == "quote"
NL == "newline"
Brace == {"{", "}"}

Failed == [kind |-> "error", chars |-> <<>>, rest |-> <<>>]

(***************************************************************************)
(* The lexer, from the character after the opening quote.  Brace escapes   *)
(* stay escaped for the parser; where there is no open brace nothing will  *)
(* scan the text again and they are taken out here.                        *)
(***************************************************************************)

UnescapedBraces(c) ==
  CASE c = "n" -> <<NL>> [] c \in {"\\", Q} \cup Brace -> <<c>> [] OTHER -> <<>>

Unescaped(c) ==
  CASE c = "n" -> <<NL>> [] c \in {"\\", Q} -> <<c>> [] c \in Brace -> <<"\\", c>> [] OTHER -> <<>>

RECURSIVE DropEscapes(_)
DropEscapes(s) ==
  IF Len(s) < 2 THEN s
  ELSE IF s[1] = "\\" /\ s[2] \in Brace THEN <<s[2]>> \o DropEscapes(SubSeq(s, 3, Len(s)))
  ELSE <<s[1]>> \o DropEscapes(Tail(s))

RECURSIVE Lex(_, _, _)
Lex(src, s, hasInterp) ==
  CASE src = <<>> -> Failed
    [] src # <<>> /\ src[1] = Q ->
         IF hasInterp THEN [kind |-> "InterpStr", chars |-> s, rest |-> Tail(src)]
         ELSE [kind |-> "Str", chars |-> DropEscapes(s), rest |-> Tail(src)]
    [] src # <<>> /\ src[1] = "\\" ->
         IF Len(src) = 1 \/ Unescaped(src[2]) = <<>> THEN Failed
         ELSE Lex(SubSeq(src, 3, Len(src)), s \o Unescaped(src[2]), hasInterp)
    [] OTHER -> Lex(Tail(src), Append(s, src[1]), hasInterp \/ src[1] = "{")

(***************************************************************************)
(* The parser.                                                             *)
(***************************************************************************)

Flush(parts, str) == IF str = <<>> THEN parts ELSE Append(parts, <<"str", str>>)

FirstBrace(s, i, depth) ==
  CHOOSE j \in i .. Len(s) + 1 : /\ j = Len(s) + 1 \/ s[j] = "}"
                                 /\ \A k \in i .. j - 1 : s[k] # "}"

\* Where the hole that opened before i ends: at the brace that closes it, or at
\* the end of the literal.
RECURSIVE HoleEnd(_, _, _)
HoleEnd(s, i, depth) ==
  CASE i > Len(s) -> i
    [] i <= Len(s) /\ s[i] = "{" -> HoleEnd(s, i + 1, depth + 1)
    [] i <= Len(s) /\ s[i] = "}" -> IF depth = 1 THEN i ELSE HoleEnd(s, i + 1, depth - 1)
    [] OTHER -> HoleEnd(s, i + 1, depth)

RECURSIVE Scan(_, _, _, _)
Scan(s, i, str, parts) ==
  CASE i > Len(s) -> Flush(parts, str)
    [] i <= Len(s) /\ s[i] = "{" ->
         LET end == HoleEnd(s, i + 1, 1)
         IN  Scan(s, end + 1, <<>>, Append(Flush(parts, str), <<"hole", SubSeq(s, i + 1, end - 1)>>))
    [] i <= Len(s) /\ s[i] = "\\" ->
         IF i < Len(s) /\ s[i + 1] \in Brace THEN Scan(s, i + 2, Append(str, s[i + 1]), parts)
         ELSE Scan(s, i + 1, Append(str, "\\"), parts)
    [] OTHER -> Scan(s, i + 1, Append(str, s[i]), parts)

\* The parts are joined with +; none at all is the empty string.
Parse(token) ==
  LET parts == IF token.kind = "Str" THEN <<<<"str", token.chars>>>> ELSE Scan(token.chars, 1, <<>>, <<>>)
  IN  IF parts = <<>> THEN <<<<"str", <<>>>>>> ELSE parts

(***************************************************************************)
(* What a program has to write for given parts, and the parts it gets.     *)
(***************************************************************************)

Escape(c) ==
  CASE c = NL -> <<"\\", "n">>
    [] c \in {"\\", Q} \cup Brace -> <<"\\", c>>
    [] OTHER -> <<c>>

Written(parts) ==
  FlattenSeq([i \in DOMAIN parts |->
    IF parts[i][1] = "hole" THEN <<"{">> \o parts[i][2] \o <<"}">>
    ELSE FlattenSeq([j \in DOMAIN parts[i][2] |-> Escape(parts[i][2][j])])]) \o <<Q>>

Read(src) == LET token == Lex(src, <<>>, FALSE) IN
  IF token.kind = "error" THEN <<"error">> ELSE <<"parts", Parse(token), token.rest>>

\* A written backslash is one character after the lexer, and the parser takes
\* the brace that follows it for an escaped one.
BackslashBeforeBrace(parts) ==
  \E i \in DOMAIN parts : /\ parts[i][1] = "str"
    /\ \E j \in DOMAIN parts[i][2] :
         /\ parts[i][2][j] = "\\"
         /\ \/ j < Len(parts[i][2]) /\ parts[i][2][j + 1] \in Brace
            \/ j = Len(parts[i][2]) /\ i < Len(parts)
=============================================================================
