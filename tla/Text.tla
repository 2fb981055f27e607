-------------------------------- MODULE Text --------------------------------
(***************************************************************************)
(* len, char_at, substring, contains, split and trim: in the interpreter   *)
(* over characters (codegen.rs), in a compiled program over the bytes of a *)
(* text that ends with a NUL (codegen_llvm.rs).                            *)
(*                                                                         *)
(* A character is the sequence of its bytes; a byte is one of a few names, *)
(* of which Continuation are those of the form 10xxxxxx.  An answer is     *)
(* <<"text", bytes>>, <<"texts", sequence of bytes>>, <<"number", n>>,     *)
(* <<"stops", why>> or <<"runs on">>, or <<"unwritten">> for what the      *)
(* program would read before writing it.                                   *)
(***************************************************************************)
EXTENDS Integers, Sequences, FiniteSets
LOCAL INSTANCE SequencesExt

Continuation == {"a8", "a9", "82", "ac"}
White == {" "}
Bytes(chars) == FlattenSeq(chars)

Least(S) == CHOOSE i \in S : \A j \in S : i <= j

(***************************************************************************)
(* The interpreter.                                                        *)
(***************************************************************************)

Slice(s, from, to) == SubSeq(s, from + 1, to)

\* str::find, in characters.
Find(s, needle) == {i \in 0 .. Len(s) - Len(needle) : Slice(s, i, i + Len(needle)) = needle}

RECURSIVE SplitAt(_, _)
SplitAt(s, delim) ==
  IF Find(s, delim) = {} THEN <<s>>
  ELSE LET i == Least(Find(s, delim))
       IN  <<Slice(s, 0, i)>> \o SplitAt(Slice(s, i + Len(delim), Len(s)), delim)

\* An empty delimiter splits between any two characters, and at both ends.
SplitChars(s) == <<<<>>>> \o [i \in 1 .. Len(s) |-> <<s[i]>>] \o <<<<>>>>

TrimEnds(s) ==
  LET ink == {i \in 1 .. Len(s) : s[i] \notin {<<w>> : w \in White}}
  IN  IF ink = {} THEN <<>> ELSE Slice(s, Least(ink) - 1, CHOOSE i \in ink : \A j \in ink : j <= i)

OutOfRange(len, i) == i < 0 \/ i >= len

Interpret(q) ==
  LET s == q.text  n == Len(s) IN
  CASE q.op = "len" -> <<"number", n>>
    [] q.op = "char_at" ->
         IF OutOfRange(n, q.from) THEN <<"stops", "index">> ELSE <<"text", s[q.from + 1]>>
    [] q.op = "substring" ->
         IF OutOfRange(n + 1, q.from) \/ OutOfRange(n + 1, q.to) THEN <<"stops", "index">>
         ELSE IF q.from > q.to THEN <<"stops", "start past end">>
         ELSE <<"text", Bytes(Slice(s, q.from, q.to))>>
    [] q.op = "contains" -> <<"number", IF Find(s, q.other) = {} THEN 0 ELSE 1>>
    [] q.op = "split" ->
         LET parts == IF q.other = <<>> THEN SplitChars(s) ELSE SplitAt(s, q.other)
         IN  <<"texts", [i \in DOMAIN parts |-> Bytes(parts[i])]>>
    [] q.op = "trim" -> <<"text", Bytes(TrimEnds(s))>>

(***************************************************************************)
(* The compiled program.  Addresses are counted from the start of the text *)
(* and b[i + 1] is the byte at i; the NUL follows the last byte.           *)
(***************************************************************************)

NUL == "NUL"
At(b, i) == IF i < Len(b) THEN b[i + 1] ELSE NUL
IsLead(byte) == byte \notin Continuation

ByteLen(b) == Len(b)
CharLen(b) == Cardinality({i \in 1 .. Len(b) : IsLead(b[i])})

\* Past the continuation bytes of the character that starts before i.
SkipNone(b, i) == i
Skip(b, i) == Least({j \in i .. Len(b) : IsLead(At(b, j))})

RECURSIVE Walk(_, _, _, _)
Walk(b, want, i, seen) ==
  CASE seen >= want -> i
    [] seen < want /\ At(b, i) = NUL -> i + 1
    [] OTHER -> Walk(b, want, Skip(b, i + 1), seen + 1)

CharOffset(b, n) == Walk(b, n, 0, 0)

\* What memcpy takes from byte `from` up to `to`, and whether it stays inside.
Copy(b, from, to) == IF to <= Len(b) /\ from <= to THEN <<"text", Slice(b, from, to)>> ELSE <<"unwritten">>

\* strstr from byte i on.
StrStr(b, i, needle) == {j \in i .. Len(b) - Len(needle) : Slice(b, j, j + Len(needle)) = needle}

\* The first pass of split counts the parts, the second copies as many out.
RECURSIVE CountParts(_, _, _, _)
CountPartsByOne(b, delim, cur, count) == count + Cardinality(StrStr(b, cur, delim))
CountParts(b, delim, cur, count) ==
  IF StrStr(b, cur, delim) = {} THEN count
  ELSE CountParts(b, delim, Least(StrStr(b, cur, delim)) + Len(delim), count + 1)

RECURSIVE Extract(_, _, _, _)
Extract(b, delim, cur, left) ==
  IF left = 0 THEN <<>>
  ELSE IF StrStr(b, cur, delim) = {} THEN <<Slice(b, cur, Len(b))>> \o Extract(b, delim, cur, left - 1)
  ELSE LET found == Least(StrStr(b, cur, delim))
       IN  <<Slice(b, cur, found)>> \o Extract(b, delim, found + Len(delim), left - 1)

\* strspn, then strcspn from there.
Spn(b, i) == Least({j \in i .. Len(b) : At(b, j) \notin White})
Cspn(b, i) == Least({j \in i .. Len(b) : At(b, j) \in White \cup {NUL}})

Compiled(q) ==
  LET b == Bytes(q.text)
      n == CharLen(b)
      other == Bytes(q.other)
      BoundsFail(len, i) == i < 0 \/ i >= len
  IN
  CASE q.op = "len" -> <<"number", n>>
    [] q.op = "char_at" ->
         IF BoundsFail(n, q.from) THEN <<"stops", "index">>
         ELSE Copy(b, CharOffset(b, q.from), CharOffset(b, q.from + 1))
    [] q.op = "substring" ->
         IF BoundsFail(n + 1, q.from) \/ BoundsFail(n + 1, q.to) THEN <<"stops", "index">>
         ELSE IF q.from > q.to THEN <<"stops", "start past end">>
         ELSE Copy(b, CharOffset(b, q.from), CharOffset(b, q.to))
    [] q.op = "contains" -> <<"number", IF StrStr(b, 0, other) = {} THEN 0 ELSE 1>>
    \* strstr finds an empty text where it stands, so the count never ends
    [] q.op = "split" ->
         IF other = <<>> THEN <<"runs on">> ELSE <<"texts", Extract(b, other, 0, CountParts(b, other, 0, 1))>>
    [] q.op = "trim" -> LET i == Spn(b, 0) IN <<"text", Slice(b, i, Cspn(b, i))>>

\* What the two are not the same language on.
Divides(q) ==
  \/ q.op = "split" /\ q.other = <<>>
  \/ q.op = "trim" /\ \E i \in DOMAIN TrimEnds(q.text) : TrimEnds(q.text)[i] \in {<<w>> : w \in White}
=============================================================================
