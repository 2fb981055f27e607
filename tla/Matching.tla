------------------------------ MODULE Matching ------------------------------
(***************************************************************************)
(* `match`: variants.rs (which variant a name means), typecheck.rs (which  *)
(* matches are accepted) and the two backends (which arm a value takes and *)
(* what the arm binds).                                                    *)
(*                                                                         *)
(* A value is a word (an int or a bool) or a variant with its payload; a   *)
(* payload is made of ints.  A guard is what it answers, "holds" or        *)
(* "fails", or "none" where the arm has no guard.  A name in a program is  *)
(* [enum |-> "", name |-> "Red"] for `Red` and [enum |-> "Color", ...] for *)
(* `Color::Red`.                                                           *)
(***************************************************************************)
EXTENDS Naturals, Sequences, FiniteSets
LOCAL INSTANCE SequencesExt

Builtins ==
  LET Variant(n, k) == [name |-> n, arity |-> k]
  IN  << [name |-> "Option", variants |-> <<Variant("Some", 1), Variant("None", 0)>>],
         [name |-> "Result", variants |-> <<Variant("Ok", 1), Variant("Err", 1)>>] >>

\* Every variant of every enum, the predeclared ones first, then as declared.
Index(decls) ==
  LET all == Builtins \o decls
      Variants(d) == [t \in DOMAIN d.variants |-> [enum |-> d.name, tag |-> t - 1, name |-> d.variants[t].name,
                                                 arity |-> d.variants[t].arity]]
  IN  FlattenSeq([i \in DOMAIN all |-> Variants(all[i])])

\* A bare name means every variant of that name; only one is an answer.
Lookup(index, n) == SelectSeq(index, LAMBDA v : v.name = n.name /\ n.enum \in {"", v.enum})
AnyOfThem(index, n) == Lookup(index, n) # <<>>
Unique(index, n) == IF n.enum = "" THEN Len(Lookup(index, n)) = 1 ELSE Lookup(index, n) # <<>>
Resolve(index, n) == Head(Lookup(index, n))

VariantsOf(index, enum) == {v \in Range(index) : v.enum = enum}

(***************************************************************************)
(* The checker.                                                            *)
(***************************************************************************)

Irrefutable(p) == p.kind \in {"wildcard", "variable"}

RECURSIVE PatternFits(_, _, _)
PatternFits(index, ty, p) ==
  CASE Irrefutable(p) -> TRUE
    [] p.kind = "literal" -> p.value.kind = ty
    [] p.kind = "variant" ->
         /\ Unique(index, p.name)
         /\ Resolve(index, p.name).enum = ty
         /\ Resolve(index, p.name).arity = Len(p.inner)
         /\ \A j \in DOMAIN p.inner : PatternFits(index, "int", p.inner[j])

Patterns(arm) == {arm.patterns[k] : k \in DOMAIN arm.patterns}

\* The patterns of the arms that no guard can turn down.
GuardedOrNot(arms) == UNION {Patterns(arms[i]) : i \in DOMAIN arms}
Unguarded(arms) == UNION {Patterns(arms[i]) : i \in {j \in DOMAIN arms : arms[j].guard = "none"}}

\* A variant is covered only where its payload is bound wholesale.
CoveredPlain(index, pats) ==
  {Resolve(index, p.name).name : p \in {q \in pats : q.kind = "variant" /\ Unique(index, q.name) /\ q.inner = <<>>}}
Covered(index, pats) ==
  {Resolve(index, p.name).name :
     p \in {q \in pats : /\ q.kind = "variant"
                         /\ Unique(index, q.name)
                         /\ \A j \in DOMAIN q.inner : Irrefutable(q.inner[j])}}

Exhaustive(index, ty, arms) ==
  LET pats == Unguarded(arms) IN
  \/ \E p \in pats : Irrefutable(p)
  \/ ty = "bool" /\ \A b \in {0, 1} : [kind |-> "literal", value |-> [kind |-> "bool", word |-> b]] \in pats
  \/ VariantsOf(index, ty) # {} /\ {v.name : v \in VariantsOf(index, ty)} \subseteq Covered(index, pats)

Check(decls, ty, arms) ==
  CASE ~Exhaustive(Index(decls), ty, arms) -> "not exhaustive"
    [] \E i \in DOMAIN arms : \E k \in DOMAIN arms[i].patterns :
          ~PatternFits(Index(decls), ty, arms[i].patterns[k]) -> "bad pattern"
    [] OTHER -> "accepted"

(***************************************************************************)
(* The interpreter: pattern by pattern, the guard asked after each.        *)
(***************************************************************************)

ValuesEqual(a, b) == a.kind # "enum" /\ b.kind # "enum" /\ a = b

RECURSIVE MatchPattern(_, _, _)
MatchPattern(index, p, v) ==
  CASE Irrefutable(p) -> TRUE
    [] p.kind = "literal" -> ValuesEqual(p.value, v)
    [] p.kind = "variant" ->
         /\ Unique(index, p.name)
         /\ v.kind = "enum"
         /\ v.enum = Resolve(index, p.name).enum
         /\ v.name = Resolve(index, p.name).name
         /\ Len(v.args) = Len(p.inner)
         /\ \A j \in DOMAIN p.inner : MatchPattern(index, p.inner[j], v.args[j])

RECURSIVE Declared(_, _)
Declared(p, v) ==
  CASE p.kind = "variable" -> {[name |-> p.name, value |-> v]}
    [] p.kind = "variant" -> UNION {Declared(p.inner[j], v.args[j]) : j \in DOMAIN p.inner}
    [] OTHER -> {}

NoArm == [arm |-> 0, bound |-> {}]

Interpret(decls, arms, v) ==
  LET index == Index(decls)
      Taken(i, k) == MatchPattern(index, arms[i].patterns[k], v) /\ arms[i].guard # "fails"
      Takers == {i \in DOMAIN arms : \E k \in DOMAIN arms[i].patterns : Taken(i, k)}
      First(S) == CHOOSE i \in S : \A j \in S : i <= j
  IN  IF Takers = {} THEN NoArm
      ELSE LET i == First(Takers)
               k == First({l \in DOMAIN arms[i].patterns : Taken(i, l)})
           IN  [arm |-> i, bound |-> Declared(arms[i].patterns[k], v)]

(***************************************************************************)
(* The compiled program.  A value of an enum with a payload somewhere is   *)
(* the address of [tag, payload ...]; any other value is a word.           *)
(***************************************************************************)

Boxed(index, v) == v.kind = "enum" /\ \E w \in VariantsOf(index, v.enum) : w.arity > 0

\* What the tests compare: the tag where the value is boxed, else the word.
Tag(index, v) ==
  IF v.kind = "enum" THEN (CHOOSE w \in VariantsOf(index, v.enum) : w.name = v.name).tag ELSE v.word

SlotBefore(v, j) == IF j - 1 \in DOMAIN v.args THEN v.args[j - 1] ELSE [kind |-> "junk"]

\* Word j + 1 of the box.  A variant with a smaller payload has none.
Slot(v, j) == IF j \in DOMAIN v.args THEN v.args[j] ELSE [kind |-> "junk"]

\* Only the tag is compared: what the payload patterns ask is not.
TestPattern(index, p, v) ==
  CASE Irrefutable(p) -> TRUE
    [] p.kind = "literal" -> p.value.word = Tag(index, v)
    [] p.kind = "variant" -> Resolve(index, p.name).tag = Tag(index, v)

\* The loads of every pattern of the arm are made when any of them matched, the
\* later over the earlier; a plain variable is bound when it comes first, to
\* the word that was compared.
BoundInArm(index, pats, v) ==
  LET Variables(k) == {j \in DOMAIN pats[k].inner : pats[k].inner[j].kind = "variable"}
      Loads == UNION {{<<k, j>> : j \in Variables(k)} : k \in {l \in DOMAIN pats : pats[l].kind = "variant"}}
      Name(d) == pats[d[1]].inner[d[2]].name
      Latest == {d \in Loads : \A e \in Loads : Name(e) = Name(d) => e[1] < d[1] \/ (e[1] = d[1] /\ e[2] <= d[2])}
  IN  (IF Boxed(index, v) THEN {[name |-> Name(d), value |-> Slot(v, d[2])] : d \in Latest} ELSE {})
      \cup (IF pats[1].kind = "variable"
            THEN {[name |-> pats[1].name, value |-> [kind |-> "int", word |-> Tag(index, v)]]} ELSE {})

\* What comes after a pattern that always matches, in its arm or in a later one,
\* is written behind that pattern's branch in the same block; llc reads it as a
\* block of its own that nothing reaches.  Here it is a test never asked.
Compiled(decls, arms, v) ==
  LET index == Index(decls)
      Takers == {i \in DOMAIN arms : /\ \E k \in DOMAIN arms[i].patterns : TestPattern(index, arms[i].patterns[k], v)
                                     /\ arms[i].guard # "fails"}
  IN  IF Takers = {} THEN NoArm
      ELSE LET i == CHOOSE i \in Takers : \A j \in Takers : i <= j
           IN  [arm |-> i, bound |-> BoundInArm(index, arms[i].patterns, v)]
=============================================================================
