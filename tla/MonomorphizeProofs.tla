------------------------- MODULE MonomorphizeProofs -------------------------
(***************************************************************************)
(* An accepted program runs exactly the instances the source means, for    *)
(* every set of generic functions, every number of rounds and every depth  *)
(* to which the calls are followed; and a shallow program is accepted.     *)
(*                                                                         *)
(* On the way a program is faithful: it is the source's functions and      *)
(* copies of them, and a call is the source's, of the function itself or   *)
(* of one of its copies.  The round that ends `expand` leaves calls of     *)
(* copies only, each the copy the type it passes asks for, because the     *)
(* checker has accepted the calls that were of copies already.             *)
(***************************************************************************)
EXTENDS Monomorphize, SequenceTheorems, WellFoundedInduction, TLAPS

\* A set of natural numbers that is not empty has a least member.
LEMMA LeastNat ==
  ASSUME NEW S \in SUBSET Nat, S # {}
  PROVE  \E n \in S : \A m \in S : n <= m
<1> DEFINE Below == {p \in Nat \X Nat : p[1] < p[2]}
<1>1. IsWellFoundedOn(Below, Nat)
  BY NatLessThanWellFounded DEF OpToRel
<1>2. \E n \in S : \A m \in S : <<m, n>> \notin Below
  <2> HIDE DEF Below
  <2> QED
    BY <1>1, WFMin
<1>3. PICK n \in S : \A m \in S : <<m, n>> \notin Below
  BY <1>2
<1>4. \A m \in S : ~(m < n)
  BY <1>3
<1> QED
  BY <1>4

(***************************************************************************)
(* Names and types.                                                        *)
(***************************************************************************)

Types == [base : {"T", "int"}, layers : Nat]
Templates == {Original(f) : f \in Generics}
Copies == {Mangle(f, t) : f \in Generics, t \in Types}

\* The name of a copy is not the name of a function of the source, and says what
\* it is a copy of and for which type.
LEMMA Names ==
  /\ \A f : Original(f).fn = f
  /\ \A f, t : Mangle(f, t).fn = f /\ Mangle(f, t).args[1] = t
  /\ \A f, g, t : Original(f) # Mangle(g, t)
  /\ \A f \in Generics : Original(f) \in Templates /\ Original(f) # Main
  /\ \A n \in Templates : n.fn \in Generics /\ n = Original(n.fn) /\ n # Main
  /\ \A n \in Copies : /\ n.fn \in Generics /\ n.args[1] \in Types /\ n = Mangle(n.fn, n.args[1])
                       /\ n \notin Templates /\ n # Main
  /\ Main.fn = "main" /\ Main = Original("main") /\ Main \notin Templates /\ Main \notin Copies
<1>1. \A f : Original(f).fn = f /\ Original(f).args = <<>>
  BY DEF Original
<1>2. \A f, t : Mangle(f, t).fn = f /\ Mangle(f, t).args = <<t>> /\ Mangle(f, t).args[1] = t
  BY DEF Mangle
<1>3. \A f, g, t : Original(f) # Mangle(g, t)
  <2>1. \A t : <<>> # <<t>>
    OBVIOUS
  <2> QED
    BY <1>1, <1>2, <2>1
<1>4. Main.fn = "main" /\ Main = Original("main")
  BY <1>1 DEF Main
<1>5. \A f \in Generics : Original(f) \in Templates /\ Original(f) # Main
  BY <1>1, <1>4, MonomorphizeAssumption DEF Templates
<1>6. \A n \in Templates : n.fn \in Generics /\ n = Original(n.fn) /\ n # Main
  BY <1>1, <1>5 DEF Templates
<1>7. ASSUME NEW n \in Copies
      PROVE  /\ n.fn \in Generics /\ n.args[1] \in Types /\ n = Mangle(n.fn, n.args[1])
             /\ n \notin Templates /\ n # Main
  <2>1. PICK f \in Generics, t \in Types : n = Mangle(f, t)
    BY DEF Copies
  <2>2. n.fn = f /\ n.args[1] = t
    BY <2>1, <1>2
  <2> QED
    BY <2>1, <2>2, <1>3, <1>4 DEF Templates
<1>8. Main \notin Templates /\ Main \notin Copies
  BY <1>6, <1>7
<1> QED
  BY <1>1, <1>2, <1>3, <1>4, <1>5, <1>6, <1>7, <1>8

\* Putting a type into layers of array, and a type into a copy of a function.
LEMMA TypeFacts ==
  /\ T \in Types /\ \A l \in Nat : Type("int", l) \in Types
  /\ \A t \in Types : \A l \in Nat : Wrapped(t, l) \in Types
  /\ \A t \in Types : Substitute(T, t) = t
<1>1. T \in Types /\ \A l \in Nat : Type("int", l) \in Types
  BY DEF T, Type, Types
<1>2. \A t \in Types : \A l \in Nat : Wrapped(t, l) \in Types
  BY DEF Types, Wrapped
<1>3. ASSUME NEW t \in Types PROVE Substitute(T, t) = t
  <2>1. T.base = "T" /\ T.layers = 0
    BY DEF T, Type
  <2>2. t = [base |-> t.base, layers |-> t.layers] /\ t.layers + 0 = t.layers
    BY DEF Types
  <2>3. [t EXCEPT !.layers = t.layers + 0] = t
    BY <2>2
  <2> QED
    BY <2>1, <2>3 DEF Substitute, Wrapped
<1> QED
  BY <1>1, <1>2, <1>3

(***************************************************************************)
(* Following edges from a set, a step at a time.                           *)
(***************************************************************************)

Follows(from, edges, g, n) ==
  g = [k \in 0 .. n |-> IF k = 0 THEN from ELSE g[k - 1] \cup {e[2] : e \in {r \in edges : r[1] \in g[k - 1]}}]

\* However many the steps, there is a function that takes them.
LEMMA FollowingExists ==
  ASSUME NEW from, NEW edges
  PROVE  \A n \in Nat : \E g : Follows(from, edges, g, n)
<1> DEFINE More(S) == S \cup {e[2] : e \in {r \in edges : r[1] \in S}}
           Bad == {n \in Nat : ~\E g : Follows(from, edges, g, n)}
<1> SUFFICES ASSUME Bad # {} PROVE FALSE
  OBVIOUS
<1>1. PICK n \in Bad : \A m \in Bad : n <= m
  BY LeastNat
<1>2. n \in Nat /\ ~\E g : Follows(from, edges, g, n)
  OBVIOUS
<1>3. \A g, m : Follows(from, edges, g, m) <=>
                  g = [k \in 0 .. m |-> IF k = 0 THEN from ELSE More(g[k - 1])]
  BY DEF Follows
<1>4. CASE n = 0
  <2> DEFINE g == [k \in 0 .. 0 |-> from]
  <2>1. g = [k \in 0 .. 0 |-> IF k = 0 THEN from ELSE More(g[k - 1])]
    <3> HIDE DEF More
    <3> QED
      OBVIOUS
  <2> QED
    BY <2>1, <1>2, <1>3, <1>4
<1>5. CASE n # 0
  <2>1. n - 1 \in Nat /\ n - 1 \notin Bad
    <3>1. n - 1 \in Nat /\ ~(n <= n - 1)
      BY <1>2, <1>5
    <3> QED
      BY <3>1, <1>1
  <2>2. PICK g : Follows(from, edges, g, n - 1)
    BY <2>1
  <2> DEFINE h == [k \in 0 .. n |-> IF k = n THEN More(g[n - 1]) ELSE g[k]]
  <2> HIDE DEF More
  <2>3. g = [k \in 0 .. n - 1 |-> IF k = 0 THEN from ELSE More(g[k - 1])]
    BY <2>2, <1>3
  <2>4. /\ \A k \in 0 .. n : k = n \/ k \in 0 .. n - 1
        /\ \A k \in 0 .. n - 1 : k # n /\ k \in 0 .. n
        /\ \A k \in 0 .. n : k # 0 => k - 1 \in 0 .. n - 1
        /\ n \in 0 .. n
    BY <1>2, <1>5
  <2>5. ASSUME NEW k \in 0 .. n
        PROVE  h[k] = IF k = 0 THEN from ELSE More(h[k - 1])
    <3>1. CASE k = n
      <4>1. h[k] = More(g[n - 1])
        BY <3>1
      <4>2. n - 1 \in 0 .. n - 1
        BY <2>4, <1>5
      <4>3. h[n - 1] = g[n - 1]
        BY <4>2, <2>4
      <4> HIDE DEF h
      <4> QED
        BY <3>1, <4>1, <4>3, <1>5
    <3>2. CASE k \in 0 .. n - 1
      <4>1. h[k] = g[k]
        BY <3>2, <2>4
      <4>2. k # 0 => h[k - 1] = g[k - 1]
        <5>1. k # 0 => k - 1 \in 0 .. n - 1
          BY <2>4
        <5> QED
          BY <5>1, <2>4
      <4>3. g[k] = IF k = 0 THEN from ELSE More(g[k - 1])
        BY <2>3, <3>2
      <4> HIDE DEF h
      <4> QED
        BY <4>1, <4>2, <4>3
    <3> QED
      BY <3>1, <3>2, <2>4
  <2>6. DOMAIN h = 0 .. n /\ h = [k \in 0 .. n |-> h[k]]
    OBVIOUS
  <2> HIDE DEF h
  <2>7. h = [k \in 0 .. n |-> IF k = 0 THEN from ELSE More(h[k - 1])]
    BY <2>5, <2>6
  <2> QED
    BY <2>7, <1>2, <1>3
<1> QED
  BY <1>4, <1>5

(***************************************************************************)
(* What is run and what the source means are the same, step by step, where *)
(* they are for every function that may be run.                            *)
(***************************************************************************)

RunSteps(p, f) ==
  f = [k \in 0 .. Horizon |->
         IF k = 0 THEN {Main}
         ELSE f[k - 1] \cup {CallAt(p, s).callee : s \in {r \in Sites(p) : r[1] \in f[k - 1]}}]
MeantSteps(f) ==
  f = [k \in 0 .. Horizon |->
         IF k = 0 THEN {Main} ELSE f[k - 1] \cup UNION {InstanceCalls(n) : n \in f[k - 1]}]

LEMMA ReachedSteps == \A p : Reached(p) = (CHOOSE f : RunSteps(p, f))[Horizon]
BY DEF Reached, RunSteps

LEMMA InstancesSteps == Instances({Main}) = (CHOOSE f : MeantSteps(f))[Horizon]
BY DEF Instances, MeantSteps

CalledBy(p, n) == {CallAt(p, s).callee : s \in {r \in Sites(p) : r[1] = n}}

LEMMA SameSteps ==
  ASSUME NEW p, NEW Run, Main \in Run,
         \A n \in Run : InstanceCalls(n) = CalledBy(p, n) /\ CalledBy(p, n) \subseteq Run
  PROVE  Reached(p) = Instances({Main}) /\ Reached(p) \subseteq Run
<1> DEFINE Step(S) == {CallAt(p, s).callee : s \in {r \in Sites(p) : r[1] \in S}}
           Meant(S) == UNION {InstanceCalls(n) : n \in S}
           Edges == {<<s[1], CallAt(p, s).callee>> : s \in Sites(p)}
<1>1. ASSUME NEW S \in SUBSET Run PROVE Step(S) = Meant(S) /\ Step(S) \subseteq Run
  <2>1. Step(S) = UNION {CalledBy(p, n) : n \in S}
    BY DEF CalledBy
  <2>2. \A n \in S : InstanceCalls(n) = CalledBy(p, n) /\ CalledBy(p, n) \subseteq Run
    OBVIOUS
  <2> QED
    BY <2>1, <2>2
<1>2. ASSUME NEW S PROVE Step(S) = {e[2] : e \in {r \in Edges : r[1] \in S}}
  <2>1. ASSUME NEW c \in Step(S) PROVE \E e \in Edges : e[1] \in S /\ e[2] = c
    <3>1. PICK s \in Sites(p) : s[1] \in S /\ c = CallAt(p, s).callee
      BY <2>1
    <3>2. <<s[1], CallAt(p, s).callee>> \in Edges
      OBVIOUS
    <3> QED
      BY <3>1, <3>2
  <2>2. ASSUME NEW e \in Edges, e[1] \in S PROVE e[2] \in Step(S)
    <3>1. PICK s \in Sites(p) : e = <<s[1], CallAt(p, s).callee>>
      OBVIOUS
    <3>2. e[1] = s[1] /\ e[2] = CallAt(p, s).callee
      BY <3>1
    <3> QED
      BY <2>2, <3>2
  <2> HIDE DEF Step, Edges
  <2> QED
    BY <2>1, <2>2
<1>3. \A f : RunSteps(p, f) <=> f = [k \in 0 .. Horizon |-> IF k = 0 THEN {Main} ELSE f[k - 1] \cup Step(f[k - 1])]
  BY DEF RunSteps
<1>4. \A f : MeantSteps(f) <=> f = [k \in 0 .. Horizon |-> IF k = 0 THEN {Main} ELSE f[k - 1] \cup Meant(f[k - 1])]
  BY DEF MeantSteps
<1>5. Horizon \in Nat
  BY MonomorphizeAssumption
<1>6. \E f : RunSteps(p, f)
  <2>1. PICK f : Follows({Main}, Edges, f, Horizon)
    BY <1>5, FollowingExists
  <2> HIDE DEF Edges, Step
  <2>2. f = [k \in 0 .. Horizon |-> IF k = 0 THEN {Main} ELSE f[k - 1] \cup Step(f[k - 1])]
    BY <2>1, <1>2 DEF Follows
  <2> QED
    BY <2>2, <1>3
<1> HIDE DEF Step, Meant, Edges
<1>7. \A k \in 0 .. Horizon : k # 0 => k - 1 \in 0 .. Horizon /\ k - 1 < k
  BY <1>5
<1>8. ASSUME NEW f, NEW g, RunSteps(p, f), RunSteps(p, g) \/ MeantSteps(g)
      PROVE  \A k \in 0 .. Horizon : f[k] = g[k] /\ f[k] \subseteq Run
  <2> DEFINE Bad == {k \in 0 .. Horizon : ~(f[k] = g[k] /\ f[k] \subseteq Run)}
  <2> SUFFICES ASSUME Bad # {} PROVE FALSE
    OBVIOUS
  <2>1. Bad \in SUBSET Nat
    BY <1>5
  <2>2. PICK k \in Bad : \A j \in Bad : k <= j
    BY <2>1, LeastNat
  <2>3. k \in 0 .. Horizon /\ ~(f[k] = g[k] /\ f[k] \subseteq Run)
    OBVIOUS
  <2>4. f[k] = IF k = 0 THEN {Main} ELSE f[k - 1] \cup Step(f[k - 1])
    BY <1>3, <1>8, <2>3
  <2>5. \/ g[k] = IF k = 0 THEN {Main} ELSE g[k - 1] \cup Step(g[k - 1])
        \/ g[k] = IF k = 0 THEN {Main} ELSE g[k - 1] \cup Meant(g[k - 1])
    <3>1. CASE RunSteps(p, g)
      BY <3>1, <1>3, <2>3
    <3>2. CASE MeantSteps(g)
      BY <3>2, <1>4, <2>3
    <3> QED
      BY <3>1, <3>2, <1>8
  <2>6. CASE k = 0
    BY <2>3, <2>4, <2>5, <2>6
  <2>7. CASE k # 0
    <3>1. k - 1 \in 0 .. Horizon /\ ~(k <= k - 1)
      BY <1>7, <2>3, <2>7
    <3>2. k - 1 \notin Bad
      BY <3>1, <2>2
    <3>3. f[k - 1] = g[k - 1] /\ f[k - 1] \in SUBSET Run
      BY <3>1, <3>2
    <3>4. Step(f[k - 1]) = Meant(f[k - 1]) /\ Step(f[k - 1]) \subseteq Run
      BY <3>3, <1>1
    <3> HIDE DEF Bad
    <3> QED
      BY <2>3, <2>4, <2>5, <2>7, <3>3, <3>4
  <2> QED
    BY <2>6, <2>7
<1>9. PICK f : RunSteps(p, f)
  BY <1>6
<1>10. \A k \in 0 .. Horizon : f[k] \in SUBSET Run
  BY <1>8, <1>9
<1>11. MeantSteps(f)
  <2>1. \A k \in 0 .. Horizon : f[k] = IF k = 0 THEN {Main} ELSE f[k - 1] \cup Meant(f[k - 1])
    <3> SUFFICES ASSUME NEW k \in 0 .. Horizon
                 PROVE  f[k] = IF k = 0 THEN {Main} ELSE f[k - 1] \cup Meant(f[k - 1])
      OBVIOUS
    <3>1. f[k] = IF k = 0 THEN {Main} ELSE f[k - 1] \cup Step(f[k - 1])
      BY <1>3, <1>9
    <3>2. k # 0 => Step(f[k - 1]) = Meant(f[k - 1])
      BY <1>1, <1>7, <1>10
    <3> QED
      BY <3>1, <3>2
  <2>2. f = [k \in 0 .. Horizon |-> f[k]]
    BY <1>3, <1>9
  <2>3. f = [k \in 0 .. Horizon |-> IF k = 0 THEN {Main} ELSE f[k - 1] \cup Meant(f[k - 1])]
    BY <2>1, <2>2
  <2> QED
    BY <2>3, <1>4
<1> DEFINE R == CHOOSE h : RunSteps(p, h)
           I == CHOOSE h : MeantSteps(h)
<1>12. RunSteps(p, R)
  BY <1>9
<1>13. MeantSteps(I)
  BY <1>11
<1>14. Horizon \in 0 .. Horizon
  BY <1>5
<1>15. Reached(p) = R[Horizon] /\ Instances({Main}) = I[Horizon]
  BY ReachedSteps, InstancesSteps
<1> HIDE DEF R, I
<1>16. R[Horizon] = I[Horizon] /\ R[Horizon] \subseteq Run
  BY <1>8, <1>12, <1>13, <1>14
<1> QED
  BY <1>15, <1>16

(***************************************************************************)
(* The source, and a program on the way.                                   *)
(***************************************************************************)

\* The calls of a function: each of a generic function, of x or an int.
IsCall(c, passed) ==
  /\ c.callee \in Templates
  /\ c.passes \in passed
  /\ c.layers \in Nat

Body(n) == source[Original(n.fn)].calls

IsSource ==
  /\ DOMAIN source = Templates \cup {Main}
  /\ \A n \in DOMAIN source :
       /\ source[n] = [generic |-> n \in Templates, param |-> IF n = Main THEN Type("int", 0) ELSE T,
                       calls |-> source[n].calls]
       /\ Len(source[n].calls) \in Nat
       /\ \A i \in 1 .. Len(source[n].calls) :
            /\ source[n].calls[i] = [callee |-> source[n].calls[i].callee, passes |-> source[n].calls[i].passes,
                                     layers |-> source[n].calls[i].layers]
            /\ IsCall(source[n].calls[i], IF n = Main THEN {"int"} ELSE {"x", "int"})

Param(n) == IF n = Main THEN Type("int", 0) ELSE IF n \in Templates THEN T ELSE n.args[1]

\* A call is the source's, of the function itself or of a copy of it that is there.
Follow(p, n, i) ==
  LET c == p[n].calls[i]
      o == Body(n)[i]
  IN /\ c = [callee |-> c.callee, passes |-> o.passes, layers |-> o.layers]
     /\ c.callee \in DOMAIN p /\ c.callee # Main /\ c.callee.fn = o.callee.fn

\* Every function is the source's or a copy of one, and makes the source's calls.
Faithful(p) ==
  /\ Templates \cup {Main} \subseteq DOMAIN p
  /\ DOMAIN p \subseteq Templates \cup {Main} \cup Copies
  /\ \A n \in DOMAIN p :
       /\ p[n] = [generic |-> n \in Templates, param |-> Param(n), calls |-> p[n].calls]
       /\ Len(p[n].calls) = Len(Body(n))
       /\ \A i \in 1 .. Len(Body(n)) : Follow(p, n, i)

\* All calls are of the copies that the types of what they pass ask for.
Finished(p) ==
  /\ Faithful(p)
  /\ \A n \in DOMAIN p : \A i \in 1 .. Len(Body(n)) :
       p[n].calls[i].callee = Mangle(Body(n)[i].callee.fn, ArgType(p, <<n, i>>))

LEMMA BodyFacts ==
  ASSUME IsSource, NEW n \in Templates \cup {Main} \cup Copies
  PROVE  /\ Original(n.fn) \in DOMAIN source
         /\ Len(Body(n)) \in Nat
         /\ n = Main => Original(n.fn) = Main
         /\ \A i \in 1 .. Len(Body(n)) :
              /\ IsCall(Body(n)[i], IF n = Main THEN {"int"} ELSE {"x", "int"})
              /\ Body(n)[i] = [callee |-> Body(n)[i].callee, passes |-> Body(n)[i].passes,
                               layers |-> Body(n)[i].layers]
<1>1. CASE n = Main
  <2>1. Original(n.fn) = Main
    BY <1>1, Names
  <2> QED
    BY <1>1, <2>1 DEF IsSource, Body
<1>2. CASE n \in Templates \cup Copies
  <2>1. Original(n.fn) \in Templates /\ Original(n.fn) # Main /\ n # Main
    BY <1>2, Names
  <2> QED
    BY <2>1 DEF IsSource, Body
<1> QED
  BY <1>1, <1>2

\* The calls of a program by function and number.
LEMMA SiteFacts ==
  ASSUME NEW p
  PROVE  /\ \A n, i : <<n, i>> \in Sites(p) <=> n \in DOMAIN p /\ i \in 1 .. Len(p[n].calls)
         /\ \A s \in Sites(p) : s = <<s[1], s[2]>> /\ s[1] \in DOMAIN p /\ s[2] \in 1 .. Len(p[s[1]].calls)
         /\ \A n, i : CallAt(p, <<n, i>>) = p[n].calls[i] /\ Callee(p, <<n, i>>) = p[p[n].calls[i].callee]
         /\ \A n, i : ArgType(p, <<n, i>>) =
                        IF p[n].calls[i].passes = "x" THEN Wrapped(p[n].param, p[n].calls[i].layers)
                                                      ELSE Type("int", p[n].calls[i].layers)
         /\ \A n, i : Target(p, <<n, i>>) = Mangle(p[n].calls[i].callee.fn, ArgType(p, <<n, i>>))
<1>1. \A n, i : <<n, i>>[1] = n /\ <<n, i>>[2] = i
  OBVIOUS
<1>2. \A n, i : <<n, i>> \in Sites(p) <=> n \in DOMAIN p /\ i \in 1 .. Len(p[n].calls)
  BY DEF Sites
<1>3. \A s \in Sites(p) : s = <<s[1], s[2]>> /\ s[1] \in DOMAIN p /\ s[2] \in 1 .. Len(p[s[1]].calls)
  BY DEF Sites
<1>4. \A n, i : CallAt(p, <<n, i>>) = p[n].calls[i]
  BY <1>1 DEF CallAt
<1>5. \A n, i : Callee(p, <<n, i>>) = p[p[n].calls[i].callee]
  BY <1>4 DEF Callee
<1>6. \A n, i : ArgType(p, <<n, i>>) =
                  IF p[n].calls[i].passes = "x" THEN Wrapped(p[n].param, p[n].calls[i].layers)
                                                ELSE Type("int", p[n].calls[i].layers)
  BY <1>1, <1>4 DEF ArgType
<1>7. \A n, i : Target(p, <<n, i>>) = Mangle(p[n].calls[i].callee.fn, ArgType(p, <<n, i>>))
  BY <1>4 DEF Target
<1> QED
  BY <1>2, <1>3, <1>4, <1>5, <1>6, <1>7

LEMMA CallFacts ==
  ASSUME IsSource, NEW p, Faithful(p), NEW n \in DOMAIN p, NEW i \in 1 .. Len(Body(n))
  PROVE  LET c == p[n].calls[i]
             o == Body(n)[i]
         IN /\ <<n, i>> \in Sites(p)
            /\ c = [callee |-> c.callee, passes |-> o.passes, layers |-> o.layers]
            /\ c.passes = o.passes /\ c.layers = o.layers /\ o.layers \in Nat
            /\ n = Main => o.passes = "int"
            /\ c.callee \in DOMAIN p /\ c.callee \in Templates \cup Copies
            /\ c.callee.fn = o.callee.fn /\ o.callee.fn \in Generics
            /\ p[n].param = Param(n) /\ Param(n) \in Types
            /\ ArgType(p, <<n, i>>) \in Types
            /\ Target(p, <<n, i>>) = Mangle(o.callee.fn, ArgType(p, <<n, i>>))
            /\ Target(p, <<n, i>>) \in Copies
            /\ Callee(p, <<n, i>>).generic <=> c.callee \in Templates
<1> DEFINE c == p[n].calls[i]
           o == Body(n)[i]
<1>1. n \in Templates \cup {Main} \cup Copies
  BY DEF Faithful
<1>2. /\ IsCall(o, IF n = Main THEN {"int"} ELSE {"x", "int"})
  BY <1>1, BodyFacts
<1>3. /\ p[n] = [generic |-> n \in Templates, param |-> Param(n), calls |-> p[n].calls]
      /\ Len(p[n].calls) = Len(Body(n))
      /\ Follow(p, n, i)
  BY DEF Faithful
<1>4. /\ c = [callee |-> c.callee, passes |-> o.passes, layers |-> o.layers]
      /\ c.callee \in DOMAIN p /\ c.callee # Main /\ c.callee.fn = o.callee.fn
  BY <1>3 DEF Follow
<1>5. o.layers \in Nat /\ (n = Main => o.passes = "int") /\ o.callee \in Templates /\ o.callee.fn \in Generics
  BY <1>2, Names DEF IsCall
<1>6. c.callee \in Templates \cup Copies
  BY <1>4 DEF Faithful
<1>7. p[n].param = Param(n) /\ <<n, i>> \in Sites(p)
  BY <1>3, SiteFacts
<1>8. Param(n) \in Types
  <2>1. CASE n = Main
    BY <2>1, TypeFacts DEF Param
  <2>2. CASE n \in Templates
    BY <2>2, TypeFacts, Names DEF Param
  <2>3. CASE n \in Copies
    BY <2>3, Names DEF Param
  <2> QED
    BY <1>1, <2>1, <2>2, <2>3
<1>9. Callee(p, <<n, i>>) = p[c.callee] /\ Target(p, <<n, i>>) = Mangle(c.callee.fn, ArgType(p, <<n, i>>))
  BY SiteFacts
<1>10. Callee(p, <<n, i>>).generic <=> c.callee \in Templates
  <2>1. p[c.callee] = [generic |-> c.callee \in Templates, param |-> Param(c.callee), calls |-> p[c.callee].calls]
    BY <1>4 DEF Faithful
  <2> HIDE DEF c
  <2>2. p[c.callee].generic = (c.callee \in Templates)
    BY <2>1
  <2> QED
    BY <1>9, <2>2
<1>11. ArgType(p, <<n, i>>) = IF c.passes = "x" THEN Wrapped(p[n].param, c.layers) ELSE Type("int", c.layers)
  BY SiteFacts
<1> HIDE DEF c, o
<1>12. c.passes = o.passes /\ c.layers = o.layers
  BY <1>4
<1>13. ArgType(p, <<n, i>>) \in Types
  BY <1>5, <1>7, <1>8, <1>11, <1>12, TypeFacts
<1>14. Mangle(o.callee.fn, ArgType(p, <<n, i>>)) \in Copies
  BY <1>5, <1>13 DEF Copies
<1> QED
  BY <1>4, <1>5, <1>6, <1>7, <1>8, <1>9, <1>10, <1>12, <1>13, <1>14 DEF c, o

(***************************************************************************)
(* A round.                                                                *)
(***************************************************************************)

After(p) == [n \in DOMAIN p \cup Missing(p) |-> IF n \in DOMAIN p THEN Rewritten(p, n) ELSE Copy(p, n)]

LEMMA LenOfFunction ==
  ASSUME NEW m \in Nat, NEW c, c = [i \in 1 .. m |-> c[i]]
  PROVE  Len(c) = m
<1> DEFINE S == {c[i] : i \in 1 .. m}
<1>1. \A i \in 1 .. m : c[i] \in S
  OBVIOUS
<1> HIDE DEF S
<1>2. c \in [1 .. m -> S]
  BY <1>1
<1>3. c \in Seq(S)
  BY <1>2, SeqDef
<1>4. Len(c) \in Nat /\ DOMAIN c = 1 .. Len(c)
  BY <1>3, LenProperties
<1>5. 1 .. m = 1 .. Len(c)
  BY <1>2, <1>4
<1> QED
  BY <1>4, <1>5

\* What a call becomes.
LEMMA RenamedFacts ==
  ASSUME IsSource, NEW p, Faithful(p), NEW n \in DOMAIN p, NEW i \in 1 .. Len(Body(n))
  PROVE  LET c == p[n].calls[i]
             r == Renamed(p, <<n, i>>)
         IN /\ r = [callee |-> r.callee, passes |-> Body(n)[i].passes, layers |-> Body(n)[i].layers]
            /\ r.callee = IF c.callee \in Templates THEN Target(p, <<n, i>>) ELSE c.callee
            /\ r.callee \in DOMAIN p \cup Missing(p)
            /\ r.callee # Main /\ r.callee.fn = Body(n)[i].callee.fn
            /\ Missing(p) = {} => r.callee \in DOMAIN p
<1> DEFINE c == p[n].calls[i]
           o == Body(n)[i]
           t == Target(p, <<n, i>>)
           r == Renamed(p, <<n, i>>)
<1>1. /\ <<n, i>> \in Sites(p)
      /\ c = [callee |-> c.callee, passes |-> o.passes, layers |-> o.layers]
      /\ c.callee \in DOMAIN p /\ c.callee \in Templates \cup Copies
      /\ c.callee.fn = o.callee.fn
      /\ t = Mangle(o.callee.fn, ArgType(p, <<n, i>>)) /\ t \in Copies
      /\ Callee(p, <<n, i>>).generic <=> c.callee \in Templates
  BY CallFacts
<1>2. CallAt(p, <<n, i>>) = c
  BY SiteFacts
<1>3. <<n, i>> \in Instantiations(p) <=> c.callee \in Templates
  BY <1>1 DEF Instantiations
<1>4. r = IF c.callee \in Templates THEN [c EXCEPT !.callee = t] ELSE c
  BY <1>2, <1>3 DEF Renamed
<1>5. c.callee \in Templates => t \in DOMAIN p \cup Missing(p)
  BY <1>1, <1>3 DEF Missing, Instantiations
<1>6. t.fn = o.callee.fn /\ t # Main
  BY <1>1, Names
<1>7. c.callee # Main
  BY <1>1, Names
<1> HIDE DEF c, o, t, r
<1>8. CASE c.callee \in Templates
  <2>1. r = [callee |-> t, passes |-> o.passes, layers |-> o.layers]
    BY <1>1, <1>4, <1>8
  <2>2. r.callee = t
    BY <2>1
  <2> QED
    BY <2>1, <2>2, <1>1, <1>5, <1>6, <1>8 DEF c, o, t, r
<1>9. CASE c.callee \notin Templates
  <2>1. r = c
    BY <1>4, <1>9
  <2> QED
    BY <2>1, <1>1, <1>7, <1>9 DEF c, o, t, r
<1> QED
  BY <1>8, <1>9

LEMMA MissingFacts ==
  ASSUME IsSource, NEW p, Faithful(p)
  PROVE  Missing(p) \subseteq Copies /\ Missing(p) \cap DOMAIN p = {}
<1> SUFFICES ASSUME NEW s \in Instantiations(p) PROVE Target(p, s) \in Copies
  BY DEF Missing
<1>1. s \in Sites(p)
  BY DEF Instantiations
<1>2. s = <<s[1], s[2]>> /\ s[1] \in DOMAIN p /\ s[2] \in 1 .. Len(p[s[1]].calls)
  BY <1>1, SiteFacts
<1>3. s[2] \in 1 .. Len(Body(s[1]))
  BY <1>2 DEF Faithful
<1>4. Target(p, <<s[1], s[2]>>) \in Copies
  BY <1>2, <1>3, CallFacts
<1> QED
  BY <1>2, <1>4

\* What a function becomes that is there, and one that is made.
LEMMA RewrittenFacts ==
  ASSUME IsSource, NEW p, Faithful(p), NEW n \in DOMAIN p
  PROVE  LET r == Rewritten(p, n) IN
         /\ r = [generic |-> n \in Templates, param |-> Param(n), calls |-> r.calls]
         /\ Len(r.calls) = Len(Body(n))
         /\ \A i \in 1 .. Len(Body(n)) : r.calls[i] = Renamed(p, <<n, i>>)
<1> DEFINE m == Len(p[n].calls)
           d == [i \in 1 .. m |-> Renamed(p, <<n, i>>)]
<1>1. /\ p[n] = [generic |-> n \in Templates, param |-> Param(n), calls |-> p[n].calls]
      /\ m = Len(Body(n))
      /\ n \in Templates \cup {Main} \cup Copies
  BY DEF Faithful
<1>2. m \in Nat
  BY <1>1, BodyFacts
<1>3. Rewritten(p, n) = [p[n] EXCEPT !.calls = d]
  BY DEF Rewritten
<1>4. /\ \A i \in 1 .. m : d[i] = Renamed(p, <<n, i>>)
      /\ d = [i \in 1 .. m |-> d[i]]
  OBVIOUS
<1> HIDE DEF m, d
<1>5. Len(d) = m
  BY <1>2, <1>4, LenOfFunction
<1> DEFINE g == n \in Templates
           r == Rewritten(p, n)
<1>6. p[n] = [generic |-> g, param |-> Param(n), calls |-> p[n].calls]
  BY <1>1
<1> HIDE DEF g, r
<1>7. r = [generic |-> g, param |-> Param(n), calls |-> d]
  BY <1>3, <1>6 DEF r
<1>8. r.calls = d
  BY <1>7
<1> QED
  BY <1>1, <1>4, <1>5, <1>7, <1>8 DEF g, r

LEMMA CopyFacts ==
  ASSUME IsSource, NEW p, Faithful(p), NEW n \in Missing(p)
  PROVE  LET o == Original(n.fn) IN
         /\ o \in DOMAIN p /\ Body(o) = Body(n) /\ n \in Copies /\ n # Main
         /\ Copy(p, n) = [generic |-> n \in Templates, param |-> Param(n), calls |-> p[o].calls]
<1> DEFINE o == Original(n.fn)
<1>1. n \in Copies
  BY MissingFacts
<1>2. n.fn \in Generics /\ n.args[1] \in Types /\ n \notin Templates /\ n # Main
  BY <1>1, Names
<1>3. o \in Templates /\ o \in DOMAIN p /\ o # Main /\ o.fn = n.fn
  BY <1>2, Names DEF Faithful
<1>4. Body(o) = Body(n)
  BY <1>3 DEF Body
<1>5. p[o].param = T
  <2>1. p[o] = [generic |-> o \in Templates, param |-> Param(o), calls |-> p[o].calls]
    BY <1>3 DEF Faithful
  <2>2. p[o].param = Param(o)
    BY <2>1
  <2> QED
    BY <2>2, <1>3 DEF Param
<1>6. Param(n) = n.args[1]
  BY <1>2 DEF Param
<1>7. Copy(p, n) = [generic |-> FALSE, param |-> Substitute(p[o].param, n.args[1]), calls |-> p[o].calls]
  BY DEF Copy
<1>8. Substitute(p[o].param, n.args[1]) = n.args[1]
  BY <1>2, <1>5, TypeFacts
<1> HIDE DEF o
<1>9. (n \in Templates) = FALSE
  BY <1>2
<1>10. Copy(p, n) = [generic |-> n \in Templates, param |-> Param(n), calls |-> p[o].calls]
  BY <1>6, <1>7, <1>8, <1>9
<1> QED
  BY <1>1, <1>2, <1>3, <1>4, <1>10 DEF o

LEMMA AfterFaithful ==
  ASSUME IsSource, NEW p, Faithful(p), NEW q, q = After(p)
  PROVE  /\ Faithful(q) /\ DOMAIN q = DOMAIN p \cup Missing(p)
         /\ \A n \in DOMAIN p : \A i \in 1 .. Len(Body(n)) : q[n].calls[i] = Renamed(p, <<n, i>>)
<1>1. /\ DOMAIN q = DOMAIN p \cup Missing(p)
      /\ \A n \in DOMAIN p : q[n] = Rewritten(p, n)
      /\ \A n \in Missing(p) : q[n] = Copy(p, n)
  BY MissingFacts DEF After
<1>2. Missing(p) \subseteq Copies
  BY MissingFacts
<1>3. /\ Templates \cup {Main} \subseteq DOMAIN q
      /\ DOMAIN q \subseteq Templates \cup {Main} \cup Copies
  BY <1>1, <1>2 DEF Faithful
<1>4. ASSUME NEW n \in DOMAIN p
      PROVE  /\ q[n] = [generic |-> n \in Templates, param |-> Param(n), calls |-> q[n].calls]
             /\ Len(q[n].calls) = Len(Body(n))
             /\ \A i \in 1 .. Len(Body(n)) : Follow(q, n, i) /\ q[n].calls[i] = Renamed(p, <<n, i>>)
  <2>1. /\ q[n] = [generic |-> n \in Templates, param |-> Param(n), calls |-> q[n].calls]
        /\ Len(q[n].calls) = Len(Body(n))
        /\ \A i \in 1 .. Len(Body(n)) : q[n].calls[i] = Renamed(p, <<n, i>>)
    BY <1>1, RewrittenFacts
  <2>2. ASSUME NEW i \in 1 .. Len(Body(n)) PROVE Follow(q, n, i)
    <3> DEFINE r == Renamed(p, <<n, i>>)
    <3>1. /\ r = [callee |-> r.callee, passes |-> Body(n)[i].passes, layers |-> Body(n)[i].layers]
          /\ r.callee \in DOMAIN p \cup Missing(p)
          /\ r.callee # Main /\ r.callee.fn = Body(n)[i].callee.fn
      BY RenamedFacts
    <3>2. q[n].calls[i] = r
      BY <2>1
    <3> HIDE DEF r
    <3> QED
      BY <3>1, <3>2, <1>1 DEF Follow
  <2> QED
    BY <2>1, <2>2
<1>5. ASSUME NEW n \in Missing(p)
      PROVE  /\ q[n] = [generic |-> n \in Templates, param |-> Param(n), calls |-> q[n].calls]
             /\ Len(q[n].calls) = Len(Body(n))
             /\ \A i \in 1 .. Len(Body(n)) : Follow(q, n, i)
  <2> DEFINE o == Original(n.fn)
  <2>1. /\ o \in DOMAIN p /\ Body(o) = Body(n) /\ n \in Copies /\ n # Main
        /\ q[n] = [generic |-> n \in Templates, param |-> Param(n), calls |-> p[o].calls]
    BY <1>1, CopyFacts
  <2> HIDE DEF o
  <2>2. q[n].calls = p[o].calls
    BY <2>1
  <2>3. Len(p[o].calls) = Len(Body(n)) /\ \A i \in 1 .. Len(Body(n)) : Follow(p, o, i)
    BY <2>1 DEF Faithful
  <2>4. ASSUME NEW i \in 1 .. Len(Body(n)) PROVE Follow(q, n, i)
    BY <2>1, <2>2, <2>3, <1>1 DEF Follow
  <2> QED
    BY <2>1, <2>2, <2>3, <2>4
<1>6. Faithful(q)
  BY <1>1, <1>3, <1>4, <1>5 DEF Faithful
<1> QED
  BY <1>1, <1>4, <1>6
\* In a program the checker accepts, a call of a copy passes what the copy is for.
LEMMA CopyIsAskedFor ==
  ASSUME IsSource, NEW p, Faithful(p), WellTyped(p), NEW n \in DOMAIN p, NEW i \in 1 .. Len(Body(n)),
         p[n].calls[i].callee \notin Templates
  PROVE  p[n].calls[i].callee = Mangle(Body(n)[i].callee.fn, ArgType(p, <<n, i>>))
<1> DEFINE s == <<n, i>>
           k == p[n].calls[i].callee
           o == Body(n)[i]
<1>1. /\ s \in Sites(p)
      /\ k \in DOMAIN p /\ k \in Templates \cup Copies
      /\ k.fn = o.callee.fn
      /\ Callee(p, s).generic <=> k \in Templates
  BY CallFacts
<1>2. k \in Copies /\ ~Callee(p, s).generic /\ Callee(p, s) = p[k]
  BY <1>1, SiteFacts
<1>3. ArgType(p, s) = p[k].param
  BY <1>1, <1>2 DEF WellTyped
<1> HIDE DEF k, s, o
<1>4. p[k].param = Param(k)
  <2>1. p[k] = [generic |-> k \in Templates, param |-> Param(k), calls |-> p[k].calls]
    BY <1>1 DEF Faithful
  <2> QED
    BY <2>1
<1>5. Param(k) = k.args[1] /\ k = Mangle(k.fn, k.args[1])
  BY <1>2, Names DEF Param
<1> QED
  BY <1>1, <1>3, <1>4, <1>5 DEF k, s, o

\* What a call passes is of the same type after the round as before it.
LEMMA ArgTypeKept ==
  ASSUME IsSource, NEW p, Faithful(p), NEW q, Faithful(q), NEW n \in DOMAIN p, n \in DOMAIN q,
         NEW i \in 1 .. Len(Body(n))
  PROVE  ArgType(q, <<n, i>>) = ArgType(p, <<n, i>>)
<1>1. /\ p[n].calls[i].passes = Body(n)[i].passes /\ p[n].calls[i].layers = Body(n)[i].layers
      /\ p[n].param = Param(n)
  BY CallFacts, ZenonT(40)
<1>2. /\ q[n].calls[i].passes = Body(n)[i].passes /\ q[n].calls[i].layers = Body(n)[i].layers
      /\ q[n].param = Param(n)
  BY CallFacts, ZenonT(40)
<1> QED
  BY <1>1, <1>2, SiteFacts

\* The last round: nothing is missing.
LEMMA LastRound ==
  ASSUME IsSource, NEW p, Faithful(p), WellTyped(p), Missing(p) = {}, NEW q, q = After(p)
  PROVE  Finished(q)
<1>1. /\ Faithful(q) /\ DOMAIN q = DOMAIN p
      /\ \A n \in DOMAIN p : \A i \in 1 .. Len(Body(n)) : q[n].calls[i] = Renamed(p, <<n, i>>)
  BY AfterFaithful
<1>2. ASSUME NEW n \in DOMAIN q, NEW i \in 1 .. Len(Body(n))
      PROVE  q[n].calls[i].callee = Mangle(Body(n)[i].callee.fn, ArgType(q, <<n, i>>))
  <2>1. n \in DOMAIN p
    BY <1>1
  <2>2. q[n].calls[i].callee = Renamed(p, <<n, i>>).callee
    BY <1>1, <2>1
  <2>3. Renamed(p, <<n, i>>).callee =
          IF p[n].calls[i].callee \in Templates THEN Target(p, <<n, i>>) ELSE p[n].calls[i].callee
    BY <2>1, RenamedFacts
  <2>4. Target(p, <<n, i>>) = Mangle(Body(n)[i].callee.fn, ArgType(p, <<n, i>>))
    BY <2>1, CallFacts
  <2>5. p[n].calls[i].callee \notin Templates =>
          p[n].calls[i].callee = Mangle(Body(n)[i].callee.fn, ArgType(p, <<n, i>>))
    BY <2>1, CopyIsAskedFor
  <2>6. ArgType(q, <<n, i>>) = ArgType(p, <<n, i>>)
    BY <1>1, <2>1, ArgTypeKept
  <2> QED
    BY <2>2, <2>3, <2>4, <2>5, <2>6
<1> QED
  BY <1>1, <1>2 DEF Finished

\* No round is needed: nothing generic is called.
LEMMA NothingToDo ==
  ASSUME IsSource, NEW p, Faithful(p), WellTyped(p), Instantiations(p) = {}
  PROVE  Finished(p)
<1> SUFFICES ASSUME NEW n \in DOMAIN p, NEW i \in 1 .. Len(Body(n))
             PROVE  p[n].calls[i].callee = Mangle(Body(n)[i].callee.fn, ArgType(p, <<n, i>>))
  BY DEF Finished
<1>1. <<n, i>> \in Sites(p) /\ (Callee(p, <<n, i>>).generic <=> p[n].calls[i].callee \in Templates)
  BY CallFacts
<1>2. p[n].calls[i].callee \notin Templates
  BY <1>1 DEF Instantiations
<1> QED
  BY <1>2, CopyIsAskedFor

(***************************************************************************)
(* What is accepted.                                                       *)
(***************************************************************************)

\* What is run is main and copies, which call what their instances call.
LEMMA SameCalls ==
  ASSUME IsSource, NEW p, Finished(p), NEW n \in {Main} \cup (Copies \cap DOMAIN p)
  PROVE  /\ InstanceCalls(n) = CalledBy(p, n)
         /\ CalledBy(p, n) \subseteq {Main} \cup (Copies \cap DOMAIN p)
<1>1. Faithful(p) /\ n \in DOMAIN p
  BY DEF Finished, Faithful
<1> DEFINE body == Body(n)
           asked(i) == Mangle(body[i].callee.fn,
                              IF body[i].passes = "x" THEN Wrapped(n.args[1], body[i].layers)
                                                      ELSE Type("int", body[i].layers))
<1>2. Len(p[n].calls) = Len(body)
  BY <1>1 DEF Faithful
<1>3. ASSUME NEW i \in 1 .. Len(body)
      PROVE  p[n].calls[i].callee = asked(i) /\ p[n].calls[i].callee \in Copies \cap DOMAIN p
  <2>1. /\ p[n].calls[i].passes = body[i].passes /\ p[n].calls[i].layers = body[i].layers
        /\ p[n].calls[i].callee \in DOMAIN p
        /\ p[n].param = Param(n)
        /\ n = Main => body[i].passes = "int"
        /\ body[i].callee.fn \in Generics
        /\ ArgType(p, <<n, i>>) \in Types
    BY <1>1, CallFacts, ZenonT(40)
  <2>2. p[n].calls[i].callee = Mangle(body[i].callee.fn, ArgType(p, <<n, i>>))
    BY <1>1 DEF Finished
  <2>3. ArgType(p, <<n, i>>) = IF p[n].calls[i].passes = "x" THEN Wrapped(p[n].param, p[n].calls[i].layers)
                                                      ELSE Type("int", p[n].calls[i].layers)
    BY SiteFacts
  <2>4. n # Main => Param(n) = n.args[1]
    BY Names DEF Param
  <2>5. Mangle(body[i].callee.fn, ArgType(p, <<n, i>>)) \in Copies
    BY <2>1 DEF Copies
  <2> HIDE DEF body
  <2>6. CASE body[i].passes = "x"
    BY <2>1, <2>2, <2>3, <2>4, <2>5, <2>6
  <2>7. CASE body[i].passes # "x"
    BY <2>1, <2>2, <2>3, <2>5, <2>7
  <2> QED
    BY <2>6, <2>7
<1>4. InstanceCalls(n) = {asked(i) : i \in 1 .. Len(body)}
  BY DEF InstanceCalls, Body
<1> HIDE DEF body, asked
<1>5. CalledBy(p, n) = {p[n].calls[i].callee : i \in 1 .. Len(body)}
  <2>1. ASSUME NEW i \in 1 .. Len(body) PROVE p[n].calls[i].callee \in CalledBy(p, n)
    <3>1. <<n, i>> \in Sites(p) /\ CallAt(p, <<n, i>>) = p[n].calls[i] /\ <<n, i>>[1] = n
      BY <1>1, <1>2, SiteFacts
    <3> QED
      BY <3>1 DEF CalledBy
  <2>2. ASSUME NEW c \in CalledBy(p, n) PROVE \E i \in 1 .. Len(body) : c = p[n].calls[i].callee
    <3>1. PICK s \in Sites(p) : s[1] = n /\ c = CallAt(p, s).callee
      BY DEF CalledBy
    <3>2. s[2] \in 1 .. Len(body) /\ CallAt(p, s) = p[n].calls[s[2]]
      BY <3>1, <1>2, SiteFacts DEF CallAt
    <3> QED
      BY <3>1, <3>2
  <2> QED
    BY <2>1, <2>2
<1> QED
  BY <1>3, <1>4, <1>5

\* The property, of a program and the source.
SoundOf(p) ==
  /\ Reached(p) = Instances({Main})
  /\ Reached(p) \subseteq DOMAIN p
  /\ \A s \in Sites(p) : s[1] \in Reached(p) =>
       ~Callee(p, s).generic /\ ArgType(p, s) = Callee(p, s).param

LEMMA FinishedIsSound ==
  ASSUME IsSource, NEW p, Finished(p)
  PROVE  SoundOf(p)
<1> DEFINE Run == {Main} \cup (Copies \cap DOMAIN p)
<1>1. Faithful(p) /\ Main \in DOMAIN p
  BY DEF Finished, Faithful
<1>2. Reached(p) = Instances({Main}) /\ Reached(p) \subseteq Run
  <2>1. \A n \in Run : InstanceCalls(n) = CalledBy(p, n) /\ CalledBy(p, n) \subseteq Run
    BY SameCalls
  <2>2. Main \in Run
    OBVIOUS
  <2> HIDE DEF Run
  <2> QED
    BY <2>1, <2>2, SameSteps
<1>3. ASSUME NEW s \in Sites(p), s[1] \in Reached(p)
      PROVE  ~Callee(p, s).generic /\ ArgType(p, s) = Callee(p, s).param
  <2> DEFINE n == s[1]
             i == s[2]
             k == p[n].calls[i].callee
  <2>1. s = <<n, i>> /\ n \in DOMAIN p /\ i \in 1 .. Len(Body(n))
    BY <1>1, SiteFacts DEF Faithful
  <2>2. /\ k \in DOMAIN p
        /\ Callee(p, <<n, i>>).generic <=> k \in Templates
        /\ ArgType(p, <<n, i>>) \in Types /\ Body(n)[i].callee.fn \in Generics
    BY <1>1, <2>1, CallFacts
  <2>3. k = Mangle(Body(n)[i].callee.fn, ArgType(p, <<n, i>>))
    BY <2>1 DEF Finished
  <2>4. k \in Copies
    BY <2>2, <2>3 DEF Copies
  <2>5. Callee(p, <<n, i>>) = p[k]
    BY SiteFacts
  <2> HIDE DEF n, i, k
  <2>6. p[k].param = Param(k)
    <3>1. p[k] = [generic |-> k \in Templates, param |-> Param(k), calls |-> p[k].calls]
      BY <1>1, <2>2 DEF Faithful
    <3> QED
      BY <3>1
  <2>7. Param(k) = ArgType(p, <<n, i>>) /\ k \notin Templates
    BY <2>3, <2>4, Names DEF Param
  <2> QED
    BY <2>1, <2>2, <2>5, <2>6, <2>7
<1> QED
  BY <1>1, <1>2, <1>3 DEF SoundOf

(***************************************************************************)
(* Every program on the way is faithful, and the one that is accepted is   *)
(* finished.                                                               *)
(***************************************************************************)

MonoInv ==
  /\ IsSource
  /\ verdict = "running" => Faithful(program)
  /\ verdict = "ok" => Finished(program)

LEMMA FaithfulAtFirst == Init => IsSource /\ Faithful(source) /\ program = source /\ verdict = "running"
<1> SUFFICES ASSUME Init PROVE IsSource /\ Faithful(source)
  BY DEF Init
<1>1. PICK bodies \in [Generics -> Bodies({"x", "int"}, MaxCalls)], main \in Bodies({"int"}, MaxMain) :
        source = Program(bodies, main)
  BY DEF Init
<1>2. MaxCalls \in Nat /\ MaxMain \in Nat
  BY MonomorphizeAssumption
<1>3. ASSUME NEW passed, NEW n \in Nat, NEW b \in Bodies(passed, n)
      PROVE  /\ Len(b) \in Nat
             /\ \A i \in 1 .. Len(b) :
                  /\ b[i] = [callee |-> b[i].callee, passes |-> b[i].passes, layers |-> b[i].layers]
                  /\ IsCall(b[i], passed) /\ b[i].callee # Main
  <2>1. PICK k \in 0 .. n : b \in [1 .. k -> Calls(passed)]
    BY <1>3 DEF Bodies
  <2>2. k \in Nat /\ b = [i \in 1 .. k |-> b[i]]
    BY <2>1
  <2>3. Len(b) = k
    BY <2>2, LenOfFunction
  <2>4. ASSUME NEW i \in 1 .. k
        PROVE  /\ b[i] = [callee |-> b[i].callee, passes |-> b[i].passes, layers |-> b[i].layers]
               /\ IsCall(b[i], passed) /\ b[i].callee # Main
    <3>1. b[i] \in Calls(passed)
      BY <2>1
    <3>2. b[i] \in [callee : Templates, passes : passed, layers : {0, 1}]
      BY <3>1 DEF Calls, Templates
    <3>3. b[i].callee # Main
      BY <3>2, Names
    <3> QED
      BY <3>2, <3>3 DEF IsCall
  <2> QED
    BY <2>2, <2>3, <2>4
<1>4. DOMAIN source = Templates \cup {Main}
  BY <1>1 DEF Program, Templates
<1>5. source[Main] = [generic |-> FALSE, param |-> Type("int", 0), calls |-> main]
  BY <1>1 DEF Program
<1>6. \A n \in Templates : source[n] = [generic |-> TRUE, param |-> T, calls |-> bodies[n.fn]]
  <2>1. \A n \in Templates : n # Main /\ n \in {Original(f) : f \in Generics} \cup {Main}
    BY Names DEF Templates
  <2> QED
    BY <1>1, <2>1 DEF Program
<1>7. ASSUME NEW n \in DOMAIN source
      PROVE  /\ source[n] = [generic |-> n \in Templates, param |-> IF n = Main THEN Type("int", 0) ELSE T,
                             calls |-> source[n].calls]
             /\ source[n].calls \in IF n = Main THEN Bodies({"int"}, MaxMain)
                                                ELSE Bodies({"x", "int"}, MaxCalls)
  <2>1. CASE n = Main
    <3>1. (n \in Templates) = FALSE
      BY <2>1, Names
    <3>2. source[n].calls = main
      BY <1>5, <2>1
    <3> QED
      BY <1>5, <2>1, <3>1, <3>2
  <2>2. CASE n \in Templates
    <3>1. (n \in Templates) = TRUE /\ n # Main /\ n.fn \in Generics
      BY <2>2, Names
    <3>2. source[n] = [generic |-> TRUE, param |-> T, calls |-> bodies[n.fn]]
      BY <1>6, <2>2
    <3>3. source[n].calls = bodies[n.fn]
      BY <3>2
    <3>4. source[n] = [generic |-> n \in Templates, param |-> T, calls |-> source[n].calls]
      <4> DEFINE there == n \in Templates
                 tt == TRUE
      <4>1. there = tt /\ source[n] = [generic |-> tt, param |-> T, calls |-> bodies[n.fn]]
        BY <3>1, <3>2
      <4> HIDE DEF there, tt
      <4>2. source[n] = [generic |-> there, param |-> T, calls |-> source[n].calls]
        BY <4>1, <3>3
      <4> QED
        BY <4>2 DEF there
    <3>5. bodies[n.fn] \in Bodies({"x", "int"}, MaxCalls)
      BY <1>1, <3>1
    <3> QED
      BY <3>1, <3>3, <3>4, <3>5
  <2> QED
    BY <1>4, <2>1, <2>2
<1>8. ASSUME NEW n \in DOMAIN source
      PROVE  /\ Len(source[n].calls) \in Nat
             /\ \A i \in 1 .. Len(source[n].calls) :
                  /\ source[n].calls[i] = [callee |-> source[n].calls[i].callee, passes |-> source[n].calls[i].passes,
                                           layers |-> source[n].calls[i].layers]
                  /\ IsCall(source[n].calls[i], IF n = Main THEN {"int"} ELSE {"x", "int"})
                  /\ source[n].calls[i].callee # Main
  <2>1. CASE n = Main
    BY <1>2, <1>3, <1>7, <2>1
  <2>2. CASE n # Main
    BY <1>2, <1>3, <1>7, <2>2
  <2> QED
    BY <2>1, <2>2
<1>9. IsSource
  BY <1>4, <1>7, <1>8 DEF IsSource
<1>10. \A n \in DOMAIN source : Original(n.fn) = n
  BY <1>4, Names
<1>11. ASSUME NEW n \in DOMAIN source
       PROVE  /\ source[n] = [generic |-> n \in Templates, param |-> Param(n), calls |-> source[n].calls]
              /\ source[n].calls = Body(n)
  <2>1. Param(n) = IF n = Main THEN Type("int", 0) ELSE T
    BY <1>4 DEF Param
  <2>2. Body(n) = source[n].calls
    BY <1>10 DEF Body
  <2>3. source[n] = [generic |-> n \in Templates, param |-> IF n = Main THEN Type("int", 0) ELSE T,
                     calls |-> source[n].calls]
    BY <1>7
  <2> QED
    BY <2>1, <2>2, <2>3
<1>12. ASSUME NEW n \in DOMAIN source, NEW i \in 1 .. Len(Body(n))
       PROVE  Follow(source, n, i)
  <2>1. /\ source[n].calls = Body(n)
        /\ source[n].calls[i] = [callee |-> source[n].calls[i].callee, passes |-> source[n].calls[i].passes,
                                 layers |-> source[n].calls[i].layers]
        /\ source[n].calls[i].callee # Main /\ source[n].calls[i].callee \in Templates
    BY <1>8, <1>11 DEF IsCall
  <2> QED
    BY <2>1, <1>4 DEF Follow
<1>13. Faithful(source)
  BY <1>4, <1>11, <1>12 DEF Faithful
<1> QED
  BY <1>9, <1>13

\* The source stays, so what is said of a program relative to it can be said later.
LEMMA SaidLater ==
  ASSUME UNCHANGED source
  PROVE  /\ IsSource => IsSource'
         /\ Faithful(program') => Faithful(program)'
         /\ Finished(program') => Finished(program)'
<1>1. \A n : Body(n)' = Body(n)
  BY DEF Body
<1>2. IsSource => IsSource'
  BY DEF IsSource
<1>3. \A n, i : Follow(program', n, i) => Follow(program, n, i)'
  BY <1>1 DEF Follow
<1>4. Faithful(program') => Faithful(program)'
  BY <1>1, <1>3 DEF Faithful
<1>5. \A s : ArgType(program', s) = ArgType(program, s)'
  BY DEF ArgType, CallAt
<1>6. Finished(program') => Finished(program)'
  BY <1>1, <1>4, <1>5 DEF Finished
<1> QED
  BY <1>2, <1>4, <1>6

LEMMA MonoStep == MonoInv /\ [Next]_vars => MonoInv'
<1> SUFFICES ASSUME MonoInv, [Next]_vars PROVE MonoInv'
  OBVIOUS
<1>1. IsSource /\ (verdict = "running" => Faithful(program)) /\ (verdict = "ok" => Finished(program))
  BY DEF MonoInv
<1>2. CASE Specialise
  <2>1. /\ verdict = "running" /\ WellTyped(program)
        /\ program' = After(program) /\ UNCHANGED source
        /\ verdict' = "ok" => Missing(program) = {}
    BY <1>2 DEF Specialise, After
  <2>2. Faithful(program)
    BY <1>1, <2>1
  <2>3. Faithful(program')
    BY <1>1, <2>1, <2>2, AfterFaithful
  <2>4. verdict' = "ok" => Finished(program')
    BY <1>1, <2>1, <2>2, LastRound
  <2> QED
    BY <1>1, <2>1, <2>3, <2>4, SaidLater DEF MonoInv
<1>3. CASE Settle
  <2>1. /\ verdict = "running" /\ WellTyped(program) /\ Instantiations(program) = {}
        /\ verdict' = "ok" /\ UNCHANGED <<source, program>>
    BY <1>3 DEF Settle
  <2>2. Finished(program)
    BY <1>1, <2>1, NothingToDo
  <2>3. Finished(program')
    BY <2>1, <2>2
  <2> QED
    BY <1>1, <2>1, <2>3, SaidLater DEF MonoInv
<1>4. CASE Reject
  BY <1>1, <1>4, SaidLater DEF MonoInv, Reject
<1>5. CASE UNCHANGED vars
  <2>1. UNCHANGED <<source, program, verdict>>
    BY <1>5 DEF vars
  <2>2. /\ verdict' = "running" => Faithful(program')
        /\ verdict' = "ok" => Finished(program')
    BY <1>1, <2>1
  <2> QED
    BY <1>1, <2>1, <2>2, SaidLater DEF MonoInv
<1> QED
  BY <1>2, <1>3, <1>4, <1>5 DEF Next

\* Whatever the source, the generic functions and the number of rounds, a program
\* that is accepted runs the instances the source means and no others; every call
\* a backend comes to is of a function that is there, is not generic and takes what
\* it is given (`expand` in monomorphize.rs, whose last round is not type-checked).
THEOREM AcceptedIsSound == Spec => []Sound
<1>1. Init => MonoInv
  <2> SUFFICES ASSUME Init PROVE MonoInv
    OBVIOUS
  <2>1. IsSource /\ Faithful(source) /\ program = source /\ verdict = "running"
    BY FaithfulAtFirst
  <2>2. Faithful(program) /\ verdict # "ok"
    BY <2>1
  <2> QED
    BY <2>1, <2>2 DEF MonoInv
<1>2. MonoInv => Sound
  <2> SUFFICES ASSUME MonoInv, verdict = "ok" PROVE SoundOf(program)
    BY DEF Sound, SoundOf
  <2>1. IsSource /\ Finished(program)
    BY DEF MonoInv
  <2> QED
    BY <2>1, FinishedIsSound
<1> QED
  BY <1>1, <1>2, MonoStep, PTL DEF Spec

(***************************************************************************)
(* A shallow program is accepted.  It takes at most two rounds: the first  *)
(* makes the copies the source asks for, the second those the copies ask   *)
(* for, and by then every body of the source calls copies only.            *)
(***************************************************************************)

\* A call of a copy passes what the copy is for.
Asked(p, n, i) == p[n].calls[i].callee = Mangle(Body(n)[i].callee.fn, ArgType(p, <<n, i>>))

LEMMA AskedIsTyped ==
  ASSUME IsSource, NEW p, Faithful(p),
         \A n \in DOMAIN p : \A i \in 1 .. Len(Body(n)) : p[n].calls[i].callee \in Templates \/ Asked(p, n, i)
  PROVE  WellTyped(p)
<1> SUFFICES ASSUME NEW s \in Sites(p) PROVE Callee(p, s).generic \/ ArgType(p, s) = Callee(p, s).param
  BY DEF WellTyped
<1> DEFINE n == s[1]
           i == s[2]
           k == p[n].calls[i].callee
<1>1. s = <<n, i>> /\ n \in DOMAIN p /\ i \in 1 .. Len(Body(n))
  BY SiteFacts DEF Faithful
<1>2. /\ k \in DOMAIN p
      /\ Callee(p, <<n, i>>).generic <=> k \in Templates
      /\ ArgType(p, <<n, i>>) \in Types /\ Body(n)[i].callee.fn \in Generics
  BY <1>1, CallFacts
<1>6. Callee(p, <<n, i>>) = p[k]
  BY SiteFacts
<1>3. k \in Templates \/ k = Mangle(Body(n)[i].callee.fn, ArgType(p, <<n, i>>))
  BY <1>1 DEF Asked
<1> HIDE DEF n, i, k
<1>4. p[k].param = Param(k)
  <2>1. p[k] = [generic |-> k \in Templates, param |-> Param(k), calls |-> p[k].calls]
    BY <1>2 DEF Faithful
  <2> QED
    BY <2>1
<1>5. CASE k = Mangle(Body(n)[i].callee.fn, ArgType(p, <<n, i>>))
  <2>1. k \in Copies
    BY <1>2, <1>5 DEF Copies
  <2>2. Param(k) = ArgType(p, <<n, i>>)
    BY <1>5, <2>1, Names DEF Param
  <2> QED
    BY <1>1, <1>2, <1>4, <1>6, <2>2
<1> QED
  BY <1>1, <1>2, <1>3, <1>5, <1>6

\* What the lemmas about a call say, one thing at a time.
LEMMA CallPasses ==
  ASSUME IsSource, NEW p, Faithful(p), NEW n \in DOMAIN p, NEW i \in 1 .. Len(Body(n))
  PROVE  /\ p[n].calls[i].passes = Body(n)[i].passes /\ p[n].calls[i].layers = Body(n)[i].layers
         /\ p[n].param = Param(n) /\ Param(n) \in Types
BY CallFacts, ZenonT(40)

LEMMA CallAsks ==
  ASSUME IsSource, NEW p, Faithful(p), NEW n \in DOMAIN p, NEW i \in 1 .. Len(Body(n))
  PROVE  /\ ArgType(p, <<n, i>>) \in Types /\ Body(n)[i].callee.fn \in Generics
         /\ Target(p, <<n, i>>) = Mangle(Body(n)[i].callee.fn, ArgType(p, <<n, i>>))
         /\ Mangle(Body(n)[i].callee.fn, ArgType(p, <<n, i>>)) \in Copies
BY CallFacts, ZenonT(40)

LEMMA CallBecomes ==
  ASSUME IsSource, NEW p, Faithful(p), NEW n \in DOMAIN p, NEW i \in 1 .. Len(Body(n))
  PROVE  /\ p[n].calls[i].callee \in Templates => Renamed(p, <<n, i>>).callee = Target(p, <<n, i>>)
         /\ p[n].calls[i].callee \notin Templates => Renamed(p, <<n, i>>).callee = p[n].calls[i].callee
BY RenamedFacts

\* After the first round: the source's functions call copies, the copies call what
\* the source's did.
LEMMA FirstRound ==
  ASSUME IsSource, Faithful(source), NEW p, p = After(source)
  PROVE  /\ Faithful(p) /\ WellTyped(source) /\ WellTyped(p)
         /\ DOMAIN source = Templates \cup {Main} /\ DOMAIN p = DOMAIN source \cup Missing(source)
         /\ \A n \in DOMAIN source : \A i \in 1 .. Len(Body(n)) :
              /\ Asked(p, n, i)
              /\ p[n].calls[i].callee = Mangle(Body(n)[i].callee.fn, ArgType(source, <<n, i>>))
         /\ \A n \in Missing(source) : \A i \in 1 .. Len(Body(n)) : p[n].calls[i].callee = Body(n)[i].callee
<1>1. DOMAIN source = Templates \cup {Main} /\ \A n \in DOMAIN source : Original(n.fn) = n
  BY Names DEF IsSource
<1>2. \A n \in DOMAIN source : Body(n) = source[n].calls
  BY <1>1 DEF Body
<1>3. ASSUME NEW n \in DOMAIN source, NEW i \in 1 .. Len(Body(n))
      PROVE  source[n].calls[i].callee \in Templates
  BY <1>1, <1>2, <1>3, BodyFacts DEF IsCall
<1>4. WellTyped(source)
  BY <1>3, AskedIsTyped
<1>5. /\ Faithful(p) /\ DOMAIN p = DOMAIN source \cup Missing(source)
      /\ \A n \in DOMAIN source : \A i \in 1 .. Len(Body(n)) : p[n].calls[i] = Renamed(source, <<n, i>>)
  BY AfterFaithful
<1>6. ASSUME NEW n \in DOMAIN source, NEW i \in 1 .. Len(Body(n))
      PROVE  /\ Asked(p, n, i)
             /\ p[n].calls[i].callee = Mangle(Body(n)[i].callee.fn, ArgType(source, <<n, i>>))
  <2>1. Renamed(source, <<n, i>>).callee = Target(source, <<n, i>>)
    BY <1>3, RenamedFacts
  <2>2. Target(source, <<n, i>>) = Mangle(Body(n)[i].callee.fn, ArgType(source, <<n, i>>))
    BY CallFacts
  <2>3. ArgType(p, <<n, i>>) = ArgType(source, <<n, i>>)
    BY <1>5, ArgTypeKept
  <2> QED
    BY <1>5, <2>1, <2>2, <2>3 DEF Asked
<1>7. ASSUME NEW n \in Missing(source), NEW i \in 1 .. Len(Body(n))
      PROVE  p[n].calls[i].callee = Body(n)[i].callee
  <2>1. p[n] = Copy(source, n)
    BY MissingFacts DEF After
  <2>2. p[n] = [generic |-> n \in Templates, param |-> Param(n), calls |-> source[Original(n.fn)].calls]
    BY <2>1, CopyFacts
  <2>3. p[n].calls = Body(n)
    BY <2>2 DEF Body
  <2> QED
    BY <2>3
<1>8. ASSUME NEW n \in DOMAIN p, NEW i \in 1 .. Len(Body(n))
      PROVE  p[n].calls[i].callee \in Templates \/ Asked(p, n, i)
  <2>1. CASE n \in DOMAIN source
    BY <2>1, <1>6
  <2>2. CASE n \in Missing(source)
    <3>1. n \in Templates \cup {Main} \cup Copies
      BY <2>2, MissingFacts
    <3> QED
      BY <2>2, <3>1, <1>7, BodyFacts DEF IsCall
  <2> QED
    BY <1>5, <2>1, <2>2
<1>9. WellTyped(p)
  BY <1>5, <1>8, AskedIsTyped
<1> QED
  BY <1>1, <1>4, <1>5, <1>6, <1>7, <1>9

\* After the second round of a shallow program nothing generic is called, and the
\* checker has nothing to say.
LEMMA SecondRound ==
  ASSUME IsSource, Faithful(source), Shallow, NEW p, p = After(source), NEW q, q = After(p)
  PROVE  WellTyped(q) /\ Instantiations(q) = {}
<1>1. /\ Faithful(p) /\ WellTyped(p)
      /\ DOMAIN source = Templates \cup {Main} /\ DOMAIN p = DOMAIN source \cup Missing(source)
      /\ \A n \in DOMAIN source : \A i \in 1 .. Len(Body(n)) :
           /\ Asked(p, n, i)
           /\ p[n].calls[i].callee = Mangle(Body(n)[i].callee.fn, ArgType(source, <<n, i>>))
      /\ \A n \in Missing(source) : \A i \in 1 .. Len(Body(n)) : p[n].calls[i].callee = Body(n)[i].callee
  BY FirstRound
<1>10. Faithful(p) /\ WellTyped(p) /\ DOMAIN source = Templates \cup {Main}
  BY <1>1
<1>2. /\ Faithful(q) /\ DOMAIN q = DOMAIN p \cup Missing(p)
      /\ \A n \in DOMAIN p : \A i \in 1 .. Len(Body(n)) : q[n].calls[i] = Renamed(p, <<n, i>>)
  BY <1>10, AfterFaithful
<1>11. Faithful(q)
  BY <1>2
<1>3. ASSUME NEW n \in DOMAIN p, NEW i \in 1 .. Len(Body(n))
      PROVE  Asked(q, n, i)
  <2>1. q[n].calls[i].callee = Renamed(p, <<n, i>>).callee
    BY <1>2
  <2>2. /\ p[n].calls[i].callee \in Templates => Renamed(p, <<n, i>>).callee = Target(p, <<n, i>>)
        /\ p[n].calls[i].callee \notin Templates => Renamed(p, <<n, i>>).callee = p[n].calls[i].callee
    BY <1>10, CallBecomes
  <2>3. Target(p, <<n, i>>) = Mangle(Body(n)[i].callee.fn, ArgType(p, <<n, i>>))
    BY <1>10, CallAsks
  <2>4. p[n].calls[i].callee \notin Templates =>
          p[n].calls[i].callee = Mangle(Body(n)[i].callee.fn, ArgType(p, <<n, i>>))
    BY <1>10, CopyIsAskedFor
  <2>5. ArgType(q, <<n, i>>) = ArgType(p, <<n, i>>)
    BY <1>10, <1>11, <1>2, ArgTypeKept
  <2> QED
    BY <2>1, <2>2, <2>3, <2>4, <2>5 DEF Asked
<1>4. ASSUME NEW n \in Missing(p), NEW i \in 1 .. Len(Body(n))
      PROVE  Asked(q, n, i)
  <2> DEFINE o == Original(n.fn)
  <2>1. /\ n \in Copies /\ n # Main /\ o \in DOMAIN p /\ Body(o) = Body(n)
        /\ Copy(p, n) = [generic |-> n \in Templates, param |-> Param(n), calls |-> p[o].calls]
    BY <1>10, CopyFacts
  <2>2. q[n] = Copy(p, n) /\ n \notin DOMAIN p
    BY <1>10, MissingFacts DEF After
  <2>3. o \in DOMAIN source /\ o \in Templates /\ o.fn = n.fn
    BY <1>1, <2>1, Names
  <2>4. q[n].calls = p[o].calls
    <3> HIDE DEF o
    <3> QED
      BY <2>1, <2>2
  <2>5. q[n].calls[i].callee = Mangle(Body(n)[i].callee.fn, ArgType(source, <<o, i>>))
    BY <1>1, <2>1, <2>3, <2>4
  \* Had it passed on what it is given, it would be the copy that asks for it.
  <2>6. Body(n)[i].passes # "x"
    <3> SUFFICES ASSUME Body(n)[i].passes = "x" PROVE FALSE
      OBVIOUS
    <3>1. PICK s \in Instantiations(p) : n = Target(p, s)
      BY DEF Missing
    <3> DEFINE m == s[1]
               j == s[2]
    <3>2. s \in Sites(p) /\ Callee(p, s).generic
      BY DEF Instantiations
    <3>3. s = <<m, j>> /\ m \in DOMAIN p /\ j \in 1 .. Len(Body(m))
      BY <1>10, <3>2, SiteFacts DEF Faithful
    <3> HIDE DEF m, j
    <3>12. /\ Callee(p, <<m, j>>).generic
           /\ n = Target(p, <<m, j>>)
      BY <3>1, <3>2, <3>3
    <3>4. /\ p[m].calls[j].callee \in Templates
          /\ n = Mangle(Body(m)[j].callee.fn, ArgType(p, <<m, j>>))
          /\ ArgType(p, <<m, j>>) \in Types
          /\ Body(m)[j].callee.fn \in Generics
          /\ p[m].calls[j].passes = Body(m)[j].passes /\ p[m].calls[j].layers = Body(m)[j].layers
          /\ p[m].param = Param(m) /\ Param(m) \in Types
      <4>1. p[m].calls[j].callee \in Templates
        BY <1>10, <3>12, <3>3, CallFacts
      <4>2. /\ n = Mangle(Body(m)[j].callee.fn, ArgType(p, <<m, j>>))
            /\ ArgType(p, <<m, j>>) \in Types
            /\ Body(m)[j].callee.fn \in Generics
        BY <1>10, <3>12, <3>3, CallAsks
      <4>3. /\ p[m].calls[j].passes = Body(m)[j].passes /\ p[m].calls[j].layers = Body(m)[j].layers
            /\ p[m].param = Param(m) /\ Param(m) \in Types
        BY <1>10, <3>3, CallPasses
      <4> QED
        BY <4>1, <4>2, <4>3
    <3>5. m \in Missing(source)
      <4>1. m \notin DOMAIN source
        <5> SUFFICES ASSUME m \in DOMAIN source PROVE FALSE
          OBVIOUS
        <5>1. p[m].calls[j].callee = Mangle(Body(m)[j].callee.fn, ArgType(source, <<m, j>>))
          BY <1>1, <3>3
        <5>2. Mangle(Body(m)[j].callee.fn, ArgType(source, <<m, j>>)) \in Copies
          BY <3>3, CallAsks
        <5> QED
          BY <3>4, <5>1, <5>2, Names
      <4> QED
        BY <4>1, <1>1, <3>3
    <3>6. m \in Copies /\ m.fn \in Generics /\ m = Mangle(m.fn, m.args[1]) /\ Param(m) = m.args[1]
      <4>1. m \in Copies
        BY <3>5, MissingFacts
      <4> QED
        BY <4>1, Names DEF Param
    <3>7. Body(m)[j].callee = Original(n.fn) /\ n.fn = Body(m)[j].callee.fn /\ n.fn \in Generics
      <4>1. Body(m)[j].callee \in Templates
        BY <1>1, <3>3, <3>4, <3>5
      <4>2. n.fn = Body(m)[j].callee.fn
        BY <3>4, Names
      <4> QED
        BY <4>1, <4>2, <3>4, Names
    <3>8. m.fn = n.fn /\ Body(m)[j].layers = 0 /\ Body(m)[j].passes = "x"
      <4>1. \A f, g \in Generics : \A a \in 1 .. Len(source[Original(f)].calls), b \in 1 .. Len(source[Original(g)].calls) :
              source[Original(f)].calls[a].callee = Original(g) =>
                \/ source[Original(g)].calls[b].passes = "int"
                \/ f = g /\ source[Original(f)].calls[a].layers = 0 /\ source[Original(f)].calls[a].passes = "x"
        BY DEF Shallow
      <4>2. Body(m) = source[Original(m.fn)].calls /\ Body(n) = source[Original(n.fn)].calls
        BY DEF Body
      <4> QED
        BY <4>1, <4>2, <3>3, <3>6, <3>7
    <3>9. ArgType(p, <<m, j>>) = Wrapped(Param(m), 0)
      BY <3>4, <3>8, SiteFacts
    <3>10. Wrapped(Param(m), 0) = Param(m)
      <4>1. Param(m) = [base |-> Param(m).base, layers |-> Param(m).layers] /\ Param(m).layers + 0 = Param(m).layers
        BY <3>4 DEF Types
      <4> DEFINE t == Param(m)
      <4> HIDE DEF t
      <4>2. t = [base |-> t.base, layers |-> t.layers] /\ t.layers + 0 = t.layers
        BY <4>1 DEF t
      <4>3. [t EXCEPT !.layers = t.layers + 0] = t
        BY <4>2
      <4> QED
        BY <4>3 DEF Wrapped, t
    <3>11. n = m
      BY <3>4, <3>6, <3>7, <3>8, <3>9, <3>10
    <3> QED
      BY <2>2, <3>3, <3>11
  <2>7. ArgType(source, <<o, i>>) = Type("int", Body(n)[i].layers)
    <3>1. i \in 1 .. Len(Body(o))
      BY <2>1
    <3>2. source[o].calls[i].passes = Body(o)[i].passes /\ source[o].calls[i].layers = Body(o)[i].layers
      BY <2>3, <3>1, CallPasses
    <3> QED
      BY <2>1, <2>6, <3>2, SiteFacts
  <2>8. ArgType(q, <<n, i>>) = Type("int", Body(n)[i].layers)
    <3>1. n \in DOMAIN q
      BY <1>2
    <3>2. q[n].calls[i].passes = Body(n)[i].passes /\ q[n].calls[i].layers = Body(n)[i].layers
      BY <1>11, <3>1, CallPasses
    <3> QED
      BY <2>6, <3>2, SiteFacts
  <2> QED
    BY <2>5, <2>7, <2>8 DEF Asked
<1>5. \A n \in DOMAIN q : \A i \in 1 .. Len(Body(n)) : Asked(q, n, i)
  BY <1>2, <1>3, <1>4
<1>6. WellTyped(q)
  BY <1>2, <1>5, AskedIsTyped
<1>7. Instantiations(q) = {}
  <2> SUFFICES ASSUME NEW s \in Instantiations(q) PROVE FALSE
    OBVIOUS
  <2> DEFINE n == s[1]
             i == s[2]
  <2>1. s \in Sites(q) /\ Callee(q, s).generic
    BY DEF Instantiations
  <2>2. s = <<n, i>> /\ n \in DOMAIN q /\ i \in 1 .. Len(Body(n))
    BY <1>11, <2>1, SiteFacts DEF Faithful
  <2> HIDE DEF n, i
  <2>3. /\ q[n].calls[i].callee \in Templates
        /\ ArgType(q, <<n, i>>) \in Types /\ Body(n)[i].callee.fn \in Generics
    BY <1>11, <2>1, <2>2, CallFacts
  <2>4. q[n].calls[i].callee \in Copies
    BY <1>5, <2>2, <2>3 DEF Asked, Copies
  <2> QED
    BY <2>3, <2>4, Names
<1> QED
  BY <1>6, <1>7
\* The rounds of a shallow program.
Rounds ==
  /\ round \in 0 .. 2
  /\ round = 0 => program = source
  /\ round = 1 => program = After(source)
  /\ round = 2 => program = After(After(source))

ShallowInv ==
  /\ IsSource /\ Faithful(source)
  /\ Shallow => verdict # "rejected" /\ (verdict = "running" => Rounds)

\* With three rounds or more (the code has 16), a program is accepted whose generic
\* functions call, besides themselves, only generic functions that pass on nothing of
\* the type they are given: `expand` in monomorphize.rs rejects no such program, though
\* it takes whatever the checker says after the first round for a type that grows.
THEOREM ShallowIsAccepted == ROUNDS > 2 => (Spec => []AcceptsShallow)
<1> SUFFICES ASSUME ROUNDS > 2 PROVE Spec => []AcceptsShallow
  OBVIOUS
<1>1. Init => ShallowInv
  <2> SUFFICES ASSUME Init PROVE ShallowInv
    OBVIOUS
  <2>1. IsSource /\ Faithful(source) /\ program = source /\ verdict = "running"
    BY FaithfulAtFirst
  <2>2. round = 0
    BY DEF Init
  <2> QED
    BY <2>1, <2>2 DEF ShallowInv, Rounds
<1>2. ShallowInv => AcceptsShallow
  BY DEF ShallowInv, AcceptsShallow
<1>3. ShallowInv /\ [Next]_vars => ShallowInv'
  <2> SUFFICES ASSUME ShallowInv, [Next]_vars PROVE ShallowInv'
    OBVIOUS
  <2>1. IsSource /\ Faithful(source) /\ (Shallow => verdict # "rejected" /\ (verdict = "running" => Rounds))
    BY DEF ShallowInv
  <2>2. UNCHANGED source
    BY DEF Next, Specialise, Settle, Reject, vars
  <2>3. IsSource' /\ Faithful(source)'
    <3>1. \A n : Body(n)' = Body(n)
      BY <2>2 DEF Body
    <3>2. \A n, i : Follow(source, n, i) => Follow(source, n, i)'
      BY <2>2, <3>1 DEF Follow
    <3> QED
      BY <2>1, <2>2, <3>1, <3>2, SaidLater DEF Faithful
  <2>4. SUFFICES ASSUME Shallow PROVE verdict' # "rejected" /\ (verdict' = "running" => Rounds')
    BY <2>2, <2>3 DEF ShallowInv, Shallow
  <2>5. After(source)' = After(source) /\ After(After(source))' = After(After(source))
    BY <2>2
  <2>6. verdict # "rejected" /\ (verdict = "running" => Rounds)
    BY <2>1, <2>4
  <2>7. WellTyped(source) /\ WellTyped(After(source))
    BY <2>1, FirstRound
  <2>8. WellTyped(After(After(source))) /\ Instantiations(After(After(source))) = {}
    BY <2>1, <2>4, SecondRound
  <2>9. CASE Specialise
    <3>1. /\ verdict = "running" /\ Instantiations(program) # {}
          /\ program' = After(program) /\ round' = round + 1
          /\ verdict' = "rejected" => round + 1 = ROUNDS
      BY <2>9 DEF Specialise, After
    <3>2. Rounds /\ round # 2
      BY <2>6, <2>8, <3>1 DEF Rounds
    <3>3. \/ round = 0 /\ program = source
          \/ round = 1 /\ program = After(source)
      BY <3>2 DEF Rounds
    <3>4. \/ round' = 1 /\ program' = After(source)
          \/ round' = 2 /\ program' = After(After(source))
      BY <3>1, <3>3
    <3>5. verdict' # "rejected"
      BY <3>1, <3>3
    <3>6. Rounds'
      <4>1. \/ round' = 1 /\ program' = After(source)'
            \/ round' = 2 /\ program' = After(After(source))'
        BY <2>5, <3>4
      <4> QED
        BY <4>1 DEF Rounds
    <3> QED
      BY <3>5, <3>6
  <2>10. CASE Settle
    BY <2>10 DEF Settle
  <2>11. CASE Reject
    <3>1. verdict = "running" /\ ~WellTyped(program)
      BY <2>11 DEF Reject
    <3>2. program = source \/ program = After(source) \/ program = After(After(source))
      BY <2>6, <3>1 DEF Rounds
    <3> QED
      BY <2>7, <2>8, <3>1, <3>2
  <2>12. CASE UNCHANGED vars
    <3>1. UNCHANGED <<source, program, round, verdict>>
      BY <2>12 DEF vars
    <3> QED
      BY <2>5, <2>6, <3>1 DEF Rounds
  <2> QED
    BY <2>9, <2>10, <2>11, <2>12 DEF Next
<1> QED
  BY <1>1, <1>2, <1>3, PTL DEF Spec
=============================================================================
