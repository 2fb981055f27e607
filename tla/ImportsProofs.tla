---------------------------- MODULE ImportsProofs ----------------------------
(***************************************************************************)
(* What holds of the driver for every project: resolve_imports nests no    *)
(* deeper than there are spellings, no command goes on with a program the  *)
(* checker would have rejected, and the list of statements that the files  *)
(* become has each statement once, none missing, and what a file imports   *)
(* before what follows the import, under the conditions the properties of  *)
(* Imports name.                                                           *)
(***************************************************************************)
EXTENDS Imports, FiniteSetTheorems, SequenceTheorems, TLAPS

(***************************************************************************)
(* The depth.  A call is entered with a spelling that was not visited, and *)
(* visits it; the calls that return only make the stack shorter.  What a   *)
(* frame holds does not matter, so the stack is a sequence over any set.   *)
(***************************************************************************)

IsSequence(s) == \E S : s \in Seq(S)

DepthInv ==
  /\ IsSequence(stack)
  /\ visited \subseteq Spellings
  /\ DepthBounded

\* The stacks that the actions make of a stack, and their lengths.
LEMMA StackLengths ==
  ASSUME NEW s, IsSequence(s), NEW x, NEW y
  PROVE  LET below == SubSeq(s, 1, Len(s) - 1) IN
         /\ IsSequence(Append(below, x))
         /\ IsSequence(Append(Append(below, x), y))
         /\ Len(s) \in Nat
         /\ Len(below) = IF Len(s) = 0 THEN 0 ELSE Len(s) - 1
         /\ Len(Append(below, x)) = Len(below) + 1
         /\ Len(Append(Append(below, x), y)) = Len(below) + 2
<1>1. PICK S : s \in Seq(S)
  BY DEF IsSequence
<1> DEFINE below == SubSeq(s, 1, Len(s) - 1)
           T == S \cup {x, y}
<1>2. /\ Len(s) \in Nat
      /\ \A i \in 1 .. Len(s) - 1 : s[i] \in T
  BY <1>1
<1>3. /\ below \in Seq(T)
      /\ Len(below) = IF Len(s) = 0 THEN 0 ELSE Len(s) - 1
  <2>1. /\ SubSeq(s, 1, Len(s) - 1) \in Seq(T)
        /\ Len(SubSeq(s, 1, Len(s) - 1)) = IF 1 <= Len(s) - 1 THEN Len(s) - 1 - 1 + 1 ELSE 0
    BY <1>2, SubSeqProperties
  <2> QED
    BY <1>2, <2>1
<1>4. x \in T /\ y \in T
  OBVIOUS
<1> HIDE DEF below, T
<1>5. /\ Append(below, x) \in Seq(T)
      /\ Len(Append(below, x)) = Len(below) + 1
  BY <1>3, <1>4, AppendProperties
<1>6. /\ Append(Append(below, x), y) \in Seq(T)
      /\ Len(Append(Append(below, x), y)) = Len(below) + 1 + 1
  BY <1>4, <1>5, AppendProperties
<1>7. Len(below) \in Nat
  BY <1>3, <1>2
<1> QED
  BY <1>2, <1>3, <1>5, <1>6, <1>7 DEF IsSequence, below

\* A spelling that was not visited makes one more.
LEMMA OneMore ==
  ASSUME visited \subseteq Spellings, NEW path \in Spellings, path \notin visited
  PROVE  /\ Cardinality(visited \cup {path}) = Cardinality(visited) + 1
         /\ Cardinality(visited) \in Nat
<1>1. IsFiniteSet(visited)
  BY ProjectAssumption, FS_Subset
<1> QED
  BY <1>1, FS_AddElement, FS_CardinalityType

\* The visited spellings can be counted.
LEMMA VisitedFinite ==
  ASSUME visited \subseteq Spellings
  PROVE  Cardinality(visited) \in Nat
BY ProjectAssumption, FS_Subset, FS_CardinalityType

LEMMA DepthInit == Init => DepthInv
<1> SUFFICES ASSUME Init PROVE DepthInv
  OBVIOUS
<1>1. stack \in Seq({}) /\ Len(stack) = 0
  BY DEF Init
<1>2. Cardinality(visited) = 0
  BY FS_EmptySet DEF Init
<1> QED
  BY <1>1, <1>2 DEF Init, DepthInv, IsSequence, DepthBounded

LEMMA DepthStep == DepthInv /\ [Next]_vars => DepthInv'
<1> SUFFICES ASSUME DepthInv, [Next]_vars PROVE DepthInv'
  OBVIOUS
<1> USE DEF DepthInv
<1>0. Cardinality(visited) \in Nat
  BY VisitedFinite
<1>1. ASSUME UNCHANGED <<visited, stack>> PROVE DepthInv'
  BY <1>1 DEF DepthBounded, IsSequence
<1>2. CASE ReadRoot
  <2>1. CASE UNCHANGED <<visited, stack>>
    BY <2>1, <1>1
  <2>2. CASE stack' = <<Frame(Root)>> /\ UNCHANGED visited
    <3>1. stack' \in Seq({Frame(Root)}) /\ Len(stack') = 1
      BY <2>2
    <3>2. Len(stack') <= Cardinality(visited') + 1
      BY <3>1, <2>2, <1>0
    <3> QED
      BY <3>1, <3>2, <2>2 DEF DepthBounded, IsSequence
  <2> QED
    BY <1>2, <2>1, <2>2 DEF ReadRoot, Stop
<1>3. ASSUME NEW frame, stack' = WithTop(frame), UNCHANGED visited PROVE DepthInv'
  <2>1. /\ IsSequence(stack')
        /\ Len(stack) \in Nat
        /\ Len(stack') = IF Len(stack) = 0 THEN 1 ELSE Len(stack)
    <3>1. IsSequence(stack)
      OBVIOUS
    <3> HIDE DEF DepthInv
    <3>2. /\ IsSequence(Append(Below, frame))
          /\ Len(stack) \in Nat
          /\ Len(Below) = IF Len(stack) = 0 THEN 0 ELSE Len(stack) - 1
          /\ Len(Append(Below, frame)) = Len(Below) + 1
      BY <3>1, StackLengths, Zenon DEF Below
    <3> QED
      BY <3>2, <1>3 DEF WithTop
  <2>2. Len(stack') <= Cardinality(visited') + 1
    BY <1>0, <1>3, <2>1 DEF DepthBounded
  <2> QED
    BY <1>3, <2>1, <2>2 DEF DepthBounded
<1>4. CASE Keep
  BY <1>4, <1>3 DEF Keep
<1>5. ASSUME NEW path \in Spellings, Skip(path) PROVE DepthInv'
  BY <1>5, <1>3 DEF Skip
<1>6. ASSUME NEW path \in Spellings, Enter(path) PROVE DepthInv'
  <2>1. stack' = Append(WithTop(Passed), Frame(Meant(Top.file, path))) /\ visited' = visited \cup {path}
    BY <1>6 DEF Enter
  <2>2. Cardinality(visited') = Cardinality(visited) + 1
    BY <1>6, <2>1, OneMore DEF Enter
  <2>3. IsSequence(stack') /\ Len(stack') <= IF Len(stack) = 0 THEN 2 ELSE Len(stack) + 1
    BY <2>1, StackLengths DEF WithTop, Below
  <2> QED
    BY <2>1, <2>2, <2>3, <1>0, StackLengths DEF DepthBounded
<1>7. ASSUME NEW path \in Spellings, Fail(path) PROVE DepthInv'
  BY <1>7, <1>1 DEF Fail, Stop
<1>8. CASE Return
  <2>1. IsSequence(Below) /\ Len(Below) <= Len(stack)
    <3>1. PICK S : stack \in Seq(S)
      BY DEF IsSequence
    <3>2. Len(stack) \in Nat /\ \A i \in 1 .. Len(stack) - 1 : stack[i] \in S
      BY <3>1
    <3>3. SubSeq(stack, 1, Len(stack) - 1) \in Seq(S)
      BY <3>2, SubSeqProperties
    <3>4. Len(Below) = IF Len(stack) = 0 THEN 0 ELSE Len(stack) - 1
      BY StackLengths DEF Below
    <3> QED
      BY <3>2, <3>3, <3>4 DEF Below, IsSequence
  <2>2. PICK frame : stack' = Append(SubSeq(Below, 1, Len(Below) - 1), frame)
    BY <1>8 DEF Return
  <2>3. IsSequence(stack') /\ Len(stack') <= IF Len(Below) = 0 THEN 1 ELSE Len(Below)
    <3>1. /\ IsSequence(Append(SubSeq(Below, 1, Len(Below) - 1), frame))
          /\ Len(Below) \in Nat
          /\ Len(SubSeq(Below, 1, Len(Below) - 1)) = IF Len(Below) = 0 THEN 0 ELSE Len(Below) - 1
          /\ Len(Append(SubSeq(Below, 1, Len(Below) - 1), frame)) = Len(SubSeq(Below, 1, Len(Below) - 1)) + 1
      BY <2>1, StackLengths, Zenon
    <3> QED
      BY <3>1, <2>2
  <2> QED
    BY <1>0, <1>8, <2>1, <2>3, StackLengths DEF Return, DepthBounded
<1>9. CASE Resolved
  <2>1. stack' \in Seq({}) /\ Len(stack') = 0 /\ UNCHANGED visited
    BY <1>9 DEF Resolved
  <2> QED
    BY <2>1, <1>0 DEF DepthBounded, IsSequence
<1>10. CASE Refuse \/ Accept \/ Expand \/ BackEnd \/ Report \/ EmitAst
  BY <1>10, <1>1 DEF Refuse, Accept, Expand, BackEnd, Report, EmitAst, Stop, Goes
<1>11. CASE UNCHANGED vars
  BY <1>11, <1>1 DEF vars
<1> QED
  BY <1>2, <1>4, <1>5, <1>6, <1>7, <1>8, <1>9, <1>10, <1>11 DEF Next

\* resolve_imports calls itself no deeper than there are spellings to visit
\* (main.rs:62-65), whatever the files are and however they import one another.
THEOREM DepthIsBounded == Spec => []DepthBounded
<1>1. DepthInv => DepthBounded
  BY DEF DepthInv
<1> QED
  BY <1>1, DepthInit, DepthStep, PTL DEF Spec

(***************************************************************************)
(* The commands.                                                           *)
(***************************************************************************)

NoneIll == \A i \in DOMAIN program : ~Ill(i)

LEMMA NoneIllKept == ASSUME UNCHANGED <<project, program>>, NoneIll PROVE NoneIll'
BY DEF NoneIll, Ill, File

LEMMA OnlyCheckedStep == OnlyChecked /\ [Next]_vars => OnlyChecked'
<1> SUFFICES ASSUME OnlyChecked, [Next]_vars PROVE OnlyChecked'
  OBVIOUS
<1>0. OnlyChecked <=> (stage \in {"checked", "expanded", "done"} /\ command # "emit-ast" => NoneIll)
  BY DEF OnlyChecked, NoneIll
<1>1. ASSUME stage' \notin {"checked", "expanded", "done"} PROVE OnlyChecked'
  BY <1>1 DEF OnlyChecked
<1>2. ASSUME UNCHANGED <<project, command, program>>,
             stage' \in {"checked", "expanded", "done"} => NoneIll \/ command = "emit-ast"
      PROVE  OnlyChecked'
  <2>1. CASE stage' \in {"checked", "expanded", "done"} /\ command # "emit-ast"
    <3>1. NoneIll'
      BY <1>2, <2>1, NoneIllKept
    <3> QED
      BY <3>1 DEF OnlyChecked, NoneIll
  <2>2. CASE ~(stage' \in {"checked", "expanded", "done"} /\ command # "emit-ast")
    BY <1>2, <2>2 DEF OnlyChecked
  <2> QED
    BY <2>1, <2>2
<1>3. CASE ReadRoot
  BY <1>3, <1>1 DEF ReadRoot, Stop
<1>4. CASE Keep \/ Return \/ \E path \in Spellings : Skip(path) \/ Enter(path)
  <2>1. stage' = "resolving"
    BY <1>4 DEF Keep, Return, Skip, Enter, Resolving, Importing
  <2> QED
    BY <2>1, <1>1
<1>5. CASE Resolved \/ \E path \in Spellings : Fail(path)
  <2>1. stage' \in {"resolved", "stopped"}
    BY <1>5 DEF Resolved, Fail, Stop
  <2> QED
    BY <2>1, <1>1
<1>6. CASE Refuse
  <2>1. stage' = "stopped"
    BY <1>6 DEF Refuse, Stop
  <2> QED
    BY <2>1, <1>1
<1>7. CASE Accept
  BY <1>7, <1>2 DEF Accept, Goes, NoneIll
<1>8. CASE Expand
  <2>1. CASE stage' = "stopped"
    BY <2>1, <1>1
  <2>2. CASE Goes("expanded")
    BY <1>8, <2>2, <1>0, <1>2 DEF Expand, Goes
  <2> QED
    BY <1>8, <2>1, <2>2 DEF Expand, Stop
<1>9. CASE BackEnd \/ Report
  BY <1>9, <1>0, <1>2 DEF BackEnd, Report, Goes
<1>10. CASE EmitAst
  BY <1>10, <1>2 DEF EmitAst, Goes
<1>11. CASE UNCHANGED vars
  BY <1>11, <1>0, <1>2 DEF vars
<1> QED
  BY <1>3, <1>4, <1>5, <1>6, <1>7, <1>8, <1>9, <1>10, <1>11 DEF Next

\* main.rs:85-87: no program runs, compiles or passes `check` that holds a
\* statement the checker refuses, wherever the statement was imported from.
THEOREM OnlyCheckedProgramsRun == Spec => []OnlyChecked
<1>1. Init => OnlyChecked
  BY DEF Init, OnlyChecked
<1> QED
  BY <1>1, OnlyCheckedStep, PTL DEF Spec

(***************************************************************************)
(* Types.  A frame counts its file's statements, one past the last at most. *)
(***************************************************************************)

IsFrame(f) ==
  /\ f = [file |-> f.file, at |-> f.at, out |-> f.out]
  /\ f.at \in 1 .. Len(File(f.file)) + 1

AllFrames(s) == IsSequence(s) /\ \A i \in DOMAIN s : IsFrame(s[i])

TypeInv ==
  /\ project \in Projects
  /\ AllFrames(stack)
  /\ TypeOK

LEMMA FileIsSequence == ASSUME project \in Projects, NEW place PROVE File(place) \in Seq(Statement)
<1>1. CASE place \in DOMAIN project
  BY <1>1, ProjectAssumption DEF File
<1>2. CASE place \notin DOMAIN project
  BY <1>2 DEF File, Unreadable, Statement
<1> QED
  BY <1>1, <1>2

\* The frames of a stack whose top was exchanged, and of one with a call more.
LEMMA StackFrames ==
  ASSUME NEW s, IsSequence(s), Len(s) # 0, NEW x, NEW y
  PROVE  LET t == Append(SubSeq(s, 1, Len(s) - 1), x) IN
         /\ Len(s) \in Nat /\ DOMAIN s = 1 .. Len(s)
         /\ DOMAIN t = 1 .. Len(s)
         /\ \A i \in 1 .. Len(s) : t[i] = IF i = Len(s) THEN x ELSE s[i]
         /\ DOMAIN Append(t, y) = 1 .. Len(s) + 1
         /\ \A i \in 1 .. Len(s) + 1 : Append(t, y)[i] = IF i = Len(s) + 1 THEN y ELSE t[i]
<1>1. PICK S : s \in Seq(S)
  BY DEF IsSequence
<1> DEFINE below == SubSeq(s, 1, Len(s) - 1)
           t == Append(below, x)
           T == S \cup {x, y}
<1>2. /\ Len(s) \in Nat /\ DOMAIN s = 1 .. Len(s)
      /\ \A i \in 1 .. Len(s) - 1 : s[i] \in T
  BY <1>1
<1>3. /\ below \in Seq(T)
      /\ Len(below) = Len(s) - 1
      /\ \A i \in 1 .. Len(s) - 1 : below[i] = s[i]
  <2>1. /\ SubSeq(s, 1, Len(s) - 1) \in Seq(T)
        /\ Len(SubSeq(s, 1, Len(s) - 1)) = IF 1 <= Len(s) - 1 THEN Len(s) - 1 - 1 + 1 ELSE 0
        /\ \A i \in 1 .. Len(s) - 1 - 1 + 1 : SubSeq(s, 1, Len(s) - 1)[i] = s[1 + i - 1]
    BY <1>2, SubSeqProperties
  <2> QED
    BY <1>2, <2>1
<1>4. x \in T /\ y \in T
  OBVIOUS
<1> HIDE DEF below, T
<1>5. /\ t \in Seq(T)
      /\ Len(t) = Len(s)
      /\ \A i \in 1 .. Len(s) - 1 : t[i] = s[i]
      /\ t[Len(s)] = x
  <2>1. /\ Append(below, x) \in Seq(T)
        /\ Len(Append(below, x)) = Len(below) + 1
        /\ \A i \in 1 .. Len(below) : Append(below, x)[i] = below[i]
        /\ Append(below, x)[Len(below) + 1] = x
    BY <1>3, <1>4, AppendProperties
  <2>2. Len(below) = Len(s) - 1 /\ Len(below) + 1 = Len(s)
    BY <1>2, <1>3
  <2> HIDE DEF t
  <2>3. t = Append(below, x)
    BY DEF t
  <2>4. t[Len(s)] = x
    BY <2>1, <2>2, <2>3
  <2> QED
    BY <1>3, <2>1, <2>2, <2>3, <2>4
<1> HIDE DEF t
<1>6. /\ Append(t, y) \in Seq(T)
      /\ Len(Append(t, y)) = Len(s) + 1
      /\ \A i \in 1 .. Len(s) : Append(t, y)[i] = t[i]
      /\ Append(t, y)[Len(s) + 1] = y
  BY <1>4, <1>5, AppendProperties
<1>7. DOMAIN t = 1 .. Len(s) /\ DOMAIN Append(t, y) = 1 .. Len(s) + 1
  BY <1>5, <1>6, <1>2
<1>8. /\ \A i \in 1 .. Len(s) : t[i] = IF i = Len(s) THEN x ELSE s[i]
      /\ \A i \in 1 .. Len(s) + 1 : Append(t, y)[i] = IF i = Len(s) + 1 THEN y ELSE t[i]
  <2>1. ASSUME NEW i \in 1 .. Len(s) PROVE i = Len(s) \/ i \in 1 .. Len(s) - 1
    <3>1. \A n \in Nat : \A k \in 1 .. n : k = n \/ k \in 1 .. n - 1
      OBVIOUS
    <3> QED
      BY <1>2, <3>1, Zenon
  <2>2. ASSUME NEW i \in 1 .. Len(s) + 1 PROVE i = Len(s) + 1 \/ i \in 1 .. Len(s)
    BY <1>2
  <2>3. \A i \in 1 .. Len(s) : t[i] = IF i = Len(s) THEN x ELSE s[i]
    BY <1>5, <2>1
  <2>4. \A i \in 1 .. Len(s) + 1 : Append(t, y)[i] = IF i = Len(s) + 1 THEN y ELSE t[i]
    BY <1>6, <2>2
  <2> QED
    BY <2>3, <2>4
<1> QED
  BY <1>2, <1>7, <1>8 DEF t, below

LEMMA FramesKept ==
  ASSUME NEW s, AllFrames(s), Len(s) # 0, NEW x, IsFrame(x), NEW y, IsFrame(y)
  PROVE  LET t == Append(SubSeq(s, 1, Len(s) - 1), x) IN
         /\ AllFrames(t) /\ t # <<>>
         /\ AllFrames(Append(t, y)) /\ Append(t, y) # <<>>
<1> DEFINE t == Append(SubSeq(s, 1, Len(s) - 1), x)
<1>1. IsSequence(s) /\ \A i \in DOMAIN s : IsFrame(s[i])
  BY DEF AllFrames
<1>2. IsSequence(t) /\ IsSequence(Append(t, y))
  BY <1>1, StackLengths
<1>3. /\ Len(s) \in Nat /\ DOMAIN s = 1 .. Len(s)
      /\ DOMAIN t = 1 .. Len(s)
      /\ \A i \in 1 .. Len(s) : t[i] = IF i = Len(s) THEN x ELSE s[i]
      /\ DOMAIN Append(t, y) = 1 .. Len(s) + 1
      /\ \A i \in 1 .. Len(s) + 1 : Append(t, y)[i] = IF i = Len(s) + 1 THEN y ELSE t[i]
  BY <1>1, StackFrames
<1> HIDE DEF t
<1>4. \A i \in DOMAIN t : IsFrame(t[i])
  BY <1>1, <1>3
<1>5. \A n \in Nat : \A k \in 1 .. n + 1 : k = n + 1 \/ k \in 1 .. n
  OBVIOUS
<1>6. \A i \in DOMAIN Append(t, y) : IsFrame(Append(t, y)[i])
  BY <1>3, <1>4, <1>5
<1>7. \A n \in Nat : n # 0 => 1 \in 1 .. n /\ 1 \in 1 .. n + 1
  OBVIOUS
<1>8. t # <<>> /\ Append(t, y) # <<>>
  <2>1. DOMAIN t # {} /\ DOMAIN Append(t, y) # {}
    BY <1>3, <1>7
  <2>2. DOMAIN <<>> = {}
    OBVIOUS
  <2> QED
    BY <2>1, <2>2
<1> QED
  BY <1>2, <1>4, <1>6, <1>8 DEF AllFrames, t

\* The frame of an entered file, and the calling frame as it goes on.
LEMMA FramesMade ==
  ASSUME TypeInv, stage = "resolving"
  PROVE  /\ Len(stack) # 0 /\ Len(stack) \in Nat
         /\ IsFrame(Top)
         /\ \A place : IsFrame(Frame(place))
         /\ ~AtEnd => IsFrame(Passed) /\ \A out : IsFrame([Passed EXCEPT !.out = out])
<1> USE DEF TypeInv
<1>1. stack # <<>>
  BY DEF TypeOK
<1>2. PICK S : stack \in Seq(S)
  BY DEF AllFrames, IsSequence
<1>3. Len(stack) # 0 /\ Len(stack) \in Nat /\ Len(stack) \in DOMAIN stack
  BY <1>1, <1>2
<1>4. IsFrame(Top)
  BY <1>3 DEF AllFrames, Top
<1>5. \A place : Len(File(place)) \in Nat
  BY FileIsSequence
<1>6. \A place : IsFrame(Frame(place))
  BY <1>5 DEF IsFrame, Frame
<1>7. ASSUME ~AtEnd PROVE IsFrame(Passed) /\ \A out : IsFrame([Passed EXCEPT !.out = out])
  <2>1. Top.at + 1 \in 1 .. Len(File(Top.file)) + 1
    BY <1>4, <1>5, <1>7 DEF IsFrame, AtEnd
  <2>2. Passed = [file |-> Top.file, at |-> Top.at + 1, out |-> Top.out]
    BY <1>4 DEF Passed, IsFrame
  <2>3. \A out : [Passed EXCEPT !.out = out] = [file |-> Top.file, at |-> Top.at + 1, out |-> out]
    BY <2>2
  <2> QED
    BY <2>1, <2>2, <2>3 DEF IsFrame
<1> QED
  BY <1>3, <1>4, <1>6, <1>7

LEMMA TypeStep == TypeInv /\ [Next]_vars => TypeInv'
<1> SUFFICES ASSUME TypeInv, [Next]_vars PROVE TypeInv'
  OBVIOUS
<1>0. /\ project \in Projects /\ command \in Commands /\ visited \subseteq Spellings
      /\ AllFrames(stack) /\ stage \in Stages
      /\ stage = "resolving" <=> stack # <<>> /\ stage # "stopped"
  BY DEF TypeInv, TypeOK
<1>1. ASSUME UNCHANGED <<project, command>>, visited' \subseteq Spellings, stage' \in Stages, AllFrames(stack'),
             stage' = "resolving" <=> stack' # <<>> /\ stage' # "stopped"
      PROVE  TypeInv'
  BY <1>0, <1>1 DEF TypeInv, TypeOK, AllFrames, IsFrame, IsSequence, File
<1>2. ASSUME Stop(Root, Root) \/ \E about, shown : Stop(shown, about) PROVE TypeInv'
  BY <1>0, <1>1, <1>2 DEF Stop, Stages
<1>3. ASSUME NEW to \in Stages, Goes(to), stack = <<>>, to # "resolving" PROVE TypeInv'
  BY <1>0, <1>1, <1>3 DEF Goes
<1>4. ASSUME stage \notin {"resolving", "stopped"} PROVE stack = <<>>
  BY <1>0, <1>4
<1>5. CASE ReadRoot
  <2>1. CASE Stop(Root, Root)
    BY <2>1, <1>2
  <2>2. CASE /\ stage' = "resolving" /\ stack' = <<Frame(Root)>>
             /\ UNCHANGED <<project, command, visited, program, report>>
    <3>1. IsFrame(Frame(Root))
      <4>1. Len(File(Root)) \in Nat
        BY <1>0, FileIsSequence
      <4> QED
        BY <4>1 DEF IsFrame, Frame
    <3>2. stack' \in Seq({Frame(Root)}) /\ DOMAIN stack' = {1} /\ stack'[1] = Frame(Root) /\ stack' # <<>>
      BY <2>2
    <3>3. AllFrames(stack')
      BY <3>1, <3>2 DEF AllFrames, IsSequence
    <3> QED
      BY <1>0, <1>1, <2>2, <3>2, <3>3 DEF Stages
  <2> QED
    BY <1>5, <2>1, <2>2 DEF ReadRoot
<1>6. ASSUME NEW x, IsFrame(x), stage = "resolving",
             stack' = WithTop(x) \/ \E place : stack' = Append(WithTop(x), Frame(place)),
             UNCHANGED <<project, command, stage>>, visited' \subseteq Spellings
      PROVE  TypeInv'
  <2>1. AllFrames(stack') /\ stack' # <<>>
    <3>1. \A place : IsFrame(Frame(place))
      BY <1>6, FramesMade
    <3>2. Len(stack) # 0
      BY <1>6, FramesMade
    <3>3. \A place : /\ AllFrames(WithTop(x)) /\ WithTop(x) # <<>>
                     /\ AllFrames(Append(WithTop(x), Frame(place))) /\ Append(WithTop(x), Frame(place)) # <<>>
      BY <1>0, <1>6, <3>1, <3>2, FramesKept DEF WithTop, Below
    <3> QED
      BY <3>3, <1>6
  <2> QED
    BY <2>1, <1>0, <1>1, <1>6
<1>7. CASE Keep
  BY <1>7, <1>0, <1>6, FramesMade DEF Keep, Resolving
<1>8. ASSUME NEW path \in Spellings, Skip(path) PROVE TypeInv'
  BY <1>8, <1>0, <1>6, FramesMade DEF Skip, Importing, Resolving
<1>9. ASSUME NEW path \in Spellings, Enter(path) PROVE TypeInv'
  BY <1>9, <1>0, <1>6, FramesMade DEF Enter, Importing, Resolving
<1>10. ASSUME NEW path \in Spellings, Fail(path) PROVE TypeInv'
  BY <1>10, <1>2 DEF Fail
<1>11. CASE Return
  <2>1. /\ stage = "resolving" /\ Len(stack) > 1
        /\ stack' = Append(SubSeq(Below, 1, Len(Below) - 1), Spliced(Below[Len(Below)], Top))
        /\ UNCHANGED <<project, command, stage, visited>>
    BY <1>11 DEF Return
  <2>2. AllFrames(Below) /\ Len(Below) \in Nat /\ Len(Below) # 0 /\ Len(Below) \in DOMAIN Below
    <3>1. PICK S : stack \in Seq(S)
      BY <1>0 DEF AllFrames, IsSequence
    <3>2. /\ Len(stack) \in Nat /\ DOMAIN stack = 1 .. Len(stack)
          /\ \A i \in 1 .. Len(stack) - 1 : stack[i] \in S
      BY <3>1
    <3>3. /\ Below \in Seq(S)
          /\ Len(Below) = Len(stack) - 1
          /\ \A i \in 1 .. Len(stack) - 1 : Below[i] = stack[i]
      <4>1. /\ SubSeq(stack, 1, Len(stack) - 1) \in Seq(S)
            /\ Len(SubSeq(stack, 1, Len(stack) - 1)) = IF 1 <= Len(stack) - 1 THEN Len(stack) - 1 - 1 + 1 ELSE 0
            /\ \A i \in 1 .. Len(stack) - 1 - 1 + 1 : SubSeq(stack, 1, Len(stack) - 1)[i] = stack[1 + i - 1]
        BY <3>2, SubSeqProperties
      <4> QED
        BY <2>1, <3>2, <4>1 DEF Below
    <3>4. DOMAIN Below = 1 .. Len(stack) - 1
      BY <2>1, <3>2, <3>3
    <3>5. \A i \in DOMAIN Below : i \in DOMAIN stack /\ Below[i] = stack[i]
      BY <3>2, <3>3, <3>4
    <3>6. AllFrames(Below)
      BY <1>0, <3>3, <3>5 DEF AllFrames, IsSequence
    <3> QED
      BY <2>1, <3>2, <3>3, <3>4, <3>6
  <2>3. IsFrame(Spliced(Below[Len(Below)], Top))
    <3>1. IsFrame(Below[Len(Below)])
      BY <2>2 DEF AllFrames
    <3>2. ASSUME NEW caller, IsFrame(caller), NEW out PROVE IsFrame([caller EXCEPT !.out = out])
      <4>1. caller = [file |-> caller.file, at |-> caller.at, out |-> caller.out]
        BY <3>2 DEF IsFrame
      <4>2. [caller EXCEPT !.out = out] = [file |-> caller.file, at |-> caller.at, out |-> out]
        BY <4>1
      <4> QED
        BY <3>2, <4>2 DEF IsFrame
    <3> QED
      BY <3>1, <3>2 DEF Spliced
  <2>4. AllFrames(stack') /\ stack' # <<>>
    BY <2>1, <2>2, <2>3, FramesKept
  <2> QED
    BY <1>0, <1>1, <2>1, <2>4
<1>12. CASE Resolved
  <2>1. AllFrames(<<>>)
    <3>1. <<>> \in Seq({}) /\ DOMAIN <<>> = {}
      OBVIOUS
    <3> QED
      BY <3>1 DEF AllFrames, IsSequence
  <2> QED
    BY <1>12, <2>1, <1>0, <1>1 DEF Resolved, Stages
<1>13. CASE Refuse
  BY <1>13, <1>2 DEF Refuse
<1>14. CASE Accept \/ BackEnd \/ Report \/ EmitAst
  BY <1>14, <1>3, <1>4 DEF Accept, BackEnd, Report, EmitAst, Stages
<1>15. CASE Expand
  BY <1>15, <1>2, <1>3, <1>4 DEF Expand, Stages
<1>16. CASE UNCHANGED vars
  BY <1>16, <1>0, <1>1 DEF vars
<1> QED
  BY <1>5, <1>7, <1>8, <1>9, <1>10, <1>11, <1>12, <1>13, <1>14, <1>15, <1>16 DEF Next

\* The type invariant holds at the start.
LEMMA TypeInit == Init => TypeInv
<1> SUFFICES ASSUME Init PROVE TypeInv
  OBVIOUS
<1>1. stack \in Seq({}) /\ DOMAIN stack = {}
  BY DEF Init
<1> QED
  BY <1>1 DEF Init, TypeInv, TypeOK, AllFrames, IsSequence, Stages


\* The driver goes through its stages with the calls it has open, and no call
\* reads past the statements of its file.
THEOREM ImportsTypes == Spec => []TypeOK
<1>1. TypeInv => TypeOK
  BY DEF TypeInv
<1> QED
  BY <1>1, TypeInit, TypeStep, PTL DEF Spec

(***************************************************************************)
(* What is taken, and in what order.  The invariants are of the calls open *)
(* and the spellings visited while the imports are resolved, s and v.      *)
(***************************************************************************)

\* What the imports of a project mean does not change while they are resolved.
LEMMA MeaningKept ==
  ASSUME UNCHANGED project
  PROVE  /\ \A f : File(f)' = File(f)
         /\ \A f : Imported(f)' = Imported(f)
         /\ \A f, g : Before(f, g)' = Before(f, g)
         /\ Places' = Places /\ Reached' = Reached /\ Edges' = Edges
         /\ OneSpelling' = OneSpelling /\ OneMeaning' = OneMeaning /\ Acyclic' = Acyclic
<1>1. \A f : File(f)' = File(f)
  BY DEF File
<1>2. \A f : ImportsOf(f)' = ImportsOf(f)
  BY <1>1 DEF ImportsOf
<1>3. Places' = Places
  BY DEF Places
<1>4. \A f : Imported(f)' = Imported(f)
  BY <1>2, <1>3 DEF Imported
<1>5. \A S : Closed(S)' = Closed(S)
  BY <1>4 DEF Closed
<1>6. \A S : Closure(S)' = Closure(S)
  BY <1>3, <1>5 DEF Closure
<1>7. Reached' = Reached
  BY <1>6 DEF Reached
<1>8. Edges' = Edges
  BY <1>2, <1>7 DEF Edges
<1>9. \A f, g : Before(f, g)' = Before(f, g)
  BY <1>4, <1>6 DEF Before
<1>10. OneSpelling' = OneSpelling /\ OneMeaning' = OneMeaning
  BY <1>8 DEF OneSpelling, OneMeaning
<1>11. Acyclic' = Acyclic
  BY <1>7, <1>9 DEF Acyclic
<1> QED
  BY <1>1, <1>3, <1>4, <1>7, <1>8, <1>9, <1>10, <1>11

\* What a set of files leads to has the set, is closed, and is in every closed set
\* that has it.
LEMMA ClosureFacts ==
  ASSUME NEW from \in SUBSET Places
  PROVE  /\ from \subseteq Closure(from) /\ Closure(from) \subseteq Places
         /\ Closed(Closure(from))
         /\ \A S \in SUBSET Places : from \subseteq S /\ Closed(S) => Closure(from) \subseteq S
<1>1. from \subseteq Closure(from) /\ Closure(from) \subseteq Places
  BY DEF Closure
<1>2. \A S \in SUBSET Places : from \subseteq S /\ Closed(S) => Closure(from) \subseteq S
  BY DEF Closure
<1>3. Closed(Closure(from))
  <2> SUFFICES ASSUME NEW f \in Closure(from), NEW g \in Imported(f)
               PROVE  g \in Closure(from)
    BY DEF Closed
  <2>1. g \in Places
    BY DEF Imported
  <2>2. ASSUME NEW S \in SUBSET Places, from \subseteq S, Closed(S)
        PROVE  g \in S
    <3>1. f \in S
      BY <2>2 DEF Closure
    <3> QED
      BY <2>2, <3>1 DEF Closed
  <2> QED
    BY <2>1, <2>2 DEF Closure
<1> QED
  BY <1>1, <1>2, <1>3

\* What a file imports is among the files there are.
LEMMA ImportedPlaces == \A f : Imported(f) \in SUBSET Places
BY DEF Imported

\* What a file imports comes before it does, and so does all that is before that.
LEMMA BeforeFacts ==
  /\ \A f : \A g \in Imported(f) : Before(f, g)
  /\ \A f, g : \A h \in Imported(g) : Before(f, g) => Before(f, h)
  /\ \A f, g, h : g \in Imported(f) /\ Before(g, h) => Before(f, h)
  /\ Root \in Reached /\ Reached \subseteq Places
  /\ \A f \in Reached : \A g \in Imported(f) : g \in Reached
<1>1. \A f : \A g \in Imported(f) : Before(f, g)
  BY ImportedPlaces, ClosureFacts DEF Before
<1>2. ASSUME NEW f, NEW g, Before(f, g), NEW h \in Imported(g)
      PROVE  Before(f, h)
  BY <1>2, ImportedPlaces, ClosureFacts DEF Before, Closed
<1>3. ASSUME NEW f, NEW g \in Imported(f), NEW h, Before(g, h)
      PROVE  Before(f, h)
  <2>1. /\ Closure(Imported(f)) \in SUBSET Places /\ Closed(Closure(Imported(f)))
        /\ Imported(f) \subseteq Closure(Imported(f))
    BY ImportedPlaces, ClosureFacts
  <2>2. Imported(g) \subseteq Closure(Imported(f))
    BY <2>1 DEF Closed
  <2>3. Closure(Imported(g)) \subseteq Closure(Imported(f))
    BY <2>1, <2>2, ImportedPlaces, ClosureFacts
  <2> QED
    BY <1>3, <2>3 DEF Before
<1>4. {Root} \in SUBSET Places
  BY DEF Places
<1>5. Root \in Reached /\ Reached \subseteq Places /\ Closed(Reached)
  BY <1>4, ClosureFacts DEF Reached
<1> QED
  BY <1>1, <1>2, <1>3, <1>5 DEF Closed

\* A statement that is an import names a spelling, and there is an edge for it.
LEMMA ImportFacts ==
  ASSUME project \in Projects, NEW f, NEW k \in DOMAIN File(f), File(f)[k][1] = "import"
  PROVE  LET p == File(f)[k][2] IN
         /\ File(f)[k] = <<"import", p>> /\ p \in Spellings
         /\ f \in Reached => <<p, Meant(f, p)>> \in Edges
         /\ Meant(f, p) \in Places => Meant(f, p) \in Imported(f)
<1> DEFINE x == File(f)[k]
           p == x[2]
<1>1. x \in Statement
  BY FileIsSequence
<1>2. \/ x = <<"fine">> \/ x = <<"ill">> \/ x = <<"unreadable">> \/ x = <<"garbled">>
      \/ \E q \in Spellings : x = <<"import", q>>
  BY <1>1 DEF Statement
<1> HIDE DEF x
<1>3. x[1] = "import"
  BY DEF x
<1>4. \E q \in Spellings : x = <<"import", q>>
  BY <1>2, <1>3
<1>5. x = <<"import", p>> /\ p \in Spellings
  BY <1>4
<1>6. <<p, Meant(f, p)>> \in ImportsOf(f)
  BY <1>5 DEF ImportsOf, x
<1>7. f \in Reached => <<p, Meant(f, p)>> \in Edges
  BY <1>6 DEF Edges
<1>8. Meant(f, p) \in {i[2] : i \in ImportsOf(f)}
  BY <1>6
<1>9. Meant(f, p) \in Places => Meant(f, p) \in Imported(f)
  BY <1>8 DEF Imported
<1> QED
  BY <1>5, <1>7, <1>9 DEF x

\* The four things that happen to the calls s, a statement at a time: what becomes
\* of every frame.
KeepMove(s, t) ==
  LET n == Len(s)
      k == s[n].at
      f == s[n].file
  IN /\ k \in DOMAIN File(f) /\ File(f)[k][1] # "import"
     /\ DOMAIN t = 1 .. n /\ \A i \in 1 .. n - 1 : t[i] = s[i]
     /\ t[n].file = f /\ t[n].at = k + 1 /\ t[n].out = Append(s[n].out, <<f, k>>)

SkipMove(s, t, path) ==
  LET n == Len(s)
      k == s[n].at
      f == s[n].file
  IN /\ k \in DOMAIN File(f) /\ File(f)[k] = <<"import", path>>
     /\ DOMAIN t = 1 .. n /\ \A i \in 1 .. n - 1 : t[i] = s[i]
     /\ t[n].file = f /\ t[n].at = k + 1 /\ t[n].out = s[n].out

EnterMove(s, t, path) ==
  LET n == Len(s)
      k == s[n].at
      f == s[n].file
      g == Meant(f, path)
  IN /\ k \in DOMAIN File(f) /\ File(f)[k] = <<"import", path>> /\ g \in Places
     /\ DOMAIN t = 1 .. n + 1 /\ \A i \in 1 .. n - 1 : t[i] = s[i]
     /\ t[n].file = f /\ t[n].at = k + 1 /\ t[n].out = s[n].out
     /\ t[n + 1].file = g /\ t[n + 1].at = 1 /\ t[n + 1].out = <<>>

ReturnMove(s, t) ==
  LET n == Len(s)
  IN /\ n > 1 /\ DOMAIN File(s[n].file) = 1 .. s[n].at - 1
     /\ DOMAIN t = 1 .. n - 1 /\ \A i \in 1 .. n - 2 : t[i] = s[i]
     /\ t[n - 1].file = s[n - 1].file /\ t[n - 1].at = s[n - 1].at
     /\ t[n - 1].out = s[n - 1].out \o s[n].out

Calls(s) ==
  /\ Len(s) \in Nat \ {0} /\ DOMAIN s = 1 .. Len(s)
  /\ \A i \in DOMAIN s : IsFrame(s[i])

\* While imports are resolved there is a call, at a statement or at its end.
LEMMA CallsOpen ==
  ASSUME TypeInv, stage = "resolving"
  PROVE  /\ Calls(stack) /\ IsSequence(stack) /\ Len(stack) # 0
         /\ Top = stack[Len(stack)] /\ Len(stack) \in DOMAIN stack
         /\ Top.at \in Nat /\ DOMAIN File(Top.file) = 1 .. Len(File(Top.file))
         /\ Len(File(Top.file)) \in Nat
         /\ ~AtEnd => Top.at \in DOMAIN File(Top.file)
         /\ AtEnd => DOMAIN File(Top.file) = 1 .. Top.at - 1
<1>1. AllFrames(stack) /\ stack # <<>> /\ project \in Projects
  BY DEF TypeInv, TypeOK
<1>2. PICK S : stack \in Seq(S)
  BY <1>1 DEF AllFrames, IsSequence
<1>3. /\ Len(stack) \in Nat \ {0} /\ DOMAIN stack = 1 .. Len(stack) /\ Len(stack) \in 1 .. Len(stack)
      /\ Top = stack[Len(stack)]
  BY <1>1, <1>2 DEF Top
<1>4. IsFrame(Top)
  BY <1>1, <1>3 DEF AllFrames
<1>5. Len(File(Top.file)) \in Nat /\ DOMAIN File(Top.file) = 1 .. Len(File(Top.file))
  <2>1. File(Top.file) \in Seq(Statement)
    BY <1>1, FileIsSequence
  <2> QED
    BY <2>1
<1>6. Top.at \in 1 .. Len(File(Top.file)) + 1
  BY <1>4 DEF IsFrame
<1>7. ~AtEnd => Top.at \in 1 .. Len(File(Top.file))
  BY <1>5, <1>6 DEF AtEnd
<1>8. AtEnd => Top.at - 1 = Len(File(Top.file))
  BY <1>5, <1>6 DEF AtEnd
<1> QED
  BY <1>1, <1>3, <1>5, <1>6, <1>7, <1>8 DEF Calls, AllFrames

\* The calls with another frame on top, and with one more.
LEMMA TopExchanged ==
  ASSUME TypeInv, stage = "resolving", NEW x, NEW t, t = WithTop(x)
  PROVE  /\ DOMAIN t = 1 .. Len(stack) /\ t[Len(stack)] = x
         /\ \A i \in 1 .. Len(stack) - 1 : t[i] = stack[i]
<1> DEFINE n == Len(stack)
<1>1. n \in Nat \ {0} /\ n = Len(stack)
  BY CallsOpen DEF Calls
<1>2. /\ DOMAIN t = 1 .. n
      /\ \A i \in 1 .. n : t[i] = IF i = n THEN x ELSE stack[i]
  BY CallsOpen, StackFrames DEF WithTop, Below
<1> HIDE DEF n
<1>3. n \in 1 .. n /\ \A i \in 1 .. n - 1 : i \in 1 .. n /\ i # n
  BY <1>1
<1> QED
  BY <1>1, <1>2, <1>3

WithCall(frame, callee) == Append(WithTop(frame), callee)

\* The calls with another frame on top and one more above it.
LEMMA OneMoreCall ==
  ASSUME TypeInv, stage = "resolving", NEW x, NEW y, NEW t, t = WithCall(x, y)
  PROVE  /\ DOMAIN t = 1 .. Len(stack) + 1 /\ t[Len(stack)] = x /\ t[Len(stack) + 1] = y
         /\ \A i \in 1 .. Len(stack) - 1 : t[i] = stack[i]
<1> DEFINE n == Len(stack)
           u == WithTop(x)
<1>1. n \in Nat \ {0} /\ n = Len(stack)
  BY CallsOpen DEF Calls
<1>2. /\ \A i \in 1 .. n : u[i] = IF i = n THEN x ELSE stack[i]
      /\ DOMAIN t = 1 .. n + 1
      /\ \A i \in 1 .. n + 1 : t[i] = IF i = n + 1 THEN y ELSE u[i]
  BY CallsOpen, StackFrames DEF WithCall, WithTop, Below
<1> HIDE DEF n, u
<1>3. n \in 1 .. n /\ n \in 1 .. n + 1 /\ n + 1 \in 1 .. n + 1 /\ n # n + 1
  BY <1>1
<1>4. \A i \in 1 .. n - 1 : i \in 1 .. n /\ i \in 1 .. n + 1 /\ i # n /\ i # n + 1
  BY <1>1
<1> QED
  BY <1>1, <1>2, <1>3, <1>4

\* A step of resolve_imports is one of the four.
LEMMA Moves ==
  ASSUME TypeInv, stage = "resolving", [Next]_vars, stage' = "resolving"
  PROVE  /\ UNCHANGED project
         /\ \/ UNCHANGED <<stack, visited>>
            \/ KeepMove(stack, stack') /\ UNCHANGED visited
            \/ \E path \in visited : SkipMove(stack, stack', path) /\ UNCHANGED visited
            \/ \E path \in Spellings \ visited :
                 EnterMove(stack, stack', path) /\ visited' = visited \cup {path}
            \/ ReturnMove(stack, stack') /\ UNCHANGED visited
<1> DEFINE n == Len(stack)
<1>1. /\ Calls(stack) /\ IsSequence(stack) /\ Top = stack[n] /\ n \in DOMAIN stack /\ n \in Nat \ {0}
      /\ DOMAIN stack = 1 .. n
  BY CallsOpen DEF Calls
<1>2. /\ Passed = [file |-> Top.file, at |-> Top.at + 1, out |-> Top.out]
      /\ Passed.file = Top.file /\ Passed.at = Top.at + 1 /\ Passed.out = Top.out
  <2>1. Top = [file |-> Top.file, at |-> Top.at, out |-> Top.out]
    BY <1>1 DEF Calls, IsFrame
  <2>2. Passed = [file |-> Top.file, at |-> Top.at + 1, out |-> Top.out]
    BY <2>1 DEF Passed
  <2> QED
    BY <2>2
<1>3. CASE Keep
  <2> DEFINE x == [Passed EXCEPT !.out = Append(@, <<Top.file, Top.at>>)]
  <2>1. x.file = Top.file /\ x.at = Top.at + 1 /\ x.out = Append(Top.out, <<Top.file, Top.at>>)
    <3> DEFINE e == Append(Top.out, <<Top.file, Top.at>>)
    <3>0. x = [Passed EXCEPT !.out = e]
      BY <1>2
    <3> HIDE DEF x, e
    <3>1. x = [file |-> Top.file, at |-> Top.at + 1, out |-> e]
      BY <1>2, <3>0
    <3>2. e = Append(Top.out, <<Top.file, Top.at>>)
      BY DEF e
    <3> QED
      BY <3>1, <3>2
  <2>2. /\ ~AtEnd /\ Current[1] # "import" /\ stack' = WithTop(x)
        /\ UNCHANGED <<project, visited>>
    BY <1>3 DEF Keep, Resolving
  <2> HIDE DEF x
  <2>3. DOMAIN stack' = 1 .. n /\ stack'[n] = x /\ \A i \in 1 .. n - 1 : stack'[i] = stack[i]
    BY <2>2, TopExchanged
  <2>4. KeepMove(stack, stack')
    BY <1>1, <2>1, <2>2, <2>3, CallsOpen DEF KeepMove, Current
  <2> QED
    BY <2>2, <2>4
<1>4. ASSUME NEW path \in Spellings, Skip(path)
      PROVE  /\ UNCHANGED <<project, visited>> /\ path \in visited
             /\ SkipMove(stack, stack', path)
  <2>1. /\ ~AtEnd /\ Current = <<"import", path>> /\ stack' = WithTop(Passed) /\ path \in visited
        /\ UNCHANGED <<project, visited>>
    BY <1>4 DEF Skip, Importing, Resolving
  <2>2. DOMAIN stack' = 1 .. n /\ stack'[n] = Passed /\ \A i \in 1 .. n - 1 : stack'[i] = stack[i]
    BY <2>1, TopExchanged
  <2> QED
    BY <1>1, <1>2, <2>1, <2>2, CallsOpen DEF SkipMove, Current
<1>5. ASSUME NEW path \in Spellings, Enter(path)
      PROVE  /\ UNCHANGED project /\ path \notin visited /\ visited' = visited \cup {path}
             /\ EnterMove(stack, stack', path)
  <2> DEFINE g == Meant(Top.file, path)
             opened == Frame(g)
  <2>1. /\ ~AtEnd /\ Current = <<"import", path>> /\ path \notin visited
        /\ stack' = WithCall(Passed, opened)
        /\ UNCHANGED project /\ visited' = visited \cup {path} /\ File(g) # Unreadable
    BY <1>5 DEF Enter, Importing, Resolving, WithCall
  <2>2. opened.file = g /\ opened.at = 1 /\ opened.out = <<>>
    BY DEF Frame
  <2>3. g \in Places
    BY <2>1 DEF File, Places
  <2> HIDE DEF opened
  <2>4. /\ DOMAIN stack' = 1 .. n + 1
        /\ \A i \in 1 .. n - 1 : stack'[i] = stack[i]
        /\ stack'[n] = Passed /\ stack'[n + 1] = opened
    BY <2>1, OneMoreCall
  <2> QED
    BY <1>1, <1>2, <2>1, <2>2, <2>3, <2>4, CallsOpen DEF EnterMove, Current
<1>6. CASE Return
  <2> DEFINE x == Spliced(Below[Len(Below)], Top)
             m == n - 1
  <2>1. /\ AtEnd /\ n > 1 /\ stack' = Append(SubSeq(Below, 1, Len(Below) - 1), x)
        /\ UNCHANGED <<project, visited>>
    BY <1>6 DEF Return
  <2>2. /\ m \in Nat \ {0} /\ Len(Below) = m /\ IsSequence(Below)
        /\ \A i \in 1 .. m : Below[i] = stack[i]
    <3>1. PICK S : stack \in Seq(S)
      BY <1>1 DEF IsSequence
    <3>2. \A i \in 1 .. n - 1 : stack[i] \in S
      BY <1>1, <3>1
    <3>3. /\ SubSeq(stack, 1, n - 1) \in Seq(S)
          /\ Len(SubSeq(stack, 1, n - 1)) = IF 1 <= n - 1 THEN n - 1 - 1 + 1 ELSE 0
          /\ \A i \in 1 .. n - 1 - 1 + 1 : SubSeq(stack, 1, n - 1)[i] = stack[1 + i - 1]
      BY <1>1, <3>2, SubSeqProperties
    <3>4. Below = SubSeq(stack, 1, n - 1)
      BY DEF Below
    <3> HIDE DEF n
    <3>5. n - 1 - 1 + 1 = n - 1 /\ 1 <= n - 1 /\ n - 1 \in Nat \ {0} /\ \A i \in 1 .. n - 1 : 1 + i - 1 = i
      BY <1>1, <2>1
    <3> QED
      BY <3>3, <3>4, <3>5 DEF IsSequence
  <2> HIDE DEF m
  <2>3. LET t == Append(SubSeq(Below, 1, Len(Below) - 1), x) IN
        /\ DOMAIN t = 1 .. m /\ \A i \in 1 .. m : t[i] = IF i = m THEN x ELSE Below[i]
    BY <2>2, StackFrames
  <2>4. m \in 1 .. m /\ m \in DOMAIN stack /\ \A i \in 1 .. m - 1 : i \in 1 .. m /\ i # m
    <3>1. m = n - 1
      BY DEF m
    <3> HIDE DEF n
    <3> QED
      BY <1>1, <2>2, <3>1
  <2>5. x.file = stack[m].file /\ x.at = stack[m].at /\ x.out = stack[m].out \o Top.out
    <3>1. Below[Len(Below)] = stack[m]
      BY <2>2, <2>4
    <3>2. stack[m] = [file |-> stack[m].file, at |-> stack[m].at, out |-> stack[m].out]
      BY <1>1, <2>4 DEF Calls, IsFrame
    <3>3. x = [stack[m] EXCEPT !.out = stack[m].out \o Top.out]
      BY <3>1 DEF Spliced
    <3> HIDE DEF x
    <3>4. x = [file |-> stack[m].file, at |-> stack[m].at, out |-> stack[m].out \o Top.out]
      BY <3>2, <3>3
    <3> QED
      BY <3>4
  <2> HIDE DEF x
  <2>6. /\ DOMAIN stack' = 1 .. m /\ (\A i \in 1 .. m - 1 : stack'[i] = stack[i]) /\ stack'[m] = x
    BY <2>1, <2>2, <2>3, <2>4
  <2>7. m = n - 1 /\ m - 1 = n - 2
    <3>1. m = n - 1
      BY DEF m
    <3> HIDE DEF n
    <3> QED
      BY <1>1, <3>1
  <2>8. DOMAIN File(Top.file) = 1 .. Top.at - 1
    BY <2>1, CallsOpen
  <2>9. ReturnMove(stack, stack')
    BY <1>1, <2>1, <2>5, <2>6, <2>7, <2>8 DEF ReturnMove
  <2> QED
    BY <2>1, <2>9
<1>7. CASE UNCHANGED vars
  BY <1>7 DEF vars
<1>8. CASE ReadRoot \/ Resolved \/ (\E path \in Spellings : Fail(path)) \/ Refuse \/ Accept \/ Expand
           \/ BackEnd \/ Report \/ EmitAst
  BY <1>8 DEF ReadRoot, Resolved, Fail, Refuse, Accept, Expand, BackEnd, Report, EmitAst, Stop, Goes
<1> QED
  BY <1>3, <1>4, <1>5, <1>6, <1>7, <1>8 DEF Next

(***************************************************************************)
(* The statements taken so far, from the outermost call to the innermost:  *)
(* where each stands, and which comes first.                               *)
(***************************************************************************)

Positions(s) == UNION {{<<i, a>> : a \in DOMAIN s[i].out} : i \in DOMAIN s}
Item(s, p) == s[p[1]].out[p[2]]
Less(p, q) == p[1] < q[1] \/ (p[1] = q[1] /\ p[2] < q[2])
Taken(s, x) == \E p \in Positions(s) : Item(s, p) = x

\* The same statements in the same order, in other calls.
Matches(s, t, h) ==
  /\ \A p \in Positions(t) : h[p] \in Positions(s) /\ Item(t, p) = Item(s, h[p])
  /\ \A p, q \in Positions(t) : Less(p, q) <=> Less(h[p], h[q])
  /\ \A r \in Positions(s) : \E p \in Positions(t) : h[p] = r
SameItems(s, t) == \E h : Matches(s, t, h)

\* One more, after all the others.
OneMoreItem(s, t, x) ==
  /\ \A p \in Positions(s) : p \in Positions(t) /\ Item(t, p) = Item(s, p)
  /\ \E q \in Positions(t) :
       /\ Item(t, q) = x
       /\ \A p \in Positions(t) : p = q \/ (p \in Positions(s) /\ Less(p, q))
       /\ ~Less(q, q)

\* A position is a call and a number in what the call has taken.
LEMMA PositionFacts ==
  /\ \A s, i, a : <<i, a>> \in Positions(s) <=> i \in DOMAIN s /\ a \in DOMAIN s[i].out
  /\ \A s : \A p \in Positions(s) : p = <<p[1], p[2]>> /\ p[1] \in DOMAIN s /\ p[2] \in DOMAIN s[p[1]].out
  /\ \A s, i, a : Item(s, <<i, a>>) = s[i].out[a]
BY DEF Positions, Item

HasOuts(s) == \A i \in DOMAIN s : IsSequence(s[i].out)

\* A call's statements with one more.
LEMMA OutExtended ==
  ASSUME NEW o, IsSequence(o), NEW x
  PROVE  /\ Len(o) \in Nat /\ DOMAIN o = 1 .. Len(o)
         /\ IsSequence(Append(o, x))
         /\ DOMAIN Append(o, x) = 1 .. Len(o) + 1
         /\ \A a \in 1 .. Len(o) : Append(o, x)[a] = o[a]
         /\ Append(o, x)[Len(o) + 1] = x
<1>1. PICK S : o \in Seq(S)
  BY DEF IsSequence
<1> DEFINE T == S \cup {x}
<1>2. Len(o) \in Nat /\ DOMAIN o = 1 .. Len(o) /\ \A a \in 1 .. Len(o) : o[a] \in T
  BY <1>1
<1>3. x \in T /\ o \in Seq(T)
  BY <1>1
<1> HIDE DEF T
<1>4. /\ Append(o, x) \in Seq(T)
      /\ Len(Append(o, x)) = Len(o) + 1
      /\ \A a \in 1 .. Len(o) : Append(o, x)[a] = o[a]
      /\ Append(o, x)[Len(o) + 1] = x
  BY <1>3, AppendProperties
<1>5. DOMAIN Append(o, x) = 1 .. Len(o) + 1
  BY <1>4, <1>2
<1> QED
  BY <1>2, <1>4, <1>5 DEF IsSequence

\* The statements of two calls, one's after the other's.
LEMMA OutsJoined ==
  ASSUME NEW c, IsSequence(c), NEW d, IsSequence(d)
  PROVE  /\ Len(c) \in Nat /\ DOMAIN c = 1 .. Len(c)
         /\ Len(d) \in Nat /\ DOMAIN d = 1 .. Len(d)
         /\ IsSequence(c \o d)
         /\ DOMAIN (c \o d) = 1 .. Len(c) + Len(d)
         /\ \A a \in 1 .. Len(c) + Len(d) : (c \o d)[a] = IF a <= Len(c) THEN c[a] ELSE d[a - Len(c)]
<1>1. PICK S : c \in Seq(S)
  BY DEF IsSequence
<1>2. PICK R : d \in Seq(R)
  BY DEF IsSequence
<1> DEFINE T == S \cup R
<1>3. /\ Len(c) \in Nat /\ DOMAIN c = 1 .. Len(c)
      /\ Len(d) \in Nat /\ DOMAIN d = 1 .. Len(d)
      /\ c \in Seq(T) /\ d \in Seq(T)
  BY <1>1, <1>2
<1> HIDE DEF T
<1>4. /\ c \o d \in Seq(T)
      /\ Len(c \o d) = Len(c) + Len(d)
      /\ \A a \in 1 .. Len(c) + Len(d) : (c \o d)[a] = IF a <= Len(c) THEN c[a] ELSE d[a - Len(c)]
  BY <1>3, ConcatProperties
<1>5. DOMAIN (c \o d) = 1 .. Len(c) + Len(d)
  BY <1>4, <1>3
<1> QED
  BY <1>3, <1>4, <1>5 DEF IsSequence

\* A statement that is kept comes after all that were taken before.
LEMMA KeepItems ==
  ASSUME NEW s, NEW t, Calls(s), HasOuts(s), KeepMove(s, t)
  PROVE  /\ HasOuts(t)
         /\ OneMoreItem(s, t, <<s[Len(s)].file, s[Len(s)].at>>)
<1> DEFINE n == Len(s)
           o == s[n].out
           x == <<s[n].file, s[n].at>>
           m == Len(o) + 1
           q == <<n, m>>
<1>1. /\ n \in Nat \ {0} /\ DOMAIN s = 1 .. n /\ n \in 1 .. n /\ DOMAIN t = 1 .. n
      /\ \A i \in 1 .. n - 1 : t[i] = s[i]
      /\ t[n].out = Append(o, x)
      /\ \A i \in 1 .. n : i = n \/ i \in 1 .. n - 1
  <2>1. /\ n \in Nat \ {0} /\ DOMAIN s = 1 .. n /\ DOMAIN t = 1 .. n
        /\ \A i \in 1 .. n - 1 : t[i] = s[i]
        /\ t[n].out = Append(o, x)
    BY DEF Calls, KeepMove
  <2> HIDE DEF n
  <2>2. n \in 1 .. n /\ \A i \in 1 .. n : i = n \/ i \in 1 .. n - 1
    BY <2>1
  <2> QED
    BY <2>1, <2>2
<1>2. IsSequence(o)
  BY <1>1 DEF HasOuts
<1>3. /\ m \in Nat /\ DOMAIN o = 1 .. m - 1 /\ IsSequence(t[n].out)
      /\ DOMAIN t[n].out = 1 .. m
      /\ \A a \in 1 .. m - 1 : t[n].out[a] = o[a]
      /\ t[n].out[m] = x
  <2>1. /\ Len(o) \in Nat /\ DOMAIN o = 1 .. Len(o)
         /\ IsSequence(Append(o, x))
         /\ DOMAIN Append(o, x) = 1 .. Len(o) + 1
         /\ \A a \in 1 .. Len(o) : Append(o, x)[a] = o[a]
         /\ Append(o, x)[Len(o) + 1] = x
    BY <1>2, OutExtended
  <2>2. m = Len(o) + 1 /\ t[n].out = Append(o, x)
    BY <1>1
  <2> HIDE DEF n, o, x, m
  <2>3. m - 1 = Len(o)
    BY <2>1, <2>2
  <2> QED
    BY <2>1, <2>2, <2>3
<1>4. o = s[n].out /\ q = <<n, m>>
  OBVIOUS
<1> HIDE DEF n, o, x, m, q
<1>5. HasOuts(t)
  BY <1>1, <1>3 DEF HasOuts
<1>6. m \in 1 .. m /\ (\A a \in 1 .. m - 1 : a \in 1 .. m /\ a < m) /\ \A a \in 1 .. m : a = m \/ a \in 1 .. m - 1
  <2>1. m \in Nat \ {0}
    <3>1. m = Len(o) + 1
      BY DEF m
    <3> QED
      BY <3>1, <1>2, OutExtended
  <2> QED
    BY <2>1
<1>7. q \in Positions(t) /\ Item(t, q) = x /\ q[1] = n /\ q[2] = m
  BY <1>1, <1>3, <1>4, <1>6, PositionFacts
<1>8. ASSUME NEW p \in Positions(s) PROVE p \in Positions(t) /\ Item(t, p) = Item(s, p)
  <2>1. p = <<p[1], p[2]>> /\ p[1] \in 1 .. n /\ p[2] \in DOMAIN s[p[1]].out
    BY <1>1, PositionFacts
  <2>2. CASE p[1] = n
    <3>1. p[2] \in 1 .. m - 1
      BY <2>1, <2>2, <1>3, <1>4
    <3> QED
      BY <3>1, <2>1, <2>2, <1>1, <1>3, <1>4, <1>6, PositionFacts
  <2>3. CASE p[1] \in 1 .. n - 1
    BY <2>1, <2>3, <1>1, PositionFacts
  <2> QED
    BY <2>1, <2>2, <2>3, <1>1
<1>9. ASSUME NEW p \in Positions(t) PROVE p = q \/ (p \in Positions(s) /\ Less(p, q))
  <2>1. p = <<p[1], p[2]>> /\ p[1] \in 1 .. n /\ p[2] \in DOMAIN t[p[1]].out
    BY <1>1, PositionFacts
  <2>2. CASE p[1] = n /\ p[2] = m
    BY <2>1, <2>2, <1>4
  <2>3. CASE p[1] = n /\ p[2] \in 1 .. m - 1
    <3>1. p \in Positions(s)
      BY <2>1, <2>3, <1>1, <1>3, <1>4, PositionFacts
    <3> QED
      BY <3>1, <2>3, <1>6, <1>7 DEF Less
  <2>4. CASE p[1] \in 1 .. n - 1
    <3>1. p[1] < n
      BY <2>4, <1>1
    <3>2. p \in Positions(s)
      BY <2>1, <2>4, <1>1, PositionFacts
    <3>3. Less(p, q)
      BY <3>1, <1>7 DEF Less
    <3> QED
      BY <3>2, <3>3
  <2> QED
    BY <2>1, <2>2, <2>3, <2>4, <1>1, <1>3, <1>6
<1>10. ~Less(q, q)
  BY <1>1, <1>3, <1>7 DEF Less
<1>11. OneMoreItem(s, t, x)
  BY <1>7, <1>8, <1>9, <1>10 DEF OneMoreItem
<1> QED
  BY <1>5, <1>11 DEF n, x

\* Calls that differ in no statement taken.
LEMMA SameOuts ==
  ASSUME NEW s, NEW t, DOMAIN s \subseteq DOMAIN t,
         \A i \in DOMAIN s : t[i].out = s[i].out,
         \A i \in DOMAIN t \ DOMAIN s : t[i].out = <<>>,
         HasOuts(s)
  PROVE  HasOuts(t) /\ SameItems(s, t)
<1> DEFINE h == [p \in Positions(t) |-> p]
<1>1. <<>> \in Seq({}) /\ DOMAIN <<>> = {}
  OBVIOUS
<1>2. HasOuts(t)
  BY <1>1 DEF HasOuts, IsSequence
<1>3. ASSUME NEW p \in Positions(t)
      PROVE  p \in Positions(s) /\ Item(t, p) = Item(s, p) /\ h[p] = p
  <2>1. p = <<p[1], p[2]>> /\ p[1] \in DOMAIN t /\ p[2] \in DOMAIN t[p[1]].out
    BY PositionFacts
  <2>2. p[1] \in DOMAIN s
    BY <2>1, <1>1
  <2> QED
    BY <2>1, <2>2, PositionFacts
<1>4. ASSUME NEW p \in Positions(s) PROVE p \in Positions(t)
  BY PositionFacts
<1> HIDE DEF h
<1>5. Matches(s, t, h)
  BY <1>3, <1>4 DEF Matches
<1> QED
  BY <1>2, <1>5 DEF SameItems

\* A finished call's statements follow those its caller had, in the same order.
LEMMA JoinedOuts ==
  ASSUME NEW s, NEW t, Calls(s), HasOuts(s), ReturnMove(s, t)
  PROVE  HasOuts(t) /\ SameItems(s, t)
<1> DEFINE n == Len(s)
           m == n - 1
           c == s[m].out
           d == s[n].out
           z == Len(c)
           late(p) == p[1] = m /\ p[2] > z
           h == [p \in Positions(t) |-> IF late(p) THEN <<n, p[2] - z>> ELSE p]
<1>1. /\ n \in Nat /\ m \in Nat \ {0} /\ m = n - 1 /\ m < n
      /\ DOMAIN s = 1 .. n /\ DOMAIN t = 1 .. m
      /\ \A i \in 1 .. m - 1 : t[i] = s[i]
      /\ t[m].out = c \o d
      /\ m \in 1 .. n /\ n \in 1 .. n /\ m \in 1 .. m
      /\ \A i \in 1 .. m : i \in Nat /\ i \in 1 .. n /\ i # n /\ i < n /\ (i = m \/ i \in 1 .. m - 1)
      /\ \A i \in 1 .. n : i = n \/ i \in 1 .. m
  <2>1. /\ n \in Nat /\ n > 1 /\ DOMAIN s = 1 .. n /\ DOMAIN t = 1 .. n - 1
        /\ \A i \in 1 .. n - 2 : t[i] = s[i]
        /\ t[n - 1].out = s[n - 1].out \o s[n].out
    BY DEF Calls, ReturnMove
  <2>2. m = n - 1 /\ c = s[m].out /\ d = s[n].out
    OBVIOUS
  <2> HIDE DEF n, m, c, d
  <2>3. /\ m \in Nat \ {0} /\ m < n /\ n - 2 = m - 1 /\ m \in 1 .. n /\ n \in 1 .. n /\ m \in 1 .. m
        /\ \A i \in 1 .. m : i \in Nat /\ i \in 1 .. n /\ i # n /\ i < n /\ (i = m \/ i \in 1 .. m - 1)
        /\ \A i \in 1 .. n : i = n \/ i \in 1 .. m
    BY <2>1, <2>2
  <2> QED
    BY <2>1, <2>2, <2>3
<1>2. c = s[m].out /\ d = s[n].out
  OBVIOUS
<1>3. IsSequence(c) /\ IsSequence(d)
  BY <1>1 DEF HasOuts
<1>4. z = Len(c)
  OBVIOUS
<1> HIDE DEF n, m, c, d, z
<1>5. /\ z \in Nat /\ DOMAIN c = 1 .. z
      /\ Len(d) \in Nat /\ DOMAIN d = 1 .. Len(d)
      /\ IsSequence(c \o d)
      /\ DOMAIN (c \o d) = 1 .. z + Len(d)
      /\ \A a \in 1 .. z + Len(d) : (c \o d)[a] = IF a <= z THEN c[a] ELSE d[a - z]
  BY <1>3, <1>4, OutsJoined
<1> DEFINE o == t[m].out
           e == Len(d)
<1>6. /\ e \in Nat /\ DOMAIN d = 1 .. e /\ IsSequence(o) /\ DOMAIN o = 1 .. z + e
      /\ \A a \in 1 .. z + e : o[a] = IF a <= z THEN c[a] ELSE d[a - z]
      /\ o = t[m].out
  BY <1>1, <1>5
<1> HIDE DEF o, e
<1>7. HasOuts(t)
  <2> SUFFICES ASSUME NEW i \in 1 .. m PROVE IsSequence(t[i].out)
    BY <1>1 DEF HasOuts
  <2>1. CASE i = m
    BY <2>1, <1>6
  <2>2. CASE i \in 1 .. m - 1
    BY <2>2, <1>1 DEF HasOuts
  <2> QED
    BY <2>1, <2>2, <1>1
<1>8. /\ \A a \in 1 .. z + e : a \in Nat /\ (a > z => a - z \in 1 .. e) /\ (~(a > z) => a <= z /\ a \in 1 .. z)
      /\ \A a \in 1 .. z : a \in 1 .. z + e /\ a <= z /\ ~(a > z) /\ a \in Nat
      /\ \A a \in 1 .. e : a + z \in 1 .. z + e /\ a + z > z /\ ~(a + z <= z) /\ a + z - z = a /\ a \in Nat
  BY <1>5, <1>6
<1>9. ASSUME NEW p \in Positions(t)
      PROVE  /\ p = <<p[1], p[2]>> /\ p[1] \in 1 .. m
             /\ p[1] = m => p[2] \in 1 .. z + e
             /\ IF late(p)
                THEN /\ h[p] = <<n, p[2] - z>> /\ h[p][1] = n /\ h[p][2] = p[2] - z
                     /\ h[p] \in Positions(s) /\ Item(t, p) = Item(s, h[p])
                ELSE h[p] = p /\ p \in Positions(s) /\ Item(t, p) = Item(s, p)
  <2>1. p = <<p[1], p[2]>> /\ p[1] \in 1 .. m /\ p[2] \in DOMAIN t[p[1]].out
    BY <1>1, PositionFacts
  <2>2. p[1] = m => p[2] \in 1 .. z + e
    BY <2>1, <1>6
  <2>3. CASE late(p)
    <3>1. h[p] = <<n, p[2] - z>>
      BY <2>3
    <3>2. p[1] = m /\ p[2] \in 1 .. z + e /\ p[2] > z
      BY <2>3, <2>2
    <3> HIDE DEF h, late
    <3>3. p[2] - z \in 1 .. e /\ ~(p[2] <= z)
      BY <3>2, <1>8, <1>5
    <3>4. h[p] \in Positions(s)
      BY <3>1, <3>3, <1>1, <1>2, <1>6, PositionFacts
    <3>5. Item(t, p) = o[p[2]] /\ o[p[2]] = d[p[2] - z]
      BY <2>1, <3>2, <3>3, <1>6, PositionFacts
    <3>6. Item(s, h[p]) = d[p[2] - z]
      BY <3>1, <1>2, PositionFacts
    <3> QED
      BY <2>1, <2>2, <2>3, <3>1, <3>4, <3>5, <3>6
  <2>4. CASE ~late(p)
    <3>1. h[p] = p
      BY <2>4
    <3>2. CASE p[1] = m
      <4>1. p[2] \in 1 .. z /\ p[2] <= z /\ p[2] \in 1 .. z + e
        BY <2>4, <2>2, <3>2, <1>8
      <4> HIDE DEF h, late
      <4>2. p \in Positions(s)
        BY <2>1, <3>2, <4>1, <1>1, <1>2, <1>5, PositionFacts
      <4>3. Item(t, p) = c[p[2]] /\ Item(s, p) = c[p[2]]
        BY <2>1, <3>2, <4>1, <1>2, <1>6, PositionFacts
      <4> QED
        BY <2>1, <2>2, <2>4, <3>1, <4>2, <4>3
    <3>3. CASE p[1] \in 1 .. m - 1
      <4> HIDE DEF h, late
      <4>1. p \in Positions(s) /\ Item(t, p) = Item(s, p)
        BY <2>1, <3>3, <1>1, PositionFacts
      <4> QED
        BY <2>1, <2>2, <2>4, <3>1, <4>1
    <3> QED
      BY <2>1, <3>2, <3>3, <1>1
  <2> QED
    BY <2>3, <2>4
<1>10. ASSUME NEW p \in Positions(t), NEW q \in Positions(t)
       PROVE  Less(p, q) <=> Less(h[p], h[q])
  <2>1. /\ p[1] \in 1 .. m /\ q[1] \in 1 .. m
        /\ p[1] = m => p[2] \in 1 .. z + e
        /\ q[1] = m => q[2] \in 1 .. z + e
        /\ IF p[1] = m /\ p[2] > z THEN h[p][1] = n /\ h[p][2] = p[2] - z ELSE h[p] = p
        /\ IF q[1] = m /\ q[2] > z THEN h[q][1] = n /\ h[q][2] = q[2] - z ELSE h[q] = q
    BY <1>9
  <2> HIDE DEF h
  <2> DEFINE p1 == p[1]
             p2 == p[2]
             q1 == q[1]
             q2 == q[2]
             P1 == h[p][1]
             P2 == h[p][2]
             Q1 == h[q][1]
             Q2 == h[q][2]
  <2>2. /\ p1 \in 1 .. m /\ q1 \in 1 .. m
        /\ p1 = m => p2 \in 1 .. z + e
        /\ q1 = m => q2 \in 1 .. z + e
        /\ IF p1 = m /\ p2 > z THEN P1 = n /\ P2 = p2 - z ELSE P1 = p1 /\ P2 = p2
        /\ IF q1 = m /\ q2 > z THEN Q1 = n /\ Q2 = q2 - z ELSE Q1 = q1 /\ Q2 = q2
    BY <2>1
  <2>3. (Less(p, q) <=> p1 < q1 \/ (p1 = q1 /\ p2 < q2)) /\ (Less(h[p], h[q]) <=> P1 < Q1 \/ (P1 = Q1 /\ P2 < Q2))
    BY DEF Less
  <2> HIDE DEF p1, p2, q1, q2, P1, P2, Q1, Q2
  <2>4. (p1 < q1 \/ (p1 = q1 /\ p2 < q2)) <=> (P1 < Q1 \/ (P1 = Q1 /\ P2 < Q2))
    <3>1. CASE p1 = m /\ p2 > z /\ q1 = m /\ q2 > z
      BY <3>1, <2>2, <1>1, <1>5, <1>6
    <3>2. CASE p1 = m /\ p2 > z /\ ~(q1 = m /\ q2 > z)
      BY <3>2, <2>2, <1>1, <1>5, <1>6
    <3>3. CASE ~(p1 = m /\ p2 > z) /\ q1 = m /\ q2 > z
      BY <3>3, <2>2, <1>1, <1>5, <1>6
    <3>4. CASE ~(p1 = m /\ p2 > z) /\ ~(q1 = m /\ q2 > z)
      BY <3>4, <2>2
    <3> QED
      BY <3>1, <3>2, <3>3, <3>4
  <2> QED
    BY <2>3, <2>4
<1>11. ASSUME NEW r \in Positions(s) PROVE \E p \in Positions(t) : h[p] = r
  <2>1. r = <<r[1], r[2]>> /\ r[1] \in 1 .. n /\ r[2] \in DOMAIN s[r[1]].out
    BY <1>1, PositionFacts
  <2>2. CASE r[1] = n
    <3> DEFINE a == r[2] + z
               p == <<m, a>>
    <3>1. r[2] \in 1 .. e
      BY <2>1, <2>2, <1>2, <1>6
    <3>0. a = r[2] + z
      OBVIOUS
    <3> HIDE DEF a, h
    <3>2. a \in 1 .. z + e /\ a > z /\ a - z = r[2]
      <4> DEFINE b == r[2]
      <4>1. b \in 1 .. e /\ a = b + z
        BY <3>0, <3>1
      <4> HIDE DEF b
      <4>2. a \in 1 .. z + e /\ a > z /\ a - z = b
        BY <4>1, <1>5, <1>6
      <4> QED
        BY <4>2 DEF b
    <3>3. p \in Positions(t) /\ p[1] = m /\ p[2] = a
      BY <3>2, <1>1, <1>6, PositionFacts
    <3>4. h[p] = <<n, p[2] - z>>
      BY <3>2, <3>3, <1>9
    <3> HIDE DEF h, p
    <3> QED
      BY <3>2, <3>3, <3>4, <2>1, <2>2
  <2>3. CASE r[1] = m
    <3>1. r[2] \in 1 .. z
      BY <2>1, <2>3, <1>2, <1>5
    <3>0. r[2] \in 1 .. z + e /\ ~(r[2] > z)
      BY <3>1, <1>8, Zenon
    <3>2. r \in Positions(t) /\ ~(r[2] > z)
      <4>1. r = <<m, r[2]>> /\ r[2] \in DOMAIN t[m].out
        BY <2>1, <2>3, <3>0, <1>6
      <4> QED
        BY <4>1, <3>0, <1>1, PositionFacts
    <3> QED
      BY <3>2
  <2>4. CASE r[1] \in 1 .. m - 1
    <3>1. r[1] # m
      BY <2>4, <1>1
    <3>2. r \in Positions(t)
      BY <2>1, <2>4, <3>1, <1>1, PositionFacts
    <3> QED
      BY <3>1, <3>2
  <2> QED
    BY <2>1, <2>2, <2>3, <2>4, <1>1
<1> HIDE DEF h
<1>12. ASSUME NEW p \in Positions(t) PROVE h[p] \in Positions(s) /\ Item(t, p) = Item(s, h[p])
  BY <1>9
<1>13. Matches(s, t, h)
  BY <1>10, <1>11, <1>12 DEF Matches
<1> QED
  BY <1>7, <1>13 DEF SameItems

\* A file is opened as the root or for a spelling that is visited.
Opened(v, f) == f = Root \/ \E p \in v : <<p, f>> \in Edges

\* The calls open are the root's and, each inside the other, those of files imported.
Chain(s, v) ==
  /\ s[1].file = Root
  /\ \A i \in DOMAIN s : s[i].file \in Reached /\ (i = 1 \/ \E p \in v : <<p, s[i].file>> \in Edges)
  /\ \A i, j \in DOMAIN s : i < j => Before(s[i].file, s[j].file)

\* Only statements of files that were opened are taken.
Genuine(s, v) ==
  \A x : Taken(s, x) =>
    /\ x = <<x[1], x[2]>> /\ x[1] \in Reached
    /\ x[2] \in DOMAIN File(x[1]) /\ Opened(v, x[1])

Basic(s, v) == Chain(s, v) /\ Genuine(s, v) /\ HasOuts(s)

\* What the moves leave of the files that are open and the statements taken.
SameFiles(s, t) ==
  /\ DOMAIN t \subseteq DOMAIN s /\ 1 \in DOMAIN t
  /\ \A i \in DOMAIN t : t[i].file = s[i].file

\* The same statements are taken, in whatever calls they are.
LEMMA SameTaken ==
  ASSUME NEW s, NEW t, SameItems(s, t)
  PROVE  \A x : Taken(t, x) <=> Taken(s, x)
<1>1. PICK h : Matches(s, t, h)
  BY DEF SameItems
<1>2. ASSUME NEW x, Taken(t, x) PROVE Taken(s, x)
  BY <1>1, <1>2 DEF Matches, Taken
<1>3. ASSUME NEW x, Taken(s, x) PROVE Taken(t, x)
  <2>1. PICK r \in Positions(s) : Item(s, r) = x
    BY <1>3 DEF Taken
  <2>2. PICK p \in Positions(t) : h[p] = r
    BY <1>1 DEF Matches
  <2>3. Item(t, p) = Item(s, h[p])
    BY <1>1 DEF Matches
  <2> QED
    BY <2>1, <2>2, <2>3 DEF Taken
<1> QED
  BY <1>2, <1>3

\* One more statement is taken, or the same ones.
LEMMA OneMoreTaken ==
  ASSUME NEW s, NEW t, NEW y, OneMoreItem(s, t, y)
  PROVE  \A x : Taken(t, x) <=> Taken(s, x) \/ x = y
<1>1. ASSUME NEW x, Taken(t, x) PROVE Taken(s, x) \/ x = y
  BY <1>1 DEF OneMoreItem, Taken
<1>2. ASSUME NEW x, Taken(s, x) PROVE Taken(t, x)
  BY <1>2 DEF OneMoreItem, Taken
<1>3. Taken(t, y)
  BY DEF OneMoreItem, Taken
<1> QED
  BY <1>1, <1>2, <1>3

\* The four moves, by the files that are open and the statements taken.
LEMMA KeepFacts ==
  ASSUME NEW s, NEW t, Calls(s), HasOuts(s), KeepMove(s, t)
  PROVE  /\ SameFiles(s, t) /\ HasOuts(t)
         /\ OneMoreItem(s, t, <<s[Len(s)].file, s[Len(s)].at>>)
<1>1. HasOuts(t) /\ OneMoreItem(s, t, <<s[Len(s)].file, s[Len(s)].at>>)
  BY KeepItems
<1> DEFINE n == Len(s)
<1>2. n \in Nat \ {0} /\ DOMAIN s = 1 .. n /\ DOMAIN t = 1 .. n /\ t[n].file = s[n].file /\ \A i \in 1 .. n - 1 : t[i] = s[i]
  BY DEF Calls, KeepMove
<1> HIDE DEF n
<1>3. 1 \in 1 .. n /\ \A i \in 1 .. n : i = n \/ i \in 1 .. n - 1
  BY <1>2
<1> QED
  BY <1>1, <1>2, <1>3 DEF SameFiles

LEMMA SkipFacts ==
  ASSUME NEW s, NEW t, NEW path, Calls(s), HasOuts(s), SkipMove(s, t, path)
  PROVE  SameFiles(s, t) /\ HasOuts(t) /\ SameItems(s, t)
<1> DEFINE n == Len(s)
<1>2. /\ n \in Nat \ {0} /\ DOMAIN s = 1 .. n /\ DOMAIN t = 1 .. n
      /\ t[n].file = s[n].file /\ t[n].out = s[n].out /\ \A i \in 1 .. n - 1 : t[i] = s[i]
  BY DEF Calls, SkipMove
<1> HIDE DEF n
<1>3. 1 \in 1 .. n /\ \A i \in 1 .. n : i = n \/ i \in 1 .. n - 1
  BY <1>2
<1>4. \A i \in 1 .. n : t[i].out = s[i].out
  BY <1>2, <1>3
<1>5. HasOuts(t) /\ SameItems(s, t)
  BY <1>2, <1>4, SameOuts
<1> QED
  BY <1>2, <1>3, <1>5 DEF SameFiles

LEMMA ReturnFacts ==
  ASSUME NEW s, NEW t, Calls(s), HasOuts(s), ReturnMove(s, t)
  PROVE  SameFiles(s, t) /\ HasOuts(t) /\ SameItems(s, t)
<1> DEFINE n == Len(s)
<1>1. HasOuts(t) /\ SameItems(s, t)
  BY JoinedOuts
<1>2. /\ n \in Nat \ {0} /\ n > 1 /\ DOMAIN s = 1 .. n /\ DOMAIN t = 1 .. n - 1
      /\ t[n - 1].file = s[n - 1].file /\ \A i \in 1 .. n - 2 : t[i] = s[i]
  BY DEF Calls, ReturnMove
<1> HIDE DEF n
<1>3. 1 \in 1 .. n - 1 /\ \A i \in 1 .. n - 1 : i \in 1 .. n /\ (i = n - 1 \/ i \in 1 .. n - 2)
  BY <1>2
<1> QED
  BY <1>1, <1>2, <1>3 DEF SameFiles

LEMMA EnterFacts ==
  ASSUME NEW s, NEW t, NEW path, Calls(s), HasOuts(s), EnterMove(s, t, path), 
         NEW n, n = Len(s), NEW m, m = n + 1
  PROVE  /\ HasOuts(t) /\ SameItems(s, t)
         /\ n \in Nat \ {0} /\ DOMAIN s = 1 .. n /\ DOMAIN t = 1 .. m
         /\ \A i \in 1 .. n : t[i].file = s[i].file
         /\ t[m].file = Meant(s[n].file, path) /\ Meant(s[n].file, path) \in Places
         /\ s[n].at \in DOMAIN File(s[n].file) 
         /\ File(s[n].file)[s[n].at][1] = "import" /\ File(s[n].file)[s[n].at][2] = path
<1>1. /\ n \in Nat \ {0} /\ DOMAIN s = 1 .. n /\ DOMAIN t = 1 .. n + 1
      /\ t[n].file = s[n].file /\ t[n].out = s[n].out /\ \A i \in 1 .. n - 1 : t[i] = s[i]
      /\ t[n + 1].file = Meant(s[n].file, path) /\ t[n + 1].out = <<>>
      /\ Meant(s[n].file, path) \in Places
      /\ s[n].at \in DOMAIN File(s[n].file) /\ File(s[n].file)[s[n].at] = <<"import", path>>
  BY DEF Calls, EnterMove
<1>3. 1 .. n \subseteq 1 .. n + 1 /\ (\A i \in 1 .. n : i = n \/ i \in 1 .. n - 1) /\ \A i \in (1 .. n + 1) \ (1 .. n) : i = n + 1
  BY <1>1
<1>4. \A i \in 1 .. n : t[i].out = s[i].out /\ t[i].file = s[i].file
  BY <1>1, <1>3
<1>5. \A i \in DOMAIN t \ DOMAIN s : t[i].out = <<>>
  BY <1>1, <1>3
<1>6. HasOuts(t) /\ SameItems(s, t)
  BY <1>1, <1>3, <1>4, <1>5, SameOuts
<1> QED
  BY <1>1, <1>4, <1>6

\* The chain is kept where the files open are the same or fewer.
LEMMA ChainKept ==
  ASSUME NEW s, NEW t, NEW v, NEW w, v \subseteq w, Chain(s, v), SameFiles(s, t)
  PROVE  Chain(t, w)
BY DEF Chain, SameFiles

\* Where no more is taken, all that is comes from the files opened.
LEMMA GenuineKept ==
  ASSUME NEW s, NEW t, NEW v, NEW w, v \subseteq w, Genuine(s, v), \A x : Taken(t, x) => Taken(s, x)
  PROVE  Genuine(t, w)
BY DEF Genuine, Opened

\* The moves keep the chain of calls and take statements of opened files alone.
LEMMA BasicMoves ==
  ASSUME project \in Projects, NEW s, NEW t, NEW v, Calls(s), Basic(s, v)
  PROVE  /\ KeepMove(s, t) => Basic(t, v)
         /\ \A path : SkipMove(s, t, path) => Basic(t, v)
         /\ \A path : EnterMove(s, t, path) => Basic(t, v \cup {path})
         /\ ReturnMove(s, t) => Basic(t, v)
<1> DEFINE n == Len(s)
           f == s[n].file
           k == s[n].at
<1>1. Chain(s, v) /\ Genuine(s, v) /\ HasOuts(s)
  BY DEF Basic
<1>2. n \in Nat \ {0} /\ DOMAIN s = 1 .. n /\ n \in DOMAIN s /\ n = Len(s)
  <2>1. n \in Nat \ {0} /\ DOMAIN s = 1 .. n /\ n = Len(s)
    BY DEF Calls
  <2> HIDE DEF n
  <2> QED
    BY <2>1
<1>3. f = s[n].file /\ k = s[n].at
  OBVIOUS
<1> HIDE DEF n, f, k
<1>4. f \in Reached /\ Opened(v, f)
  BY <1>1, <1>2, <1>3 DEF Chain, Opened
<1>5. ASSUME KeepMove(s, t) PROVE Basic(t, v)
  <2>1. SameFiles(s, t) /\ HasOuts(t) /\ OneMoreItem(s, t, <<f, k>>)
    BY <1>1, <1>2, <1>3, <1>5, KeepFacts
  <2>2. k \in DOMAIN File(f)
    BY <1>2, <1>3, <1>5 DEF KeepMove
  <2>3. Chain(t, v)
    BY <1>1, <2>1, ChainKept
  <2>4. \A x : Taken(t, x) <=> Taken(s, x) \/ x = <<f, k>>
    BY <2>1, OneMoreTaken
  <2>5. Genuine(t, v)
    BY <2>2, <2>4, <1>1, <1>4 DEF Genuine
  <2> QED
    BY <2>1, <2>3, <2>5 DEF Basic
<1>6. ASSUME NEW path, SkipMove(s, t, path) PROVE Basic(t, v)
  BY <1>1, <1>6, SkipFacts, SameTaken, ChainKept, GenuineKept DEF Basic
<1>7. ASSUME ReturnMove(s, t) PROVE Basic(t, v)
  BY <1>1, <1>7, ReturnFacts, SameTaken, ChainKept, GenuineKept DEF Basic
<1>8. ASSUME NEW path, EnterMove(s, t, path) PROVE Basic(t, v \cup {path})
  <2> DEFINE g == Meant(f, path)
             w == v \cup {path}
  <2>1. /\ HasOuts(t) /\ SameItems(s, t)
        /\ DOMAIN t = 1 .. n + 1
        /\ \A i \in 1 .. n : t[i].file = s[i].file
        /\ t[n + 1].file = g /\ g \in Places
        /\ k \in DOMAIN File(f) /\ File(f)[k][1] = "import" /\ File(f)[k][2] = path
    <3> DEFINE m == n + 1
    <3>1. g = Meant(s[n].file, path) /\ m = n + 1
      BY <1>3
    <3> HIDE DEF g, m
    <3>2. /\ HasOuts(t) /\ SameItems(s, t)
          /\ DOMAIN t = 1 .. m
          /\ \A i \in 1 .. n : t[i].file = s[i].file
          /\ t[m].file = Meant(s[n].file, path) /\ Meant(s[n].file, path) \in Places
          /\ s[n].at \in DOMAIN File(s[n].file) 
          /\ File(s[n].file)[s[n].at][1] = "import" /\ File(s[n].file)[s[n].at][2] = path
      <4>1. Calls(s) /\ HasOuts(s) /\ EnterMove(s, t, path) /\ n = Len(s)
        BY <1>1, <1>2, <1>8
      <4> QED
        BY <4>1, <3>1, EnterFacts
    <3> QED
      BY <3>1, <3>2, <1>3
  <2>3. <<path, g>> \in Edges /\ g \in Imported(f)
    BY <2>1, <1>4, ImportFacts
  <2>4. g \in Reached /\ Before(f, g)
    BY <2>3, <1>4, BeforeFacts
  <2> HIDE DEF g
  <2>5. (\A i \in 1 .. n + 1 : i = n + 1 \/ i \in 1 .. n) /\ 1 \in 1 .. n /\ (\A i \in 1 .. n : ~(n + 1 < i)) /\ (\A i \in 1 .. n : i = n \/ i < n) /\ ~(n + 1 < n + 1)
    <3>1. n \in Nat \ {0}
      BY <1>2
    <3> QED
      BY <3>1
  <2>6. \A i \in 1 .. n : Before(s[i].file, g)
    <3> SUFFICES ASSUME NEW i \in 1 .. n PROVE Before(s[i].file, g)
      OBVIOUS
    <3>1. CASE i = n
      BY <3>1, <2>4, <1>3
    <3>2. CASE i < n
      <4>1. Before(s[i].file, f)
        BY <3>2, <1>1, <1>2, <1>3 DEF Chain
      <4> QED
        BY <4>1, <2>3, BeforeFacts
    <3> QED
      BY <3>1, <3>2, <2>5
  <2>7. t[1].file = Root
    BY <2>1, <2>5, <1>1 DEF Chain
  <2>8. ASSUME NEW i \in DOMAIN t
        PROVE  t[i].file \in Reached /\ (i = 1 \/ \E p \in w : <<p, t[i].file>> \in Edges)
    <3>1. CASE i = n + 1
      BY <3>1, <2>1, <2>3, <2>4
    <3>2. CASE i \in 1 .. n
      BY <3>2, <2>1, <1>1, <1>2 DEF Chain
    <3> QED
      BY <3>1, <3>2, <2>1, <2>5
  <2>9. ASSUME NEW i \in DOMAIN t, NEW j \in DOMAIN t, i < j
        PROVE  Before(t[i].file, t[j].file)
    <3>1. CASE i \in 1 .. n /\ j \in 1 .. n
      BY <3>1, <2>1, <2>9, <1>1, <1>2 DEF Chain
    <3>2. CASE i \in 1 .. n /\ j = n + 1
      BY <3>2, <2>1, <2>6
    <3> QED
      BY <3>1, <3>2, <2>1, <2>5, <2>9
  <2> HIDE DEF w
  <2>10. Chain(t, w)
    BY <2>7, <2>8, <2>9 DEF Chain
  <2>11. Genuine(t, w)
    BY <2>1, <1>1, SameTaken, GenuineKept DEF w
  <2> QED
    BY <2>1, <2>10, <2>11 DEF Basic, w
<1> QED
  BY <1>5, <1>6, <1>7, <1>8

(***************************************************************************)
(* Nothing is missed.  What a call has behind it is dealt with: a          *)
(* statement is taken, the spelling of an import is visited.  The file of  *)
(* a visited spelling is open, or all of it is dealt with.                 *)
(***************************************************************************)

Dealt(s, v, f, k) == IF File(f)[k][1] = "import" THEN File(f)[k][2] \in v ELSE Taken(s, <<f, k>>)
Complete(s, v, f) == \A k \in DOMAIN File(f) : Dealt(s, v, f, k)

BehindDealt(s, v) ==
  \A i \in DOMAIN s : \A k \in DOMAIN File(s[i].file) : k < s[i].at => Dealt(s, v, s[i].file, k)

VisitedComplete(s, v) ==
  OneMeaning =>
    \A e \in Edges : e[1] \in v => (\E i \in DOMAIN s : s[i].file = e[2]) \/ Complete(s, v, e[2])

Missed(s, v) == BehindDealt(s, v) /\ VisitedComplete(s, v)

\* No call goes back, and what one has passed is dealt with.
FrameStep(s, t, w) ==
  /\ \A x : Taken(s, x) => Taken(t, x)
  /\ \A i \in DOMAIN t :
       \/ i \notin DOMAIN s /\ t[i].at = 1
       \/ /\ i \in DOMAIN s /\ t[i].file = s[i].file
          /\ \/ t[i].at = s[i].at
             \/ t[i].at = s[i].at + 1 /\ Dealt(t, w, s[i].file, s[i].at)

\* The statements of a file are numbered from 1.
LEMMA StatementNumbers ==
  ASSUME project \in Projects, NEW f
  PROVE  /\ Len(File(f)) \in Nat /\ DOMAIN File(f) = 1 .. Len(File(f))
         /\ \A k \in DOMAIN File(f) : k \in Nat \ {0}
<1>1. File(f) \in Seq(Statement)
  BY FileIsSequence
<1>2. Len(File(f)) \in Nat /\ DOMAIN File(f) = 1 .. Len(File(f))
  BY <1>1
<1> QED
  BY <1>2

\* Every move takes calls forward, over what is dealt with.
LEMMA FrameSteps ==
  ASSUME project \in Projects, NEW s, NEW t, NEW v, Calls(s), HasOuts(s)
  PROVE  /\ KeepMove(s, t) => FrameStep(s, t, v)
         /\ \A path \in v : SkipMove(s, t, path) => FrameStep(s, t, v)
         /\ \A path : EnterMove(s, t, path) => FrameStep(s, t, v \cup {path})
         /\ ReturnMove(s, t) => FrameStep(s, t, v)
<1> DEFINE n == Len(s)
           f == s[n].file
           k == s[n].at
<1>1. n \in Nat \ {0} /\ DOMAIN s = 1 .. n /\ n = Len(s) /\ f = s[n].file /\ k = s[n].at
  BY DEF Calls
<1>2. ASSUME KeepMove(s, t)
      PROVE  /\ OneMoreItem(s, t, <<f, k>>) /\ File(f)[k][1] # "import"
             /\ DOMAIN t = 1 .. n /\ t[n].file = f /\ t[n].at = k + 1
             /\ \A i \in 1 .. n - 1 : t[i] = s[i]
  BY <1>2, KeepFacts DEF KeepMove
<1>3. ASSUME NEW path, SkipMove(s, t, path)
      PROVE  /\ SameItems(s, t) /\ File(f)[k][1] = "import" /\ File(f)[k][2] = path
             /\ DOMAIN t = 1 .. n /\ t[n].file = f /\ t[n].at = k + 1
             /\ \A i \in 1 .. n - 1 : t[i] = s[i]
  BY <1>3, SkipFacts DEF SkipMove
<1>4. ASSUME NEW path, EnterMove(s, t, path)
      PROVE  /\ SameItems(s, t) /\ File(f)[k][1] = "import" /\ File(f)[k][2] = path
             /\ DOMAIN t = 1 .. n + 1 /\ t[n].file = f /\ t[n].at = k + 1 /\ t[n + 1].at = 1
             /\ \A i \in 1 .. n - 1 : t[i] = s[i]
  BY <1>4, EnterFacts DEF EnterMove
<1>5. ASSUME ReturnMove(s, t)
      PROVE  /\ SameItems(s, t) /\ n > 1
             /\ DOMAIN t = 1 .. n - 1 /\ t[n - 1].file = s[n - 1].file /\ t[n - 1].at = s[n - 1].at
             /\ \A i \in 1 .. n - 2 : t[i] = s[i]
  BY <1>5, ReturnFacts DEF ReturnMove
<1> HIDE DEF n, f, k
<1>6. /\ \A i \in 1 .. n : i = n \/ i \in 1 .. n - 1
      /\ \A i \in 1 .. n + 1 : i = n + 1 \/ i \in 1 .. n
      /\ n + 1 \notin 1 .. n /\ n \in 1 .. n
      /\ \A i \in 1 .. n - 1 : i \in 1 .. n /\ (i = n - 1 \/ i \in 1 .. n - 2)
  <2>1. n \in Nat \ {0}
    BY <1>1
  <2> QED
    BY <2>1
<1>7. ASSUME KeepMove(s, t) PROVE FrameStep(s, t, v)
  <2>1. \A x : Taken(t, x) <=> Taken(s, x) \/ x = <<f, k>>
    BY <1>2, <1>7, OneMoreTaken
  <2>2. Dealt(t, v, f, k)
    BY <2>1, <1>2, <1>7 DEF Dealt
  <2> QED
    BY <2>1, <2>2, <1>1, <1>2, <1>6, <1>7 DEF FrameStep
<1>8. ASSUME NEW path \in v, SkipMove(s, t, path) PROVE FrameStep(s, t, v)
  <2>1. \A x : Taken(t, x) <=> Taken(s, x)
    BY <1>3, <1>8, SameTaken
  <2>2. Dealt(t, v, f, k)
    BY <1>3, <1>8 DEF Dealt
  <2> QED
    BY <2>1, <2>2, <1>1, <1>3, <1>6, <1>8, ZenonT(40) DEF FrameStep
<1>9. ASSUME NEW path, EnterMove(s, t, path) PROVE FrameStep(s, t, v \cup {path})
  <2> DEFINE w == v \cup {path}
  <2>1. \A x : Taken(t, x) <=> Taken(s, x)
    BY <1>4, <1>9, SameTaken
  <2>2. Dealt(t, w, f, k)
    BY <1>4, <1>9 DEF Dealt
  <2> HIDE DEF w
  <2>3. FrameStep(s, t, w)
    BY <2>1, <2>2, <1>1, <1>4, <1>6, <1>9, ZenonT(40) DEF FrameStep
  <2> QED
    BY <2>3 DEF w
<1>10. ASSUME ReturnMove(s, t) PROVE FrameStep(s, t, v)
  <2>1. \A x : Taken(t, x) <=> Taken(s, x)
    BY <1>5, <1>10, SameTaken
  <2> QED
    BY <2>1, <1>1, <1>5, <1>6, <1>10 DEF FrameStep
<1> QED
  BY <1>7, <1>8, <1>9, <1>10

\* What is dealt with stays so.
LEMMA DealtKept ==
  ASSUME NEW s, NEW t, NEW v, NEW w, v \subseteq w, \A x : Taken(s, x) => Taken(t, x)
  PROVE  /\ \A f, k : Dealt(s, v, f, k) => Dealt(t, w, f, k)
         /\ \A f : Complete(s, v, f) => Complete(t, w, f)
<1>1. \A f, k : Dealt(s, v, f, k) => Dealt(t, w, f, k)
  BY DEF Dealt
<1> QED
  BY <1>1 DEF Complete

\* What a call has behind it stays dealt with, and what it passes is.
LEMMA BehindKept ==
  ASSUME project \in Projects, NEW s, NEW t, NEW v, NEW w, v \subseteq w, Calls(s),
         BehindDealt(s, v), FrameStep(s, t, w)
  PROVE  BehindDealt(t, w)
<1> SUFFICES ASSUME NEW i \in DOMAIN t, NEW k \in DOMAIN File(t[i].file), k < t[i].at
             PROVE  Dealt(t, w, t[i].file, k)
  BY DEF BehindDealt
<1>1. k \in Nat \ {0}
  BY StatementNumbers
<1>2. \A f, j : Dealt(s, v, f, j) => Dealt(t, w, f, j)
  BY DealtKept DEF FrameStep
<1>3. CASE i \notin DOMAIN s /\ t[i].at = 1
  BY <1>1, <1>3
<1>4. CASE i \in DOMAIN s /\ t[i].file = s[i].file /\ t[i].at = s[i].at
  BY <1>2, <1>4 DEF BehindDealt
<1>5. CASE i \in DOMAIN s /\ t[i].file = s[i].file /\ t[i].at = s[i].at + 1 /\ Dealt(t, w, s[i].file, s[i].at)
  <2>1. s[i].at \in Nat
    <3>1. IsFrame(s[i])
      BY <1>5 DEF Calls
    <3>2. s[i].at \in 1 .. Len(File(s[i].file)) + 1 /\ Len(File(s[i].file)) \in Nat
      BY <3>1, StatementNumbers DEF IsFrame
    <3> QED
      BY <3>2
  <2>2. k = s[i].at \/ k < s[i].at
    BY <2>1, <1>1, <1>5
  <2> QED
    BY <2>2, <1>2, <1>5 DEF BehindDealt
<1> QED
  BY <1>3, <1>4, <1>5 DEF FrameStep

\* A file may close when all of it is dealt with, and opens with its spelling.
LEMMA VisitedKept ==
  ASSUME NEW s, NEW t, NEW v, NEW w, v \subseteq w, VisitedComplete(s, v),
         \A x : Taken(s, x) => Taken(t, x),
         \A i \in DOMAIN s : (i \in DOMAIN t /\ t[i].file = s[i].file) \/ Complete(t, w, s[i].file),
         OneMeaning => \A e \in Edges : e[1] \in w \ v => \E i \in DOMAIN t : t[i].file = e[2]
  PROVE  VisitedComplete(t, w)
<1>1. \A f : Complete(s, v, f) => Complete(t, w, f)
  BY DealtKept
<1> SUFFICES ASSUME OneMeaning, NEW e \in Edges, e[1] \in w
             PROVE  (\E i \in DOMAIN t : t[i].file = e[2]) \/ Complete(t, w, e[2])
  BY DEF VisitedComplete
<1>2. CASE e[1] \notin v
  BY <1>2
<1>3. CASE e[1] \in v
  BY <1>1, <1>3 DEF VisitedComplete
<1> QED
  BY <1>2, <1>3

\* No move leaves a statement behind.
LEMMA MissedMoves ==
  ASSUME project \in Projects, NEW s, NEW t, NEW v, Calls(s), Basic(s, v), Missed(s, v)
  PROVE  /\ KeepMove(s, t) => Missed(t, v)
         /\ \A path \in v : SkipMove(s, t, path) => Missed(t, v)
         /\ \A path : EnterMove(s, t, path) => Missed(t, v \cup {path})
         /\ ReturnMove(s, t) => Missed(t, v)
<1> DEFINE n == Len(s)
           f == s[n].file
           k == s[n].at
<1>1. /\ n \in Nat \ {0} /\ DOMAIN s = 1 .. n /\ n = Len(s) /\ f = s[n].file /\ k = s[n].at
      /\ HasOuts(s) /\ Chain(s, v) /\ BehindDealt(s, v) /\ VisitedComplete(s, v)
  BY DEF Calls, Basic, Missed
<1> HIDE DEF n, f, k
<1>2. /\ (\A i \in 1 .. n : i = n \/ i \in 1 .. n - 1) /\ n \in 1 .. n
      /\ 1 .. n \subseteq 1 .. n + 1 /\ n + 1 \in 1 .. n + 1
  <2>1. n \in Nat \ {0}
    BY <1>1
  <2> QED
    BY <2>1
<1>3. ASSUME NEW w, v \subseteq w, FrameStep(s, t, w), DOMAIN s \subseteq DOMAIN t,
             \A i \in DOMAIN s : t[i].file = s[i].file,
             OneMeaning => \A e \in Edges : e[1] \in w \ v => \E i \in DOMAIN t : t[i].file = e[2]
      PROVE  Missed(t, w)
  <2>1. BehindDealt(t, w)
    BY <1>1, <1>3, BehindKept
  <2>2. \A x : Taken(s, x) => Taken(t, x)
    BY <1>3 DEF FrameStep
  <2>3. VisitedComplete(t, w)
    BY <1>1, <1>3, <2>2, VisitedKept
  <2> QED
    BY <2>1, <2>3 DEF Missed
<1>4. ASSUME KeepMove(s, t) PROVE Missed(t, v)
  <2>1. FrameStep(s, t, v) /\ SameFiles(s, t)
    BY <1>1, <1>4, FrameSteps, KeepFacts
  <2>2. DOMAIN t = 1 .. n
    BY <1>1, <1>4 DEF KeepMove
  <2> QED
    BY <2>1, <2>2, <1>1, <1>3 DEF SameFiles
<1>5. ASSUME NEW path \in v, SkipMove(s, t, path) PROVE Missed(t, v)
  <2>1. FrameStep(s, t, v) /\ SameFiles(s, t)
    BY <1>1, <1>5, FrameSteps, SkipFacts
  <2>2. DOMAIN t = 1 .. n
    BY <1>1, <1>5 DEF SkipMove
  <2> QED
    BY <2>1, <2>2, <1>1, <1>3 DEF SameFiles
<1>6. ASSUME NEW path, EnterMove(s, t, path) PROVE Missed(t, v \cup {path})
  <2> DEFINE w == v \cup {path}
             m == n + 1
             g == Meant(f, path)
  <2>1. FrameStep(s, t, w)
    BY <1>1, <1>6, FrameSteps
  <2>2. m = n + 1 /\ g = Meant(f, path)
    OBVIOUS
  <2>3. \A p \in w \ v : p = path
    OBVIOUS
  <2>4. v \subseteq w
    OBVIOUS
  <2> HIDE DEF m, g, w
  <2>5. /\ DOMAIN t = 1 .. m
        /\ \A i \in 1 .. n : t[i].file = s[i].file
        /\ t[m].file = g
        /\ k \in DOMAIN File(f) /\ File(f)[k][1] = "import" /\ File(f)[k][2] = path
    BY <1>1, <1>6, <2>2, EnterFacts
  <2>6. f \in Reached
    BY <1>1, <1>2 DEF Chain
  <2>7. <<path, g>> \in Edges
    BY <2>2, <2>5, <2>6, ImportFacts
  <2>8. OneMeaning => \A e \in Edges : e[1] \in w \ v => \E i \in DOMAIN t : t[i].file = e[2]
    <3> SUFFICES ASSUME OneMeaning, NEW e \in Edges, e[1] \in w \ v PROVE e[2] = g
      BY <2>2, <2>5, <1>2
    <3>1. e[1] = <<path, g>>[1]
      BY <2>3
    <3>2. e[2] = <<path, g>>[2]
      BY <3>1, <2>7 DEF OneMeaning
    <3> QED
      BY <3>2
  <2>9. Missed(t, w)
    BY <2>1, <2>2, <2>4, <2>5, <2>8, <1>1, <1>2, <1>3
  <2> QED
    BY <2>9 DEF w
<1>7. ASSUME ReturnMove(s, t) PROVE Missed(t, v)
  <2>1. FrameStep(s, t, v) /\ SameFiles(s, t)
    BY <1>1, <1>7, FrameSteps, ReturnFacts
  <2>2. BehindDealt(t, v)
    BY <1>1, <2>1, BehindKept
  <2>3. DOMAIN t = 1 .. n - 1 /\ DOMAIN File(f) = 1 .. k - 1
    BY <1>1, <1>7 DEF ReturnMove
  <2>4. k \in Nat
    <3>1. IsFrame(s[n])
      BY <1>1, <1>2 DEF Calls
    <3>2. k \in 1 .. Len(File(f)) + 1 /\ Len(File(f)) \in Nat
      BY <3>1, <1>1, StatementNumbers DEF IsFrame
    <3> QED
      BY <3>2
  <2>5. \A x : Taken(s, x) => Taken(t, x)
    BY <2>1 DEF FrameStep
  <2>6. Complete(s, v, f)
    <3>1. \A j \in 1 .. k - 1 : j < k
      BY <2>4
    <3> QED
      BY <3>1, <2>3, <1>1, <1>2 DEF Complete, BehindDealt
  <2>7. Complete(t, v, f)
    BY <2>5, <2>6, DealtKept
  <2>8. \A i \in DOMAIN s : (i \in DOMAIN t /\ t[i].file = s[i].file) \/ Complete(t, v, s[i].file)
    BY <2>1, <2>3, <2>7, <1>1, <1>2 DEF SameFiles
  <2>9. VisitedComplete(t, v)
    BY <2>5, <2>8, <1>1, VisitedKept
  <2> QED
    BY <2>2, <2>9 DEF Missed
<1> QED
  BY <1>4, <1>5, <1>6, <1>7

(***************************************************************************)
(* Nothing is taken twice, where no file has two spellings and none        *)
(* imports the root: no file is open twice, and what is taken of an open   *)
(* file is behind its call.                                                *)
(***************************************************************************)

Distinct(s) == \A p, q \in Positions(s) : Item(s, p) = Item(s, q) => ~Less(p, q)
OpenOnce(s) == \A i, j \in DOMAIN s : s[i].file = s[j].file => i = j
TakenBehind(s) == \A x : Taken(s, x) => \A i \in DOMAIN s : s[i].file = x[1] => x[2] < s[i].at

Single(s) == OneSpelling => Distinct(s) /\ OpenOnce(s) /\ TakenBehind(s)

\* Other calls for the same statements take none twice.
LEMMA DistinctKept ==
  ASSUME NEW s, NEW t, Distinct(s), SameItems(s, t)
  PROVE  Distinct(t)
<1>1. PICK h : Matches(s, t, h)
  BY DEF SameItems
<1> SUFFICES ASSUME NEW p \in Positions(t), NEW q \in Positions(t), Item(t, p) = Item(t, q)
             PROVE  ~Less(p, q)
  BY DEF Distinct
<1>2. /\ h[p] \in Positions(s) /\ Item(t, p) = Item(s, h[p])
      /\ h[q] \in Positions(s) /\ Item(t, q) = Item(s, h[q])
      /\ Less(p, q) <=> Less(h[p], h[q])
  BY <1>1 DEF Matches
<1> QED
  BY <1>2 DEF Distinct

\* Nor does one more that was not taken.
LEMMA DistinctMore ==
  ASSUME NEW s, NEW t, NEW x, Distinct(s), OneMoreItem(s, t, x), ~Taken(s, x)
  PROVE  Distinct(t)
<1>1. PICK r \in Positions(t) :
        /\ Item(t, r) = x
        /\ \A p \in Positions(t) : p = r \/ (p \in Positions(s) /\ Less(p, r))
        /\ ~Less(r, r)
  BY DEF OneMoreItem
<1>2. \A p \in Positions(s) : Item(t, p) = Item(s, p) /\ Item(s, p) # x
  BY DEF OneMoreItem, Taken
<1> SUFFICES ASSUME NEW p \in Positions(t), NEW q \in Positions(t), Item(t, p) = Item(t, q)
             PROVE  ~Less(p, q)
  BY DEF Distinct
<1>3. CASE p \in Positions(s) /\ q \in Positions(s)
  BY <1>2, <1>3 DEF Distinct
<1>4. CASE p = r /\ q = r
  BY <1>1, <1>4
<1>5. CASE (p = r /\ q \in Positions(s)) \/ (q = r /\ p \in Positions(s))
  BY <1>1, <1>2, <1>5
<1> QED
  BY <1>1, <1>3, <1>4, <1>5

\* A call's file stays open only where the call is ahead of what was taken of it.
LEMMA BehindStays ==
  ASSUME project \in Projects, NEW s, NEW t, NEW w, Calls(s), Genuine(s, w), FrameStep(s, t, w),
         \A i \in DOMAIN t : i \in DOMAIN s /\ t[i].file = s[i].file,
         NEW x, Taken(s, x), \A i \in DOMAIN s : s[i].file = x[1] => x[2] < s[i].at
  PROVE  \A i \in DOMAIN t : t[i].file = x[1] => x[2] < t[i].at
<1> SUFFICES ASSUME NEW i \in DOMAIN t, t[i].file = x[1] PROVE x[2] < t[i].at
  OBVIOUS
<1>1. x[2] < s[i].at /\ (t[i].at = s[i].at \/ t[i].at = s[i].at + 1)
  BY DEF FrameStep
<1>2. x[2] \in Nat
  BY StatementNumbers DEF Genuine
<1>3. s[i].at \in Nat
  <2>1. IsFrame(s[i])
    BY DEF Calls
  <2>2. s[i].at \in 1 .. Len(File(s[i].file)) + 1 /\ Len(File(s[i].file)) \in Nat
    BY <2>1, StatementNumbers DEF IsFrame
  <2> QED
    BY <2>2
<1> QED
  BY <1>1, <1>2, <1>3

\* No move takes a statement a second time.
LEMMA SingleMoves ==
  ASSUME project \in Projects, NEW s, NEW t, NEW v, Calls(s), Basic(s, v), Single(s)
  PROVE  /\ KeepMove(s, t) => Single(t)
         /\ \A path \in v : SkipMove(s, t, path) => Single(t)
         /\ \A path : path \notin v /\ EnterMove(s, t, path) => Single(t)
         /\ ReturnMove(s, t) => Single(t)
<1> SUFFICES ASSUME OneSpelling
             PROVE  /\ KeepMove(s, t) => Single(t)
                    /\ \A path \in v : SkipMove(s, t, path) => Single(t)
                    /\ \A path : path \notin v /\ EnterMove(s, t, path) => Single(t)
                    /\ ReturnMove(s, t) => Single(t)
  BY DEF Single
<1> DEFINE n == Len(s)
           f == s[n].file
           k == s[n].at
<1>1. /\ n \in Nat \ {0} /\ DOMAIN s = 1 .. n /\ n = Len(s) /\ f = s[n].file /\ k = s[n].at
      /\ HasOuts(s) /\ Chain(s, v) /\ Genuine(s, v)
      /\ Distinct(s) /\ OpenOnce(s) /\ TakenBehind(s)
  BY DEF Calls, Basic, Single
<1> HIDE DEF n, f, k
<1>2. (\A i \in 1 .. n : i = n \/ i \in 1 .. n - 1) /\ n \in 1 .. n
  <2>1. n \in Nat \ {0}
    BY <1>1
  <2> QED
    BY <2>1
<1>3. k \in Nat
  <2>1. IsFrame(s[n])
    BY <1>1, <1>2 DEF Calls
  <2>2. k \in 1 .. Len(File(f)) + 1 /\ Len(File(f)) \in Nat
    BY <2>1, <1>1, StatementNumbers DEF IsFrame
  <2> QED
    BY <2>2
<1>4. ASSUME FrameStep(s, t, v), SameFiles(s, t)
      PROVE  /\ OpenOnce(t)
             /\ \A x : Taken(s, x) => \A i \in DOMAIN t : t[i].file = x[1] => x[2] < t[i].at
  <2>1. OpenOnce(t)
    BY <1>1, <1>4 DEF OpenOnce, SameFiles
  <2>2. \A i \in DOMAIN t : i \in DOMAIN s /\ t[i].file = s[i].file
    BY <1>4 DEF SameFiles
  <2>3. ASSUME NEW x, Taken(s, x) PROVE \A i \in DOMAIN t : t[i].file = x[1] => x[2] < t[i].at
    <3>1. \A i \in DOMAIN s : s[i].file = x[1] => x[2] < s[i].at
      BY <2>3, <1>1 DEF TakenBehind
    <3> QED
      BY <3>1, <2>2, <2>3, <1>1, <1>4, BehindStays
  <2> QED
    BY <2>1, <2>3
<1>5. ASSUME SameItems(s, t), SameFiles(s, t), FrameStep(s, t, v) PROVE Single(t)
  <2>1. Distinct(t)
    BY <1>1, <1>5, DistinctKept
  <2>2. \A x : Taken(t, x) <=> Taken(s, x)
    BY <1>5, SameTaken
  <2>3. OpenOnce(t) /\ TakenBehind(t)
    BY <2>2, <1>4, <1>5 DEF TakenBehind
  <2> QED
    BY <2>1, <2>3 DEF Single
<1>6. ASSUME KeepMove(s, t) PROVE Single(t)
  <2>1. FrameStep(s, t, v) /\ SameFiles(s, t) /\ OneMoreItem(s, t, <<f, k>>)
    BY <1>1, <1>6, FrameSteps, KeepFacts
  <2>2. ~Taken(s, <<f, k>>)
    <3> SUFFICES ASSUME Taken(s, <<f, k>>) PROVE FALSE
      OBVIOUS
    <3>0. <<f, k>>[1] = f /\ <<f, k>>[2] = k
      OBVIOUS
    <3>1. k < s[n].at
      BY <3>0, <1>1, <1>2 DEF TakenBehind
    <3> QED
      BY <3>1, <1>1, <1>3
  <2>3. Distinct(t)
    BY <2>1, <2>2, <1>1, DistinctMore
  <2>4. \A x : Taken(t, x) <=> Taken(s, x) \/ x = <<f, k>>
    BY <2>1, OneMoreTaken
  <2>5. t[n].at = k + 1 /\ DOMAIN t = 1 .. n
    BY <1>1, <1>6 DEF KeepMove
  <2>6. \A i \in DOMAIN t : t[i].file = f => k < t[i].at
    <3> SUFFICES ASSUME NEW i \in DOMAIN t, t[i].file = f PROVE k < t[i].at
      OBVIOUS
    <3>1. i = n
      BY <2>1, <2>5, <1>1, <1>2 DEF OpenOnce, SameFiles
    <3> QED
      BY <3>1, <2>5, <1>3
  <2>7. TakenBehind(t)
    <3> SUFFICES ASSUME NEW x, Taken(t, x), NEW i \in DOMAIN t, t[i].file = x[1]
                 PROVE  x[2] < t[i].at
      BY DEF TakenBehind
    <3>1. CASE Taken(s, x)
      BY <3>1, <2>1, <1>4
    <3>2. CASE x = <<f, k>>
      BY <3>2, <2>6
    <3> QED
      BY <3>1, <3>2, <2>4
  <2> QED
    BY <2>1, <2>3, <2>7, <1>4 DEF Single
<1>7. ASSUME NEW path \in v, SkipMove(s, t, path) PROVE Single(t)
  BY <1>1, <1>5, <1>7, FrameSteps, SkipFacts
<1>8. ASSUME ReturnMove(s, t) PROVE Single(t)
  BY <1>1, <1>5, <1>8, FrameSteps, ReturnFacts
<1>9. ASSUME NEW path, path \notin v, EnterMove(s, t, path) PROVE Single(t)
  <2> DEFINE m == n + 1
             g == Meant(f, path)
             w == v \cup {path}
  <2>1. m = n + 1 /\ g = Meant(f, path)
    OBVIOUS
  <2> HIDE DEF m, g
  <2>2. /\ DOMAIN t = 1 .. m /\ SameItems(s, t)
        /\ \A i \in 1 .. n : t[i].file = s[i].file
        /\ t[m].file = g
        /\ k \in DOMAIN File(f) /\ File(f)[k][1] = "import" /\ File(f)[k][2] = path
    BY <1>1, <1>9, <2>1, EnterFacts
  <2>3. t[n].at = k + 1 /\ \A i \in 1 .. n - 1 : t[i] = s[i]
    BY <1>1, <1>9 DEF EnterMove
  <2>4. \A i \in 1 .. m : i = m \/ i \in 1 .. n
    <3>1. n \in Nat
      BY <1>1
    <3> QED
      BY <3>1, <2>1
  <2>5. f \in Reached
    BY <1>1, <1>2 DEF Chain
  <2>6. <<path, g>> \in Edges
    BY <2>1, <2>2, <2>5, ImportFacts
  <2>7. g # Root /\ \A p : <<p, g>> \in Edges => p = path
    <3>1. <<path, g>>[1] = path /\ <<path, g>>[2] = g
      OBVIOUS
    <3>2. \A p : <<p, g>>[1] = p /\ <<p, g>>[2] = g
      OBVIOUS
    <3>3. \A i, j \in Edges : i[2] # Root /\ (i[2] = j[2] => i[1] = j[1])
      BY DEF OneSpelling
    <3> QED
      BY <3>1, <3>2, <3>3, <2>6
  <2>8. ~Opened(v, g)
    BY <2>7, <1>9 DEF Opened
  <2>9. \A i \in 1 .. n : s[i].file # g
    <3> SUFFICES ASSUME NEW i \in 1 .. n PROVE Opened(v, s[i].file)
      BY <2>8
    <3>1. i = 1 \/ \E p \in v : <<p, s[i].file>> \in Edges
      BY <1>1 DEF Chain
    <3>2. s[1].file = Root
      BY <1>1 DEF Chain
    <3> QED
      BY <3>1, <3>2 DEF Opened
  <2>10. OpenOnce(t)
    <3> SUFFICES ASSUME NEW i \in 1 .. m, NEW j \in 1 .. m, t[i].file = t[j].file
                 PROVE  i = j
      BY <2>2 DEF OpenOnce
    <3>1. CASE i = m /\ j = m
      BY <3>1
    <3>2. CASE i \in 1 .. n /\ j \in 1 .. n
      BY <3>2, <2>2, <1>1 DEF OpenOnce
    <3>3. CASE (i \in 1 .. n /\ j = m) \/ (i = m /\ j \in 1 .. n)
      BY <3>3, <2>2, <2>9
    <3> QED
      BY <3>1, <3>2, <3>3, <2>4
  <2>11. \A x : Taken(t, x) <=> Taken(s, x)
    BY <2>2, SameTaken
  <2>12. TakenBehind(t)
    <3> SUFFICES ASSUME NEW x, Taken(s, x), NEW i \in 1 .. m, t[i].file = x[1]
                 PROVE  x[2] < t[i].at
      BY <2>2, <2>11 DEF TakenBehind
    <3>1. Opened(v, x[1]) /\ x[2] \in Nat
      BY <1>1, StatementNumbers DEF Genuine
    <3>2. i \in 1 .. n
      BY <3>1, <2>2, <2>4, <2>8
    <3>3. x[2] < s[i].at
      BY <3>2, <2>2, <1>1 DEF TakenBehind
    <3>4. CASE i = n
      <4>1. x[2] < k
        BY <3>3, <3>4, <1>1
      <4> QED
        BY <4>1, <3>1, <3>4, <2>3, <1>3
    <3>5. CASE i \in 1 .. n - 1
      BY <3>3, <3>5, <2>3
    <3> QED
      BY <3>2, <3>4, <3>5, <1>2
  <2>13. Distinct(t)
    BY <2>2, <1>1, DistinctKept
  <2> QED
    BY <2>10, <2>12, <2>13 DEF Single
<1> QED
  BY <1>6, <1>7, <1>8, <1>9

(***************************************************************************)
(* What a file imports comes before what follows the import, where also    *)
(* no file imports itself through others: the file of an import that is    *)
(* behind a statement taken was opened, and is not open any more.          *)
(***************************************************************************)

MustPrecede(x, y) ==
  \E k \in 1 .. y[2] - 1 : /\ File(y[1])[k][1] = "import"
                           /\ Meant(y[1], File(y[1])[k][2]) = x[1]
InOrder(s) == \A p, q \in Positions(s) : MustPrecede(Item(s, p), Item(s, q)) => Less(p, q)
Settled(s, v) ==
  \A x : Taken(s, x) => \A k \in 1 .. x[2] - 1 :
    File(x[1])[k][1] = "import" =>
      /\ File(x[1])[k][2] \in v
      /\ \A i \in DOMAIN s : s[i].file # Meant(x[1], File(x[1])[k][2])

Ordered(s, v) == OneSpelling /\ Acyclic => InOrder(s) /\ Settled(s, v)

\* Other calls for the same statements keep their order.
LEMMA InOrderKept ==
  ASSUME NEW s, NEW t, InOrder(s), SameItems(s, t)
  PROVE  InOrder(t)
<1>1. PICK h : Matches(s, t, h)
  BY DEF SameItems
<1> SUFFICES ASSUME NEW p \in Positions(t), NEW q \in Positions(t), MustPrecede(Item(t, p), Item(t, q))
             PROVE  Less(p, q)
  BY DEF InOrder
<1>2. /\ h[p] \in Positions(s) /\ Item(t, p) = Item(s, h[p])
      /\ h[q] \in Positions(s) /\ Item(t, q) = Item(s, h[q])
      /\ Less(p, q) <=> Less(h[p], h[q])
  BY <1>1 DEF Matches
<1> QED
  BY <1>2 DEF InOrder

\* One more is in order where it must precede none of the others.
LEMMA InOrderMore ==
  ASSUME NEW s, NEW t, NEW x, InOrder(s), OneMoreItem(s, t, x),
         ~MustPrecede(x, x), \A y : Taken(s, y) => ~MustPrecede(x, y)
  PROVE  InOrder(t)
<1>1. PICK r \in Positions(t) :
        /\ Item(t, r) = x
        /\ \A p \in Positions(t) : p = r \/ (p \in Positions(s) /\ Less(p, r))
  BY DEF OneMoreItem
<1>2. \A p \in Positions(s) : Item(t, p) = Item(s, p) /\ Taken(s, Item(s, p))
  BY DEF OneMoreItem, Taken
<1> SUFFICES ASSUME NEW p \in Positions(t), NEW q \in Positions(t), MustPrecede(Item(t, p), Item(t, q))
             PROVE  Less(p, q)
  BY DEF InOrder
<1>3. CASE p \in Positions(s) /\ q \in Positions(s)
  BY <1>2, <1>3 DEF InOrder
<1>4. CASE p = r /\ q = r
  BY <1>1, <1>4
<1>5. CASE p = r /\ q \in Positions(s)
  BY <1>1, <1>2, <1>5
<1>6. CASE p # r /\ q = r
  BY <1>1, <1>6
<1> QED
  BY <1>1, <1>3, <1>4, <1>5, <1>6

\* The moves keep the order: what is kept last is of a file that no statement before
\* it imports.
LEMMA OrderedMoves ==
  ASSUME project \in Projects, NEW s, NEW t, NEW v, Calls(s), Basic(s, v), Missed(s, v), Ordered(s, v)
  PROVE  /\ KeepMove(s, t) => Ordered(t, v)
         /\ \A path \in v : SkipMove(s, t, path) => Ordered(t, v)
         /\ \A path : path \notin v /\ EnterMove(s, t, path) => Ordered(t, v \cup {path})
         /\ ReturnMove(s, t) => Ordered(t, v)
<1> SUFFICES ASSUME OneSpelling, Acyclic
             PROVE  /\ KeepMove(s, t) => Ordered(t, v)
                    /\ \A path \in v : SkipMove(s, t, path) => Ordered(t, v)
                    /\ \A path : path \notin v /\ EnterMove(s, t, path) => Ordered(t, v \cup {path})
                    /\ ReturnMove(s, t) => Ordered(t, v)
  BY DEF Ordered
<1> DEFINE n == Len(s)
           f == s[n].file
           k == s[n].at
<1>1. /\ n \in Nat \ {0} /\ DOMAIN s = 1 .. n /\ n = Len(s) /\ f = s[n].file /\ k = s[n].at
      /\ HasOuts(s) /\ Chain(s, v) /\ Genuine(s, v)
      /\ BehindDealt(s, v) /\ InOrder(s) /\ Settled(s, v)
  BY DEF Calls, Basic, Missed, Ordered
<1> HIDE DEF n, f, k
<1>2. (\A i \in 1 .. n : i = n \/ i < n) /\ n \in 1 .. n
  <2>1. n \in Nat \ {0}
    BY <1>1
  <2> QED
    BY <2>1
<1>3. f \in Reached
  BY <1>1, <1>2 DEF Chain
<1>4. ASSUME SameItems(s, t), SameFiles(s, t) PROVE Ordered(t, v)
  <2>1. InOrder(t)
    BY <1>1, <1>4, InOrderKept
  <2>2. \A x : Taken(t, x) <=> Taken(s, x)
    BY <1>4, SameTaken
  <2>3. Settled(t, v)
    BY <2>2, <1>1, <1>4 DEF Settled, SameFiles
  <2> QED
    BY <2>1, <2>3 DEF Ordered
<1>5. ASSUME KeepMove(s, t) PROVE Ordered(t, v)
  <2> DEFINE y == <<f, k>>
  <2>1. SameFiles(s, t) /\ OneMoreItem(s, t, y) /\ k \in DOMAIN File(f)
    BY <1>1, <1>5, KeepFacts DEF KeepMove
  <2>2. y[1] = f /\ y[2] = k
    OBVIOUS
  <2> HIDE DEF y
  <2>3. ASSUME NEW j \in 1 .. k - 1, File(f)[j][1] = "import"
        PROVE  /\ File(f)[j][2] \in v
               /\ \A i \in DOMAIN s : s[i].file # Meant(f, File(f)[j][2])
    <3> DEFINE g == Meant(f, File(f)[j][2])
    <3>1. j \in DOMAIN File(f) /\ j < k
      <4>1. DOMAIN File(f) = 1 .. Len(File(f)) /\ Len(File(f)) \in Nat
        BY StatementNumbers
      <4> QED
        BY <4>1, <2>1, <2>3
    <3>2. File(f)[j][2] \in v
      BY <3>1, <2>3, <1>1, <1>2 DEF BehindDealt, Dealt
    <3>3. g \in Places => g \in Imported(f)
      BY <3>1, <2>3, ImportFacts
    <3>4. ASSUME NEW i \in DOMAIN s PROVE s[i].file # g
      <4> SUFFICES ASSUME s[i].file = g PROVE FALSE
        OBVIOUS
      <4>1. g \in Reached
        BY <1>1 DEF Chain
      <4>2. g \in Imported(f)
        BY <4>1, <3>3, BeforeFacts
      <4> HIDE DEF g
      <4>3. Before(f, f)
        <5>1. CASE i = n
          BY <5>1, <4>2, <1>1, BeforeFacts
        <5>2. CASE i < n
          <6>1. Before(g, f)
            BY <5>2, <1>1, <1>2 DEF Chain
          <6> QED
            BY <6>1, <4>2, BeforeFacts
        <5> QED
          BY <5>1, <5>2, <1>1, <1>2
      <4> QED
        BY <4>3, <1>3 DEF Acyclic
    <3> QED
      BY <3>2, <3>4
  <2>4. \A x : Taken(t, x) <=> Taken(s, x) \/ x = y
    BY <2>1, OneMoreTaken
  <2>5. ~MustPrecede(y, y)
    BY <2>2, <2>3, <1>1, <1>2 DEF MustPrecede
  <2>6. \A x : Taken(s, x) => ~MustPrecede(y, x)
    BY <2>2, <1>1, <1>2 DEF MustPrecede, Settled
  <2>7. InOrder(t)
    BY <2>1, <2>5, <2>6, <1>1, InOrderMore
  <2>8. Settled(t, v)
    <3> SUFFICES ASSUME NEW x, Taken(t, x), NEW j \in 1 .. x[2] - 1, File(x[1])[j][1] = "import"
                 PROVE  /\ File(x[1])[j][2] \in v
                        /\ \A i \in DOMAIN t : t[i].file # Meant(x[1], File(x[1])[j][2])
      BY DEF Settled
    <3>1. /\ File(x[1])[j][2] \in v
          /\ \A i \in DOMAIN s : s[i].file # Meant(x[1], File(x[1])[j][2])
      <4>1. CASE Taken(s, x)
        BY <4>1, <1>1 DEF Settled
      <4>2. CASE x = y
        BY <4>2, <2>2, <2>3
      <4> QED
        BY <4>1, <4>2, <2>4
    <3> QED
      BY <3>1, <2>1 DEF SameFiles
  <2> QED
    BY <2>7, <2>8 DEF Ordered
<1>6. ASSUME NEW path \in v, SkipMove(s, t, path) PROVE Ordered(t, v)
  BY <1>1, <1>4, <1>6, SkipFacts
<1>7. ASSUME ReturnMove(s, t) PROVE Ordered(t, v)
  BY <1>1, <1>4, <1>7, ReturnFacts
<1>8. ASSUME NEW path, path \notin v, EnterMove(s, t, path) PROVE Ordered(t, v \cup {path})
  <2> DEFINE m == n + 1
             g == Meant(f, path)
             w == v \cup {path}
  <2>1. m = n + 1 /\ g = Meant(f, path)
    OBVIOUS
  <2> HIDE DEF m, g
  <2>2. /\ DOMAIN t = 1 .. m /\ SameItems(s, t)
        /\ \A i \in 1 .. n : t[i].file = s[i].file
        /\ t[m].file = g
        /\ k \in DOMAIN File(f) /\ File(f)[k][1] = "import" /\ File(f)[k][2] = path
    BY <1>1, <1>8, <2>1, EnterFacts
  <2>3. \A i \in 1 .. m : i = m \/ i \in 1 .. n
    <3>1. n \in Nat
      BY <1>1
    <3> QED
      BY <3>1, <2>1
  <2>4. <<path, g>> \in Edges
    BY <2>1, <2>2, <1>3, ImportFacts
  <2>5. \A p : <<p, g>> \in Edges => p = path
    <3>1. \A p : <<p, g>>[1] = p /\ <<p, g>>[2] = g
      OBVIOUS
    <3>2. \A i, j \in Edges : i[2] # Root /\ (i[2] = j[2] => i[1] = j[1])
      BY DEF OneSpelling
    <3> QED
      BY <3>1, <3>2, <2>4
  <2>6. InOrder(t)
    BY <2>2, <1>1, InOrderKept
  <2>7. \A x : Taken(t, x) <=> Taken(s, x)
    BY <2>2, SameTaken
  <2>8. Settled(t, w)
    <3> SUFFICES ASSUME NEW x, Taken(s, x), NEW j \in 1 .. x[2] - 1, File(x[1])[j][1] = "import"
                 PROVE  /\ File(x[1])[j][2] \in w
                        /\ \A i \in 1 .. m : t[i].file # Meant(x[1], File(x[1])[j][2])
      BY <2>2, <2>7 DEF Settled
    <3> DEFINE p == File(x[1])[j][2]
    <3>1. p \in v /\ \A i \in DOMAIN s : s[i].file # Meant(x[1], p)
      BY <1>1 DEF Settled
    <3>2. x[1] \in Reached /\ x[2] \in DOMAIN File(x[1])
      BY <1>1 DEF Genuine
    <3>3. j \in DOMAIN File(x[1])
      <4>1. DOMAIN File(x[1]) = 1 .. Len(File(x[1])) /\ Len(File(x[1])) \in Nat
        BY StatementNumbers
      <4> QED
        BY <4>1, <3>2
    <3>4. <<p, Meant(x[1], p)>> \in Edges
      BY <3>2, <3>3, ImportFacts
    <3> HIDE DEF p
    <3>5. Meant(x[1], p) # g
      BY <3>1, <3>4, <2>5, <1>8
    <3>6. p \in w /\ \A i \in 1 .. m : t[i].file # Meant(x[1], p)
      BY <3>1, <3>5, <2>2, <2>3, <1>1
    <3> QED
      BY <3>6 DEF p
  <2> QED
    BY <2>6, <2>8 DEF Ordered
<1> QED
  BY <1>5, <1>6, <1>7, <1>8

(***************************************************************************)
(* From the calls to the program: what holds while the imports are         *)
(* resolved, and of the list of statements when they are.                  *)
(***************************************************************************)

Resolution(s, v) == Basic(s, v) /\ Missed(s, v) /\ Single(s) /\ Ordered(s, v)

ImportInv ==
  /\ TypeInv
  /\ (stage = "reading" => visited = {})
  /\ (stage = "resolving" => Resolution(stack, visited))
  /\ NothingTwice /\ NothingMissed /\ ImportsComeFirst

\* All of this at once.
LEMMA ResolutionMoves ==
  ASSUME project \in Projects, NEW s, NEW t, NEW v, Calls(s), Resolution(s, v)
  PROVE  /\ KeepMove(s, t) => Resolution(t, v)
         /\ \A path \in v : SkipMove(s, t, path) => Resolution(t, v)
         /\ \A path : path \notin v /\ EnterMove(s, t, path) => Resolution(t, v \cup {path})
         /\ ReturnMove(s, t) => Resolution(t, v)
<1>1. Basic(s, v) /\ Missed(s, v) /\ Single(s) /\ Ordered(s, v)
  BY DEF Resolution
<1> QED
  BY <1>1, BasicMoves, MissedMoves, SingleMoves, OrderedMoves DEF Resolution

\* With the root's call alone there is nothing to keep.
LEMMA ResolutionBegins ==
  ASSUME project \in Projects, NEW s, s = <<Frame(Root)>>
  PROVE  Resolution(s, {})
<1>1. /\ DOMAIN s = {1} /\ s[1].file = Root /\ s[1].at = 1 /\ s[1].out = <<>>
  <2>1. /\ Len(s) = 1 /\ s \in Seq({Frame(Root)}) /\ s[1] = Frame(Root)
    OBVIOUS
  <2>2. DOMAIN s = 1 .. 1
    BY <2>1
  <2>3. \A i : i \in 1 .. 1 <=> i = 1
    OBVIOUS
  <2> QED
    BY <2>1, <2>2, <2>3 DEF Frame
<1>2. <<>> \in Seq({}) /\ DOMAIN <<>> = {}
  OBVIOUS
<1>3. HasOuts(s)
  BY <1>1, <1>2 DEF HasOuts, IsSequence
<1>4. Positions(s) = {} /\ \A x : ~Taken(s, x)
  <2>1. \A p \in Positions(s) : FALSE
    BY <1>1, <1>2, PositionFacts
  <2> QED
    BY <2>1 DEF Taken
<1>5. Basic(s, {})
  <2>1. ~(1 < 1)
    OBVIOUS
  <2> QED
    BY <2>1, <1>1, <1>3, <1>4, BeforeFacts DEF Basic, Chain, Genuine
<1>6. BehindDealt(s, {})
  <2> SUFFICES ASSUME NEW k \in DOMAIN File(Root), k < 1 PROVE FALSE
    BY <1>1 DEF BehindDealt
  <2>1. k \in Nat \ {0}
    BY StatementNumbers
  <2> QED
    BY <2>1
<1>7. VisitedComplete(s, {})
  BY DEF VisitedComplete
<1>8. Single(s)
  BY <1>1, <1>4 DEF Single, Distinct, OpenOnce, TakenBehind
<1>9. Ordered(s, {})
  BY <1>4 DEF Ordered, InOrder, Settled
<1> QED
  BY <1>5, <1>6, <1>7, <1>8, <1>9 DEF Resolution, Missed

\* The program is what the root's call has taken, when it is the last one and at
\* its end.
LEMMA ProgramItems ==
  ASSUME NEW s, Calls(s), Len(s) = 1, HasOuts(s)
  PROVE  /\ DOMAIN s = {1}
         /\ \A a \in DOMAIN s[1].out : /\ a \in Nat
                                       /\ <<1, a>> \in Positions(s) /\ Item(s, <<1, a>>) = s[1].out[a]
                                       /\ Taken(s, s[1].out[a])
         /\ \A a, b : Less(<<1, a>>, <<1, b>>) <=> a < b
         /\ \A x : Taken(s, x) => \E a \in DOMAIN s[1].out : s[1].out[a] = x
<1>1. DOMAIN s = {1}
  <2>1. DOMAIN s = 1 .. 1
    BY DEF Calls
  <2> QED
    BY <2>1
<1>2. ASSUME NEW a \in DOMAIN s[1].out
      PROVE  /\ a \in Nat
             /\ <<1, a>> \in Positions(s) /\ Item(s, <<1, a>>) = s[1].out[a]
             /\ Taken(s, s[1].out[a])
  <2>1. IsSequence(s[1].out)
    BY <1>1 DEF HasOuts
  <2>2. a \in Nat
    BY <2>1, OutExtended
  <2>3. <<1, a>> \in Positions(s) /\ Item(s, <<1, a>>) = s[1].out[a]
    BY <1>1, PositionFacts
  <2> QED
    BY <2>2, <2>3 DEF Taken
<1>3. \A a, b : Less(<<1, a>>, <<1, b>>) <=> a < b
  BY DEF Less
<1>4. ASSUME NEW x, Taken(s, x) PROVE \E a \in DOMAIN s[1].out : s[1].out[a] = x
  <2>1. PICK p \in Positions(s) : Item(s, p) = x
    BY <1>4 DEF Taken
  <2>2. p = <<p[1], p[2]>> /\ p[1] = 1 /\ p[2] \in DOMAIN s[1].out
    BY <1>1, PositionFacts
  <2> QED
    BY <2>1, <2>2 DEF Item
<1> QED
  BY <1>1, <1>2, <1>3, <1>4

\* At the end of the root's call everything reached is dealt with.
LEMMA AllComplete ==
  ASSUME project \in Projects, NEW s, NEW v, Calls(s), Len(s) = 1, Resolution(s, v), OneMeaning,
         DOMAIN File(s[1].file) = 1 .. s[1].at - 1
  PROVE  \A f \in Reached : Complete(s, v, f)
<1>1. /\ DOMAIN s = {1} /\ s[1].file = Root /\ IsFrame(s[1])
      /\ BehindDealt(s, v) /\ VisitedComplete(s, v)
  BY ProgramItems DEF Calls, Resolution, Basic, Chain, Missed
<1>2. Complete(s, v, Root)
  <2>1. s[1].at \in Nat
    <3>1. s[1].at \in 1 .. Len(File(Root)) + 1 /\ Len(File(Root)) \in Nat
      BY <1>1, StatementNumbers DEF IsFrame
    <3> QED
      BY <3>1
  <2>2. \A k \in 1 .. s[1].at - 1 : k < s[1].at
    BY <2>1
  <2> QED
    BY <1>1, <2>2 DEF BehindDealt, Complete
<1> DEFINE C == {f \in Reached : Complete(s, v, f)}
<1>3. Root \in C /\ C \in SUBSET Places
  BY <1>2, BeforeFacts
<1>4. Closed(C)
  <2> SUFFICES ASSUME NEW f \in C, NEW g \in Imported(f) PROVE g \in C
    BY DEF Closed
  <2>1. g \in Reached
    BY BeforeFacts
  <2>2. PICK i \in ImportsOf(f) : i[2] = g
    BY DEF Imported
  <2>3. PICK p \in {q \in Spellings : \E k \in DOMAIN File(f) : File(f)[k] = <<"import", q>>} :
          i = <<p, Meant(f, p)>>
    BY DEF ImportsOf
  <2>4. PICK k \in DOMAIN File(f) : File(f)[k] = <<"import", p>>
    BY <2>3
  <2>5. File(f)[k][1] = "import" /\ File(f)[k][2] = p
    BY <2>4
  <2>6. p \in v
    BY <2>5 DEF Complete, Dealt
  <2>7. i \in Edges /\ i[1] = p
    BY <2>2, <2>3 DEF Edges
  <2>8. (\E j \in DOMAIN s : s[j].file = g) \/ Complete(s, v, g)
    BY <2>2, <2>6, <2>7, <1>1 DEF VisitedComplete
  <2>9. Complete(s, v, g)
    BY <2>8, <1>1, <1>2
  <2> QED
    BY <2>1, <2>9
<1>5. {Root} \in SUBSET Places
  BY BeforeFacts
<1> HIDE DEF C
<1>6. Reached \subseteq C
  BY <1>3, <1>4, <1>5, ClosureFacts DEF Reached
<1> QED
  BY <1>6 DEF C

\* The list that resolve_imports returns to main.
LEMMA ResolvedStep ==
  ASSUME ImportInv, Resolved
  PROVE  NothingTwice' /\ NothingMissed' /\ ImportsComeFirst'
<1>1. /\ TypeInv /\ stage = "resolving" /\ AtEnd /\ Len(stack) = 1
      /\ program' = Top.out /\ UNCHANGED project /\ Resolution(stack, visited)
  BY DEF Resolved, ImportInv
<1>2. /\ Calls(stack) /\ Top = stack[1] /\ DOMAIN File(stack[1].file) = 1 .. stack[1].at - 1
      /\ project \in Projects
  BY <1>1, CallsOpen DEF TypeInv
<1> DEFINE s == stack
           v == visited
<1>3. /\ Basic(s, v) /\ Single(s) /\ Ordered(s, v) /\ HasOuts(s)
  BY <1>1 DEF Resolution, Basic
<1>4. program' = s[1].out
  BY <1>1, <1>2
<1>5. /\ DOMAIN s = {1}
      /\ \A a \in DOMAIN s[1].out : /\ a \in Nat
                                    /\ <<1, a>> \in Positions(s) /\ Item(s, <<1, a>>) = s[1].out[a]
                                    /\ Taken(s, s[1].out[a])
      /\ \A a, b : Less(<<1, a>>, <<1, b>>) <=> a < b
      /\ \A x : Taken(s, x) => \E a \in DOMAIN s[1].out : s[1].out[a] = x
  BY <1>1, <1>2, <1>3, ProgramItems
<1>6. /\ \A f : File(f)' = File(f)
      /\ Reached' = Reached /\ OneSpelling' = OneSpelling /\ OneMeaning' = OneMeaning /\ Acyclic' = Acyclic
  BY <1>1, MeaningKept
<1>7. \A x : Taken(s, x) => x[1] \in Reached /\ x[2] \in DOMAIN File(x[1])
  BY <1>3 DEF Basic, Genuine
<1>8. OneMeaning => \A f \in Reached : Complete(s, v, f)
  BY <1>1, <1>2, AllComplete
<1> HIDE DEF s, v
<1>9. NothingTwice'
  <2> SUFFICES ASSUME OneSpelling, NEW i \in DOMAIN s[1].out, NEW j \in DOMAIN s[1].out,
                      s[1].out[i] = s[1].out[j]
               PROVE  i = j
    BY <1>4, <1>6 DEF NothingTwice
  <2>1. ~(i < j) /\ ~(j < i)
    BY <1>3, <1>5 DEF Single, Distinct
  <2>2. i \in Nat /\ j \in Nat
    BY <1>5
  <2> QED
    BY <2>1, <2>2
<1>10. NothingMissed'
  <2> SUFFICES ASSUME OneMeaning, NEW f \in Reached, NEW k \in DOMAIN File(f), File(f)[k][1] # "import"
               PROVE  \E i \in DOMAIN s[1].out : s[1].out[i] = <<f, k>>
    BY <1>4, <1>6 DEF NothingMissed
  <2>1. Taken(s, <<f, k>>)
    BY <1>8 DEF Complete, Dealt
  <2> QED
    BY <2>1, <1>5
<1>11. ImportsComeFirst'
  <2> SUFFICES ASSUME OneSpelling, Acyclic, NEW i \in DOMAIN s[1].out, NEW j \in DOMAIN s[1].out,
                      MustPrecede(s[1].out[i], s[1].out[j])
               PROVE  i < j
    BY <1>4, <1>6 DEF ImportsComeFirst, MustPrecede
  <2>1. InOrder(s)
    BY <1>3 DEF Ordered
  <2>2. /\ <<1, i>> \in Positions(s) /\ Item(s, <<1, i>>) = s[1].out[i]
        /\ <<1, j>> \in Positions(s) /\ Item(s, <<1, j>>) = s[1].out[j]
    BY <1>5
  <2>3. Less(<<1, i>>, <<1, j>>)
    BY <2>1, <2>2 DEF InOrder
  <2> QED
    BY <2>3, <1>5
<1> QED
  BY <1>9, <1>10, <1>11

\* The invariants of the calls are about the project too, and it does not change.
LEMMA ResolutionKept ==
  ASSUME UNCHANGED project, Resolution(stack', visited')
  PROVE  Resolution(stack, visited)'
<1>1. /\ \A f : File(f)' = File(f)
      /\ \A f, g : Before(f, g)' = Before(f, g)
      /\ Reached' = Reached /\ Edges' = Edges
      /\ OneSpelling' = OneSpelling /\ OneMeaning' = OneMeaning /\ Acyclic' = Acyclic
  BY MeaningKept
<1>2. /\ Chain(stack', visited') /\ Genuine(stack', visited') /\ HasOuts(stack')
      /\ BehindDealt(stack', visited') /\ VisitedComplete(stack', visited')
      /\ Single(stack') /\ Ordered(stack', visited')
  BY DEF Resolution, Basic, Missed
<1>3. Chain(stack, visited)'
  BY <1>1, <1>2 DEF Chain
<1>4. Genuine(stack, visited)'
  BY <1>1, <1>2 DEF Genuine, Opened
<1>5. HasOuts(stack)'
  BY <1>2
<1>6. BehindDealt(stack, visited)'
  BY <1>1, <1>2 DEF BehindDealt, Dealt
<1>7. VisitedComplete(stack, visited)'
  BY <1>1, <1>2 DEF VisitedComplete, Complete, Dealt
<1>8. Single(stack)'
  BY <1>1, <1>2 DEF Single
<1>9. Ordered(stack, visited)'
  BY <1>1, <1>2 DEF Ordered, InOrder, Settled, MustPrecede
<1> QED
  BY <1>3, <1>4, <1>5, <1>6, <1>7, <1>8, <1>9 DEF Resolution, Basic, Missed

\* Before the first step, and from step to step.
LEMMA ImportInit == Init => ImportInv
BY TypeInit DEF Init, ImportInv, NothingTwice, NothingMissed, ImportsComeFirst, IsResolved

LEMMA ImportStep == ImportInv /\ [Next]_vars => ImportInv'
<1> SUFFICES ASSUME ImportInv, [Next]_vars PROVE ImportInv'
  OBVIOUS
<1>1. TypeInv /\ TypeInv' /\ project \in Projects
  BY TypeStep DEF ImportInv, TypeInv
<1>2. ASSUME stage' # "resolved" PROVE NothingTwice' /\ NothingMissed' /\ ImportsComeFirst'
  BY <1>2 DEF NothingTwice, NothingMissed, ImportsComeFirst, IsResolved
<1>3. ASSUME UNCHANGED vars PROVE ImportInv'
  <2>1. UNCHANGED <<project, program, stage, stack, visited>>
    BY <1>3 DEF vars
  <2>2. /\ \A f : File(f)' = File(f)
        /\ Reached' = Reached /\ OneSpelling' = OneSpelling /\ OneMeaning' = OneMeaning /\ Acyclic' = Acyclic
    BY <2>1, MeaningKept
  <2>3. NothingTwice' /\ NothingMissed' /\ ImportsComeFirst'
    BY <2>1, <2>2 DEF ImportInv, NothingTwice, NothingMissed, ImportsComeFirst, IsResolved
  <2>4. stage' = "resolving" => Resolution(stack, visited)'
    BY <2>1, ResolutionKept DEF ImportInv
  <2> QED
    BY <1>1, <2>1, <2>3, <2>4 DEF ImportInv
<1>4. CASE ReadRoot
  <2>1. CASE stage' = "stopped"
    BY <2>1, <1>1, <1>2 DEF ImportInv
  <2>2. CASE /\ stage' = "resolving" /\ stack' = <<Frame(Root)>>
             /\ UNCHANGED <<project, visited>> /\ visited = {}
    <3>1. Resolution(stack', {})
      BY <2>2, <1>1, ResolutionBegins
    <3>2. Resolution(stack, visited)'
      BY <2>2, <3>1, ResolutionKept
    <3> QED
      BY <2>2, <3>2, <1>1, <1>2 DEF ImportInv
  <2> QED
    BY <1>4, <2>1, <2>2 DEF ReadRoot, Stop, ImportInv
<1>5. CASE stage = "resolving" /\ stage' = "resolving"
  <2>1. Calls(stack) /\ Resolution(stack, visited)
    BY <1>1, <1>5, CallsOpen DEF ImportInv
  <2>2. UNCHANGED project
    BY <1>1, <1>5, Moves
  <2>3. Resolution(stack', visited')
    BY <1>1, <1>5, <2>1, Moves, ResolutionMoves
  <2>4. Resolution(stack, visited)'
    BY <2>2, <2>3, ResolutionKept
  <2> QED
    BY <2>4, <1>1, <1>2, <1>5 DEF ImportInv
<1>6. CASE Resolved
  <2>1. stage' = "resolved"
    BY <1>6 DEF Resolved
  <2> QED
    BY <2>1, <1>1, <1>6, ResolvedStep DEF ImportInv
<1>7. CASE \/ Keep \/ Return \/ \E path \in Spellings : Skip(path) \/ Enter(path)
  BY <1>5, <1>7 DEF Keep, Return, Skip, Enter, Importing, Resolving
<1>8. CASE \/ \E path \in Spellings : Fail(path)
           \/ Refuse \/ Accept \/ Expand \/ BackEnd \/ Report \/ EmitAst
  <2>1. stage' \in {"stopped", "checked", "expanded", "done"}
    BY <1>8 DEF Fail, Refuse, Accept, Expand, BackEnd, Report, EmitAst, Stop, Goes
  <2> QED
    BY <2>1, <1>1, <1>2 DEF ImportInv
<1> QED
  BY <1>3, <1>4, <1>6, <1>7, <1>8 DEF Next

\* resolve_imports takes no statement twice (main.rs:62-80), in every project that
\* gives no file two spellings and imports its root nowhere, however the files
\* import one another.
THEOREM StatementsComeOnce == Spec => []NothingTwice
<1>1. ImportInv => NothingTwice
  BY DEF ImportInv
<1> QED
  BY <1>1, ImportInit, ImportStep, PTL DEF Spec

\* resolve_imports takes every statement of every file that is imported, however
\* far down, where a spelling means the same file wherever it stands.
THEOREM StatementsAllCome == Spec => []NothingMissed
<1>1. ImportInv => NothingMissed
  BY DEF ImportInv
<1> QED
  BY <1>1, ImportInit, ImportStep, PTL DEF Spec

\* What a file imports stands before what follows the import in it, where no file
\* has two spellings, none imports the root and none imports itself through others:
\* a statement can use what was imported above it.
THEOREM ImportedIsThere == Spec => []ImportsComeFirst
<1>1. ImportInv => ImportsComeFirst
  BY DEF ImportInv
<1> QED
  BY <1>1, ImportInit, ImportStep, PTL DEF Spec
=============================================================================
