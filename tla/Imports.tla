------------------------------- MODULE Imports -------------------------------
(***************************************************************************)
(* The driver (main.rs): reading a program and the files it imports into   *)
(* one list of statements, and what each command does with the list.       *)
(*                                                                         *)
(* A place is where a file is, the names from the top directory down.  A   *)
(* spelling is what stands in an `import`: names, "." and "..", the last   *)
(* one the name of a file.  A file is a sequence of statements,            *)
(* <<"import", spelling>>, <<"fine">> or <<"ill">> (one the checker        *)
(* refuses), or it is Unreadable, or Garbled (it does not parse).          *)
(***************************************************************************)
EXTENDS Naturals, Sequences, FiniteSets
LOCAL INSTANCE SequencesExt

CONSTANTS Projects,    \* what may be on the disk: a function from places to files
          Spellings,   \* what the imports of these projects say
          Root         \* the place of the file named on the command line

Unreadable == <<<<"unreadable">>>>
Garbled == <<<<"garbled">>>>
Statement == {<<"fine">>, <<"ill">>, <<"unreadable">>, <<"garbled">>} \cup {<<"import", s>> : s \in Spellings}
Commands == {"run", "build", "check", "emit-ast"}

ASSUME ProjectAssumption ==
  /\ \A p \in Projects : \A f \in DOMAIN p : p[f] \in Seq(Statement)
  /\ IsFiniteSet(Spellings)

VARIABLES project,   \* the files
          command,   \* the command given
          stage,     \* how far main has come
          visited,   \* the spellings taken so far, whatever file they were in
          stack,     \* the calls of resolve_imports: file, next statement, new_stmts
          program,   \* the statements there are at the end, as <<place, number>>
          report     \* the diagnostic: the file shown, the file it is about
vars == <<project, command, stage, visited, stack, program, report>>

NoReport == [shown |-> <<>>, about |-> <<>>]
Stages == {"reading", "resolving", "resolved", "checked", "expanded", "done", "stopped"}

File(place) == IF place \in DOMAIN project THEN project[place] ELSE Unreadable
Joined(dir, path) ==
  FoldLeft(LAMBDA d, n : IF n = "." THEN d ELSE IF n = ".." THEN Front(d) ELSE Append(d, n), dir, path)
\* What a spelling means in a file at `place`.
Meant(place, path) == Joined(Front(place), path)

Frame(place) == [file |-> place, at |-> 1, out |-> <<>>]
Top == stack[Len(stack)]
Below == SubSeq(stack, 1, Len(stack) - 1)
Current == File(Top.file)[Top.at]
AtEnd == Top.at > Len(File(Top.file))
WithTop(frame) == Append(Below, frame)
Passed == [Top EXCEPT !.at = @ + 1]

Init ==
  /\ project \in Projects
  /\ command \in Commands
  /\ stage = "reading"
  /\ visited = {}
  /\ stack = <<>>
  /\ program = <<>>
  /\ report = NoReport

\* Exit 1, with a diagnostic that quotes the file at `shown`.
Stop(shown, about) ==
  /\ stage' = "stopped"
  /\ report' = [shown |-> shown, about |-> about]
  /\ UNCHANGED <<project, command, visited, stack, program>>

ReadRoot ==
  /\ stage = "reading"
  /\ IF File(Root) \in {Unreadable, Garbled} THEN Stop(Root, Root)
     ELSE /\ stage' = "resolving"
          /\ stack' = <<Frame(Root)>>
          /\ UNCHANGED <<project, command, visited, program, report>>

(***************************************************************************)
(* resolve_imports, a statement at a time.                                 *)
(***************************************************************************)

Resolving == stage = "resolving" /\ ~AtEnd
Importing(path) == Resolving /\ Current = <<"import", path>>

Keep ==
  /\ Resolving
  /\ Current[1] # "import"
  /\ stack' = WithTop([Passed EXCEPT !.out = Append(@, <<Top.file, Top.at>>)])
  /\ UNCHANGED <<project, command, stage, visited, program, report>>

SkipStays(path) == Importing(path) /\ path \in visited /\ UNCHANGED vars
Skip(path) ==
  /\ Importing(path)
  /\ path \in visited
  /\ stack' = WithTop(Passed)
  /\ UNCHANGED <<project, command, stage, visited, program, report>>

EnterUnmarked(path) ==
  /\ Importing(path)
  /\ path \notin visited
  /\ File(Meant(Top.file, path)) \notin {Unreadable, Garbled}
  /\ stack' = Append(WithTop(Passed), Frame(Meant(Top.file, path)))
  /\ UNCHANGED <<project, command, stage, visited, program, report>>

EnterLater(path) ==
  /\ Importing(path)
  /\ path \notin visited
  /\ File(Meant(Top.file, path)) \notin {Unreadable, Garbled}
  /\ visited' = visited \cup {path}
  /\ stack' = <<Frame(Meant(Top.file, path))>> \o WithTop(Passed)
  /\ UNCHANGED <<project, command, stage, program, report>>

Enter(path) ==
  /\ Importing(path)
  /\ path \notin visited
  /\ File(Meant(Top.file, path)) \notin {Unreadable, Garbled}
  /\ visited' = visited \cup {path}
  /\ stack' = Append(WithTop(Passed), Frame(Meant(Top.file, path)))
  /\ UNCHANGED <<project, command, stage, program, report>>

FailGoesOn(path) ==
  /\ Importing(path)
  /\ File(Meant(Top.file, path)) \in {Unreadable, Garbled}
  /\ stack' = WithTop(Passed)
  /\ UNCHANGED <<project, command, stage, visited, program, report>>

Fail(path) ==
  /\ Importing(path)
  /\ path \notin visited
  /\ File(Meant(Top.file, path)) \in {Unreadable, Garbled}
  /\ Stop(Meant(Top.file, path), Meant(Top.file, path))

\* The caller takes all of the imported file's statements where the import stood.
Spliced(caller, callee) == [caller EXCEPT !.out = @ \o callee.out]

ReturnForgetful ==
  /\ stage = "resolving" /\ AtEnd
  /\ Len(stack) > 1
  /\ stack' = Append(SubSeq(Below, 1, Len(Below) - 1), Spliced(Below[Len(Below)], Top))
  /\ visited' = {path \in visited : \E i \in 1 .. Len(Below) - 1 : Meant(Below[i].file, path) = Below[i + 1].file}
  /\ UNCHANGED <<project, command, stage, program, report>>

Return ==
  /\ stage = "resolving" /\ AtEnd
  /\ Len(stack) > 1
  /\ stack' = Append(SubSeq(Below, 1, Len(Below) - 1), Spliced(Below[Len(Below)], Top))
  /\ UNCHANGED <<project, command, stage, visited, program, report>>

ResolvedInside ==
  /\ stage = "resolving" /\ AtEnd
  /\ program' = Top.out
  /\ stack' = Below
  /\ stage' = "resolved"
  /\ UNCHANGED <<project, command, visited, report>>

Resolved ==
  /\ stage = "resolving" /\ AtEnd
  /\ Len(stack) = 1
  /\ program' = Top.out
  /\ stack' = <<>>
  /\ stage' = "resolved"
  /\ UNCHANGED <<project, command, visited, report>>

(***************************************************************************)
(* The commands.                                                           *)
(***************************************************************************)

Goes(to) ==
  /\ stage' = to
  /\ UNCHANGED <<project, command, visited, stack, program, report>>

Ill(i) == File(program[i][1])[program[i][2]] = <<"ill">>
FirstIll(i) == Ill(i) /\ \A j \in 1 .. i - 1 : ~Ill(j)

\* The checker stops at its first error; its position is one in the file the
\* statement came from, and the text it is shown in is always the root's.
Refuse ==
  /\ stage = "resolved" /\ command # "emit-ast"
  /\ \E i \in DOMAIN program : FirstIll(i) /\ Stop(Root, program[i][1])

AcceptAsCheck ==
  /\ stage = "resolved" /\ command # "emit-ast"
  /\ command = "check" => \A i \in DOMAIN program : ~Ill(i)
  /\ Goes("checked")
Accept ==
  /\ stage = "resolved" /\ command # "emit-ast"
  /\ \A i \in DOMAIN program : ~Ill(i)
  /\ Goes("checked")

\* Every backend gets the program without its generic functions, or the
\* expander stops (Monomorphize).
Expand ==
  /\ stage = "checked" /\ command \in {"run", "build"}
  /\ \/ Goes("expanded")
     \/ \E i \in DOMAIN program : Stop(Root, program[i][1])

BackEnd == stage = "expanded" /\ Goes("done")
Report == stage = "checked" /\ command = "check" /\ Goes("done")
EmitAst == stage = "resolved" /\ command = "emit-ast" /\ Goes("done")

Next ==
  \/ ReadRoot \/ Keep \/ Return \/ Resolved
  \/ \E path \in Spellings : Skip(path) \/ Enter(path) \/ Fail(path)
  \/ Refuse \/ Accept \/ Expand \/ BackEnd \/ Report \/ EmitAst

\* One sequential process: it takes a step whenever it has one.
Spec == Init /\ [][Next]_vars /\ WF_vars(Next)

(***************************************************************************)
(* What the imports of a project mean.                                     *)
(***************************************************************************)

\* The files that f imports, and each with the spelling f has for it.
ImportsOf(f) ==
  {<<p, Meant(f, p)>> : p \in {q \in Spellings : \E k \in DOMAIN File(f) : File(f)[k] = <<"import", q>>}}

\* The files there are, and what those of `from` import, whatever these import, and
\* so on: the least set that has them and all its imports.  A missing file imports
\* nothing.
Places == DOMAIN project \cup {Root}
Imported(f) == {i[2] : i \in ImportsOf(f)} \cap Places
Closed(S) == \A f \in S : Imported(f) \subseteq S
Closure(from) == {f \in Places : \A S \in SUBSET Places : from \subseteq S /\ Closed(S) => f \in S}

Reached == Closure({Root})
Edges == UNION {ImportsOf(f) : f \in Reached}
OneSpelling == \A i, j \in Edges : i[2] # Root /\ (i[2] = j[2] => i[1] = j[1])
OneMeaning == \A i, j \in Edges : i[1] = j[1] => i[2] = j[2]

Before(f, g) == g \in Closure(Imported(f))
Acyclic == \A f \in Reached : ~Before(f, f)

(***************************************************************************)
(* Properties.                                                             *)
(***************************************************************************)

IsResolved == stage = "resolved"

TypeOK ==
  /\ command \in Commands /\ stage \in Stages
  /\ visited \subseteq Spellings
  /\ \A i \in DOMAIN stack : stack[i].at \in 1 .. Len(File(stack[i].file)) + 1
  /\ stage = "resolving" <=> stack # <<>> /\ stage # "stopped"

\* main.rs:62-65: the calls nest no deeper than there are spellings to be
\* visited, even where files import one another in a circle.
DepthBounded == Len(stack) <= Cardinality(visited) + 1

\* Whatever the files import, the driver comes to an end.
Ends == <>(stage \in {"done", "stopped"})

\* No statement is taken twice, where no file is imported under two spellings
\* and none imports the root.
NothingTwice ==
  IsResolved /\ OneSpelling => \A i, j \in DOMAIN program : program[i] = program[j] => i = j

\* Every statement of every file that is imported is taken, where one spelling
\* does not mean two files.
NothingMissed ==
  IsResolved /\ OneMeaning =>
    \A f \in Reached : \A k \in DOMAIN File(f) :
      File(f)[k][1] # "import" => \E i \in DOMAIN program : program[i] = <<f, k>>

\* What a file imports comes before the statements that follow the import.
ImportsComeFirst ==
  IsResolved /\ OneSpelling /\ Acyclic =>
    \A i, j \in DOMAIN program :
      (\E k \in 1 .. program[j][2] - 1 : /\ File(program[j][1])[k][1] = "import"
                                         /\ Meant(program[j][1], File(program[j][1])[k][2]) = program[i][1])
      => i < j

\* main.rs:85-87: no command but emit-ast goes on with a program the checker
\* would have rejected.
OnlyChecked ==
  stage \in {"checked", "expanded", "done"} /\ command # "emit-ast" => \A i \in DOMAIN program : ~Ill(i)
=============================================================================
