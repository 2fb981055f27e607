----------------------------- MODULE MCImports -----------------------------
(* A main file, two beside it, and one in a directory with the name of one of *)
(* these.                                                                      *)
EXTENDS Imports

MCRoot == <<"main">>
MCSpellings == {<<"b">>, <<"c">>, <<"d", "b">>, <<"..", "b">>, <<".", "c">>, <<"main">>}

Fine == <<"fine">>
Import(s) == <<"import", s>>
MainFiles == {<<Import(s), Fine>> : s \in MCSpellings}
             \cup {<<Import(s), Fine, Import(t), Fine>> : s \in MCSpellings, t \in MCSpellings}
             \cup {Garbled}
Importing1(S) == {<<Fine, Import(s), Fine>> : s \in S}

MCProjects ==
  {[f \in {<<"main">>, <<"b">>, <<"c">>, <<"d", "b">>} |->
      CASE f = <<"main">> -> m [] f = <<"b">> -> b [] f = <<"c">> -> c [] f = <<"d", "b">> -> d] :
     m \in MainFiles,
     b \in {<<Fine>>, Unreadable} \cup Importing1({<<"c">>, <<"d", "b">>, <<"main">>}),
     c \in {<<Fine>>, <<Fine, <<"ill">>>>} \cup Importing1({<<"b">>, <<"main">>}),
     d \in {<<Fine>>, Garbled} \cup Importing1({<<"b">>, <<"..", "b">>, <<".", "c">>})}
=============================================================================
