------------------------------- MODULE MCText -------------------------------
(* Two tabs and four ways to work: writing a script, editing, running it and  *)
(* meeting its errors, completing.                                            *)
EXTENDS EditorSession

MCSchema == [t |-> <<"c", "d">>]
MCBegins == {<<"x", "c">>, <<"x", "t">>, <<"x", "from">>}
MCKeywords == {"select", "from", "where"}
MCQueries == {<<"w">>}

Plan(one, two, fragments, commands, most) ==
  [script |-> ("one" :> one) @@ ("two" :> two), active |-> "one",
   fragments |-> fragments, commands |-> commands, edits |-> most]

Writing ==
  Plan(<<>>, <<>>,
       {<<"q", "'">>, <<"'">>, <<"\"">>, <<"-", "-">>, <<"/", "*">>, <<"*", "/">>, <<"[">>, <<"]", "'">>, <<";">>,
        <<NL>>, <<NL, "/", NL>>, <<"select">>, <<"create", "procedure">>, <<"begin">>, <<"end", ";">>,
        <<"with", "function", "is", "begin">>, <<":", "w">>, <<"show">>},
       {"type"}, 4)

Editing == Plan(<<"w", ";", " ", "-", "-", "w", NL, " ", "w">>, <<>>, {<<NL>>, <<"v">>},
                {"type", "edit", "move", "undo", "clipboard", "search"}, 4)

Running == Plan(<<"select", ";", "create", "procedure", NL, "w">>, <<"w", ";", "&", "w", NL, "show">>, {<<"v">>},
                {"type", "move", "undo", "run", "diagnostic", "switch"}, 4)

Completing == Plan(<<"x", "from", "t", "w">>, <<"w", ".", "x">>, {<<"w">>},
                   {"type", "move", "undo", "complete", "generate", "refresh", "switch"}, 4)

\* Queries of one table, and what looks like one.
Selecting ==
  Plan(<<>>, <<>>,
       {<<"select", "rowid", ",">>, <<"select", "c", "as", "d", ",", "rowid", "from", "t">>, <<"c">>, <<"t", ".", "*">>,
        <<"distinct">>, <<"(", "c", ",", "rowid", ")">>, <<"from", "t">>, <<"from", "\"", "t", "\"">>, <<",", "t">>,
        <<"where", "c">>, <<"join", "t">>, <<"union", "select", "c", "from", "t">>, <<"group", "by", "c">>,
        <<"for", "update">>, <<"-", "-", "c", NL>>, <<"'">>},
       {"type"}, 4)

MCResultNames == UNION {[1..n -> {"c", "d", "rowid"}] : n \in 1..3}

MCPlans == {Selecting, Writing, Editing, Running, Completing}
=============================================================================
