--------------------------- MODULE SqlStatements ---------------------------
(***************************************************************************)
(* sqlsplit.py: what a script is split into, which statement the cursor is *)
(* on, and what is refused before anything is run.  The loops over lines   *)
(* and characters are written as what they search for: from a statement's  *)
(* first character the next terminator or slash line.  Left out: labels    *)
(* before a block, OR REPLACE and EDITIONABLE.                             *)
(***************************************************************************)
EXTENDS SqlText

PlsqlCreateObjects == {"procedure", "function"}

\* The positions that strip_leading_sql_comments and leading_sql_keywords skip to:
\* the first character from i on that is neither blank nor in a comment.
SkipGap(t, i) ==
  LET skip[j \in 1..Len(t) + 1] ==
        CASE j > Len(t) -> j
          [] j <= Len(t) /\ t[j] \in Blank -> skip[j + 1]
          [] At(t, j, <<"-", "-">>) \/ At(t, j, <<"/", "*">>) -> skip[Lexeme(t, j).end]
          [] OTHER -> j
  IN  skip[i]
StripLeadingSqlComments(t) == SubSeq(t, SkipGap(t, 1), Len(t))

\* leading_sql_keywords from position i.
LeadingSqlKeywords(t, i, limit) ==
  LET words[j \in 1..Len(t) + 1, n \in 0..limit] ==
        LET wordAt(k) == IF n = 0 \/ k > Len(t) THEN <<>>
                         ELSE IF ~IsWord(t[k]) THEN <<>> ELSE <<t[k]>> \o words[k + 1, n - 1]
        IN  wordAt(SkipGap(t, j))
  IN  words[i, limit]

IsPlsqlLike(t, i) ==
  LET plsql(k) == /\ k # <<>>
                  /\ \/ k[1] \in {"begin", "declare"}
                     \/ k[1] = "create" /\ Len(k) > 1 /\ k[2] \in PlsqlCreateObjects
  IN  plsql(LeadingSqlKeywords(t, i, 6))

-----------------------------------------------------------------------------
(* WITH FUNCTION: the semicolons of its declarations do not end it.        *)

\* _sql_structure_tokens: the positions of words, brackets, semicolons, commas.
SqlStructureTokens(t, i) ==
  LET token(c) == IsWord(c) \/ c \in {"(", ")", ";", ","}
      in(masked) == SelectSeq([j \in DOMAIN t |-> j], LAMBDA j : j >= i /\ token(masked[j - i + 1]))
  IN  in(MaskSqlNoncode(SubSeq(t, i, Len(t)), TRUE))

Known(k, i) == IF i <= Len(k) THEN k[i] ELSE ""
NoToken == 0

\* The token after the semicolon of the block that begins at i.
SkipPlsqlBlock(k, i) ==
  LET skip[j \in 1..Len(k) + 2, block \in Int, case \in Nat] ==
        LET named == IF Known(k, j + 1) \in {"", ";"} THEN j + 1 ELSE j + 2
        IN  CASE j > Len(k) -> NoToken
              [] Known(k, j) = "begin" -> skip[j + 1, block + 1, case]
              [] Known(k, j) = "case" -> skip[j + 1, block, case + 1]
              [] Known(k, j) \notin {"", "begin", "case", "end"} -> skip[j + 1, block, case]
              [] Known(k, j) = "end" /\ Known(k, j + 1) = "case" -> skip[j + 2, block, IF case = 0 THEN 0 ELSE case - 1]
              [] Known(k, j) = "end" /\ Known(k, j + 1) \in {"if", "loop"} -> skip[j + 2, block, case]
              [] Known(k, j) = "end" /\ Known(k, j + 1) \notin {"case", "if", "loop"} ->
                   IF case > 0 THEN skip[j + 1, block, case - 1]
                   ELSE IF block # 1 THEN skip[j + 1, block - 1, case]
                   ELSE IF Known(k, named) = ";" THEN named + 1 ELSE NoToken
  IN  skip[i, 0, 0]

Subprogram == {"function", "procedure"}

\* _skip_with_plsql_subprogram: the header up to IS or AS, then nested
\* subprograms, then the block; a header that ends in a semicolon is a forward
\* declaration.
SkipWithPlsqlSubprogram(k, i) ==
  LET skip[part \in {"header", "body"}, j \in 1..Len(k) + 1, depth \in Nat] ==
        LET here == Known(k, j)
            nested == skip["header", j + 1, 0]
        IN  CASE j > Len(k) -> NoToken
              [] here = "(" /\ part = "header" -> skip[part, j + 1, depth + 1]
              [] here = ")" /\ part = "header" -> skip[part, j + 1, IF depth = 0 THEN 0 ELSE depth - 1]
              [] here \in {"is", "as"} /\ part = "header" /\ depth = 0 -> skip["body", j + 1, 0]
              [] here = ";" /\ part = "header" /\ depth = 0 -> j + 1
              [] here \in Subprogram /\ part = "body" ->
                   IF nested = NoToken THEN NoToken ELSE skip["body", nested, 0]
              [] here = "begin" /\ part = "body" -> SkipPlsqlBlock(k, j)
              [] OTHER -> skip[part, j + 1, depth]
  IN  IF Known(k, i) \in Subprogram THEN skip["header", i + 1, 0] ELSE NoToken

DeclaresSubprogram(k) == Known(k, 1) = "with" /\ Known(k, 2) \in Subprogram

\* The token after the declarations.
MainSql(k) ==
  LET declared[n \in 1..Len(k) + 1] ==
        LET after(end) == IF end = NoToken THEN NoToken ELSE declared[IF Known(k, end) = "," THEN end + 1 ELSE end]
        IN  IF Known(k, n) \in Subprogram THEN after(SkipWithPlsqlSubprogram(k, n)) ELSE n
  IN  IF DeclaresSubprogram(k) THEN declared[2] ELSE NoToken

\* _with_plsql_main_sql_terminator: the first semicolon after the declarations.
SemicolonsFrom(k, main) == IF main = NoToken THEN {} ELSE {n \in main..Len(k) : k[n] = ";"}
MainSqlSemicolons(k) == SemicolonsFrom(k, MainSql(k))
WithPlsqlTerminator(t, i) ==
  LET first(at) == MinOr({at[n] : n \in MainSqlSemicolons([n \in DOMAIN at |-> t[at[n]]])}, NoToken)
  IN  first(SqlStructureTokens(t, i))

\* _statement_semicolon_plan: may this semicolon end the statement begun at i?
Terminates(t, i, semicolon) ==
  /\ ~IsPlsqlLike(t, i)
  /\ DeclaresSubprogram(LeadingSqlKeywords(t, i, 2)) => semicolon = WithPlsqlTerminator(t, i)

-----------------------------------------------------------------------------
(* split_script.                                                           *)

\* A line that holds nothing but a slash and comments.
SlashLine(t, i) == Strip(MaskSqlNoncode(SubSeq(t, i, LineEnd(t, i) - 1), TRUE)) = <<"/">>

\* flush: without blanks around it and, in SQL, without its semicolon; nothing
\* when only comments are left.
WithoutSemicolon(s) == IF s # <<>> /\ Last(s) = ";" /\ ~IsPlsqlLike(s, 1) THEN Strip(Front(s)) ELSE s
Content(s) == IF StripLeadingSqlComments(s) = <<>> THEN <<>> ELSE s
Trimmed(text) == Content(WithoutSemicolon(Strip(text)))

Kept(text, from, to) == IF text = <<>> THEN <<>> ELSE <<[text |-> text, from |-> from, to |-> to]>>

\* Mutation: a statement that follows another one on its line starts with it.
StatementOfLine(t, from, to) == Kept(Trimmed(SubSeq(t, from, to - 1)), LineStart(t, from), to)

\* A statement: its text, and the positions from which to which it reaches.
Statement(t, from, to) == Kept(Trimmed(SubSeq(t, from, to - 1)), from, to)

\* Where the statement that begins at i may end: at a semicolon, before a slash line.
Semicolons(t, i, modes) ==
  {j \in i..Len(t) : t[j] = ";" /\ modes[j - i + 1] = "code" /\ Terminates(t, i, j)}
SlashLines(t, i, modes) ==
  {j \in i + 1..Len(t) : /\ t[j - 1] = NL /\ modes[j - i] \in {"code", "line"}
                         /\ SlashLine(t, j) /\ IsPlsqlLike(SubSeq(t, 1, j - 2), i)}

\* Where the statement at i ends and where what follows it begins.
FirstCut(t, i, ends, slashes) ==
  CASE ends \cup slashes = {} -> [to |-> Len(t) + IF Last(t) = NL THEN 0 ELSE 1, next |-> Len(t) + 1]
    [] ends # {} /\ \A j \in slashes : Min(ends) < j   -> [to |-> Min(ends) + 1, next |-> Min(ends) + 1]
    [] OTHER -> [to |-> Min(slashes) - 1, next |-> LineEnd(t, Min(slashes))]
CutIn(t, i, modes) == FirstCut(t, i, Semicolons(t, i, modes), SlashLines(t, i, modes))
Cut(t, i) == CutIn(t, i, Scan(SubSeq(t, i, Len(t)), "code", NoClose, TRUE, {"single"}).modes)

\* The script from its first statement on: the text before that has been read.
\* What a slash line closes off does not go on after it, so each statement is
\* read from its own first character.
SplitScript(t) ==
  LET from[p \in 1..Len(t) + 2] ==
        LET then(i, cut) == Statement(t, i, cut.to) \o from[cut.next]
            begins(i) == IF i = 0 THEN <<>>
                         ELSE IF t[i] = "/" /\ LineEnd(t, i) = i + 1 THEN from[i + 1] ELSE then(i, Cut(t, i))
        IN  begins(FirstIn(t, p, Len(t)))
  IN  from[1]

\* statement_contains_cursor; lines count from 1, columns from 0.
StatementContainsCursor(t, s, line, col) ==
  LET within(first, last, begin, end) ==
        CASE first = last                  -> line = first /\ col \in begin..end - 1
          [] first # last /\ line = first -> col >= begin
          [] first # last /\ line = last  -> col < end
          [] OTHER                         -> line \in first..last
  IN  within(Line(t, s.from), Line(t, s.to), Col(t, s.from), Max({Col(t, s.from), Col(t, s.to)}))

\* statement_at_cursor, as an index into the statements, 0 if there is none: else
\* the next statement, else the last.
StatementAtCursor(t, statements, line, col) ==
  LET under  == {n \in DOMAIN statements : StatementContainsCursor(t, statements[n], line, col)}
      behind == {n \in DOMAIN statements :
                   LET s == statements[n].from IN Line(t, s) > line \/ (Line(t, s) = line /\ Col(t, s) >= col)}
  IN  MinOr(under, MinOr(behind, Len(statements)))

-----------------------------------------------------------------------------
(* preflight_script.                                                       *)

\* What a statement may not begin with: a command of SQL*Plus, all of them as one
\* word, or of the shell.
ScriptDirectives == {"show", "@"}

\* _directive_preflight_issues: where a command, a slash or a lone semicolon
\* stands.  start is the statement a line continues, 0 if there is none; after the
\* line another one may be open, or none.  masked is the text without literals and comments.
OpenAfter(t, masked, line, begun) ==
  LET open[x \in Nat \X Nat] ==
        LET goesOn(rest, next) == IF rest = 0 THEN 0 ELSE open[<<rest, next>>]
            behind(ends) == IF ends = {} THEN x[1]
                            ELSE goesOn(FirstIn(masked, Min(ends) + 1, LineEnd(t, x[2]) - 1), Min(ends) + 1)
        IN  behind({j \in x[2]..LineEnd(t, x[2]) - 1 : masked[j] = ";" /\ Terminates(t, x[1], j)})
  IN  open[<<begun, line>>]

CodeOfLine(masked, p) == Strip(SubSeq(masked, p, LineEnd(masked, p) - 1))

\* Is what stands on the line no part of a statement?
IsDirective(t, code, p, start) ==
  IF code = <<"/">> THEN ~(start # 0 /\ IsPlsqlLike(SubSeq(t, 1, p - 1), start))
  ELSE code # <<>> /\ start = 0 /\ (code = <<";">> \/ code[1] \in ScriptDirectives)

LeftOpen(t, masked, code, p, start) ==
  CASE code = <<"/">> \/ (code = <<>> /\ start = 0) \/ IsDirective(t, code, p, start) -> 0
    [] OTHER -> OpenAfter(t, masked, IF start = 0 THEN FirstIn(masked, p, Len(t)) ELSE p,
                          IF start = 0 THEN FirstIn(masked, p, Len(t)) ELSE start)

DirectivesIn(t, masked) ==
  LET issues[x \in (1..Len(t) + 2) \X (0..Len(t))] ==
        LET line(code) == (IF IsDirective(t, code, x[1], x[2]) THEN {FirstIn(masked, x[1], Len(t))} ELSE {})
                            \cup issues[<<LineEnd(t, x[1]) + 1, LeftOpen(t, masked, code, x[1], x[2])>>]
        IN  IF x[1] > Len(t) THEN {} ELSE line(CodeOfLine(masked, x[1]))
  IN  issues[<<1, 0>>]

DirectivePreflightIssues(t) == DirectivesIn(t, MaskSqlNoncode(t, TRUE))

\* SUBSTITUTION_RE: & and && before a name, also in a quoted identifier.
Substitutions(t) ==
  LET last(masked) == {i \in 1..Len(t) - 1 : masked[i] = "&" /\ (IsWord(masked[i + 1]) \/ masked[i + 1] = "\"")}
      in(masked)   == {IF i > 1 /\ masked[i - 1] = "&" THEN i - 1 ELSE i : i \in last(masked)}
  IN  in(MaskSqlNoncode(t, FALSE))

PreflightScript(t) == DirectivePreflightIssues(t) \cup Substitutions(t)

-----------------------------------------------------------------------------
(* Properties of a text.                                                   *)

\* Outside what the properties below speak of: a text that ends inside a literal or
\* a comment, and one where a command of SQL*Plus follows a statement on its line,
\* which preflight does not see (README, "What the code does otherwise").
Unfinished(t) == ScanAll(t).mode \notin {"code", "line"}
CommandAfterStatement(t) ==
  LET kinds == Kinds(t)
  IN  \E i \in DOMAIN t : t[i] \in ScriptDirectives /\ kinds[i] = "code" /\ FirstIn(t, LineStart(t, i), i - 1) # 0

\* What is run is what was written: a script that passes preflight is cut where
\* its statements end and nowhere else.  Each statement stands in the script at
\* the place reported for it, is read on its own as the one statement it is, and
\* passes preflight on its own; between them there is nothing but comments,
\* semicolons and slashes.
StandsIn(t, s) == s.text = SubSeq(t, s.from, s.from + Len(s.text) - 1)
ReadAlone(text) == Len(SplitScript(text)) = 1 /\ PreflightScript(text) = {}
Between(t, statements, kinds) ==
  \A i \in DOMAIN t \ UNION {s.from..s.from + Len(s.text) - 1 : s \in statements} :
    t[i] \in Blank \cup {";", "/"} \/ kinds[i] = "comment"
CutsOf(t, statements) ==
  (\A s \in statements : StandsIn(t, s) /\ ReadAlone(s.text)) /\ Between(t, statements, Kinds(t))

StatementsAreTheScript(t) ==
  (~Unfinished(t) /\ ~CommandAfterStatement(t) /\ PreflightScript(t) = {}) => CutsOf(t, ToSet(SplitScript(t)))
=============================================================================
