---------------------------- MODULE EditableSelect ----------------------------
(***************************************************************************)
(* Which results may be edited: db/editing.py decides from the text of a   *)
(* query that its rows are the rows of one table and which column of the   *)
(* result is which column of the table; an edit is then an UPDATE of that  *)
(* column by the ROWID found in the result.  Of the words that mean the    *)
(* same to it one stands for all: JOIN for HAVING and MINUS, WHERE for     *)
(* OFFSET and FETCH, GROUP BY for CONNECT BY, PARTITION for PIVOT.  Left   *)
(* out: a read-only session, and column metadata of another length.        *)
(***************************************************************************)
EXTENDS SqlStatements

TailKeywords == {"where", "order", "for", "join", "group", "union"}
SafeTailStartWords == {"where", "order"}
TailSingleWordRejections == {"join", "union", "select"}
TailPhraseRejections == {<<"group", "by">>, <<"for", "update">>}
OracleTableClauseRejections == {"partition"}

NotSimple == [table |-> <<>>]

-----------------------------------------------------------------------------
(* Names and brackets.                                                     *)

NoIdentifier == [name |-> <<>>, quoted |-> FALSE, end |-> 0]

\* scan_oracle_identifier: a word, or a quoted name that is closed.
Quoted(s, i, end) == IF Cardinality({j \in i..end - 1 : s[j] = "\""}) % 2 = 1 THEN NoIdentifier
                     ELSE [name |-> SubSeq(s, i + 1, end - 2), quoted |-> TRUE, end |-> end]
ScanOracleIdentifier(s, i) ==
  CASE i \notin DOMAIN s                          -> NoIdentifier
    [] i \in DOMAIN s /\ s[i] = "\""              -> Quoted(s, i, QuotedTextEnd(s, i, "\""))
    [] i \in DOMAIN s /\ IsWord(s[i])             -> [name |-> <<s[i]>>, quoted |-> FALSE, end |-> i + 1]
    [] i \in DOMAIN s /\ s[i] \in Punctuation \ {"\""} -> NoIdentifier

Unquoted(token, words) == ~token.quoted /\ token.name \in {<<w>> : w \in words}

\* The positions of c in a masked text that are in no brackets.
TopLevel(masked, c) ==
  LET depth[i \in 0..Len(masked)] ==
        CASE i = 0 -> 0
          [] i > 0 /\ masked[i] = "(" -> depth[i - 1] + 1
          [] i > 0 /\ masked[i] = ")" -> Max({0, depth[i - 1] - 1})
          [] OTHER -> depth[i - 1]
  IN  {i \in DOMAIN masked : masked[i] = c /\ depth[i] = 0}

-----------------------------------------------------------------------------
(* parse_simple_select.                                                    *)

\* Mutation: only the word after the table counts.
TailBeginsWithRejected(tail) ==
  LET begins(words) == words = <<>> \/ words[1] \notin SafeTailStartWords
  IN  Strip(StripSqlComments(tail)) # <<>> /\ begins(TailSqlWords(tail))

\* tail_has_rejected_construct
RejectedWords(words) ==
  \/ words = <<>> \/ words[1] \notin SafeTailStartWords
  \/ \E i \in DOMAIN words : words[i] \in TailSingleWordRejections \cup OracleTableClauseRejections
  \/ \E i \in 1..Len(words) - 1 : <<words[i], words[i + 1]>> \in TailPhraseRejections
RejectedTail(bare, words) == bare # <<>> /\ (bare[1] \in {",", "@"} \/ RejectedWords(words))
TailHasRejectedConstruct(tail) == RejectedTail(Strip(StripSqlComments(tail)), TailSqlWords(tail))

\* What follows FROM: the table, its alias, which may not be there, and the tail.
Source(table, alias, tail) ==
  IF TailHasRejectedConstruct(tail) THEN NotSimple ELSE [table |-> table.name, alias |-> alias]
AliasClause(s, table, i, token) ==
  CASE token.end = 0 -> Source(table, <<>>, SubSeq(s, table.end, Len(s)))
    [] Unquoted(token, TailKeywords) -> Source(table, <<>>, SubSeq(s, i, Len(s)))
    [] Unquoted(token, {"as"} \cup OracleTableClauseRejections) -> NotSimple
    [] OTHER -> Source(table, token.name, SubSeq(s, token.end, Len(s)))
AfterTable(s, table, i) ==
  CASE i = 0 -> Source(table, <<>>, <<>>)
    [] i # 0 /\ (s[i] = "." \/ (i = table.end /\ ~IsWord(s[i - 1]))) -> NotSimple
    [] OTHER -> AliasClause(s, table, i, ScanOracleIdentifier(s, i))
TableClause(s, table) ==
  IF table.name = <<>> THEN NotSimple ELSE AfterTable(s, table, FirstIn(s, table.end, Len(s)))
FromClause(s) == IF s = <<>> THEN NotSimple ELSE TableClause(s, ScanOracleIdentifier(s, 1))

\* split_top_level_select_items; commas are where a clause is split.
SplitAt(s, commas) ==
  LET from[i \in 1..Len(s) + 2] ==
        LET upTo(j) == <<SubSeq(s, i, j - 1)>> \o IF j > Len(s) THEN <<>> ELSE from[j + 1]
        IN  upTo(MinOr({j \in commas : j >= i}, Len(s) + 1))
  IN  from[1]
SplitTopLevelSelectItems(s) == SplitAt(s, TopLevel(SqlCodeMask(s, FALSE), ","))

\* The tokens of a text without comments: names, and characters.
Tokens(s) ==
  LET from[i \in 1..Len(s) + 1] ==
        LET name(token) == IF token.end = 0 THEN <<[name |-> <<s[i]>>, quoted |-> FALSE]>> \o from[i + 1]
                           ELSE <<[name |-> token.name, quoted |-> token.quoted]>> \o from[token.end]
        IN  CASE i > Len(s)                        -> <<>>
              [] i <= Len(s) /\ s[i] \in Blank     -> from[i + 1]
              [] i <= Len(s) /\ (IsWord(s[i]) \/ s[i] = "\"") -> name(ScanOracleIdentifier(s, i))
              [] OTHER                             -> <<[name |-> <<s[i]>>, quoted |-> FALSE]>> \o from[i + 1]
  IN  from[1]

IsName(token) == token.name # <<>> /\ (token.quoted \/ IsWord(token.name[1]))
Is(token, c) == ~token.quoted /\ token.name = <<c>>

\* parse_select_item: a column or all of them, with the table before it and an alias
\* behind it, or not.
NoItem == [kind |-> "none"]
Wildcard == [kind |-> "wildcard"]
Item(token) == IF token = [name |-> <<"rowid">>, quoted |-> FALSE] THEN [kind |-> "rowid"]
               ELSE [kind |-> "column", name |-> token.name]
Named(k, source) ==
  LET qualified == Len(k) > 2 /\ IsName(k[1]) /\ Is(k[2], ".")
  IN  CASE qualified -> IF k[1].name \notin {source.table, source.alias} THEN NoItem
                        ELSE IF Is(k[3], "*") THEN Wildcard ELSE IF IsName(k[3]) THEN Item(k[3]) ELSE NoItem
        [] ~qualified -> IF Len(k) = 1 /\ IsName(k[1]) THEN Item(k[1]) ELSE NoItem
WithoutAlias(k) == IF Len(k) > 2 /\ Is(k[Len(k) - 1], "as") /\ IsName(Last(k)) THEN SubSeq(k, 1, Len(k) - 2) ELSE k
Whole(k, source) == IF Len(k) \in {1, 3} THEN Named(k, source) ELSE NoItem
ParseSelectItem(k, source) ==
  IF Len(k) = 1 /\ Is(k[1], "*") THEN Wildcard ELSE Whole(WithoutAlias(k), source)

ParseSelectItems(clause, source) ==
  LET items(parts) == [n \in DOMAIN parts |-> ParseSelectItem(Tokens(StripSqlComments(parts[n])), source)]
  IN  items(SplitTopLevelSelectItems(clause))

IsDistinct(k) == k # <<>> /\ Is(k[1], "distinct")

Simple(clause, source, items) ==
  IF IsDistinct(Tokens(StripSqlComments(clause))) \/ NoItem \in ToSet(items) THEN NotSimple
  ELSE [table |-> source.table, items |-> items]
SelectOf(clause, source) ==
  IF source = NotSimple THEN NotSimple ELSE Simple(clause, source, ParseSelectItems(clause, source))
SelectFrom(sql, from) ==
  IF from = 0 THEN NotSimple
  ELSE SelectOf(SubSeq(sql, 2, from - 1), FromClause(Strip(StripSqlComments(SubSeq(sql, from + 1, Len(sql))))))
SelectIn(sql) ==
  IF sql = <<>> \/ Head(sql) # "select" THEN NotSimple
  ELSE SelectFrom(sql, MinOr(TopLevel(SqlCodeMask(sql, FALSE), "from"), 0))
WithoutSemicolons(s) == SubSeq(s, 1, MaxOr({i \in DOMAIN s : s[i] # ";"}, 0))
ParseSimpleSelect(t) == SelectIn(Strip(WithoutSemicolons(Strip(StripLeadingSqlComments(t)))))

-----------------------------------------------------------------------------
(* build_editable_result_context.                                          *)

NotEditable == [rowid |-> 0, columns |-> <<>>]

\* The columns the items stand for; one named by a wildcard must carry its name.
Expanded(items, tableColumns) ==
  FlattenSeq([n \in DOMAIN items |->
    CASE items[n].kind = "wildcard" -> [m \in DOMAIN tableColumns |-> [name |-> tableColumns[m], called |-> {tableColumns[m]}]]
      [] items[n].kind = "rowid"    -> <<[name |-> "rowid", called |-> {"rowid"}]>>
      [] items[n].kind = "column"   -> <<[name |-> items[n].name[1], called |-> STRING]>>])

Refused(items, all, results, tableColumns) ==
  \/ \E n \in DOMAIN items : items[n].kind = "column" /\ items[n].name \notin {<<c>> : c \in ToSet(tableColumns)}
  \/ Len(all) # Len(results) \/ Cardinality(ToSet(results)) # Len(results)
  \/ \E n \in DOMAIN all : results[n] \notin all[n].called
  \/ Cardinality({n \in DOMAIN all : all[n].name = "rowid"}) # 1
  \/ Len(all) = 1 \/ \E m, n \in DOMAIN all : m # n /\ all[m].name = all[n].name

EditableContext(items, all, results, tableColumns) ==
  IF Refused(items, all, results, tableColumns) THEN NotEditable
  ELSE [rowid   |-> CHOOSE n \in DOMAIN all : all[n].name = "rowid",
        columns |-> [n \in {m \in DOMAIN all : all[m].name # "rowid"} |-> all[n].name]]
ContextOf(select, results, schema) ==
  IF select = NotSimple \/ select.table \notin {<<table>> : table \in DOMAIN schema} THEN NotEditable
  ELSE EditableContext(select.items, Expanded(select.items, schema[select.table[1]]), results,
                       schema[select.table[1]])

\* editable_context_for_result: what of a result may be edited, by the text of the
\* query, the names of the result's columns, and the tables.
EditableContextForResult(t, results, schema) == ContextOf(ParseSimpleSelect(t), results, schema)

-----------------------------------------------------------------------------
(* A property of a text: what Oracle makes of it, read from its lexemes.     *)

Lexemes(t) ==
  LET from[i \in 1..Len(t) + 1] ==
        LET with(l) == (CASE l.kind = "comment" \/ (l.kind = "code" /\ t[i] \in Blank) -> <<>>
                          [] l.kind = "identifier" -> <<[name |-> SubSeq(t, i + 1, l.end - 2), quoted |-> TRUE]>>
                          [] OTHER -> <<[name |-> <<t[i]>>, quoted |-> FALSE]>>) \o from[l.end]
        IN  IF i > Len(t) THEN <<>> ELSE with(Lexeme(t, i))
  IN  from[1]

\* The token behind the table and its alias; the query ends there or goes on with a
\* clause that only picks and sorts when there is one table.
Behind(k, f) == IF f + 2 <= Len(k) /\ IsName(k[f + 2]) /\ ~Unquoted(k[f + 2], SafeTailStartWords) THEN f + 3 ELSE f + 2
NoMoreTables(k, n) == n > Len(k) \/ Unquoted(k[n], SafeTailStartWords) \/ Is(k[n], ";")

\* Oracle does not run a query on a base table with a reserved word where the alias
\* stands, or with anything but a clause, a comma or a link behind it.
Reserved == {"select", "from", "by", "update", "distinct"}
OracleRuns(k, f) ==
  /\ f + 2 <= Len(k) => ~Unquoted(k[f + 2], Reserved)
  /\ Behind(k, f) <= Len(k) => IsName(k[Behind(k, f)]) \/ Unquoted(k[Behind(k, f)], {",", "@", ";"})

\* A query that begins with SELECT, with its FROM at f, whose rows are those of one
\* table: nothing is joined, set together, grouped or locked.
ReadsOneTable(k, f) ==
  /\ Is(k[1], "select") /\ ~IsDistinct(SubSeq(k, 2, f - 1))
  /\ NoMoreTables(k, Behind(k, f))
  /\ \A n \in f + 2..Len(k) : ~Unquoted(k[n], {"join", "union", "select", "partition"})
  /\ \A n \in f + 2..Len(k) - 1 : /\ ~(Is(k[n], "group") /\ Is(k[n + 1], "by"))
                                   /\ ~(Is(k[n], "for") /\ Is(k[n + 1], "update"))

\* The columns Oracle returns for one item: what they hold, and how they are called.
Returned(m, tableColumns) ==
  LET column(name, called) == <<[of |-> name, called |-> called]>>
  IN  CASE m # <<>> /\ Is(Last(m), "*") -> [n \in DOMAIN tableColumns |-> [of |-> <<tableColumns[n]>>, called |-> <<tableColumns[n]>>]]
        [] Len(m) \in {3, 5} /\ Is(m[Len(m) - 1], "as") /\ ~Is(Last(m), "*") -> column(m[Len(m) - 2].name, Last(m).name)
        [] Len(m) \in {1, 3} /\ ~Is(m[Len(m)], "*") /\ (Len(m) = 3 => Is(m[2], ".")) -> column(Last(m).name, Last(m).name)
        [] OTHER -> column(<<"expression">>, <<"expression">>)
AllReturned(clause, tableColumns) ==
  LET items == SplitAt(clause, {n \in DOMAIN clause : Is(clause[n], ",")})
  IN  FlattenSeq([n \in DOMAIN items |-> Returned(items[n], tableColumns)])

LandsOn(context, out) ==
  /\ out[context.rowid].of = <<"rowid">>
  /\ DOMAIN context.columns = DOMAIN out \ {context.rowid}
  /\ \A n \in DOMAIN context.columns : out[n].of = <<context.columns[n]>>

\* The rows of an editable result are rows of that one table, its ROWID column holds
\* their ROWID, and every column that may be edited is the column of the table that
\* an edit would change, under whatever name it is shown.
EditsLand(k, f, results, context, tableColumns) ==
  LET lands(out) == [n \in DOMAIN out |-> out[n].called] = [n \in DOMAIN results |-> <<results[n]>>]
                      => LandsOn(context, out)
  IN  /\ ReadsOneTable(k, f)
      /\ \A n \in 2..f - 1 : IsName(k[n]) \/ Is(k[n], "*") \/ Is(k[n], ".") \/ Is(k[n], ",")
      /\ lands(AllReturned(SubSeq(k, 2, f - 1), tableColumns))

EditsLandOnTheirColumn(t, schema, names) ==
  LET lands(k, f, results, context, tableColumns) ==
        context # NotEditable /\ OracleRuns(k, f) => EditsLand(k, f, results, context, tableColumns)
      read(k, results, context, tableColumns) ==
        lands(k, Min({n \in DOMAIN k : Is(k[n], "from")}), results, context, tableColumns)
      with(select) == select = NotSimple \/ select.table \notin {<<table>> : table \in DOMAIN schema} \/
        \A results \in names :
          read(Lexemes(t), results, ContextOf(select, results, schema), schema[select.table[1]])
  IN  with(ParseSimpleSelect(t))
===============================================================================
