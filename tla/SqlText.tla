------------------------------ MODULE SqlText ------------------------------
(***************************************************************************)
(* What is code in a piece of SQL, and what is a comment, a literal or a   *)
(* quoted identifier.  The program answers that question in three ways:    *)
(* by jumping from lexeme to lexeme (sqlsplit.py, sqlbinds.py), by running *)
(* over the characters in a mode (db/sql_analysis.py, the loop inside      *)
(* split_script), and line by line with the mode carried over             *)
(* (ui/syntax.py).  All three are here; positions start at 1.              *)
(*                                                                         *)
(* A text is a sequence of characters.  A word is one character, with the  *)
(* blank after it; upper and lower case, and Q and NQ, are not told apart. *)
(***************************************************************************)
EXTENDS Integers, SequencesExt, FiniteSetsExt

NL == "\n"
Blank == {" ", NL}
Punctuation == Blank \cup {"'", "\"", "-", "/", "*", "[", "]", ";", ":", ",", "(", ")", ".", "@", "&"}
IsWord(c) == c \notin Punctuation

At(t, i, p) == i >= 1 /\ i + Len(p) - 1 <= Len(t) /\ SubSeq(t, i, i + Len(p) - 1) = p
Find(t, p, i) == {j \in i..Len(t) : At(t, j, p)}

MinOr(s, none) == IF s = {} THEN none ELSE Min(s)
MaxOr(s, none) == IF s = {} THEN none ELSE Max(s)

\* The position after the next p, or after the text.
After(t, p, i) == MinOr({j + Len(p) : j \in Find(t, p, i)}, Len(t) + 1)

LineEnd(t, i) == MinOr({j \in i..Len(t) : t[j] = NL}, Len(t) + 1)
Line(t, i) == Cardinality({j \in 1..i - 1 : t[j] = NL}) + 1
LineStart(t, i) == MaxOr({j \in 1..i - 1 : t[j] = NL}, 0) + 1
Col(t, i) == i - LineStart(t, i)

Lines(t) == LET all == {0} \cup {i \in 1..Len(t) : t[i] = NL}
            IN  [n \in 1..Cardinality(all) |->
                   LET from == CHOOSE i \in all : Cardinality({j \in all : j < i}) = n - 1
                   IN  SubSeq(t, from + 1, LineEnd(t, from + 1) - 1)]

\* The first and the last character that is not blank, 0 if there is none.
FirstIn(t, from, to) == MinOr({i \in from..to : t[i] \notin Blank}, 0)
LastIn(t, from, to)  == MaxOr({i \in from..to : t[i] \notin Blank}, 0)
Strip(t) == SubSeq(t, MinOr({i \in DOMAIN t : t[i] \notin Blank}, 1), LastIn(t, 1, Len(t)))

-----------------------------------------------------------------------------
(* From lexeme to lexeme.                                                  *)

Closing(c) == IF c = "[" THEN "]" ELSE c

\* A q-literal opens here: any delimiter but a blank.
QQuote(t, i) == At(t, i, <<"q", "'">>) /\ i + 2 <= Len(t) /\ t[i + 2] \notin Blank

\* Mutation: a bracket closes like any other delimiter.
QQuoteEndUnpaired(t, i) == After(t, <<t[i + 2], "'">>, i + 3)

QQuoteEnd(t, i) == After(t, <<Closing(t[i + 2]), "'">>, i + 3)

\* The quote that closes, a doubled one does not.
QuotedTextEnd(t, i, quote) ==
  LET end[j \in 1..Len(t) + 2] ==
        CASE j > Len(t)                 -> Len(t) + 1
          [] At(t, j, <<quote, quote>>) -> end[j + 2]
          [] j <= Len(t) /\ t[j] = quote /\ ~At(t, j, <<quote, quote>>) -> j + 1
          [] OTHER                      -> end[j + 1]
  IN  end[i + 1]

Lexeme(t, i) ==
  CASE At(t, i, <<"-", "-">>) -> [kind |-> "comment", end |-> LineEnd(t, i)]
    [] At(t, i, <<"/", "*">>) -> [kind |-> "comment", end |-> After(t, <<"*", "/">>, i + 2)]
    [] QQuote(t, i)           -> [kind |-> "string", end |-> QQuoteEnd(t, i)]
    [] t[i] = "'"             -> [kind |-> "string", end |-> QuotedTextEnd(t, i, "'")]
    [] t[i] = "\""            -> [kind |-> "identifier", end |-> QuotedTextEnd(t, i, "\"")]
    [] OTHER                  -> [kind |-> "code", end |-> i + 1]

Times(kind, n) == [j \in 1..n |-> kind]

Kinds(t) ==
  LET from[i \in 1..Len(t) + 1] ==
        LET with(lexeme) == Times(lexeme.kind, lexeme.end - i) \o from[lexeme.end]
        IN  IF i > Len(t) THEN <<>> ELSE with(Lexeme(t, i))
  IN  from[1]

Covered(t, kinds, noncode) ==
  [i \in DOMAIN t |-> IF kinds[i] \in noncode /\ t[i] # NL THEN " " ELSE t[i]]

\* _mask_sql_noncode: blanks for what is not code.
MaskSqlNoncode(t, maskQuotedIdentifiers) ==
  Covered(t, Kinds(t), {"comment", "string"} \cup IF maskQuotedIdentifiers THEN {"identifier"} ELSE {})

\* find_sql_binds, without json_object and its colons: where the binds start.
FindSqlBinds(t) ==
  LET kinds == Kinds(t)
      named(n) == n # 0 /\ (t[n] = "\"" \/ IsWord(t[n]))
  IN  {i \in DOMAIN t : /\ t[i] = ":" /\ kinds[i] = "code" /\ (i = 1 \/ t[i - 1] # ":")
                        /\ named(FirstIn(t, i + 1, Len(t)))}

\* find_unique_binds and bind_name_key: names in the order they are asked for.
FindUniqueBinds(t) ==
  LET name(n) == IF t[n] = "\"" THEN SubSeq(t, n, QuotedTextEnd(t, n, "\"") - 1) ELSE <<t[n]>>
      add(names, new) == IF new \in ToSet(names) THEN names ELSE Append(names, new)
      of(binds) == SelectSeq([i \in DOMAIN t |-> i], LAMBDA i : i \in binds)
  IN  FoldLeft(LAMBDA names, i : add(names, name(FirstIn(t, i + 1, Len(t)))), <<>>, of(FindSqlBinds(t)))

-----------------------------------------------------------------------------
(* Character by character, in a mode.                                      *)

NoClose == ""
Mode == {"code", "line", "block", "q", "single", "double"}
KindOf(mode) == CASE mode = "code" -> "code"
                  [] mode \in {"line", "block"} -> "comment"
                  [] mode \in {"q", "single"}   -> "string"
                  [] mode = "double"            -> "identifier"
Close(mode, close) == CASE mode = "line"   -> <<NL>>
                        [] mode = "block"  -> <<"*", "/">>
                        [] mode = "q"      -> <<close, "'">>
                        [] mode = "single" -> <<"'">>
                        [] mode = "double" -> <<"\"">>

\* The mode the next characters open, how many they are, what will close it.
Opens(t, i, anyDelimiter) ==
  CASE At(t, i, <<"-", "-">>) -> <<"line", 2, NoClose>>
    [] At(t, i, <<"/", "*">>) -> <<"block", 2, NoClose>>
    [] QQuote(t, i) \/ (anyDelimiter /\ At(t, i, <<"q", "'", " ">>)) -> <<"q", 3, Closing(t[i + 2])>>
    [] t[i] = "'"             -> <<"single", 1, NoClose>>
    [] t[i] = "\""            -> <<"double", 1, NoClose>>
    [] OTHER                  -> <<"code", 1, NoClose>>

\* What is read at x[1] in mode x[2], which x[3] closes: the mode after it, how many
\* characters, what closes that mode.
Reads(t, x, anyDelimiter, doubled) ==
  LET end == Close(x[2], x[3])
  IN  CASE x[2] = "code" -> Opens(t, x[1], anyDelimiter)
        [] x[2] \in doubled /\ At(t, x[1], end \o end) -> <<x[2], 2, x[3]>>
        [] x[2] # "code" /\ ~(x[2] \in doubled /\ At(t, x[1], end \o end)) ->
             IF At(t, x[1], end) THEN <<"code", Len(end), NoClose>> ELSE <<x[2], 1, x[3]>>

\* Before what follows, the characters that were read: they have the mode they open,
\* or the one they close.
ReadBefore(x, how, rest) ==
  [rest EXCEPT !.modes = Times(IF x[2] = "code" THEN how[1] ELSE x[2], how[2]) \o @,
               !.opens = IF x[2] # how[1] /\ how[1] # "code" THEN @ \cup {x[1]} ELSE @]

\* The modes of the characters of t, read from the given mode; where a mode is
\* entered; and the mode left.
Scan(t, mode, close, anyDelimiter, doubled) ==
  LET from[x \in (1..Len(t) + 1) \X Mode \X STRING] ==
        LET goes(how) == ReadBefore(x, how, from[<<x[1] + how[2], how[1], how[3]>>])
        IN  IF x[1] > Len(t) THEN [modes |-> <<>>, opens |-> {}, mode |-> x[2], close |-> x[3]]
            ELSE goes(Reads(t, x, anyDelimiter, doubled))
  IN  from[<<1, mode, close>>]

ScanAll(t) == Scan(t, "code", NoClose, FALSE, {"single", "double"})

\* sql_code_mask, with and without quoted identifiers; also newlines go.
SqlCodeMask(t, preserveQuotedIdentifiers) ==
  LET shown == {"code"} \cup IF preserveQuotedIdentifiers THEN {"double"} ELSE {}
      in(modes) == [i \in DOMAIN t |-> IF modes[i] \in shown THEN t[i] ELSE " "]
  IN  in(ScanAll(t).modes)

\* strip_sql_comments: a blank for each comment, and the line end after "--".
StripSqlComments(t) ==
  LET kept(opens, mode, i) == CASE i \in opens /\ mode \in {"line", "block"} -> <<" ">>
                                [] i \notin opens /\ (mode = "block" \/ (mode = "line" /\ t[i] # NL)) -> <<>>
                                [] OTHER -> <<t[i]>>
      bare(s) == FlattenSeq([i \in DOMAIN t |-> kept(s.opens, s.modes[i], i)])
  IN  bare(ScanAll(t))

\* tail_sql_words
TailSqlWords(t) == SelectSeq(SqlCodeMask(t, FALSE), IsWord)

-----------------------------------------------------------------------------
(* Line by line: the highlighter.                                          *)

\* tokenize_sql_lines: a quoted identifier ends with its line, a block comment or a
\* literal goes on.
LineAfter(s, line) ==
  Scan(line, IF s.mode \in {"line", "double"} THEN "code" ELSE s.mode, s.close, FALSE, {"single"})

TokenizeSqlLines(lines) ==
  LET state[n \in 0..Len(lines)] ==
        IF n = 0 THEN [modes |-> <<>>, opens |-> {}, mode |-> "code", close |-> NoClose]
        ELSE LineAfter(state[n - 1], lines[n])
  IN  [n \in DOMAIN lines |-> state[n].modes]

-----------------------------------------------------------------------------
(* Properties of a text.                                                   *)

\* What a lexeme is and what mode its characters are read in.
SameKinds(t, kinds, modes) == \A i \in DOMAIN t : t[i] # NL => kinds[i] = KindOf(modes[i])

\* Where a string ends decides what is sent, what is asked for as a bind and what
\* a change of case touches: every scanner of the program sees the same code.  The
\* highlighter ends a quoted identifier with its line, the others do not.
SameCode(t) ==
  LET onLines(modes) == FlattenSeq([i \in DOMAIN t |-> IF t[i] = NL THEN <<>> ELSE <<modes[i]>>])
      agree(kinds, modes) ==
        /\ SameKinds(t, kinds, modes)
        /\ Scan(t, "code", NoClose, TRUE, {"single"}).modes = modes
        /\ \/ \E i \in DOMAIN t : t[i] = NL /\ modes[i] = "double"
           \/ FlattenSeq(TokenizeSqlLines(Lines(t))) = onLines(modes)
        /\ \A i \in FindSqlBinds(t) : modes[i] = "code"
      sameWords(bare) == /\ TailSqlWords(bare) = TailSqlWords(t)
                         /\ ToSet(ScanAll(bare).modes) \cap {"line", "block"} = {}
  IN  agree(Kinds(t), ScanAll(t).modes) /\ sameWords(StripSqlComments(t))
=============================================================================
