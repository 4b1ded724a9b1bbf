----------------------------- MODULE SQLScripts -----------------------------
(***************************************************************************)
(* splitSQL: a migration is one text, and the driver executes a single     *)
(* statement at a time.  The scanner looks one character ahead and knows   *)
(* literals, comments and dollar quotes.                                   *)
(*                                                                         *)
(* A script is made of tokens, each the characters it is written with; of  *)
(* these the scanner tells apart quotes, semicolons, dashes, slashes,      *)
(* stars, dollars, letters, digits, blanks and ends of lines ("n"), and a  *)
(* letter of two bytes ("ae").                                             *)
(***************************************************************************)
EXTENDS Integers, FiniteSets, SequencesExt

CONSTANTS
    Characters,  \* what scripts are written with
    Scripts,     \* the scripts that are split
    NotSplit     \* no statements yet

VARIABLES
    script,     \* its tokens
    statements  \* what is executed, one after the other

scriptVars == <<script, statements>>

-----------------------------------------------------------------------------
Quote == "'"
Semicolon == ";"
Letters == {"x", "y"}
Digits == {"1"}
Blanks == {" ", "n"}
Wide == {"ae"}

-----------------------------------------------------------------------------
(* What the tokens of a script are.                                        *)

Special == {Quote, "-", "/", "$", Semicolon}

IsOrdinary(t) == Len(t) = 1 /\ t[1] \notin Special

(* A dash, slash or dollar that begins nothing, with what follows it: an   *)
(* operator, or a parameter.                                               *)
IsOperator(t) ==
    /\ Len(t) = 2 /\ t[1] \in {"-", "/", "$"} /\ t[2] \notin Special
    /\ t[1] = "/" => t[2] # "*"
    /\ t[1] = "$" => t[2] \notin Letters

(* The quotes in a literal come in pairs.                                  *)
IsLiteral(t) ==
    /\ Len(t) >= 2 /\ t[1] = Quote /\ t[Len(t)] = Quote
    /\ \E pairs \in SUBSET (2 .. Len(t) - 2) :
          /\ \A i \in pairs : i + 1 \notin pairs
          /\ \A i \in 2 .. Len(t) - 1 : t[i] = Quote <=> i \in pairs \/ i - 1 \in pairs

IsLineComment(t) ==
    /\ Len(t) >= 3 /\ t[1] = "-" /\ t[2] = "-"
    /\ \A i \in 3 .. Len(t) : t[i] = "n" <=> i = Len(t)

(* Block comments do not nest.                                             *)
IsBlockComment(t) ==
    /\ Len(t) >= 4 /\ t[1] = "/" /\ t[2] = "*"
    /\ \A i \in 3 .. Len(t) - 1 : t[i] = "*" /\ t[i + 1] = "/" <=> i = Len(t) - 1

(* A dollar quote whose tag has n characters ends where the tag is met     *)
(* again.  Names have no dollars.                                          *)
IsTagged(t, n) ==
    /\ Len(t) >= 2 * n /\ t[1] = "$" /\ t[n] = "$"
    /\ \A i \in 2 .. n - 1 : t[i] \in Letters \cup Digits
    /\ n > 2 => t[2] \in Letters
    /\ \A i \in n + 1 .. Len(t) - n + 1 :
          SubSeq(t, i, i + n - 1) = SubSeq(t, 1, n) <=> i = Len(t) - n + 1
IsDollarQuote(t) == \E n \in 2 .. Len(t) : IsTagged(t, n)

IsComment(t) == IsLineComment(t) \/ IsBlockComment(t)

IsToken(t) ==
    t = <<Semicolon>> \/ IsOrdinary(t) \/ IsOperator(t) \/ IsLiteral(t) \/ IsComment(t)
    \/ IsDollarQuote(t)

ASSUME ScriptsAreWritten ==
    \A s \in Scripts : s \in Seq(Seq(Characters)) /\ \A i \in DOMAIN s : IsToken(s[i])

-----------------------------------------------------------------------------
(* Scanning.                                                               *)

Trim(s) ==
    LET ink == {i \in DOMAIN s : s[i] \notin Blanks} IN
    IF ink = {} THEN <<>>
    ELSE SubSeq(s, CHOOSE i \in ink : \A j \in ink : i <= j,
                   CHOOSE i \in ink : \A j \in ink : j <= i)

Add(stmts, s) == IF Trim(s) = <<>> THEN stmts ELSE Append(stmts, Trim(s))

Next1(s, i, c) == i < Len(s) /\ s[i + 1] = c

(* parseDollarQuoteTag: where the $ at i begins a quote, the $ that ends   *)
(* its tag, or 0.  Two dollars that end the script begin nothing; and a    *)
(* tag that may begin with a digit.                                        *)
DollarAfterAnyTag(s, i) ==
    LET ends == {j \in i + 1 .. Len(s) :
            s[j] = "$" /\ \A k \in i + 1 .. j - 1 : s[k] \in Letters \cup Digits} IN
    IF ends = {} \/ Len(s) < i + 2 THEN 0 ELSE CHOOSE j \in ends : \A k \in ends : j <= k
DollarAfterTag(s, i) ==
    LET ends == {j \in i + 1 .. Len(s) :
            /\ s[j] = "$"
            /\ \A k \in i + 1 .. j - 1 : s[k] \in Letters \cup Digits
            /\ j > i + 1 => s[i + 1] \in Letters} IN
    IF ends = {} \/ Len(s) < i + 2 THEN 0 ELSE CHOOSE j \in ends : \A k \in ends : j <= k

-----------------------------------------------------------------------------
(* The scanner at character i: what it is within, the tag that closes a    *)
(* dollar quote, the statement so far, those before it, and how many       *)
(* characters it has already consumed.                                     *)
Keep(st, chars) == [st EXCEPT !.cur = @ \o chars, !.skip = Len(chars) - 1]

InString(st, s, i) ==
    IF s[i] # Quote THEN Keep(st, <<s[i]>>)
    ELSE IF Next1(s, i, Quote) THEN Keep(st, <<Quote, Quote>>)
    ELSE [Keep(st, <<Quote>>) EXCEPT !.within = "sql"]

(* What is copied up to the closing tag is counted in bytes, but the       *)
(* characters it advances by are not: one of two bytes loses another that  *)
(* follows the quote.                                                      *)
Bytes(chars) == Len(chars) + Cardinality({i \in DOMAIN chars : chars[i] \in Wide})

InDollarQuote(st, s, i) ==
    LET n == Len(st.tag)
        closings == {j \in i .. Len(s) - n + 1 : SubSeq(s, j, j + n - 1) = st.tag} IN
    IF closings = {} THEN Keep(st, <<s[i]>>)
    ELSE LET copied == SubSeq(s, i, n - 1 + CHOOSE j \in closings : \A k \in closings : j <= k)
         IN [st EXCEPT !.cur = @ \o copied, !.skip = Bytes(copied) - 1, !.within = "sql"]

InSQL(st, s, i) ==
    CASE s[i] = Quote -> [Keep(st, <<Quote>>) EXCEPT !.within = "string"]
      [] s[i] = "-" /\ Next1(s, i, "-") -> [st EXCEPT !.within = "line", !.skip = 1]
      [] s[i] = "/" /\ Next1(s, i, "*") -> [st EXCEPT !.within = "block", !.skip = 1]
      [] s[i] = "$" /\ DollarAfterTag(s, i) # 0 ->
            LET tag == SubSeq(s, i, DollarAfterTag(s, i)) IN
            [Keep(st, tag) EXCEPT !.within = "dollar", !.tag = tag]
      [] s[i] = Semicolon -> [st EXCEPT !.stmts = Add(@, st.cur), !.cur = <<>>]
      [] OTHER -> Keep(st, <<s[i]>>)

(* A comment leaves nothing behind, not even the end of its line.          *)
Scan(s, st, i) ==
    IF st.skip > 0 THEN [st EXCEPT !.skip = @ - 1] ELSE
    CASE st.within = "line" -> IF s[i] = "n" THEN [st EXCEPT !.within = "sql"] ELSE st
      [] st.within = "block" ->
            IF s[i] = "*" /\ Next1(s, i, "/")
            THEN [st EXCEPT !.within = "sql", !.skip = 1] ELSE st
      [] st.within = "string" -> InString(st, s, i)
      [] st.within = "dollar" -> InDollarQuote(st, s, i)
      [] st.within = "sql" -> InSQL(st, s, i)

ScanStart == [within |-> "sql", tag |-> <<>>, cur |-> <<>>, stmts |-> <<>>, skip |-> 0]

SplitSQL(s) ==
    LET scanned[i \in 0 .. Len(s)] ==
            IF i = 0 THEN ScanStart ELSE Scan(s, scanned[i - 1], i)
        end == scanned[Len(s)]
    IN  Add(end.stmts, end.cur)

-----------------------------------------------------------------------------
ScriptInit == script \in Scripts /\ statements = NotSplit

(* runMigration splits the script before it executes any of it.            *)
Split ==
    /\ statements = NotSplit
    /\ statements' = SplitSQL(FlattenSeq(script))
    /\ UNCHANGED script

ScriptSpec == ScriptInit /\ [][Split]_scriptVars

-----------------------------------------------------------------------------
IsWide(token) == \E i \in DOMAIN token : token[i] \in Wide

(* What a token adds to the statements before it and to the one it is in.  *)
Taken(st, token) ==
    IF token = <<Semicolon>> THEN [cur |-> <<>>, stmts |-> Add(st.stmts, st.cur)]
    ELSE IF IsComment(token) THEN st
    ELSE [st EXCEPT !.cur = @ \o token]

WholeStatements(tokens) ==
    LET taken[n \in 0 .. Len(tokens)] ==
            IF n = 0 THEN [cur |-> <<>>, stmts |-> <<>>] ELSE Taken(taken[n - 1], tokens[n])
        end == taken[Len(tokens)]
    IN  Add(end.stmts, end.cur)

(* Statements end at the semicolons that are tokens of their own, and at   *)
(* no others: whatever quotes, comments, tags and semicolons a literal, a  *)
(* comment or a dollar quote holds, the statement around it is executed    *)
(* whole, and so is the next (the comment on splitSQL), unless a dollar    *)
(* quote holds characters of more than one byte.                           *)
StatementsAreWhole ==
    statements # NotSplit
    /\ (\A i \in DOMAIN script : IsDollarQuote(script[i]) => ~IsWide(script[i])) =>
        statements = WholeStatements(script)
=============================================================================
