---------------------------- MODULE QueryBuilder ----------------------------
(***************************************************************************)
(* -[NGDBConnection intersperseQuery:substituteParams:paramsArray:         *)
(* addSuffix:status:], which turns a statement written with [names],       *)
(* {tables} and ? placeholders into SQL, and the three ways it is reached: *)
(* at once (executeSQL:, query:), when a statement is prepared             *)
(* (placeholders stay), and when a prepared statement is executed, which   *)
(* scans what the first scan made of it once more.                         *)
(*                                                                         *)
(* A character is named: dq, sq and bq for the quotes, lb and rb, lc and   *)
(* rc for brackets and braces, qm for ?.  Positions count from 1.  A       *)
(* Statement is what a program means by its text, unit by unit, as the     *)
(* syntax guide above the method describes them; the scanner sees only the *)
(* characters.                                                             *)
(***************************************************************************)
EXTENDS Naturals, Sequences, FiniteSets, SequencesExt

CONSTANTS Letters, Digits,   \* characters of no meaning to the scanner
          Qualifier,         \* "database". in front of a qualified name
          Values, quote,     \* parameters and their quoted forms
          ParamLists,        \* the paramsArray: arguments
          Statements,        \* what the program writes
          Renamings          \* the pairs of names it gives to setAlias:

Openers == {"dq", "sq", "bq", "lb", "lc"}
Chars == Letters \cup Digits \cup Openers \cup {"rb", "rc", "qm"}
Symbols == Chars \cup {quote[v] : v \in Values}

(* kind: text (copied as it is), param, name, table, subscript; text: the  *)
(* characters of the unit without its brackets.                            *)
Units == [kind : {"text", "param", "name", "table", "subscript"}, text : Seq(Chars)]

Written(u) == CASE u.kind = "text"  -> u.text
                [] u.kind = "param" -> <<"qm">>
                [] u.kind = "table" -> <<"lc">> \o u.text \o <<"rc">>
                [] OTHER            -> <<"lb">> \o u.text \o <<"rb">>

Text(units) == FlattenSeq([i \in DOMAIN units |-> Written(units[i])])

(* The syntax of a unit.  What a bracket opens is text if the same bracket *)
(* comes before its counterpart; a name is not all digits (that is a       *)
(* subscript); and only the last unit may leave a quote open.              *)
Ends(opener) == {opener} \cup (IF opener = "lb" THEN {"rb"} ELSE {})
                         \cup (IF opener = "lc" THEN {"rc"} ELSE {})

Plain(text) == \A i \in DOMAIN text : text[i] \notin Openers \cup {"qm"}

LeftOpen(text) ==
  text # <<>> /\ text[1] \in Openers /\ \A i \in 2..Len(text) : text[i] \notin Ends(text[1])

Quoted(text) ==
  /\ Len(text) >= 2 /\ text[1] \in Openers /\ text[Len(text)] = text[1]
  /\ \A i \in 2..Len(text) - 1 : text[i] \notin Ends(text[1])

Only(text, characters) == \A i \in DOMAIN text : text[i] \in characters

WellWritten(u, last) ==
  CASE u.kind = "text"      -> /\ u.text # <<>>
                               /\ Plain(u.text) \/ Quoted(u.text) \/ (last /\ LeftOpen(u.text))
    [] u.kind = "param"     -> TRUE
    [] u.kind = "table"     -> Only(u.text, Chars \ Ends("lc"))
    [] u.kind = "name"      -> Only(u.text, Chars \ Ends("lb")) /\ ~Only(u.text, Digits)
    [] u.kind = "subscript" -> Only(u.text, Digits)

IsStatement(units) ==
  units \in Seq(Units) /\ \A i \in DOMAIN units : WellWritten(units[i], i = Len(units))

ASSUME CharactersAssumption ==
         (Letters \cup Digits) \cap (Openers \cup {"rb", "rc", "qm"}) = {}

ASSUME QueryBuilderAssumption ==
         /\ Qualifier \in Seq(Chars) /\ ParamLists \subseteq Seq(Values)
         /\ \A names \in Renamings : names.alias \in Seq(Chars) /\ names.object \in Seq(Chars)

ASSUME StatementsAssumption == \A units \in Statements : IsStatement(units)

VARIABLES asked,             \* the statement the program works with
          aliases,           \* the names given to setAlias:
          statement,         \* the NGDBStatement: its SQL, and aliases when it was made
          task,              \* the last call of the scanner, or idle
          query, array,      \* its arguments
          s, e, q, n,        \* start of the pending text, next character,
                             \*   the open quote or none, parameters used
          tarray,            \* where in query the pieces of the result are from
          ret,               \* the pieces joined
          result             \* none (not yet), sql (ret), nil or raised

scanner == <<query, array, s, e, q, n, tarray, ret, result>>
vars == <<asked, aliases, statement, task, scanner>>

(* A piece of the result: its text, the characters of the query it is a    *)
(* copy of or stands for, and for a value the number of the parameter.     *)
Piece(kind, from, to, text, index) ==
  [kind |-> kind, from |-> from, to |-> to, text |-> text, index |-> index]

Copied(from, to) == Piece("copy", from, to, SubSeq(query, from, to), 0)

NoStatement == [prepared |-> FALSE, sql |-> <<>>, aliases |-> <<>>]

Init == /\ asked \in Statements
        /\ aliases = <<>> /\ statement = NoStatement
        /\ task = "idle" /\ query = <<>> /\ array = <<>>
        /\ s = 1 /\ e = 1 /\ q = "none" /\ n = 0
        /\ tarray = <<>> /\ ret = <<>> /\ result = "none"

-----------------------------------------------------------------------------
(* quoteObject:inSchema:inDatabase: and quoteObject:qualify:.              *)
InQuotes(name) == <<"dq">> \o name \o <<"dq">>

Qualified(name) == Qualifier \o InQuotes(name)

QuoteObject(known, name, qualify) ==
  IF name[1] = "dq" THEN name
  ELSE IF name \in DOMAIN known THEN known[name]
  ELSE IF qualify THEN Qualified(name) ELSE InQuotes(name)

(* The scanner is at work.                                                 *)
Busy == task # "idle" /\ result = "none"

SetAlias(alias, object) ==
  /\ ~Busy /\ task' = "idle"
  /\ aliases' = [a \in DOMAIN aliases \cup {alias} |->
                   IF a = alias THEN Qualified(object) ELSE aliases[a]]
  /\ UNCHANGED <<asked, statement, scanner>>

(* A call of the scanner begins.                                           *)
Scan(who, text, params) ==
  /\ ~Busy /\ task' = who
  /\ query' = text /\ array' = params
  /\ s' = 1 /\ e' = 1 /\ q' = "none" /\ n' = 0
  /\ tarray' = <<>> /\ ret' = <<>> /\ result' = "none"

(* executeSQL:withArray:status: and query:withArray:status:.               *)
Execute(params) ==
  /\ Scan("direct", Text(asked), params)
  /\ UNCHANGED <<asked, aliases, statement>>

(* prepare:status:.                                                        *)
Prepare ==
  /\ Scan("prepare", Text(asked), <<>>)
  /\ UNCHANGED <<asked, aliases, statement>>

(* execute: and query: of the statement.                                   *)
ExecutePrepared(params) ==
  /\ statement.prepared
  /\ Scan("execute", statement.sql, params)
  /\ UNCHANGED <<asked, aliases, statement>>

-----------------------------------------------------------------------------
(* The loop: one action for each branch of its body.                       *)
Scanning == Busy /\ e <= Len(query)

Char == query[e]

(* A quote or a bracket opens here.                                        *)
(* Mutant: double quotes are not quotes. *)
OpensWithoutDouble == q = "none" /\ Char \in Openers \ {"dq"}

Opens == q = "none" /\ Char \in Openers

(* The text from s up to e, if there is any, as it is.                     *)
Flushed == IF e > s THEN Append(tarray, Copied(s, e - 1)) ELSE tarray
FlushedText == ret \o SubSeq(query, s, e - 1)

(* Mutant: two characters at a time. *)
AdvanceTwo(from, quoted) ==
  /\ e' = e + 2 /\ s' = from /\ q' = quoted

Advance(from, quoted) ==
  /\ e' = e + 1 /\ s' = from /\ q' = quoted

Same == UNCHANGED <<asked, aliases, statement, task, query, array>>

(* The brackets close: a piece takes their place, and the pending text     *)
(* begins behind them.                                                     *)
(* Mutant: the pending text still begins at the bracket. *)
ReplaceKeepingStart(piece) ==
  /\ tarray' = Append(tarray, piece)
  /\ ret' = ret \o piece.text
  /\ Advance(s, "none")
  /\ Same /\ UNCHANGED <<n, result>>

Replace(piece) ==
  /\ tarray' = Append(tarray, piece)
  /\ ret' = ret \o piece.text
  /\ Advance(e + 1, "none")
  /\ Same /\ UNCHANGED <<n, result>>

Return(what) == result' = what

Name == SubSeq(query, s + 1, e - 1)

Named(qualify) == Piece("name", s, e, QuoteObject(aliases, Name, qualify), 0)

(* An empty name has no first character: the exception leaves the method.  *)
CloseBrace ==
  /\ Scanning /\ q = "lc" /\ Char = "rc"
  /\ IF Name = <<>>
     THEN Return("raised") /\ Same /\ UNCHANGED <<s, e, q, n, tarray, ret>>
     ELSE Replace(Named(TRUE))

(* "Detect array suffixes, which can be empty, or contain colon-separated  *)
(* lists of digits."  The copy ends before the closing bracket.              *)
IsSubscript == \A i \in s + 1..e - 1 : query[i] \in Digits

(* Mutant: a name in brackets is qualified as a table is. *)
CloseBracketQualified ==
  /\ Scanning /\ q = "lb" /\ Char = "rb"
  /\ IF IsSubscript
     THEN Replace(Copied(s, e - 1))
     ELSE Replace(Named(TRUE))

CloseBracket ==
  /\ Scanning /\ q = "lb" /\ Char = "rb"
  /\ IF IsSubscript
     THEN Replace(Copied(s, e - 1))
     ELSE Replace(Named(FALSE))

Closes == (q = "lc" /\ Char = "rc") \/ (q = "lb" /\ Char = "rb")

(* A quote ends at the character that opened it, brackets included; the    *)
(* text stays pending from where it began.                                 *)
CloseQuote ==
  /\ Scanning /\ q # "none" /\ Char = q
  /\ Advance(s, "none")
  /\ Same /\ UNCHANGED <<n, tarray, ret, result>>

InsideQuote ==
  /\ Scanning /\ q # "none" /\ Char # q /\ ~Closes
  /\ Advance(s, q)
  /\ Same /\ UNCHANGED <<n, tarray, ret, result>>

OpenQuote ==
  /\ Scanning /\ Opens
  /\ tarray' = Flushed /\ ret' = FlushedText
  /\ Advance(e, Char)
  /\ Same /\ UNCHANGED <<n, result>>

(* Mutants: wherever it stands; whether the statement is prepared or not. *)
IsPlaceholderAnywhere == task # "prepare" /\ Char = "qm"

IsPlaceholderAlways == q = "none" /\ Char = "qm"

IsPlaceholder == q = "none" /\ task # "prepare" /\ Char = "qm"

(* "Number of parameter placeholders exceeds number of supplied            *)
(* parameters"                                                             *)
TooFewParameters ==
  /\ Scanning /\ IsPlaceholder /\ n >= Len(array)
  /\ Return("nil")
  /\ Same /\ UNCHANGED <<s, e, q, n, tarray, ret>>

(* Mutant: n is not incremented. *)
PlaceholderNotCounted ==
  /\ Scanning /\ IsPlaceholder /\ n < Len(array)
  /\ tarray' = Append(Flushed, Piece("value", e, e, <<quote[array[n + 1]]>>, n + 1))
  /\ ret' = Append(FlushedText, quote[array[n + 1]])
  /\ Advance(e + 1, "none")
  /\ Same /\ UNCHANGED <<n, result>>

Placeholder ==
  /\ Scanning /\ IsPlaceholder /\ n < Len(array)
  /\ tarray' = Append(Flushed, Piece("value", e, e, <<quote[array[n + 1]]>>, n + 1))
  /\ ret' = Append(FlushedText, quote[array[n + 1]])
  /\ n' = n + 1
  /\ Advance(e + 1, "none")
  /\ Same /\ UNCHANGED result

Ordinary ==
  /\ Scanning /\ q = "none" /\ ~Opens /\ ~IsPlaceholder
  /\ Advance(s, "none")
  /\ Same /\ UNCHANGED <<n, tarray, ret, result>>

(* After the loop; a statement that is prepared keeps the result.          *)
Finish ==
  /\ Busy /\ e > Len(query)
  /\ tarray' = Flushed /\ ret' = FlushedText
  /\ Return("sql")
  /\ statement' = IF task = "prepare"
                  THEN [prepared |-> TRUE, sql |-> ret', aliases |-> aliases]
                  ELSE statement
  /\ UNCHANGED <<asked, aliases, task, query, array, s, e, q, n>>

Next ==
  \/ \E names \in Renamings : SetAlias(names.alias, names.object)
  \/ \E params \in ParamLists : Execute(params) \/ ExecutePrepared(params)
  \/ Prepare
  \/ CloseBrace \/ CloseBracket \/ CloseQuote \/ InsideQuote \/ OpenQuote
  \/ Placeholder \/ TooFewParameters \/ Ordinary \/ Finish

Spec == Init /\ [][Next]_vars

-----------------------------------------------------------------------------
(* Type invariant. *)
TypeOK ==
  /\ asked \in Statements
  /\ DOMAIN aliases \subseteq Seq(Chars)
  /\ \A a \in DOMAIN aliases : aliases[a] \in Seq(Chars)
  /\ statement.prepared \in BOOLEAN /\ statement.sql \in Seq(Chars)
  /\ task \in {"idle", "direct", "prepare", "execute"}
  /\ query \in Seq(Chars) /\ array \in Seq(Values)
  /\ e \in 1..Len(query) + 1 /\ s \in 1..e
  /\ q \in Openers \cup {"none"} /\ n \in 0..Len(array)
  /\ tarray \in Seq([kind : {"copy", "name", "value"}, from : Nat, to : Nat,
                     text : Seq(Symbols), index : Nat])
  /\ ret \in Seq(Symbols)
  /\ result \in {"none", "sql", "nil", "raised"}

(* The result is the query piece by piece, from its first character to the *)
(* start of the pending text, and to its end when the method returns it.   *)
(* What is copied is what stands there, what is replaced is a bracket with *)
(* all it holds or a question mark, and nothing is read twice or left out, *)
(* whatever is quoted, nested or left open, but one thing: the closing     *)
(* bracket of an array suffix, which no piece holds (SubscriptsKept).      *)
CutShort(p) ==
  /\ p.kind = "copy" /\ query[p.from] = "lb"
  /\ \A i \in p.from + 1..p.to : query[i] \in Digits
  /\ p.to < Len(query) /\ query[p.to + 1] = "rb"

Resumes(p) == IF CutShort(p) THEN p.to + 2 ELSE p.to + 1

IsBracket(from, to) == \/ query[from] = "lb" /\ query[to] = "rb"
                       \/ query[from] = "lc" /\ query[to] = "rc"

Continued == IF tarray = <<>> THEN 1 ELSE Resumes(tarray[Len(tarray)])

OnlySuffixEndsLost ==
  /\ ret = FlattenSeq([i \in DOMAIN tarray |-> tarray[i].text])
  /\ \A i \in DOMAIN tarray :
       LET p == tarray[i] IN
       /\ p.from <= p.to
       /\ p.from = IF i = 1 THEN 1 ELSE Resumes(tarray[i - 1])
       /\ p.kind = "copy" => p.text = SubSeq(query, p.from, p.to)
       /\ p.kind = "name" => IsBracket(p.from, p.to)
  /\ Continued = IF result = "sql" THEN Len(query) + 1 ELSE s

(* The parameters that have been used are the first n, each of them once   *)
(* and in order, each in the place of a question mark; a statement that is *)
(* prepared uses none.                                                     *)
IsValue(i) == tarray[i].index > 0

ParametersInOrder ==
  /\ \A i, j \in DOMAIN tarray :
       IsValue(i) /\ IsValue(j) /\ i < j => tarray[i].index < tarray[j].index
  /\ \A k \in 1..n : \E i \in DOMAIN tarray : tarray[i].index = k
  /\ \A i \in DOMAIN tarray :
       IsValue(i) => query[tarray[i].from] = "qm" /\ tarray[i].to = tarray[i].from
  /\ task = "prepare" => n = 0

(* What a statement stands for, with the aliases known and the parameters. *)
Needed(units, i) == Cardinality({j \in 1..i : units[j].kind = "param"})

Meaning(units, i, known, params) ==
  LET text == units[i].text IN
  CASE units[i].kind = "param" -> <<quote[params[Needed(units, i)]]>>
    [] units[i].kind = "name"  -> QuoteObject(known, text, FALSE)
    [] units[i].kind = "table" -> QuoteObject(known, text, TRUE)
    [] OTHER                   -> Written(units[i])

SQL(units, known, params) ==
  FlattenSeq([i \in DOMAIN units |-> Meaning(units, i, known, params)])

(* A scan keeps what is meant, but for array suffixes.                     *)
Kept(units) == \A i \in DOMAIN units : units[i].kind # "subscript"

(* Executing a statement at once gives the SQL it stands for: text, quoted *)
(* strings, and quotes left open as they are, names and tables quoted,     *)
(* aliases resolved, placeholders outside of quotes replaced.              *)
SaysWhatIsAsked ==
  task = "direct" /\ result = "sql" /\ Kept(asked) => ret = SQL(asked, aliases, array)

(* So does executing it after it was prepared, although the text is        *)
(* scanned twice then, the second time with the names already quoted; the  *)
(* aliases are those known when it was prepared.  A name, and the object   *)
(* of an alias, must hold no double quote unless it is a quoted name.      *)
WithoutQuotes(name) == "dq" \notin ToSet(name)

WellNamed(units) ==
  \A i \in DOMAIN units :
    units[i].kind \in {"name", "table"} =>
      WithoutQuotes(units[i].text) \/ (Quoted(units[i].text) /\ units[i].text[1] = "dq")

PlainSettings ==
  /\ \A names \in Renamings : WithoutQuotes(names.object)
  /\ \E k \in DOMAIN Qualifier :
       Quoted(SubSeq(Qualifier, 1, k)) /\ Plain(SubSeq(Qualifier, k + 1, Len(Qualifier)))

KeptTwice(units) == Kept(units) /\ WellNamed(units) /\ PlainSettings

(* What the first scan left is what the program meant.                     *)
Intact == task = "execute" => KeptTwice(asked)

PreparedSaysTheSame ==
  task = "execute" /\ result = "sql" /\ Intact => ret = SQL(asked, statement.aliases, array)

Nameless(u) == u.kind = "table" /\ u.text = <<>>

(* nil is returned when, and only when, there are more placeholders than   *)
(* parameters, by either way; preparing never fails for lack of them; and  *)
(* the method raises only for a table without a name.                      *)
RefusedForAReason ==
  task # "idle" /\ Intact =>
    /\ result = "nil" => task # "prepare" /\ Needed(asked, Len(asked)) > Len(array)
    /\ result = "sql" => task = "prepare" \/ Needed(asked, Len(asked)) <= Len(array)
    /\ result = "raised" => \E i \in DOMAIN asked : Nameless(asked[i])

(* Seen from the program, a call takes its statement as a whole: character *)
(* by character, the scanner implements StatementCalls, where each call    *)
(* has one answer, which the first fault of the statement decides, and     *)
(* neither a name given between two calls nor a call that failed changes   *)
(* what a prepared statement says.                                         *)
Answered == task # "idle" /\ result = "sql"

Calls == INSTANCE StatementCalls WITH
           call <- task, params <- IF task = "idle" THEN <<>> ELSE array,
           verdict <- IF task = "idle" THEN "none" ELSE result,
           sql <- IF Answered THEN ret ELSE <<>>,
           made <- [is |-> statement.prepared, aliases |-> statement.aliases]

CallsAnswered == Calls!Spec

-----------------------------------------------------------------------------
(* What a comment in the method says and the code does not do.             *)

(* "Add the original string as a literal" (of an array suffix).            *)
SubscriptsKept ==
  task = "direct" /\ result = "sql" => ret = SQL(asked, aliases, array)
=============================================================================
