--------------------------- MODULE StatementCalls ---------------------------
(***************************************************************************)
(* What a connection promises of the statements a program gives it         *)
(* (executeSQL:, query: and prepare: of NGDBConnection, executeWithArray:  *)
(* and queryWithArray: of NGDBStatement), whatever reads their text: a     *)
(* call takes a statement as a whole and gives one answer, the SQL the     *)
(* statement stands for or the first thing that is wrong with it.  A       *)
(* prepared statement is executed with the aliases known when it was       *)
(* prepared, as often as the program likes, and no call changes another's  *)
(* answer.                                                                 *)
(***************************************************************************)
EXTENDS Naturals, Sequences

CONSTANTS Statements, ParamLists, Renamings,
          Qualified(_),      \* the full name of an object
          Needed(_, _),      \* placeholders in the first units of a statement
          Nameless(_),       \* a table without a name
          SQL(_, _, _),      \* what a statement stands for, with aliases and parameters
          Kept(_),           \* statements whose meaning a scan of their text keeps,
          KeptTwice(_)       \*   and those for which two scans do

VARIABLES asked,             \* the statement the program works with
          aliases,           \* the names it has given
          made,              \* whether it is prepared, and with what aliases
          call, params,      \* the last call, or idle
          verdict, sql       \* its answer: none (not yet), sql, nil or raised

vars == <<asked, aliases, made, call, params, verdict, sql>>

Init == /\ asked \in Statements
        /\ aliases = <<>> /\ made = [is |-> FALSE, aliases |-> <<>>]
        /\ call = "idle" /\ params = <<>> /\ verdict = "none" /\ sql = <<>>

Waiting == call # "idle" /\ verdict = "none"

SetAlias(alias, object) ==
  /\ ~Waiting
  /\ call' = "idle" /\ params' = <<>> /\ verdict' = "none" /\ sql' = <<>>
  /\ aliases' = [a \in DOMAIN aliases \cup {alias} |->
                   IF a = alias THEN Qualified(object) ELSE aliases[a]]
  /\ UNCHANGED <<asked, made>>

Call(kind, list) ==
  /\ ~Waiting
  /\ kind = "execute" => made.is
  /\ call' = kind /\ params' = list /\ verdict' = "none" /\ sql' = <<>>
  /\ UNCHANGED <<asked, aliases, made>>

(* Something is wrong with the k-th unit, and with none before it.         *)
Wrong(k) == Nameless(asked[k]) \/ (call # "prepare" /\ Needed(asked, k) > Len(params))

FirstWrong(k) == k \in DOMAIN asked /\ Wrong(k) /\ \A j \in 1..k - 1 : ~Wrong(j)

Judged(what) ==
  \/ what = "sql" /\ \A k \in DOMAIN asked : ~Wrong(k)
  \/ \E k \in DOMAIN asked :
       FirstWrong(k) /\ what = IF Nameless(asked[k]) THEN "raised" ELSE "nil"

Intact == CASE call = "execute" -> KeptTwice(asked)
            [] call = "direct"  -> Kept(asked)
            [] OTHER            -> FALSE

Answer ==
  /\ Waiting /\ verdict' \in {"sql", "nil", "raised"}
  /\ call # "execute" \/ KeptTwice(asked) => Judged(verdict')
  /\ verdict' = "sql" /\ Intact =>
       sql' = SQL(asked, IF call = "execute" THEN made.aliases ELSE aliases, params)
  /\ made' = IF call = "prepare" /\ verdict' = "sql"
             THEN [is |-> TRUE, aliases |-> aliases] ELSE made
  /\ UNCHANGED <<asked, aliases, call, params>>

Next ==
  \/ \E names \in Renamings : SetAlias(names.alias, names.object)
  \/ \E list \in ParamLists, kind \in {"direct", "execute"} : Call(kind, list)
  \/ Call("prepare", <<>>)
  \/ Answer

Spec == Init /\ [][Next]_vars
=============================================================================
