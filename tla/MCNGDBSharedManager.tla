------------------------ MODULE MCNGDBSharedManager ------------------------
(* A built-in driver with two schemes, a plug-in that takes one of them    *)
(* over, one that registers nothing, one that raises after its first       *)
(* scheme, and one without a class.                                        *)
EXTENDS NGDBSharedManager

Declared ==
  [d \in Drivers |-> CASE d = "builtin" -> <<"sqlite", "sqlite3">>
                       [] d = "mysql" -> <<"mysql", "sqlite">>
                       [] d = "broken" -> <<"mysql">>
                       [] OTHER -> <<>>]
=============================================================================
