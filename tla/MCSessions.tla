------------------------------ MODULE MCSessions ------------------------------
(* Two sessions, and a client that asks for one of them or lists them.     *)
EXTENDS Sessions

MCPlain    == {"a", "b", "s", "-", "_", "1", "2", "3", "4", "5", "6", "7", "8", "9"}
MCOptions  == {[given |-> TRUE,  text |-> <<"a", "b">>],
               [given |-> TRUE,  text |-> <<".", "a">>],
               [given |-> FALSE, text |-> <<".", "a", "$">>]}
MCRequests == {[name |-> <<"a", "b">>, line |-> "lock"],
               [name |-> <<>>, line |-> "ls"]}
MCLeftover == {<<"a", "b">>}
MCForeign  == {<<".", "a">>}
MCSpaces   == {2, 3}
MCDefault  == <<"s">>
===============================================================================
