------------------------------- MODULE MCMcp -------------------------------
(* Instance of McpServer for TLC.  A needle of two letters, in a buffer of  *)
(* three, can fall across a read, a poll and the start of the wait.         *)
EXTENDS McpServer, TLC

(* Three of the 64 symbols: both ends of the alphabet and one between.     *)
MCb64_val == [A |-> 0, Q |-> 16, slash |-> 63]

(* The target's names, longer ones, the empty name, and escaped ones.      *)
MCNameChars == {"p", "a", "c", "x", "newline", "unicode"}
MCMemberNames ==
    {<<>>, <<"p">>, <<"a">>, <<"c">>, <<"p", "x">>, <<"a", "x">>, <<"c", "x">>, <<"newline">>,
     <<"newline", "x">>, <<"unicode">>}

MCNeedle == <<"l", "m">>
=============================================================================
