---------------------------- MODULE MCOutputPath ----------------------------
(***************************************************************************)
(* Values for TLC: calls of `expect' with one pattern, with two of which   *)
(* one is in the other, and with one that matches the empty string.        *)
(***************************************************************************)
EXTENDS OutputPath

MCNone == <<"none">>

Flags(regex, substr, follow, scrollback) ==
    [regex |-> regex, substr |-> substr, follow |-> follow,
     scrollback |-> scrollback, idle |-> regex = MCNone,
     exit |-> substr = MCNone, timeout |-> follow]

MCOptions ==
    {Flags(<<"[", "u">>, MCNone, TRUE, TRUE),
     Flags(MCNone, <<"u", "u">>, TRUE, FALSE),
     Flags(<<"u", "[", "u">>, <<"[">>, FALSE, TRUE),
     Flags(<<>>, <<"u">>, FALSE, FALSE)}
=============================================================================
