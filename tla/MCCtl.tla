------------------------------- MODULE MCCtl -------------------------------
(***************************************************************************)
(* Values for TLC: the keys are ctrl-b (2), ctrl-\ (28) and d (100); runs  *)
(* in which much is typed resize little, and the other way round.          *)
(***************************************************************************)
EXTENDS Ctl, TLC

MCSizes == {<<1, 3>>, <<2, 1>>, <<3, 2>>}

MCTypeable == {2, 28, 100}

CtrlB == <<"ctrl", 98>>
CtrlBackslash == <<"ctrl", 92>>
NoSpec == <<"none">>
D == <<"bare", 100>>

Start(prefix, key, window, bounds) ==
    [config |-> <<prefix, key>>, tty |-> window, size |-> <<1, 3>>,
     budget |-> bounds]

\* ctrl-1 is no control key; d alone is refused.
MCStarts ==
    {Start(k[1], k[2], <<2, 1>>, [type |-> k[3], resize |-> 0, other |-> 0]) :
         k \in {<<NoSpec, CtrlBackslash, 2>>, <<CtrlB, D, 3>>,
               <<<<"hex", 2>>, CtrlB, 3>>, <<NoSpec, NoSpec, 1>>,
               <<NoSpec, D, 1>>, <<<<"ctrl", 49>>, D, 1>>}}
    \cup
    {Start(NoSpec, CtrlBackslash, <<2, 1>>,
           [type |-> 0, resize |-> 3, other |-> 1])}

MCEnviron == "A" :> "1" @@ "B" :> "1"

Line(lead, cmd, sub) == [lead |-> lead, cmd |-> cmd, sub |-> sub]

NsWords == {<<"ns", "x">>, <<"ns", "">>, <<"all">>}

Upto(S, n) == UNION {[1..k -> S] : k \in 0..n}

EnvWords ==
    {<<"copy">>, <<"clean">>, <<"env", "A", "2">>, <<"env", "C", "3">>,
     <<"file", <<<<"A", "4">>, <<"A", "5">>>>>>, <<"file", <<<<"B", "6">>, <<>>>>>>,
     <<"other">>, <<"bad">>, <<"word", "cat">>}

MCAttachLines ==
    {Line(<<>>, "attach", <<<<"word", "id">>>>),
     Line(<<>>, "attach", <<<<"read-only">>, <<"word", "id">>>>)}

MCOtherLines ==
    {Line(lead, "new", sub \o <<<<"word", "grep">>, <<"ns", "x">>>>) :
         lead \in Upto(NsWords, 1), sub \in Upto(EnvWords, 3)}
    \cup {Line(<<>>, "new", sub) : sub \in Upto(EnvWords, 2)}
    \cup {Line(lead, "list", sub) :
         lead \in Upto(NsWords, 2), sub \in Upto(NsWords \cup {<<"bad">>}, 2)}
    \cup {Line(lead, "gc", sub \o <<<<"word", "1h">>>>) :
         lead \in Upto(NsWords, 1), sub \in Upto(NsWords, 1)}
    \cup {Line(<<<<"all">>>>, "attach", <<<<"word", "id">>>>)}
=============================================================================
