------------------------------- MODULE MCInbound -------------------------------
(* Names and command lines of Inbound for TLC. *)
EXTENDS Inbound

CONSTANTS web, db

MCLowerCase == [w \in {"Web"} |-> "web"]

MCIp == [m \in {web, db} |-> IF m = web THEN <<"100", ".", "1">> ELSE <<"100", ".", "2">>]

\* `web` has a short name, which notify may bring with a capital, and a full one;
\* `db` has two full ones, one of which begins as those of `web`.
MCNames ==
    [m \in {web, db} |->
        IF m = web THEN {<<"Web">>, <<"web">>, <<"web", ".", "ts">>, MCIp[web]}
        ELSE {<<"db", ".", "ts">>, <<"web", ".", "lan">>, MCIp[db]}]

MCPtr ==
    [m \in {web, db} |->
        IF m = web THEN <<"Web", ".", "ts", ".">> ELSE <<"web", ".", "lan">>]

MCSelfNames == {<<"localhost">>}

Legibles == {<<<<"-", "v">>>>, <<<<"-", "p">>, <<"22">>>>, <<<<"-", "p", "22">>>>}

\* -o "ProxyCommand ssh jump", and -vp 22
Illegibles == {<<<<"-", "o">>, <<"ProxyCommand">>, <<"ssh">>, <<"jump">>>>,
               <<<<"-", "v", "p">>, <<"22">>>>}

Destination == {
    [quote |-> <<>>, user |-> <<"me", "@">>, typed |-> <<"Web", ".", "ts">>],
    [quote |-> <<"'">>, user |-> <<>>, typed |-> <<"db", ".", "ts">>],
    [quote |-> <<>>, user |-> <<>>, typed |-> <<"localhost">>]}

Line(options, dashes, to, command) ==
    [options |-> options, dashes |-> dashes, quote |-> to.quote, user |-> to.user,
     typed |-> to.typed, command |-> command]

\* Legible lines, and two that are not.
MCCommandLine ==
    {Line(o, d, t, c) :
        o \in {<<>>} \cup {<<p>> : p \in Legibles} \cup {<<p, q>> : p \in Legibles, q \in Legibles},
        d \in BOOLEAN, t \in Destination, c \in {<<>>, <<<<"ls">>, <<"-", "p">>>>}}
    \cup {Line(<<o>>, FALSE, t, <<>>) : o \in Illegibles, t \in {x \in Destination : x.user # <<>>}}
=============================================================================
