------------------------------- MODULE MCRuntime -------------------------------
(* An instance of Runtime for TLC: two of the seven nodes.                 *)
EXTENDS Runtime, Sequences

MCNodeOrder == <<"local-agent", "r2">>
MCStartOrder == <<"r2", "local-agent">>

MCLine == {
    <<"pause">>, <<"start">>, <<"reset">>, <<"kill", "agent">>,
    <<"kill", "all">>, <<"delay", "relay-r1">>, <<"quit">>}

=============================================================================
