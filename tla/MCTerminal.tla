----------------------------- MODULE MCTerminal -----------------------------
(* Terminal for TLC: two processes, each with a terminal of its own.       *)
EXTENDS Terminal, TLC

CONSTANTS u1, u2, t1, t2

TwoTtys    == <<t1, t2>>
OwnTty     == (u1 :> t1) @@ (u2 :> t2)
Programs   == (u1 :> {<<"READ", 2>>, <<"WRITE", 1>>}) @@ (u2 :> {<<"OPEN", 0>>})
TtyBodies  == Bodies
=============================================================================
