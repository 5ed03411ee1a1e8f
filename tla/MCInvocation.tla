---------------------------- MODULE MCInvocation ----------------------------
(* Two nodes, one with two events (enough to fail, retry and go on) and    *)
(* awaited, one with one and perhaps left behind.                          *)
EXTENDS Invocation

CONSTANTS n1, n2

MCMaxEvents == [n \in {n1, n2} |-> IF n = n1 THEN 2 ELSE 1]
=============================================================================
