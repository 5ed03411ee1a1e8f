--------------------------- MODULE MCSessionStore ---------------------------
(* Two clients of one session in two processes, and one of another session *)
(* in the first process.                                                   *)
EXTENDS SessionStore

CONSTANTS c1, c2, c3, s1, s2, p1, p2

MCClient == {c1, c2, c3}
MCProcessOf == [c \in MCClient |-> IF c = c2 THEN p2 ELSE p1]
MCSessionOf == [c \in MCClient |-> IF c = c3 THEN s2 ELSE s1]

=============================================================================
