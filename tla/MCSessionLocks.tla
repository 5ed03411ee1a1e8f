--------------------------- MODULE MCSessionLocks ---------------------------
(* Three tasks over one session, its user's and the app's rows.            *)
EXTENDS SessionLocks

CONSTANTS s1, alice

(* An append and a create that touch the rows of both the app and the user.*)
MCCalls == {{s1, AppKey, alice}, {AppKey, alice}}

MCUserOf == [s \in {s1} |-> alice]
=============================================================================
