-------------------------- MODULE MCMcpSessionPool --------------------------
(***************************************************************************)
(* Instances of McpSessionPool for TLC.                                    *)
(***************************************************************************)
EXTENDS McpSessionPool, TLC

CONSTANTS c1, c2, l1, l2, k1

\* The second caller shares the loop of the others or has one of its own
MCHomes == {h \in [Task -> Loop] : \A t \in Task \ {c2} : h[t] = l1}

\* Keys are alike: the first caller may as well use the first of them
MCKeysOf == [c \in Caller |-> IF c = c1 THEN {k1} ELSE Key]

\* For the search for a violation only: the keys are alike
KeySymmetry == Permutations(Key)

AnyKey == [c \in Caller |-> Key]

=============================================================================
