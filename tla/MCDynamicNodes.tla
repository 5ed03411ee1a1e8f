--------------------------- MODULE MCDynamicNodes ---------------------------
(* Bodies with the names of runs as model values.                          *)
EXTENDS DynamicNodes

CONSTANTS k1, k2

\* Two unnamed calls; a run shared by two callers of which one goes on; a caller
\* that goes on beside another
Ordinary == {<< <<Unnamed>>, <<Unnamed>> >>,
             << <<k1, k2>>, <<k1>> >>,
             << <<Unnamed, k1>>, <<k2>> >>}

\* One named call
Named == {<< <<k1>> >>}
=============================================================================
