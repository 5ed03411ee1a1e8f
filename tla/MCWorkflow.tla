----------------------------- MODULE MCWorkflow -----------------------------
(* Graphs, and what their nodes may do.                                    *)
EXTENDS Workflow

Edge(from, to, route) == [from |-> from, to |-> to, route |-> route]
Plain(from, to) == Edge(from, to, "none")
Result(route) == [kind |-> "result", route |-> route]
Ends(kind) == [kind |-> kind, route |-> "none"]

(* START -> (x, s, w), (x, s, w) -> j -> d -> (s, w): the setup step x,    *)
(* which may ask the user and runs again with the answer, and the steps s  *)
(* and w of the loop meet in the join j.  s leaves no event unless it      *)
(* fails.                                                                  *)
LoopNode == {"x", "s", "w", "j", "d"}
LoopEdges == << Plain("START", "x"), Plain("START", "s"), Plain("START", "w"),
                Plain("x", "j"), Plain("s", "j"), Plain("w", "j"), Plain("j", "d"),
                Edge("d", "s", "again"), Edge("d", "w", "again") >>
LoopDoes ==
  [n \in LoopNode |-> [k \in 1..2 |->
    CASE n = "x" -> {Ends("interrupt"), Result("none")}
      [] n = "s" -> {Ends("nothing"), Ends("error")}
      [] n = "d" /\ k = 1 -> {Result("again")}
      [] OTHER -> {Result("none")}]]

(* The theorems on replay are about such a graph.                          *)
ASSUME LoopInLockStep == Steady /\ TaskAgent = {} /\ LockStep
=============================================================================
