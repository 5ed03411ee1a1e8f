-------------------------- MODULE MCParallelWorker --------------------------
(* Three items: one that may end without an event, one that may fail or be *)
(* cancelled from within, one that may ask.                                *)
EXTENDS ParallelWorker

ItemsDo == << {"result", "nothing"}, {"result", "error", "cancelled"}, {"result", "interrupt"} >>
=============================================================================
