----------------------------- MODULE MCPipeline -----------------------------
(* Bounds for model checking Pipeline. *)
EXTENDS Pipeline

\* Two edits, two deletions, three resubmits and two faults.
LimitTwo == [edit |-> 2, delete |-> 2, resubmit |-> 3, fault |-> 2]

\* One of each, and a second resubmit.
LimitOne == [edit |-> 1, delete |-> 1, resubmit |-> 2, fault |-> 1]
=============================================================================
