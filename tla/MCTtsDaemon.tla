---------------------------- MODULE MCTtsDaemon ----------------------------
(* Instances of TtsDaemon for model checking. *)
EXTENDS TtsDaemon, TLC

Symmetry == Permutations(Workers) \cup Permutations(Clients) \cup Permutations(Langs)
=============================================================================
