--------------------------- MODULE MCTranslation ---------------------------
(* Bounds for Translation.                                                 *)
EXTENDS Translation, TLC

CONSTANTS c1, c2, c3, j1, j2, g1

ClientSymmetry == Permutations(Clients)

LimitMain == [run |-> 4, edit |-> 1, fault |-> 2, kill |-> 1, prewarm |-> 1]
LimitLive == [run |-> 3, edit |-> 1, fault |-> 2, kill |-> 1, prewarm |-> 1]
=============================================================================
