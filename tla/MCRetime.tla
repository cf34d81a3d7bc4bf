------------------------------ MODULE MCRetime ------------------------------
(* Bounds for Retime.                                                      *)
EXTENDS Retime

TimesMain == 0..3
WavsMain == {0, 1, 3, 130}
LengthsMain == {3, 5}
=============================================================================
