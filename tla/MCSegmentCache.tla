--------------------------- MODULE MCSegmentCache ---------------------------
(* Instances of SegmentCache for model checking. *)
EXTENDS SegmentCache, TLC

CONSTANTS a, b, x, y, p1, p2

\* b is long enough for two chunks.
TwoChunks == [t \in Speech |-> IF t = b THEN 2 ELSE 1]

\* Texts are corrected in place, cleared, and replaced by a sound effect.
InPlace == {<<a, b>>, <<x, b>>, <<a, Empty, Symbols>>, <<Empty>>, <<>>}
\* A cue is inserted in front.
Insert == {<<a, b>>, <<x, a, b>>}
\* The text of one cue is cleared.
Blank == {<<a, b>>, <<Empty, b>>}
\* A cue is dropped, then blank ones and a new one are put in its place.
Moved == {<<a, b, x>>, <<b, x>>, <<Empty, x, b, x>>}
\* Only one text is ever corrected.
Correct == {<<a>>, <<x>>}

LimitMain == [run |-> 3, edit |-> 2, fault |-> 3, abandon |-> 1]
LimitOne == [run |-> 2, edit |-> 1, fault |-> 1, abandon |-> 1]
=============================================================================
