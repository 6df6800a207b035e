--------------------------- MODULE MCTranslateGroup ---------------------------
(* An instance of TranslateGroup for TLC.                                     *)
EXTENDS TranslateGroup

\* Two groups of unequal length, even and odd: at a depth of 2 the first is cut
\* down to pairs, the second to single lines and a pair.
MCEnds == <<8, 13>>
AnyBad   == (SUBSET (1..Lines)) \cup {Anything}
=============================================================================
