----------------------------- MODULE MCMassPush -----------------------------
(* Two files, and limits of one: the second change within Window trips.    *)
EXTENDS MassPush

TwoPaths == {"a", "b"}
=============================================================================
