----------------------------- MODULE MCSchedule -----------------------------
(* Times in the order of the code's, each a few units.                     *)
EXTENDS Schedule

TwoPaths == {"a", "b"}
=============================================================================
