------------------------------- MODULE MCBoot -------------------------------
(* Instances of Boot for TLC: the other constants are in the .cfg files.   *)
EXTENDS Boot

\* A sensor whose range lies on both sides of 0.
MCRanges == {<<-10, 40>>}
=============================================================================
