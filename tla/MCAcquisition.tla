--------------------------- MODULE MCAcquisition ---------------------------
(* Instances of Acquisition for TLC.                                       *)
EXTENDS Acquisition

\* Current inputs; the first point's port lies behind the segment's end, the others
\* have ports 1, 2, ...
MCTypes == [c \in Chan |-> "CUR"]
MCPortsOneBad == [c \in Chan |-> IF c = 0 THEN 2000 ELSE c]

\* A number, and the reading that is never equal to itself.
MCValue == {Zero, NaN}
=============================================================================
