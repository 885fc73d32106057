------------------------------ MODULE MCOutput ------------------------------
(* Instances of Output for TLC.                                            *)
EXTENDS Output

\* A point with a name of two Chinese characters and no kks, and one of a type without
\* a name, whose row fits str until it has been sampled.
MCPoints == << [kks |-> <<>>, ref |-> <<229, 143, 145>>,
                vtype |-> <<231, 148, 181, 230, 181, 129>>, unit |-> <<65>>, io |-> 1],
               [kks |-> <<107>>, ref |-> <<>>, vtype |-> <<>>, unit |-> <<>>, io |-> 2] >>

\* 0.0, what calloc leaves, and -2.5
MCReadings == {0, -25}

MCInfo == [name |-> <<231, 187, 136>>, id |-> <<50>>, kind |-> <<67, 85, 82>>]

\* A row with a value that is too wide, and one that begins with separators.
MCJunk == { << <<49>>, Repeat(65, 26), <<66>> >>, << <<>>, <<>>, <<67>> >> }
=============================================================================
