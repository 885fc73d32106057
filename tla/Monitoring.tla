----------------------------- MODULE Monitoring -----------------------------
(***************************************************************************)
(* What the terminal promises the upper computer, without saying how: the  *)
(* board's readings change at any time, reports are made of readings, and  *)
(* the upper computer is given some of the reports, in order.              *)
(*                                                                         *)
(* A report may be lost (the link carries the latest one only) and may be  *)
(* given twice.                                                            *)
(***************************************************************************)
EXTENDS Integers, Sequences

CONSTANTS Point, Value, NaN, None

VARIABLES
    cell,       \* the reading of each point
    recent,     \* the readings of each point since the beat began
    log,        \* the reports: a value, or None, for each point
    upto,       \* the report the upper computer has last got
    delivered   \* the value of each point it has last got

vars == <<cell, recent, log, upto, delivered>>

\* The value of p in the last report that has it.
Reported(p) ==
    LET with == {n \in 1 .. Len(log) : log[n][p] # None}
    IN  IF with = {} THEN None
        ELSE log[CHOOSE n \in with : \A m \in with : m <= n][p]

Init == /\ cell \in [Point -> Value \cup {None}]
        /\ recent = [p \in Point |-> {}]
        /\ log = <<>>
        /\ upto = 0
        /\ delivered = [p \in Point |-> None]

\* Readings change.
Change ==
    /\ cell' \in [Point -> Value \cup {None}]
    /\ recent' = [p \in Point |-> IF cell'[p] = cell[p] THEN recent[p]
                                                        ELSE recent[p] \cup {cell'[p]}]
    /\ UNCHANGED <<log, upto, delivered>>

NewBeat ==
    /\ recent' = [p \in Point |-> {cell[p]} \ {None}]
    /\ UNCHANGED <<cell, log, upto, delivered>>

\* The report r is made: of readings of this beat, all points the first time and
\* only news afterwards.
Report(r) ==
    /\ \A p \in Point : r[p] # None => /\ r[p] \in recent[p] \/ cell[p] = None
                                       /\ r[p] # Reported(p) \/ r[p] = NaN
    /\ log = <<>> => \A p \in Point : r[p] # None
    /\ log' = Append(log, r)
    /\ UNCHANGED <<cell, recent, upto, delivered>>

\* The upper computer is given the n-th report.
Deliver(n) ==
    /\ n >= upto
    /\ upto' = n
    /\ delivered' = [p \in Point |-> IF log[n][p] # None THEN log[n][p] ELSE delivered[p]]
    /\ UNCHANGED <<cell, recent, log>>

Next == \/ Change
        \/ NewBeat
        \/ \E r \in [Point -> Value \cup {None}] : Report(r)
        \/ \E n \in 1 .. Len(log) : Deliver(n)

Spec == Init /\ [][Next]_vars
=============================================================================
