------------------------------ MODULE Console ------------------------------
(***************************************************************************)
(* The table on the console (show_hw_table): SIGTSTP turns it on and off,  *)
(* the main loop shows it at the end of a beat.                            *)
(*                                                                         *)
(* Of the rest of the beat only its phases are here; module Output has     *)
(* them in full, and which rows the table is made from.                    *)
(***************************************************************************)
EXTENDS UplinkSizes, StringTable

CONSTANTS
    Clock,      \* what gettimeofday may say
    ULONG       \* one more than the largest unsigned long

ASSUME ClockAssumption == ULONG \in Nat \ {0} /\ Clock \subseteq 0 .. ULONG - 1

Chan == 1 .. nChNum

VARIABLES
    pc,
    now, tsec,  \* the clock, and when the table was last shown
    g_table,
    shown       \* the rows the table was made from in this beat, or NotShown

console == <<now, tsec, g_table, shown>>

\* A row, as what stands between its commas.
Byte      == 0 .. 255
RowText   == Seq(Seq(Byte))
NotShown  == [c \in {0} |-> <<>>]

Heartbeats == {"sample", "look", "format", "encode", "store"}

ConsoleTypeOK ==
    /\ pc \in Heartbeats \cup {"table", "pause", "crashed"}
    /\ now \in Clock /\ tsec \in Clock \cup {0}
    /\ g_table \in BOOLEAN
    /\ shown \in [Chan -> RowText] \cup {NotShown}

ConsoleInit ==
    /\ pc = "sample"
    /\ now \in Clock /\ tsec = 0
    /\ g_table = FALSE /\ shown = NotShown

-----------------------------------------------------------------------------
(* The operator, the clock, and the rest of the beat.                      *)

\* It touches nothing but g_table, which is only read at "table": a signal at any other
\* moment has the effect of one right before.
signal_table_handler ==
    /\ pc = "table"
    /\ g_table' = ~g_table
    /\ UNCHANGED <<pc, now, tsec, shown>>

\* Time passes, or the clock is set, forward or back.
ClockSet ==
    /\ pc = "pause"
    /\ now' \in Clock
    /\ UNCHANGED <<pc, tsec, g_table, shown>>

\* hw_heartbeat and ws_heartbeat leave the console alone.
Heartbeat ==
    /\ pc \in Heartbeats
    /\ pc' \in Heartbeats \cup {"table", "crashed"}
    /\ UNCHANGED console

\* usleep is over.
NextBeat ==
    /\ pc = "pause" /\ pc' = "sample"
    /\ shown' = NotShown
    /\ UNCHANGED <<now, tsec, g_table>>

-----------------------------------------------------------------------------
(* show_hw_table.                                                          *)

\* ratelimit_connects: unsigned long arithmetic on the system clock.
ratelimit_connects_Signed(last, secs) == now - last >= secs
ratelimit_connects(last, secs) == (now - last) % ULONG >= secs

maxWidth   == 25
TableName  == <<104, 97, 114, 100, 119, 97, 114, 101, 32, 100, 97, 116, 97>>
\* kks ref vtype val t
Headings   == << <<107, 107, 115>>, <<114, 101, 102>>, <<118, 116, 121, 112, 101>>,
                 <<118, 97, 108>>, <<116>> >>
Numbers    == << <<49>>, <<50>>, <<51>>, <<52>>, <<53>>, <<54>> >>

\* The table made of these rows.
Table(rows) ==
    LET t0 == s_table_tableinit(6, 2 + nChNum, maxWidth, TableName)
        t1 == s_table_valuesetxs(t0, 0, 1, Headings)
        t2 == s_table_valuesetys(t1, 0, 1, Numbers)
        filled[c \in 0 .. nChNum] ==
            IF c = 0 THEN t2 ELSE s_table_valuesetxs(filled[c - 1], c, 0, rows[c])
    IN  filled[nChNum]

TableDue == pc = "table" /\ g_table /\ ratelimit_connects(tsec, 0)

\* The table is made and shown, or a fault ends the process on the way.
ShowTable ==
    /\ TableDue
    /\ tsec' = now % ULONG
    /\ \/ pc' = "pause" /\ shown' \in [Chan -> RowText]
       \/ pc' = "crashed" /\ UNCHANGED shown
    /\ UNCHANGED <<now, g_table>>

SkipTable ==
    /\ pc = "table" /\ ~TableDue
    /\ pc' = "pause"
    /\ UNCHANGED console

ConsoleNext == signal_table_handler \/ ClockSet \/ Heartbeat \/ ShowTable \/ SkipTable \/ NextBeat

ConsoleSpec == ConsoleInit /\ [][ConsoleNext]_<<pc, console>>

-----------------------------------------------------------------------------
(* Properties.                                                             *)

\* What cell (x, y) of the table shows: the headings, the numbers, and for a point the
\* values of its row up to the first that is too wide.
Shows(rows, x, y) ==
    LET v == Values(rows[y])
    IN  IF y = 0 THEN (IF x = 0 THEN <<>> ELSE Headings[x])
        ELSE IF y \in Chan /\ x < Len(v) /\ \A n \in 1 .. x + 1 : Len(v[n]) <= maxWidth THEN v[x + 1]
        ELSE IF x = 0 /\ y \in 1 .. 6 THEN Numbers[y]
        ELSE <<>>

Padded(value, k) == IF k <= Len(value) THEN value[k] ELSE Blank

\* No value of a row is longer than tmp_value, through which it passes.
PassesThrough(row) == \A n \in 1 .. Len(row) : Len(row[n]) <= MAX_COLWIDTH

\* The table of these rows was written inside its block, and line by line it is: rules at
\* the even lines; the name in a frame; for every y a line of six cells, each behind its
\* '|'; all with their line breaks; and the terminator.
Stands(rows) ==
    LET t == Table(rows)
        L == rel_line_num(6, maxWidth)
        At(line, col) == t.data[line * L + col + 1]
    IN  /\ ~t.bad
        /\ \A line \in 0 .. Lines(2 + nChNum) - 1 :
              /\ At(line, L - 2) = LineBreak[1] /\ At(line, L - 1) = LineBreak[2]
              /\ line % 2 = 0 => \A col \in 0 .. L - 3 : At(line, col) = COLUMN_SEPARATOR
        /\ \A col \in 0 .. L - 3 : At(1, col) = LINE_SEPARATOR <=> col \in {0, L - 3}
        /\ \A y \in 0 .. 1 + nChNum :
              /\ \A x \in 0 .. 6 : At(2 * y + 3, (maxWidth + 1) * x) = LINE_SEPARATOR
              /\ \A x \in 0 .. 5, k \in 1 .. maxWidth :
                    At(2 * y + 3, (maxWidth + 1) * x + k) = Padded(Shows(rows, x, y), k)
        /\ At(Lines(2 + nChNum), 0) = 0

\* Whatever rows it is given, with values that tmp_value can hold (a kks, of 64 bytes,
\* need not be one), the table is written inside its block, its rules, line breaks and
\* terminator survive, and every value stands in the cell of its column and its point.
TableIntact ==
    (pc = "pause" /\ shown # NotShown /\ \A c \in Chan : PassesThrough(shown[c]))
        => Stands(shown)

\* A table that is turned on is shown in every beat, whatever the clock does.
TableShown ==
    [][(pc = "table" /\ g_table /\ pc' = "pause") => shown' # NotShown]_<<pc, console>>
=============================================================================
