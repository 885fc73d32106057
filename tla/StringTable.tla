---------------------------- MODULE StringTable ----------------------------
(***************************************************************************)
(* The text table of common/stringtable.c: one block of memory that holds  *)
(* the table's description, a pointer for every cell and the text itself,  *)
(* lines of equal length.                                                  *)
(*                                                                         *)
(* A table is a record: its dimensions, the cell pointers (addresses in    *)
(* the text) and the text, a sequence of bytes; address a is its element   *)
(* a + 1.  bad says that something was written outside of the block, or    *)
(* read from outside of an array.                                          *)
(***************************************************************************)
EXTENDS Integers, Sequences

MAX_TABLE_NAME == 64
MAX_COLWIDTH   == 32

\* g_tb_default_value
LINE_SEPARATOR   == 124
COLUMN_SEPARATOR == 61
Blank            == 32

\* The line breaks by table_type: Linux, Windows, and whatever stands behind the array.
g_line_break == << <<32, 10>>, <<13, 10>> >>
Behind       == CHOOSE bytes \in [1 .. 2 -> 0 .. 255] : TRUE

LineBreak         == g_line_break[1]
LineBreakOf(type) == IF type \in 0 .. 1 THEN g_line_break[type + 1] ELSE Behind

rel_line_num(x, colwidth) == (colwidth + 1) * x + 1 + 2
Lines(y)                  == 2 * y + 3

\* s_table_size_compute, without the description and the pointers, which precede
\* the text: the text with its terminator and a line to spare.
s_table_size_compute(x, y, colwidth) ==
    rel_line_num(x, colwidth) + rel_line_num(x, colwidth) * Lines(y) + 1

\* s_table_get: which pointer belongs to a cell.
s_table_get(t, x, y) == x * t.table_y + y

\* memset and memcpy into the text
Put(t, at, bytes) ==
    IF at < 0 \/ at + Len(bytes) > Len(t.data) THEN [t EXCEPT !.bad = TRUE]
    ELSE [t EXCEPT !.data = SubSeq(@, 1, at) \o bytes \o SubSeq(@, at + Len(bytes) + 1, Len(@))]
Spaces(len) == [k \in 1 .. len |-> Blank]

\* Stages one and two of s_table_tableinit: lines of '=' and lines of blanks between
\* '|', all with a line break, and the terminator.
Ruled(x, y, colwidth, break) ==
    LET L == rel_line_num(x, colwidth)
    IN  [a \in 1 .. s_table_size_compute(x, y, colwidth) |->
            LET line == (a - 1) \div L
                col  == (a - 1) % L
            IN  IF line >= Lines(y) THEN 0
                ELSE IF col >= L - 2 THEN break[col - L + 3]
                ELSE IF line % 2 = 0 THEN COLUMN_SEPARATOR
                ELSE IF col % (colwidth + 1) = 0 THEN LINE_SEPARATOR
                ELSE Blank]

\* Stage four: the text of cell (x, y) begins behind its '|', in line 2y + 3.
CellAt(t, x, y) == (2 * y + 3) * rel_line_num(t.table_x, t.colwidth) + x * (t.colwidth + 1) + 1

\* s_table_create copies the name into md->name, which has MAX_TABLE_NAME bytes and
\* before table_type, a little-endian 0: one byte more becomes the table_type.
table_type(name) == IF Len(name) > MAX_TABLE_NAME THEN name[MAX_TABLE_NAME + 1] ELSE 0

s_table_tableinit(x, y, colwidth, name) ==
    LET L     == rel_line_num(x, colwidth)
        type  == table_type(name)
        ruled == [table_x |-> x, table_y |-> y, colwidth |-> colwidth,
                  data |-> Ruled(x, y, colwidth, LineBreakOf(type)), bad |-> type \notin 0 .. 1,
                  table |-> [k \in 0 .. x * y - 1 |-> 0]]
        head  == Put(Put(ruled, L + 2, Spaces(L - 5)),                  \* stage three
                     L + 1 + (L - 2) \div 2 - Len(name) \div 2, name)
        Cells == (0 .. x - 1) \X (0 .. y - 1)
    IN  [head EXCEPT
            !.bad   = @ \/ \E c \in Cells : s_table_get(head, c[1], c[2]) \notin 0 .. x * y - 1,
            !.table = [k \in 0 .. x * y - 1 |->
                          IF \E c \in Cells : s_table_get(head, c[1], c[2]) = k
                          THEN LET c == CHOOSE c \in Cells : s_table_get(head, c[1], c[2]) = k
                               IN  CellAt(head, c[1], c[2])
                          ELSE 0]]

\* The names s_table_create does not refuse: up to one byte longer than md->name.
NameFits(name, x, colwidth) ==
    Len(name) - 1 <= MAX_TABLE_NAME /\ Len(name) - 1 <= rel_line_num(x, colwidth) - 5

\* s_table_valueset: refused outside of the table, and when the value is too wide.
Accepted_AnyWidth(t, x, y, value) == x < t.table_x /\ y < t.table_y
Accepted(t, x, y, value) == x < t.table_x /\ y < t.table_y /\ Len(value) <= t.colwidth

s_table_valueset(t, x, y, value) ==
    LET at == t.table[s_table_get(t, x, y)]
    IN  IF Accepted(t, x, y, value) THEN Put(Put(t, at, Spaces(t.colwidth)), at, value) ELSE t

\* s_table_values_get, called again and again: the values of a text, given as what
\* stands between its separators.  Repeated separators count once, but for one at the
\* beginning, before which there is an empty value.
Values(fields) ==
    LET read[n \in 0 .. Len(fields)] ==
            IF n = 0 THEN <<>>
            ELSE IF n > 1 /\ fields[n] = <<>> THEN read[n - 1]
            ELSE Append(read[n - 1], fields[n])
    IN  IF fields = <<>> THEN << <<>> >> ELSE read[Len(fields)]

\* A round of the loop of s_table_valuesetxs_ex, when it goes on: the next value passes
\* through tmp_value[MAX_COLWIDTH + 1] into place s of the line (with `down', column).
SetNextValue(loop, x_y, down, value) ==
    LET wide == IF down THEN loop.t.table_y ELSE loop.t.table_x
        x    == IF down THEN x_y ELSE loop.s
        y    == IF down THEN loop.s ELSE x_y
    IN  IF ~loop.going \/ loop.s >= wide THEN loop
        ELSE IF Len(value) > MAX_COLWIDTH THEN [loop EXCEPT !.t.bad = TRUE, !.going = FALSE]
        ELSE IF Accepted(loop.t, x, y, value)
        THEN [loop EXCEPT !.t = s_table_valueset(loop.t, x, y, value), !.s = @ + 1]
        ELSE [loop EXCEPT !.going = FALSE]

\* s_table_valuesetxs_ex: the values go into a line or a column from place s on, until
\* one is refused or the line is full.
s_table_valuesetxs_ex(table, x_y, s, fields, down) ==
    LET values == Values(fields)
        loop[n \in 0 .. Len(values)] ==
            IF n = 0 THEN [t |-> table, s |-> s, going |-> TRUE]
            ELSE SetNextValue(loop[n - 1], x_y, down, values[n])
    IN  loop[Len(values)].t

s_table_valuesetxs(t, y, s, fields) == s_table_valuesetxs_ex(t, y, s, fields, FALSE)
s_table_valuesetys(t, x, s, fields) == s_table_valuesetxs_ex(t, x, s, fields, TRUE)

\* s_table_string_get: what is shown ends at the terminator.
s_table_string_get(t) == t.data
=============================================================================
