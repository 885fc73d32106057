------------------------- MODULE StringTableProofs -------------------------
(***************************************************************************)
(* Proofs about the string table, for every number of columns and rows,    *)
(* every column width, every name that is accepted and every value: the    *)
(* table is written inside its block, a value changes the bytes of its own *)
(* cell and no others, and the values of a text go into consecutive cells, *)
(* up to one that is too wide.  From these, about the table on the console *)
(* (module Console): whatever rows it is given, it shows them.             *)
(***************************************************************************)
EXTENDS Console, Extrema, SequenceTheorems

Positive == Nat \ {0}

\* What the operators work on.
Tables == [table_x : Positive, table_y : Positive, colwidth : Positive,
           data : Seq(Nat), bad : BOOLEAN, table : UNION {[0 .. n - 1 -> Nat] : n \in Nat}]

Columns(t) == 0 .. t.table_x - 1
Rows(t)    == 0 .. t.table_y - 1

\* A table as s_table_create leaves it and every other operation finds it: its text has
\* the computed size, nothing was written outside of it, and the pointer of a cell is
\* the cell's place in the text.
Formed(t) ==
    /\ t \in Tables
    /\ Len(t.data) = s_table_size_compute(t.table_x, t.table_y, t.colwidth)
    /\ t.bad = FALSE
    /\ \A x \in Columns(t), y \in Rows(t) : t.table[s_table_get(t, x, y)] = CellAt(t, x, y)

-----------------------------------------------------------------------------
(* Arithmetic.                                                             *)

LEMMA ProductMonotonic ==
    ASSUME NEW a \in Nat, NEW b \in Nat, NEW c \in Nat, a <= b
    PROVE  a * c \in Nat /\ b * c \in Nat /\ a * c <= b * c
  <1>1. (b - a) \in Nat /\ a * c \in Nat /\ b * c \in Nat
    OBVIOUS
  <1>2. (b - a) * c \in Nat
    BY <1>1
  <1>3. (b - a) * c = b * c - a * c
    OBVIOUS
  <1> QED
    BY <1>1, <1>2, <1>3

LEMMA Successor ==
    ASSUME NEW a \in Nat, NEW c \in Nat
    PROVE  (a + 1) * c = a * c + c
  OBVIOUS

-----------------------------------------------------------------------------
(* s_table_get.                                                            *)

\* The pointers of the cells are inside the array of pointers, and each cell has its own.
THEOREM PointersDistinct ==
    ASSUME NEW t \in Tables, NEW x \in Columns(t), NEW y \in Rows(t)
    PROVE  /\ s_table_get(t, x, y) \in 0 .. t.table_x * t.table_y - 1
           /\ \A x2 \in Columns(t), y2 \in Rows(t) :
                 s_table_get(t, x, y) = s_table_get(t, x2, y2) => x = x2 /\ y = y2
  <1> DEFINE X == t.table_x
             Y == t.table_y
  <1>1. X \in Positive /\ Y \in Positive
    BY DEF Tables
  <1>2. ASSUME NEW u \in Columns(t), NEW v \in Rows(t), NEW u2 \in Columns(t), NEW v2 \in Rows(t),
               u < u2
        PROVE  u * Y + v < u2 * Y + v2
    <2>1. u \in Nat /\ u2 \in Nat /\ v \in Nat /\ v2 \in Nat /\ v < Y /\ Y \in Nat
      BY <1>1 DEF Columns, Rows, Positive
    <2>2. (u + 1) * Y <= u2 * Y /\ u * Y \in Nat /\ u2 * Y \in Nat
      BY <1>2, <2>1, ProductMonotonic
    <2>3. (u + 1) * Y = u * Y + Y
      BY <2>1, Successor
    <2> QED
      BY <2>1, <2>2, <2>3
  <1>3. \A u \in Columns(t), v \in Rows(t) : u * Y + v \in 0 .. X * Y - 1
    <2> SUFFICES ASSUME NEW u \in Columns(t), NEW v \in Rows(t)
                 PROVE  u * Y + v \in 0 .. X * Y - 1
      OBVIOUS
    <2>1. u \in Nat /\ u + 1 <= X /\ v \in Nat /\ v < Y /\ Y \in Nat /\ X \in Nat /\ u + 1 \in Nat
      BY <1>1 DEF Columns, Rows, Positive
    <2>2. (u + 1) * Y <= X * Y /\ u * Y \in Nat /\ X * Y \in Nat
      BY <2>1, ProductMonotonic
    <2>3. (u + 1) * Y = u * Y + Y
      BY <2>1, Successor
    <2> QED
      BY <2>1, <2>2, <2>3
  <1>4. ASSUME NEW x2 \in Columns(t), NEW y2 \in Rows(t), x * Y + y = x2 * Y + y2
        PROVE  x = x2 /\ y = y2
    <2>1. x \in Nat /\ x2 \in Nat /\ y \in Nat /\ y2 \in Nat /\ x * Y \in Nat /\ x2 * Y \in Nat
      BY <1>1 DEF Columns, Rows, Positive
    <2>2. ~(x < x2) /\ ~(x2 < x)
      BY <1>2, <1>4, <2>1
    <2>3. x = x2
      BY <2>1, <2>2
    <2> QED
      BY <1>4, <2>1, <2>3
  <1> QED
    BY <1>3, <1>4 DEF s_table_get

-----------------------------------------------------------------------------
(* memset and memcpy.                                                      *)

\* Two sequences, and three, one behind the other.
LEMMA Joined ==
    ASSUME NEW p \in Seq(Nat), NEW q \in Seq(Nat)
    PROVE  /\ p \o q \in Seq(Nat) /\ Len(p \o q) = Len(p) + Len(q)
           /\ \A a \in 1 .. Len(p) : (p \o q)[a] = p[a]
           /\ \A a \in 1 .. Len(q) : (p \o q)[Len(p) + a] = q[a]
  <1>1. /\ p \o q \in Seq(Nat) /\ Len(p \o q) = Len(p) + Len(q)
        /\ \A a \in 1 .. Len(p) + Len(q) : (p \o q)[a] = IF a <= Len(p) THEN p[a] ELSE q[a - Len(p)]
    BY ConcatProperties
  <1>2. Len(p) \in Nat /\ Len(q) \in Nat
    OBVIOUS
  <1>3. \A a \in 1 .. Len(p) : (p \o q)[a] = p[a]
    BY <1>1, <1>2
  <1>4. ASSUME NEW a \in 1 .. Len(q)
        PROVE  (p \o q)[Len(p) + a] = q[a]
    <2>1. Len(p) + a \in 1 .. Len(p) + Len(q) /\ ~(Len(p) + a <= Len(p)) /\ Len(p) + a - Len(p) = a
      BY <1>2
    <2> QED
      BY <1>1, <2>1
  <1> QED
    BY <1>1, <1>3, <1>4

\* new consists of p, q and r.
ConsistsOf(new, p, q, r) ==
    /\ new \in Seq(Nat) /\ Len(new) = Len(p) + Len(q) + Len(r)
    /\ \A a \in 1 .. Len(p) : new[a] = p[a]
    /\ \A a \in 1 .. Len(q) : new[Len(p) + a] = q[a]
    /\ \A a \in 1 .. Len(r) : new[Len(p) + Len(q) + a] = r[a]

LEMMA ThreeJoined ==
    ASSUME NEW p \in Seq(Nat), NEW q \in Seq(Nat), NEW r \in Seq(Nat)
    PROVE  ConsistsOf(p \o q \o r, p, q, r)
  <1>1. p \o q \in Seq(Nat) /\ Len(p \o q) = Len(p) + Len(q) /\ Len(p) \in Nat /\ Len(q) \in Nat
    BY Joined
  <1>2. PICK pq \in Seq(Nat) : pq = p \o q
    BY <1>1
  <1>3. /\ pq \o r \in Seq(Nat) /\ Len(pq \o r) = Len(pq) + Len(r)
        /\ \A a \in 1 .. Len(pq) : (pq \o r)[a] = pq[a]
        /\ \A a \in 1 .. Len(r) : (pq \o r)[Len(pq) + a] = r[a]
    BY Joined
  <1>4. /\ Len(pq) = Len(p) + Len(q)
        /\ \A a \in 1 .. Len(p) : pq[a] = p[a]
        /\ \A a \in 1 .. Len(q) : pq[Len(p) + a] = q[a]
    BY <1>2, Joined
  <1>5. \A a \in 1 .. Len(p) : (pq \o r)[a] = p[a]
    BY <1>1, <1>3, <1>4
  <1>6. \A a \in 1 .. Len(q) : (pq \o r)[Len(p) + a] = q[a]
    <2>1. \A a \in 1 .. Len(q) : Len(p) + a \in 1 .. Len(pq)
      BY <1>1, <1>4
    <2> QED
      BY <1>3, <1>4, <2>1
  <1>7. ConsistsOf(pq \o r, p, q, r)
    <2>1. Len(pq \o r) = Len(p) + Len(q) + Len(r)
      BY <1>3, <1>4
    <2>2. \A a \in 1 .. Len(r) : (pq \o r)[Len(p) + Len(q) + a] = r[a]
      BY <1>3, <1>4
    <2> QED
      BY <1>3, <1>5, <1>6, <2>1, <2>2 DEF ConsistsOf
  <1> QED
    BY <1>2, <1>7, Zenon

LEMMA Part ==
    ASSUME NEW s \in Seq(Nat), NEW m \in Nat \ {0}, NEW n \in Nat, n <= Len(s), m <= n + 1
    PROVE  \E f \in Seq(Nat) : /\ f = SubSeq(s, m, n) /\ Len(f) = n - m + 1
                               /\ \A a \in 1 .. n - m + 1 : f[a] = s[m + a - 1]
  <1>1. m \in Int /\ n \in Int /\ \A a \in m .. n : s[a] \in Nat
    OBVIOUS
  <1>2. PICK f : f = SubSeq(s, m, n)
    OBVIOUS
  <1>3. /\ SubSeq(s, m, n) \in Seq(Nat)
        /\ Len(SubSeq(s, m, n)) = IF m <= n THEN n - m + 1 ELSE 0
        /\ \A a \in 1 .. n - m + 1 : SubSeq(s, m, n)[a] = s[m + a - 1]
    BY <1>1, SubSeqProperties
  <1>4. /\ f \in Seq(Nat) /\ Len(f) = IF m <= n THEN n - m + 1 ELSE 0
        /\ \A a \in 1 .. n - m + 1 : f[a] = s[m + a - 1]
    BY <1>2, <1>3, Zenon
  <1>5. Len(f) = n - m + 1
    BY <1>4
  <1> QED
    BY <1>2, <1>4, <1>5, Zenon

\* Overwriting a part of a sequence.
LEMMA Overwritten ==
    ASSUME NEW s \in Seq(Nat), NEW bytes \in Seq(Nat), NEW at \in Nat, at + Len(bytes) <= Len(s)
    PROVE  LET new == SubSeq(s, 1, at) \o bytes \o SubSeq(s, at + Len(bytes) + 1, Len(s))
           IN  /\ new \in Seq(Nat) /\ Len(new) = Len(s)
               /\ \A a \in 1 .. Len(s) : new[a] = IF a \in at + 1 .. at + Len(bytes)
                                                  THEN bytes[a - at] ELSE s[a]
  <1>1. Len(bytes) \in Nat /\ Len(s) \in Nat /\ at + Len(bytes) <= Len(s)
    OBVIOUS
  <1>2. PICK front \in Seq(Nat) : /\ front = SubSeq(s, 1, at) /\ Len(front) = at
                                  /\ \A a \in 1 .. at : front[a] = s[a]
    <2>1. at \in Nat /\ at <= Len(s) /\ 1 <= at + 1 /\ 1 \in Nat \ {0}
      BY <1>1
    <2>2. PICK f \in Seq(Nat) : /\ f = SubSeq(s, 1, at) /\ Len(f) = at - 1 + 1
                               /\ \A a \in 1 .. at - 1 + 1 : f[a] = s[1 + a - 1]
      BY <2>1, Part
    <2>3. Len(f) = at /\ \A a \in 1 .. at : f[a] = s[a]
      BY <2>2
    <2> QED
      BY <2>2, <2>3
  <1>3. PICK back \in Seq(Nat) : /\ back = SubSeq(s, at + Len(bytes) + 1, Len(s))
                                 /\ Len(back) = Len(s) - (at + Len(bytes))
                                 /\ \A a \in 1 .. Len(back) : back[a] = s[at + Len(bytes) + a]
    <2> DEFINE from == at + Len(bytes) + 1
    <2>1. /\ from \in Nat \ {0} /\ Len(s) \in Nat /\ Len(s) <= Len(s) /\ from <= Len(s) + 1
      BY <1>1
    <2> HIDE DEF from
    <2>2. PICK f \in Seq(Nat) : /\ f = SubSeq(s, from, Len(s)) /\ Len(f) = Len(s) - from + 1
                               /\ \A a \in 1 .. Len(s) - from + 1 : f[a] = s[from + a - 1]
      BY <2>1, Part
    <2>3. /\ Len(f) = Len(s) - (at + Len(bytes))
          /\ \A a \in 1 .. Len(f) : f[a] = s[at + Len(bytes) + a]
      BY <1>1, <2>2 DEF from
    <2> QED
      BY <2>2, <2>3 DEF from
  <1>4. PICK new \in Seq(Nat) :
            /\ new = front \o bytes \o back /\ Len(new) = Len(front) + Len(bytes) + Len(back)
            /\ \A a \in 1 .. Len(front) : new[a] = front[a]
            /\ \A a \in 1 .. Len(bytes) : new[Len(front) + a] = bytes[a]
            /\ \A a \in 1 .. Len(back) : new[Len(front) + Len(bytes) + a] = back[a]
    <2>1. ConsistsOf(front \o bytes \o back, front, bytes, back)
      BY ThreeJoined, Zenon
    <2> QED
      BY <2>1, Zenon DEF ConsistsOf
  <1>5. ASSUME NEW a \in 1 .. Len(s)
        PROVE  new[a] = IF a \in at + 1 .. at + Len(bytes) THEN bytes[a - at] ELSE s[a]
    <2>1. CASE a <= at
      BY <1>1, <1>2, <1>4, <2>1
    <2>2. CASE a \in at + 1 .. at + Len(bytes)
      <3>1. a - at \in 1 .. Len(bytes) /\ at + (a - at) = a
        BY <1>1, <2>2
      <3>2. Len(front) + (a - at) = a
        BY <1>2, <3>1
      <3>3. new[Len(front) + (a - at)] = bytes[a - at]
        BY <1>4, <3>1
      <3>4. new[a] = bytes[a - at]
        BY <3>2, <3>3, Zenon
      <3> QED
        BY <2>2, <3>4
    <2>3. CASE a > at + Len(bytes)
      <3>1. PICK b \in 1 .. Len(back) : at + Len(bytes) + b = a
        <4>1. a - (at + Len(bytes)) \in 1 .. Len(back) /\ at + Len(bytes) + (a - (at + Len(bytes))) = a
          BY <1>1, <1>3, <2>3
        <4> QED
          BY <4>1
      <3>2. Len(front) + Len(bytes) + b = a /\ ~(a \in at + 1 .. at + Len(bytes))
        BY <1>1, <1>2, <1>3, <2>3, <3>1
      <3>3. new[Len(front) + Len(bytes) + b] = back[b]
        BY <1>4
      <3>4. back[b] = s[at + Len(bytes) + b]
        BY <1>3
      <3>5. new[a] = back[b]
        BY <3>2, <3>3, Zenon
      <3>6. back[b] = s[a]
        BY <3>1, <3>4, Zenon
      <3> QED
        BY <3>2, <3>5, <3>6
    <2> QED
      BY <1>1, <2>1, <2>2, <2>3
  <1>6. Len(new) = Len(s)
    <2>1. Len(new) = Len(front) + Len(bytes) + Len(back)
      BY <1>4
    <2>2. Len(front) = at /\ Len(back) = Len(s) - (at + Len(bytes))
      BY <1>2, <1>3
    <2> QED
      BY <1>1, <2>1, <2>2
  <1>7. new = SubSeq(s, 1, at) \o bytes \o SubSeq(s, at + Len(bytes) + 1, Len(s))
    BY <1>2, <1>3, <1>4, Zenon
  <1> QED
    BY <1>5, <1>6, <1>7, Zenon

\* new is t with these bytes written at this address.
WrittenIn(new, t, at, bytes) ==
    /\ new \in Tables
    /\ \A f \in {"table_x", "table_y", "colwidth", "bad", "table"} : new[f] = t[f]
    /\ Len(new.data) = Len(t.data)
    /\ \A a \in 1 .. Len(t.data) :
          new.data[a] = IF a \in at + 1 .. at + Len(bytes) THEN bytes[a - at] ELSE t.data[a]

\* What is written inside the block changes the text there and nothing else.
LEMMA PutInside ==
    ASSUME NEW t \in Tables, NEW at \in Nat, NEW bytes \in Seq(Nat), at + Len(bytes) <= Len(t.data)
    PROVE  WrittenIn(Put(t, at, bytes), t, at, bytes)
  <1> DEFINE new == SubSeq(t.data, 1, at) \o bytes \o SubSeq(t.data, at + Len(bytes) + 1, Len(t.data))
  <1>1. t.data \in Seq(Nat)
    BY DEF Tables
  <1>2. /\ new \in Seq(Nat) /\ Len(new) = Len(t.data)
        /\ \A a \in 1 .. Len(t.data) : new[a] = IF a \in at + 1 .. at + Len(bytes)
                                                THEN bytes[a - at] ELSE t.data[a]
    BY <1>1, Overwritten
  <1>3. Put(t, at, bytes) = [t EXCEPT !.data = new]
    BY DEF Put
  <1> HIDE DEF new
  <1>4. [t EXCEPT !.data = new] \in Tables
    BY <1>2 DEF Tables
  <1>5. /\ [t EXCEPT !.data = new].data = new
        /\ \A f \in {"table_x", "table_y", "colwidth", "bad", "table"} : [t EXCEPT !.data = new][f] = t[f]
    BY DEF Tables
  <1>6. WrittenIn([t EXCEPT !.data = new], t, at, bytes)
    BY <1>2, <1>4, <1>5 DEF WrittenIn
  <1> QED
    BY <1>3, <1>6, Zenon

-----------------------------------------------------------------------------
(* Where the cells are.                                                    *)

\* The bytes of a cell, as positions in the text.
CellBytes(t, x, y) == CellAt(t, x, y) + 1 .. CellAt(t, x, y) + t.colwidth

LEMMA Sizes ==
    ASSUME NEW x \in Positive, NEW y \in Positive, NEW colwidth \in Positive
    PROVE  /\ rel_line_num(x, colwidth) \in Nat /\ rel_line_num(x, colwidth) >= 5
           /\ rel_line_num(x, colwidth) = x * (colwidth + 1) + 3
           /\ Lines(y) \in Nat /\ Lines(y) >= 5 /\ Lines(y) = 2 * y + 3
           /\ rel_line_num(x, colwidth) * Lines(y) \in Nat
           /\ rel_line_num(x, colwidth) * Lines(y) >= 5 * rel_line_num(x, colwidth)
           /\ s_table_size_compute(x, y, colwidth) \in Nat
           /\ s_table_size_compute(x, y, colwidth)
                = rel_line_num(x, colwidth) + rel_line_num(x, colwidth) * Lines(y) + 1
  <1>1. x \in Nat /\ 1 <= x /\ y \in Nat /\ 1 <= y /\ colwidth \in Nat /\ 2 <= colwidth + 1 /\ colwidth + 1 \in Nat
    BY DEF Positive
  <1>2. 1 * (colwidth + 1) <= x * (colwidth + 1) /\ x * (colwidth + 1) \in Nat
    BY <1>1, ProductMonotonic
  <1>3. (colwidth + 1) * x = x * (colwidth + 1) /\ 1 * (colwidth + 1) = colwidth + 1
    BY <1>1
  <1> DEFINE L == rel_line_num(x, colwidth)
  <1>4. L = x * (colwidth + 1) + 3
    BY <1>2, <1>3 DEF rel_line_num
  <1> HIDE DEF L
  <1>5. L \in Nat /\ L >= 5
    BY <1>1, <1>2, <1>3, <1>4
  <1>6. Lines(y) \in Nat /\ Lines(y) >= 5 /\ Lines(y) = 2 * y + 3
    BY <1>1 DEF Lines
  <1>7. 5 * L <= Lines(y) * L /\ Lines(y) * L \in Nat
    BY <1>5, <1>6, ProductMonotonic
  <1>8. L * Lines(y) = Lines(y) * L
    BY <1>5, <1>6
  <1>9. s_table_size_compute(x, y, colwidth) = L + L * Lines(y) + 1
    BY DEF s_table_size_compute, L
  <1>10. s_table_size_compute(x, y, colwidth) \in Nat
    BY <1>5, <1>7, <1>8, <1>9
  <1> QED
    BY <1>4, <1>5, <1>6, <1>7, <1>8, <1>9, <1>10 DEF L

\* A cell is in its line, before the '|' that ends it; and its line is in the text.
LEMMA CellInside ==
    ASSUME NEW t \in Tables, NEW x \in Columns(t), NEW y \in Rows(t)
    PROVE  /\ CellAt(t, x, y) \in Nat
           /\ CellAt(t, x, y) + t.colwidth
                <= s_table_size_compute(t.table_x, t.table_y, t.colwidth)
  <1> DEFINE X == t.table_x
             Y == t.table_y
             W == t.colwidth
             L == rel_line_num(X, W)
  <1>1. X \in Positive /\ Y \in Positive /\ W \in Positive
    BY DEF Tables
  <1>2. /\ L \in Nat /\ L >= 5 /\ L = X * (W + 1) + 3 /\ L * Lines(Y) \in Nat /\ Lines(Y) \in Nat
        /\ Lines(Y) = 2 * Y + 3
        /\ s_table_size_compute(X, Y, W) = L + L * Lines(Y) + 1
    BY <1>1, Sizes
  <1>3. /\ x \in Nat /\ y \in Nat /\ W \in Nat /\ W + 1 \in Nat /\ X \in Nat /\ x + 1 <= X /\ x + 1 \in Nat
        /\ y + 1 <= Y /\ Y \in Nat
    BY <1>1 DEF Columns, Rows, Positive
  <1> HIDE DEF L, X, Y, W
  <1>4. (x + 1) * (W + 1) <= X * (W + 1) /\ (x + 1) * (W + 1) = x * (W + 1) + (W + 1) /\ x * (W + 1) \in Nat
    BY <1>3, ProductMonotonic, Successor
  <1>5. x * (W + 1) + 1 + W < L
    BY <1>2, <1>3, <1>4
  <1>6. (2 * y + 3) * L <= Lines(Y) * L /\ (2 * y + 3) * L \in Nat
    <2>1. 2 * y + 3 \in Nat /\ 2 * y + 3 <= Lines(Y)
      BY <1>2, <1>3
    <2> QED
      BY <1>2, <2>1, ProductMonotonic
  <1>7. Lines(Y) * L = L * Lines(Y)
    BY <1>2
  <1>8. CellAt(t, x, y) = (2 * y + 3) * L + x * (W + 1) + 1
    BY DEF CellAt, L, X, W
  <1>9. /\ CellAt(t, x, y) \in Nat
        /\ CellAt(t, x, y) + W <= s_table_size_compute(X, Y, W)
    BY <1>2, <1>3, <1>4, <1>5, <1>6, <1>7, <1>8
  <1> QED
    BY <1>9 DEF X, Y, W

\* No two cells have a byte in common.
THEOREM CellsApart ==
    ASSUME NEW t \in Tables, NEW x \in Columns(t), NEW y \in Rows(t),
           NEW x2 \in Columns(t), NEW y2 \in Rows(t), <<x, y>> # <<x2, y2>>
    PROVE  CellBytes(t, x, y) \cap CellBytes(t, x2, y2) = {}
  <1> DEFINE X == t.table_x
             W == t.colwidth
             L == rel_line_num(X, W)
  <1>1. t.table_x \in Positive /\ t.table_y \in Positive /\ t.colwidth \in Positive
    BY DEF Tables
  <1>2. L \in Nat /\ L = X * (W + 1) + 3
    BY <1>1, Sizes
  <1>3. W \in Nat /\ W + 1 \in Nat /\ X \in Nat
    BY <1>1 DEF Positive
  <1>4. ASSUME NEW u \in Columns(t), NEW v \in Rows(t), NEW u2 \in Columns(t), NEW v2 \in Rows(t),
               v < v2 \/ (v = v2 /\ u < u2)
        PROVE  /\ CellAt(t, u, v) \in Nat /\ CellAt(t, u2, v2) \in Nat
               /\ CellAt(t, u, v) + W < CellAt(t, u2, v2)
    <2>1. /\ u \in Nat /\ u2 \in Nat /\ v \in Nat /\ v2 \in Nat /\ u + 1 <= X /\ u + 1 \in Nat
          /\ 2 * v + 3 \in Nat /\ 2 * v2 + 3 \in Nat
      BY <1>1 DEF Columns, Rows, Positive
    <2>2. /\ CellAt(t, u, v) = (2 * v + 3) * L + u * (W + 1) + 1
          /\ CellAt(t, u2, v2) = (2 * v2 + 3) * L + u2 * (W + 1) + 1
      BY DEF CellAt
    <2> HIDE DEF L, X, W
    <2>3. /\ u * (W + 1) \in Nat /\ u2 * (W + 1) \in Nat /\ (u + 1) * (W + 1) <= X * (W + 1)
          /\ (u + 1) * (W + 1) = u * (W + 1) + (W + 1)
      BY <1>3, <2>1, ProductMonotonic, Successor
    <2>4. (2 * v + 3) * L \in Nat /\ (2 * v2 + 3) * L \in Nat
      BY <1>2, <2>1, ProductMonotonic
    <2>5. CellAt(t, u, v) \in Nat /\ CellAt(t, u2, v2) \in Nat
      BY <2>2, <2>3, <2>4
    <2>6. CASE v < v2
      <3>1. 2 * v + 3 + 1 <= 2 * v2 + 3 /\ 2 * v + 3 + 1 \in Nat
        BY <2>1, <2>6
      <3>2. (2 * v + 3 + 1) * L <= (2 * v2 + 3) * L
        BY <1>2, <2>1, <3>1, ProductMonotonic
      <3>3. (2 * v + 3 + 1) * L = (2 * v + 3) * L + L
        BY <1>2, <2>1, Successor
      <3> QED
        BY <1>2, <1>3, <2>2, <2>3, <2>4, <2>5, <3>2, <3>3
    <2>7. CASE v = v2 /\ u < u2
      <3>1. (u + 1) * (W + 1) <= u2 * (W + 1)
        BY <1>3, <2>1, <2>7, ProductMonotonic
      <3> QED
        BY <1>3, <2>2, <2>3, <2>4, <2>5, <2>7, <3>1
    <2> QED
      BY <1>4, <2>5, <2>6, <2>7
  <1> HIDE DEF W
  <1>5. \/ y < y2 \/ (y = y2 /\ x < x2)
        \/ y2 < y \/ (y2 = y /\ x2 < x)
    BY <1>1 DEF Columns, Rows, Positive
  <1>6. CASE y < y2 \/ (y = y2 /\ x < x2)
    <2>1. /\ CellAt(t, x, y) \in Nat /\ CellAt(t, x2, y2) \in Nat
          /\ CellAt(t, x, y) + W < CellAt(t, x2, y2)
      BY <1>4, <1>6
    <2> QED
      BY <1>3, <2>1 DEF CellBytes, W
  <1>7. CASE y2 < y \/ (y2 = y /\ x2 < x)
    <2>1. /\ CellAt(t, x, y) \in Nat /\ CellAt(t, x2, y2) \in Nat
          /\ CellAt(t, x2, y2) + W < CellAt(t, x, y)
      BY <1>4, <1>7
    <2> QED
      BY <1>3, <2>1 DEF CellBytes, W
  <1> QED
    BY <1>5, <1>6, <1>7

-----------------------------------------------------------------------------
(* s_table_valueset.                                                       *)

LEMMA Blanks ==
    ASSUME NEW len \in Nat
    PROVE  Spaces(len) \in Seq(Nat) /\ Len(Spaces(len)) = len /\ \A a \in 1 .. len : Spaces(len)[a] = Blank
  BY DEF Spaces, Blank

\* new is t with the value in cell (x, y), padded with blanks, or t where it is refused.
ShownIn(new, t, x, y, value) ==
    /\ Formed(new)
    /\ new.table_x = t.table_x /\ new.table_y = t.table_y /\ new.colwidth = t.colwidth
    /\ Len(new.data) = Len(t.data)
    /\ Accepted(t, x, y, value) =>
         \A a \in 1 .. Len(t.data) :
            new.data[a] = IF a \in CellBytes(t, x, y)
                          THEN IF a - CellAt(t, x, y) <= Len(value) THEN value[a - CellAt(t, x, y)] ELSE Blank
                          ELSE t.data[a]
    /\ ~ Accepted(t, x, y, value) => new = t

\* A value that is accepted is what its cell shows, followed by blanks; every other byte of the
\* text, the borders and the other cells, is as it was.  Nothing is written outside of
\* the block, and what is not accepted changes nothing.
THEOREM ValueShown ==
    ASSUME NEW t, Formed(t), NEW x \in Nat, NEW y \in Nat, NEW value \in Seq(Nat)
    PROVE  ShownIn(s_table_valueset(t, x, y, value), t, x, y, value)
  <1>1. CASE ~ Accepted(t, x, y, value)
    <2>1. s_table_valueset(t, x, y, value) = t
      BY <1>1 DEF s_table_valueset
    <2>2. ShownIn(t, t, x, y, value)
      BY <1>1 DEF ShownIn
    <2> QED
      BY <2>1, <2>2, Zenon
  <1>2. CASE Accepted(t, x, y, value)
    <2> DEFINE at == CellAt(t, x, y)
    <2>1. /\ t \in Tables
          /\ Len(t.data) = s_table_size_compute(t.table_x, t.table_y, t.colwidth)
          /\ t.bad = FALSE
          /\ \A u \in Columns(t), v \in Rows(t) : t.table[s_table_get(t, u, v)] = CellAt(t, u, v)
      BY DEF Formed
    <2>2. t.table_x \in Positive /\ t.table_y \in Positive /\ t.colwidth \in Positive /\ t.data \in Seq(Nat)
      BY <2>1 DEF Tables
    <2>3. x \in Columns(t) /\ y \in Rows(t) /\ Len(value) <= t.colwidth /\ t.colwidth \in Nat
      BY <1>2, <2>2 DEF Accepted, Columns, Rows, Positive
    <2>4. at \in Nat /\ at + t.colwidth <= Len(t.data)
      BY <2>1, <2>3, CellInside
    <2>5. t.table[s_table_get(t, x, y)] = at
      BY <2>1, <2>3
    <2> HIDE DEF at
    <2>6. s_table_valueset(t, x, y, value) = Put(Put(t, at, Spaces(t.colwidth)), at, value)
      BY <1>2, <2>5 DEF s_table_valueset
    <2>7. PICK blanks \in Seq(Nat) : /\ blanks = Spaces(t.colwidth) /\ Len(blanks) = t.colwidth
                                     /\ \A a \in 1 .. t.colwidth : blanks[a] = Blank
      BY <2>3, Blanks
    <2>8. PICK cleared \in Tables :
              /\ cleared = Put(t, at, blanks)
              /\ \A f \in {"table_x", "table_y", "colwidth", "bad", "table"} : cleared[f] = t[f]
              /\ Len(cleared.data) = Len(t.data)
              /\ \A a \in 1 .. Len(t.data) :
                    cleared.data[a] = IF a \in at + 1 .. at + Len(blanks) THEN blanks[a - at] ELSE t.data[a]
      <3>1. at + Len(blanks) <= Len(t.data)
        BY <2>4, <2>7
      <3>2. WrittenIn(Put(t, at, blanks), t, at, blanks)
        BY <2>1, <2>4, <3>1, PutInside, Zenon
      <3> QED
        BY <3>2, Zenon DEF WrittenIn
    <2>9. PICK new \in Tables :
              /\ new = Put(cleared, at, value)
              /\ \A f \in {"table_x", "table_y", "colwidth", "bad", "table"} : new[f] = cleared[f]
              /\ Len(new.data) = Len(cleared.data)
              /\ \A a \in 1 .. Len(cleared.data) :
                    new.data[a] = IF a \in at + 1 .. at + Len(value) THEN value[a - at] ELSE cleared.data[a]
      <3>1. at + Len(value) <= Len(cleared.data) /\ Len(value) \in Nat
        BY <2>2, <2>3, <2>4, <2>8
      <3>2. WrittenIn(Put(cleared, at, value), cleared, at, value)
        BY <2>4, <3>1, PutInside, Zenon
      <3> QED
        BY <3>2, Zenon DEF WrittenIn
    <2>10. new = s_table_valueset(t, x, y, value)
      BY <2>6, <2>7, <2>8, <2>9, Zenon
    <2>11. /\ new.table_x = t.table_x /\ new.table_y = t.table_y /\ new.colwidth = t.colwidth
           /\ new.bad = t.bad /\ new.table = t.table
      <3>1. \A f \in {"table_x", "table_y", "colwidth", "bad", "table"} : new[f] = t[f]
        BY <2>8, <2>9
      <3> QED
        BY <3>1
    <2>12. Formed(new)
      BY <2>1, <2>8, <2>9, <2>11 DEF Formed, Columns, Rows, s_table_get, CellAt
    <2>13. ASSUME NEW a \in 1 .. Len(t.data)
           PROVE  new.data[a] = IF a \in CellBytes(t, x, y)
                                THEN IF a - at <= Len(value) THEN value[a - at] ELSE Blank
                                ELSE t.data[a]
      <3>1. /\ new.data[a] = IF a \in at + 1 .. at + Len(value) THEN value[a - at] ELSE cleared.data[a]
            /\ cleared.data[a] = IF a \in at + 1 .. at + Len(blanks) THEN blanks[a - at] ELSE t.data[a]
        BY <2>8, <2>9
      <3>2. CellBytes(t, x, y) = at + 1 .. at + t.colwidth
        BY DEF CellBytes, at
      <3>3. Len(value) \in Nat /\ Len(value) <= t.colwidth /\ t.colwidth \in Nat /\ at \in Nat /\ a \in Nat
        BY <2>2, <2>3, <2>4
      <3>4. CASE a \in at + 1 .. at + Len(value)
        <4>1. a \in at + 1 .. at + t.colwidth /\ a - at <= Len(value)
          BY <3>3, <3>4
        <4> QED
          BY <3>1, <3>2, <3>4, <4>1
      <3>5. CASE a \in at + 1 .. at + t.colwidth /\ ~(a \in at + 1 .. at + Len(value))
        <4>1. a - at \in 1 .. t.colwidth /\ ~(a - at <= Len(value))
          BY <3>3, <3>5
        <4>2. blanks[a - at] = Blank
          BY <2>7, <4>1
        <4> QED
          BY <2>7, <3>1, <3>2, <3>5, <4>1, <4>2
      <3>6. CASE ~(a \in at + 1 .. at + t.colwidth)
        <4>1. ~(a \in at + 1 .. at + Len(value))
          BY <3>3, <3>6
        <4> QED
          BY <2>7, <3>1, <3>2, <3>6, <4>1
      <3> QED
        BY <3>3, <3>4, <3>5, <3>6
    <2>14. ShownIn(new, t, x, y, value)
      BY <1>2, <2>8, <2>9, <2>11, <2>12, <2>13 DEF at, ShownIn
    <2> QED
      BY <2>10, <2>14, Zenon
  <1> QED
    BY <1>1, <1>2

-----------------------------------------------------------------------------
(* s_table_create.                                                         *)

\* The ruled text.
LEMMA RuledText ==
    ASSUME NEW x \in Positive, NEW y \in Positive, NEW colwidth \in Positive,
           NEW break \in [1 .. 2 -> Nat]
    PROVE  /\ Ruled(x, y, colwidth, break) \in Seq(Nat)
           /\ Len(Ruled(x, y, colwidth, break)) = s_table_size_compute(x, y, colwidth)
  <1> DEFINE L == rel_line_num(x, colwidth)
             size == s_table_size_compute(x, y, colwidth)
             ByteAt(a) == LET line == (a - 1) \div L
                            col  == (a - 1) % L
                        IN  IF line >= Lines(y) THEN 0
                            ELSE IF col >= L - 2 THEN break[col - L + 3]
                            ELSE IF line % 2 = 0 THEN COLUMN_SEPARATOR
                            ELSE IF col % (colwidth + 1) = 0 THEN LINE_SEPARATOR
                            ELSE Blank
  <1>1. L \in Nat /\ L >= 5 /\ size \in Nat
    BY Sizes
  <1>2. ASSUME NEW a \in 1 .. size
        PROVE  ByteAt(a) \in Nat
    <2>1. PICK col : col = (a - 1) % L
      OBVIOUS
    <2>2. PICK line : line = (a - 1) \div L
      OBVIOUS
    <2>3. col \in 0 .. L - 1
      <3> HIDE DEF L, size
      <3> QED
        BY <1>1, <2>1
    <2>4. (col >= L - 2) => break[col - L + 3] \in Nat
      <3> HIDE DEF L, size
      <3>1. (col >= L - 2) => col - L + 3 \in {1, 2}
        BY <1>1, <2>3
      <3>2. break[1] \in Nat /\ break[2] \in Nat
        OBVIOUS
      <3> QED
        BY <3>1, <3>2
    <2>5. COLUMN_SEPARATOR \in Nat /\ LINE_SEPARATOR \in Nat /\ Blank \in Nat /\ 0 \in Nat
      BY DEF COLUMN_SEPARATOR, LINE_SEPARATOR, Blank
    <2>6. ByteAt(a) = IF line >= Lines(y) THEN 0
                      ELSE IF col >= L - 2 THEN break[col - L + 3]
                      ELSE IF line % 2 = 0 THEN COLUMN_SEPARATOR
                      ELSE IF col % (colwidth + 1) = 0 THEN LINE_SEPARATOR
                      ELSE Blank
      BY <2>1, <2>2, Zenon
    <2> HIDE DEF ByteAt, L
    <2>7. \/ ByteAt(a) = 0 \/ (col >= L - 2 /\ ByteAt(a) = break[col - L + 3])
          \/ ByteAt(a) = COLUMN_SEPARATOR \/ ByteAt(a) = LINE_SEPARATOR \/ ByteAt(a) = Blank
      BY <2>6, Zenon
    <2> QED
      BY <2>4, <2>5, <2>7
  <1>3. Ruled(x, y, colwidth, break) = [a \in 1 .. size |-> ByteAt(a)]
    BY DEF Ruled
  <1> HIDE DEF ByteAt, size
  <1>4. [a \in 1 .. size |-> ByteAt(a)] \in Seq(Nat) /\ Len([a \in 1 .. size |-> ByteAt(a)]) = size
    BY <1>1, <1>2
  <1> QED
    BY <1>3, <1>4 DEF size

LEMMA LineBreaks == LineBreak = <<32, 10>> /\ \A type : LineBreakOf(type) \in [1 .. 2 -> Nat]
  <1>1. Behind \in [1 .. 2 -> 0 .. 255]
    <2>1. [k \in 1 .. 2 |-> 0] \in [1 .. 2 -> 0 .. 255]
      OBVIOUS
    <2> QED
      BY <2>1, Zenon DEF Behind
  <1>2. Behind \in [1 .. 2 -> Nat]
    BY <1>1
  <1>3. g_line_break[1] \in [1 .. 2 -> Nat] /\ g_line_break[2] \in [1 .. 2 -> Nat]
    BY DEF g_line_break
  <1>4. \A type \in 0 .. 1 : g_line_break[type + 1] \in [1 .. 2 -> Nat]
    BY <1>3
  <1>5. LineBreak = <<32, 10>>
    BY DEF LineBreak, g_line_break
  <1> QED
    BY <1>2, <1>4, <1>5, Zenon DEF LineBreakOf

NameAt(x, colwidth, name) ==
    rel_line_num(x, colwidth) + 1 + (rel_line_num(x, colwidth) - 2) \div 2 - Len(name) \div 2

\* t is a table of this size with nothing but the name in its frame and the rules, and
\* with the line breaks of its type.
MadeWith(t, x, y, colwidth, name) ==
    LET L == rel_line_num(x, colwidth)
        from == NameAt(x, colwidth, name)
    IN  /\ Formed(t) /\ t.table_x = x /\ t.table_y = y /\ t.colwidth = colwidth
        /\ \A a \in 1 .. Len(t.data) :
              t.data[a] = IF a \in from + 1 .. from + Len(name) THEN name[a - from]
                          ELSE IF a \in L + 3 .. 2 * L - 3 THEN Blank
                          ELSE Ruled(x, y, colwidth, LineBreakOf(table_type(name)))[a]

\* A name in the struct: one of 64 bytes leaves table_type alone, one of 65
\* puts its last byte there.
LEMMA NameInStruct ==
    ASSUME NEW name \in Seq(Nat), NEW x, NEW colwidth, NameFits(name, x, colwidth)
    PROVE  /\ Len(name) <= MAX_TABLE_NAME => table_type(name) = 0
           /\ table_type(name) \notin 0 .. 1 <=>
                 (Len(name) = MAX_TABLE_NAME + 1 /\ name[MAX_TABLE_NAME + 1] \notin 0 .. 1)
  <1>1. PICK n \in Nat : n = Len(name)
    OBVIOUS
  <1>2. CASE n <= 64
    <2>1. ~ (Len(name) > MAX_TABLE_NAME) /\ ~ (Len(name) = MAX_TABLE_NAME + 1)
      <3>1. ~ (n > 64) /\ ~ (n = 65)
        BY <1>2
      <3>2. MAX_TABLE_NAME = 64 /\ MAX_TABLE_NAME + 1 = 65
        BY DEF MAX_TABLE_NAME
      <3> QED
        BY <1>1, <3>1, <3>2, Zenon
    <2>2. table_type(name) = 0
      BY <2>1, Zenon DEF table_type
    <2>3. table_type(name) \in 0 .. 1
      BY <2>2
    <2> QED
      BY <2>1, <2>2, <2>3, Zenon
  <1>3. CASE n = 65
    <2>1. table_type(name) = name[65] /\ ~ n <= 64
      BY <1>1, <1>3 DEF table_type, MAX_TABLE_NAME
    <2> QED
      BY <1>1, <1>3, <2>1 DEF MAX_TABLE_NAME
  <1>4. n <= 65
    BY <1>1 DEF NameFits, MAX_TABLE_NAME
  <1> QED
    BY <1>2, <1>3, <1>4

\* A new table of an accepted name, of any size, was written inside its block with the
\* line breaks of its type, and the pointer of every cell is the place of that cell:
\* of type 0 (Linux) as long as the name fits md->name.  The name of one byte more that
\* s_table_create accepts as well (stringtable.c:117) overwrites the type, and unless
\* that byte happens to be a type the line breaks are read outside of g_line_break.
THEOREM TableMade ==
    ASSUME NEW x \in Positive, NEW y \in Positive, NEW colwidth \in Positive,
           NEW name \in Seq(Nat), NameFits(name, x, colwidth),
           NEW made, made = s_table_tableinit(x, y, colwidth, name)
    PROVE  /\ Len(name) <= MAX_TABLE_NAME => table_type(name) = 0
           /\ made.bad <=> (Len(name) = MAX_TABLE_NAME + 1 /\ name[MAX_TABLE_NAME + 1] \notin 0 .. 1)
           /\ ~made.bad => MadeWith(made, x, y, colwidth, name)
  <1> DEFINE break  == LineBreakOf(table_type(name))
             wrong  == table_type(name) \notin 0 .. 1
             L      == rel_line_num(x, colwidth)
             size   == s_table_size_compute(x, y, colwidth)
             zeroes == [k \in 0 .. x * y - 1 |-> 0]
             ruled  == [table_x |-> x, table_y |-> y, colwidth |-> colwidth,
                        data |-> Ruled(x, y, colwidth, break), bad |-> wrong, table |-> zeroes]
             from   == L + 1 + (L - 2) \div 2 - Len(name) \div 2
             fields == {"table_x", "table_y", "colwidth", "bad", "table"}
             Cells  == (0 .. x - 1) \X (0 .. y - 1)
  <1>1. x \in Nat /\ y \in Nat /\ colwidth \in Nat /\ x * y \in Nat /\ x * y - 1 + 1 = x * y
    <2>1. x \in Nat /\ y \in Nat /\ colwidth \in Nat
      BY DEF Positive
    <2> QED
      BY <2>1, ProductMonotonic
  <1>2. L \in Nat /\ L >= 5 /\ size \in Nat /\ size >= 6 * L
    <2>1. L \in Nat /\ L >= 5 /\ size \in Nat /\ L * Lines(y) \in Nat /\ L * Lines(y) >= 5 * L /\ size = L + L * Lines(y) + 1
      BY Sizes
    <2> HIDE DEF L, size
    <2> QED
      BY <2>1
  <1>3. /\ Ruled(x, y, colwidth, break) \in Seq(Nat) /\ Len(Ruled(x, y, colwidth, break)) = size
        /\ wrong \in BOOLEAN
    <2>1. break \in [1 .. 2 -> Nat]
      BY LineBreaks, Zenon
    <2>2. wrong \in BOOLEAN
      OBVIOUS
    <2> HIDE DEF break
    <2> QED
      BY <2>1, <2>2, RuledText
  <1> HIDE DEF break, wrong
  <1>4. [0 .. x * y - 1 -> Nat] \in {[0 .. n - 1 -> Nat] : n \in Nat}
    BY <1>1
  <1>5. zeroes \in UNION {[0 .. n - 1 -> Nat] : n \in Nat}
    <2>1. zeroes \in [0 .. x * y - 1 -> Nat]
      BY <1>1
    <2> HIDE DEF zeroes
    <2> QED
      BY <1>4, <2>1
  <1>6. PICK blank \in Tables : /\ blank = ruled /\ blank.table_x = x /\ blank.table_y = y /\ blank.colwidth = colwidth
                                /\ blank.bad = wrong /\ Len(blank.data) = size
    <2> HIDE DEF zeroes, size
    <2>1. ruled \in Tables
      BY <1>3, <1>5 DEF Tables
    <2>2. /\ ruled.table_x = x /\ ruled.table_y = y /\ ruled.colwidth = colwidth
          /\ ruled.bad = wrong /\ Len(ruled.data) = size
      BY <1>3
    <2> HIDE DEF ruled
    <2> QED
      BY <2>1, <2>2
  <1>7. PICK lined \in Tables : /\ lined = Put(blank, L + 2, Spaces(L - 5))
                                /\ \A f \in fields : lined[f] = blank[f]
                                /\ Len(lined.data) = size
                                /\ \A a \in 1 .. size :
                                      lined.data[a] = IF a \in L + 3 .. 2 * L - 3 THEN Blank ELSE blank.data[a]
    <2>1. L - 5 \in Nat /\ L + 2 \in Nat /\ L + 2 + (L - 5) <= size
      <3> HIDE DEF L, size
      <3> QED
        BY <1>2
    <2>2. PICK blanks \in Seq(Nat) : /\ blanks = Spaces(L - 5) /\ Len(blanks) = L - 5
                                     /\ \A a \in 1 .. L - 5 : blanks[a] = Blank
      BY <2>1, Blanks
    <2>3. L + 2 + Len(blanks) <= Len(blank.data)
      BY <1>6, <2>1, <2>2
    <2>4. PICK new : new = Put(blank, L + 2, blanks) /\ WrittenIn(new, blank, L + 2, blanks)
      BY <2>1, <2>3, PutInside, Zenon
    <2>5. PICK lined \in Tables : /\ lined = Put(blank, L + 2, Spaces(L - 5))
                                  /\ \A f \in fields : lined[f] = blank[f]
                                  /\ Len(lined.data) = size
                                  /\ \A a \in 1 .. size :
                                        lined.data[a] = IF a \in L + 2 + 1 .. L + 2 + Len(blanks)
                                                        THEN blanks[a - (L + 2)] ELSE blank.data[a]
      <3>1. /\ new \in Tables /\ \A f \in fields : new[f] = blank[f]
            /\ Len(new.data) = Len(blank.data)
            /\ \A a \in 1 .. Len(blank.data) :
                  new.data[a] = IF a \in L + 2 + 1 .. L + 2 + Len(blanks)
                                THEN blanks[a - (L + 2)] ELSE blank.data[a]
        BY <2>4, Zenon DEF WrittenIn
      <3>2. new = Put(blank, L + 2, Spaces(L - 5))
        BY <2>2, <2>4, Zenon
      <3>3. Len(blank.data) = size
        BY <1>6, Zenon
      <3> HIDE DEF L, size
      <3> QED
        BY <3>1, <3>2, <3>3, Zenon
    <2>6. ASSUME NEW a \in 1 .. size
          PROVE  lined.data[a] = IF a \in L + 3 .. 2 * L - 3 THEN Blank ELSE blank.data[a]
      <3>1. (a \in L + 2 + 1 .. L + 2 + Len(blanks)) <=> (a \in L + 3 .. 2 * L - 3)
        <4> HIDE DEF L, size
        <4> QED
          BY <1>2, <2>2
      <3>2. a \in L + 3 .. 2 * L - 3 => a - (L + 2) \in 1 .. L - 5
        <4> HIDE DEF L, size
        <4> QED
          BY <1>2
      <3> HIDE DEF L, size
      <3> QED
        BY <2>2, <2>5, <3>1, <3>2
    <2> QED
      BY <2>5, <2>6, Zenon
  <1>8. PICK head \in Tables : /\ head = Put(lined, from, name)
                               /\ \A f \in fields : head[f] = lined[f]
                               /\ Len(head.data) = size
                               /\ \A a \in 1 .. size :
                                     head.data[a] = IF a \in from + 1 .. from + Len(name)
                                                    THEN name[a - from] ELSE lined.data[a]
    <2>1. Len(name) \in Nat /\ Len(name) - 1 <= L - 5
      BY DEF NameFits
    <2>2. from \in Nat /\ from + Len(name) <= size
      <3> HIDE DEF L, size
      <3> QED
        BY <1>2, <2>1
    <2>3. from + Len(name) <= Len(lined.data)
      BY <1>7, <2>2
    <2>4. PICK new : new = Put(lined, from, name) /\ WrittenIn(new, lined, from, name)
      BY <2>2, <2>3, PutInside, Zenon
    <2>5. /\ new \in Tables /\ \A f \in fields : new[f] = lined[f]
          /\ Len(new.data) = Len(lined.data)
          /\ \A a \in 1 .. Len(lined.data) :
                new.data[a] = IF a \in from + 1 .. from + Len(name) THEN name[a - from] ELSE lined.data[a]
      BY <2>4, Zenon DEF WrittenIn
    <2>6. Len(lined.data) = size
      BY <1>7, Zenon
    <2> HIDE DEF from, size
    <2> QED
      BY <2>4, <2>5, <2>6, Zenon
  <1>9. /\ head.table_x = x /\ head.table_y = y /\ head.colwidth = colwidth /\ head.bad = wrong
    <2>1. \A f \in fields : head[f] = blank[f]
      BY <1>7, <1>8
    <2> QED
      BY <1>6, <2>1
  <1> DEFINE Place(k) == IF \E c \in Cells : s_table_get(head, c[1], c[2]) = k
                         THEN LET c == CHOOSE c \in Cells : s_table_get(head, c[1], c[2]) = k
                              IN  CellAt(head, c[1], c[2])
                         ELSE 0
             places   == [k \in 0 .. x * y - 1 |-> Place(k)]
             outside  == \E c \in Cells : s_table_get(head, c[1], c[2]) \notin 0 .. x * y - 1
  <1>10. s_table_tableinit(x, y, colwidth, name) = [head EXCEPT !.bad = @ \/ outside, !.table = places]
    <2>1. head = Put(Put(ruled, L + 2, Spaces(L - 5)), from, name)
      BY <1>6, <1>7, <1>8, Zenon
    <2> QED
      BY <2>1 DEF s_table_tableinit, break, wrong
  <1>11. \A c \in Cells : c[1] \in Columns(head) /\ c[2] \in Rows(head)
    BY <1>9 DEF Columns, Rows
  <1>12. outside = FALSE
    <2>1. \A c \in Cells : s_table_get(head, c[1], c[2]) \in 0 .. x * y - 1
      BY <1>9, <1>11, PointersDistinct
    <2> QED
      BY <2>1
  <1>13. \A k \in 0 .. x * y - 1 : Place(k) \in Nat
    <2> SUFFICES ASSUME NEW k \in 0 .. x * y - 1
                 PROVE  Place(k) \in Nat
      OBVIOUS
    <2>1. CASE \E c \in Cells : s_table_get(head, c[1], c[2]) = k
      <3>1. PICK c \in Cells : c = CHOOSE d \in Cells : s_table_get(head, d[1], d[2]) = k
        BY <2>1
      <3>2. CellAt(head, c[1], c[2]) \in Nat
        BY <1>11, CellInside
      <3>3. Place(k) = CellAt(head, c[1], c[2])
        BY <2>1, <3>1, Zenon
      <3> QED
        BY <3>2, <3>3, Zenon
    <2>2. CASE ~ \E c \in Cells : s_table_get(head, c[1], c[2]) = k
      BY <2>2
    <2> QED
      BY <2>1, <2>2
  <1>14. places \in UNION {[0 .. n - 1 -> Nat] : n \in Nat}
    <2>1. places \in [0 .. x * y - 1 -> Nat]
      BY <1>13
    <2> HIDE DEF places
    <2> QED
      BY <1>4, <2>1
  <1>15. ASSUME NEW u \in Columns(head), NEW v \in Rows(head)
         PROVE  places[s_table_get(head, u, v)] = CellAt(head, u, v)
    <2>1. PICK k \in 0 .. x * y - 1 : k = s_table_get(head, u, v)
      BY <1>9, PointersDistinct
    <2>2. <<u, v>> \in Cells
      BY <1>9 DEF Columns, Rows
    <2>3. \E c \in Cells : s_table_get(head, c[1], c[2]) = k
      BY <2>1, <2>2
    <2>4. PICK c \in Cells : /\ c = CHOOSE d \in Cells : s_table_get(head, d[1], d[2]) = k
                             /\ s_table_get(head, c[1], c[2]) = k
      <3>1. /\ (CHOOSE d \in Cells : s_table_get(head, d[1], d[2]) = k) \in Cells
            /\ s_table_get(head, (CHOOSE d \in Cells : s_table_get(head, d[1], d[2]) = k)[1],
                                 (CHOOSE d \in Cells : s_table_get(head, d[1], d[2]) = k)[2]) = k
        BY <2>3, Zenon
      <3> QED
        BY <3>1, Zenon
    <2>5. c[1] = u /\ c[2] = v
      BY <1>11, <2>1, <2>4, PointersDistinct
    <2>6. Place(k) = CellAt(head, c[1], c[2])
      BY <2>3, <2>4, Zenon
    <2>7. places[k] = Place(k)
      OBVIOUS
    <2> HIDE DEF Place, places
    <2> QED
      BY <2>1, <2>5, <2>6, <2>7, Zenon
  <1> HIDE DEF places, outside, size
  <1>16. PICK t : t = [head EXCEPT !.bad = @ \/ outside, !.table = places]
    OBVIOUS
  <1>17. /\ t \in Tables /\ t.table_x = x /\ t.table_y = y /\ t.colwidth = colwidth
         /\ t.bad = wrong /\ t.table = places /\ t.data = head.data
    BY <1>3, <1>9, <1>12, <1>14, <1>16 DEF Tables
  <1>18. \A u \in Columns(t), v \in Rows(t) : t.table[s_table_get(t, u, v)] = CellAt(t, u, v)
    BY <1>9, <1>15, <1>17 DEF Columns, Rows, s_table_get, CellAt
  <1>19. Len(t.data) = s_table_size_compute(t.table_x, t.table_y, t.colwidth)
    BY <1>8, <1>17 DEF size
  <1>20. ~wrong => Formed(t)
    BY <1>17, <1>18, <1>19 DEF Formed
  <1>21. ASSUME NEW a \in 1 .. Len(t.data)
         PROVE  t.data[a] = IF a \in from + 1 .. from + Len(name) THEN name[a - from]
                            ELSE IF a \in L + 3 .. 2 * L - 3 THEN Blank
                            ELSE Ruled(x, y, colwidth, break)[a]
    <2>1. a \in 1 .. size /\ t.data[a] = head.data[a]
      BY <1>8, <1>17
    <2>2. blank.data = Ruled(x, y, colwidth, break)
      BY <1>6
    <2> HIDE DEF L, from
    <2> QED
      BY <1>7, <1>8, <2>1, <2>2
  <1>22. from = NameAt(x, colwidth, name)
    BY DEF NameAt
  <1>23. ~wrong => MadeWith(t, x, y, colwidth, name)
    BY <1>17, <1>20, <1>21, <1>22 DEF MadeWith, break
  <1>24. made = t /\ made.bad = wrong
    BY <1>10, <1>16, <1>17, Zenon
  <1>25. /\ Len(name) <= MAX_TABLE_NAME => table_type(name) = 0
         /\ wrong <=> (Len(name) = MAX_TABLE_NAME + 1 /\ name[MAX_TABLE_NAME + 1] \notin 0 .. 1)
    BY NameInStruct, Zenon DEF wrong
  <1> QED
    BY <1>23, <1>24, <1>25, Zenon

-----------------------------------------------------------------------------
(* The loops, and the values of a text.                                    *)

\* Induction along a loop's rounds.
LEMMA Upwards ==
    ASSUME NEW N \in Nat, NEW G, 0 \in G, \A n \in 1 .. N : n - 1 \in G => n \in G
    PROVE  \A n \in 0 .. N : n \in G
  <1> DEFINE Bad == {n \in 0 .. N : n \notin G}
  <1>1. SUFFICES ASSUME Bad # {}
                 PROVE  FALSE
    OBVIOUS
  <1>2. PICK b \in Bad : \A m \in Bad : b <= m
    <2>1. Bad \in SUBSET Nat
      OBVIOUS
    <2> HIDE DEF Bad
    <2> QED
      BY <1>1, <2>1, LeastExists
  <1>3. b \in 1 .. N /\ b \notin G
    OBVIOUS
  <1>4. b - 1 \in 0 .. N /\ ~ (b <= b - 1)
    BY <1>3
  <1>5. b - 1 \in G
    BY <1>2, <1>4
  <1> QED
    BY <1>3, <1>5

\* f goes through N rounds of a loop, from start, each of which does F.
Runs(f, N, S, start, F) ==
    f \in [0 .. N -> S] /\ f[0] = start /\ \A n \in 1 .. N : f[n] = F[<<n, f[n - 1]>>]

LEMMA LoopExists ==
    ASSUME NEW N \in Nat, NEW S, NEW start \in S, NEW F \in [(1 .. N) \X S -> S]
    PROVE  \E f : Runs(f, N, S, start, F)
  <1> DEFINE Run(b, f) == f \in [0 .. b -> S] /\ f[0] = start /\ \A n \in 1 .. b : f[n] = F[<<n, f[n - 1]>>]
             Bad == {b \in 0 .. N : ~ \E f : Run(b, f)}
  <1> USE DEF Runs
  <1>1. SUFFICES Bad = {}
    <2>1. N \notin Bad
      OBVIOUS
    <2>2. N \in 0 .. N
      OBVIOUS
    <2>3. \E f : Run(N, f)
      BY <2>1, <2>2
    <2> QED
      BY <2>3
  <1>2. SUFFICES ASSUME Bad # {}
                 PROVE  FALSE
    OBVIOUS
  <1>3. PICK b \in Bad : \A m \in Bad : b <= m
    <2>1. Bad \in SUBSET Nat
      OBVIOUS
    <2> HIDE DEF Bad
    <2> QED
      BY <1>2, <2>1, LeastExists
  <1>4. b # 0
    <2>1. Run(0, [k \in 0 .. 0 |-> start])
      OBVIOUS
    <2> HIDE DEF Run
    <2> QED
      BY <2>1
  <1>5. PICK f : Run(b - 1, f)
    <2>1. b - 1 \in 0 .. N /\ ~ (b <= b - 1)
      BY <1>4
    <2> HIDE DEF Run
    <2> QED
      BY <1>3, <2>1
  <1> DEFINE g == [k \in 0 .. b |-> IF k = b THEN F[<<b, f[b - 1]>>] ELSE f[k]]
  <1>6. b \in 1 .. N /\ b - 1 \in 0 .. b - 1
    BY <1>4
  <1>7. F[<<b, f[b - 1]>>] \in S
    BY <1>5, <1>6
  <1>8. g \in [0 .. b -> S] /\ g[0] = start
    BY <1>4, <1>5, <1>6, <1>7
  <1>9. ASSUME NEW n \in 1 .. b
        PROVE  g[n] = F[<<n, g[n - 1]>>]
    <2>1. CASE n = b
      <3>1. b \in 0 .. b /\ b - 1 \in 0 .. b /\ b - 1 # b
        BY <1>6
      <3>2. g[b] = F[<<b, f[b - 1]>>] /\ g[b - 1] = f[b - 1]
        BY <3>1
      <3> QED
        BY <2>1, <3>2
    <2>2. CASE n # b
      <3>1. n \in 1 .. b - 1 /\ n - 1 \in 0 .. b - 1 /\ n - 1 # b /\ n \in 0 .. b
        BY <1>6, <2>2
      <3>2. g[n] = f[n] /\ g[n - 1] = f[n - 1]
        BY <1>6, <2>2, <3>1
      <3> QED
        BY <1>5, <3>1, <3>2
    <2> QED
      BY <2>1, <2>2
  <1>10. Run(b, g)
    BY <1>8, <1>9
  <1>11. ~ \E h : Run(b, h)
    BY <1>3, Zenon
  <1> HIDE DEF Run, g
  <1> QED
    BY <1>10, <1>11

\* The values of a text are some of its fields, and all of them if none is empty.
LEMMA ValuesOf ==
    ASSUME NEW S, NEW fields \in Seq(S), fields # <<>>
    PROVE  /\ Values(fields) \in Seq(S)
           /\ (\A n \in 1 .. Len(fields) : fields[n] # <<>>) => Values(fields) = fields
  <1> DEFINE N == Len(fields)
             Read(n, r) == IF n > 1 /\ fields[n] = <<>> THEN r ELSE Append(r, fields[n])
             F == [p \in (1 .. N) \X Seq(S) |-> Read(p[1], p[2])]
             Is(r) == r = [n \in 0 .. N |-> IF n = 0 THEN <<>> ELSE Read(n, r[n - 1])]
  <1>1. N \in Nat
    OBVIOUS
  <1>2. \A n \in 1 .. N, r \in Seq(S) : Read(n, r) \in Seq(S)
    OBVIOUS
  <1> HIDE DEF Read, N
  <1>3. PICK f : Runs(f, N, Seq(S), <<>>, F)
    <2>1. <<>> \in Seq(S) /\ F \in [(1 .. N) \X Seq(S) -> Seq(S)]
      BY <1>2
    <2> HIDE DEF F
    <2> QED
      BY <1>1, <2>1, LoopExists, Zenon
  <1>4. Is(f)
    <2>1. f \in [0 .. N -> Seq(S)] /\ f[0] = <<>> /\ \A n \in 1 .. N : f[n] = F[<<n, f[n - 1]>>]
      BY <1>3 DEF Runs
    <2>2. \A n \in 1 .. N : f[n] = Read(n, f[n - 1])
      <3> TAKE n \in 1 .. N
      <3>1. f[n - 1] \in Seq(S)
        BY <1>1, <2>1
      <3> QED
        BY <2>1, <3>1
    <2> HIDE DEF F
    <2> QED
      BY <1>1, <2>1, <2>2
  <1>5. PICK read : read = CHOOSE r : Is(r)
    OBVIOUS
  <1>6. Is(read)
    <2> HIDE DEF Is
    <2> QED
      BY <1>4, <1>5
  <1>7. Values(fields) = read[N]
    BY <1>5, Zenon DEF Values, N, Read
  <1>8. read[0] = <<>> /\ \A n \in 1 .. N : read[n] = Read(n, read[n - 1])
    BY <1>1, <1>6
  <1>9. \A n \in 0 .. N : read[n] \in Seq(S)
    <2> DEFINE G == {n \in 0 .. N : read[n] \in Seq(S)}
    <2>1. 0 \in G
      <3>1. 0 \in 0 .. N /\ <<>> \in Seq(S)
        BY <1>1
      <3>2. read[0] \in Seq(S)
        BY <1>8, <3>1, Zenon
      <3> QED
        BY <3>1, <3>2
    <2>2. ASSUME NEW n \in 1 .. N, n - 1 \in G
          PROVE  n \in G
      BY <1>1, <1>2, <1>8, <2>2
    <2> HIDE DEF G
    <2>3. \A n \in 0 .. N : n \in G
      BY <1>1, <2>1, <2>2, Upwards
    <2> QED
      BY <2>3 DEF G
  <1>10. ASSUME \A n \in 1 .. N : fields[n] # <<>>
         PROVE  read[N] = fields
    <2> DEFINE G == {n \in 0 .. N : Len(read[n]) = n /\ \A m \in 1 .. n : read[n][m] = fields[m]}
    <2>1. 0 \in G
      BY <1>1, <1>8
    <2>2. ASSUME NEW n \in 1 .. N, n - 1 \in G
          PROVE  n \in G
      <3>1. read[n] = Append(read[n - 1], fields[n])
        BY <1>8, <1>10 DEF Read
      <3>2. read[n - 1] \in Seq(S) /\ Len(read[n - 1]) = n - 1 /\ \A m \in 1 .. n - 1 : read[n - 1][m] = fields[m]
        BY <1>1, <1>9, <2>2
      <3>3. fields[n] \in S
        BY DEF N
      <3>4. Len(read[n]) = n /\ \A m \in 1 .. n : read[n][m] = fields[m]
        BY <3>1, <3>2, <3>3
      <3> QED
        BY <1>1, <3>4
    <2> HIDE DEF G
    <2>3. \A n \in 0 .. N : n \in G
      BY <1>1, <2>1, <2>2, Upwards
    <2>4. N \in 0 .. N
      BY <1>1
    <2>5. Len(read[N]) = N /\ \A m \in 1 .. N : read[N][m] = fields[m]
      BY <2>3, <2>4 DEF G
    <2>6. read[N] \in Seq(S)
      BY <1>9, <2>4
    <2> QED
      BY <2>5, <2>6, SeqEqual DEF N
  <1>11. read[N] \in Seq(S)
    BY <1>1, <1>9
  <1> QED
    BY <1>7, <1>10, <1>11 DEF N

-----------------------------------------------------------------------------
(* What a table holds.                                                     *)

\* t is the table base was, but for its cells, which show the texts C.
Holds(t, base, C) ==
    /\ Formed(t)
    /\ t.table_x = base.table_x /\ t.table_y = base.table_y /\ t.colwidth = base.colwidth
    /\ Len(t.data) = Len(base.data)
    /\ \A x \in Columns(t), y \in Rows(t), k \in 1 .. t.colwidth :
          t.data[CellAt(t, x, y) + k] = Padded(C[<<x, y>>], k)
    /\ \A a \in 1 .. Len(t.data) :
          (\A x \in Columns(t), y \in Rows(t) : a \notin CellBytes(t, x, y)) => t.data[a] = base.data[a]

\* A value that is accepted is what its cell shows then; nothing else changes.
LEMMA ValueHeld ==
    ASSUME NEW t, NEW base, NEW C, Holds(t, base, C),
           NEW x \in Columns(t), NEW y \in Rows(t), NEW v \in Seq(Nat), Len(v) <= t.colwidth,
           NEW D, D[<<x, y>>] = v,
           \A u \in Columns(t), w \in Rows(t) : (u # x \/ w # y) => D[<<u, w>>] = C[<<u, w>>]
    PROVE  Holds(s_table_valueset(t, x, y, v), base, D)
  <1>1. Formed(t) /\ t \in Tables
    BY DEF Holds, Formed
  <1>2. t.table_x \in Positive /\ t.table_y \in Positive /\ t.colwidth \in Positive /\ t.data \in Seq(Nat)
    BY <1>1 DEF Tables
  <1>3. x \in Nat /\ y \in Nat /\ Accepted(t, x, y, v)
    BY <1>2 DEF Accepted, Columns, Rows, Positive
  <1>4. PICK new : new = s_table_valueset(t, x, y, v)
    OBVIOUS
  <1> DEFINE at == CellAt(t, x, y)
  <1>5. /\ Formed(new) /\ Len(new.data) = Len(t.data)
        /\ new.table_x = t.table_x /\ new.table_y = t.table_y /\ new.colwidth = t.colwidth
        /\ \A a \in 1 .. Len(t.data) :
              new.data[a] = IF a \in CellBytes(t, x, y)
                            THEN IF a - at <= Len(v) THEN v[a - at] ELSE Blank
                            ELSE t.data[a]
    <2>1. ShownIn(new, t, x, y, v)
      BY <1>1, <1>3, <1>4, ValueShown, Zenon
    <2> QED
      BY <1>3, <2>1 DEF ShownIn
  <1>6. /\ Columns(new) = Columns(t) /\ Rows(new) = Rows(t)
        /\ \A u \in Columns(t), w \in Rows(t) : /\ CellAt(new, u, w) = CellAt(t, u, w)
                                                /\ CellBytes(new, u, w) = CellBytes(t, u, w)
    BY <1>5 DEF Columns, Rows, CellAt, CellBytes
  <1>7. \A u \in Columns(t), w \in Rows(t), k \in 1 .. t.colwidth :
           /\ CellAt(t, u, w) \in Nat
           /\ CellAt(t, u, w) + k \in CellBytes(t, u, w)
           /\ CellAt(t, u, w) + k \in 1 .. Len(t.data)
    <2> TAKE u \in Columns(t), w \in Rows(t), k \in 1 .. t.colwidth
    <2>1. /\ CellAt(t, u, w) \in Nat
          /\ CellAt(t, u, w) + t.colwidth <= s_table_size_compute(t.table_x, t.table_y, t.colwidth)
      BY <1>1, CellInside
    <2>2. Len(t.data) = s_table_size_compute(t.table_x, t.table_y, t.colwidth) /\ t.colwidth \in Nat
      BY <1>1, <1>2 DEF Formed, Positive
    <2>3. Len(t.data) \in Nat
      BY <1>2
    <2> QED
      BY <2>1, <2>2, <2>3 DEF CellBytes
  <1>8. ASSUME NEW u \in Columns(t), NEW w \in Rows(t), NEW k \in 1 .. t.colwidth
        PROVE  new.data[CellAt(t, u, w) + k] = Padded(D[<<u, w>>], k)
    <2>1. CASE u = x /\ w = y
      <3>1. PICK a : a = CellAt(t, x, y)
        OBVIOUS
      <3>2. a \in Nat /\ a + k \in CellBytes(t, x, y) /\ a + k \in 1 .. Len(t.data)
        BY <1>7, <2>1, <3>1, Zenon
      <3>3. a + k - a = k
        BY <1>2, <3>2 DEF Positive
      <3>4. new.data[a + k] = IF a + k - a <= Len(v) THEN v[a + k - a] ELSE Blank
        <4>1. \A b \in 1 .. Len(t.data) :
                 new.data[b] = IF b \in CellBytes(t, x, y) THEN IF b - a <= Len(v) THEN v[b - a] ELSE Blank
                               ELSE t.data[b]
          BY <1>5, <3>1, Zenon
        <4> QED
          BY <3>2, <4>1
      <3>5. new.data[a + k] = IF k <= Len(v) THEN v[k] ELSE Blank
        BY <3>3, <3>4
      <3> QED
        BY <2>1, <3>1, <3>5 DEF Padded
    <2>2. CASE u # x \/ w # y
      <3>1. CellAt(t, u, w) + k \in 1 .. Len(t.data) /\ CellAt(t, u, w) + k \in CellBytes(t, u, w)
        BY <1>7
      <3>2. CellAt(t, u, w) + k \notin CellBytes(t, x, y)
        BY <1>1, <2>2, <3>1, CellsApart
      <3>3. t.data[CellAt(t, u, w) + k] = Padded(C[<<u, w>>], k)
        BY DEF Holds
      <3>4. new.data[CellAt(t, u, w) + k] = t.data[CellAt(t, u, w) + k]
        BY <1>5, <3>1, <3>2
      <3>5. D[<<u, w>>] = C[<<u, w>>]
        BY <2>2
      <3> QED
        BY <3>3, <3>4, <3>5
    <2> QED
      BY <2>1, <2>2
  <1>9. ASSUME NEW a \in 1 .. Len(t.data), \A u \in Columns(t), w \in Rows(t) : a \notin CellBytes(t, u, w)
        PROVE  new.data[a] = base.data[a]
    <2>1. t.data[a] = base.data[a]
      BY <1>9 DEF Holds
    <2>2. new.data[a] = t.data[a]
      BY <1>5, <1>9
    <2> QED
      BY <2>1, <2>2
  <1>10. /\ new.table_x = base.table_x /\ new.table_y = base.table_y /\ new.colwidth = base.colwidth
         /\ Len(new.data) = Len(base.data)
    BY <1>5 DEF Holds
  <1>11. Holds(new, base, D)
    <2>1. \A u \in Columns(new), w \in Rows(new), k \in 1 .. new.colwidth :
             new.data[CellAt(new, u, w) + k] = Padded(D[<<u, w>>], k)
      <3> TAKE u \in Columns(new), w \in Rows(new), k \in 1 .. new.colwidth
      <3>1. u \in Columns(t) /\ w \in Rows(t) /\ k \in 1 .. t.colwidth
        BY <1>5, <1>6
      <3>2. CellAt(new, u, w) = CellAt(t, u, w)
        BY <1>6, <3>1
      <3>3. new.data[CellAt(t, u, w) + k] = Padded(D[<<u, w>>], k)
        BY <1>8, <3>1
      <3> QED
        BY <3>2, <3>3, Zenon
    <2>2. \A a \in 1 .. Len(new.data) :
             (\A u \in Columns(new), w \in Rows(new) : a \notin CellBytes(new, u, w))
                => new.data[a] = base.data[a]
      BY <1>5, <1>6, <1>9
    <2> QED
      BY <1>5, <1>10, <2>1, <2>2, Zenon DEF Holds
  <1> QED
    BY <1>4, <1>11

-----------------------------------------------------------------------------
(* s_table_valuesetxs_ex.                                                  *)

\* Which line (column) of the table a cell is in, at which place, and how many places
\* there are.
Across(c, down) == IF down THEN c[1] ELSE c[2]
Along(c, down)  == IF down THEN c[2] ELSE c[1]
Wide(t, down)   == IF down THEN t.table_y ELSE t.table_x
High(t, down)   == IF down THEN t.table_x ELSE t.table_y

CellsOf(t) == Columns(t) \X Rows(t)

\* The texts C with the first k values of v placed from s on.
Filled(C, x_y, s, v, down, k) ==
    [c \in DOMAIN C |-> IF Across(c, down) = x_y /\ Along(c, down) \in s .. s + k - 1
                        THEN v[Along(c, down) - s + 1] ELSE C[c]]

Loops == [t : {t \in Tables : Formed(t)}, s : Nat, going : BOOLEAN]

\* Where the loop is after n rounds: k values have been placed.
Placing(loop, n, k, base, C, x_y, s, v, down) ==
    /\ loop \in Loops
    /\ k \in 0 .. n /\ loop.s = s + k /\ s + k <= Wide(base, down)
    /\ Holds(loop.t, base, Filled(C, x_y, s, v, down, k))
    /\ \A j \in 1 .. k : Len(v[j]) <= base.colwidth
    /\ loop.going => k = n \/ s + k = Wide(base, down)
    /\ ~ loop.going => k < n /\ Len(v[k + 1]) > base.colwidth

LEMMA NextPlaced ==
    ASSUME NEW v \in Seq(Seq(Nat)), \A j \in 1 .. Len(v) : Len(v[j]) <= MAX_COLWIDTH,
           NEW base \in Tables, NEW C, DOMAIN C = CellsOf(base), NEW down \in BOOLEAN,
           NEW s \in Nat, NEW x_y \in Nat, x_y < High(base, down),
           NEW n \in 1 .. Len(v), NEW k, NEW loop, Placing(loop, n - 1, k, base, C, x_y, s, v, down)
    PROVE  \E m : Placing(SetNextValue(loop, x_y, down, v[n]), n, m, base, C, x_y, s, v, down)
  <1> DEFINE t == loop.t
             x == IF down THEN x_y ELSE loop.s
             y == IF down THEN loop.s ELSE x_y
  <1>1. /\ loop \in Loops /\ Formed(t) /\ t \in Tables
        /\ k \in 0 .. n - 1 /\ loop.s = s + k /\ s + k <= Wide(base, down)
        /\ Holds(t, base, Filled(C, x_y, s, v, down, k))
        /\ \A j \in 1 .. k : Len(v[j]) <= base.colwidth
        /\ loop.going => k = n - 1 \/ s + k = Wide(base, down)
        /\ ~ loop.going => k < n - 1 /\ Len(v[k + 1]) > base.colwidth
    BY DEF Placing, Loops
  <1>2. /\ n \in Nat /\ v[n] \in Seq(Nat) /\ Len(v[n]) \in Nat /\ Len(v[n]) <= MAX_COLWIDTH
        /\ base.table_x \in Nat /\ base.table_y \in Nat /\ base.colwidth \in Nat /\ Wide(base, down) \in Nat
        /\ t.table_x = base.table_x /\ t.table_y = base.table_y /\ t.colwidth = base.colwidth
        /\ loop.s \in Nat /\ loop.going \in BOOLEAN
    <2>1. v[n] \in Seq(Nat) /\ Len(v[n]) \in Nat /\ Len(v[n]) <= MAX_COLWIDTH
      OBVIOUS
    <2>2. base.table_x \in Nat /\ base.table_y \in Nat /\ base.colwidth \in Nat
      BY DEF Tables, Positive
    <2>3. Wide(base, down) \in Nat
      BY <2>2 DEF Wide
    <2>4. t.table_x = base.table_x /\ t.table_y = base.table_y /\ t.colwidth = base.colwidth
      BY <1>1 DEF Holds
    <2>5. loop.s \in Nat /\ loop.going \in BOOLEAN
      BY <1>1 DEF Loops
    <2> QED
      BY <2>1, <2>2, <2>3, <2>4, <2>5
  <1>3. /\ Wide(base, down) = IF down THEN loop.t.table_y ELSE loop.t.table_x
        /\ ~ (Len(v[n]) > MAX_COLWIDTH)
    <2>1. MAX_COLWIDTH \in Nat
      BY DEF MAX_COLWIDTH
    <2>2. ~ (Len(v[n]) > MAX_COLWIDTH)
      BY <1>2, <2>1
    <2>3. Wide(base, down) = IF down THEN loop.t.table_y ELSE loop.t.table_x
      BY <1>2 DEF Wide
    <2> QED
      BY <2>2, <2>3
  <1>4. CASE ~ loop.going \/ loop.s >= Wide(base, down)
    <2>1. SetNextValue(loop, x_y, down, v[n]) = loop
      BY <1>3, <1>4 DEF SetNextValue
    <2>2. /\ k \in 0 .. n
          /\ loop.going => k = n \/ s + k = Wide(base, down)
          /\ ~ loop.going => k < n /\ Len(v[k + 1]) > base.colwidth
      <3>1. PICK wide \in Nat : wide = Wide(base, down)
        BY <1>2
      <3>2. /\ k \in 0 .. n - 1 /\ loop.s = s + k /\ s + k <= wide /\ (~ loop.going \/ loop.s >= wide)
            /\ loop.going => k = n - 1 \/ s + k = wide
            /\ ~ loop.going => k < n - 1 /\ Len(v[k + 1]) > base.colwidth
        BY <1>1, <1>4, <3>1, Zenon
      <3>3. /\ k \in 0 .. n
            /\ loop.going => k = n \/ s + k = wide
            /\ ~ loop.going => k < n
        BY <1>2, <3>2
      <3> QED
        BY <3>1, <3>2, <3>3, Zenon
    <2>3. Placing(loop, n, k, base, C, x_y, s, v, down)
      BY <1>1, <2>2, Zenon DEF Placing
    <2> QED
      BY <2>1, <2>3, Zenon
  <1>5. CASE loop.going /\ ~ (loop.s >= Wide(base, down)) /\ Len(v[n]) <= base.colwidth
    <2>1. k = n - 1 /\ s + n <= Wide(base, down)
      <3>1. PICK wide \in Nat : wide = Wide(base, down)
        BY <1>2
      <3>2. loop.going /\ ~ (loop.s >= wide) /\ loop.s = s + k /\ k \in 0 .. n - 1
        BY <1>1, <1>5, <3>1, Zenon
      <3>3. k = n - 1 \/ s + k = wide
        BY <1>1, <3>1, <3>2, Zenon
      <3>4. k = n - 1 /\ s + n <= wide
        <4>1. n \in Nat
          BY <1>2
        <4>2. PICK p : p = loop.s
          OBVIOUS
        <4>3. ~ (p >= wide) /\ p = s + k
          BY <3>2, <4>2, Zenon
        <4>4. k \in 0 .. n - 1
          BY <3>2
        <4> QED
          BY <3>3, <4>1, <4>3, <4>4
      <3> QED
        BY <3>1, <3>4, Zenon
    <2>2. x \in Columns(t) /\ y \in Rows(t) /\ x \in Nat /\ y \in Nat
      <3>1. PICK i \in Nat : i = base.table_x
        BY <1>2
      <3>2. PICK j \in Nat : j = base.table_y
        BY <1>2
      <3>3. PICK p \in Nat : p = loop.s
        BY <1>2
      <3>4. Columns(t) = 0 .. i - 1 /\ Rows(t) = 0 .. j - 1
        BY <1>2, <3>1, <3>2, Zenon DEF Columns, Rows
      <3>5. ~ (p >= Wide(base, down)) /\ x_y < High(base, down)
        BY <1>5, <3>3, Zenon
      <3>6. CASE down
        <4>1. x = x_y /\ y = p /\ ~ (p >= j) /\ x_y < i
          BY <3>1, <3>2, <3>3, <3>5, <3>6, Zenon DEF Wide, High
        <4> HIDE DEF x, y
        <4>2. x \in 0 .. i - 1 /\ y \in 0 .. j - 1 /\ x \in Nat /\ y \in Nat
          BY <4>1
        <4> QED
          BY <3>4, <4>2, Zenon
      <3>7. CASE ~ down
        <4>1. x = p /\ y = x_y /\ ~ (p >= i) /\ x_y < j
          BY <3>1, <3>2, <3>3, <3>5, <3>7, Zenon DEF Wide, High
        <4> HIDE DEF x, y
        <4>2. x \in 0 .. i - 1 /\ y \in 0 .. j - 1 /\ x \in Nat /\ y \in Nat
          BY <4>1
        <4> QED
          BY <3>4, <4>2, Zenon
      <3> QED
        BY <3>6, <3>7
    <2>3. Accepted(t, x, y, v[n])
      <3> HIDE DEF t, x, y
      <3>1. PICK i \in Nat : i = t.table_x
        BY <1>2
      <3>2. PICK j \in Nat : j = t.table_y
        BY <1>2
      <3>3. x \in 0 .. i - 1 /\ y \in 0 .. j - 1
        BY <2>2, <3>1, <3>2, Zenon DEF Columns, Rows
      <3>4. x < i /\ y < j
        BY <3>3
      <3>5. Len(v[n]) <= t.colwidth
        BY <1>2, <1>5
      <3> QED
        BY <3>1, <3>2, <3>4, <3>5, Zenon DEF Accepted
    <2>4. PICK new : new = s_table_valueset(t, x, y, v[n])
      OBVIOUS
    <2>5. Holds(new, base, Filled(C, x_y, s, v, down, n))
      <3> DEFINE D == Filled(C, x_y, s, v, down, n)
                 E == Filled(C, x_y, s, v, down, k)
      <3>1. /\ \A u \in Columns(t), w \in Rows(t) : <<u, w>> \in DOMAIN C
            /\ DOMAIN D = DOMAIN C /\ DOMAIN E = DOMAIN C
        BY <1>2 DEF CellsOf, Columns, Rows, Filled
      <3>2. D[<<x, y>>] = v[n]
        <4>1. Across(<<x, y>>, down) = x_y /\ Along(<<x, y>>, down) = loop.s
          <5>1. CASE down
            <6>1. x = x_y /\ y = loop.s
              BY <5>1
            <6> HIDE DEF x, y
            <6> QED
              BY <5>1, <6>1 DEF Across, Along
          <5>2. CASE ~ down
            <6>1. x = loop.s /\ y = x_y
              BY <5>2
            <6> HIDE DEF x, y
            <6> QED
              BY <5>2, <6>1 DEF Across, Along
          <5> QED
            BY <5>1, <5>2
        <4>2. loop.s \in s .. s + n - 1 /\ loop.s - s + 1 = n
          BY <1>1, <1>2, <2>1
        <4>3. <<x, y>> \in DOMAIN C
          BY <2>2, <3>1
        <4> HIDE DEF x, y
        <4> QED
          BY <4>1, <4>2, <4>3 DEF Filled
      <3>3. ASSUME NEW u \in Columns(t), NEW w \in Rows(t), u # x \/ w # y
            PROVE  D[<<u, w>>] = E[<<u, w>>]
        <4>1. PICK a : a = Across(<<u, w>>, down)
          OBVIOUS
        <4>2. PICK l : l = Along(<<u, w>>, down)
          OBVIOUS
        <4>3. l \in Nat /\ ~ (a = x_y /\ l = loop.s)
          <5>1. u \in Nat /\ w \in Nat
            BY <1>2 DEF Columns, Rows
          <5>2. QED
            <6>1. PICK p : p = loop.s
              OBVIOUS
            <6>2. CASE down
              <7>1. x = x_y /\ y = p /\ a = u /\ l = w
                BY <4>1, <4>2, <6>1, <6>2 DEF Across, Along
              <7> HIDE DEF x, y
              <7> QED
                BY <3>3, <5>1, <6>1, <7>1, Zenon
            <6>3. CASE ~ down
              <7>1. x = p /\ y = x_y /\ a = w /\ l = u
                BY <4>1, <4>2, <6>1, <6>3 DEF Across, Along
              <7> HIDE DEF x, y
              <7> QED
                BY <3>3, <5>1, <6>1, <7>1, Zenon
            <6> QED
              BY <6>2, <6>3
        <4>4. (a = x_y /\ l \in s .. s + n - 1) <=> (a = x_y /\ l \in s .. s + k - 1)
          <5>1. PICK p : p = loop.s
            OBVIOUS
          <5>2. p = s + k /\ k = n - 1 /\ n \in Nat /\ ~ (a = x_y /\ l = p)
            BY <1>1, <1>2, <2>1, <4>3, <5>1, Zenon
          <5> QED
            BY <4>3, <5>2
        <4>5. D[<<u, w>>] = IF a = x_y /\ l \in s .. s + n - 1 THEN v[l - s + 1] ELSE C[<<u, w>>]
          BY <3>1, <4>1, <4>2 DEF Filled
        <4>6. E[<<u, w>>] = IF a = x_y /\ l \in s .. s + k - 1 THEN v[l - s + 1] ELSE C[<<u, w>>]
          BY <3>1, <4>1, <4>2 DEF Filled
        <4> QED
          BY <4>4, <4>5, <4>6
      <3>4. Len(v[n]) <= t.colwidth
        BY <1>2, <1>5
      <3> HIDE DEF D, E, x, y
      <3>5. Holds(t, base, E)
        BY <1>1 DEF E
      <3>6. Holds(s_table_valueset(t, x, y, v[n]), base, D)
        BY <1>2, <2>2, <3>2, <3>3, <3>4, <3>5, ValueHeld
      <3> QED
        BY <2>4, <3>6 DEF D
    <2>6. SetNextValue(loop, x_y, down, v[n]) = [loop EXCEPT !.t = new, !.s = @ + 1]
      BY <1>3, <1>5, <2>3, <2>4 DEF SetNextValue
    <2>7. PICK next : next = [loop EXCEPT !.t = new, !.s = @ + 1]
      OBVIOUS
    <2>8. Formed(new) /\ new \in Tables
      BY <2>5 DEF Holds, Formed
    <2>9. next \in Loops /\ next.t = new /\ next.s = s + n /\ next.going = TRUE
      <3>1. loop.s + 1 = s + n /\ loop.s + 1 \in Nat
        BY <1>1, <1>2, <2>1
      <3> QED
        BY <1>1, <1>5, <2>7, <2>8, <3>1 DEF Loops
    <2>10. \A j \in 1 .. n : Len(v[j]) <= base.colwidth
      BY <1>1, <1>2, <1>5, <2>1
    <2>11. Placing(next, n, n, base, C, x_y, s, v, down)
      <3>1. n \in 0 .. n
        BY <1>2
      <3>2. next.t = new /\ next.s = s + n /\ next.going /\ next \in Loops
        BY <2>9
      <3>3. /\ next.going => n = n \/ s + n = Wide(base, down)
            /\ ~ next.going => n < n /\ Len(v[n + 1]) > base.colwidth
        BY <3>2, Zenon
      <3>4. s + n <= Wide(base, down) /\ Holds(next.t, base, Filled(C, x_y, s, v, down, n))
        BY <2>1, <2>5, <3>2, Zenon
      <3> QED
        BY <2>10, <3>1, <3>2, <3>3, <3>4, Zenon DEF Placing
    <2> QED
      BY <2>6, <2>7, <2>11, Zenon
  <1>6. CASE loop.going /\ ~ (loop.s >= Wide(base, down)) /\ ~ (Len(v[n]) <= base.colwidth)
    <2>1. k = n - 1
      BY <1>1, <1>2, <1>6
    <2>2. ~ Accepted(t, x, y, v[n])
      BY <1>2, <1>6 DEF Accepted
    <2>3. SetNextValue(loop, x_y, down, v[n]) = [loop EXCEPT !.going = FALSE]
      BY <1>3, <1>6, <2>2 DEF SetNextValue
    <2>4. PICK next : next = [loop EXCEPT !.going = FALSE]
      OBVIOUS
    <2>5. next \in Loops /\ next.t = t /\ next.s = loop.s /\ next.going = FALSE
      BY <1>1, <2>4 DEF Loops
    <2>6. Placing(next, n, k, base, C, x_y, s, v, down)
      <3>1. k \in 0 .. n /\ k < n /\ k + 1 = n
        BY <1>1, <1>2, <2>1
      <3>2. Len(v[k + 1]) > base.colwidth
        <4>1. Len(v[n]) > base.colwidth
          BY <1>2, <1>6, SMTT(30)
        <4> QED
          BY <3>1, <4>1, Zenon
      <3>3. next \in Loops /\ next.t = t /\ next.s = loop.s /\ ~ next.going
        BY <2>5
      <3> HIDE DEF t
      <3> QED
        BY <1>1, <3>1, <3>2, <3>3, Zenon DEF Placing
    <2> QED
      BY <2>3, <2>4, <2>6, Zenon
  <1> QED
    BY <1>1, <1>2, <1>4, <1>5, <1>6

\* The texts C with the values of v placed from s on, up to one that is too wide.
Placed(C, x_y, s, v, down, colwidth) ==
    [c \in DOMAIN C |->
        LET j == Along(c, down) - s + 1
        IN  IF Across(c, down) = x_y /\ j \in 1 .. Len(v) /\ \A i \in 1 .. j : Len(v[i]) <= colwidth
            THEN v[j] ELSE C[c]]

LEMMA NextLoop ==
    ASSUME NEW loop \in Loops, NEW x_y \in Nat, NEW down \in BOOLEAN, NEW value \in Seq(Nat),
           Len(value) <= MAX_COLWIDTH
    PROVE  SetNextValue(loop, x_y, down, value) \in Loops
  <1> DEFINE x == IF down THEN x_y ELSE loop.s
             y == IF down THEN loop.s ELSE x_y
  <1>1. loop.s \in Nat /\ Formed(loop.t) /\ loop.t \in Tables /\ loop.going \in BOOLEAN
    BY DEF Loops
  <1>2. x \in Nat /\ y \in Nat
    BY <1>1
  <1>3. PICK new : new = s_table_valueset(loop.t, x, y, value)
    OBVIOUS
  <1>4. Formed(new) /\ new \in Tables
    <2>1. ShownIn(new, loop.t, x, y, value)
      <3> HIDE DEF x, y
      <3> QED
        BY <1>1, <1>2, <1>3, ValueShown, Zenon
    <2> QED
      BY <2>1 DEF ShownIn, Formed
  <1>5. [loop EXCEPT !.going = FALSE] \in Loops
    BY DEF Loops
  <1>6. [loop EXCEPT !.t = new, !.s = @ + 1] \in Loops
    <2>1. new \in {t \in Tables : Formed(t)} /\ loop.s + 1 \in Nat
      BY <1>1, <1>4
    <2> HIDE DEF x, y
    <2> QED
      BY <2>1 DEF Loops
  <1>7. ~ (Len(value) > MAX_COLWIDTH)
    BY DEF MAX_COLWIDTH
  <1>8. PICK next : next = SetNextValue(loop, x_y, down, value)
    OBVIOUS
  <1>9. \/ next = loop \/ next = [loop EXCEPT !.going = FALSE]
        \/ next = [loop EXCEPT !.t = new, !.s = @ + 1]
    <2>1. CASE ~ loop.going \/ loop.s >= (IF down THEN loop.t.table_y ELSE loop.t.table_x)
      BY <1>8, <2>1, Zenon DEF SetNextValue
    <2>2. CASE ~ (~ loop.going \/ loop.s >= (IF down THEN loop.t.table_y ELSE loop.t.table_x))
      <3>1. next = IF Accepted(loop.t, x, y, value) THEN [loop EXCEPT !.t = new, !.s = @ + 1]
                   ELSE [loop EXCEPT !.going = FALSE]
        BY <1>3, <1>7, <1>8, <2>2, Zenon DEF SetNextValue
      <3> QED
        BY <3>1
    <2> QED
      BY <2>1, <2>2
  <1>10. next \in Loops
    BY <1>5, <1>6, <1>9, Zenon
  <1> QED
    BY <1>8, <1>10

\* After the last round what has been placed is all of v, up to the first value that is too
\* wide or the end of the line.
LEMMA AllPlaced ==
    ASSUME NEW v \in Seq(Seq(Nat)), NEW base \in Tables, NEW C, DOMAIN C = CellsOf(base),
           NEW down \in BOOLEAN, NEW s \in Nat, NEW x_y \in Nat,
           NEW k, NEW loop, Placing(loop, Len(v), k, base, C, x_y, s, v, down)
    PROVE  Holds(loop.t, base, Placed(C, x_y, s, v, down, base.colwidth))
  <1>1. PICK N : N = Len(v)
    OBVIOUS
  <1>2. PICK wide : wide = Wide(base, down)
    OBVIOUS
  <1>3. /\ k \in 0 .. N /\ s + k <= wide /\ N \in Nat
        /\ \A j \in 1 .. k : Len(v[j]) <= base.colwidth
        /\ k = N \/ s + k = wide \/ (k < N /\ Len(v[k + 1]) > base.colwidth)
        /\ Holds(loop.t, base, Filled(C, x_y, s, v, down, k))
    <2>1. /\ k \in 0 .. N /\ s + k <= wide
          /\ \A j \in 1 .. k : Len(v[j]) <= base.colwidth
          /\ k = N \/ s + k = wide \/ (k < N /\ Len(v[k + 1]) > base.colwidth)
          /\ Holds(loop.t, base, Filled(C, x_y, s, v, down, k))
      BY <1>1, <1>2, Zenon DEF Placing
    <2> QED
      BY <1>1, <2>1
  <1>4. wide \in Nat /\ base.colwidth \in Nat
    BY <1>2 DEF Tables, Positive, Wide
  <1>5. \A j \in 1 .. N : Len(v[j]) \in Nat
    BY <1>1
  <1>6. ASSUME NEW c \in CellsOf(base)
        PROVE  Filled(C, x_y, s, v, down, k)[c] = Placed(C, x_y, s, v, down, base.colwidth)[c]
    <2>1. PICK a : a = Across(c, down)
      OBVIOUS
    <2>2. PICK l : l = Along(c, down)
      OBVIOUS
    <2>3. l \in Nat /\ l < wide
      <3>1. /\ base.table_x \in Nat /\ base.table_y \in Nat
            /\ c[1] \in 0 .. base.table_x - 1 /\ c[2] \in 0 .. base.table_y - 1
        BY DEF Tables, Positive, CellsOf, Columns, Rows
      <3>2. CASE down
        BY <1>2, <2>2, <3>1, <3>2 DEF Along, Wide
      <3>3. CASE ~ down
        BY <1>2, <2>2, <3>1, <3>3 DEF Along, Wide
      <3> QED
        BY <3>2, <3>3
    <2>4. (l \in s .. s + k - 1) <=>
             (l - s + 1 \in 1 .. N /\ \A i \in 1 .. l - s + 1 : Len(v[i]) <= base.colwidth)
      <3>1. ASSUME l \in s .. s + k - 1
            PROVE  l - s + 1 \in 1 .. N /\ \A i \in 1 .. l - s + 1 : Len(v[i]) <= base.colwidth
        BY <1>3, <1>4, <2>3, <3>1
      <3>2. ASSUME l - s + 1 \in 1 .. N, \A i \in 1 .. l - s + 1 : Len(v[i]) <= base.colwidth,
                   ~ (l \in s .. s + k - 1)
            PROVE  FALSE
        <4>1. l - s + 1 > k /\ k \in Nat
          BY <1>3, <2>3, <3>2
        <4>2. k < N /\ s + k # wide
          BY <1>3, <1>4, <2>3, <3>2, <4>1
        <4>3. Len(v[k + 1]) > base.colwidth
          BY <1>3, <4>2
        <4>4. k + 1 \in 1 .. l - s + 1 /\ k + 1 \in 1 .. N
          BY <1>3, <2>3, <4>1, <4>2
        <4> QED
          BY <1>4, <1>5, <3>2, <4>3, <4>4
      <3> QED
        BY <3>1, <3>2
    <2>5. Filled(C, x_y, s, v, down, k)[c] = IF a = x_y /\ l \in s .. s + k - 1 THEN v[l - s + 1] ELSE C[c]
      BY <2>1, <2>2 DEF Filled
    <2>6. Placed(C, x_y, s, v, down, base.colwidth)[c] =
             IF a = x_y /\ l - s + 1 \in 1 .. N /\ \A i \in 1 .. l - s + 1 : Len(v[i]) <= base.colwidth
             THEN v[l - s + 1] ELSE C[c]
      BY <1>1, <2>1, <2>2 DEF Placed
    <2> QED
      BY <2>4, <2>5, <2>6
  <1>7. PICK D : D = Filled(C, x_y, s, v, down, k)
    OBVIOUS
  <1>8. PICK E : E = Placed(C, x_y, s, v, down, base.colwidth)
    OBVIOUS
  <1>9. D = E
    <2>1. D = [c \in CellsOf(base) |-> D[c]]
      BY <1>7 DEF Filled
    <2>2. E = [c \in CellsOf(base) |-> E[c]]
      BY <1>8 DEF Placed
    <2>3. \A c \in CellsOf(base) : D[c] = E[c]
      BY <1>6, <1>7, <1>8, Zenon
    <2> QED
      BY <2>1, <2>2, <2>3
  <1> QED
    BY <1>3, <1>7, <1>8, <1>9, Zenon

\* The values of a text stand in the places of the line (column) from s on, up to the first
\* that is too wide; every other byte of the table is what it was.
THEOREM ValuesHeld ==
    ASSUME NEW base \in Tables, NEW C \in [CellsOf(base) -> Seq(Nat)],
           NEW table, Holds(table, base, C),
           NEW down \in BOOLEAN, NEW s \in Nat, s <= Wide(base, down),
           NEW x_y \in Nat, x_y < High(base, down),
           NEW fields, Values(fields) \in Seq(Seq(Nat)),
           \A j \in 1 .. Len(Values(fields)) : Len(Values(fields)[j]) <= MAX_COLWIDTH
    PROVE  Holds(s_table_valuesetxs_ex(table, x_y, s, fields, down), base,
                 Placed(C, x_y, s, Values(fields), down, base.colwidth))
  <1> DEFINE v == Values(fields)
             N == Len(v)
             start == [t |-> table, s |-> s, going |-> TRUE]
             F == [p \in (1 .. N) \X Loops |-> SetNextValue(p[2], x_y, down, v[p[1]])]
             Is(r) == r = [n \in 0 .. N |-> IF n = 0 THEN start ELSE SetNextValue(r[n - 1], x_y, down, v[n])]
  <1>1. v \in Seq(Seq(Nat)) /\ N \in Nat /\ \A n \in 1 .. N : v[n] \in Seq(Nat) /\ Len(v[n]) <= MAX_COLWIDTH
    OBVIOUS
  <1>2. start \in Loops /\ start.t = table /\ start.s = s /\ start.going = TRUE
    BY DEF Loops, Holds, Formed
  <1>3. \A n \in 1 .. N, l \in Loops : SetNextValue(l, x_y, down, v[n]) \in Loops
    <2> HIDE DEF v, N
    <2> QED
      BY <1>1, NextLoop
  <1>4. PICK f : Runs(f, N, Loops, start, F)
    <2>1. F \in [(1 .. N) \X Loops -> Loops]
      <3> HIDE DEF v, N
      <3> QED
        BY <1>3
    <2> HIDE DEF F, start, v, N
    <2> QED
      BY <1>1, <1>2, <2>1, LoopExists, Zenon
  <1>5. Is(f)
    <2> HIDE DEF start, v, N
    <2>1. f \in [0 .. N -> Loops] /\ f[0] = start /\ \A n \in 1 .. N : f[n] = F[<<n, f[n - 1]>>]
      BY <1>4 DEF Runs
    <2>2. \A n \in 1 .. N : f[n] = SetNextValue(f[n - 1], x_y, down, v[n])
      <3> TAKE n \in 1 .. N
      <3>1. f[n - 1] \in Loops
        BY <1>1, <2>1
      <3> QED
        BY <2>1, <3>1
    <2> HIDE DEF F
    <2> QED
      BY <1>1, <2>1, <2>2
  <1>6. PICK loop : loop = CHOOSE r : Is(r)
    OBVIOUS
  <1>7. Is(loop)
    <2> HIDE DEF Is
    <2> QED
      BY <1>5, <1>6
  <1>8. s_table_valuesetxs_ex(table, x_y, s, fields, down) = loop[N].t
    BY <1>6, Zenon DEF s_table_valuesetxs_ex
  <1>9. loop[0] = start /\ \A n \in 1 .. N : loop[n] = SetNextValue(loop[n - 1], x_y, down, v[n])
    <2> HIDE DEF start, v, N
    <2> QED
      BY <1>1, <1>7
  <1> DEFINE G == {n \in 0 .. N : \E k : Placing(loop[n], n, k, base, C, x_y, s, v, down)}
  <1> HIDE DEF v, N, start, F, Is
  <1>10. 0 \in G
    <2>1. Filled(C, x_y, s, v, down, 0) = C
      <3>1. C = [c \in DOMAIN C |-> C[c]]
        OBVIOUS
      <3>2. \A l : ~ (l \in s .. s + 0 - 1)
        OBVIOUS
      <3>3. Filled(C, x_y, s, v, down, 0) = [c \in DOMAIN C |-> C[c]]
        BY <3>2 DEF Filled
      <3> QED
        BY <3>1, <3>3
    <2>2. Placing(start, 0, 0, base, C, x_y, s, v, down)
      <3>1. 0 \in 0 .. 0 /\ s + 0 = s /\ \A j \in 1 .. 0 : Len(v[j]) <= base.colwidth
        OBVIOUS
      <3> QED
        BY <1>2, <2>1, <3>1 DEF Placing
    <2>3. 0 \in 0 .. N
      BY <1>1
    <2> QED
      BY <1>9, <2>2, <2>3, Zenon
  <1>11. ASSUME NEW n \in 1 .. N, n - 1 \in G
         PROVE  n \in G
    <2>1. PICK k : Placing(loop[n - 1], n - 1, k, base, C, x_y, s, v, down)
      BY <1>11
    <2>2. PICK m : Placing(SetNextValue(loop[n - 1], x_y, down, v[n]), n, m, base, C, x_y, s, v, down)
      <3>1. n \in 1 .. Len(v) /\ \A j \in 1 .. Len(v) : Len(v[j]) <= MAX_COLWIDTH
        BY <1>1 DEF N
      <3>2. v \in Seq(Seq(Nat))
        BY <1>1
      <3> QED
        BY <2>1, <3>1, <3>2, NextPlaced, Zenon
    <2>3. loop[n] = SetNextValue(loop[n - 1], x_y, down, v[n]) /\ n \in 0 .. N
      BY <1>1, <1>9
    <2> QED
      BY <2>2, <2>3, Zenon
  <1>12. N \in G
    <2> HIDE DEF G
    <2>1. \A n \in 0 .. N : n \in G
      BY <1>1, <1>10, <1>11, Upwards
    <2> QED
      BY <1>1, <2>1
  <1>13. PICK k : Placing(loop[N], Len(v), k, base, C, x_y, s, v, down)
    BY <1>12 DEF N
  <1>14. Holds(loop[N].t, base, Placed(C, x_y, s, v, down, base.colwidth))
    BY <1>1, <1>13, AllPlaced, Zenon
  <1> QED
    BY <1>8, <1>14, Zenon DEF v

-----------------------------------------------------------------------------
(* The table of the console: six columns of 25 bytes, so lines of 159.     *)

LineOf == 159

\* The table before anything stands in it.
Base == s_table_tableinit(6, 2 + nChNum, maxWidth, TableName)

LEMMA LineAndColumn ==
    ASSUME NEW line \in Nat, NEW col \in 0 .. LineOf - 1, NEW a, a = line * LineOf + col + 1
    PROVE  a \in Nat /\ (a - 1) \div LineOf = line /\ (a - 1) % LineOf = col
  BY DEF LineOf

LEMMA ColumnOfCell ==
    ASSUME NEW x \in 0 .. 6, NEW k \in 0 .. maxWidth
    PROVE  (26 * x + k) % 26 = k
  BY DEF maxWidth

\* A new table of this size: its sizes and what it consists of.
LEMMA BaseMade ==
    /\ Formed(Base) /\ Base.table_x = 6 /\ Base.table_y = 2 + nChNum /\ Base.colwidth = 25
    /\ Len(Base.data) = LineOf + LineOf * (2 * nChNum + 7) + 1
    /\ \A a \in 1 .. Len(Base.data) :
          Base.data[a] = IF a \in 233 .. 245 THEN TableName[a - 232]
                         ELSE IF a \in 162 .. 315 THEN Blank
                         ELSE Ruled(6, 2 + nChNum, 25, LineBreak)[a]
  <1>1. 6 \in Positive /\ 2 + nChNum \in Positive /\ 25 \in Positive /\ nChNum \in Nat
    BY LengthsAssumption DEF Positive
  <1>2. TableName \in Seq(Nat) /\ Len(TableName) = 13
    BY DEF TableName
  <1>3. rel_line_num(6, 25) = 159
    BY DEF rel_line_num
  <1>4. NameFits(TableName, 6, 25) /\ NameAt(6, 25, TableName) = 232
    <2>1. 157 \div 2 = 78 /\ 13 \div 2 = 6
      OBVIOUS
    <2> QED
      BY <1>2, <1>3, <2>1 DEF NameFits, NameAt, MAX_TABLE_NAME
  <1>5. PICK t : t = s_table_tableinit(6, 2 + nChNum, 25, TableName)
    OBVIOUS
  <1>6. /\ Formed(t) /\ t.table_x = 6 /\ t.table_y = 2 + nChNum /\ t.colwidth = 25
        /\ \A a \in 1 .. Len(t.data) :
              t.data[a] = IF a \in 232 + 1 .. 232 + 13 THEN TableName[a - 232]
                          ELSE IF a \in 159 + 3 .. 2 * 159 - 3 THEN Blank
                          ELSE Ruled(6, 2 + nChNum, 25, LineBreak)[a]
    <2>1. table_type(TableName) = 0 /\ LineBreakOf(0) = LineBreak
      BY <1>2 DEF table_type, MAX_TABLE_NAME, LineBreakOf, LineBreak
    <2>2. MadeWith(t, 6, 2 + nChNum, 25, TableName)
      <3>1. Len(TableName) # MAX_TABLE_NAME + 1
        BY <1>2 DEF MAX_TABLE_NAME
      <3>2. PICK y \in Positive : y = 2 + nChNum
        BY <1>1
      <3>3. /\ t.bad <=> (Len(TableName) = MAX_TABLE_NAME + 1
                           /\ TableName[MAX_TABLE_NAME + 1] \notin 0 .. 1)
            /\ ~t.bad => MadeWith(t, 6, y, 25, TableName)
        <4>1. t = s_table_tableinit(6, y, 25, TableName) /\ NameFits(TableName, 6, 25)
          BY <1>4, <1>5, <3>2
        <4>2. TableName \in Seq(Nat) /\ 6 \in Positive /\ 25 \in Positive
          BY <1>1, <1>2
        <4>3. PICK n \in Seq(Nat), x \in Positive, w \in Positive : n = TableName /\ x = 6 /\ w = 25
          BY <4>2
        <4>4. t = s_table_tableinit(x, y, w, n) /\ NameFits(n, x, w)
          BY <4>1, <4>3
        <4>5. /\ t.bad <=> (Len(n) = MAX_TABLE_NAME + 1 /\ n[MAX_TABLE_NAME + 1] \notin 0 .. 1)
              /\ ~t.bad => MadeWith(t, x, y, w, n)
          BY <4>4, TableMade, Zenon
        <4> QED
          BY <4>3, <4>5
      <3> QED
        BY <3>1, <3>2, <3>3
    <2>7. Ruled(6, 2 + nChNum, 25, LineBreakOf(table_type(TableName))) = Ruled(6, 2 + nChNum, 25, LineBreak)
      BY <2>1
    <2>3. PICK f : f = NameAt(6, 25, TableName)
      OBVIOUS
    <2>4. PICK n : n = Len(TableName)
      OBVIOUS
    <2>5. f = 232 /\ n = 13
      BY <1>2, <1>4, <2>3, <2>4
    <2>8. PICK ruled : ruled = Ruled(6, 2 + nChNum, 25, LineBreakOf(table_type(TableName)))
      OBVIOUS
    <2>9. PICK L : L = rel_line_num(6, 25)
      OBVIOUS
    <2>6. /\ Formed(t) /\ t.table_x = 6 /\ t.table_y = 2 + nChNum /\ t.colwidth = 25
          /\ \A a \in 1 .. Len(t.data) :
                t.data[a] = IF a \in f + 1 .. f + n THEN TableName[a - f]
                            ELSE IF a \in L + 3 .. 2 * L - 3 THEN Blank
                            ELSE ruled[a]
      BY <2>2, <2>3, <2>4, <2>8, <2>9, Zenon DEF MadeWith
    <2>10. L = 159 /\ ruled = Ruled(6, 2 + nChNum, 25, LineBreak)
      BY <1>3, <2>7, <2>8, <2>9
    <2> QED
      BY <2>5, <2>6, <2>10
  <1>7. Len(t.data) = LineOf + LineOf * (2 * nChNum + 7) + 1
    BY <1>1, <1>3, <1>6 DEF Formed, s_table_size_compute, Lines, LineOf
  <1>8. Base = t
    BY <1>5 DEF Base, maxWidth
  <1> QED
    BY <1>6, <1>7, <1>8

\* What stands at a place of the table before any cell is filled.
RuledAt(line, col, byte) ==
    /\ line = 2 * nChNum + 7 => byte = 0
    /\ line < 2 * nChNum + 7 =>
         /\ col = 157 => byte = LineBreak[1]
         /\ col = 158 => byte = LineBreak[2]
         /\ col < 157 /\ line % 2 = 0 => byte = COLUMN_SEPARATOR
         /\ col < 157 /\ line = 1 => (byte = LINE_SEPARATOR <=> col = 0 \/ col = 156)
         /\ col < 157 /\ line % 2 # 0 /\ line # 1 =>
               byte = IF col % 26 = 0 THEN LINE_SEPARATOR ELSE Blank

LEMMA BaseRuled ==
    ASSUME NEW line \in 0 .. 2 * nChNum + 7, NEW col \in 0 .. LineOf - 1, line = 2 * nChNum + 7 => col = 0
    PROVE  /\ line * LineOf + col + 1 \in 1 .. Len(Base.data)
           /\ RuledAt(line, col, Base.data[line * LineOf + col + 1])
  <1>1. nChNum \in Nat
    BY LengthsAssumption
  <1>2. PICK a : a = line * LineOf + col + 1
    OBVIOUS
  <1>3. a \in 1 .. Len(Base.data)
    BY <1>1, <1>2, BaseMade DEF LineOf
  <1>4. (a - 1) \div 159 = line /\ (a - 1) % 159 = col
    BY <1>1, <1>2, LineAndColumn DEF LineOf
  <1>5. PICK byte : byte = Base.data[a]
    OBVIOUS
  <1>6. PICK ruled : ruled = Ruled(6, 2 + nChNum, 25, LineBreak)[a]
    OBVIOUS
  <1>7. byte = IF a \in 233 .. 245 THEN TableName[a - 232]
               ELSE IF a \in 162 .. 315 THEN Blank ELSE ruled
    BY <1>3, <1>5, <1>6, BaseMade
  <1>8. ruled = IF line >= 2 * nChNum + 7 THEN 0
                ELSE IF col >= 157 THEN LineBreak[col - 159 + 3]
                ELSE IF line % 2 = 0 THEN COLUMN_SEPARATOR
                ELSE IF col % 26 = 0 THEN LINE_SEPARATOR
                ELSE Blank
    <2>1. rel_line_num(6, 25) = 159 /\ Lines(2 + nChNum) = 2 * nChNum + 7
      BY <1>1 DEF rel_line_num, Lines
    <2>2. s_table_size_compute(6, 2 + nChNum, 25) = Len(Base.data)
      BY <1>1, <2>1, BaseMade DEF s_table_size_compute, LineOf
    <2>3. a \in 1 .. s_table_size_compute(6, 2 + nChNum, 25)
      BY <1>3, <2>2
    <2>4. ruled = IF (a - 1) \div 159 >= 2 * nChNum + 7 THEN 0
                  ELSE IF (a - 1) % 159 >= 159 - 2 THEN LineBreak[((a - 1) % 159) - 159 + 3]
                  ELSE IF ((a - 1) \div 159) % 2 = 0 THEN COLUMN_SEPARATOR
                  ELSE IF ((a - 1) % 159) % (25 + 1) = 0 THEN LINE_SEPARATOR
                  ELSE Blank
      BY <1>6, <2>1, <2>3 DEF Ruled
    <2> QED
      BY <1>4, <2>4
  <1>9. RuledAt(line, col, byte)
    <2>1. CASE line = 2 * nChNum + 7
      <3>1. a > 315
        BY <1>1, <1>2, <2>1 DEF LineOf
      <3>2. byte = 0
        BY <1>1, <1>7, <1>8, <2>1, <3>1
      <3> QED
        BY <1>1, <2>1, <3>2 DEF RuledAt
    <2>2. CASE line < 2 * nChNum + 7 /\ line # 1
      <3>1. a < 160 \/ a > 315
        BY <1>1, <1>2, <2>2 DEF LineOf
      <3>2. byte = ruled
        BY <1>3, <1>7, <3>1
      <3> QED
        BY <1>1, <1>8, <2>2, <3>2 DEF RuledAt, LineOf
    <2>3. CASE line = 1 /\ line < 2 * nChNum + 7
      <3>1. a = 160 + col
        BY <1>2, <2>3 DEF LineOf
      <3>2. line % 2 # 0
        BY <2>3
      <3>3. \A i \in 1 .. 13 : TableName[i] # LINE_SEPARATOR
        BY DEF TableName, LINE_SEPARATOR
      <3>4. Blank # LINE_SEPARATOR
        BY DEF Blank, LINE_SEPARATOR
      <3>5. CASE col \in 2 .. 155
        <4>1. byte # LINE_SEPARATOR
          BY <1>7, <3>1, <3>3, <3>4, <3>5
        <4> QED
          BY <1>1, <2>3, <3>2, <3>5, <4>1 DEF RuledAt
      <3>6. CASE col \in {0, 1, 156}
        <4>1. byte = ruled
          BY <1>7, <3>1, <3>6
        <4>2. 0 % 26 = 0 /\ 1 % 26 = 1 /\ 156 % 26 = 0
          OBVIOUS
        <4>3. byte = LINE_SEPARATOR <=> col = 0 \/ col = 156
          BY <1>1, <1>8, <2>3, <3>2, <3>4, <3>6, <4>1, <4>2
        <4> QED
          BY <1>1, <2>3, <3>2, <3>6, <4>3 DEF RuledAt
      <3>7. CASE col \in {157, 158}
        <4>1. byte = ruled
          BY <1>7, <3>1, <3>7
        <4> QED
          BY <1>1, <1>8, <2>3, <3>2, <3>7, <4>1 DEF RuledAt
      <3> QED
        BY <3>5, <3>6, <3>7 DEF LineOf
    <2> QED
      BY <1>1, <2>1, <2>2, <2>3
  <1> QED
    BY <1>2, <1>3, <1>5, <1>9

\* Byte k of cell (x, y) in its line.
LEMMA CellPlace ==
    ASSUME NEW t, t.table_x = 6, t.colwidth = 25, NEW x \in 0 .. 5, NEW y \in Nat, NEW k \in 1 .. 25
    PROVE  CellAt(t, x, y) + k = (2 * y + 3) * LineOf + (26 * x + k) + 1
  <1>1. rel_line_num(6, 25) = 159
    BY DEF rel_line_num
  <1>2. CellAt(t, x, y) = (2 * y + 3) * 159 + x * 26 + 1
    BY <1>1 DEF CellAt
  <1> QED
    BY <1>2 DEF LineOf

\* In which lines and columns a byte of a cell is.
LEMMA CellPlaces ==
    ASSUME NEW t, t.table_x = 6, t.colwidth = 25, NEW x \in 0 .. 5, NEW y \in Nat,
           NEW line \in Nat, NEW col \in 0 .. LineOf - 1, line * LineOf + col + 1 \in CellBytes(t, x, y)
    PROVE  line = 2 * y + 3 /\ col \in 26 * x + 1 .. 26 * x + 25 /\ col % 26 # 0
  <1>1. rel_line_num(6, 25) = 159
    BY DEF rel_line_num
  <1>2. CellAt(t, x, y) = (2 * y + 3) * 159 + x * 26 + 1
    BY <1>1 DEF CellAt
  <1>3. line * 159 + col + 1 \in (2 * y + 3) * 159 + x * 26 + 2 .. (2 * y + 3) * 159 + x * 26 + 26
    BY <1>2 DEF CellBytes, LineOf
  <1>4. line = 2 * y + 3 /\ col \in 26 * x + 1 .. 26 * x + 25
    BY <1>3 DEF LineOf
  <1>5. PICK k \in 1 .. 25 : col = 26 * x + k
    <2>1. col - 26 * x \in 1 .. 25 /\ col = 26 * x + (col - 26 * x)
      BY <1>4
    <2> QED
      BY <2>1
  <1>6. k \in 0 .. maxWidth /\ x \in 0 .. 6
    BY DEF maxWidth
  <1>7. (26 * x + k) % 26 = k
    BY <1>6, ColumnOfCell
  <1> QED
    BY <1>4, <1>5, <1>7

Empty == [c \in CellsOf(Base) |-> <<>>]

LEMMA BaseHolds == Holds(Base, Base, Empty) /\ Base \in Tables
  <1>1. nChNum \in Nat
    BY LengthsAssumption
  <1>2. /\ Formed(Base) /\ Base.table_x = 6 /\ Base.table_y = 2 + nChNum /\ Base.colwidth = 25
        /\ Base \in Tables
    BY BaseMade DEF Formed
  <1>3. ASSUME NEW x \in Columns(Base), NEW y \in Rows(Base), NEW k \in 1 .. Base.colwidth
        PROVE  Base.data[CellAt(Base, x, y) + k] = Padded(Empty[<<x, y>>], k)
    <2>1. x \in 0 .. 5 /\ y \in 0 .. 1 + nChNum /\ y \in Nat /\ k \in 1 .. 25
      BY <1>1, <1>2, <1>3 DEF Columns, Rows
    <2>2. PICK line : line = 2 * y + 3
      OBVIOUS
    <2>3. PICK col : col = 26 * x + k
      OBVIOUS
    <2>4. line \in 0 .. 2 * nChNum + 7 /\ line < 2 * nChNum + 7 /\ line # 1 /\ line % 2 # 0
      BY <1>1, <2>1, <2>2
    <2>5. col \in 0 .. LineOf - 1 /\ col < 157 /\ col % 26 # 0
      <3>1. k \in 0 .. maxWidth /\ x \in 0 .. 6
        BY <2>1 DEF maxWidth
      <3>2. (26 * x + k) % 26 = k
        BY <3>1, ColumnOfCell
      <3> QED
        BY <2>1, <2>3, <3>2 DEF LineOf
    <2>6. RuledAt(line, col, Base.data[line * LineOf + col + 1])
      BY <2>4, <2>5, BaseRuled
    <2>7. CellAt(Base, x, y) + k = line * LineOf + col + 1
      BY <1>2, <2>1, <2>2, <2>3, CellPlace
    <2>8. Base.data[CellAt(Base, x, y) + k] = Blank
      BY <2>4, <2>5, <2>6, <2>7 DEF RuledAt
    <2>9. Empty[<<x, y>>] = <<>>
      BY DEF Empty, CellsOf
    <2>10. Padded(<<>>, k) = Blank
      BY <2>1 DEF Padded
    <2> QED
      BY <2>8, <2>9, <2>10
  <1> QED
    BY <1>2, <1>3 DEF Holds

\* A text is at most MAX_COLWIDTH bytes long when it is one of these.
Texts == {v \in Seq(Nat) : Len(v) <= MAX_COLWIDTH}

LEMMA TextValues ==
    ASSUME NEW fields \in Seq(Texts)
    PROVE  /\ Values(fields) \in Seq(Seq(Nat))
           /\ \A j \in 1 .. Len(Values(fields)) : Len(Values(fields)[j]) <= MAX_COLWIDTH
  <1>1. Values(fields) \in Seq(Texts)
    <2>1. CASE fields = <<>>
      <3>1. Values(fields) = << <<>> >>
        BY <2>1, Zenon DEF Values
      <3>2. <<>> \in Texts
        BY DEF Texts, MAX_COLWIDTH
      <3> QED
        BY <3>1, <3>2
    <2>2. CASE fields # <<>>
      BY <2>2, ValuesOf
    <2> QED
      BY <2>1, <2>2
  <1>2. PICK v : v = Values(fields)
    OBVIOUS
  <1>3. v \in Seq(Seq(Nat)) /\ \A j \in 1 .. Len(v) : Len(v[j]) <= MAX_COLWIDTH
    <2>1. v \in Seq(Texts)
      BY <1>1, <1>2
    <2>2. \A j \in 1 .. Len(v) : v[j] \in Texts
      BY <2>1
    <2>3. \A j \in 1 .. Len(v) : v[j] \in Seq(Nat) /\ Len(v[j]) <= MAX_COLWIDTH
      BY <2>2 DEF Texts
    <2> QED
      BY <2>1, <2>3
  <1> QED
    BY <1>2, <1>3, Zenon

LEMMA PlacedTyped ==
    ASSUME NEW C \in [CellsOf(Base) -> Seq(Nat)], NEW x_y, NEW s \in Nat, NEW v \in Seq(Seq(Nat)),
           NEW down \in BOOLEAN, NEW w
    PROVE  Placed(C, x_y, s, v, down, w) \in [CellsOf(Base) -> Seq(Nat)]
  <1>1. ASSUME NEW c \in CellsOf(Base)
        PROVE  (LET j == Along(c, down) - s + 1
                IN  IF Across(c, down) = x_y /\ j \in 1 .. Len(v) /\ \A i \in 1 .. j : Len(v[i]) <= w
                    THEN v[j] ELSE C[c]) \in Seq(Nat)
    <2>1. PICK j : j = Along(c, down) - s + 1
      OBVIOUS
    <2>2. j \in 1 .. Len(v) => v[j] \in Seq(Nat)
      OBVIOUS
    <2>3. C[c] \in Seq(Nat)
      OBVIOUS
    <2> QED
      BY <2>1, <2>2, <2>3
  <1> QED
    BY <1>1 DEF Placed

\* The texts of the cells when the rows up to m are in.
CellsShown(rows, m) ==
    [c \in CellsOf(Base) |->
        IF c[2] <= m THEN Shows(rows, c[1], c[2])
        ELSE IF c[1] = 0 /\ c[2] \in 1 .. 6 THEN Numbers[c[2]]
        ELSE <<>>]

LEMMA BaseCells == \A c \in CellsOf(Base) : c[1] \in 0 .. 5 /\ c[2] \in 0 .. 1 + nChNum /\ c[2] \in Nat
  <1>1. nChNum \in Nat
    BY LengthsAssumption
  <1> QED
    BY <1>1, BaseMade DEF CellsOf, Columns, Rows

\* The headings and the numbers are texts that fit, none of them empty.
LEMMA HeadingTexts ==
    /\ Headings \in Seq(Texts) /\ Values(Headings) = Headings /\ Len(Headings) = 5
    /\ \A j \in 1 .. 5 : Len(Headings[j]) <= 25
  <1>1. Len(Headings) = 5
    BY DEF Headings
  <1>2. Headings[1] = <<107, 107, 115>> /\ Headings[2] = <<114, 101, 102>> /\ Headings[3] = <<118, 116, 121, 112, 101>>
        /\ Headings[4] = <<118, 97, 108>> /\ Headings[5] = <<116>>
    BY DEF Headings
  <1>3. ASSUME NEW j \in 1 .. 5
        PROVE  Headings[j] \in Seq(Nat) /\ Len(Headings[j]) <= 25 /\ Headings[j] # <<>>
    <2>1. Headings[1] \in Seq(Nat) /\ Len(Headings[1]) <= 25 /\ Headings[1] # <<>>
      BY <1>2
    <2>2. Headings[2] \in Seq(Nat) /\ Len(Headings[2]) <= 25 /\ Headings[2] # <<>>
      BY <1>2
    <2>3. Headings[3] \in Seq(Nat) /\ Len(Headings[3]) <= 25 /\ Headings[3] # <<>>
      BY <1>2
    <2>4. Headings[4] \in Seq(Nat) /\ Len(Headings[4]) <= 25 /\ Headings[4] # <<>>
      BY <1>2
    <2>5. Headings[5] \in Seq(Nat) /\ Len(Headings[5]) <= 25 /\ Headings[5] # <<>>
      BY <1>2
    <2>6. j = 1 \/ j = 2 \/ j = 3 \/ j = 4 \/ j = 5
      OBVIOUS
    <2> QED
      BY <2>1, <2>2, <2>3, <2>4, <2>5, <2>6
  <1>4. ASSUME NEW j \in 1 .. 5
        PROVE  Headings[j] \in Texts
    <2>1. PICK v : v = Headings[j]
      OBVIOUS
    <2>2. v \in Seq(Nat) /\ Len(v) <= 25
      BY <1>3, <2>1
    <2>3. v \in Texts
      BY <2>2 DEF Texts, MAX_COLWIDTH
    <2> QED
      BY <2>1, <2>3
  <1>5. Headings \in Seq(Texts)
    <2>1. Headings = [k \in 1 .. 5 |-> Headings[k]]
      BY DEF Headings
    <2> QED
      BY <1>4, <2>1
  <1>6. Headings # <<>>
    BY <1>1
  <1>7. Values(Headings) = Headings
    BY <1>1, <1>3, <1>5, <1>6, ValuesOf
  <1>8. \A j \in 1 .. 5 : Len(Headings[j]) <= 25
    BY <1>3
  <1> QED
    BY <1>1, <1>5, <1>7, <1>8

LEMMA NumberTexts ==
    /\ Numbers \in Seq(Texts) /\ Values(Numbers) = Numbers /\ Len(Numbers) = 6
    /\ \A j \in 1 .. 6 : Len(Numbers[j]) <= 25
  <1>1. Len(Numbers) = 6
    BY DEF Numbers
  <1>2. Numbers[1] = <<49>> /\ Numbers[2] = <<50>> /\ Numbers[3] = <<51>>
        /\ Numbers[4] = <<52>> /\ Numbers[5] = <<53>> /\ Numbers[6] = <<54>>
    BY DEF Numbers
  <1>3. ASSUME NEW j \in 1 .. 6
        PROVE  Numbers[j] \in Seq(Nat) /\ Len(Numbers[j]) <= 25 /\ Numbers[j] # <<>>
    <2>1. Numbers[1] \in Seq(Nat) /\ Len(Numbers[1]) <= 25 /\ Numbers[1] # <<>>
      BY <1>2
    <2>2. Numbers[2] \in Seq(Nat) /\ Len(Numbers[2]) <= 25 /\ Numbers[2] # <<>>
      BY <1>2
    <2>3. Numbers[3] \in Seq(Nat) /\ Len(Numbers[3]) <= 25 /\ Numbers[3] # <<>>
      BY <1>2
    <2>4. Numbers[4] \in Seq(Nat) /\ Len(Numbers[4]) <= 25 /\ Numbers[4] # <<>>
      BY <1>2
    <2>5. Numbers[5] \in Seq(Nat) /\ Len(Numbers[5]) <= 25 /\ Numbers[5] # <<>>
      BY <1>2
    <2>6. Numbers[6] \in Seq(Nat) /\ Len(Numbers[6]) <= 25 /\ Numbers[6] # <<>>
      BY <1>2
    <2>7. j = 1 \/ j = 2 \/ j = 3 \/ j = 4 \/ j = 5 \/ j = 6
      OBVIOUS
    <2> QED
      BY <2>1, <2>2, <2>3, <2>4, <2>5, <2>6, <2>7
  <1>4. ASSUME NEW j \in 1 .. 6
        PROVE  Numbers[j] \in Texts
    <2>1. PICK v : v = Numbers[j]
      OBVIOUS
    <2>2. v \in Seq(Nat) /\ Len(v) <= 25
      BY <1>3, <2>1
    <2>3. v \in Texts
      BY <2>2 DEF Texts, MAX_COLWIDTH
    <2> QED
      BY <2>1, <2>3
  <1>5. Numbers \in Seq(Texts)
    <2>1. Numbers = [k \in 1 .. 6 |-> Numbers[k]]
      BY DEF Numbers
    <2> QED
      BY <1>4, <2>1
  <1>6. Numbers # <<>>
    BY <1>1
  <1>7. Values(Numbers) = Numbers
    BY <1>1, <1>3, <1>5, <1>6, ValuesOf
  <1>8. \A j \in 1 .. 6 : Len(Numbers[j]) <= 25
    BY <1>3
  <1> QED
    BY <1>1, <1>5, <1>7, <1>8

\* table shows C, with these values placed.
HoldsPlaced(table, C, x_y, s, values, down) ==
    /\ Placed(C, x_y, s, values, down, 25) \in [CellsOf(Base) -> Seq(Nat)]
    /\ Holds(table, Base, Placed(C, x_y, s, values, down, 25))

\* A line (column) of the console's table is filled.
LEMMA LineHeld ==
    ASSUME NEW C \in [CellsOf(Base) -> Seq(Nat)], NEW table, Holds(table, Base, C),
           NEW down \in BOOLEAN, NEW s \in Nat, s <= 1,
           NEW x_y \in Nat, x_y < (IF down THEN 6 ELSE 2 + nChNum), NEW fields \in Seq(Texts)
    PROVE  HoldsPlaced(s_table_valuesetxs_ex(table, x_y, s, fields, down), C, x_y, s, Values(fields), down)
  <1>1. nChNum \in Nat /\ Base \in Tables
    BY LengthsAssumption, BaseHolds
  <1>2. Base.table_x = 6 /\ Base.table_y = 2 + nChNum /\ Base.colwidth = 25
    BY BaseMade
  <1>3. s <= Wide(Base, down) /\ x_y < High(Base, down)
    BY <1>1, <1>2 DEF Wide, High
  <1>4. /\ Values(fields) \in Seq(Seq(Nat))
        /\ \A j \in 1 .. Len(Values(fields)) : Len(Values(fields)[j]) <= MAX_COLWIDTH
    BY TextValues
  <1>5. Holds(s_table_valuesetxs_ex(table, x_y, s, fields, down), Base,
              Placed(C, x_y, s, Values(fields), down, Base.colwidth))
    BY <1>1, <1>3, <1>4, ValuesHeld, Zenon
  <1>6. Placed(C, x_y, s, Values(fields), down, 25) \in [CellsOf(Base) -> Seq(Nat)]
    BY <1>4, PlacedTyped
  <1> QED
    BY <1>2, <1>5, <1>6 DEF HoldsPlaced

\* table is the console's table with the rows up to m.
HoldsRows(table, rows, m) ==
    CellsShown(rows, m) \in [CellsOf(Base) -> Seq(Nat)] /\ Holds(table, Base, CellsShown(rows, m))

\* The headings and the numbers.
LEMMA CaptionsHeld ==
    ASSUME NEW rows
    PROVE  HoldsRows(s_table_valuesetys(s_table_valuesetxs(Base, 0, 1, Headings), 0, 1, Numbers), rows, 0)
  <1>1. nChNum \in Nat
    BY LengthsAssumption
  <1>2. Empty \in [CellsOf(Base) -> Seq(Nat)]
    BY DEF Empty
  <1>3. PICK C : C = Placed(Empty, 0, 1, Headings, FALSE, 25)
    OBVIOUS
  <1>4. PICK D : D = Placed(C, 0, 1, Numbers, TRUE, 25)
    OBVIOUS
  <1>5. PICK t1 : t1 = s_table_valuesetxs(Base, 0, 1, Headings)
    OBVIOUS
  <1>6. PICK t2 : t2 = s_table_valuesetys(t1, 0, 1, Numbers)
    OBVIOUS
  <1>7. Holds(t1, Base, C) /\ C \in [CellsOf(Base) -> Seq(Nat)]
    <2>1. t1 = s_table_valuesetxs_ex(Base, 0, 1, Headings, FALSE)
      BY <1>5 DEF s_table_valuesetxs
    <2>2. 0 < (IF FALSE THEN 6 ELSE 2 + nChNum) /\ 0 \in Nat /\ 1 \in Nat /\ 1 <= 1 /\ FALSE \in BOOLEAN
      BY <1>1
    <2>3. Holds(Base, Base, Empty) /\ Headings \in Seq(Texts) /\ Values(Headings) = Headings
      BY BaseHolds, HeadingTexts
    <2>4. HoldsPlaced(s_table_valuesetxs_ex(Base, 0, 1, Headings, FALSE), Empty, 0, 1, Values(Headings), FALSE)
      BY <1>2, <2>2, <2>3, LineHeld, Zenon
    <2> QED
      BY <1>3, <2>1, <2>3, <2>4, Zenon DEF HoldsPlaced
  <1>8. Holds(t2, Base, D)
    <2>1. t2 = s_table_valuesetxs_ex(t1, 0, 1, Numbers, TRUE)
      BY <1>6 DEF s_table_valuesetys
    <2>2. 0 < (IF TRUE THEN 6 ELSE 2 + nChNum) /\ 0 \in Nat /\ 1 \in Nat /\ 1 <= 1 /\ TRUE \in BOOLEAN
      OBVIOUS
    <2>3. Numbers \in Seq(Texts) /\ Values(Numbers) = Numbers
      BY NumberTexts
    <2>4. HoldsPlaced(s_table_valuesetxs_ex(t1, 0, 1, Numbers, TRUE), C, 0, 1, Values(Numbers), TRUE)
      BY <1>7, <2>2, <2>3, LineHeld, Zenon
    <2> QED
      BY <1>4, <2>1, <2>3, <2>4, Zenon DEF HoldsPlaced
  <1>9. ASSUME NEW c \in CellsOf(Base)
        PROVE  D[c] = CellsShown(rows, 0)[c]
    <2>1. c[1] \in 0 .. 5 /\ c[2] \in Nat
      BY BaseCells
    <2>2. C[c] = IF c[2] = 0 /\ c[1] \in 1 .. 5 THEN Headings[c[1]] ELSE <<>>
      <3>1. Empty[c] = <<>> /\ c \in DOMAIN Empty
        BY DEF Empty
      <3>2. PICK j : j = c[1] - 1 + 1
        OBVIOUS
      <3>3. j = c[1]
        BY <2>1, <3>2
      <3>4. C[c] = IF c[2] = 0 /\ j \in 1 .. Len(Headings) /\ \A i \in 1 .. j : Len(Headings[i]) <= 25
                   THEN Headings[j] ELSE Empty[c]
        BY <1>3, <3>1, <3>2 DEF Placed, Across, Along
      <3>5. j \in 1 .. 5 => \A i \in 1 .. j : Len(Headings[i]) <= 25
        BY HeadingTexts
      <3> QED
        BY <3>1, <3>3, <3>4, <3>5, HeadingTexts
    <2>3. D[c] = IF c[1] = 0 /\ c[2] \in 1 .. 6 THEN Numbers[c[2]] ELSE C[c]
      <3>1. c \in DOMAIN C
        BY <1>7
      <3>2. PICK j : j = c[2] - 1 + 1
        OBVIOUS
      <3>3. j = c[2]
        BY <2>1, <3>2
      <3>4. D[c] = IF c[1] = 0 /\ j \in 1 .. Len(Numbers) /\ \A i \in 1 .. j : Len(Numbers[i]) <= 25
                   THEN Numbers[j] ELSE C[c]
        BY <1>4, <3>1, <3>2 DEF Placed, Across, Along
      <3>5. j \in 1 .. 6 => \A i \in 1 .. j : Len(Numbers[i]) <= 25
        BY NumberTexts
      <3> QED
        BY <3>1, <3>3, <3>4, <3>5, NumberTexts
    <2>4. CellsShown(rows, 0)[c] = IF c[2] = 0 THEN (IF c[1] = 0 THEN <<>> ELSE Headings[c[1]])
                                   ELSE IF c[1] = 0 /\ c[2] \in 1 .. 6 THEN Numbers[c[2]] ELSE <<>>
      <3>1. CellsShown(rows, 0)[c] = IF c[2] <= 0 THEN Shows(rows, c[1], c[2])
                                     ELSE IF c[1] = 0 /\ c[2] \in 1 .. 6 THEN Numbers[c[2]] ELSE <<>>
        BY DEF CellsShown
      <3>2. CASE c[2] = 0
        <4>1. Shows(rows, c[1], c[2]) = IF c[1] = 0 THEN <<>> ELSE Headings[c[1]]
          BY <3>2 DEF Shows
        <4> QED
          BY <2>1, <3>1, <3>2, <4>1
      <3>3. CASE c[2] # 0
        <4>1. ~ (c[2] <= 0)
          BY <2>1, <3>3
        <4> QED
          BY <3>1, <3>3, <4>1
      <3> QED
        BY <3>2, <3>3
    <2> QED
      BY <2>1, <2>2, <2>3, <2>4
  <1>10. D = CellsShown(rows, 0) /\ D \in [CellsOf(Base) -> Seq(Nat)]
    <2>1. D \in [CellsOf(Base) -> Seq(Nat)]
      BY <1>4, <1>7, NumberTexts, TextValues, PlacedTyped
    <2>2. PICK E : E = CellsShown(rows, 0)
      OBVIOUS
    <2>3. E = [c \in CellsOf(Base) |-> E[c]]
      BY <2>2 DEF CellsShown
    <2> QED
      BY <1>9, <2>1, <2>2, <2>3
  <1> QED
    BY <1>5, <1>6, <1>8, <1>10, Zenon DEF HoldsRows

\* The next row.
LEMMA RowHeld ==
    ASSUME NEW rows \in [Chan -> Seq(Texts)], NEW m \in 1 .. nChNum, NEW table, HoldsRows(table, rows, m - 1)
    PROVE  HoldsRows(s_table_valuesetxs(table, m, 0, rows[m]), rows, m)
  <1>1. nChNum \in Nat /\ m \in Chan /\ rows[m] \in Seq(Texts)
    BY LengthsAssumption DEF Chan
  <1>2. PICK C : C = CellsShown(rows, m - 1)
    OBVIOUS
  <1>3. PICK v : v = Values(rows[m])
    OBVIOUS
  <1>4. PICK D : D = Placed(C, m, 0, v, FALSE, 25)
    OBVIOUS
  <1>5. C \in [CellsOf(Base) -> Seq(Nat)] /\ Holds(table, Base, C)
    BY <1>2 DEF HoldsRows
  <1>6. PICK new : new = s_table_valuesetxs(table, m, 0, rows[m])
    OBVIOUS
  <1>7. Holds(new, Base, D) /\ D \in [CellsOf(Base) -> Seq(Nat)]
    <2>1. new = s_table_valuesetxs_ex(table, m, 0, rows[m], FALSE)
      BY <1>6 DEF s_table_valuesetxs
    <2>2. m < (IF FALSE THEN 6 ELSE 2 + nChNum) /\ m \in Nat /\ 0 \in Nat /\ 0 <= 1 /\ FALSE \in BOOLEAN
      BY <1>1
    <2>3. HoldsPlaced(s_table_valuesetxs_ex(table, m, 0, rows[m], FALSE), C, m, 0, Values(rows[m]), FALSE)
      BY <1>1, <1>5, <2>2, LineHeld, Zenon
    <2> QED
      BY <1>3, <1>4, <2>1, <2>3, Zenon DEF HoldsPlaced
  <1>8. ASSUME NEW c \in CellsOf(Base)
        PROVE  D[c] = CellsShown(rows, m)[c]
    <2>1. PICK x \in 0 .. 5 : x = c[1]
      BY BaseCells
    <2>2. PICK y \in Nat : y = c[2]
      BY BaseCells
    <2>3. PICK other : other = IF x = 0 /\ y \in 1 .. 6 THEN Numbers[y] ELSE <<>>
      OBVIOUS
    <2>4. /\ C[c] = IF y <= m - 1 THEN Shows(rows, x, y) ELSE other
          /\ CellsShown(rows, m)[c] = IF y <= m THEN Shows(rows, x, y) ELSE other
      BY <1>2, <2>1, <2>2, <2>3 DEF CellsShown
    <2>5. D[c] = IF y = m /\ x + 1 \in 1 .. Len(v) /\ \A i \in 1 .. x + 1 : Len(v[i]) <= 25
                 THEN v[x + 1] ELSE C[c]
      <3>1. x - 0 + 1 = x + 1 /\ c \in DOMAIN C
        BY <1>5
      <3>2. D[c] = IF y = m /\ x - 0 + 1 \in 1 .. Len(v) /\ \A i \in 1 .. x - 0 + 1 : Len(v[i]) <= 25
                   THEN v[x - 0 + 1] ELSE C[c]
        BY <1>4, <2>1, <2>2, <3>1 DEF Placed, Across, Along
      <3> QED
        BY <3>1, <3>2
    <2>6. CASE y # m
      BY <2>4, <2>5, <2>6
    <2>7. CASE y = m
      <3>1. Len(v) \in Nat
        BY <1>1, <1>3, TextValues
      <3>2. C[c] = other
        BY <1>1, <2>4, <2>7
      <3>3. Shows(rows, x, y) = IF x < Len(v) /\ \A i \in 1 .. x + 1 : Len(v[i]) <= 25 THEN v[x + 1] ELSE other
        BY <1>1, <1>3, <2>3, <2>7 DEF Shows, maxWidth
      <3>4. (x + 1 \in 1 .. Len(v)) <=> x < Len(v)
        BY <3>1
      <3>5. CellsShown(rows, m)[c] = Shows(rows, x, y)
        BY <2>4, <2>7
      <3> QED
        BY <2>5, <2>7, <3>2, <3>3, <3>4, <3>5
    <2> QED
      BY <2>6, <2>7
  <1>9. D = CellsShown(rows, m)
    <2>1. PICK E : E = CellsShown(rows, m)
      OBVIOUS
    <2>2. E = [c \in CellsOf(Base) |-> E[c]]
      BY <2>1 DEF CellsShown
    <2> QED
      BY <1>7, <1>8, <2>1, <2>2
  <1> QED
    BY <1>6, <1>7, <1>9, Zenon DEF HoldsRows

WithRow(t, rows, c) == s_table_valuesetxs(t, c, 0, rows[c])

\* All the rows.
LEMMA TableHeld ==
    ASSUME NEW rows \in [Chan -> Seq(Texts)]
    PROVE  HoldsRows(Table(rows), rows, nChNum)
  <1> DEFINE N == nChNum
             t1 == s_table_valuesetxs(Base, 0, 1, Headings)
             t2 == s_table_valuesetys(t1, 0, 1, Numbers)
             S == {t \in Tables : \E C \in [CellsOf(Base) -> Seq(Nat)] : Holds(t, Base, C)}
             F == [p \in (1 .. N) \X S |-> WithRow(p[2], rows, p[1])]
             Is(r) == r = [c \in 0 .. nChNum |-> IF c = 0 THEN t2 ELSE WithRow(r[c - 1], rows, c)]
  <1>1. N \in Nat /\ \A n \in 1 .. N : rows[n] \in Seq(Texts)
    BY LengthsAssumption DEF Chan
  <1>2. HoldsRows(t2, rows, 0)
    BY CaptionsHeld
  <1>3. t2 \in S
    <2> HIDE DEF t2
    <2>1. Holds(t2, Base, CellsShown(rows, 0)) /\ CellsShown(rows, 0) \in [CellsOf(Base) -> Seq(Nat)]
      BY <1>2 DEF HoldsRows
    <2>2. t2 \in Tables
      BY <2>1 DEF Holds, Formed
    <2> QED
      BY <2>1, <2>2
  <1>4. ASSUME NEW n \in 1 .. N, NEW t \in S
        PROVE  WithRow(t, rows, n) \in S
    <2>1. PICK C \in [CellsOf(Base) -> Seq(Nat)] : Holds(t, Base, C)
      OBVIOUS
    <2>2. n < (IF FALSE THEN 6 ELSE 2 + nChNum) /\ n \in Nat /\ 0 \in Nat /\ 0 <= 1 /\ FALSE \in BOOLEAN
      BY <1>1
    <2>3. HoldsPlaced(s_table_valuesetxs_ex(t, n, 0, rows[n], FALSE), C, n, 0, Values(rows[n]), FALSE)
      BY <1>1, <2>1, <2>2, LineHeld, Zenon
    <2>4. PICK new : new = s_table_valuesetxs_ex(t, n, 0, rows[n], FALSE)
      OBVIOUS
    <2>5. PICK D : D = Placed(C, n, 0, Values(rows[n]), FALSE, 25)
      OBVIOUS
    <2>6. Holds(new, Base, D) /\ D \in [CellsOf(Base) -> Seq(Nat)]
      BY <2>3, <2>4, <2>5, Zenon DEF HoldsPlaced
    <2>7. new \in Tables
      BY <2>6 DEF Holds, Formed
    <2>8. new \in S
      BY <2>6, <2>7
    <2> QED
      BY <2>4, <2>8, Zenon DEF s_table_valuesetxs, WithRow
  <1>5. PICK f : Runs(f, N, S, t2, F)
    <2> HIDE DEF S, t2
    <2>1. F \in [(1 .. N) \X S -> S]
      BY <1>4
    <2> HIDE DEF F, N
    <2> QED
      BY <1>1, <1>3, <2>1, LoopExists, Zenon
  <1>6. Is(f)
    <2> HIDE DEF S, t2
    <2>1. f \in [0 .. N -> S] /\ f[0] = t2 /\ \A n \in 1 .. N : f[n] = F[<<n, f[n - 1]>>]
      BY <1>5 DEF Runs
    <2>2. \A n \in 1 .. N : f[n] = WithRow(f[n - 1], rows, n)
      <3> TAKE n \in 1 .. N
      <3>1. f[n - 1] \in S
        <4>1. n - 1 \in 0 .. N
          BY <1>1
        <4>2. f \in [0 .. N -> S]
          BY <2>1
        <4> HIDE DEF N
        <4> QED
          BY <4>1, <4>2
      <3>2. PICK t \in S : t = f[n - 1]
        BY <3>1
      <3>3. <<n, t>> \in (1 .. N) \X S /\ <<n, t>>[1] = n /\ <<n, t>>[2] = t
        OBVIOUS
      <3>4. PICK p \in (1 .. N) \X S : p = <<n, t>>
        BY <3>3
      <3>5. F[p] = WithRow(p[2], rows, p[1])
        OBVIOUS
      <3>6. F[<<n, t>>] = WithRow(t, rows, n)
        BY <3>3, <3>4, <3>5
      <3> QED
        BY <2>1, <3>2, <3>6
    <2> HIDE DEF F
    <2>3. N \in Nat
      BY <1>1
    <2>4. \A n \in 0 .. N : f[n] = IF n = 0 THEN t2 ELSE WithRow(f[n - 1], rows, n)
      <3>1. f[0] = t2
        BY <2>1
      <3>2. \A n \in 0 .. N : n = 0 \/ n \in 1 .. N
        BY <2>3
      <3> HIDE DEF N
      <3> QED
        BY <2>2, <3>1, <3>2
    <2>5. f = [n \in 0 .. N |-> f[n]]
      BY <2>1
    <2> QED
      BY <2>4, <2>5
  <1>7. PICK filled : filled = CHOOSE r : Is(r)
    OBVIOUS
  <1>8. Is(filled)
    <2> HIDE DEF Is
    <2> QED
      BY <1>6, <1>7
  <1>9. Table(rows) = filled[N]
    BY <1>7, Zenon DEF Table, Base, WithRow
  <1>10. filled[0] = t2 /\ \A n \in 1 .. N : filled[n] = WithRow(filled[n - 1], rows, n)
    <2>1. N \in Nat
      BY <1>1
    <2>2. filled = [c \in 0 .. N |-> IF c = 0 THEN t2 ELSE WithRow(filled[c - 1], rows, c)]
      BY <1>8
    <2> HIDE DEF t2, N, Is
    <2>3. 0 \in 0 .. N /\ \A n \in 1 .. N : n \in 0 .. N /\ n # 0
      BY <2>1
    <2> QED
      BY <2>2, <2>3
  <1> DEFINE G == {n \in 0 .. N : HoldsRows(filled[n], rows, n)}
  <1> HIDE DEF t1, t2, Is, F, S
  <1>11. 0 \in G
    <2>1. 0 \in 0 .. N
      BY <1>1
    <2> QED
      BY <1>2, <1>10, <2>1, Zenon
  <1>12. ASSUME NEW n \in 1 .. N, n - 1 \in G
         PROVE  n \in G
    <2>1. HoldsRows(filled[n - 1], rows, n - 1)
      BY <1>12
    <2>2. HoldsRows(s_table_valuesetxs(filled[n - 1], n, 0, rows[n]), rows, n)
      BY <2>1, RowHeld, Zenon
    <2>3. n \in 0 .. N
      BY <1>1
    <2> QED
      BY <1>10, <2>2, <2>3, Zenon DEF WithRow
  <1>13. N \in G
    <2> HIDE DEF G, N
    <2>1. \A n \in 0 .. N : n \in G
      BY <1>1, <1>11, <1>12, Upwards
    <2> QED
      BY <1>1, <2>1
  <1> QED
    BY <1>9, <1>13, Zenon

\* What is in no cell stands as the new table had it.
LEMMA RulesKept ==
    ASSUME NEW t, NEW C, Holds(t, Base, C),
           NEW line \in 0 .. 2 * nChNum + 7, NEW col \in 0 .. LineOf - 1, line = 2 * nChNum + 7 => col = 0,
           \/ line % 2 = 0 \/ line = 1 \/ line = 2 * nChNum + 7 \/ col >= 157 \/ col % 26 = 0
    PROVE  RuledAt(line, col, t.data[line * LineOf + col + 1])
  <1>1. nChNum \in Nat
    BY LengthsAssumption
  <1>2. PICK a : a = line * LineOf + col + 1
    OBVIOUS
  <1>3. a \in 1 .. Len(Base.data) /\ RuledAt(line, col, Base.data[a])
    BY <1>2, BaseRuled
  <1>4. t.table_x = 6 /\ t.colwidth = 25 /\ t.table_y = 2 + nChNum /\ Len(t.data) = Len(Base.data)
    BY BaseMade DEF Holds
  <1>5. ASSUME NEW x \in Columns(t), NEW y \in Rows(t)
        PROVE  a \notin CellBytes(t, x, y)
    <2>1. x \in 0 .. 5 /\ y \in Nat /\ y <= 1 + nChNum
      BY <1>1, <1>4 DEF Columns, Rows
    <2>2. ASSUME a \in CellBytes(t, x, y)
          PROVE  FALSE
      <3>1. line = 2 * y + 3 /\ col \in 26 * x + 1 .. 26 * x + 25 /\ col % 26 # 0
        <4>1. line \in Nat
          BY <1>1
        <4>2. line * LineOf + col + 1 \in CellBytes(t, x, y)
          BY <1>2, <2>2, Zenon
        <4> QED
          BY <1>4, <2>1, <4>1, <4>2, CellPlaces
      <3>2. line % 2 # 0 /\ line # 1 /\ line # 2 * nChNum + 7 /\ ~ (col >= 157)
        BY <1>1, <2>1, <3>1
      <3> QED
        BY <3>1, <3>2
    <2> QED
      BY <2>2
  <1>6. t.data[a] = Base.data[a]
    BY <1>3, <1>4, <1>5 DEF Holds
  <1> QED
    BY <1>2, <1>3, <1>6

\* Whatever the rows, with values that tmp_value can hold, the table made of them is
\* written inside its block, its rules, line breaks and terminator are in their places and
\* every cell shows its value.
THEOREM TableStands ==
    ASSUME NEW rows \in [Chan -> RowText], \A c \in Chan : PassesThrough(rows[c])
    PROVE  Stands(rows)
  <1>1. nChNum \in Nat
    BY LengthsAssumption
  <1>2. rows \in [Chan -> Seq(Texts)]
    <2>1. ASSUME NEW c \in Chan
          PROVE  rows[c] \in Seq(Texts)
      <3>1. rows[c] \in Seq(Seq(Byte)) /\ PassesThrough(rows[c])
        BY DEF RowText
      <3>2. PICK row \in Seq(Seq(Byte)) : row = rows[c]
        BY <3>1
      <3>3. ASSUME NEW n \in 1 .. Len(row)
            PROVE  row[n] \in Texts
        <4>1. row[n] \in Seq(Byte)
          OBVIOUS
        <4>2. row[n] \in Seq(Nat)
          <5>1. PICK v \in Seq(Byte) : v = row[n]
            BY <4>1
          <5>2. \A k \in 1 .. Len(v) : v[k] \in Nat
            <6>1. \A k \in 1 .. Len(v) : v[k] \in Byte
              OBVIOUS
            <6>2. \A b \in Byte : b \in Nat
              BY DEF Byte
            <6> QED
              BY <6>1, <6>2
          <5>3. v \in Seq(Nat)
            BY <5>2
          <5> QED
            BY <5>1, <5>3
        <4>3. Len(row[n]) <= MAX_COLWIDTH
          BY <3>1, <3>2 DEF PassesThrough
        <4> QED
          BY <4>2, <4>3 DEF Texts
      <3>4. row \in Seq(Texts)
        BY <3>3
      <3> QED
        BY <3>2, <3>4
    <2> QED
      BY <2>1
  <1>3. PICK t : t = Table(rows)
    OBVIOUS
  <1>4. PICK C : C = CellsShown(rows, nChNum)
    OBVIOUS
  <1>5. Holds(t, Base, C)
    <2>1. HoldsRows(Table(rows), rows, nChNum)
      BY <1>2, TableHeld
    <2> QED
      BY <1>3, <1>4, <2>1, Zenon DEF HoldsRows
  <1>6. ~ t.bad /\ t.table_x = 6 /\ t.table_y = 2 + nChNum /\ t.colwidth = 25
    BY <1>5, BaseMade DEF Holds, Formed
  <1>7. rel_line_num(6, maxWidth) = LineOf /\ Lines(2 + nChNum) = 2 * nChNum + 7
    BY <1>1 DEF rel_line_num, Lines, maxWidth, LineOf
  <1> DEFINE At(line, col) == t.data[line * LineOf + col + 1]
  <1>8. \A line \in 0 .. 2 * nChNum + 7, col \in 0 .. LineOf - 1 :
           /\ line = 2 * nChNum + 7 => col = 0
           /\ line % 2 = 0 \/ line = 1 \/ line = 2 * nChNum + 7 \/ col >= 157 \/ col % 26 = 0
           => RuledAt(line, col, At(line, col))
    BY <1>5, RulesKept
  <1> HIDE DEF At
  <1>9. ASSUME NEW line \in 0 .. 2 * nChNum + 6
        PROVE  /\ At(line, 157) = LineBreak[1] /\ At(line, 158) = LineBreak[2]
               /\ line % 2 = 0 => \A col \in 0 .. 156 : At(line, col) = COLUMN_SEPARATOR
    <2>1. line \in 0 .. 2 * nChNum + 7 /\ line < 2 * nChNum + 7 /\ line # 2 * nChNum + 7
      BY <1>1
    <2>2. RuledAt(line, 157, At(line, 157)) /\ RuledAt(line, 158, At(line, 158))
      BY <1>8, <2>1 DEF LineOf
    <2>3. line % 2 = 0 => \A col \in 0 .. 156 : RuledAt(line, col, At(line, col))
      BY <1>8, <2>1 DEF LineOf
    <2> QED
      BY <2>1, <2>2, <2>3 DEF RuledAt
  <1>10. ASSUME NEW col \in 0 .. 156
         PROVE  At(1, col) = LINE_SEPARATOR <=> col \in {0, 156}
    <2>1. 1 \in 0 .. 2 * nChNum + 7 /\ 1 < 2 * nChNum + 7 /\ 1 # 2 * nChNum + 7
      BY <1>1
    <2>2. RuledAt(1, col, At(1, col))
      BY <1>8, <2>1 DEF LineOf
    <2> QED
      BY <2>1, <2>2 DEF RuledAt
  <1>11. ASSUME NEW y \in 0 .. 1 + nChNum, NEW x \in 0 .. 6
         PROVE  At(2 * y + 3, 26 * x) = LINE_SEPARATOR
    <2>1. PICK line : line = 2 * y + 3
      OBVIOUS
    <2>2. PICK col : col = 26 * x
      OBVIOUS
    <2>3. line \in 0 .. 2 * nChNum + 7 /\ line < 2 * nChNum + 7 /\ line # 2 * nChNum + 7 /\ line # 1 /\ line % 2 # 0
      BY <1>1, <2>1
    <2>4. col \in 0 .. 158 /\ col < 157 /\ col % 26 = 0
      <3>1. (26 * x + 0) % 26 = 0
        BY ColumnOfCell DEF maxWidth
      <3> QED
        BY <2>2, <3>1
    <2>5. RuledAt(line, col, At(line, col))
      BY <1>8, <2>3, <2>4 DEF LineOf
    <2>6. At(line, col) = LINE_SEPARATOR
      BY <2>3, <2>4, <2>5 DEF RuledAt
    <2> QED
      BY <2>1, <2>2, <2>6
  <1>12. ASSUME NEW y \in 0 .. 1 + nChNum, NEW x \in 0 .. 5, NEW k \in 1 .. 25
         PROVE  At(2 * y + 3, 26 * x + k) = Padded(Shows(rows, x, y), k)
    <2>1. x \in Columns(t) /\ y \in Rows(t) /\ k \in 1 .. t.colwidth
      BY <1>1, <1>6 DEF Columns, Rows
    <2>2. t.data[CellAt(t, x, y) + k] = Padded(C[<<x, y>>], k)
      <3>1. \A u \in Columns(t), w \in Rows(t), i \in 1 .. t.colwidth :
               t.data[CellAt(t, u, w) + i] = Padded(C[<<u, w>>], i)
        BY <1>5, Zenon DEF Holds
      <3> QED
        BY <2>1, <3>1, Zenon
    <2>3. CellAt(t, x, y) + k = (2 * y + 3) * LineOf + (26 * x + k) + 1
      <3>1. y \in Nat
        BY <1>1
      <3> QED
        BY <1>6, <3>1, CellPlace
    <2>4. C[<<x, y>>] = Shows(rows, x, y)
      <3>1. PICK c \in CellsOf(Base) : c = <<x, y>>
        <4>1. Columns(Base) = 0 .. 5 /\ Rows(Base) = 0 .. 1 + nChNum
          BY <1>1, BaseMade DEF Columns, Rows
        <4>2. <<x, y>> \in CellsOf(Base)
          BY <4>1 DEF CellsOf
        <4> QED
          BY <4>2
      <3>2. c[1] = x /\ c[2] = y
        BY <3>1
      <3>3. C[c] = IF y <= nChNum THEN Shows(rows, x, y)
                   ELSE IF x = 0 /\ y \in 1 .. 6 THEN Numbers[y] ELSE <<>>
        BY <1>4, <3>2 DEF CellsShown
      <3>4. CASE y <= nChNum
        BY <3>1, <3>3, <3>4
      <3>5. CASE ~ (y <= nChNum)
        <4>1. y # 0 /\ y \notin Chan
          BY <1>1, <3>5 DEF Chan
        <4>2. Shows(rows, x, y) = IF x = 0 /\ y \in 1 .. 6 THEN Numbers[y] ELSE <<>>
          BY <4>1 DEF Shows
        <4> QED
          BY <3>1, <3>3, <3>5, <4>2
      <3> QED
        BY <3>4, <3>5
    <2> QED
      BY <2>2, <2>3, <2>4 DEF At
  <1>13. At(2 * nChNum + 7, 0) = 0
    <2>1. RuledAt(2 * nChNum + 7, 0, At(2 * nChNum + 7, 0))
      BY <1>1, <1>8 DEF LineOf
    <2> QED
      BY <2>1 DEF RuledAt
  <1>14. /\ \A line \in 0 .. Lines(2 + nChNum) - 1 :
               /\ At(line, LineOf - 2) = LineBreak[1] /\ At(line, LineOf - 1) = LineBreak[2]
               /\ line % 2 = 0 => \A col \in 0 .. LineOf - 3 : At(line, col) = COLUMN_SEPARATOR
         /\ \A col \in 0 .. LineOf - 3 : At(1, col) = LINE_SEPARATOR <=> col \in {0, LineOf - 3}
         /\ \A y \in 0 .. 1 + nChNum :
               /\ \A x \in 0 .. 6 : At(2 * y + 3, (maxWidth + 1) * x) = LINE_SEPARATOR
               /\ \A x \in 0 .. 5, k \in 1 .. maxWidth :
                     At(2 * y + 3, (maxWidth + 1) * x + k) = Padded(Shows(rows, x, y), k)
         /\ At(Lines(2 + nChNum), 0) = 0
    <2>1. /\ LineOf - 2 = 157 /\ LineOf - 1 = 158 /\ LineOf - 3 = 156 /\ maxWidth + 1 = 26 /\ maxWidth = 25
          /\ 2 * nChNum + 7 - 1 = 2 * nChNum + 6
      BY <1>1 DEF LineOf, maxWidth
    <2>2. \A line \in 0 .. 2 * nChNum + 6 :
             /\ At(line, 157) = LineBreak[1] /\ At(line, 158) = LineBreak[2]
             /\ line % 2 = 0 => \A col \in 0 .. 156 : At(line, col) = COLUMN_SEPARATOR
      BY <1>9, Zenon
    <2>3. \A col \in 0 .. 156 : At(1, col) = LINE_SEPARATOR <=> col \in {0, 156}
      BY <1>10, Zenon
    <2>4. \A y \in 0 .. 1 + nChNum :
             /\ \A x \in 0 .. 6 : At(2 * y + 3, 26 * x) = LINE_SEPARATOR
             /\ \A x \in 0 .. 5, k \in 1 .. 25 : At(2 * y + 3, 26 * x + k) = Padded(Shows(rows, x, y), k)
      BY <1>11, <1>12, Zenon
    <2>5. \A line \in 0 .. Lines(2 + nChNum) - 1 :
             /\ At(line, LineOf - 2) = LineBreak[1] /\ At(line, LineOf - 1) = LineBreak[2]
             /\ line % 2 = 0 => \A col \in 0 .. LineOf - 3 : At(line, col) = COLUMN_SEPARATOR
      <3>1. PICK last : last = LineOf - 3
        OBVIOUS
      <3>2. last = 156 /\ Lines(2 + nChNum) - 1 = 2 * nChNum + 6
        BY <1>1, <1>7, <2>1, <3>1
      <3>3. ASSUME NEW line \in 0 .. Lines(2 + nChNum) - 1
            PROVE  /\ At(line, LineOf - 2) = LineBreak[1] /\ At(line, LineOf - 1) = LineBreak[2]
                   /\ line % 2 = 0 => \A col \in 0 .. LineOf - 3 : At(line, col) = COLUMN_SEPARATOR
        <4>1. line \in 0 .. 2 * nChNum + 6
          BY <3>2
        <4>2. PICK even : even = (line % 2 = 0)
          OBVIOUS
        <4>3. /\ At(line, 157) = LineBreak[1] /\ At(line, 158) = LineBreak[2]
              /\ even => \A col \in 0 .. 156 : At(line, col) = COLUMN_SEPARATOR
          BY <2>2, <4>1, <4>2, Zenon
        <4>4. even => \A col \in 0 .. last : At(line, col) = COLUMN_SEPARATOR
          BY <3>2, <4>3
        <4> QED
          BY <2>1, <3>1, <4>2, <4>3, <4>4, Zenon
      <3> QED
        BY <3>3
    <2>6. \A col \in 0 .. LineOf - 3 : At(1, col) = LINE_SEPARATOR <=> col \in {0, LineOf - 3}
      BY <2>1, <2>3
    <2>7. \A y \in 0 .. 1 + nChNum :
             /\ \A x \in 0 .. 6 : At(2 * y + 3, (maxWidth + 1) * x) = LINE_SEPARATOR
             /\ \A x \in 0 .. 5, k \in 1 .. maxWidth :
                   At(2 * y + 3, (maxWidth + 1) * x + k) = Padded(Shows(rows, x, y), k)
      BY <2>1, <2>4
    <2>8. At(Lines(2 + nChNum), 0) = 0
      BY <1>7, <1>13
    <2> QED
      BY <2>5, <2>6, <2>7, <2>8, Zenon
  <1> QED
    BY <1>3, <1>6, <1>7, <1>14, Zenon DEF Stands, At

-----------------------------------------------------------------------------
(* The console.                                                            *)

\* The types of the console's variables.
THEOREM ConsoleTypes == ConsoleSpec => []ConsoleTypeOK
  <1>1. ConsoleInit => ConsoleTypeOK
    BY DEF ConsoleInit, ConsoleTypeOK, Heartbeats
  <1>2. ASSUME ConsoleTypeOK, [ConsoleNext]_<<pc, console>>
        PROVE  ConsoleTypeOK'
    <2> USE <1>2 DEF ConsoleTypeOK
    <2>1. CASE signal_table_handler
      BY <2>1 DEF signal_table_handler
    <2>2. CASE ClockSet
      BY <2>2 DEF ClockSet
    <2>3. CASE Heartbeat
      BY <2>3 DEF Heartbeat, console
    <2>4. CASE ShowTable
      <3>1. now \in 0 .. ULONG - 1 /\ ULONG \in Nat /\ ULONG # 0
        BY ClockAssumption
      <3>2. now % ULONG = now
        BY <3>1
      <3> QED
        BY <2>4, <3>2 DEF ShowTable
    <2>5. CASE SkipTable
      BY <2>5 DEF SkipTable, console
    <2>6. CASE NextBeat
      BY <2>6 DEF NextBeat, Heartbeats
    <2>7. CASE UNCHANGED <<pc, console>>
      BY <2>7 DEF console
    <2> QED
      BY <2>1, <2>2, <2>3, <2>4, <2>5, <2>6, <2>7 DEF ConsoleNext
  <1> QED
    BY <1>1, <1>2, PTL DEF ConsoleSpec

\* Every table that is shown is intact: this is TableStands for the rows that a beat
\* showed, whatever rows these were.
THEOREM ConsoleTableIntact == ConsoleSpec => []TableIntact
  <1>1. ConsoleTypeOK => TableIntact
    <2> SUFFICES ASSUME ConsoleTypeOK, shown # NotShown, \A c \in Chan : PassesThrough(shown[c])
                 PROVE  Stands(shown)
      BY DEF TableIntact
    <2>1. shown \in [Chan -> RowText]
      BY DEF ConsoleTypeOK
    <2> QED
      BY <2>1, TableStands
  <1> QED
    BY <1>1, ConsoleTypes, PTL

\* The limit on how often the table is shown never holds it back: the difference that
\* ratelimit_connects takes has no sign, so it is at least 0 even when the clock was set
\* back.
THEOREM ConsoleTableShown == ConsoleSpec => TableShown
  <1>1. ConsoleTypeOK /\ [ConsoleNext]_<<pc, console>> =>
           [(pc = "table" /\ g_table /\ pc' = "pause") => shown' # NotShown]_<<pc, console>>
    <2> SUFFICES ASSUME ConsoleTypeOK, ConsoleNext, pc = "table", g_table, pc' = "pause"
                 PROVE  shown' # NotShown
      OBVIOUS
    <2>1. TableDue
      <3>1. now \in Nat /\ tsec \in Int /\ ULONG \in Nat /\ ULONG > 0
        BY ClockAssumption DEF ConsoleTypeOK
      <3>2. (now - tsec) % ULONG >= 0
        BY <3>1
      <3> QED
        BY <3>2 DEF TableDue, ratelimit_connects
    <2>2. ShowTable
      BY <2>1 DEF ConsoleNext, signal_table_handler, ClockSet, Heartbeat, SkipTable, NextBeat, Heartbeats
    <2>3. shown' \in [Chan -> RowText]
      BY <2>2 DEF ShowTable
    <2>4. 0 \notin Chan
      BY LengthsAssumption DEF Chan
    <2>5. DOMAIN shown' = Chan /\ DOMAIN NotShown = {0}
      BY <2>3 DEF NotShown
    <2> QED
      BY <2>4, <2>5
  <1> QED
    BY <1>1, ConsoleTypes, PTL DEF ConsoleSpec, TableShown
=============================================================================
