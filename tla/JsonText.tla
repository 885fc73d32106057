------------------------------ MODULE JsonText ------------------------------
(***************************************************************************)
(* How cJSON prints a tree and parses a text (common/cJSON.c).             *)
(*                                                                         *)
(* A text is a sequence of bytes.  A position is an index into it; reading *)
(* behind the end gives the terminator, and position 0 is the NULL the     *)
(* parser returns when it gives up.  A printer returns [h, out], out being *)
(* NoText when memory ran out; it sets h.bad when a text does not fit the  *)
(* block that was allocated for it.                                        *)
(*                                                                         *)
(* A number is its count of millionths, what "%f" keeps of it.  Numbers    *)
(* that need "%e" are not modelled.                                        *)
(***************************************************************************)
EXTENDS JsonHeap, SequencesExt

NUL       == 0
BS        == 8
TAB       == 9
LF        == 10
FF        == 12
CR        == 13
SPACE     == 32
QUOTE     == 34
STAR      == 42
PLUS      == 43
COMMA     == 44
MINUS     == 45
DOT       == 46
SLASH     == 47
COLON     == 58
LBRACKET  == 91
BACKSLASH == 92
RBRACKET  == 93
LBRACE    == 123
RBRACE    == 125

\* "null", "true" and "false"
t_null  == <<110, 117, 108, 108>>
t_true  == <<116, 114, 117, 101>>
t_false == <<102, 97, 108, 115, 101>>

Micro == 1000000

Repeat(char, n) == [k \in 1 .. n |-> char]

\* A block of `size' bytes is filled with a text and its terminator.
Filled(h, size, text) ==
    LET m == malloc(h)
    IN  IF ~m.ok THEN [h |-> m.h, out |-> NoText]
        ELSE [h |-> [m.h EXCEPT !.bad = @ \/ Len(text) + 1 > size], out |-> text]

-----------------------------------------------------------------------------
(* Printing.                                                               *)

RECURSIVE Digits(_)
Digits(n) == (IF n >= 10 THEN Digits(n \div 10) ELSE <<>>) \o <<48 + (n % 10)>>

\* print_number: a whole number has no fraction, any other has six places.
print_number(h, value) ==
    LET abs  == IF value < 0 THEN -value ELSE value
        sign == IF value < 0 THEN <<MINUS>> ELSE <<>>
        text == sign \o Digits(abs \div Micro)
    IN  IF abs % Micro = 0 THEN Filled(h, 21, text)
        ELSE Filled(h, 64, text \o <<DOT>> \o Tail(Digits(Micro + (abs % Micro))))

\* The two-character escapes; any other control character is a "\u00..".
Short(char) == CASE char = QUOTE -> 34 [] char = BACKSLASH -> 92 [] char = BS -> 98
                 [] char = FF -> 102 [] char = LF -> 110 [] char = CR -> 114
                 [] char = TAB -> 116 [] OTHER -> NUL

HexDigit(n) == IF n < 10 THEN 48 + n ELSE 87 + n

\* The first pass counts, ...
Counted(char) == IF Short(char) # NUL THEN 2 ELSE IF char < 32 THEN 6 ELSE 1

\* ... the second one writes.
Escaped_NoBackslash(char) ==
    CASE char > 31 /\ char # QUOTE -> <<char>>
      [] Short(char) # NUL -> <<BACKSLASH, Short(char)>>
      [] OTHER -> <<BACKSLASH, 117, 48, 48, HexDigit(char \div 16), HexDigit(char % 16)>>
Escaped(char) ==
    CASE char > 31 /\ char \notin {QUOTE, BACKSLASH} -> <<char>>
      [] Short(char) # NUL -> <<BACKSLASH, Short(char)>>
      [] OTHER -> <<BACKSLASH, 117, 48, 48, HexDigit(char \div 16), HexDigit(char % 16)>>

print_string_ptr(h, str) ==
    IF str = NoText THEN LET dup == cJSON_strdup(h, <<>>) IN [h |-> dup.h, out |-> dup.str]
    ELSE LET len == FoldLeft(LAMBDA n, char : n + Counted(char), 0, str)
         IN  Filled(h, len + 3,
                    <<QUOTE>> \o FlattenSeq([k \in 1 .. Len(str) |-> Escaped(str[k])]) \o <<QUOTE>>)

RECURSIVE print_value(_, _, _, _)
RECURSIVE PrintEntries(_, _, _, _)
RECURSIVE PrintMembers(_, _, _, _)

\* The children's texts; an array stops at the first failure.  sum is the length
\* that is allocated for them.
PrintEntries(h, kids, depth, fmt) ==
    LET Behind(out, rest) ==
            [rest EXCEPT !.outs = <<out>> \o @,
                         !.sum = @ + Len(out) + 2 + (IF fmt THEN 1 ELSE 0)]
        First(ret) ==
            IF ret.out = NoText THEN [h |-> ret.h, outs |-> <<>>, sum |-> 0, fail |-> TRUE]
            ELSE Behind(ret.out, PrintEntries(ret.h, Tail(kids), depth, fmt))
    IN  IF kids = <<>> THEN [h |-> h, outs |-> <<>>, sum |-> 0, fail |-> FALSE]
        ELSE First(print_value(h, Head(kids), depth, fmt))

\* The output buffer, the fragments printed into it, and the array of fragments: the
\* buffer is what is left of them.
Compose(r, fragments, arrays, size, text) ==
    LET m == IF r.fail THEN [h |-> r.h, out |-> NoText] ELSE Filled(r.h, size, text)
    IN  [m EXCEPT !.h = free(@, fragments + arrays)]

print_array(h, item, depth, fmt) ==
    LET kids       == Children(h, item)
        Sep(n)     == IF n = Len(kids) THEN <<>> ELSE IF fmt THEN <<COMMA, SPACE>> ELSE <<COMMA>>
        Body(outs) == FlattenSeq([n \in 1 .. Len(outs) |-> outs[n] \o Sep(n)])
        Joined(r)  == Compose(r, Len(r.outs), 1, 5 + r.sum,
                              <<LBRACKET>> \o Body(r.outs) \o <<RBRACKET>>)
        Allocated(entries) == IF entries.ok THEN Joined(PrintEntries(entries.h, kids, depth + 1, fmt))
                                         ELSE [h |-> entries.h, out |-> NoText]
    IN  IF kids = <<>> THEN Filled(h, 3, <<LBRACKET, RBRACKET>>) ELSE Allocated(malloc(h))

\* An object goes on after a failure; `made' counts the fragments to be freed.
PrintMembers(h, kids, depth, fmt) ==
    LET Ok(str, ret) == str.out # NoText /\ ret.out # NoText
        Behind(str, ret, rest) ==
            [h    |-> rest.h,
             outs |-> <<[name |-> str.out, val |-> ret.out]>> \o rest.outs,
             sum  |-> rest.sum + (IF Ok(str, ret) THEN Len(str.out) + Len(ret.out) + 2
                                                       + (IF fmt THEN 2 + depth ELSE 0) ELSE 0),
             made |-> rest.made + (IF str.out # NoText THEN 1 ELSE 0)
                                + (IF ret.out # NoText THEN 1 ELSE 0),
             fail |-> rest.fail \/ ~Ok(str, ret)]
        Value(str, ret) == Behind(str, ret, PrintMembers(ret.h, Tail(kids), depth, fmt))
        Name(str)       == Value(str, print_value(str.h, Head(kids), depth, fmt))
    IN  IF kids = <<>> THEN [h |-> h, outs |-> <<>>, sum |-> 0, made |-> 0, fail |-> FALSE]
        ELSE Name(print_string_ptr(h, h.mem[Head(kids)].string))

EmptyObject(h, depth, fmt) ==
    Filled(h, IF fmt THEN depth + 4 ELSE 3,
           <<LBRACE>> \o (IF fmt THEN <<LF>> \o Repeat(TAB, depth - 1) ELSE <<>>)
                     \o <<RBRACE>>)

\* names could not be allocated: entries is freed.
NamesRefused_Leak(h) == [h |-> h, out |-> NoText]
NamesRefused(h) == [h |-> free(h, 1), out |-> NoText]

print_object(h, item, depth, fmt) ==
    LET kids      == Children(h, item)
        Indent(n) == IF fmt THEN Repeat(TAB, n) ELSE <<>>
        Member(m, n) == Indent(depth + 1) \o m.name \o <<COLON>> \o Indent(1) \o m.val
                           \o (IF n = Len(kids) THEN <<>> ELSE <<COMMA>>)
                           \o (IF fmt THEN <<LF>> ELSE <<>>)
        Body(outs) == FlattenSeq([n \in 1 .. Len(kids) |-> Member(outs[n], n)])
        Joined(r)  == Compose(r, r.made, 2, 7 + (IF fmt THEN depth + 1 ELSE 0) + r.sum,
                              <<LBRACE>> \o (IF fmt THEN <<LF>> ELSE <<>>) \o Body(r.outs)
                                         \o Indent(depth) \o <<RBRACE>>)
        Named(names) == IF names.ok THEN Joined(PrintMembers(names.h, kids, depth + 1, fmt))
                                    ELSE NamesRefused(names.h)
        Allocated(entries) == IF entries.ok THEN Named(malloc(entries.h))
                                            ELSE [h |-> entries.h, out |-> NoText]
    IN  IF kids = <<>> THEN EmptyObject(h, depth, fmt) ELSE Allocated(malloc(h))

print_value(h, item, depth, fmt) ==
    LET node == h.mem[item]
        Dup(text) == LET dup == cJSON_strdup(h, text) IN [h |-> dup.h, out |-> dup.str]
    IN  CASE node.type = "NULL"   -> Dup(t_null)
          [] node.type = "False"  -> Dup(t_false)
          [] node.type = "True"   -> Dup(t_true)
          [] node.type = "Number" -> print_number(h, node.value)
          [] node.type = "String" -> print_string_ptr(h, node.valuestring)
          [] node.type = "Array"  -> print_array(h, item, depth, fmt)
          [] node.type = "Object" -> print_object(h, item, depth, fmt)

cJSON_Print(h, item) == print_value(h, item, 0, TRUE)
cJSON_PrintUnformatted(h, item) == print_value(h, item, 0, FALSE)

-----------------------------------------------------------------------------
(* Parsing.                                                                *)

\* The byte at a place.  A NUL stands for what is read behind the terminator, which an
\* escape cut short and a comment without an end go on to: in the code it is not known.
At(text, pos) == IF pos \in 1 .. Len(text) THEN text[pos] ELSE NUL

\* strncmp with a literal
StartsWith(text, pos, lit) == \A n \in 1 .. Len(lit) : At(text, pos + n - 1) = lit[n]

\* skip; NULL stays NULL.
skip(text, pos) ==
    IF pos = NULL THEN NULL
    ELSE CHOOSE q \in pos .. Len(text) + 1 :
            /\ At(text, q) = NUL \/ At(text, q) > 32
            /\ \A m \in pos .. q - 1 : At(text, m) \in 1 .. 32

IsDigit(char) == char \in 48 .. 57

\* The position behind the digits that start at pos, and their value after n.
RECURSIVE Number(_, _, _)
Number(text, pos, n) ==
    IF IsDigit(At(text, pos)) THEN Number(text, pos + 1, 10 * n + (At(text, pos) - 48))
                              ELSE [pos |-> pos, n |-> n]

\* The digits before the point; of zeros in front at most one is read.
WholePart(text, pos) ==
    LET p == IF At(text, pos) = 48 THEN pos + 1 ELSE pos
    IN  IF At(text, p) \in 49 .. 57 THEN Number(text, p, 0) ELSE [pos |-> p, n |-> 0]

\* The digits behind the point go on where int ends; scale says how many there are.
Fraction(text, int) ==
    LET Scaled(frac) == [pos |-> frac.pos, n |-> frac.n, scale |-> frac.pos - int.pos - 1]
    IN  IF At(text, int.pos) = DOT /\ IsDigit(At(text, int.pos + 1))
        THEN Scaled(Number(text, int.pos + 1, int.n))
        ELSE [pos |-> int.pos, n |-> int.n, scale |-> 0]

Exponent(text, pos) ==
    LET first  == IF At(text, pos + 1) \in {PLUS, MINUS} THEN pos + 2 ELSE pos + 1
        digits == Number(text, first, 0)
    IN  IF At(text, pos) \notin {69, 101} THEN [pos |-> pos, n |-> 0]
        ELSE [digits EXCEPT !.n = IF At(text, pos + 1) = MINUS THEN -@ ELSE @]

Shifted(n, power) == IF power >= 0 THEN n * 10 ^ power ELSE n \div 10 ^ (-power)

parse_number(h, item, text, pos) ==
    LET sign == IF At(text, pos) = MINUS THEN -1 ELSE 1
        Stored(frac, exp) ==
            [h   |-> [h EXCEPT !.mem[item].type = "Number",
                               !.mem[item].value = sign * Shifted(frac.n, 6 - frac.scale + exp.n)],
             pos |-> exp.pos]
        Raised(frac) == Stored(frac, Exponent(text, frac.pos))
    IN  Raised(Fraction(text, WholePart(text, IF sign = -1 THEN pos + 1 ELSE pos)))

HexValue(char) == CASE char \in 48 .. 57  -> char - 48
                    [] char \in 65 .. 70  -> char - 55
                    [] char \in 97 .. 102 -> char - 87
                    [] OTHER -> -1

parse_hex4(text, pos) ==
    LET d(n) == HexValue(At(text, pos + n))
    IN  IF \E n \in 0 .. 3 : d(n) = -1 THEN 0
        ELSE ((d(0) * 16 + d(1)) * 16 + d(2)) * 16 + d(3)

\* The UTF-8 bytes of a code point: the last byte first, as the code shifts them out.
Tail6(uc) == 128 + (uc % 64)
Utf8_TwoByteLimit(uc) ==
    CASE uc < 128   -> <<uc>>
      [] uc <= 2048 -> <<192 + uc \div 64, Tail6(uc)>>
      [] uc < 65536 -> <<224 + uc \div 4096, Tail6(uc \div 64), Tail6(uc)>>
      [] OTHER      -> <<240 + uc \div 262144, Tail6(uc \div 4096), Tail6(uc \div 64), Tail6(uc)>>
Utf8(uc) ==
    CASE uc < 128   -> <<uc>>
      [] uc < 2048  -> <<192 + uc \div 64, Tail6(uc)>>
      [] uc < 65536 -> <<224 + uc \div 4096, Tail6(uc \div 64), Tail6(uc)>>
      [] OTHER      -> <<240 + uc \div 262144, Tail6(uc \div 4096), Tail6(uc \div 64), Tail6(uc)>>

\* What the escape whose "u" is at pos stands for, and the position of its last
\* character; a half of a surrogate pair alone stands for nothing.
Unicode(text, pos) ==
    LET uc   == parse_hex4(text, pos + 1)
        uc2  == parse_hex4(text, pos + 7)
        pair == At(text, pos + 5) = BACKSLASH /\ At(text, pos + 6) = 117
    IN  CASE uc \in 56320 .. 57343 \/ uc = 0 -> [out |-> <<>>, pos |-> pos + 4]
          [] uc \in 55296 .. 56319 /\ ~pair -> [out |-> <<>>, pos |-> pos + 4]
          [] uc \in 55296 .. 56319 /\ pair  ->
                [out |-> IF uc2 \in 56320 .. 57343
                         THEN Utf8(65536 + (uc % 1024) * 1024 + (uc2 % 1024)) ELSE <<>>,
                 pos |-> pos + 10]
          [] OTHER -> [out |-> Utf8(uc), pos |-> pos + 4]

\* The character an escape's letter stands for; any other stands for itself.
Unescaped(char) == CASE char = 98 -> BS [] char = 102 -> FF [] char = 110 -> LF
                     [] char = 114 -> CR [] char = 116 -> TAB [] OTHER -> char

\* First pass: how many bytes to allocate.
RECURSIVE CountString(_, _)
CountString(text, pos) ==
    IF At(text, pos) \in {QUOTE, NUL} THEN 0
    ELSE 1 + CountString(text, IF At(text, pos) = BACKSLASH THEN pos + 2 ELSE pos + 1)

\* What the character or the escape at pos stands for, and its last position.
OneCharacter(text, pos) ==
    CASE At(text, pos) # BACKSLASH -> [out |-> <<At(text, pos)>>, pos |-> pos]
      [] At(text, pos) = BACKSLASH /\ At(text, pos + 1) = 117 -> Unicode(text, pos + 1)
      [] OTHER -> [out |-> <<Unescaped(At(text, pos + 1))>>, pos |-> pos + 1]

\* Second pass: the bytes up to the closing quote, and its position.
RECURSIVE ReadString(_, _)
ReadString(text, pos) ==
    LET Behind(one) == LET rest == ReadString(text, one.pos + 1)
                       IN  [rest EXCEPT !.out = one.out \o @]
    IN  IF At(text, pos) \in {QUOTE, NUL} THEN [out |-> <<>>, pos |-> pos]
        ELSE Behind(OneCharacter(text, pos))

parse_string(h, item, text, pos) ==
    LET Stored(b, end) ==
            IF b.out = NoText THEN [h |-> b.h, pos |-> NULL]
            ELSE [h   |-> [b.h EXCEPT !.mem[item].valuestring = b.out, !.mem[item].type = "String"],
                  pos |-> IF At(text, end) = QUOTE THEN end + 1 ELSE end]
        Read(s) == Stored(Filled(h, CountString(text, pos + 1) + 1, s.out), s.pos)
    IN  IF At(text, pos) # QUOTE THEN [h |-> h, pos |-> NULL] ELSE Read(ReadString(text, pos + 1))

RECURSIVE parse_value(_, _, _, _)
RECURSIVE ParseItems(_, _, _, _)
RECURSIVE ParseMembers(_, _, _, _)

\* An item of an array, and those behind its commas.
ParseItems(h, child, text, pos) ==
    LET Another(new, p) ==
            IF new.p = NULL THEN [h |-> new.h, pos |-> NULL]
            ELSE ParseItems(suffix_object(new.h, child, new.p), new.p, text, p + 1)
        Behind(h1, p) == CASE At(text, p) = RBRACKET -> [h |-> h1, pos |-> p + 1]
                           [] At(text, p) = COMMA    -> Another(cJSON_New_Item(h1), p)
                           [] OTHER                  -> [h |-> h1, pos |-> NULL]
        Parsed(val) == Behind(val.h, skip(text, val.pos))
    IN  Parsed(parse_value(h, child, text, skip(text, pos)))

\* A member of an object, and those behind its commas.  The name is parsed as the
\* item's value and moved.
Renamed(h, child) ==
    [h EXCEPT !.mem[child].string = h.mem[child].valuestring, !.mem[child].valuestring = NoText]
ParseMembers(h, child, text, pos) ==
    LET Another(new, p) ==
            IF new.p = NULL THEN [h |-> new.h, pos |-> NULL]
            ELSE ParseMembers(suffix_object(new.h, child, new.p), new.p, text, p + 1)
        Behind(h1, p) == CASE At(text, p) = RBRACE -> [h |-> h1, pos |-> p + 1]
                           [] At(text, p) = COMMA  -> Another(cJSON_New_Item(h1), p)
                           [] OTHER                -> [h |-> h1, pos |-> NULL]
        Parsed(val)  == Behind(val.h, skip(text, val.pos))
        Named(h1, p) ==
            CASE p = NULL             -> [h |-> h1, pos |-> NULL]
              [] At(text, p) = COLON  -> Parsed(parse_value(Renamed(h1, child), child, text,
                                                            skip(text, p + 1)))
              [] OTHER                -> [h |-> Renamed(h1, child), pos |-> NULL]
        Name(str) == Named(str.h, skip(text, str.pos))
    IN  Name(parse_string(h, child, text, skip(text, pos)))

\* parse_array and parse_object: the item, and the first child when there is one.
ParseGroup(h, item, type, text, pos) ==
    LET First(new, p) ==
            CASE new.p = NULL -> [h |-> new.h, pos |-> NULL]
              [] new.p # NULL /\ type = "Array" ->
                    ParseItems(SetFirst(new.h, item, new.p), new.p, text, p)
              [] new.p # NULL /\ type = "Object" ->
                    ParseMembers(SetFirst(new.h, item, new.p), new.p, text, p)
        close == IF type = "Array" THEN RBRACKET ELSE RBRACE
        Typed(h1, p) == IF At(text, p) = close THEN [h |-> h1, pos |-> p + 1]
                                               ELSE First(cJSON_New_Item(h1), p)
    IN  Typed([h EXCEPT !.mem[item].type = type], skip(text, pos + 1))

parse_value(h, item, text, pos) ==
    LET c == At(text, pos)
        Literal(type, lit) == [h |-> [h EXCEPT !.mem[item].type = type], pos |-> pos + Len(lit)]
    IN  CASE StartsWith(text, pos, t_null)   -> Literal("NULL", t_null)
          [] StartsWith(text, pos, t_false)  -> Literal("False", t_false)
          [] StartsWith(text, pos, t_true)   -> Literal("True", t_true)
          [] c = QUOTE                       -> parse_string(h, item, text, pos)
          [] c = MINUS \/ IsDigit(c)         -> parse_number(h, item, text, pos)
          [] c \in {LBRACKET, LBRACE}        ->
                ParseGroup(h, item, IF c = LBRACKET THEN "Array" ELSE "Object", text, pos)
          [] OTHER                           -> [h |-> h, pos |-> NULL]

\* cJSON_ParseWithOpts(value, 0, 0): what follows the value is not looked at.
cJSON_Parse(h, text) ==
    LET Ended(end, c) == IF end.pos = NULL THEN [h |-> cJSON_Delete(end.h, c), p |-> NULL]
                                           ELSE [h |-> end.h, p |-> c]
        Parsed(c)     == IF c.p = NULL THEN c
                         ELSE Ended(parse_value(c.h, c.p, text, skip(text, 1)), c.p)
    IN  Parsed(cJSON_New_Item(h))

-----------------------------------------------------------------------------
\* cJSON_Minify: blanks and comments go, string literals are kept as they are.
\* The search for the end of a comment stops at the end of the text too.
EndOf(text, pos, stops) ==
    CHOOSE q \in pos .. Len(text) + 1 :
        (q \in stops \/ q = Len(text) + 1) /\ stops \cap (pos .. q - 1) = {}

RECURSIVE EndOfString(_, _)
EndOfString(text, pos) ==
    CASE At(text, pos) \in {QUOTE, NUL} -> pos
      [] At(text, pos) = BACKSLASH      -> EndOfString(text, pos + 2)
      [] OTHER                          -> EndOfString(text, pos + 1)

RECURSIVE MinifyFrom(_, _)
MinifyFrom(text, pos) ==
    LET c == At(text, pos)
        lineEnds    == {q \in DOMAIN text : text[q] = LF}
        commentEnds == {q \in DOMAIN text : text[q] = STAR /\ At(text, q + 1) = SLASH}
    IN  CASE c = NUL -> <<>>
          [] c \in {SPACE, TAB, CR, LF} -> MinifyFrom(text, pos + 1)
          [] c = SLASH /\ At(text, pos + 1) = SLASH ->
                MinifyFrom(text, EndOf(text, pos, lineEnds))
          [] c = SLASH /\ At(text, pos + 1) = STAR ->
                MinifyFrom(text, EndOf(text, pos, commentEnds) + 2)
          [] c = QUOTE -> LET q == EndOfString(text, pos + 1)
                          IN  SubSeq(text, pos, q) \o MinifyFrom(text, q + 1)
          [] OTHER -> <<c>> \o MinifyFrom(text, pos + 1)

cJSON_Minify(text) == MinifyFrom(text, 1)
=============================================================================
