------------------------------- MODULE Output -------------------------------
(***************************************************************************)
(* What the main loop puts out in a beat: the report's text, from the      *)
(* parameter points through cJSON to the frame in dbuf                     *)
(* (ws_format_hardware_data, ws_format_uplink_data), and the table on the  *)
(* console (show_hw_table; the table itself is module Console's).          *)
(*                                                                         *)
(* Every malloc may fail.  The clock may be set.  Readings are sampled in  *)
(* one step (module Acquisition has the steps); a reading is its count of  *)
(* tenths, what "%.1f" keeps of it.                                        *)
(***************************************************************************)
EXTENDS Console, JsonText, SequencesExt

CONSTANTS
    Points,     \* what is configured: [kks, ref, vtype, unit, io] for each point, texts
                \* as bytes; vtype and unit are the type's name and unit
    Info,       \* [name, id, kind] of the terminal
    Readings,
    Junk,       \* rows a stack that has been overrun may leave in str
    MaxNodes, MaxMallocs    \* memory for a report, mallocs of a step

ASSUME ConfigAssumption ==
    /\ DOMAIN Points = Chan
    /\ \A c \in Chan : /\ Len(Points[c].kks) <= KksMax /\ Len(Points[c].ref) <= RefMax
                       /\ Len(Points[c].vtype) <= VtypeMax
    /\ Len(Info.name) <= NameMax /\ Len(Info.id) <= IdMax /\ Len(Info.kind) <= KindMax
    /\ 1 <= TimeMax
    /\ Junk \subseteq RowText

VARIABLES
    val, status, param_time,    \* of the points
    heap,
    tree,       \* the local pointers json, root and array
    i,          \* the point the format loop is at
    str,        \* the JSON text
    dbuf,
    failed,     \* history: a malloc has failed in this beat
    due,        \* history: the points this beat's report is about
    size        \* history: how long the report's JSON text is going to be, as far as it is decided

points  == <<val, status, param_time>>
report  == <<heap, tree, i, str, failed, due, size>>
vars    == <<pc, points, report, dbuf, console>>

NoTree   == [json |-> NULL, root |-> NULL, array |-> NULL]

TypeOK ==
    /\ ConsoleTypeOK
    /\ val \in [Chan -> Readings] /\ status \in [Chan -> {"UPTARE", "USED"}]
    /\ \A c \in Chan : Len(param_time[c]) <= TimeMax
    /\ i \in 1 .. nChNum + 1
    /\ \A k \in 1 .. Len(dbuf) : dbuf[k] \in Byte
    /\ failed \in BOOLEAN /\ due \subseteq Chan

Init ==
    /\ ConsoleInit
    /\ val = [c \in Chan |-> 0] /\ status = [c \in Chan |-> "UPTARE"]
    /\ param_time = [c \in Chan |-> <<>>]
    /\ heap = EmptyHeap(MaxNodes) /\ tree = NoTree /\ i = 1
    /\ str = NoText /\ dbuf = <<>>
    /\ failed = FALSE /\ due = {} /\ size = 0

\* A step with its k-th malloc failing, or none (k = 0); bound: one failure a beat.
FailAt == 0 .. (IF failed THEN 0 ELSE MaxMallocs)
From(k) == [heap EXCEPT !.left = k]
Done(k, h) == h.left = 0 /\ heap' = h /\ failed' = (failed \/ k > 0)

\* A NULL is followed, or the stack is gone.
Crash == /\ pc' = "crashed" /\ heap' = EmptyHeap(MaxNodes) /\ tree' = NoTree
         /\ str' = NoText /\ i' = 1 /\ size' = 0 /\ dbuf' = <<>>

-----------------------------------------------------------------------------
(* The operator and the clock.                                             *)

Signal == signal_table_handler /\ UNCHANGED <<points, report, dbuf>>
Tick   == ClockSet /\ UNCHANGED <<points, report, dbuf>>

-----------------------------------------------------------------------------
(* hw_heartbeat and the start of ws_heartbeat.                             *)

\* A time stamp: only told apart from none.
get_sys_time == <<48>>

Sample_Keep ==
    /\ pc = "sample" /\ pc' = "look"
    /\ \E r \in [Chan -> Readings] :
          LET Changed(c) == r[c] # val[c]
          IN  /\ val' = r
              /\ param_time' = [c \in Chan |-> IF Changed(c) THEN get_sys_time ELSE param_time[c]]
              /\ status' = [c \in Chan |-> IF Changed(c) THEN "UPTARE" ELSE "KEEP"]
    /\ UNCHANGED <<report, dbuf, console>>
Sample ==
    /\ pc = "sample" /\ pc' = "look"
    /\ \E r \in [Chan -> Readings] :
          LET Changed(c) == r[c] # val[c]
          IN  /\ val' = r
              /\ param_time' = [c \in Chan |-> IF Changed(c) THEN get_sys_time ELSE param_time[c]]
              /\ status' = [c \in Chan |-> IF Changed(c) THEN "UPTARE" ELSE status[c]]
    /\ UNCHANGED <<report, dbuf, console>>

\* No point has changed: no report.
LookIdle ==
    /\ pc = "look" /\ \A c \in Chan : status[c] # "UPTARE"
    /\ pc' = "table"
    /\ UNCHANGED <<points, report, dbuf, console>>

-----------------------------------------------------------------------------
(* ws_format_hardware_data.                                                *)

k_name     == <<110, 97, 109, 101>>
k_id       == <<105, 100>>
k_terminal == <<116, 101, 114, 109, 105, 110, 97, 108>>
k_mtype    == <<109, 116, 121, 112, 101>>
k_t        == <<116>>
k_params   == <<112, 97, 114, 97, 109, 115>>
k_json     == <<106, 115, 111, 110>>
k_kks      == <<107, 107, 115>>
k_ref      == <<114, 101, 102>>
k_vtype    == <<118, 116, 121, 112, 101>>
k_val      == <<118, 97, 108>>
MSGE       == <<77, 83, 71, 69>>

AddStrings(h, object, members) ==
    FoldLeft(LAMBDA h1, m : cJSON_AddStringToObject(h1, object, m[1], m[2]), h, members)

\* The length the text will have with the points that are in the array.
Planned(h, root, array) ==
    IF array = NULL THEN 0
    ELSE Len(print_value(h, root, 1, TRUE).out) + Len(print_value(h, array, 2, TRUE).out) + 27

HeadFields == << <<k_name, Info.name>>, <<k_id, Info.id>>, <<k_terminal, Info.kind>>,
                 <<k_mtype, MSGE>>, <<k_t, get_sys_time>> >>

\* The local objects are created and the terminal's fields added; the members of a
\* root that could not be made are added through a NULL.
Open(k) ==
    LET json  == CreateItem(From(k), "Object")
        root  == CreateItem(json.h, "Object")
        array == CreateItem(root.h, "Array")
        h     == AddStrings(array.h, root.p, HeadFields)
    IN  /\ pc = "look" /\ \E c \in Chan : status[c] = "UPTARE"
        /\ due' = {c \in Chan : status[c] = "UPTARE"}
        /\ IF root.p = NULL
           THEN Crash /\ failed' = TRUE
           ELSE /\ pc' = "format" /\ i' = 1 /\ Done(k, h)
                /\ tree' = [json |-> json.p, root |-> root.p, array |-> array.p]
                /\ size' = Planned(h, root.p, array.p)
                /\ UNCHANGED <<str, dbuf>>
        /\ UNCHANGED <<points, console>>

\* get_val_strUnit: "%.1f-%s"
get_val_strUnit(v, unit) ==
    LET abs == IF v < 0 THEN -v ELSE v
    IN  (IF v < 0 THEN <<MINUS>> ELSE <<>>) \o Digits(abs \div 10) \o <<DOT, 48 + (abs % 10)>>
            \o <<MINUS>> \o unit

\* The configured description; what follows the first return is not reached.
get_param_ref(c) == Points[c].ref

\* _ws_format_hardware_param
PointFields_Named(c) ==
    << <<k_name, Info.name>>, <<k_kks, Points[c].kks>>, <<k_ref, get_param_ref(c)>>,
       <<k_vtype, Points[c].vtype>>, <<k_val, get_val_strUnit(val[c], Points[c].unit)>>,
       <<k_t, param_time[c]>> >>
PointFields(c) ==
    << <<k_kks, Points[c].kks>>, <<k_ref, get_param_ref(c)>>, <<k_vtype, Points[c].vtype>>,
       <<k_val, get_val_strUnit(val[c], Points[c].unit)>>, <<k_t, param_time[c]>> >>

FormatSkip ==
    /\ pc = "format" /\ i <= nChNum /\ status[i] # "UPTARE"
    /\ i' = i + 1
    /\ UNCHANGED <<pc, points, heap, tree, str, failed, due, size, dbuf, console>>

\* Without memory for the point's object the function returns at once, and its caller
\* measures the NULL that *out still is; an array that could not be made is followed.
FormatPoint(k) ==
    LET jparam == CreateItem(From(k), "Object")
        h1     == AddStrings(jparam.h, jparam.p, PointFields(i))
        h2     == cJSON_AddItemToArray(h1, tree.array, jparam.p)
    IN  /\ pc = "format" /\ i <= nChNum /\ status[i] = "UPTARE"
        /\ IF jparam.p = NULL \/ tree.array = NULL
           THEN Crash /\ failed' = TRUE /\ UNCHANGED status
           ELSE /\ status' = [status EXCEPT ![i] = "USED"]
                /\ Done(k, h2)
                /\ i' = i + 1 /\ size' = Planned(h2, tree.root, tree.array)
                /\ UNCHANGED <<pc, tree, str, dbuf>>
        /\ UNCHANGED <<val, param_time, due, console>>

\* The trees are put together, printed and deleted.
FormatEnd(k) ==
    LET h1  == cJSON_AddItemToObject(From(k), tree.root, k_params, tree.array)
        h2  == cJSON_AddItemToObject(h1, tree.json, k_json, tree.root)
        out == cJSON_Print(h2, tree.json)
    IN  /\ pc = "format" /\ i = nChNum + 1
        /\ IF tree.json = NULL \/ out.out = NoText
           THEN Crash /\ failed' = TRUE
           ELSE /\ pc' = "encode" /\ str' = out.out /\ tree' = NoTree
                /\ Done(k, cJSON_Delete(out.h, tree.json))
                /\ size' = Len(str')
                /\ UNCHANGED <<i, dbuf>>
        /\ UNCHANGED <<points, due, console>>

-----------------------------------------------------------------------------
(* ws_data_pack_and_send.                                                  *)

\* {"cmdCode":1,"cmdMerge":65537,"data":[
Prefix == <<123, 34, 99, 109, 100, 67, 111, 100, 101, 34, 58, 49, 44,
            34, 99, 109, 100, 77, 101, 114, 103, 101, 34, 58, 54, 53, 53, 51, 55, 44,
            34, 100, 97, 116, 97, 34, 58, 91>>

\* "%d," of a char, which is signed on a PC and unsigned on the ARM boards.
Decimal(byte, signed) == (IF signed /\ byte > 127 THEN <<MINUS>> \o Digits(256 - byte) ELSE Digits(byte)) \o <<COMMA>>

RECURSIVE Join(_)
Join(texts) ==
    LET m == Len(texts) \div 2
    IN  IF Len(texts) = 1 THEN texts[1]
        ELSE Join(SubSeq(texts, 1, m)) \o Join(SubSeq(texts, m + 1, Len(texts)))

ws_format_uplink_data_KeepsComma(jdata, signed) ==
    Prefix \o Join([n \in 1 .. Len(jdata) |-> Decimal(jdata[n], signed)]) \o <<RBRACKET, RBRACE>>
ws_format_uplink_data(jdata, signed) ==
    LET all == Prefix \o Join([n \in 1 .. Len(jdata) |-> Decimal(jdata[n], signed)])
    IN  Front(all) \o <<RBRACKET, RBRACE>>

Encode ==
    /\ pc = "encode" /\ pc' = "store"
    /\ \E signed \in BOOLEAN : dbuf' = ws_format_uplink_data(str, signed)
    /\ UNCHANGED <<points, report, console>>

\* dbuf is copied to p_user (module WsLink), and written from its start the next time:
\* what is in it is not kept.  str is freed.
Store_KeepsText ==
    /\ pc = "store" /\ pc' = "table"
    /\ str' = NoText /\ size' = 0 /\ dbuf' = <<>>
    /\ UNCHANGED <<points, heap, tree, i, failed, due, console>>
Store ==
    /\ pc = "store" /\ pc' = "table"
    /\ heap' = free(heap, 1) /\ str' = NoText /\ size' = 0 /\ dbuf' = <<>>
    /\ UNCHANGED <<points, tree, i, failed, due, console>>

-----------------------------------------------------------------------------
(* show_hw_table.                                                          *)

\* hw_var2string: "%f"
hw_var2string(v) ==
    LET abs == IF v < 0 THEN -v ELSE v
    IN  (IF v < 0 THEN <<MINUS>> ELSE <<>>) \o Digits(abs \div 10)
            \o <<DOT, 48 + (abs % 10)>> \o Repeat(48, 5)

\* The fields of a point's row; its description is "xx/type.kindport".
Row(c) ==
    LET p == Points[c]
    IN  <<Digits(c), p.kks,
          <<120, 120, SLASH>> \o p.vtype \o <<DOT>> \o Info.kind \o Digits(p.io),
          p.vtype, hw_var2string(val[c]), param_time[c]>>

\* The row is printed into str[maxWidth], fields and commas, without a length check.
Overrun(c) == FoldLeft(LAMBDA n, f : n + Len(f), 5, Row(c)) + 1 > maxWidth

\* The table is made, shown and freed, or there is no memory for it and the NULL is
\* followed.  Once str has been overrun the process faults or goes on with other rows.
show_hw_table ==
    \/ /\ NameFits(TableName, 6, maxWidth)
       /\ \E rows \in [Chan -> Junk \cup {Row(c) : c \in Chan}] :
             /\ \A c \in Chan : \/ rows[c] = Row(c)
                                \/ rows[c] \in Junk /\ \E d \in 1 .. c : Overrun(d)
             /\ shown' = rows
       /\ pc' = "pause"
       /\ heap' = free(malloc(heap).h, 1)
       /\ UNCHANGED <<tree, str, i, failed, size, dbuf>>
    \/ Crash /\ failed' = TRUE /\ UNCHANGED shown
    \/ (\E c \in Chan : Overrun(c)) /\ Crash /\ UNCHANGED <<shown, failed>>

Display   == TableDue /\ show_hw_table /\ ShowTable /\ UNCHANGED <<points, due>>
NoDisplay == SkipTable /\ UNCHANGED <<points, report, dbuf>>

Wake ==
    /\ NextBeat
    /\ failed' = FALSE /\ due' = {} /\ i' = 1
    /\ UNCHANGED <<points, heap, tree, str, size, dbuf>>

-----------------------------------------------------------------------------
Next == \/ Signal \/ Tick
        \/ Sample \/ LookIdle \/ FormatSkip \/ Encode \/ Store
        \/ \E k \in FailAt : Open(k) \/ FormatPoint(k) \/ FormatEnd(k)
        \/ Display \/ NoDisplay \/ Wake

Spec == Init /\ [][Next]_vars

-----------------------------------------------------------------------------
(* Properties.                                                             *)

\* The upper computer's side: the numbers of the data array are the bytes of a JSON
\* text.  Not code of this repository.
Bytes(text) ==
    LET ends   == SelectSeq([n \in 1 .. Len(text) |-> n],
                            LAMBDA n : n > Len(Prefix) /\ text[n] \in {COMMA, RBRACKET})
        Start(n) == IF n = 1 THEN Len(Prefix) + 1 ELSE ends[n - 1] + 1
        Value(p) == IF text[p] = MINUS THEN 256 - Number(text, p + 1, 0).n ELSE Number(text, p, 0).n
    IN  [n \in 1 .. Len(ends) |-> Value(Start(n))]

\* An object's members that are strings, as pairs.
Members(h, c) ==
    LET kids == SelectSeq(Children(h, c), LAMBDA n : h.mem[n].type = "String")
    IN  [n \in 1 .. Len(kids) |-> <<h.mem[kids[n]].string, h.mem[kids[n]].valuestring>>]

\* The points the report is about, in their order.
DueFields ==
    LET order == SelectSeq([c \in Chan |-> c], LAMBDA c : c \in due)
    IN  [n \in 1 .. Len(order) |-> PointFields(order[n])]

\* got has some of the members of sent, and no others.
PartOf(got, sent) == got = SelectSeq(sent, LAMBDA m : \E n \in 1 .. Len(got) : got[n] = m)

\* What the upper computer reads from the frame is the terminal's description and every
\* changed point with its five texts, whatever bytes they are made of.  When memory ran
\* out on the way, it gets nothing it can parse, or the same points with members
\* missing: never another value, never a point that was not due.
FrameMeansReport ==
    LET Whole(r, root, got) ==
            /\ r.p # NULL
            /\ Members(r.h, root) = HeadFields
            /\ [n \in 1 .. Len(got) |-> Members(r.h, got[n])] = DueFields
        Part(r, root, got) ==
            r.p # NULL => /\ PartOf(Members(r.h, root), HeadFields)
                          /\ Len(got) = Len(DueFields)
                          /\ \A n \in 1 .. Len(got) : PartOf(Members(r.h, got[n]), DueFields[n])
        Params(r, root) == Children(r.h, cJSON_GetObjectItem(r.h, root, k_params))
        Means(r, root)  == IF failed THEN Part(r, root, Params(r, root))
                                     ELSE Whole(r, root, Params(r, root))
        Reads(r)        == Means(r, cJSON_GetObjectItem(r.h, r.p, k_json))
    IN  pc = "store" => /\ Bytes(dbuf) = str
                        /\ Reads(cJSON_Parse(EmptyHeap(MaxNodes), str))

\* A beat leaves nothing behind: the trees, the text and the table are freed.
NothingLeaks == pc \in {"sample", "look", "table", "pause"} => heap = EmptyHeap(MaxNodes)

-----------------------------------------------------------------------------
Sizes == INSTANCE Uplink WITH
    stage <- CASE pc = "format" -> "format" [] pc = "encode" -> "printed"
               [] pc = "store" -> "encoded" [] OTHER -> "idle",
    n     <- CASE pc = "format" -> i - 1 [] pc \in {"encode", "store"} -> nChNum [] OTHER -> 0,
    len   <- size,
    dlen  <- Len(dbuf)

\* The texts are never longer than the abstract specification of the lengths allows, for
\* which it is proved that the report, with its terminator, stays within dbuf
\* (srv_websocket.cpp:54); and the console is as module Console has it, for which it is
\* proved that the table stands.
ImplementsParts == Sizes!Spec /\ ConsoleSpec
=============================================================================
