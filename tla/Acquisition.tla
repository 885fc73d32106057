---------------------------- MODULE Acquisition ----------------------------
(***************************************************************************)
(* The main thread's loop (usr_main/source/srv_main.cpp): every beat it    *)
(* samples the board's shared memory into the parameter caches             *)
(* (hw_param_monitor), looks for a changed parameter (ws_param_monitor)    *)
(* and, when there is one, formats the changed parameters into a report    *)
(* (ws_format_hardware_data) and hands it to the websocket link.           *)
(*                                                                         *)
(* Two actors share memory with the loop: the acquisition board, another   *)
(* process that writes the segment at any moment, and the websocket        *)
(* thread, of which only the allocation of p_user matters here (module     *)
(* WsLink has the rest).  Signals stop the loop.                           *)
(***************************************************************************)
EXTENDS Hardware

CONSTANTS
    nChNum,     \* number of parameter points (hardware::nChNum)
    kind,       \* hwInfo.kind
    val_type,   \* [Chan -> Types]: configured value type of each point
    io,         \* [Chan -> Nat]: configured port of each point
    Value,      \* the readings, floats told apart by ==
    Zero,       \* 0.0, what calloc leaves in a cache
    MinusOne,   \* -1.0, what an undefined environment type reads as
    NaN,        \* the float that is not equal to itself
    None        \* no value

Chan == 0 .. nChNum - 1

Source(c) == SourceOf(kind, val_type[c], io[c])

\* The cells some point reads: no other cell of the segment can be observed.
Watched == {Source(c) : c \in Chan} \cap ShmAddr

ASSUME ChannelAssumption == nChNum \in Nat
ASSUME PointAssumption   == /\ kind \in Kinds
                            /\ val_type \in [Chan -> Types]
                            /\ io \in [Chan -> Nat]
ASSUME ValueAssumption   == /\ Zero \in Value
                            /\ MinusOne \in Value
                            /\ None \notin Value

VARIABLES
    shm,        \* the watched cells of the shared segment
    val,        \* pCache[c]->val
    status,     \* pCache[c]->status
    stamped,    \* pCache[c]->param_time is not the empty string
    pc,         \* where the main thread is
    i,          \* index of the monitor and format loops
    dbuf,       \* the report being built: the value each point's text is made from,
                \* or None for a point it does not have
    p_user,     \* ws_prot[0].p_user has been allocated
    g_running,
    packed,     \* history: the value of each point in the last report that has it
    window      \* history: the values each point's cell held since this beat began

vars == <<shm, val, status, stamped, pc, i, dbuf, p_user, g_running, packed, window>>

hwVars == <<val, status, stamped>>

PCs == {"top", "monitor", "look", "format", "send", "stopped", "crashed"}

NoReport == [c \in Chan |-> None]

TypeOK ==
    /\ shm \in [Watched -> Value]
    /\ val \in [Chan -> Value]
    /\ status \in [Chan -> Statuses]
    /\ stamped \in [Chan -> BOOLEAN]
    /\ pc \in PCs
    /\ i \in 0 .. nChNum
    /\ dbuf \in [Chan -> Value \cup {None}]
    /\ p_user \in BOOLEAN
    /\ g_running \in BOOLEAN
    /\ packed \in [Chan -> Value \cup {None}]
    /\ window \in [Chan -> SUBSET Value]

-----------------------------------------------------------------------------
\* objects_new_2arr: calloc, so every status is the enumeration's first member.
NewStatus_Init == "INIT"
NewStatus == "UPTARE"

Init ==
    /\ shm \in [Watched -> Value]
    /\ val = [c \in Chan |-> Zero]
    /\ status = [c \in Chan |-> NewStatus]
    /\ stamped = [c \in Chan |-> FALSE]
    /\ pc = "top"
    /\ i = 0
    /\ dbuf = NoReport
    /\ p_user = FALSE
    /\ g_running = TRUE
    /\ packed = NoReport
    /\ window = [c \in Chan |-> {}]

-----------------------------------------------------------------------------
(* The board, the websocket thread and the operator.                       *)

BoardWrite(a, v) ==
    /\ shm[a] # v
    /\ shm' = [shm EXCEPT ![a] = v]
    /\ window' = [c \in Chan |-> IF Source(c) = a THEN window[c] \cup {v}
                                                  ELSE window[c]]
    /\ UNCHANGED <<hwVars, pc, i, dbuf, p_user, g_running, packed>>

\* ws_prot_regist allocates the buffer once; until then reports are refused.
UserAlloc ==
    /\ ~p_user
    /\ p_user' = TRUE
    /\ UNCHANGED <<shm, hwVars, pc, i, dbuf, g_running, packed, window>>

signal_handler ==
    /\ g_running
    /\ g_running' = FALSE
    /\ UNCHANGED <<shm, hwVars, pc, i, dbuf, p_user, packed, window>>

-----------------------------------------------------------------------------
(* hw_heartbeat: sample every point.                                       *)

\* The test of loop()'s while and the start of hw_param_monitor.
LoopTop ==
    /\ pc = "top"
    /\ pc' = IF g_running THEN "monitor" ELSE "stopped"
    /\ i' = 0
    /\ window' = [c \in Chan |-> IF Source(c) \in Watched THEN {shm[Source(c)]} ELSE {}]
    /\ UNCHANGED <<shm, hwVars, dbuf, p_user, g_running, packed>>

\* What get_gpio_val can leave in rdata.  For a kind it does not know the caller
\* ignores the error and uses its uninitialised local; behind the end of the
\* segment the load returns whatever is mapped there.
Readings(c) ==
    CASE Source(c) \in Watched    -> {shm[Source(c)]}
      [] Source(c) = EnvUndefined -> {MinusOne}
      [] OTHER                    -> Value

FloatEq(x, y) == x = y /\ x # NaN

\* One iteration of hw_param_monitor's loop.
MonitorChannel_NoStatus ==
    /\ pc = "monitor" /\ i < nChNum
    /\ \E rdata \in Readings(i) :
          IF FloatEq(val[i], rdata)
          THEN UNCHANGED hwVars
          ELSE /\ val' = [val EXCEPT ![i] = rdata]
               /\ stamped' = [stamped EXCEPT ![i] = TRUE]
               /\ UNCHANGED status
    /\ i' = i + 1
    /\ UNCHANGED <<shm, pc, dbuf, p_user, g_running, packed, window>>
MonitorChannel_NoTime ==
    /\ pc = "monitor" /\ i < nChNum
    /\ \E rdata \in Readings(i) :
          IF FloatEq(val[i], rdata)
          THEN UNCHANGED hwVars
          ELSE /\ val' = [val EXCEPT ![i] = rdata]
               /\ UNCHANGED stamped
               /\ status' = [status EXCEPT ![i] = "UPTARE"]
    /\ i' = i + 1
    /\ UNCHANGED <<shm, pc, dbuf, p_user, g_running, packed, window>>
MonitorChannel ==
    /\ pc = "monitor" /\ i < nChNum
    /\ \E rdata \in Readings(i) :
          IF FloatEq(val[i], rdata)
          THEN UNCHANGED hwVars
          ELSE /\ val' = [val EXCEPT ![i] = rdata]
               /\ stamped' = [stamped EXCEPT ![i] = TRUE]
               /\ status' = [status EXCEPT ![i] = "UPTARE"]
    /\ i' = i + 1
    /\ UNCHANGED <<shm, pc, dbuf, p_user, g_running, packed, window>>

\* The same load, when the address is not mapped.
MonitorFault ==
    /\ pc = "monitor" /\ i < nChNum
    /\ Source(i) >= ShmCells
    /\ pc' = "crashed"
    /\ UNCHANGED <<shm, hwVars, i, dbuf, p_user, g_running, packed, window>>

MonitorEnd_Early ==
    /\ pc = "monitor" /\ i = nChNum - 1
    /\ pc' = "look"
    /\ UNCHANGED <<shm, hwVars, i, dbuf, p_user, g_running, packed, window>>
MonitorEnd ==
    /\ pc = "monitor" /\ i = nChNum
    /\ pc' = "look"
    /\ UNCHANGED <<shm, hwVars, i, dbuf, p_user, g_running, packed, window>>

-----------------------------------------------------------------------------
(* ws_heartbeat: report the points that changed.                           *)

\* hw_look_cache_status
hw_look_cache_status_First ==
    IF nChNum > 0 /\ status[0] = "UPTARE" THEN "UPTARE" ELSE "KEEP"
hw_look_cache_status ==
    IF \E c \in Chan : status[c] = "UPTARE" THEN "UPTARE" ELSE "KEEP"

\* ws_param_monitor and the refusal at the top of ws_data_pack_and_send.
Look_NoReset ==
    /\ pc = "look"
    /\ IF hw_look_cache_status = "UPTARE" /\ p_user
       THEN pc' = "format" /\ i' = i + 1 /\ dbuf' = NoReport
       ELSE pc' = "top" /\ UNCHANGED <<i, dbuf>>
    /\ UNCHANGED <<shm, hwVars, p_user, g_running, packed, window>>
Look ==
    /\ pc = "look"
    /\ IF hw_look_cache_status = "UPTARE" /\ p_user
       THEN pc' = "format" /\ i' = 0 /\ dbuf' = NoReport
       ELSE pc' = "top" /\ UNCHANGED <<i, dbuf>>
    /\ UNCHANGED <<shm, hwVars, p_user, g_running, packed, window>>

\* One iteration of ws_format_hardware_data's loop: hw_used_cache, then the
\* point's value and time go into the report.  Scaling, rounding and the unit of
\* the text are functions of val and the configuration; no property compares texts.
FormatChannel_NotUsed ==
    /\ pc = "format" /\ i < nChNum
    /\ IF status[i] = "UPTARE"
       THEN /\ dbuf' = [dbuf EXCEPT ![i] = val[i]]
            /\ packed' = [packed EXCEPT ![i] = val[i]]
       ELSE UNCHANGED <<dbuf, packed>>
    /\ i' = i + 1
    /\ UNCHANGED <<shm, hwVars, pc, p_user, g_running, window>>
FormatChannel ==
    /\ pc = "format" /\ i < nChNum
    /\ IF status[i] = "UPTARE"
       THEN /\ status' = [status EXCEPT ![i] = "USED"]
            /\ dbuf' = [dbuf EXCEPT ![i] = val[i]]
            /\ packed' = [packed EXCEPT ![i] = val[i]]
       ELSE UNCHANGED <<status, dbuf, packed>>
    /\ i' = i + 1
    /\ UNCHANGED <<shm, val, stamped, pc, p_user, g_running, window>>

FormatEnd ==
    /\ pc = "format" /\ i = nChNum
    /\ pc' = "send"
    /\ UNCHANGED <<shm, hwVars, i, dbuf, p_user, g_running, packed, window>>

\* The rest of ws_data_pack_and_send (module WsLink) and the end of the beat.
Send ==
    /\ pc = "send"
    /\ pc' = "top"
    /\ UNCHANGED <<shm, hwVars, i, dbuf, p_user, g_running, packed, window>>

-----------------------------------------------------------------------------
loop == \/ LoopTop
        \/ MonitorChannel \/ MonitorFault \/ MonitorEnd
        \/ Look
        \/ FormatChannel \/ FormatEnd
        \/ Send

Next == \/ loop
        \/ \E a \in Watched, v \in Value : BoardWrite(a, v)
        \/ UserAlloc
        \/ signal_handler

Spec == Init /\ [][Next]_vars

\* The kernel schedules the main thread and the websocket thread; nothing is
\* assumed of the board and of the operator.
FairSpec == Spec /\ WF_vars(loop) /\ WF_vars(UserAlloc)

-----------------------------------------------------------------------------
(* Properties.                                                             *)

\* The dirty flag is exact: a point marked used has not changed since it was
\* last put in a report, so skipping it (ws_dataflow.cpp:146) loses nothing.
DirtyExact ==
    \A c \in Chan : status[c] # "UPTARE" => packed[c] = val[c]

\* When a beat reports, every point's cached value is one its cell held during
\* this very beat: no point is reported from an earlier beat's sample.
Fresh ==
    pc \in {"look", "format", "send"} =>
        \A c \in Chan : Source(c) \in Watched => val[c] \in window[c]

\* Every report after the first is about changes only, and the first one has
\* every point: the calloc'ed status makes all of them due.
FirstReportComplete ==
    (pc \in {"top", "monitor", "look", "send"} /\ packed # NoReport)
        => \A c \in Chan : packed[c] # None

\* A point is reported again only with another value, or because it is NaN,
\* which hw_param_monitor takes for a change at every beat.
ReportsChange ==
    [][\A c \in Chan :
          (pc = "format" /\ i = c /\ i' # i /\ status[c] = "UPTARE")
             => packed[c] # val[c] \/ val[c] = NaN]_vars

\* A report without a time (ws_dataflow.cpp:111) is about a point that no sample has
\* updated: its value is calloc's 0.0, and it is the point's first report.
UnstampedFirst ==
    \A c \in Chan : ~stamped[c] => /\ val[c] = Zero
                                   /\ status[c] = "UPTARE" => packed[c] = None

\* A reading that settles is the last one reported, if the loop keeps running.
SettledReported ==
    \A c \in Chan : \A v \in Value :
        (<>[](Source(c) \in Watched /\ shm[Source(c)] = v /\ g_running /\ pc # "crashed"))
            => <>[](packed[c] = v)

-----------------------------------------------------------------------------
(* The inductive invariant behind the safety properties.                   *)

\* Since the beat began, window has followed every watched cell.
CellSeen ==
    pc \in {"monitor", "look", "format", "send"} =>
        \A c \in Chan : Source(c) \in Watched => shm[Source(c)] \in window[c]

\* The points this beat has sampled.
Sampled(c) == \/ pc = "monitor" /\ c < i
              \/ pc \in {"look", "format", "send"}

SampleFresh ==
    \A c \in Chan : Sampled(c) /\ Source(c) \in Watched => val[c] \in window[c]

\* Nothing is reported before there is a buffer to report in.
RefusedBefore == (pc = "format" => p_user) /\ (~p_user => packed = NoReport)

\* A point due for a report was never reported, or was found changed in this beat:
\* a beat that could report leaves nothing due behind.
DueIsChanged ==
    \A c \in Chan : status[c] = "UPTARE" =>
        \/ packed[c] = None
        \/ Sampled(c) /\ (packed[c] # val[c] \/ val[c] = NaN)
        \/ pc = "crashed"

\* The points the format loop has passed are no longer due.
FormattedUsed ==
    \A c \in Chan : (pc = "format" /\ c < i) \/ pc = "send" => status[c] # "UPTARE"

AllOrNothing ==
    pc # "format" => packed = NoReport \/ \A c \in Chan : packed[c] # None

IInv == /\ TypeOK /\ DirtyExact /\ UnstampedFirst
        /\ CellSeen /\ SampleFresh
        /\ RefusedBefore /\ DueIsChanged /\ FormattedUsed /\ AllOrNothing
=============================================================================
