------------------------------ MODULE Terminal ------------------------------
(***************************************************************************)
(* The acquisition terminal as one process: the main loop of Acquisition   *)
(* and the websocket link of WsLink, joined where the code joins them.     *)
(* The main thread of WsLink is the loop's "send" step, the link's buffer  *)
(* is the p_user whose allocation the loop waits for, and a stored report  *)
(* has the points and values the loop formatted.  A fault in any thread,   *)
(* or main's return, ends all threads.                                     *)
(*                                                                         *)
(* The upper computer (2.Tool/ws_server_test is its stand-in) is external: *)
(* it can use a frame that is exactly one report.                          *)
(***************************************************************************)
EXTENDS Integers, Sequences

CONSTANTS nChNum, kind, val_type, io, Value, Zero, MinusOne, NaN, None,
          MaxWrites,    \* bound: changes of the board's readings
          MaxReports,   \* bound of WsLink
          MaxDown       \* bound of WsLink

\* Every report but the first needs a change: the bound on reports is never met.
ASSUME WritesAssumption == MaxWrites \in Nat /\ MaxReports = MaxWrites + 1
ASSUME DownAssumption   == MaxDown \in Nat

VARIABLES
    shm, val, status, stamped, pc, i, dbuf, g_running, packed, window,
    allocated, buf, wsi_multi, established, pthread_state, user_state, lock_ring,
    wsi, writable, received, mpc, size, stored, lpc, len, sbuf, rtn, hpc, taken,
    crashed, served, openAt,
    writes,     \* changes the board has made
    reports,    \* history: the reports, each with its points and its size
    delivered,  \* history: the value of each point the upper computer has last got
    upto        \* history: the report it last got them from

A == INSTANCE Acquisition WITH p_user <- allocated
L == INSTANCE WsLink

\* What Acquisition assumes of its constants.
ASSUME PointsAssumption == /\ nChNum \in Nat /\ kind \in A!Kinds
                           /\ val_type \in [A!Chan -> A!Types]
                           /\ io \in [A!Chan -> Nat]
ASSUME ValuesAssumption == Zero \in Value /\ MinusOne \in Value /\ None \notin Value

\* What the terminal promises the upper computer.
M == INSTANCE Monitoring
        WITH Point  <- A!Chan,
             cell   <- [c \in A!Chan |-> IF A!Source(c) \in A!Watched
                                         THEN shm[A!Source(c)] ELSE None],
             recent <- window,
             log    <- [n \in 1 .. Len(reports) |-> reports[n].points]

acq  == <<shm, val, status, stamped, pc, i, dbuf, g_running, packed, window>>
link == <<buf, wsi_multi, established, pthread_state, user_state, lock_ring,
          wsi, writable, received, mpc, size, stored, lpc, len, sbuf, rtn, hpc, taken,
          crashed, served, openAt>>
hist == <<writes, reports, delivered, upto>>
vars == <<acq, allocated, link, hist>>

Alive == ~crashed /\ pc \notin {"stopped", "crashed"}

Init == /\ A!Init /\ L!Init
        /\ writes = 0
        /\ reports = <<>>
        /\ delivered = A!NoReport
        /\ upto = 0

-----------------------------------------------------------------------------
\* Steps of the loop that do not touch the link, and the signal.
Sample ==
    /\ Alive
    /\ \/ A!LoopTop \/ A!MonitorChannel \/ A!MonitorFault \/ A!MonitorEnd
       \/ A!Look \/ A!FormatChannel \/ A!FormatEnd
    /\ UNCHANGED <<link, hist>>

Signal == Alive /\ A!signal_handler /\ UNCHANGED <<link, hist>>

BoardWrites ==
    /\ writes < MaxWrites
    /\ \E a \in A!Watched, v \in Value : A!BoardWrite(a, v)
    /\ writes' = writes + 1
    /\ UNCHANGED <<link, reports, delivered, upto>>

\* ws_data_pack_and_send from the sprintf into p_user on; the beat goes on when it
\* returns.
StoreReport ==
    /\ Alive /\ pc = "send" /\ L!StoreFront
    /\ reports' = Append(reports, [points |-> dbuf, size |-> size'])
    /\ UNCHANGED <<acq, writes, delivered, upto>>

FinishSend ==
    /\ Alive /\ pc = "send" /\ L!MainStep
    /\ IF mpc' = "idle" THEN A!Send ELSE UNCHANGED acq
    /\ UNCHANGED hist

\* The allocation of p_user is what both components see.
Allocate == Alive /\ A!UserAlloc /\ L!Regist /\ UNCHANGED hist

\* The upper computer gets the frame the WRITEABLE callback wrote.
WriteFrame ==
    /\ Alive /\ L!CopyBackAndWrite
    /\ LET n == sbuf'[1].n
           usable == /\ rtn' = len /\ len > 0
                     /\ sbuf'[1].src = "up" /\ reports[n].size = len
                     /\ \A k \in 1 .. len : sbuf'[k] = sbuf'[1]
       IN  IF usable
           THEN /\ delivered' = [c \in A!Chan |-> IF reports[n].points[c] # None
                                                  THEN reports[n].points[c] ELSE delivered[c]]
                /\ upto' = n
           ELSE UNCHANGED <<delivered, upto>>
    /\ UNCHANGED <<acq, writes, reports>>

\* The other steps of the lws thread and the business thread.
LinkStep ==
    /\ Alive
    /\ \/ L!Connect \/ L!ConnectFails \/ L!CreateHandler \/ L!CreateHandlerFails
       \/ L!ReceiveClearBack \/ L!ReceiveMoveFront \/ L!ReceiveMoveBack
       \/ L!CopyFront \/ L!CheckWritten
       \/ (lpc = "drop" /\ L!Closed)
       \/ L!Join
    /\ UNCHANGED <<acq, hist>>

LinkEvent ==
    /\ Alive
    /\ L!Established \/ L!ReceiveClearFront \/ L!Closed
    /\ UNCHANGED <<acq, hist>>

CallWriteable == Alive /\ L!Writeable /\ UNCHANGED <<acq, hist>>

Business == Alive /\ L!HandlerStep /\ UNCHANGED <<acq, hist>>

MainThread == Sample \/ StoreReport \/ FinishSend
LwsThread  == Allocate \/ WriteFrame \/ LinkStep

Next == MainThread \/ LwsThread \/ LinkEvent \/ CallWriteable \/ Business
        \/ Signal \/ BoardWrites

Spec == Init /\ [][Next]_vars

\* The fairness of the two components.
FairSpec == /\ Spec
            /\ WF_vars(MainThread) /\ WF_vars(LwsThread) /\ WF_vars(Business)
            /\ WF_vars(CallWriteable)

-----------------------------------------------------------------------------
(* Properties.                                                             *)

\* The terminal implements Monitoring: through the buffer its threads share without
\* a common lock, the upper computer gets reports whole and never an older one after
\* a newer one, and what a report says of a point is a reading of the beat that made
\* it, other than the last one reported.
ImplementsMonitoring == M!Spec

\* When the link has come to rest (no report being stored, no WRITEABLE callback due
\* or running, the last write a success), the upper computer has the last report
\* stored on the established connection, whole, whatever overlapped before: as long
\* as it has not itself sent a message, which the code puts in the same buffer.
LastReportDelivered ==
    (/\ Alive /\ wsi = "open" /\ mpc = "idle" /\ ~writable /\ lpc = "service"
     /\ stored > openAt /\ rtn # -1 /\ received = 0)
        => \A c \in A!Chan : reports[stored].points[c] # None
                                => delivered[c] = reports[stored].points[c]

\* The last report gets there: when no further report supersedes it, the connection
\* lasts, the last write succeeds and no message was received into the buffer it
\* waits in, the upper computer has it in the end, whatever the earlier ones met.
LastReportArrives ==
    \A n \in 1 .. MaxReports :
        (<>[](/\ Alive /\ g_running /\ wsi = "open" /\ rtn # -1
              /\ stored = n /\ stored > openAt /\ received = 0))
            => <>[](upto = n)

\* srv_websocket.cpp:88, the latest data is pushed.  If a reading settles after the
\* connection was established, the connection lasts and the last write succeeds,
\* then the upper computer has it in the end.
SettledDelivered ==
    \A c \in A!Chan : \A v \in Value :
        (<>[](/\ A!Source(c) \in A!Watched /\ shm[A!Source(c)] = v
              /\ Alive /\ g_running /\ wsi = "open" /\ rtn # -1 /\ stored > openAt))
            => <>[](delivered[c] = v)

-----------------------------------------------------------------------------
(* The inductive invariant behind ImplementsMonitoring and                 *)
(* LastReportDelivered, besides those of the two components.               *)

Report == [points : [A!Chan -> Value \cup {None}], size : 1 .. 2]

\* The loop waits in "send" while a report is being stored, so a report is complete
\* before the next one is made.
ReportsStored ==
    /\ reports \in Seq(Report)
    /\ Len(reports) = IF mpc = "back" THEN stored + 1 ELSE stored
    /\ mpc # "idle" => pc = "send"
    /\ Len(reports) > 0 => size = reports[Len(reports)].size

\* There is a report in the making, which is not among the reports yet.
Making == pc = "format" \/ (pc = "send" /\ mpc = "idle")

\* What the component calls packed is what the reports say, and news are news.
ReportInMaking ==
    \A c \in A!Chan :
        /\ pc = "format" /\ c >= i => dbuf[c] = None
        /\ pc \in {"format", "send"} /\ dbuf[c] # None => dbuf[c] = val[c]
        /\ IF Making /\ dbuf[c] # None
           THEN packed[c] = dbuf[c] /\ (dbuf[c] # M!Reported(c) \/ dbuf[c] = NaN)
           ELSE packed[c] = M!Reported(c)

\* A report at the front of the buffer is the last one, so one that is copied from
\* there is none older than the one the upper computer has.
FramesInOrder ==
    /\ upto \in 0 .. Len(reports)
    /\ buf[1].src = "up" => Len(reports) > 0 /\ buf[1].n = Len(reports)
    /\ (lpc = "w_back" /\ sbuf[1].src = "up") =>
           sbuf[1].n \in 1 .. Len(reports) /\ upto <= sbuf[1].n

\* The upper computer has the values of the report it has last got.
DeliveredKept ==
    upto > 0 => \A c \in A!Chan : reports[upto].points[c] # None
                                    => delivered[c] = reports[upto].points[c]

\* Without a message from the upper computer nobody but the main thread writes the
\* buffer, and it holds the last report.
Undisturbed ==
    received = 0 =>
        /\ user_state = "NULL" /\ hpc \notin {"log", "front", "back", "null", "flow"}
        /\ lpc \notin {"r_back", "r_move", "r_flag"}
        /\ Len(reports) > 0 =>
               /\ buf[1] = L!Up(Len(reports))
               /\ mpc # "back" => buf[2] = IF size = 2 THEN L!Up(stored) ELSE L!Nul

\* A WRITEABLE callback that began after the last store sends the last report.
LastFrame ==
    (received = 0 /\ served = stored /\ stored > 0 /\ mpc # "back") =>
        /\ lpc \in {"w_front", "w_back"} => len = size
        /\ lpc = "w_back" => sbuf[1] = L!Up(stored)
        /\ lpc \notin {"w_front", "w_back"} /\ rtn # -1 => upto = stored

JointInv == /\ ReportsStored /\ ReportInMaking /\ FramesInOrder
            /\ DeliveredKept /\ Undisturbed /\ LastFrame
=============================================================================
