------------------------------- MODULE WsLink -------------------------------
(***************************************************************************)
(* The websocket link to the upper computer and its three threads:         *)
(*                                                                         *)
(*   main     ws_data_pack_and_send stores a report in p_user and asks     *)
(*            libwebsockets for a WRITEABLE callback (srv_websocket.cpp);  *)
(*   lws      run_ws_client connects, starts the business thread and       *)
(*            services libwebsockets, which calls protocol_test_callback   *)
(*            (ws_test_client.c);                                          *)
(*   handler  test_callbake_msgHandle takes what the upper computer sent   *)
(*            out of p_user (ws_test_rtx.c).                               *)
(*                                                                         *)
(* The one buffer p_user carries reports up and messages down.  It is      *)
(* modelled as two cells, its front and its back half: enough for a store  *)
(* to be seen half done, and for a string to be short (a NUL in the back   *)
(* cell) or long.  lock_ring is taken by the lws thread only.              *)
(*                                                                         *)
(* libwebsockets is external: it is modelled by the calls and callbacks    *)
(* the code uses, as its headers document them.  One connection is made    *)
(* per run of the program: the call of ws_client_monitor that would make   *)
(* another is commented out (ws_test_client.c:393).                        *)
(***************************************************************************)
EXTENDS Integers

CONSTANTS MaxReports,   \* bound: reports the main thread stores
          MaxDown       \* bound: messages the upper computer sends

ASSUME BoundAssumption == MaxReports \in Nat /\ MaxDown \in Nat

VARIABLES
    \* ws_prot[0]
    allocated,      \* p_user # NULL
    buf,            \* what p_user points to: <<front, back>>
    wsi_multi,      \* wsi_multi # NULL
    established,
    pthread_state,
    user_state,
    lock_ring,      \* the mutex (only the lws thread takes it)
    \* libwebsockets
    wsi,            \* the connection
    writable,       \* a WRITEABLE callback has been asked for
    received,       \* messages the upper computer has sent
    \* the main thread
    mpc, size,      \* size: cells of the report being stored
    stored,         \* reports completely stored in p_user
    \* the lws thread
    lpc, len, sbuf, \* len: first strlen; sbuf: the copy _ws_send_msg sends
    rtn,            \* result of lws_write
    \* the business thread
    hpc, taken,     \* taken: history, what it took for a message and has not done with
    \* the process
    crashed,        \* a fault ended it
    \* history
    served,         \* reports stored when the last WRITEABLE callback began
    openAt          \* reports stored when the connection was established

proto  == <<allocated, buf, wsi_multi, established, pthread_state, user_state, lock_ring>>
libws  == <<wsi, writable, received>>
main   == <<mpc, size, stored>>
lws    == <<lpc, len, sbuf, rtn>>
handle == <<hpc, taken>>
hist   == <<served, openAt>>

vars == <<proto, libws, main, lws, handle, crashed, hist>>

-----------------------------------------------------------------------------
\* A cell of the buffer: terminator, uninitialised heap, part of the n-th report,
\* part of the n-th message from the upper computer.
Cell == [src : {"nul", "junk", "up", "down"}, n : Nat]
Nul     == [src |-> "nul",  n |-> 0]
Junk    == [src |-> "junk", n |-> 0]
Up(n)   == [src |-> "up",   n |-> n]
Down(m) == [src |-> "down", n |-> m]

Buffer == [1 .. 2 -> Cell]
Both(c) == [k \in 1 .. 2 |-> c]

strlen(b) == IF b[1] = Nul THEN 0 ELSE IF b[2] = Nul THEN 1 ELSE 2

TypeOK ==
    /\ allocated \in BOOLEAN
    /\ buf \in Buffer
    /\ wsi_multi \in BOOLEAN
    /\ established \in BOOLEAN
    /\ pthread_state \in {"FILISH", "RUN", "INIT"}
    /\ user_state \in {"NULL", "RX"}
    /\ lock_ring \in {"free", "held", "destroyed"}
    /\ wsi \in {"none", "connecting", "open", "closing", "freed"}
    /\ writable \in BOOLEAN
    /\ received \in 0 .. MaxDown
    /\ mpc \in {"idle", "back", "check", "request"}
    /\ size \in 1 .. 2
    /\ stored \in 0 .. MaxReports
    /\ lpc \in {"regist", "connect", "create", "service",
                "w_front", "w_back", "w_check", "drop",
                "r_back", "r_move", "r_flag", "join"}
    /\ len \in 0 .. 2
    /\ sbuf \in Buffer
    /\ rtn \in -1 .. 2
    /\ hpc \in {"none", "created", "loop", "log", "front", "back", "null", "flow",
                "wait", "exited"}
    /\ taken \in Buffer
    /\ crashed \in BOOLEAN
    /\ served \in 0 .. MaxReports
    /\ openAt \in 0 .. MaxReports

Init ==
    /\ allocated = FALSE /\ buf = Both(Junk)
    /\ wsi_multi = FALSE /\ established = FALSE
    /\ pthread_state = "FILISH" /\ user_state = "NULL" /\ lock_ring = "free"
    /\ wsi = "none" /\ writable = FALSE /\ received = 0
    /\ mpc = "idle" /\ size = 1 /\ stored = 0
    /\ lpc = "regist" /\ len = 0 /\ sbuf = Both(Nul) /\ rtn = 0
    /\ hpc = "none" /\ taken = Both(Nul)
    /\ crashed = FALSE
    /\ served = 0 /\ openAt = 0

-----------------------------------------------------------------------------
(* The main thread: the end of ws_data_pack_and_send.                      *)

\* sprintf(p_user, "%s", dbuf), first half; refused while p_user is NULL.
StoreFront ==
    /\ ~crashed /\ mpc = "idle" /\ allocated /\ stored < MaxReports
    /\ buf' = [buf EXCEPT ![1] = Up(stored + 1)]
    /\ size' \in 1 .. 2
    /\ mpc' = "back"
    /\ UNCHANGED <<allocated, wsi_multi, established, pthread_state, user_state, lock_ring,
                   libws, stored, lws, handle, crashed, hist>>

\* ... and second half, the terminator included.
StoreBack_NoTerminator ==
    /\ ~crashed /\ mpc = "back"
    /\ buf' = [buf EXCEPT ![2] = IF size = 2 THEN Up(stored + 1) ELSE @]
    /\ stored' = stored + 1
    /\ mpc' = "check"
    /\ UNCHANGED <<allocated, wsi_multi, established, pthread_state, user_state, lock_ring,
                   libws, size, lws, handle, crashed, hist>>
StoreBack ==
    /\ ~crashed /\ mpc = "back"
    /\ buf' = [buf EXCEPT ![2] = IF size = 2 THEN Up(stored + 1) ELSE Nul]
    /\ stored' = stored + 1
    /\ mpc' = "check"
    /\ UNCHANGED <<allocated, wsi_multi, established, pthread_state, user_state, lock_ring,
                   libws, size, lws, handle, crashed, hist>>

\* if (vhd->wsi_multi): the build loads the pointer once, for the test and the call.
CheckWsi_NotWhileRx ==
    /\ ~crashed /\ mpc = "check"
    /\ mpc' = IF wsi_multi /\ user_state # "RX" THEN "request" ELSE "idle"
    /\ UNCHANGED <<proto, libws, size, stored, lws, handle, crashed, hist>>
CheckWsi ==
    /\ ~crashed /\ mpc = "check"
    /\ mpc' = IF wsi_multi THEN "request" ELSE "idle"
    /\ UNCHANGED <<proto, libws, size, stored, lws, handle, crashed, hist>>

\* lws_callback_on_writable: nothing on a connection being closed, a fault or
\* nothing on one that libwebsockets has freed since the test.
RequestWritable ==
    /\ ~crashed /\ mpc = "request"
    /\ writable' = (writable \/ wsi \in {"connecting", "open"})
    /\ crashed' \in IF wsi = "freed" THEN BOOLEAN ELSE {FALSE}
    /\ mpc' = "idle"
    /\ UNCHANGED <<proto, wsi, received, size, stored, lws, handle, hist>>

-----------------------------------------------------------------------------
(* The lws thread: run_ws_client up to its service loop.                   *)

\* pthread_join(pthread_spam) when no thread has been created: a fault, or an
\* error that is ignored.
JoinUncreated == crashed' \in BOOLEAN

\* ws_prot_regist: the buffer is malloc'ed, not cleared.
Regist ==
    /\ ~crashed /\ lpc = "regist"
    /\ allocated' = TRUE /\ buf' = Both(Junk)
    /\ lpc' = "connect"
    /\ UNCHANGED <<wsi_multi, established, pthread_state, user_state, lock_ring,
                   libws, main, len, sbuf, rtn, handle, crashed, hist>>

\* lws_client_connect_via_info: PROTOCOL_INIT, then the connection is under way ...
Connect ==
    /\ ~crashed /\ lpc = "connect"
    /\ pthread_state' = "INIT"
    /\ wsi_multi' = TRUE /\ wsi' = "connecting"
    /\ lpc' = "create"
    /\ UNCHANGED <<allocated, buf, established, user_state, lock_ring, writable, received,
                   main, len, sbuf, rtn, handle, crashed, hist>>

\* ... or CLIENT_CONNECTION_ERROR comes before the call returns.
ConnectFails ==
    /\ ~crashed /\ lpc = "connect"
    /\ pthread_state' = "FILISH" /\ wsi_multi' = FALSE /\ established' = FALSE
    /\ wsi' = "freed"
    /\ JoinUncreated
    /\ lpc' = "create"
    /\ UNCHANGED <<allocated, buf, user_state, lock_ring, writable, received,
                   main, len, sbuf, rtn, handle, hist>>

\* ws_prot_pthread_create: skipped without a connection.
CreateHandler ==
    /\ ~crashed /\ lpc = "create"
    /\ hpc' = IF wsi_multi THEN "created" ELSE hpc
    /\ lpc' = "service"
    /\ UNCHANGED <<proto, libws, main, len, sbuf, rtn, taken, crashed, hist>>

\* The mutex is destroyed, and the callbacks go on using it.
CreateHandlerFails ==
    /\ ~crashed /\ lpc = "create" /\ wsi_multi
    /\ pthread_state' = "FILISH"
    /\ JoinUncreated
    /\ lock_ring' = "destroyed"
    /\ lpc' = "service"
    /\ UNCHANGED <<allocated, buf, wsi_multi, established, user_state,
                   libws, main, len, sbuf, rtn, handle, hist>>

-----------------------------------------------------------------------------
(* The lws thread: lws_service and the callbacks it makes.                 *)

\* pthread_mutex_lock and pthread_mutex_unlock, whose results are not looked at: on
\* a destroyed mutex both fail and do nothing.
Lock   == lock_ring' = IF lock_ring = "destroyed" THEN lock_ring ELSE "held"
Unlock == lock_ring' = IF lock_ring = "destroyed" THEN lock_ring ELSE "free"

\* CLIENT_ESTABLISHED.  A WRITEABLE request made while connecting may be used up
\* by the handshake.
Established ==
    /\ ~crashed /\ lpc = "service" /\ wsi = "connecting"
    /\ wsi' = "open" /\ established' = TRUE
    /\ writable' \in {writable, FALSE}
    /\ openAt' = stored
    /\ UNCHANGED <<allocated, buf, wsi_multi, pthread_state, user_state, lock_ring, received,
                   main, lws, handle, crashed, served>>

\* CLIENT_RECEIVE: under the lock, memset p_user ...
ReceiveClearFront ==
    /\ ~crashed /\ lpc = "service" /\ wsi = "open" /\ received < MaxDown
    /\ received' = received + 1
    /\ Lock
    /\ buf' = [buf EXCEPT ![1] = Nul]
    /\ lpc' = "r_back"
    /\ UNCHANGED <<allocated, wsi_multi, established, pthread_state, user_state,
                   wsi, writable, main, len, sbuf, rtn, handle, crashed, hist>>

ReceiveClearBack ==
    /\ ~crashed /\ lpc = "r_back"
    /\ buf' = [buf EXCEPT ![2] = Nul]
    /\ lpc' = "r_move"
    /\ UNCHANGED <<allocated, wsi_multi, established, pthread_state, user_state, lock_ring,
                   libws, main, len, sbuf, rtn, handle, crashed, hist>>

\* ... memmove the message into it ...
ReceiveMoveFront ==
    /\ ~crashed /\ lpc = "r_move"
    /\ buf' = [buf EXCEPT ![1] = Down(received)]
    /\ lpc' = "r_flag"
    /\ UNCHANGED <<allocated, wsi_multi, established, pthread_state, user_state, lock_ring,
                   libws, main, len, sbuf, rtn, handle, crashed, hist>>

\* ... to its end (a short one leaves the back half as it is), set user_state and
\* unlock.
ReceiveMoveBack ==
    /\ ~crashed /\ lpc = "r_flag"
    /\ \E c \in {Down(received), buf[2]} : buf' = [buf EXCEPT ![2] = c]
    /\ user_state' = "RX"
    /\ Unlock
    /\ lpc' = "service"
    /\ UNCHANGED <<allocated, wsi_multi, established, pthread_state,
                   libws, main, len, sbuf, rtn, handle, crashed, hist>>

\* CLIENT_WRITEABLE: lock, strlen(pusr) ...
Writeable_SendsTerminator ==
    /\ ~crashed /\ lpc = "service" /\ wsi = "open" /\ writable
    /\ writable' = FALSE
    /\ Lock
    /\ len' = strlen(buf) + 1
    /\ served' = stored
    /\ lpc' = "w_front"
    /\ UNCHANGED <<allocated, buf, wsi_multi, established, pthread_state, user_state,
                   wsi, received, main, sbuf, rtn, handle, crashed, openAt>>
Writeable ==
    /\ ~crashed /\ lpc = "service" /\ wsi = "open" /\ writable
    /\ writable' = FALSE
    /\ Lock
    /\ len' = strlen(buf)
    /\ served' = stored
    /\ lpc' = "w_front"
    /\ UNCHANGED <<allocated, buf, wsi_multi, established, pthread_state, user_state,
                   wsi, received, main, sbuf, rtn, handle, crashed, openAt>>

\* ... _ws_send_msg copies len bytes of the buffer ...
CopyFront ==
    /\ ~crashed /\ lpc = "w_front"
    /\ sbuf' = [k \in 1 .. 2 |-> IF k = 1 /\ len > 0 THEN buf[1] ELSE Nul]
    /\ lpc' = "w_back"
    /\ UNCHANGED <<proto, libws, main, len, rtn, handle, crashed, hist>>

\* ... and lws_write sends them, or fails.
CopyBackAndWrite ==
    /\ ~crashed /\ lpc = "w_back"
    /\ sbuf' = IF len = 2 THEN [sbuf EXCEPT ![2] = buf[2]] ELSE sbuf
    /\ rtn' \in {len, -1}
    /\ lpc' = "w_check"
    /\ UNCHANGED <<proto, libws, main, len, handle, crashed, hist>>

\* if (rtn < strlen(pusr)): an unsigned comparison, so -1 is not less.  Unlock on
\* both paths; the error path makes libwebsockets close the connection.  The copy and
\* its length are the callback's own.
ReportsError == rtn # -1 /\ rtn < strlen(buf)

CheckWritten_KeepsLock ==
    /\ ~crashed /\ lpc = "w_check"
    /\ IF ReportsError THEN UNCHANGED lock_ring ELSE Unlock
    /\ lpc' = IF ReportsError THEN "drop" ELSE "service"
    /\ len' = 0 /\ sbuf' = Both(Nul)
    /\ UNCHANGED <<allocated, buf, wsi_multi, established, pthread_state, user_state,
                   libws, main, rtn, handle, crashed, hist>>
CheckWritten ==
    /\ ~crashed /\ lpc = "w_check"
    /\ Unlock
    /\ lpc' = IF ReportsError THEN "drop" ELSE "service"
    /\ len' = 0 /\ sbuf' = Both(Nul)
    /\ UNCHANGED <<allocated, buf, wsi_multi, established, pthread_state, user_state,
                   libws, main, rtn, handle, crashed, hist>>

\* CLIENT_CLOSED of an open connection, CLIENT_CONNECTION_ERROR of one that was
\* being made.  The three stores are one step: no thread can tell them apart.
Closed_Reopens ==
    /\ ~crashed
    /\ lpc = "drop" \/ (lpc = "service" /\ wsi \in {"connecting", "open"})
    /\ wsi_multi' = FALSE /\ established' = FALSE
    /\ pthread_state' = "FILISH"
    /\ wsi' = "connecting"
    /\ lpc' = "join"
    /\ UNCHANGED <<allocated, buf, user_state, lock_ring, writable, received,
                   main, len, sbuf, rtn, handle, crashed, hist>>
Closed_KeepsWsi ==
    /\ ~crashed
    /\ lpc = "drop" \/ (lpc = "service" /\ wsi \in {"connecting", "open"})
    /\ established' = FALSE
    /\ pthread_state' = "FILISH"
    /\ wsi' = "closing"
    /\ lpc' = "join"
    /\ UNCHANGED <<allocated, buf, wsi_multi, user_state, lock_ring, writable, received,
                   main, len, sbuf, rtn, handle, crashed, hist>>
Closed ==
    /\ ~crashed
    /\ lpc = "drop" \/ (lpc = "service" /\ wsi \in {"connecting", "open"})
    /\ wsi_multi' = FALSE /\ established' = FALSE
    /\ pthread_state' = "FILISH"
    /\ wsi' = "closing"
    /\ lpc' = "join"
    /\ UNCHANGED <<allocated, buf, user_state, lock_ring, writable, received,
                   main, len, sbuf, rtn, handle, crashed, hist>>

\* pthread_join returns, the callback returns and the connection is freed.
Join_NoWait ==
    /\ ~crashed /\ lpc = "join"
    /\ crashed' \in IF hpc = "none" THEN BOOLEAN ELSE {FALSE}
    /\ wsi' = "freed"
    /\ lpc' = "service"
    /\ UNCHANGED <<proto, writable, received, main, len, sbuf, rtn, handle, hist>>
Join ==
    /\ ~crashed /\ lpc = "join"
    /\ \/ hpc = "exited" /\ UNCHANGED crashed
       \/ hpc = "none" /\ JoinUncreated
    /\ wsi' = "freed"
    /\ lpc' = "service"
    /\ UNCHANGED <<proto, writable, received, main, len, sbuf, rtn, handle, hist>>

-----------------------------------------------------------------------------
(* The business thread: test_callbake_msgHandle.                           *)

HandlerStart ==
    /\ ~crashed /\ hpc = "created"
    /\ pthread_state' = "RUN"
    /\ hpc' = "loop"
    /\ UNCHANGED <<allocated, buf, wsi_multi, established, user_state, lock_ring,
                   libws, main, lws, taken, crashed, hist>>

HandlerTest ==
    /\ ~crashed /\ hpc = "loop"
    /\ hpc' = IF established /\ wsi_multi /\ user_state = "RX" THEN "log" ELSE "wait"
    /\ UNCHANGED <<proto, libws, main, lws, taken, crashed, hist>>

HandlerTake ==
    /\ ~crashed /\ hpc = "log"
    /\ taken' = buf
    /\ hpc' = "front"
    /\ UNCHANGED <<proto, libws, main, lws, crashed, hist>>

\* memset(p_user, 0, ...), without the lock
HandlerClearFront ==
    /\ ~crashed /\ hpc = "front"
    /\ buf' = [buf EXCEPT ![1] = Nul]
    /\ hpc' = "back"
    /\ UNCHANGED <<allocated, wsi_multi, established, pthread_state, user_state, lock_ring,
                   libws, main, lws, taken, crashed, hist>>

HandlerClearBack ==
    /\ ~crashed /\ hpc = "back"
    /\ buf' = [buf EXCEPT ![2] = Nul]
    /\ hpc' = "null"
    /\ UNCHANGED <<allocated, wsi_multi, established, pthread_state, user_state, lock_ring,
                   libws, main, lws, taken, crashed, hist>>

HandlerDone ==
    /\ ~crashed /\ hpc = "null"
    /\ user_state' = "NULL"
    /\ taken' = Both(Nul)
    /\ hpc' = "flow"
    /\ UNCHANGED <<allocated, buf, wsi_multi, established, pthread_state, lock_ring,
                   libws, main, lws, crashed, hist>>

\* lws_rx_flow_control(vhd->wsi_multi, 1): the pointer is loaded again, and the
\* library dereferences it.
HandlerFlow ==
    /\ ~crashed /\ hpc = "flow"
    /\ crashed' = ~wsi_multi
    /\ hpc' = "wait"
    /\ UNCHANGED <<proto, libws, main, lws, taken, hist>>

\* usleep, then while (vhd->pthread_state)
HandlerWait_Forever ==
    /\ ~crashed /\ hpc = "wait"
    /\ hpc' = "loop"
    /\ UNCHANGED <<proto, libws, main, lws, taken, crashed, hist>>
HandlerWait_ResetsFlag ==
    /\ ~crashed /\ hpc = "wait"
    /\ user_state' = "NULL"
    /\ hpc' = IF pthread_state = "FILISH" THEN "exited" ELSE "loop"
    /\ UNCHANGED <<allocated, buf, wsi_multi, established, pthread_state, lock_ring,
                   libws, main, lws, taken, crashed, hist>>
HandlerWait ==
    /\ ~crashed /\ hpc = "wait"
    /\ hpc' = IF pthread_state = "FILISH" THEN "exited" ELSE "loop"
    /\ UNCHANGED <<proto, libws, main, lws, taken, crashed, hist>>

-----------------------------------------------------------------------------
MainStep == StoreBack \/ CheckWsi \/ RequestWritable

\* The steps of the lws thread that wait for nobody but another thread.
LwsStep == \/ Regist \/ Connect \/ ConnectFails \/ CreateHandler \/ CreateHandlerFails
           \/ ReceiveClearBack \/ ReceiveMoveFront \/ ReceiveMoveBack
           \/ CopyFront \/ CopyBackAndWrite \/ CheckWritten
           \/ (lpc = "drop" /\ Closed)
           \/ Join

HandlerStep == \/ HandlerStart \/ HandlerTest \/ HandlerTake
               \/ HandlerClearFront \/ HandlerClearBack
               \/ HandlerDone \/ HandlerFlow \/ HandlerWait

Next == \/ StoreFront \/ MainStep
        \/ LwsStep \/ Established \/ ReceiveClearFront \/ Writeable \/ Closed
        \/ HandlerStep

Spec == Init /\ [][Next]_vars

\* The kernel schedules the three threads, and libwebsockets makes a WRITEABLE
\* callback it has been asked for while the connection lasts.  Nothing is assumed
\* of the network, of the upper computer and of the board behind the reports.
Fairness == /\ WF_vars(MainStep) /\ WF_vars(LwsStep) /\ WF_vars(HandlerStep)
            /\ WF_vars(Writeable)

FairSpec == Spec /\ Fairness

-----------------------------------------------------------------------------
(* Properties the code has.                                                *)

\* No wake-up is lost: once the main thread has finished with a report stored on
\* an established connection, either a WRITEABLE callback began after the whole
\* report was in p_user, or one is still due.
NoLostWakeup ==
    (wsi = "open" /\ mpc = "idle" /\ stored > openAt)
        => (served = stored \/ writable)

\* What the callback sends is never older than the last report complete when the
\* callback began: no cell of the copy belongs to a superseded report, or is
\* uninitialised heap, although the buffer is written without the lock.
FrameCurrent ==
    lpc \in {"w_back", "w_check"} =>
        \A k \in 1 .. 2 : /\ sbuf[k].src # "junk"
                          /\ sbuf[k].src = "up" => sbuf[k].n >= served

\* The business thread never works on a message with a freed connection: the join
\* in the close callback keeps the connection until the thread has left its loop.
HandlerNeverOutlivesWsi ==
    wsi = "freed" => hpc \in {"none", "exited"}

\* lock_ring is held in the RECEIVE and WRITEABLE callbacks and nowhere else: the
\* error return of the WRITEABLE callback releases it too.  Destroyed it is only
\* where no business thread was started (ws_test_client.c:311).
LockScope ==
    IF lock_ring = "destroyed"
    THEN hpc = "none"
    ELSE lock_ring = "held"
            <=> lpc \in {"w_front", "w_back", "w_check", "r_back", "r_move", "r_flag"}

\* Once the business thread has been created, no thread faults on a connection that is
\* being made or is up: the pointers used without the lock (srv_websocket.cpp:78,
\* ws_test_rtx.c:107) and the join can only go wrong when the connection has ended.
FaultsOnlyAtEnd == (crashed /\ hpc # "none") => wsi \in {"closing", "freed"}

\* A report stored on an established connection gets its WRITEABLE callback, or
\* the connection ends.
ReportServed ==
    \A n \in 1 .. MaxReports :
        (wsi = "open" /\ stored = n /\ stored > openAt)
            ~> (served >= n \/ wsi # "open" \/ crashed)

\* A message is not lost between the callback that puts it in the buffer and the
\* thread that takes it: the last one received, whole in the buffer (short or long), is
\* what the business thread takes in the end, unless a later one or a report is put
\* over it, or the connection ends.  Not so for one that comes in between the take of
\* an earlier one and the end of its clearing (ws_test_rtx.c:104-105): it is wiped, or
\* its flag is, and nothing tells.
MessageTaken ==
    \A short \in BOOLEAN :
        LET message == <<Down(received), IF short THEN Nul ELSE Down(received)>>
        IN  (/\ user_state = "RX" /\ buf = message /\ lpc # "r_flag"
             /\ hpc \notin {"none", "front", "back", "null"})
                ~> (\/ taken = message
                    \/ lpc = "r_back" \/ mpc = "back" \/ wsi # "open" \/ crashed)

\* The close callback's join returns as long as the stop request it made before it
\* is not overwritten: the thread leaves its loop, wherever in it the stop found it.
JoinReturns ==
    (lpc = "join" /\ pthread_state = "FILISH" /\ hpc \notin {"none", "created"})
        ~> (lpc # "join" \/ crashed)

-----------------------------------------------------------------------------
(* What comments and documents of the repository say, and the code has not. *)

\* ws_test_client.h:64, lock_ring serializes access to the buffer: a frame is one
\* report, whole.
FrameIntact ==
    lpc = "w_check" => \A k \in 1 .. len : sbuf[k] = sbuf[1] /\ sbuf[k].src = "up"

\* ws_test_client.c:119-121, the WRITEABLE callback gives the connection up exactly
\* when writing to the socket failed.
DropsExactlyOnError ==
    [][(lpc = "w_check" /\ lpc' # lpc) => (lpc' = "drop" <=> rtn = -1)]_vars

\* websocket/readme.md:47, callbacks must not block: the close callback returns.
CloseReturns == (lpc = "join") ~> (lpc # "join" \/ crashed)

\* ws_test_rtx.c:6, the websocket is connected again after a disconnection: once the
\* close callback is over, a new connection is being made, unless a fault has ended
\* the process.
Reconnects == (wsi = "freed" /\ lpc = "service") ~> (wsi \in {"connecting", "open"} \/ crashed)

-----------------------------------------------------------------------------
(* The inductive invariant behind the safety properties.                   *)

\* wsi_multi is set exactly while there is a connection to use, and the close
\* callback is about the connection it cleared.
WsiKnown ==
    /\ wsi_multi <=> wsi \in {"connecting", "open"}
    /\ lpc = "join" => wsi = "closing"
    /\ lpc \in {"regist", "connect"} <=> wsi = "none"

\* Before the buffer is allocated nothing is stored; before the service loop there
\* is no business thread, and the mutex is as it was made.
Startup ==
    /\ lpc = "regist" => ~allocated
    /\ ~allocated => stored = 0 /\ mpc = "idle"
    /\ lpc \in {"regist", "connect", "create"} => hpc = "none" /\ lock_ring = "free"

\* A store in progress is within the bound; a WRITEABLE callback is only asked for,
\* and made, after a first report.
AskedAfterStore ==
    /\ mpc = "back" => stored < MaxReports
    /\ mpc \in {"check", "request"} => stored > 0
    /\ writable => stored > 0
    /\ lpc \in {"w_front", "w_back", "w_check"} => stored > 0
    /\ served <= stored

\* What is left of reports in the buffer is of the last complete one, or of the one
\* being stored.
BufferCurrent ==
    /\ \A k \in 1 .. 2 : buf[k].src = "up" => buf[k].n >= stored
    /\ mpc = "back" /\ buf[1].src = "up" => buf[1].n = stored + 1

\* A complete report has overwritten the uninitialised buffer.
BufferWritten ==
    /\ stored > 0 => \A k \in 1 .. 2 : buf[k].src # "junk"
    /\ mpc = "back" => buf[1].src # "junk"

IInv == /\ TypeOK
        /\ WsiKnown /\ Startup /\ AskedAfterStore
        /\ BufferCurrent /\ BufferWritten /\ FrameCurrent
        /\ NoLostWakeup /\ HandlerNeverOutlivesWsi /\ LockScope /\ FaultsOnlyAtEnd
=============================================================================
