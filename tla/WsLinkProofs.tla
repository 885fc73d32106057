---------------------------- MODULE WsLinkProofs ----------------------------
(***************************************************************************)
(* Proofs about WsLink, for any number of reports and messages and every   *)
(* interleaving of the three threads and the library.  IInv is the         *)
(* inductive invariant.  One lemma per group of actions, one case per      *)
(* action, and in each case one step per part of IInv it can disturb:      *)
(* types, control (connection, threads, lock), buffers and wake-ups.       *)
(***************************************************************************)
EXTENDS WsLink, TLAPS

USE BoundAssumption
USE DEF proto, libws, main, lws, handle, hist

\* The parts of IInv about where the threads and the connection are.
Control == /\ WsiKnown /\ Startup /\ AskedAfterStore
           /\ HandlerNeverOutlivesWsi /\ LockScope /\ FaultsOnlyAtEnd

\* The parts of IInv about what the buffers hold.
Buffers == BufferCurrent /\ BufferWritten /\ FrameCurrent

\* The states of lock_ring.
Mutex == {"free", "held", "destroyed"}

\* strlen counts cells.
LEMMA StrlenType == \A b \in Buffer : strlen(b) \in 0 .. 2
  BY DEF strlen

\* The main thread stores a report in the buffer, one half after the other.
LEMMA StoresPreserve ==
    ASSUME IInv, StoreFront \/ StoreBack
    PROVE  IInv'
  <1> USE DEF IInv
  <1>1. CASE StoreFront
    <2> USE <1>1 DEF StoreFront
    <2>1. TypeOK'
      <3>1. buf' \in Buffer
        BY DEF TypeOK, Buffer, Cell, Up
      <3> QED
        BY <3>1 DEF TypeOK
    <2>2. Control'
      BY DEF TypeOK, Control, WsiKnown, Startup, AskedAfterStore, HandlerNeverOutlivesWsi, LockScope, FaultsOnlyAtEnd
    <2>3. Buffers'
      BY DEF TypeOK, Control, Startup, AskedAfterStore, Buffers, BufferCurrent, BufferWritten, FrameCurrent, Buffer, Cell, Up
    <2>4. NoLostWakeup'
      BY DEF TypeOK, Control, WsiKnown, AskedAfterStore, NoLostWakeup
    <2> QED
      BY <2>1, <2>2, <2>3, <2>4 DEF Control, Buffers
  <1>2. CASE StoreBack
    <2> USE <1>2 DEF StoreBack
    <2>1. TypeOK'
      <3>1. buf' \in Buffer
        BY DEF TypeOK, Buffer, Cell, Up, Nul
      <3> QED
        BY <3>1 DEF TypeOK, Control, AskedAfterStore
    <2>2. Control'
      BY DEF TypeOK, Control, WsiKnown, Startup, AskedAfterStore, HandlerNeverOutlivesWsi, LockScope, FaultsOnlyAtEnd
    <2>3. Buffers'
      BY DEF TypeOK, Control, Startup, AskedAfterStore, Buffers, BufferCurrent, BufferWritten, FrameCurrent, Buffer, Cell, Up, Nul
    <2>4. NoLostWakeup'
      BY DEF TypeOK, Control, WsiKnown, AskedAfterStore, NoLostWakeup
    <2> QED
      BY <2>1, <2>2, <2>3, <2>4 DEF Control, Buffers
  <1> QED
    BY <1>1, <1>2

\* The main thread tests wsi_multi and asks for the WRITEABLE callback.
LEMMA AskingPreserves ==
    ASSUME IInv, CheckWsi \/ RequestWritable
    PROVE  IInv'
  <1> USE DEF IInv
  <1>1. CASE CheckWsi
    <2> USE <1>1 DEF CheckWsi
    <2>1. TypeOK'
      BY DEF TypeOK
    <2>2. Control'
      BY DEF TypeOK, Control, WsiKnown, Startup, AskedAfterStore, HandlerNeverOutlivesWsi, LockScope, FaultsOnlyAtEnd
    <2>3. Buffers'
      BY DEF TypeOK, Control, Startup, AskedAfterStore, Buffers, BufferCurrent, BufferWritten, FrameCurrent
    <2>4. NoLostWakeup'
      BY DEF TypeOK, Control, WsiKnown, AskedAfterStore, NoLostWakeup
    <2> QED
      BY <2>1, <2>2, <2>3, <2>4 DEF Control, Buffers
  <1>2. CASE RequestWritable
    <2> USE <1>2 DEF RequestWritable
    <2>1. TypeOK'
      <3>1. writable' \in BOOLEAN /\ crashed' \in BOOLEAN
        BY DEF TypeOK
      <3> QED
        BY <3>1 DEF TypeOK
    <2>2. Control'
      BY DEF TypeOK, Control, WsiKnown, Startup, AskedAfterStore, HandlerNeverOutlivesWsi, LockScope, FaultsOnlyAtEnd
    <2>3. Buffers'
      BY DEF TypeOK, Control, Startup, AskedAfterStore, Buffers, BufferCurrent, BufferWritten, FrameCurrent
    <2>4. NoLostWakeup'
      BY DEF TypeOK, Control, WsiKnown, AskedAfterStore, NoLostWakeup
    <2> QED
      BY <2>1, <2>2, <2>3, <2>4 DEF Control, Buffers
  <1> QED
    BY <1>1, <1>2

\* The lws thread allocates the buffer, connects and starts the business thread.
LEMMA StartingPreserves ==
    ASSUME IInv, \/ Regist \/ Connect \/ ConnectFails
           \/ CreateHandler \/ CreateHandlerFails
    PROVE  IInv'
  <1> USE DEF IInv
  <1>1. CASE Regist
    <2> USE <1>1 DEF Regist
    <2>1. TypeOK'
      <3>1. buf' \in Buffer
        BY DEF TypeOK, Buffer, Cell, Both, Junk
      <3> QED
        BY <3>1 DEF TypeOK
    <2>2. Control'
      BY DEF TypeOK, Control, WsiKnown, Startup, AskedAfterStore, HandlerNeverOutlivesWsi, LockScope, FaultsOnlyAtEnd
    <2>3. Buffers'
      BY DEF TypeOK, Control, Startup, AskedAfterStore, Buffers, BufferCurrent, BufferWritten, FrameCurrent, Buffer, Cell, Both, Junk
    <2>4. NoLostWakeup'
      BY DEF NoLostWakeup
    <2> QED
      BY <2>1, <2>2, <2>3, <2>4 DEF Control, Buffers
  <1>2. CASE Connect
    <2> USE <1>2 DEF Connect
    <2>1. TypeOK'
      BY DEF TypeOK
    <2>2. Control'
      BY DEF TypeOK, Control, WsiKnown, Startup, AskedAfterStore, HandlerNeverOutlivesWsi, LockScope, FaultsOnlyAtEnd
    <2>3. Buffers'
      BY DEF TypeOK, Control, Startup, AskedAfterStore, Buffers, BufferCurrent, BufferWritten, FrameCurrent
    <2>4. NoLostWakeup'
      BY DEF TypeOK, Control, WsiKnown, AskedAfterStore, NoLostWakeup
    <2> QED
      BY <2>1, <2>2, <2>3, <2>4 DEF Control, Buffers
  <1>3. CASE ConnectFails
    <2> USE <1>3 DEF ConnectFails, JoinUncreated
    <2>1. TypeOK'
      <3>1. wsi_multi' \in BOOLEAN /\ established' \in BOOLEAN /\ crashed' \in BOOLEAN
        BY Zenon
      <3>2. /\ UNCHANGED <<allocated, buf, user_state, lock_ring, writable, received, mpc, size,
                           stored, len, sbuf, rtn, hpc, taken, served, openAt>>
            /\ pthread_state' = "FILISH" /\ wsi' = "freed" /\ lpc' = "create"
        OBVIOUS
      <3> QED
        BY <3>1, <3>2 DEF TypeOK
    <2>2. Control'
      BY DEF TypeOK, Control, WsiKnown, Startup, AskedAfterStore, HandlerNeverOutlivesWsi, LockScope, FaultsOnlyAtEnd
    <2>3. Buffers'
      BY DEF TypeOK, Control, Startup, AskedAfterStore, Buffers, BufferCurrent, BufferWritten, FrameCurrent
    <2>4. NoLostWakeup'
      BY DEF TypeOK, Control, WsiKnown, AskedAfterStore, NoLostWakeup
    <2> QED
      BY <2>1, <2>2, <2>3, <2>4 DEF Control, Buffers
  <1>4. CASE CreateHandler
    <2> USE <1>4 DEF CreateHandler
    <2>1. TypeOK'
      BY DEF TypeOK
    <2>2. Control'
      BY DEF TypeOK, Control, WsiKnown, Startup, AskedAfterStore, HandlerNeverOutlivesWsi, LockScope, FaultsOnlyAtEnd
    <2>3. Buffers'
      BY DEF TypeOK, Control, Startup, AskedAfterStore, Buffers, BufferCurrent, BufferWritten, FrameCurrent
    <2>4. NoLostWakeup'
      BY DEF NoLostWakeup
    <2> QED
      BY <2>1, <2>2, <2>3, <2>4 DEF Control, Buffers
  <1>5. CASE CreateHandlerFails
    <2> USE <1>5 DEF CreateHandlerFails, JoinUncreated
    <2>1. TypeOK'
      BY DEF TypeOK
    <2>2. Control'
      BY DEF TypeOK, Control, WsiKnown, Startup, AskedAfterStore, HandlerNeverOutlivesWsi, LockScope, FaultsOnlyAtEnd
    <2>3. Buffers'
      BY DEF TypeOK, Control, Startup, AskedAfterStore, Buffers, BufferCurrent, BufferWritten, FrameCurrent
    <2>4. NoLostWakeup'
      BY DEF NoLostWakeup
    <2> QED
      BY <2>1, <2>2, <2>3, <2>4 DEF Control, Buffers
  <1> QED
    BY <1>1, <1>2, <1>3, <1>4, <1>5

\* The RECEIVE callback replaces the buffer by the message.
LEMMA ReceivingPreserves ==
    ASSUME IInv, ReceiveClearFront \/ ReceiveClearBack \/ ReceiveMoveFront \/ ReceiveMoveBack
    PROVE  IInv'
  <1> USE DEF IInv
  <1>1. CASE ReceiveClearFront
    <2> USE <1>1 DEF ReceiveClearFront, Lock
    <2>1. TypeOK'
      <3>1. buf' \in Buffer
        BY DEF TypeOK, Buffer, Cell, Nul
      <3> QED
        BY <3>1 DEF TypeOK
    <2>2. Control'
      BY DEF TypeOK, Control, WsiKnown, Startup, AskedAfterStore, HandlerNeverOutlivesWsi, LockScope, FaultsOnlyAtEnd
    <2>3. Buffers'
      BY DEF TypeOK, Control, Startup, AskedAfterStore, Buffers, BufferCurrent, BufferWritten, FrameCurrent, Buffer, Cell, Nul
    <2>4. NoLostWakeup'
      BY DEF NoLostWakeup
    <2> QED
      BY <2>1, <2>2, <2>3, <2>4 DEF Control, Buffers
  <1>2. CASE ReceiveClearBack
    <2> USE <1>2 DEF ReceiveClearBack
    <2>1. TypeOK'
      <3>1. buf' \in Buffer
        BY DEF TypeOK, Buffer, Cell, Nul
      <3> QED
        BY <3>1 DEF TypeOK
    <2>2. Control'
      BY DEF TypeOK, Control, WsiKnown, Startup, AskedAfterStore, HandlerNeverOutlivesWsi, LockScope, FaultsOnlyAtEnd
    <2>3. Buffers'
      BY DEF TypeOK, Control, Startup, AskedAfterStore, Buffers, BufferCurrent, BufferWritten, FrameCurrent, Buffer, Cell, Nul
    <2>4. NoLostWakeup'
      BY DEF NoLostWakeup
    <2> QED
      BY <2>1, <2>2, <2>3, <2>4 DEF Control, Buffers
  <1>3. CASE ReceiveMoveFront
    <2> USE <1>3 DEF ReceiveMoveFront
    <2>1. TypeOK'
      <3>1. buf' \in Buffer
        BY DEF TypeOK, Buffer, Cell, Down
      <3> QED
        BY <3>1 DEF TypeOK
    <2>2. Control'
      BY DEF TypeOK, Control, WsiKnown, Startup, AskedAfterStore, HandlerNeverOutlivesWsi, LockScope, FaultsOnlyAtEnd
    <2>3. Buffers'
      BY DEF TypeOK, Control, Startup, AskedAfterStore, Buffers, BufferCurrent, BufferWritten, FrameCurrent, Buffer, Cell, Down
    <2>4. NoLostWakeup'
      BY DEF NoLostWakeup
    <2> QED
      BY <2>1, <2>2, <2>3, <2>4 DEF Control, Buffers
  <1>4. CASE ReceiveMoveBack
    <2>1. TypeOK'
      <3>1. buf' \in Buffer
        BY <1>4 DEF ReceiveMoveBack, TypeOK, Buffer, Cell, Down
      <3>2. lock_ring' \in Mutex
        BY <1>4 DEF ReceiveMoveBack, Unlock, TypeOK, Mutex
      <3>3. /\ UNCHANGED <<allocated, wsi_multi, established, pthread_state,
                           wsi, writable, received, mpc, size, stored, len, sbuf, rtn,
                           hpc, taken, crashed, served, openAt>>
            /\ user_state' = "RX" /\ lpc' = "service"
        BY <1>4 DEF ReceiveMoveBack
      <3> QED
        BY <3>1, <3>2, <3>3 DEF TypeOK, Mutex
    <2>2. Control'
      BY <1>4 DEF ReceiveMoveBack, Unlock, TypeOK, Control, WsiKnown, Startup, AskedAfterStore, HandlerNeverOutlivesWsi, LockScope, FaultsOnlyAtEnd
    <2>3. Buffers'
      BY <1>4 DEF ReceiveMoveBack, TypeOK, Control, Startup, AskedAfterStore, Buffers, BufferCurrent, BufferWritten, FrameCurrent, Buffer, Cell, Down
    <2>4. NoLostWakeup'
      BY <1>4 DEF ReceiveMoveBack, NoLostWakeup
    <2> QED
      BY <2>1, <2>2, <2>3, <2>4 DEF Control, Buffers
  <1> QED
    BY <1>1, <1>2, <1>3, <1>4

\* The WRITEABLE callback copies the buffer and sends the copy.
LEMMA WritingPreserves ==
    ASSUME IInv, Writeable \/ CopyFront \/ CopyBackAndWrite \/ CheckWritten
    PROVE  IInv'
  <1> USE DEF IInv
  <1>1. CASE Writeable
    <2>1. TypeOK'
      <3>1. len' \in 0 .. 2
        BY <1>1, StrlenType DEF Writeable, TypeOK
      <3>2. lock_ring' \in Mutex /\ writable' \in BOOLEAN
        BY <1>1 DEF Writeable, Lock, TypeOK, Mutex
      <3>3. /\ UNCHANGED <<allocated, buf, wsi_multi, established, pthread_state, user_state,
                           wsi, received, mpc, size, stored, sbuf, rtn, hpc, taken, crashed,
                           openAt>>
            /\ served' = stored /\ lpc' = "w_front"
        BY <1>1 DEF Writeable
      <3> QED
        BY <3>1, <3>2, <3>3 DEF TypeOK, Mutex
    <2>2. Control'
      BY <1>1 DEF Writeable, Lock, TypeOK, Control, WsiKnown, Startup, AskedAfterStore, HandlerNeverOutlivesWsi, LockScope, FaultsOnlyAtEnd
    <2>3. Buffers'
      BY <1>1 DEF Writeable, TypeOK, Control, Startup, AskedAfterStore, Buffers, BufferCurrent, BufferWritten, FrameCurrent
    <2>4. NoLostWakeup'
      BY <1>1 DEF Writeable, TypeOK, Control, WsiKnown, AskedAfterStore, NoLostWakeup
    <2> QED
      BY <2>1, <2>2, <2>3, <2>4 DEF Control, Buffers
  <1>2. CASE CopyFront
    <2> USE <1>2 DEF CopyFront
    <2>1. TypeOK'
      <3>1. sbuf' \in Buffer
        BY DEF TypeOK, Buffer, Cell, Nul
      <3> QED
        BY <3>1 DEF TypeOK
    <2>2. Control'
      BY DEF TypeOK, Control, WsiKnown, Startup, AskedAfterStore, HandlerNeverOutlivesWsi, LockScope, FaultsOnlyAtEnd
    <2>3. Buffers'
      BY DEF TypeOK, Control, Startup, AskedAfterStore, Buffers, BufferCurrent, BufferWritten, FrameCurrent, Buffer, Cell, Nul
    <2>4. NoLostWakeup'
      BY DEF NoLostWakeup
    <2> QED
      BY <2>1, <2>2, <2>3, <2>4 DEF Control, Buffers
  <1>3. CASE CopyBackAndWrite
    <2> USE <1>3 DEF CopyBackAndWrite
    <2>1. TypeOK'
      <3>1. sbuf' \in Buffer
        BY DEF TypeOK, Buffer, Cell, Nul
      <3> QED
        BY <3>1 DEF TypeOK
    <2>2. Control'
      BY DEF TypeOK, Control, WsiKnown, Startup, AskedAfterStore, HandlerNeverOutlivesWsi, LockScope, FaultsOnlyAtEnd
    <2>3. Buffers'
      BY DEF TypeOK, Control, Startup, AskedAfterStore, Buffers, BufferCurrent, BufferWritten, FrameCurrent, Buffer, Cell, Nul
    <2>4. NoLostWakeup'
      BY DEF NoLostWakeup
    <2> QED
      BY <2>1, <2>2, <2>3, <2>4 DEF Control, Buffers
  <1>4. CASE CheckWritten
    <2>1. TypeOK'
      <3>1. lpc' \in {"drop", "service"}
        BY <1>4 DEF CheckWritten
      <3>2. lock_ring' \in Mutex
        BY <1>4 DEF CheckWritten, Unlock, TypeOK, Mutex
      <3>3. sbuf' \in Buffer /\ len' = 0
        BY <1>4 DEF CheckWritten, Buffer, Cell, Both, Nul
      <3>4. UNCHANGED <<allocated, buf, wsi_multi, established, pthread_state, user_state,
                        wsi, writable, received, mpc, size, stored, rtn,
                        hpc, taken, crashed, served, openAt>>
        BY <1>4 DEF CheckWritten
      <3> QED
        BY <3>1, <3>2, <3>3, <3>4 DEF TypeOK, Mutex
    <2>2. Control'
      BY <1>4 DEF CheckWritten, Unlock, TypeOK, Control, WsiKnown, Startup, AskedAfterStore, HandlerNeverOutlivesWsi, LockScope, FaultsOnlyAtEnd
    <2>3. Buffers'
      BY <1>4 DEF CheckWritten, TypeOK, Control, Startup, AskedAfterStore, Buffers, BufferCurrent, BufferWritten, FrameCurrent
    <2>4. NoLostWakeup'
      BY <1>4 DEF CheckWritten, NoLostWakeup
    <2> QED
      BY <2>1, <2>2, <2>3, <2>4 DEF Control, Buffers
  <1> QED
    BY <1>1, <1>2, <1>3, <1>4

\* The connection is established, closed and freed.
LEMMA ConnectionPreserves ==
    ASSUME IInv, Established \/ Closed \/ Join
    PROVE  IInv'
  <1> USE DEF IInv
  <1>1. CASE Established
    <2>1. TypeOK'
      <3>1. writable' \in BOOLEAN /\ openAt' \in 0 .. MaxReports
        BY <1>1 DEF Established, TypeOK
      <3> QED
        BY <1>1, <3>1 DEF Established, TypeOK
    <2>2. Control'
      <3>1. writable' => writable
        BY <1>1 DEF Established
      <3>2. AskedAfterStore'
        BY <1>1, <3>1 DEF Established, Control, AskedAfterStore
      <3> QED
        BY <1>1, <3>2 DEF Established, TypeOK, Control, WsiKnown, Startup,
                       HandlerNeverOutlivesWsi, LockScope, FaultsOnlyAtEnd
    <2>3. Buffers'
      BY <1>1 DEF Established, TypeOK, Control, Startup, AskedAfterStore, Buffers, BufferCurrent, BufferWritten, FrameCurrent
    <2>4. NoLostWakeup'
      BY <1>1 DEF Established, TypeOK, Control, WsiKnown, AskedAfterStore, NoLostWakeup
    <2> QED
      BY <2>1, <2>2, <2>3, <2>4 DEF Control, Buffers
  <1>2. CASE Closed
    <2> USE <1>2 DEF Closed
    <2>1. TypeOK'
      <3>1. wsi_multi' \in BOOLEAN /\ established' \in BOOLEAN
        BY Zenon
      <3>2. /\ UNCHANGED <<allocated, buf, user_state, lock_ring, writable, received, mpc, size,
                           stored, len, sbuf, rtn, hpc, taken, crashed, served, openAt>>
            /\ pthread_state' = "FILISH" /\ wsi' = "closing" /\ lpc' = "join"
        OBVIOUS
      <3> QED
        BY <3>1, <3>2 DEF TypeOK
    <2>2. Control'
      BY DEF TypeOK, Control, WsiKnown, Startup, AskedAfterStore, HandlerNeverOutlivesWsi, LockScope, FaultsOnlyAtEnd
    <2>3. Buffers'
      BY DEF TypeOK, Control, Startup, AskedAfterStore, Buffers, BufferCurrent, BufferWritten, FrameCurrent
    <2>4. NoLostWakeup'
      BY DEF TypeOK, Control, WsiKnown, AskedAfterStore, NoLostWakeup
    <2> QED
      BY <2>1, <2>2, <2>3, <2>4 DEF Control, Buffers
  <1>3. CASE Join
    <2> USE <1>3 DEF Join, JoinUncreated
    <2>1. TypeOK'
      BY DEF TypeOK
    <2>2. Control'
      BY DEF TypeOK, Control, WsiKnown, Startup, AskedAfterStore, HandlerNeverOutlivesWsi, LockScope, FaultsOnlyAtEnd
    <2>3. Buffers'
      BY DEF TypeOK, Control, Startup, AskedAfterStore, Buffers, BufferCurrent, BufferWritten, FrameCurrent
    <2>4. NoLostWakeup'
      BY DEF TypeOK, Control, WsiKnown, AskedAfterStore, NoLostWakeup
    <2> QED
      BY <2>1, <2>2, <2>3, <2>4 DEF Control, Buffers
  <1> QED
    BY <1>1, <1>2, <1>3

\* The business thread takes a message and clears the buffer without the lock.
LEMMA HandlerPreserves ==
    ASSUME IInv, \/ HandlerStart \/ HandlerTest \/ HandlerTake
           \/ HandlerClearFront \/ HandlerClearBack \/ HandlerDone
           \/ HandlerFlow \/ HandlerWait
    PROVE  IInv'
  <1> USE DEF IInv
  <1>1. CASE HandlerStart
    <2> USE <1>1 DEF HandlerStart
    <2>1. TypeOK'
      BY DEF TypeOK
    <2>2. Control'
      BY DEF TypeOK, Control, WsiKnown, Startup, AskedAfterStore, HandlerNeverOutlivesWsi, LockScope, FaultsOnlyAtEnd
    <2>3. Buffers'
      BY DEF TypeOK, Control, Startup, AskedAfterStore, Buffers, BufferCurrent, BufferWritten, FrameCurrent
    <2>4. NoLostWakeup'
      BY DEF NoLostWakeup
    <2> QED
      BY <2>1, <2>2, <2>3, <2>4 DEF Control, Buffers
  <1>2. CASE HandlerTest
    <2> USE <1>2 DEF HandlerTest
    <2>1. TypeOK'
      BY DEF TypeOK
    <2>2. Control'
      BY DEF TypeOK, Control, WsiKnown, Startup, AskedAfterStore, HandlerNeverOutlivesWsi, LockScope, FaultsOnlyAtEnd
    <2>3. Buffers'
      BY DEF TypeOK, Control, Startup, AskedAfterStore, Buffers, BufferCurrent, BufferWritten, FrameCurrent
    <2>4. NoLostWakeup'
      BY DEF NoLostWakeup
    <2> QED
      BY <2>1, <2>2, <2>3, <2>4 DEF Control, Buffers
  <1>3. CASE HandlerTake
    <2> USE <1>3 DEF HandlerTake
    <2>1. TypeOK'
      BY DEF TypeOK
    <2>2. Control'
      BY DEF TypeOK, Control, WsiKnown, Startup, AskedAfterStore, HandlerNeverOutlivesWsi, LockScope, FaultsOnlyAtEnd
    <2>3. Buffers'
      BY DEF TypeOK, Control, Startup, AskedAfterStore, Buffers, BufferCurrent, BufferWritten, FrameCurrent
    <2>4. NoLostWakeup'
      BY DEF NoLostWakeup
    <2> QED
      BY <2>1, <2>2, <2>3, <2>4 DEF Control, Buffers
  <1>4. CASE HandlerClearFront
    <2> USE <1>4 DEF HandlerClearFront
    <2>1. TypeOK'
      <3>1. buf' \in Buffer
        BY DEF TypeOK, Buffer, Cell, Nul
      <3> QED
        BY <3>1 DEF TypeOK
    <2>2. Control'
      BY DEF TypeOK, Control, WsiKnown, Startup, AskedAfterStore, HandlerNeverOutlivesWsi, LockScope, FaultsOnlyAtEnd
    <2>3. Buffers'
      BY DEF TypeOK, Control, Startup, AskedAfterStore, Buffers, BufferCurrent, BufferWritten, FrameCurrent, Buffer, Cell, Nul
    <2>4. NoLostWakeup'
      BY DEF NoLostWakeup
    <2> QED
      BY <2>1, <2>2, <2>3, <2>4 DEF Control, Buffers
  <1>5. CASE HandlerClearBack
    <2> USE <1>5 DEF HandlerClearBack
    <2>1. TypeOK'
      <3>1. buf' \in Buffer
        BY DEF TypeOK, Buffer, Cell, Nul
      <3> QED
        BY <3>1 DEF TypeOK
    <2>2. Control'
      BY DEF TypeOK, Control, WsiKnown, Startup, AskedAfterStore, HandlerNeverOutlivesWsi, LockScope, FaultsOnlyAtEnd
    <2>3. Buffers'
      BY DEF TypeOK, Control, Startup, AskedAfterStore, Buffers, BufferCurrent, BufferWritten, FrameCurrent, Buffer, Cell, Nul
    <2>4. NoLostWakeup'
      BY DEF NoLostWakeup
    <2> QED
      BY <2>1, <2>2, <2>3, <2>4 DEF Control, Buffers
  <1>6. CASE HandlerDone
    <2> USE <1>6 DEF HandlerDone
    <2>1. TypeOK'
      <3>1. taken' \in Buffer
        BY DEF Buffer, Cell, Both, Nul
      <3> QED
        BY <3>1 DEF TypeOK
    <2>2. Control'
      BY DEF TypeOK, Control, WsiKnown, Startup, AskedAfterStore, HandlerNeverOutlivesWsi, LockScope, FaultsOnlyAtEnd
    <2>3. Buffers'
      BY DEF TypeOK, Control, Startup, AskedAfterStore, Buffers, BufferCurrent, BufferWritten, FrameCurrent
    <2>4. NoLostWakeup'
      BY DEF NoLostWakeup
    <2> QED
      BY <2>1, <2>2, <2>3, <2>4 DEF Control, Buffers
  <1>7. CASE HandlerFlow
    <2> USE <1>7 DEF HandlerFlow
    <2>1. TypeOK'
      BY DEF TypeOK
    <2>2. Control'
      BY DEF TypeOK, Control, WsiKnown, Startup, AskedAfterStore, HandlerNeverOutlivesWsi, LockScope, FaultsOnlyAtEnd
    <2>3. Buffers'
      BY DEF TypeOK, Control, Startup, AskedAfterStore, Buffers, BufferCurrent, BufferWritten, FrameCurrent
    <2>4. NoLostWakeup'
      BY DEF NoLostWakeup
    <2> QED
      BY <2>1, <2>2, <2>3, <2>4 DEF Control, Buffers
  <1>8. CASE HandlerWait
    <2> USE <1>8 DEF HandlerWait
    <2>1. TypeOK'
      BY DEF TypeOK
    <2>2. Control'
      BY DEF TypeOK, Control, WsiKnown, Startup, AskedAfterStore, HandlerNeverOutlivesWsi, LockScope, FaultsOnlyAtEnd
    <2>3. Buffers'
      BY DEF TypeOK, Control, Startup, AskedAfterStore, Buffers, BufferCurrent, BufferWritten, FrameCurrent
    <2>4. NoLostWakeup'
      BY DEF NoLostWakeup
    <2> QED
      BY <2>1, <2>2, <2>3, <2>4 DEF Control, Buffers
  <1> QED
    BY <1>1, <1>2, <1>3, <1>4, <1>5, <1>6, <1>7, <1>8

\* Initially nothing is allocated, connected or running.
LEMMA InitIInv == Init => IInv
  <1> SUFFICES ASSUME Init
               PROVE  IInv
    OBVIOUS
  <1>1. TypeOK
    <2>1. buf \in Buffer /\ sbuf \in Buffer /\ taken \in Buffer
      BY DEF Init, Both, Buffer, Cell, Nul, Junk
    <2>2. /\ allocated \in BOOLEAN /\ wsi_multi \in BOOLEAN /\ established \in BOOLEAN
          /\ writable \in BOOLEAN /\ crashed \in BOOLEAN
      BY Zenon DEF Init
    <2>3. /\ pthread_state = "FILISH" /\ user_state = "NULL" /\ wsi = "none"
          /\ lock_ring = "free"
          /\ mpc = "idle" /\ lpc = "regist" /\ hpc = "none"
          /\ received = 0 /\ size = 1 /\ stored = 0 /\ len = 0 /\ rtn = 0
          /\ served = 0 /\ openAt = 0
      BY DEF Init
    <2> QED
      BY <2>1, <2>2, <2>3 DEF TypeOK
  <1>2. Control
    BY DEF Init, Control, WsiKnown, Startup, AskedAfterStore, HandlerNeverOutlivesWsi,
           LockScope, FaultsOnlyAtEnd
  <1>3. Buffers /\ NoLostWakeup
    BY DEF Init, Buffers, BufferCurrent, BufferWritten, FrameCurrent, NoLostWakeup, Both,
           Junk
  <1> QED
    BY <1>1, <1>2, <1>3 DEF IInv, Control, Buffers

\* Every step of a thread or of the library preserves IInv.
LEMMA NextIInv == IInv /\ [Next]_vars => IInv'
  <1> SUFFICES ASSUME IInv, [Next]_vars
               PROVE  IInv'
    OBVIOUS
  <1>1. CASE UNCHANGED vars
    BY <1>1 DEF vars, IInv, TypeOK, WsiKnown, Startup, AskedAfterStore, BufferCurrent,
                BufferWritten, FrameCurrent, NoLostWakeup, HandlerNeverOutlivesWsi, LockScope, FaultsOnlyAtEnd
  <1>2. CASE StoreFront \/ MainStep
    BY <1>2, StoresPreserve, AskingPreserves DEF MainStep
  <1>3. CASE LwsStep
    BY <1>3, StartingPreserves, ReceivingPreserves, WritingPreserves, ConnectionPreserves
       DEF LwsStep
  <1>4. CASE Established \/ ReceiveClearFront \/ Writeable \/ Closed
    BY <1>4, ReceivingPreserves, WritingPreserves, ConnectionPreserves
  <1>5. CASE HandlerStep
    BY <1>5, HandlerPreserves DEF HandlerStep
  <1> QED
    BY <1>1, <1>2, <1>3, <1>4, <1>5 DEF Next

-----------------------------------------------------------------------------
\* IInv is an invariant of the link for every interleaving of its threads.
THEOREM Invariance == Spec => []IInv
  <1>1. Init => IInv
    BY InitIInv
  <1>2. IInv /\ [Next]_vars => IInv'
    BY NextIInv
  <1> QED
    BY <1>1, <1>2, PTL DEF Spec

\* The variables keep their types.
THEOREM TypeCorrect == Spec => []TypeOK
  <1>1. IInv => TypeOK
    BY DEF IInv
  <1> QED
    BY <1>1, Invariance, PTL

\* Storing first and asking for the WRITEABLE callback afterwards loses no wake-up,
\* although the two threads share no lock.
THEOREM WakeupsKept == Spec => []NoLostWakeup
  <1>1. IInv => NoLostWakeup
    BY DEF IInv
  <1> QED
    BY <1>1, Invariance, PTL

\* The copy the WRITEABLE callback sends has no bytes of a superseded report and no
\* uninitialised ones.
THEOREM FramesCurrent == Spec => []FrameCurrent
  <1>1. IInv => FrameCurrent
    BY DEF IInv
  <1> QED
    BY <1>1, Invariance, PTL

\* The join in the close callback keeps the connection until the business thread has
\* left it.
THEOREM JoinProtects == Spec => []HandlerNeverOutlivesWsi
  <1>1. IInv => HandlerNeverOutlivesWsi
    BY DEF IInv
  <1> QED
    BY <1>1, Invariance, PTL

\* lock_ring is released on every path out of a callback.
THEOREM LockReleased == Spec => []LockScope
  <1>1. IInv => LockScope
    BY DEF IInv
  <1> QED
    BY <1>1, Invariance, PTL

\* The pointers the threads share without a lock fail only when the connection ends.
THEOREM FaultsAtEnd == Spec => []FaultsOnlyAtEnd
  <1>1. IInv => FaultsOnlyAtEnd
    BY DEF IInv
  <1> QED
    BY <1>1, Invariance, PTL
=============================================================================
