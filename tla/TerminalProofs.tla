--------------------------- MODULE TerminalProofs ---------------------------
(***************************************************************************)
(* Proofs about Terminal, for any number of points, of changes and of      *)
(* messages, and every interleaving of the board, the main loop, the       *)
(* link's threads and the library: the terminal implements Monitoring, and *)
(* a link at rest has delivered the last report.                           *)
(*                                                                         *)
(* The invariants of the components are not proved again.  A step of the   *)
(* terminal is a step of each component or leaves the component's          *)
(* variables alone, so AP!IInv and LP!IInv, which the proofs about the     *)
(* components give, hold of the terminal.                                  *)
(***************************************************************************)
EXTENDS Terminal, Extrema, SequenceTheorems

AP == INSTANCE AcquisitionProofs WITH p_user <- allocated
LP == INSTANCE WsLinkProofs

-----------------------------------------------------------------------------
(* The components as the proofs and as the composition see them.           *)

LEMMA SameAcquisition ==
    /\ AP!Chan = A!Chan /\ AP!NoReport = A!NoReport
    /\ \A c : AP!Source(c) = A!Source(c)
    /\ AP!Watched = A!Watched
    /\ AP!ShmCells = A!ShmCells /\ AP!EnvUndefined = A!EnvUndefined
  <1>1. AP!Chan = A!Chan
    BY DEF AP!Chan, A!Chan
  <1>2. AP!NoReport = A!NoReport
    BY <1>1 DEF AP!NoReport, A!NoReport
  <1>3. \A c : AP!Source(c) = A!Source(c)
    BY Zenon DEF AP!Source, A!Source, AP!SourceOf, A!SourceOf, AP!currentA, A!currentA,
                 AP!voltageV, A!voltageV, AP!aiValI, A!aiValI, AP!aiValV, A!aiValV,
                 AP!EnvCells, A!EnvCells, AP!AI_NUM_MAX, A!AI_NUM_MAX, AP!EnvTypes, A!EnvTypes,
                 AP!EnvUndefined, A!EnvUndefined, AP!Unread, A!Unread
  <1>4. AP!ShmCells = A!ShmCells /\ AP!EnvUndefined = A!EnvUndefined
    BY DEF AP!ShmCells, A!ShmCells, AP!EnvUndefined, A!EnvUndefined
  <1>5. AP!Watched = A!Watched
    BY <1>1, <1>3, <1>4 DEF AP!Watched, A!Watched, AP!ShmAddr, A!ShmAddr
  <1> QED
    BY <1>1, <1>2, <1>3, <1>4, <1>5

LEMMA AcquisitionSteps ==
    /\ A!LoopTop => AP!LoopTop
    /\ A!MonitorChannel => AP!MonitorChannel
    /\ A!MonitorFault => AP!MonitorFault
    /\ A!MonitorEnd => AP!MonitorEnd
    /\ A!Look => AP!Look
    /\ A!FormatChannel => AP!FormatChannel
    /\ A!FormatEnd => AP!FormatEnd
    /\ A!Send => AP!Send
    /\ A!UserAlloc => AP!UserAlloc
    /\ A!signal_handler => AP!signal_handler
    /\ \A a, v : A!BoardWrite(a, v) => AP!BoardWrite(a, v)
  <1> USE SameAcquisition DEF A!hwVars, AP!hwVars
  <1>1. A!LoopTop => AP!LoopTop
    BY DEF A!LoopTop, AP!LoopTop
  <1>2. A!MonitorChannel => AP!MonitorChannel
    BY Zenon DEF A!MonitorChannel, AP!MonitorChannel, A!FloatEq, AP!FloatEq, A!Readings, AP!Readings
  <1>3. A!MonitorFault => AP!MonitorFault
    BY DEF A!MonitorFault, AP!MonitorFault
  <1>4. A!MonitorEnd => AP!MonitorEnd
    BY DEF A!MonitorEnd, AP!MonitorEnd
  <1>5. A!Look => AP!Look
    BY DEF A!Look, AP!Look, A!hw_look_cache_status, AP!hw_look_cache_status
  <1>6. A!FormatChannel => AP!FormatChannel
    BY DEF A!FormatChannel, AP!FormatChannel
  <1>7. (A!FormatEnd => AP!FormatEnd) /\ (A!Send => AP!Send)
    BY DEF A!FormatEnd, AP!FormatEnd, A!Send, AP!Send
  <1>8. (A!UserAlloc => AP!UserAlloc) /\ (A!signal_handler => AP!signal_handler)
    BY DEF A!UserAlloc, AP!UserAlloc, A!signal_handler, AP!signal_handler
  <1>9. \A a, v : A!BoardWrite(a, v) => AP!BoardWrite(a, v)
    BY DEF A!BoardWrite, AP!BoardWrite
  <1> QED
    BY <1>1, <1>2, <1>3, <1>4, <1>5, <1>6, <1>7, <1>8, <1>9

\* A step of one component leaves the shared p_user and the other component alone.
LEMMA AcquisitionStep == [Next]_vars => [AP!Next]_(AP!vars)
  <1> SUFFICES ASSUME [Next]_vars PROVE [AP!Next]_(AP!vars)
    OBVIOUS
  <1> USE AcquisitionSteps DEF AP!Next, AP!loop
  <1>1. CASE UNCHANGED vars
    BY <1>1 DEF vars, acq, AP!vars
  <1>2. CASE Sample
    BY <1>2 DEF Sample
  <1>3. CASE Signal \/ Allocate
    BY <1>3 DEF Signal, Allocate
  <1>4. CASE BoardWrites
    BY <1>4, SameAcquisition DEF BoardWrites
  <1>5. CASE FinishSend
    <2>1. UNCHANGED allocated
      BY <1>5 DEF FinishSend, L!MainStep, L!StoreBack, L!CheckWsi, L!RequestWritable, L!proto
    <2> QED
      BY <1>5, <2>1 DEF FinishSend, acq, AP!vars
  <1>6. CASE StoreReport
    BY <1>6 DEF StoreReport, L!StoreFront, acq, AP!vars
  <1>7. CASE WriteFrame
    BY <1>7 DEF WriteFrame, L!CopyBackAndWrite, L!proto, acq, AP!vars
  <1>8. CASE LinkStep
    <2>1. UNCHANGED allocated
      BY <1>8 DEF LinkStep, L!Connect, L!ConnectFails, L!CreateHandler, L!CreateHandlerFails,
                      L!ReceiveClearBack, L!ReceiveMoveFront, L!ReceiveMoveBack, L!CopyFront,
                      L!CheckWritten, L!Closed, L!Join, L!proto
    <2> QED
      BY <1>8, <2>1 DEF LinkStep, acq, AP!vars
  <1>9. CASE LinkEvent \/ CallWriteable
    BY <1>9 DEF LinkEvent, CallWriteable, L!Established, L!ReceiveClearFront, L!Closed, L!Writeable,
                acq, AP!vars
  <1>10. CASE Business
    <2>1. UNCHANGED allocated
      BY <1>10 DEF Business, L!HandlerStep, L!HandlerStart, L!HandlerTest, L!HandlerTake, L!HandlerClearFront,
                       L!HandlerClearBack, L!HandlerDone, L!HandlerFlow, L!HandlerWait, L!proto
    <2> QED
      BY <1>10, <2>1 DEF Business, acq, AP!vars
  <1> QED
    BY <1>1, <1>2, <1>3, <1>4, <1>5, <1>6, <1>7, <1>8, <1>9, <1>10
       DEF Next, MainThread, LwsThread

LEMMA LinkSteps ==
    /\ L!StoreFront => LP!StoreFront
    /\ L!StoreBack => LP!StoreBack
    /\ L!CheckWsi => LP!CheckWsi
    /\ L!RequestWritable => LP!RequestWritable
    /\ L!Regist => LP!Regist
    /\ L!Connect => LP!Connect
    /\ L!ConnectFails => LP!ConnectFails
    /\ L!CreateHandler => LP!CreateHandler
    /\ L!CreateHandlerFails => LP!CreateHandlerFails
    /\ L!ReceiveClearFront => LP!ReceiveClearFront
    /\ L!ReceiveClearBack => LP!ReceiveClearBack
    /\ L!ReceiveMoveFront => LP!ReceiveMoveFront
    /\ L!ReceiveMoveBack => LP!ReceiveMoveBack
    /\ L!Writeable => LP!Writeable
    /\ L!CopyFront => LP!CopyFront
    /\ L!CopyBackAndWrite => LP!CopyBackAndWrite
    /\ L!CheckWritten => LP!CheckWritten
    /\ L!Established => LP!Established
    /\ L!Closed => LP!Closed
    /\ L!Join => LP!Join
    /\ L!HandlerStart => LP!HandlerStart
    /\ L!HandlerTest => LP!HandlerTest
    /\ L!HandlerTake => LP!HandlerTake
    /\ L!HandlerClearFront => LP!HandlerClearFront
    /\ L!HandlerClearBack => LP!HandlerClearBack
    /\ L!HandlerDone => LP!HandlerDone
    /\ L!HandlerFlow => LP!HandlerFlow
    /\ L!HandlerWait => LP!HandlerWait
  <1> USE DEF L!proto, LP!proto, L!libws, LP!libws, L!main, LP!main, L!lws, LP!lws,
              L!handle, LP!handle, L!hist, LP!hist, L!Up, LP!Up, L!Down, LP!Down, L!Nul,
              LP!Nul, L!Junk, LP!Junk, L!Both, LP!Both, L!strlen, LP!strlen,
              L!JoinUncreated, LP!JoinUncreated, L!ReportsError, LP!ReportsError,
              L!Lock, LP!Lock, L!Unlock, LP!Unlock
  <1>1. /\ L!StoreFront => LP!StoreFront
        /\ L!StoreBack => LP!StoreBack
        /\ L!CheckWsi => LP!CheckWsi
        /\ L!RequestWritable => LP!RequestWritable
    BY DEF L!StoreFront, LP!StoreFront, L!StoreBack, LP!StoreBack, L!CheckWsi,
           LP!CheckWsi, L!RequestWritable, LP!RequestWritable
  <1>2. /\ L!Regist => LP!Regist
        /\ L!Connect => LP!Connect
        /\ L!ConnectFails => LP!ConnectFails
        /\ L!CreateHandler => LP!CreateHandler
        /\ L!CreateHandlerFails => LP!CreateHandlerFails
    BY DEF L!Regist, LP!Regist, L!Connect, LP!Connect, L!ConnectFails, LP!ConnectFails,
           L!CreateHandler, LP!CreateHandler, L!CreateHandlerFails, LP!CreateHandlerFails
  <1>3. /\ L!ReceiveClearFront => LP!ReceiveClearFront
        /\ L!ReceiveClearBack => LP!ReceiveClearBack
        /\ L!ReceiveMoveFront => LP!ReceiveMoveFront
        /\ L!ReceiveMoveBack => LP!ReceiveMoveBack
    BY DEF L!ReceiveClearFront, LP!ReceiveClearFront, L!ReceiveClearBack,
           LP!ReceiveClearBack, L!ReceiveMoveFront, LP!ReceiveMoveFront,
           L!ReceiveMoveBack, LP!ReceiveMoveBack
  <1>4. /\ L!Writeable => LP!Writeable
        /\ L!CopyFront => LP!CopyFront
        /\ L!CopyBackAndWrite => LP!CopyBackAndWrite
        /\ L!CheckWritten => LP!CheckWritten
    BY DEF L!Writeable, LP!Writeable, L!CopyFront, LP!CopyFront, L!CopyBackAndWrite,
           LP!CopyBackAndWrite, L!CheckWritten, LP!CheckWritten
  <1>5. /\ L!Established => LP!Established
        /\ L!Closed => LP!Closed
        /\ L!Join => LP!Join
    BY DEF L!Established, LP!Established, L!Closed, LP!Closed, L!Join, LP!Join
  <1>6. /\ L!HandlerStart => LP!HandlerStart
        /\ L!HandlerTest => LP!HandlerTest
        /\ L!HandlerTake => LP!HandlerTake
        /\ L!HandlerClearFront => LP!HandlerClearFront
        /\ L!HandlerClearBack => LP!HandlerClearBack
        /\ L!HandlerDone => LP!HandlerDone
        /\ L!HandlerFlow => LP!HandlerFlow
        /\ L!HandlerWait => LP!HandlerWait
    BY DEF L!HandlerStart, LP!HandlerStart, L!HandlerTest, LP!HandlerTest, L!HandlerTake,
           LP!HandlerTake, L!HandlerClearFront, LP!HandlerClearFront, L!HandlerClearBack,
           LP!HandlerClearBack, L!HandlerDone, LP!HandlerDone, L!HandlerFlow,
           LP!HandlerFlow, L!HandlerWait, LP!HandlerWait
  <1> QED
    BY <1>1, <1>2, <1>3, <1>4, <1>5, <1>6

LEMMA LinkStepOrStutter == [Next]_vars => [LP!Next]_(LP!vars)
  <1> SUFFICES ASSUME [Next]_vars PROVE [LP!Next]_(LP!vars)
    OBVIOUS
  <1> USE LinkSteps DEF LP!Next, LP!MainStep, LP!LwsStep, LP!HandlerStep
  <1>1. UNCHANGED <<allocated, link>> => UNCHANGED LP!vars
    BY DEF link, LP!vars, LP!proto, LP!libws, LP!main, LP!lws, LP!handle, LP!hist
  <1>2. CASE UNCHANGED vars
    BY <1>1, <1>2 DEF vars
  <1>3. CASE Sample \/ Signal \/ BoardWrites
    <2>1. UNCHANGED allocated
      BY <1>3 DEF Sample, Signal, BoardWrites, A!LoopTop, A!MonitorChannel, A!MonitorFault,
                  A!MonitorEnd, A!Look, A!FormatChannel, A!FormatEnd, A!signal_handler, A!BoardWrite
    <2> QED
      BY <1>1, <1>3, <2>1 DEF Sample, Signal, BoardWrites
  <1>4. CASE StoreReport \/ FinishSend
    BY <1>4 DEF StoreReport, FinishSend, L!MainStep
  <1>5. CASE Allocate \/ WriteFrame
    BY <1>5 DEF Allocate, WriteFrame
  <1>6. CASE LinkStep
    BY <1>6 DEF LinkStep
  <1>7. CASE LinkEvent \/ CallWriteable
    BY <1>7 DEF LinkEvent, CallWriteable
  <1>8. CASE Business
    BY <1>8 DEF Business, L!HandlerStep
  <1> QED
    BY <1>2, <1>3, <1>4, <1>5, <1>6, <1>7, <1>8 DEF Next, MainThread, LwsThread

LEMMA Starts == Init => AP!Init /\ LP!Init
  <1>1. A!Init => AP!Init
    BY SameAcquisition DEF A!Init, AP!Init, A!NewStatus, AP!NewStatus
  <1>2. L!Init => LP!Init
    BY DEF L!Init, LP!Init, L!Both, LP!Both, L!Nul, LP!Nul, L!Junk, LP!Junk
  <1> QED
    BY <1>1, <1>2 DEF Init

\* The invariants of the components hold of the terminal.
Components == AP!IInv /\ LP!IInv

\* The terminal's constants meet the assumptions of the components.
LEMMA Assumptions ==
    /\ nChNum \in Nat
    /\ kind \in AP!Kinds /\ val_type \in [AP!Chan -> AP!Types] /\ io \in [AP!Chan -> Nat]
    /\ Zero \in Value /\ MinusOne \in Value /\ None \notin Value
    /\ MaxReports \in Nat /\ MaxDown \in Nat
  <1>1. AP!Kinds = A!Kinds /\ AP!Chan = A!Chan
    BY DEF AP!Kinds, A!Kinds, AP!Chan, A!Chan
  <1>2. AP!Types = A!Types
    BY DEF AP!Types, A!Types, AP!TypeOrder, A!TypeOrder
  <1> QED
    BY <1>1, <1>2, WritesAssumption, DownAssumption, PointsAssumption, ValuesAssumption

LEMMA ComponentsInv ==
    /\ Init => Components
    /\ Components /\ [Next]_vars => Components'
  <1>1. Init => Components
    BY Starts, Assumptions, AP!InitIInv, LP!InitIInv DEF Components
  <1>2. Components /\ [Next]_vars => Components'
    BY AcquisitionStep, LinkStepOrStutter, Assumptions, AP!NextIInv, LP!NextIInv DEF Components
  <1> QED
    BY <1>1, <1>2

\* What is used of the invariant of the main loop.
LEMMA AcquisitionFacts ==
    ASSUME Components
    PROVE  /\ shm \in [A!Watched -> Value] /\ val \in [A!Chan -> Value]
           /\ dbuf \in [A!Chan -> Value \cup {None}] /\ packed \in [A!Chan -> Value \cup {None}]
           /\ window \in [A!Chan -> SUBSET Value] /\ i \in 0 .. nChNum
           /\ \A c \in A!Chan :
                 /\ pc = "send" /\ A!Source(c) \in A!Watched => val[c] \in window[c]
                 /\ pc = "send" => packed[c] = val[c]
                 /\ pc = "format" /\ status[c] = "UPTARE" =>
                        packed[c] = None \/ packed[c] # val[c] \/ val[c] = NaN
  <1>1. AP!IInv
    BY DEF Components
  <1>2. AP!TypeOK
    BY <1>1 DEF AP!IInv
  <1>3. /\ shm \in [A!Watched -> Value] /\ val \in [A!Chan -> Value]
        /\ dbuf \in [A!Chan -> Value \cup {None}] /\ packed \in [A!Chan -> Value \cup {None}]
        /\ window \in [A!Chan -> SUBSET Value] /\ i \in 0 .. nChNum
    BY <1>2, SameAcquisition DEF AP!TypeOK
  <1> SUFFICES ASSUME NEW c \in A!Chan
               PROVE  /\ pc = "send" /\ A!Source(c) \in A!Watched => val[c] \in window[c]
                      /\ pc = "send" => packed[c] = val[c]
                      /\ pc = "format" /\ status[c] = "UPTARE" =>
                             packed[c] = None \/ packed[c] # val[c] \/ val[c] = NaN
    BY <1>3
  <1>4. c \in AP!Chan /\ AP!Source(c) = A!Source(c) /\ AP!Watched = A!Watched
    BY SameAcquisition
  <1>5. pc = "send" /\ A!Source(c) \in A!Watched => val[c] \in window[c]
    BY <1>1, <1>4 DEF AP!IInv, AP!SampleFresh, AP!Sampled
  <1>6. pc = "send" => packed[c] = val[c]
    BY <1>1, <1>4 DEF AP!IInv, AP!FormattedUsed, AP!DirtyExact
  <1>7. pc = "format" /\ status[c] = "UPTARE" => packed[c] = None \/ packed[c] # val[c] \/ val[c] = NaN
    BY <1>1, <1>4 DEF AP!IInv, AP!DueIsChanged
  <1> QED
    BY <1>5, <1>6, <1>7

\* What is used of the invariant of the link.
LEMMA LinkFacts ==
    ASSUME Components
    PROVE  /\ stored \in Nat /\ size \in 1 .. 2 /\ len \in 0 .. 2 /\ received \in Nat
           /\ served \in Nat /\ served <= stored /\ openAt \in Nat
           /\ buf \in [1 .. 2 -> L!Cell] /\ sbuf \in [1 .. 2 -> L!Cell]
           /\ mpc \in {"idle", "back", "check", "request"}
           /\ user_state \in {"NULL", "RX"}
           /\ L!NoLostWakeup
           /\ lpc = "regist" => stored = 0 /\ mpc = "idle"
  <1>1. LP!IInv
    BY DEF Components
  <1>2. /\ stored \in Nat /\ size \in 1 .. 2 /\ len \in 0 .. 2 /\ received \in Nat /\ served \in Nat
        /\ openAt \in Nat /\ mpc \in {"idle", "back", "check", "request"} /\ user_state \in {"NULL", "RX"}
    BY <1>1 DEF LP!IInv, LP!TypeOK
  <1>3. buf \in [1 .. 2 -> L!Cell] /\ sbuf \in [1 .. 2 -> L!Cell]
    BY <1>1 DEF LP!IInv, LP!TypeOK, LP!Buffer, LP!Cell, L!Cell
  <1>4. served <= stored /\ (lpc = "regist" => stored = 0 /\ mpc = "idle")
    BY <1>1 DEF LP!IInv, LP!AskedAfterStore, LP!Startup
  <1>5. L!NoLostWakeup
    BY <1>1 DEF LP!IInv, LP!NoLostWakeup, L!NoLostWakeup
  <1> QED
    BY <1>2, <1>3, <1>4, <1>5

-----------------------------------------------------------------------------
(* The last report that has a point.                                       *)

LastOf(S) == CHOOSE n \in S : \A m \in S : m <= n

LEMMA LastOfIsLast ==
    ASSUME NEW k \in Nat, NEW S \in SUBSET (1 .. k), S # {}
    PROVE  LastOf(S) \in S /\ \A m \in S : m <= LastOf(S)
  <1>1. S \in SUBSET (0 .. k)
    OBVIOUS
  <1>2. \E n \in S : \A m \in S : m <= n
    BY <1>1, GreatestExists
  <1> QED
    BY <1>2 DEF LastOf

\* M!Reported, of any sequence of reports.
With(log, c)   == {n \in 1 .. Len(log) : log[n].points[c] # None}
Latest(log, c) == IF With(log, c) = {} THEN None ELSE log[LastOf(With(log, c))].points[c]

ReportedIn(reps, c) ==
    LET log  == [n \in 1 .. Len(reps) |-> reps[n].points]
        with == {n \in 1 .. Len(log) : log[n][c] # None}
    IN  IF with = {} THEN None ELSE log[LastOf(with)][c]

LEMMA ReportedInIsLatest ==
    ASSUME NEW reps \in Seq(Report), NEW c
    PROVE  ReportedIn(reps, c) = Latest(reps, c)
  <1> DEFINE log  == [n \in 1 .. Len(reps) |-> reps[n].points]
             with == {n \in 1 .. Len(log) : log[n][c] # None}
  <1>1. ReportedIn(reps, c) = IF with = {} THEN None ELSE log[LastOf(with)][c]
    BY DEF ReportedIn
  <1>2. Len(log) = Len(reps) /\ \A n \in 1 .. Len(reps) : log[n] = reps[n].points
    OBVIOUS
  <1>3. with = With(reps, c)
    BY <1>2 DEF With
  <1> HIDE DEF log, with
  <1>4. with # {} => LastOf(with) \in 1 .. Len(reps)
    <2>1. Len(reps) \in Nat /\ with \in SUBSET (1 .. Len(reps))
      BY <1>3 DEF With
    <2> QED
      BY <2>1, LastOfIsLast
  <1> QED
    BY <1>1, <1>2, <1>3, <1>4 DEF Latest

\* The two ends of a step.
LEMMA ReportedIsLatest ==
    ASSUME NEW c
    PROVE  /\ reports \in Seq(Report) => M!Reported(c) = Latest(reports, c)
           /\ reports' \in Seq(Report) => M!Reported(c)' = Latest(reports', c)
  <1>1. M!Reported(c) = ReportedIn(reports, c)
    BY DEF M!Reported, ReportedIn, LastOf
  <1>2. M!Reported(c)' = ReportedIn(reports', c)
    BY DEF M!Reported, ReportedIn, LastOf
  <1> QED
    BY <1>1, <1>2, ReportedInIsLatest

\* A new report that has the point is the last one; another one changes nothing.
LEMMA LatestAppend ==
    ASSUME NEW log \in Seq(Report), NEW report \in Report, NEW c \in A!Chan
    PROVE  Latest(Append(log, report), c) = IF report.points[c] # None THEN report.points[c]
                                                                    ELSE Latest(log, c)
  <1> DEFINE new == Append(log, report)
             n   == Len(log) + 1
  <1>1. /\ Len(new) = n /\ n \in Nat /\ Len(log) \in Nat
        /\ new[n] = report /\ \A m \in 1 .. Len(log) : new[m] = log[m]
    OBVIOUS
  <1>2. With(log, c) \in SUBSET (1 .. Len(log))
    BY DEF With
  <1> HIDE DEF new
  <1>3. CASE report.points[c] # None
    <2>1. With(new, c) = With(log, c) \cup {n}
      BY <1>1, <1>3 DEF With
    <2>2. With(new, c) \in SUBSET (1 .. n) /\ n \in With(new, c)
      BY <1>1, <1>2, <2>1
    <2>3. LastOf(With(new, c)) \in 1 .. n /\ n <= LastOf(With(new, c))
      BY <1>1, <2>2, LastOfIsLast
    <2>4. LastOf(With(new, c)) = n
      BY <1>1, <2>3
    <2>5. Latest(new, c) = report.points[c]
      BY <1>1, <2>2, <2>4 DEF Latest
    <2> QED
      BY <1>3, <2>5 DEF new
  <1>4. CASE report.points[c] = None
    <2>1. With(new, c) = With(log, c)
      BY <1>1, <1>4 DEF With
    <2>2. With(log, c) # {} => LastOf(With(log, c)) \in 1 .. Len(log)
      BY <1>1, <1>2, LastOfIsLast
    <2>3. Latest(new, c) = Latest(log, c)
      BY <1>1, <2>1, <2>2 DEF Latest
    <2> QED
      BY <1>4, <2>3 DEF new
  <1> QED
    BY <1>3, <1>4

-----------------------------------------------------------------------------
(* The joint invariant, part by part.                                      *)

LEMMA ReportsStoredKept ==
    ASSUME Components, ReportsStored, [Next]_vars
    PROVE  ReportsStored'
  <1> USE LinkFacts DEF ReportsStored
  <1>1. CASE UNCHANGED vars
    BY <1>1 DEF vars, acq, link, hist
  <1>2. CASE Sample \/ Signal \/ BoardWrites
    BY <1>2 DEF Sample, Signal, BoardWrites, link, hist, A!LoopTop, A!MonitorChannel, A!MonitorFault,
                A!MonitorEnd, A!Look, A!FormatChannel, A!FormatEnd, A!signal_handler, A!BoardWrite
  <1>3. CASE StoreReport
    <2>1. [points |-> dbuf, size |-> size'] \in Report
      BY <1>3, AcquisitionFacts DEF StoreReport, L!StoreFront, Report
    <2>2. /\ reports' = Append(reports, [points |-> dbuf, size |-> size'])
          /\ mpc = "idle" /\ mpc' = "back" /\ stored' = stored /\ pc' = "send"
      BY <1>3 DEF StoreReport, L!StoreFront, L!libws, acq
    <2>3. /\ reports' \in Seq(Report) /\ Len(reports') = Len(reports) + 1
          /\ reports'[Len(reports')].size = size'
      BY <2>1, <2>2
    <2> QED
      BY <2>2, <2>3
  <1>4. CASE FinishSend
    BY <1>4 DEF FinishSend, L!MainStep, L!StoreBack, L!CheckWsi, L!RequestWritable, A!Send, acq, hist
  <1>5. CASE Allocate
    BY <1>5 DEF Allocate, A!UserAlloc, L!Regist, L!main, hist
  <1>6. CASE WriteFrame
    BY <1>6 DEF WriteFrame, L!CopyBackAndWrite, L!main, acq
  <1>7. CASE LinkStep \/ LinkEvent \/ CallWriteable
    BY <1>7 DEF LinkStep, LinkEvent, CallWriteable, acq, hist, L!main,
                L!Connect, L!ConnectFails, L!CreateHandler, L!CreateHandlerFails,
                L!ReceiveClearFront, L!ReceiveClearBack, L!ReceiveMoveFront, L!ReceiveMoveBack,
                L!CopyFront, L!CheckWritten, L!Closed, L!Join, L!Established, L!Writeable
  <1>8. CASE Business
    BY <1>8 DEF Business, acq, hist, L!main, L!HandlerStep, L!HandlerStart, L!HandlerTest,
                L!HandlerTake, L!HandlerClearFront, L!HandlerClearBack, L!HandlerDone,
                L!HandlerFlow, L!HandlerWait
  <1> QED
    BY <1>1, <1>2, <1>3, <1>4, <1>5, <1>6, <1>7, <1>8 DEF Next, MainThread, LwsThread

\* Only the main loop and a stored report concern the report in the making.
LEMMA ReportInMakingKept ==
    ASSUME Components, ReportsStored, ReportInMaking, [Next]_vars
    PROVE  ReportInMaking'
  <1>1. ReportsStored'
    BY ReportsStoredKept
  <1>2. reports \in Seq(Report) /\ reports' \in Seq(Report)
    BY <1>1 DEF ReportsStored
  <1> SUFFICES ASSUME NEW c \in A!Chan
               PROVE  /\ pc' = "format" /\ c >= i' => dbuf'[c] = None
                      /\ pc' \in {"format", "send"} /\ dbuf'[c] # None => dbuf'[c] = val'[c]
                      /\ IF Making' /\ dbuf'[c] # None
                         THEN packed'[c] = dbuf'[c] /\ (dbuf'[c] # M!Reported(c)' \/ dbuf'[c] = NaN)
                         ELSE packed'[c] = M!Reported(c)'
    BY DEF ReportInMaking
  <1> DEFINE last == Latest(reports, c)
  <1>3. M!Reported(c) = last /\ M!Reported(c)' = Latest(reports', c)
    BY <1>2, ReportedIsLatest
  <1>4. /\ pc = "format" /\ c >= i => dbuf[c] = None
        /\ pc \in {"format", "send"} /\ dbuf[c] # None => dbuf[c] = val[c]
        /\ IF Making /\ dbuf[c] # None
           THEN packed[c] = dbuf[c] /\ (dbuf[c] # last \/ dbuf[c] = NaN)
           ELSE packed[c] = last
    BY <1>3 DEF ReportInMaking
  <1>5. reports' = reports => M!Reported(c)' = last
    BY <1>3
  <1>6. c \in 0 .. nChNum - 1 /\ nChNum \in Nat
    BY PointsAssumption DEF A!Chan
  <1>7. mpc # "idle" => pc = "send"
    BY DEF ReportsStored
  <1> HIDE DEF last
  <1>8. CASE UNCHANGED <<acq, mpc, reports>>
    BY <1>4, <1>5, <1>8 DEF acq, Making
  <1>9. CASE Sample
    <2>1. mpc' = mpc /\ reports' = reports
      BY <1>9 DEF Sample, link, hist
    <2>2. CASE A!LoopTop \/ A!MonitorChannel \/ A!MonitorFault \/ A!MonitorEnd
      BY <1>4, <1>5, <2>1, <2>2 DEF Making, A!LoopTop, A!MonitorChannel, A!MonitorFault, A!MonitorEnd
    <2>3. CASE A!Look
      <3>1. A!NoReport[c] = None
        BY DEF A!NoReport
      <3> QED
        BY <1>4, <1>5, <2>1, <2>3, <3>1 DEF Making, A!Look
    <2>4. CASE A!FormatChannel
      <3>1. CASE c = i /\ status[i] = "UPTARE"
        <4>1. packed[c] = last
          BY <1>4, <1>6, <2>4, <3>1 DEF A!FormatChannel
        <4>2. packed[c] = None \/ packed[c] # val[c] \/ val[c] = NaN
          BY <2>4, <3>1, AcquisitionFacts DEF A!FormatChannel
        <4>3. /\ dbuf'[c] = val[c] /\ packed'[c] = val[c] /\ val' = val
              /\ i' = i + 1 /\ val[c] # None /\ pc = "format" /\ pc' = "format"
          BY <2>4, <3>1, AcquisitionFacts, ValuesAssumption DEF A!FormatChannel
        <4> QED
          BY <1>5, <1>6, <2>1, <3>1, <4>1, <4>2, <4>3 DEF Making
      <3>2. CASE ~(c = i /\ status[i] = "UPTARE")
        <4>1. /\ dbuf'[c] = dbuf[c] /\ packed'[c] = packed[c] /\ val' = val
              /\ i' = i + 1 /\ pc' = pc
          BY <2>4, <3>2, AcquisitionFacts DEF A!FormatChannel
        <4>2. c >= i' => c >= i
          BY <1>6, <4>1, AcquisitionFacts
        <4> QED
          BY <1>4, <1>5, <2>1, <4>1, <4>2 DEF Making
      <3> QED
        BY <3>1, <3>2
    <2>5. CASE A!FormatEnd
      BY <1>4, <1>5, <1>7, <2>1, <2>5 DEF Making, A!FormatEnd, A!hwVars
    <2> QED
      BY <1>9, <2>2, <2>3, <2>4, <2>5 DEF Sample
  <1>10. CASE StoreReport
    <2>1. /\ pc = "send" /\ mpc = "idle" /\ mpc' = "back" /\ UNCHANGED acq
          /\ reports' = Append(reports, [points |-> dbuf, size |-> size'])
      BY <1>10 DEF StoreReport, L!StoreFront
    <2>2. [points |-> dbuf, size |-> size'] \in Report
      BY <1>10, AcquisitionFacts DEF StoreReport, L!StoreFront, Report
    <2>3. M!Reported(c)' = IF dbuf[c] # None THEN dbuf[c] ELSE last
      BY <1>2, <1>3, <2>1, <2>2, LatestAppend DEF last
    <2> QED
      BY <1>4, <2>1, <2>3 DEF acq, Making
  <1>11. CASE FinishSend
    <2>1. reports' = reports /\ mpc # "idle" /\ (mpc' # "idle" \/ A!Send)
      BY <1>11 DEF FinishSend, L!MainStep, L!StoreBack, L!CheckWsi, L!RequestWritable, hist
    <2>2. mpc' = "idle" => A!Send
      BY <1>11 DEF FinishSend
    <2>3. mpc' # "idle" => UNCHANGED acq
      BY <1>11 DEF FinishSend
    <2> QED
      BY <1>4, <1>5, <1>11, <2>1, <2>2, <2>3 DEF FinishSend, A!Send, acq, Making
  <1>12. CASE Signal \/ BoardWrites \/ Allocate
    <2>1. UNCHANGED <<val, pc, i, dbuf, packed, mpc, reports>>
      BY <1>12 DEF Signal, BoardWrites, Allocate, A!signal_handler, A!BoardWrite, A!hwVars,
                   A!UserAlloc, L!Regist, L!main, link, hist
    <2> QED
      BY <1>4, <1>5, <2>1 DEF Making
  <1>13. CASE WriteFrame \/ LinkStep \/ LinkEvent \/ CallWriteable
    <2>1. UNCHANGED <<acq, mpc, reports>>
      BY <1>13 DEF WriteFrame, LinkStep, LinkEvent, CallWriteable, hist, L!main, L!CopyBackAndWrite,
                L!Connect, L!ConnectFails, L!CreateHandler, L!CreateHandlerFails,
                L!ReceiveClearFront, L!ReceiveClearBack, L!ReceiveMoveFront, L!ReceiveMoveBack,
                L!CopyFront, L!CheckWritten, L!Closed, L!Join, L!Established, L!Writeable
    <2> QED
      BY <1>8, <2>1
  <1>14. CASE Business
    <2>1. UNCHANGED <<acq, mpc, reports>>
      BY <1>14 DEF Business, hist, L!main, L!HandlerStep, L!HandlerStart, L!HandlerTest,
                L!HandlerTake, L!HandlerClearFront, L!HandlerClearBack, L!HandlerDone,
                L!HandlerFlow, L!HandlerWait
    <2> QED
      BY <1>8, <2>1
  <1>15. CASE UNCHANGED vars
    BY <1>8, <1>15 DEF vars, link, hist
  <1> QED
    BY <1>9, <1>10, <1>11, <1>12, <1>13, <1>14, <1>15 DEF Next, MainThread, LwsThread

LEMMA FramesInOrderKept ==
    ASSUME Components, ReportsStored, FramesInOrder, [Next]_vars
    PROVE  FramesInOrder'
  <1>1. Len(reports) \in Nat /\ (mpc = "idle" => Len(reports) = stored)
    BY LinkFacts DEF ReportsStored
  <1>2. /\ upto \in 0 .. Len(reports)
        /\ buf[1].src = "up" => Len(reports) > 0 /\ buf[1].n = Len(reports)
        /\ (lpc = "w_back" /\ sbuf[1].src = "up") =>
               sbuf[1].n \in 1 .. Len(reports) /\ upto <= sbuf[1].n
    BY DEF FramesInOrder
  <1>3. ASSUME UNCHANGED <<reports, upto, sbuf>>,
               buf'[1].src = "up" => buf' = buf,
               lpc' = "w_back" => lpc = "w_back"
        PROVE  FramesInOrder'
    BY <1>2, <1>3 DEF FramesInOrder
  <1>4. CASE UNCHANGED vars
    BY <1>3, <1>4 DEF vars, link, hist
  <1>5. CASE Sample \/ Signal \/ BoardWrites
    BY <1>3, <1>5 DEF Sample, Signal, BoardWrites, link, hist
  <1>6. CASE StoreReport
    <2>1. /\ mpc = "idle" /\ UNCHANGED <<lpc, sbuf, upto>>
          /\ buf' = [buf EXCEPT ![1] = L!Up(stored + 1)]
          /\ reports' = Append(reports, [points |-> dbuf, size |-> size'])
      BY <1>6 DEF StoreReport, L!StoreFront, L!lws
    <2>2. buf'[1] = L!Up(stored + 1) /\ Len(reports') = Len(reports) + 1
      BY <2>1, LinkFacts DEF ReportsStored
    <2>3. buf'[1].n = Len(reports') /\ Len(reports') > 0
      BY <1>1, <2>1, <2>2 DEF L!Up
    <2> QED
      BY <1>1, <1>2, <2>1, <2>2, <2>3 DEF FramesInOrder
  <1>7. CASE FinishSend
    <2>1. UNCHANGED <<reports, upto, sbuf, lpc>>
      BY <1>7 DEF FinishSend, L!MainStep, L!StoreBack, L!CheckWsi, L!RequestWritable, L!lws, hist
    <2>2. L!StoreBack => buf'[1] = buf[1]
      BY LinkFacts DEF L!StoreBack
    <2>3. ~L!StoreBack => buf' = buf
      BY <1>7 DEF FinishSend, L!MainStep, L!CheckWsi, L!RequestWritable, L!proto
    <2> QED
      BY <1>2, <2>1, <2>2, <2>3 DEF FramesInOrder
  <1>8. CASE Allocate
    <2>1. buf'[1].src = "junk"
      BY <1>8 DEF Allocate, L!Regist, L!Both, L!Junk
    <2> QED
      BY <1>3, <1>8, <2>1 DEF Allocate, L!Regist, hist
  <1>9. CASE WriteFrame
    <2>1. /\ lpc = "w_back" /\ lpc' = "w_check" /\ sbuf'[1] = sbuf[1]
          /\ UNCHANGED <<reports, buf>>
      BY <1>9, LinkFacts DEF WriteFrame, L!CopyBackAndWrite, L!proto
    <2>2. upto' = upto \/ (upto' = sbuf'[1].n /\ sbuf'[1].src = "up")
      BY <1>9 DEF WriteFrame
    <2> QED
      BY <1>2, <2>1, <2>2 DEF FramesInOrder
  <1>10. CASE LinkStep
    <2>1. UNCHANGED <<reports, upto>>
      BY <1>10 DEF LinkStep, hist
    <2>2. CASE L!CopyFront
      <3>1. lpc' = "w_back" /\ buf' = buf /\ sbuf'[1] \in {buf[1], L!Nul}
        BY <2>2 DEF L!CopyFront, L!proto
      <3> QED
        BY <1>1, <1>2, <2>1, <3>1 DEF FramesInOrder, L!Nul
    <2>3. CASE L!ReceiveClearBack
      <3>1. buf'[1] = buf[1] /\ sbuf' = sbuf /\ lpc' = "r_move"
        BY <2>3, LinkFacts DEF L!ReceiveClearBack
      <3> QED
        BY <1>2, <2>1, <3>1 DEF FramesInOrder
    <2>4. CASE L!ReceiveMoveFront
      <3>1. buf'[1].src = "down"
        BY <2>4, LinkFacts DEF L!ReceiveMoveFront, L!Down
      <3> QED
        BY <1>3, <2>1, <2>4, <3>1 DEF L!ReceiveMoveFront
    <2>5. CASE L!ReceiveMoveBack
      <3>1. buf'[1] = buf[1] /\ sbuf' = sbuf /\ lpc' = "service"
        BY <2>5, LinkFacts DEF L!ReceiveMoveBack
      <3> QED
        BY <1>2, <2>1, <3>1 DEF FramesInOrder
    <2>6. CASE \/ L!Connect \/ L!ConnectFails \/ L!CreateHandler \/ L!CreateHandlerFails
               \/ L!CheckWritten \/ L!Closed \/ L!Join
      <3>1. buf' = buf /\ lpc' # "w_back"
        BY <2>6 DEF L!Connect, L!ConnectFails, L!CreateHandler, L!CreateHandlerFails,
                    L!CheckWritten, L!Closed, L!Join, L!proto
      <3> QED
        BY <1>2, <2>1, <3>1 DEF FramesInOrder
    <2> QED
      BY <1>10, <2>2, <2>3, <2>4, <2>5, <2>6 DEF LinkStep
  <1>11. CASE LinkEvent \/ CallWriteable
    <2>1. CASE L!ReceiveClearFront
      <3>1. buf'[1].src = "nul"
        BY <2>1, LinkFacts DEF L!ReceiveClearFront, L!Nul
      <3> QED
        BY <1>3, <1>11, <2>1, <3>1 DEF L!ReceiveClearFront, LinkEvent, CallWriteable, hist
    <2>2. CASE ~L!ReceiveClearFront
      BY <1>3, <1>11, <2>2 DEF LinkEvent, CallWriteable, hist, L!Established, L!Closed, L!Writeable, L!lws
    <2> QED
      BY <2>1, <2>2
  <1>12. CASE Business
    <2>1. UNCHANGED <<reports, upto, sbuf, lpc>>
      BY <1>12 DEF Business, hist, L!lws, L!HandlerStep, L!HandlerStart, L!HandlerTest,
                L!HandlerTake, L!HandlerClearFront, L!HandlerClearBack, L!HandlerDone,
                L!HandlerFlow, L!HandlerWait
    <2>2. buf'[1] = buf[1] \/ buf'[1] = L!Nul
      BY <1>12, LinkFacts DEF Business, L!proto, L!HandlerStep, L!HandlerStart, L!HandlerTest,
                L!HandlerTake, L!HandlerClearFront, L!HandlerClearBack, L!HandlerDone,
                L!HandlerFlow, L!HandlerWait
    <2> QED
      BY <1>2, <2>1, <2>2 DEF FramesInOrder, L!Nul
  <1> QED
    BY <1>4, <1>5, <1>6, <1>7, <1>8, <1>9, <1>10, <1>11, <1>12 DEF Next, MainThread, LwsThread

\* The upper computer's values change with the report it has them from.
LEMMA DeliveredKeptKept ==
    ASSUME Components, ReportsStored, FramesInOrder, DeliveredKept, [Next]_vars
    PROVE  DeliveredKept'
  <1>1. UNCHANGED <<reports, upto, delivered>> => DeliveredKept'
    BY DEF DeliveredKept
  <1>2. CASE StoreReport
    <2>1. upto' = upto /\ delivered' = delivered /\ upto \in 0 .. Len(reports)
      BY <1>2 DEF StoreReport, FramesInOrder
    <2>2. upto > 0 => reports'[upto] = reports[upto]
      BY <1>2, <2>1 DEF StoreReport, ReportsStored
    <2> QED
      BY <2>1, <2>2 DEF DeliveredKept
  <1>3. CASE WriteFrame
    <2>1. reports' = reports
      BY <1>3 DEF WriteFrame
    <2>2. \/ UNCHANGED <<upto, delivered>>
          \/ delivered' = [c \in A!Chan |-> IF reports[upto'].points[c] # None
                                            THEN reports[upto'].points[c] ELSE delivered[c]]
      BY <1>3 DEF WriteFrame
    <2> QED
      BY <1>1, <2>1, <2>2 DEF DeliveredKept
  <1>4. CASE ~StoreReport /\ ~WriteFrame
    BY <1>1, <1>4 DEF Next, MainThread, LwsThread, Sample, Signal, BoardWrites, FinishSend, Allocate,
                      LinkStep, LinkEvent, CallWriteable, Business, hist, vars
  <1> QED
    BY <1>2, <1>3, <1>4

LEMMA UndisturbedKept ==
    ASSUME Components, ReportsStored, Undisturbed, [Next]_vars
    PROVE  Undisturbed'
  <1> SUFFICES ASSUME received' = 0
               PROVE  /\ user_state' = "NULL"
                      /\ hpc' \notin {"log", "front", "back", "null", "flow"}
                      /\ lpc' \notin {"r_back", "r_move", "r_flag"}
                      /\ Len(reports') > 0 =>
                            /\ buf'[1] = L!Up(Len(reports'))
                            /\ mpc' # "back" => buf'[2] = IF size' = 2 THEN L!Up(stored') ELSE L!Nul
    BY DEF Undisturbed, L!Up, L!Nul
  <1>1. ~L!ReceiveClearFront
    BY LinkFacts DEF L!ReceiveClearFront
  <1>2. received = 0
    BY <1>1 DEF Next, vars, link, MainThread, LwsThread, Sample, Signal, BoardWrites, FinishSend,
                Allocate, LinkStep, LinkEvent, CallWriteable, Business, StoreReport, WriteFrame,
                L!MainStep, L!HandlerStep, L!libws,
                L!StoreFront, L!StoreBack, L!CheckWsi, L!RequestWritable, L!Regist, L!Connect,
                L!ConnectFails, L!CreateHandler, L!CreateHandlerFails, L!ReceiveClearBack,
                L!ReceiveMoveFront, L!ReceiveMoveBack, L!Writeable, L!CopyFront,
                L!CopyBackAndWrite, L!CheckWritten, L!Established, L!Closed, L!Join,
                L!HandlerStart, L!HandlerTest, L!HandlerTake, L!HandlerClearFront,
                L!HandlerClearBack, L!HandlerDone, L!HandlerFlow, L!HandlerWait
  <1>3. /\ user_state = "NULL" /\ hpc \notin {"log", "front", "back", "null", "flow"}
        /\ lpc \notin {"r_back", "r_move", "r_flag"}
        /\ Len(reports) > 0 =>
               /\ buf[1] = L!Up(Len(reports))
               /\ mpc # "back" => buf[2] = IF size = 2 THEN L!Up(stored) ELSE L!Nul
    BY <1>2 DEF Undisturbed
  <1>4. Len(reports) = IF mpc = "back" THEN stored + 1 ELSE stored
    BY DEF ReportsStored
  <1>5. CASE UNCHANGED <<link, reports>>
    BY <1>3, <1>5 DEF link
  <1>6. CASE Sample \/ Signal \/ BoardWrites \/ UNCHANGED vars
    <2>1. UNCHANGED <<link, reports>>
      BY <1>6 DEF Sample, Signal, BoardWrites, hist, vars
    <2> QED
      BY <1>5, <2>1
  <1>7. CASE StoreReport
    <2>1. /\ UNCHANGED <<user_state, hpc, lpc>>
          /\ mpc = "idle" /\ mpc' = "back"
          /\ buf' = [buf EXCEPT ![1] = L!Up(stored + 1)]
          /\ reports' = Append(reports, [points |-> dbuf, size |-> size'])
      BY <1>7 DEF StoreReport, L!StoreFront, L!lws, L!handle
    <2>2. buf'[1] = L!Up(stored + 1) /\ Len(reports') = Len(reports) + 1
      BY <2>1, LinkFacts DEF ReportsStored
    <2> QED
      BY <1>3, <1>4, <2>1, <2>2
  <1>8. CASE FinishSend
    <2>1. UNCHANGED <<reports, user_state, hpc, lpc>>
      BY <1>8 DEF FinishSend, L!MainStep, L!StoreBack, L!CheckWsi, L!RequestWritable, L!lws,
                  L!proto, L!handle, hist
    <2>2. CASE L!StoreBack
      <3>1. /\ buf' = [buf EXCEPT ![2] = IF size = 2 THEN L!Up(stored + 1) ELSE L!Nul]
            /\ stored' = stored + 1 /\ size' = size
        BY <2>2 DEF L!StoreBack
      <3>2. buf'[1] = buf[1] /\ buf'[2] = IF size = 2 THEN L!Up(stored + 1) ELSE L!Nul
        BY <3>1, LinkFacts
      <3> QED
        BY <1>3, <2>1, <3>1, <3>2
    <2>3. CASE L!CheckWsi \/ L!RequestWritable
      BY <1>3, <2>1, <2>3 DEF L!CheckWsi, L!RequestWritable, L!proto
    <2> QED
      BY <1>8, <2>2, <2>3 DEF FinishSend, L!MainStep
  <1>9. CASE Allocate
    <2>1. Len(reports) = 0
      BY <1>4, <1>9, LinkFacts DEF Allocate, L!Regist
    <2>2. UNCHANGED <<reports, user_state, hpc>> /\ lpc' = "connect"
      BY <1>9 DEF Allocate, L!Regist, L!handle, hist
    <2> QED
      BY <1>3, <2>1, <2>2
  <1>10. CASE WriteFrame
    <2>1. UNCHANGED <<reports, user_state, hpc, buf, mpc, size, stored>> /\ lpc' = "w_check"
      BY <1>10 DEF WriteFrame, L!CopyBackAndWrite, L!proto, L!handle, L!main
    <2> QED
      BY <1>3, <2>1
  <1>11. CASE LinkStep
    <2>1. /\ UNCHANGED <<reports, user_state, buf, mpc, size, stored>>
          /\ hpc' \in {hpc, "created"} /\ lpc' \notin {"r_back", "r_move", "r_flag"}
      BY <1>3, <1>11 DEF LinkStep, L!Connect, L!ConnectFails, L!CreateHandler, L!CreateHandlerFails,
                L!ReceiveClearBack, L!ReceiveMoveFront, L!ReceiveMoveBack, L!CopyFront,
                L!CheckWritten, L!Closed, L!Join, L!proto, L!main, L!handle, hist
    <2> QED
      BY <1>3, <2>1
  <1>12. CASE LinkEvent \/ CallWriteable
    <2>1. /\ UNCHANGED <<reports, user_state, buf, mpc, size, stored, hpc>>
          /\ lpc' \notin {"r_back", "r_move", "r_flag"}
      BY <1>1, <1>3, <1>12 DEF LinkEvent, CallWriteable, L!Established, L!Closed, L!Writeable,
                               L!main, L!handle, L!lws, hist
    <2> QED
      BY <1>3, <2>1
  <1>13. CASE Business
    <2>1. /\ UNCHANGED <<reports, user_state, buf, mpc, size, stored, lpc>>
          /\ hpc' \notin {"log", "front", "back", "null", "flow"}
      BY <1>3, <1>13 DEF Business, hist, L!lws, L!proto, L!main, L!HandlerStep, L!HandlerStart,
                L!HandlerTest, L!HandlerTake, L!HandlerClearFront, L!HandlerClearBack,
                L!HandlerDone, L!HandlerFlow, L!HandlerWait
    <2> QED
      BY <1>3, <2>1
  <1> QED
    BY <1>6, <1>7, <1>8, <1>9, <1>10, <1>11, <1>12, <1>13 DEF Next, MainThread, LwsThread

LEMMA LastFrameKept ==
    ASSUME Components, Components', ReportsStored, FramesInOrder, Undisturbed, LastFrame, [Next]_vars
    PROVE  LastFrame'
  <1> SUFFICES ASSUME received' = 0, served' = stored', stored' > 0, mpc' # "back"
               PROVE  /\ lpc' \in {"w_front", "w_back"} => len' = size'
                      /\ lpc' = "w_back" => sbuf'[1] = L!Up(stored')
                      /\ lpc' \notin {"w_front", "w_back"} /\ rtn' # -1 => upto' = stored'
    BY DEF LastFrame, L!Up
  <1>1. /\ stored \in Nat /\ served \in Nat /\ served <= stored
        /\ received \in Nat /\ size \in 1 .. 2 /\ len \in 0 .. 2
    BY LinkFacts
  <1>2. Undisturbed'
    BY UndisturbedKept
  <1>3. Len(reports) = IF mpc = "back" THEN stored + 1 ELSE stored
    BY DEF ReportsStored
  <1>4. (received = 0 /\ served = stored /\ stored > 0 /\ mpc # "back") =>
            /\ lpc \in {"w_front", "w_back"} => len = size
            /\ lpc = "w_back" => sbuf[1] = L!Up(stored)
            /\ lpc \notin {"w_front", "w_back"} /\ rtn # -1 => upto = stored
    BY DEF LastFrame
  <1>5. ASSUME UNCHANGED <<received, served, stored, len, size, sbuf, rtn, upto>>, mpc # "back",
               lpc' = lpc \/ (lpc \notin {"w_front", "w_back"} /\ lpc' \notin {"w_front", "w_back"})
        PROVE  /\ lpc' \in {"w_front", "w_back"} => len' = size'
               /\ lpc' = "w_back" => sbuf'[1] = L!Up(stored')
               /\ lpc' \notin {"w_front", "w_back"} /\ rtn' # -1 => upto' = stored'
    BY <1>4, <1>5
  <1>6. CASE Sample \/ Signal \/ BoardWrites \/ UNCHANGED vars
    <2>1. UNCHANGED <<received, served, stored, len, size, sbuf, rtn, upto, mpc, lpc>>
      BY <1>6 DEF Sample, Signal, BoardWrites, hist, vars, link
    <2> QED
      BY <1>5, <2>1
  <1>7. CASE StoreReport
    BY <1>7 DEF StoreReport, L!StoreFront
  <1>8. CASE FinishSend
    <2>1. UNCHANGED <<received, served, len, size, sbuf, rtn, upto, lpc>>
      BY <1>8 DEF FinishSend, L!MainStep, L!StoreBack, L!CheckWsi, L!RequestWritable, L!lws,
                  L!libws, L!hist, hist
    <2>2. ~L!StoreBack
      BY <1>1, <2>1 DEF L!StoreBack
    <2>3. mpc # "back" /\ stored' = stored
      BY <1>8, <2>2 DEF FinishSend, L!MainStep, L!CheckWsi, L!RequestWritable
    <2> QED
      BY <1>5, <2>1, <2>3
  <1>9. CASE Allocate
    <2>1. stored' = stored /\ stored = 0
      BY <1>9, LinkFacts DEF Allocate, L!Regist, L!main
    <2> QED
      BY <2>1
  <1>10. CASE WriteFrame
    <2>1. /\ UNCHANGED <<received, served, stored, len, size, mpc, buf, reports>>
          /\ lpc = "w_back" /\ lpc' = "w_check"
          /\ sbuf' = IF len = 2 THEN [sbuf EXCEPT ![2] = buf[2]] ELSE sbuf
          /\ rtn' \in {len, -1}
      BY <1>10 DEF WriteFrame, L!CopyBackAndWrite, L!proto, L!libws, L!main, L!hist
    <2>2. len = size /\ sbuf[1] = L!Up(stored)
      BY <1>4, <2>1
    <2>3. stored \in 1 .. Len(reports) /\ stored = Len(reports) /\ reports[stored].size = len
      BY <1>1, <1>3, <2>1, <2>2 DEF ReportsStored
    <2>4. sbuf'[1] = L!Up(stored)
      BY <2>1, <2>2, LinkFacts
    <2>5. len = 2 => sbuf'[2] = L!Up(stored)
      <3>1. len = 2 => sbuf'[2] = buf[2]
        BY <2>1, LinkFacts
      <3>2. buf[2] = IF size = 2 THEN L!Up(stored) ELSE L!Nul
        BY <1>3, <2>1, <2>3 DEF Undisturbed
      <3> QED
        BY <2>2, <3>1, <3>2
    <2>6. \A k \in 1 .. len : sbuf'[k] = sbuf'[1]
      <3>1. len = 1 \/ len = 2
        BY <1>1, <2>2
      <3> QED
        BY <2>4, <2>5, <3>1
    <2>7. sbuf'[1].n = stored /\ sbuf'[1].src = "up"
      BY <2>4 DEF L!Up
    <2>8. rtn' # -1 => rtn' = len /\ len > 0
      BY <1>1, <2>1, <2>2
    <2>9. rtn' # -1 => upto' = stored
      BY <1>10, <2>3, <2>6, <2>7, <2>8 DEF WriteFrame
    <2> QED
      BY <2>1, <2>9
  <1>11. CASE LinkStep
    <2>1. UNCHANGED <<received, served, stored, len, size, rtn, upto, mpc, buf>> \/ ~L!CopyFront
      BY <1>11 DEF LinkStep, L!CopyFront, L!proto, L!libws, L!main, L!hist, hist
    <2>2. CASE L!CopyFront
      <3>1. /\ UNCHANGED <<received, served, stored, len, size, rtn, upto, mpc>>
            /\ lpc = "w_front" /\ lpc' = "w_back"
        BY <2>1, <2>2 DEF L!CopyFront
      <3>2. received = 0 /\ served = stored /\ stored > 0 /\ mpc # "back"
        BY <3>1
      <3>3. len = size /\ len > 0
        BY <1>1, <1>4, <3>1, <3>2
      <3>4. buf[1] = L!Up(stored)
        BY <1>1, <1>3, <3>2 DEF Undisturbed
      <3>5. sbuf'[1] = buf[1]
        BY <2>2, <3>3 DEF L!CopyFront
      <3> QED
        BY <3>1, <3>3, <3>4, <3>5
    <2>3. CASE ~L!CopyFront
      <3>1. UNCHANGED <<received, served, stored, size, rtn, upto, mpc>>
        BY <1>11, <2>3 DEF LinkStep, L!Connect, L!ConnectFails, L!CreateHandler, L!CreateHandlerFails,
                L!ReceiveClearBack, L!ReceiveMoveFront, L!ReceiveMoveBack,
                L!CheckWritten, L!Closed, L!Join, L!proto, L!main, L!libws, L!hist, hist
      <3>2. lpc \notin {"w_front", "w_back"} /\ lpc' \notin {"w_front", "w_back"}
        BY <1>11, <2>3 DEF LinkStep, L!Connect, L!ConnectFails, L!CreateHandler, L!CreateHandlerFails,
                L!ReceiveClearBack, L!ReceiveMoveFront, L!ReceiveMoveBack,
                L!CheckWritten, L!Closed, L!Join
      <3> QED
        BY <1>4, <3>1, <3>2
    <2> QED
      BY <2>2, <2>3
  <1>12. CASE LinkEvent
    <2>1. ~L!ReceiveClearFront
      BY <1>1 DEF L!ReceiveClearFront
    <2>2. UNCHANGED <<received, served, stored, len, size, sbuf, rtn, upto, mpc>>
      BY <1>12, <2>1 DEF LinkEvent, L!Established, L!Closed, L!main, L!lws, L!hist, hist
    <2>3. lpc' = lpc \/ (lpc \notin {"w_front", "w_back"} /\ lpc' \notin {"w_front", "w_back"})
      BY <1>12, <2>1 DEF LinkEvent, L!Established, L!Closed, L!lws
    <2> QED
      BY <1>5, <2>2, <2>3
  <1>13. CASE CallWriteable
    <2>1. /\ UNCHANGED <<received, stored, size, mpc, buf, reports>>
          /\ lpc' = "w_front" /\ len' = L!strlen(buf)
      BY <1>13 DEF CallWriteable, L!Writeable, L!main, hist
    <2>2. /\ Len(reports) = stored /\ stored > 0
          /\ buf[1] = L!Up(stored)
          /\ buf[2] = IF size = 2 THEN L!Up(stored) ELSE L!Nul
      BY <1>3, <2>1 DEF Undisturbed
    <2>3. L!Up(stored) # L!Nul
      BY DEF L!Up, L!Nul
    <2>4. L!strlen(buf) = size
      BY <1>1, <2>2, <2>3 DEF L!strlen
    <2> QED
      BY <2>1, <2>4
  <1>14. CASE Business
    <2>1. UNCHANGED <<received, served, stored, len, size, sbuf, rtn, upto, lpc, mpc>>
      BY <1>14 DEF Business, hist, L!lws, L!libws, L!main, L!hist, L!HandlerStep, L!HandlerStart,
                L!HandlerTest, L!HandlerTake, L!HandlerClearFront, L!HandlerClearBack,
                L!HandlerDone, L!HandlerFlow, L!HandlerWait
    <2> QED
      BY <1>5, <2>1
  <1> QED
    BY <1>6, <1>7, <1>8, <1>9, <1>10, <1>11, <1>12, <1>13, <1>14 DEF Next, MainThread, LwsThread

LEMMA JointInvInductive ==
    /\ Init => JointInv
    /\ Components /\ Components' /\ JointInv /\ [Next]_vars => JointInv'
  <1>1. Init => JointInv
    <2> SUFFICES ASSUME Init PROVE JointInv
      OBVIOUS
    <2>1. /\ reports = <<>> /\ Len(reports) = 0 /\ upto = 0
          /\ pc = "top" /\ packed = A!NoReport
          /\ size = 1 /\ stored = 0 /\ mpc = "idle" /\ user_state = "NULL" /\ hpc = "none"
          /\ lpc = "regist" /\ buf[1].src = "junk"
      BY DEF Init, A!Init, L!Init, L!Both, L!Junk
    <2>2. ReportsStored /\ FramesInOrder /\ DeliveredKept /\ Undisturbed /\ LastFrame
      BY <2>1 DEF ReportsStored, FramesInOrder, DeliveredKept, Undisturbed, LastFrame
    <2>3. \A c : Latest(reports, c) = None
      BY <2>1 DEF Latest, With
    <2>4. \A c \in A!Chan : packed[c] = M!Reported(c)
      BY <2>1, <2>2, <2>3, ReportedIsLatest DEF ReportsStored, A!NoReport
    <2>5. ReportInMaking
      BY <2>1, <2>4 DEF ReportInMaking, Making
    <2> QED
      BY <2>2, <2>5 DEF JointInv
  <1>2. Components /\ Components' /\ JointInv /\ [Next]_vars => JointInv'
    BY ReportsStoredKept, ReportInMakingKept, FramesInOrderKept, DeliveredKeptKept,
       UndisturbedKept, LastFrameKept DEF JointInv
  <1> QED
    BY <1>1, <1>2

\* The components' invariants and the joint one hold at every moment, whatever the
\* threads' steps overlap with.
THEOREM Invariance == Spec => [](Components /\ JointInv)
  <1>1. Init => Components /\ JointInv
    BY ComponentsInv, JointInvInductive
  <1>2. (Components /\ JointInv) /\ [Next]_vars => (Components /\ JointInv)'
    BY ComponentsInv, JointInvInductive
  <1> QED
    BY <1>1, <1>2, PTL DEF Spec

-----------------------------------------------------------------------------
(* The results.                                                            *)

\* When the link has come to rest the upper computer has the last report stored on
\* the connection (srv_websocket.cpp's store and request against the WRITEABLE
\* callback of ws_test_client.c): the request made after the store leaves no report
\* behind, and the callback that answers it finds the report whole.
THEOREM LastDelivered == Spec => []LastReportDelivered
  <1>1. Components /\ JointInv => LastReportDelivered
    <2> SUFFICES ASSUME Components, JointInv,
                        wsi = "open", mpc = "idle", ~writable, lpc = "service",
                        stored > openAt, rtn # -1, received = 0,
                        NEW c \in A!Chan, reports[stored].points[c] # None
                 PROVE  delivered[c] = reports[stored].points[c]
      BY DEF LastReportDelivered
    <2>1. served = stored /\ stored > 0
      BY LinkFacts DEF L!NoLostWakeup
    <2>2. upto = stored
      BY <2>1 DEF JointInv, LastFrame
    <2> QED
      BY <2>1, <2>2 DEF JointInv, DeliveredKept
  <1> QED
    BY <1>1, Invariance, PTL

-----------------------------------------------------------------------------
(* The terminal implements Monitoring.                                     *)

\* What the upper specification sees of the board and of the reports.
Cell == [c \in A!Chan |-> IF A!Source(c) \in A!Watched THEN shm[A!Source(c)] ELSE None]
Points(reps) == [n \in 1 .. Len(reps) |-> reps[n].points]

\* Its actions over the terminal's variables.
LEMMA MonitoringActions ==
    /\ (/\ Cell \in [A!Chan -> Value \cup {None}]
        /\ window = [c \in A!Chan |-> {}] /\ Points(reports) = <<>>
        /\ upto = 0 /\ delivered = [c \in A!Chan |-> None]) => M!Init
    /\ (/\ Cell' \in [A!Chan -> Value \cup {None}]
        /\ window' = [c \in A!Chan |-> IF Cell'[c] = Cell[c] THEN window[c]
                                                             ELSE window[c] \cup {Cell'[c]}]
        /\ UNCHANGED <<Points(reports), upto, delivered>>) => M!Next
    /\ (/\ window' = [c \in A!Chan |-> {Cell[c]} \ {None}]
        /\ UNCHANGED <<Cell, Points(reports), upto, delivered>>) => M!Next
    /\ \A r \in [A!Chan -> Value \cup {None}] :
        (/\ \A c \in A!Chan : r[c] # None => /\ r[c] \in window[c] \/ Cell[c] = None
                                             /\ r[c] # M!Reported(c) \/ r[c] = NaN
         /\ Points(reports) = <<>> => \A c \in A!Chan : r[c] # None
         /\ Points(reports)' = Append(Points(reports), r)
         /\ UNCHANGED <<Cell, window, upto, delivered>>) => M!Next
    /\ \A n \in 1 .. Len(Points(reports)) :
        (/\ n >= upto /\ upto' = n
         /\ delivered' = [c \in A!Chan |-> IF Points(reports)[n][c] # None
                                           THEN Points(reports)[n][c] ELSE delivered[c]]
         /\ UNCHANGED <<Cell, window, Points(reports)>>) => M!Next
    /\ UNCHANGED <<Cell, window, Points(reports), upto, delivered>> => UNCHANGED M!vars
  <1> USE DEF Cell, Points
  <1>1. (/\ Cell \in [A!Chan -> Value \cup {None}]
         /\ window = [c \in A!Chan |-> {}] /\ Points(reports) = <<>>
         /\ upto = 0 /\ delivered = [c \in A!Chan |-> None]) => M!Init
    BY Zenon DEF M!Init
  <1>2. (/\ Cell' \in [A!Chan -> Value \cup {None}]
         /\ window' = [c \in A!Chan |-> IF Cell'[c] = Cell[c] THEN window[c]
                                                              ELSE window[c] \cup {Cell'[c]}]
         /\ UNCHANGED <<Points(reports), upto, delivered>>) => M!Next
    BY Zenon DEF M!Next, M!Change
  <1>3. (/\ window' = [c \in A!Chan |-> {Cell[c]} \ {None}]
         /\ UNCHANGED <<Cell, Points(reports), upto, delivered>>) => M!Next
    BY Zenon DEF M!Next, M!NewBeat
  <1>4. \A r \in [A!Chan -> Value \cup {None}] :
         (/\ \A c \in A!Chan : r[c] # None => /\ r[c] \in window[c] \/ Cell[c] = None
                                              /\ r[c] # M!Reported(c) \/ r[c] = NaN
          /\ Points(reports) = <<>> => \A c \in A!Chan : r[c] # None
          /\ Points(reports)' = Append(Points(reports), r)
          /\ UNCHANGED <<Cell, window, upto, delivered>>) => M!Next
    BY Zenon DEF M!Next, M!Report
  <1>5. \A n \in 1 .. Len(Points(reports)) :
         (/\ n >= upto /\ upto' = n
          /\ delivered' = [c \in A!Chan |-> IF Points(reports)[n][c] # None
                                            THEN Points(reports)[n][c] ELSE delivered[c]]
          /\ UNCHANGED <<Cell, window, Points(reports)>>) => M!Next
    BY Zenon DEF M!Next, M!Deliver
  <1>6. UNCHANGED <<Cell, window, Points(reports), upto, delivered>> => UNCHANGED M!vars
    BY Zenon DEF M!vars
  <1> QED
    BY <1>1, <1>2, <1>3, <1>4, <1>5, <1>6

\* The points of the reports, report by report.
LEMMA PointsOfReports ==
    ASSUME NEW reps \in Seq(Report)
    PROVE  /\ Points(reps) \in Seq([A!Chan -> Value \cup {None}])
           /\ Len(Points(reps)) = Len(reps)
           /\ \A n \in 1 .. Len(reps) : Points(reps)[n] = reps[n].points
  <1>1. Len(reps) \in Nat /\ \A n \in 1 .. Len(reps) : reps[n] \in Report
    OBVIOUS
  <1>2. \A report \in Report : report.points \in [A!Chan -> Value \cup {None}]
    BY DEF Report
  <1>3. \A n \in 1 .. Len(reps) : reps[n].points \in [A!Chan -> Value \cup {None}]
    BY <1>1, <1>2
  <1> QED
    BY <1>1, <1>3 DEF Points

LEMMA PointsAppend ==
    ASSUME NEW reps \in Seq(Report), NEW report \in Report
    PROVE  Points(Append(reps, report)) = Append(Points(reps), report.points)
  <1> DEFINE T == [A!Chan -> Value \cup {None}]
             s == Points(Append(reps, report))
             t == Append(Points(reps), report.points)
  <1>1. /\ Append(reps, report) \in Seq(Report) /\ Len(reps) \in Nat
        /\ Len(Append(reps, report)) = Len(reps) + 1
        /\ report.points \in T
    BY DEF Report
  <1>2. /\ s \in Seq(T) /\ Len(s) = Len(reps) + 1
        /\ \A n \in 1 .. Len(reps) + 1 : s[n] = Append(reps, report)[n].points
    BY <1>1, PointsOfReports
  <1>3. /\ Points(reps) \in Seq(T) /\ Len(Points(reps)) = Len(reps)
        /\ \A n \in 1 .. Len(reps) : Points(reps)[n] = reps[n].points
    BY PointsOfReports
  <1> HIDE DEF T
  <1>4. t \in Seq(T) /\ Len(t) = Len(reps) + 1
    BY <1>1, <1>3
  <1>5. ASSUME NEW n \in 1 .. Len(s) PROVE s[n] = t[n]
    <2>1. CASE n = Len(reps) + 1
      BY <1>1, <1>2, <1>3, <2>1
    <2>2. CASE n \in 1 .. Len(reps)
      BY <1>1, <1>2, <1>3, <2>2
    <2>3. n \in 1 .. Len(reps) + 1
      BY <1>2
    <2>4. n = Len(reps) + 1 \/ n \in 1 .. Len(reps)
      BY <1>1, <2>3
    <2> QED
      BY <2>1, <2>2, <2>4
  <1> HIDE DEF s, t
  <1>6. s = t
    BY <1>2, <1>4, <1>5, SeqEqual
  <1> QED
    BY <1>6 DEF s, t

LEMMA MonitoringInit == Init => M!Init
  <1> SUFFICES ASSUME Init PROVE M!Init
    OBVIOUS
  <1>1. Cell \in [A!Chan -> Value \cup {None}]
    BY DEF Init, A!Init, Cell
  <1>2. window = [c \in A!Chan |-> {}] /\ upto = 0 /\ delivered = [c \in A!Chan |-> None]
    BY DEF Init, A!Init, A!NoReport
  <1>3. Points(reports) = <<>>
    <2>1. reports = <<>>
      BY DEF Init
    <2> QED
      BY <2>1 DEF Points
  <1> QED
    BY <1>1, <1>2, <1>3, MonitoringActions

\* Every step is one of Monitoring, or none: a change of the readings, a new beat, a
\* report at the moment its store begins, a delivery when a frame is written that is
\* one report.
LEMMA MonitoringStep ==
    ASSUME Components, JointInv, JointInv', [Next]_vars
    PROVE  [M!Next]_(M!vars)
  <1>1. reports \in Seq(Report) /\ shm \in [A!Watched -> Value]
    BY AcquisitionFacts DEF JointInv, ReportsStored
  <1>2. reports' = reports => Points(reports)' = Points(reports)
    BY DEF Points
  <1>3. shm' = shm => Cell' = Cell
    BY DEF Cell
  <1>4. ASSUME UNCHANGED <<shm, window, reports, upto, delivered>>
        PROVE  UNCHANGED M!vars
    BY <1>2, <1>3, <1>4, MonitoringActions
  <1>5. CASE UNCHANGED vars
    BY <1>4, <1>5 DEF vars, acq, hist
  <1>6. CASE Sample
    <2>1. UNCHANGED <<shm, reports, upto, delivered>>
      BY <1>6 DEF Sample, hist, A!LoopTop, A!MonitorChannel, A!MonitorFault, A!MonitorEnd, A!Look,
                  A!FormatChannel, A!FormatEnd
    <2>2. CASE A!LoopTop
      <3>1. /\ window' = [c \in A!Chan |-> IF A!Source(c) \in A!Watched
                                           THEN {shm[A!Source(c)]} ELSE {}]
        BY <2>2 DEF A!LoopTop
      <3>2. \A c \in A!Chan : {Cell[c]} \ {None} = IF A!Source(c) \in A!Watched
                                                   THEN {shm[A!Source(c)]} ELSE {}
        BY <1>1, ValuesAssumption DEF Cell
      <3>3. window' = [c \in A!Chan |-> {Cell[c]} \ {None}]
        BY <3>1, <3>2
      <3> QED
        BY <1>2, <1>3, <2>1, <3>3, MonitoringActions
    <2>3. CASE ~A!LoopTop
      <3>1. window' = window
        BY <1>6, <2>3 DEF Sample, A!MonitorChannel, A!MonitorFault, A!MonitorEnd, A!Look,
                          A!FormatChannel, A!FormatEnd
      <3> QED
        BY <1>4, <2>1, <3>1
    <2> QED
      BY <2>2, <2>3
  <1>7. CASE Signal \/ Allocate
    BY <1>4, <1>7 DEF Signal, Allocate, A!signal_handler, A!UserAlloc, hist
  <1>8. CASE BoardWrites
    <2>1. UNCHANGED <<reports, upto, delivered>>
      BY <1>8 DEF BoardWrites
    <2>2. PICK a \in A!Watched, v \in Value : A!BoardWrite(a, v)
      BY <1>8 DEF BoardWrites
    <2>3. /\ shm[a] # v /\ shm' = [shm EXCEPT ![a] = v]
          /\ window' = [c \in A!Chan |-> IF A!Source(c) = a THEN window[c] \cup {v} ELSE window[c]]
      BY <2>2 DEF A!BoardWrite
    <2>4. shm' \in [A!Watched -> Value]
      BY <1>1, <2>3
    <2>5. Cell' \in [A!Chan -> Value \cup {None}]
      BY <2>4 DEF Cell
    <2>6. ASSUME NEW c \in A!Chan
          PROVE  (IF A!Source(c) = a THEN window[c] \cup {v} ELSE window[c])
                     = IF Cell'[c] = Cell[c] THEN window[c] ELSE window[c] \cup {Cell'[c]}
      <3>1. CASE A!Source(c) = a
        BY <1>1, <2>3, <3>1 DEF Cell
      <3>2. CASE A!Source(c) # a
        BY <1>1, <2>3, <3>2 DEF Cell
      <3> QED
        BY <3>1, <3>2
    <2>7. window' = [c \in A!Chan |-> IF Cell'[c] = Cell[c] THEN window[c]
                                                            ELSE window[c] \cup {Cell'[c]}]
      BY <2>3, <2>6
    <2> QED
      BY <1>2, <2>1, <2>5, <2>7, MonitoringActions
  <1>9. CASE StoreReport
    <2>1. /\ pc = "send" /\ mpc = "idle"
          /\ UNCHANGED <<shm, window, upto, delivered>>
          /\ reports' = Append(reports, [points |-> dbuf, size |-> size'])
      BY <1>9 DEF StoreReport, L!StoreFront, acq
    <2>2. [points |-> dbuf, size |-> size'] \in Report
      BY <1>9, AcquisitionFacts DEF StoreReport, L!StoreFront, Report
    <2>3. Points(reports)' = Append(Points(reports), dbuf)
      <3>1. Points(reports)' = Points(Append(reports, [points |-> dbuf, size |-> size']))
        BY <2>1 DEF Points
      <3> QED
        BY <1>1, <2>2, <3>1, PointsAppend
    <2>4. \A c \in A!Chan :
             /\ dbuf[c] # None => dbuf[c] = val[c]
             /\ IF dbuf[c] # None
                THEN packed[c] = dbuf[c] /\ (dbuf[c] # M!Reported(c) \/ dbuf[c] = NaN)
                ELSE packed[c] = M!Reported(c)
      BY <2>1 DEF JointInv, ReportInMaking, Making
    <2>5. ASSUME NEW c \in A!Chan, dbuf[c] # None
          PROVE  /\ dbuf[c] \in window[c] \/ Cell[c] = None
                 /\ dbuf[c] # M!Reported(c) \/ dbuf[c] = NaN
      <3>1. A!Source(c) \in A!Watched => val[c] \in window[c]
        BY <2>1, AcquisitionFacts
      <3>2. A!Source(c) \notin A!Watched => Cell[c] = None
        BY DEF Cell
      <3> QED
        BY <2>4, <2>5, <3>1, <3>2
    <2>6. ASSUME Points(reports) = <<>>, NEW c \in A!Chan
          PROVE  dbuf[c] # None
      <3>1. Len(reports) = 0
        <4>1. Len(Points(reports)) = Len(reports)
          BY <1>1, PointsOfReports
        <4> QED
          BY <2>6, <4>1
      <3>2. M!Reported(c) = None
        <4>1. Latest(reports, c) = None
          BY <3>1 DEF Latest, With
        <4> QED
          BY <1>1, <4>1, ReportedIsLatest
      <3>3. packed[c] = val[c] /\ val[c] \in Value
        BY <2>1, AcquisitionFacts
      <3> QED
        BY <2>4, <3>2, <3>3, ValuesAssumption
    <2>7. dbuf \in [A!Chan -> Value \cup {None}] /\ UNCHANGED <<Cell, window, upto, delivered>>
      BY <1>3, <2>1, AcquisitionFacts
    <2>8. M!Next
      BY <2>3, <2>5, <2>6, <2>7, MonitoringActions
    <2> QED
      BY <2>8
  <1>10. CASE WriteFrame
    <2>1. UNCHANGED <<shm, window, reports>>
      BY <1>10 DEF WriteFrame, acq
    <2>2. CASE UNCHANGED <<upto, delivered>>
      BY <1>4, <2>1, <2>2
    <2>3. CASE ~UNCHANGED <<upto, delivered>>
      <3> DEFINE n == sbuf'[1].n
      <3>1. /\ lpc = "w_back" /\ sbuf'[1] = sbuf[1]
        BY <1>10, LinkFacts DEF WriteFrame, L!CopyBackAndWrite
      <3>2. /\ sbuf'[1].src = "up" /\ upto' = n
            /\ delivered' = [c \in A!Chan |-> IF reports[n].points[c] # None
                                              THEN reports[n].points[c] ELSE delivered[c]]
        BY <1>10, <2>3 DEF WriteFrame
      <3>3. n \in 1 .. Len(reports) /\ upto <= n
        BY <3>1, <3>2 DEF JointInv, FramesInOrder
      <3> HIDE DEF n
      <3>4. Points(reports)[n] = reports[n].points /\ n \in 1 .. Len(Points(reports))
        BY <1>1, <3>3, PointsOfReports
      <3>5. n >= upto
        BY <3>3, <1>1 DEF JointInv, FramesInOrder
      <3>6. /\ delivered' = [c \in A!Chan |-> IF Points(reports)[n][c] # None
                                              THEN Points(reports)[n][c] ELSE delivered[c]]
        BY <3>2, <3>4
      <3>7. M!Next
        BY <1>2, <1>3, <2>1, <3>2, <3>4, <3>5, <3>6, MonitoringActions
      <3> QED
        BY <3>7
    <2> QED
      BY <2>2, <2>3
  <1>11. CASE FinishSend
    <2>1. UNCHANGED <<shm, window>>
      BY <1>11 DEF FinishSend, A!Send, acq
    <2> QED
      BY <1>4, <1>11, <2>1 DEF FinishSend, hist
  <1>12. CASE LinkStep \/ LinkEvent \/ CallWriteable \/ Business
    BY <1>4, <1>12 DEF LinkStep, LinkEvent, CallWriteable, Business, acq, hist
  <1> QED
    BY <1>5, <1>6, <1>7, <1>8, <1>9, <1>10, <1>11, <1>12 DEF Next, MainThread, LwsThread

\* The terminal implements Monitoring: what the code's threads do to the one buffer
\* they share looks to the upper computer like whole reports, none older after a newer
\* one, each of readings of one beat and of news only.
THEOREM Implements == Spec => ImplementsMonitoring
  <1>1. Components /\ JointInv /\ JointInv' /\ [Next]_vars => [M!Next]_(M!vars)
    BY MonitoringStep
  <1> QED
    BY <1>1, MonitoringInit, Invariance, PTL DEF Spec, ImplementsMonitoring, M!Spec
=============================================================================
