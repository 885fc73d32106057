------------------------- MODULE AcquisitionProofs -------------------------
(***************************************************************************)
(* Proofs about Acquisition, for every number of points, every kind of     *)
(* board, every configuration of types and ports and every set of          *)
(* readings.  IInv is the inductive invariant; the safety properties and   *)
(* the action property ReportsChange follow from it.                       *)
(***************************************************************************)
EXTENDS Acquisition, TLAPS

USE ChannelAssumption, PointAssumption, ValueAssumption

\* A sampled reading is a reading, whichever way get_gpio_val obtained it.
LEMMA ReadingsAreValues ==
    ASSUME TypeOK, NEW c \in Chan, NEW rdata \in Readings(c)
    PROVE  rdata \in Value
  BY DEF TypeOK, Readings

\* The board's write moves neither the loop nor the caches.
LEMMA BoardWritePreserves ==
    ASSUME IInv, NEW a \in Watched, NEW v \in Value, BoardWrite(a, v)
    PROVE  IInv'
  <1> USE DEF IInv, BoardWrite, hwVars
  <1>1. TypeOK'
    BY DEF TypeOK
  <1>2. CellSeen'
    BY DEF CellSeen, TypeOK
  <1>3. SampleFresh'
    BY DEF SampleFresh, Sampled, TypeOK
  <1>4. DirtyExact' /\ UnstampedFirst' /\ RefusedBefore' /\ DueIsChanged' /\ FormattedUsed' /\ AllOrNothing'
    BY DEF DirtyExact, UnstampedFirst, RefusedBefore, DueIsChanged, Sampled, FormattedUsed,
           AllOrNothing
  <1> QED
    BY <1>1, <1>2, <1>3, <1>4

\* The start of a beat: nothing has been sampled, so nothing reported is due.
LEMMA LoopTopPreserves ==
    ASSUME IInv, LoopTop
    PROVE  IInv'
  <1> USE DEF IInv, LoopTop, hwVars
  <1>1. TypeOK'
    BY DEF TypeOK, PCs
  <1>2. CellSeen'
    BY DEF CellSeen, TypeOK
  <1>3. SampleFresh'
    BY DEF SampleFresh, Sampled, TypeOK, Chan
  <1>4. DueIsChanged'
    BY DEF DueIsChanged, Sampled
  <1>5. DirtyExact' /\ UnstampedFirst' /\ RefusedBefore' /\ FormattedUsed' /\ AllOrNothing'
    BY DEF DirtyExact, UnstampedFirst, RefusedBefore, FormattedUsed, AllOrNothing
  <1> QED
    BY <1>1, <1>2, <1>3, <1>4, <1>5

\* Sampling a point: an unequal reading makes the point due.
LEMMA MonitorChannelPreserves ==
    ASSUME IInv, MonitorChannel
    PROVE  IInv'
  <1> USE DEF IInv
  <1>1. pc = "monitor" /\ i \in Chan /\ i < nChNum /\ pc' = pc /\ i' = i + 1
    BY DEF MonitorChannel, TypeOK, Chan
  <1>2. UNCHANGED <<shm, dbuf, p_user, g_running, packed, window>>
    BY DEF MonitorChannel
  <1>3. PICK rdata \in Readings(i) :
            IF FloatEq(val[i], rdata)
            THEN UNCHANGED hwVars
            ELSE /\ val' = [val EXCEPT ![i] = rdata]
                 /\ stamped' = [stamped EXCEPT ![i] = TRUE]
                 /\ status' = [status EXCEPT ![i] = "UPTARE"]
    BY DEF MonitorChannel
  <1>4. rdata \in Value
    BY <1>1, <1>3, ReadingsAreValues
  <1>5. Source(i) \in Watched => rdata = shm[Source(i)]
    BY <1>3 DEF Readings, Watched, ShmAddr, EnvUndefined
  <1>6. TypeOK'
    <2>1. val' \in [Chan -> Value] /\ stamped' \in [Chan -> BOOLEAN]
      BY <1>1, <1>3, <1>4 DEF TypeOK, hwVars
    <2>2. status' \in [Chan -> Statuses]
      BY <1>1, <1>3 DEF TypeOK, hwVars, Statuses
    <2>3. i' \in 0 .. nChNum
      BY <1>1 DEF Chan
    <2> QED
      BY <1>1, <1>2, <2>1, <2>2, <2>3 DEF TypeOK
  <1>7. /\ \A c \in Chan : c # i => val'[c] = val[c] /\ status'[c] = status[c]
        /\ val'[i] = rdata
        /\ \/ val[i] = rdata /\ status'[i] = status[i] /\ val[i] # NaN
           \/ status'[i] = "UPTARE" /\ (val[i] # rdata \/ val[i] = NaN)
    BY <1>1, <1>3 DEF TypeOK, hwVars, FloatEq
  <1>8. DirtyExact'
    BY <1>1, <1>2, <1>7 DEF DirtyExact
  <1>9. CellSeen'
    BY <1>1, <1>2 DEF CellSeen
  <1>10. SampleFresh'
    BY <1>1, <1>2, <1>5, <1>7 DEF SampleFresh, Sampled, CellSeen, Chan
  <1>11. DueIsChanged'
    <2> SUFFICES ASSUME NEW c \in Chan, status'[c] = "UPTARE", packed[c] # None
                 PROVE  Sampled(c)' /\ (packed[c] # val'[c] \/ val'[c] = NaN)
      BY <1>2 DEF DueIsChanged
    <2>1. CASE c = i
      <3>1. Sampled(c)'
        BY <1>1, <2>1 DEF Sampled, Chan
      <3>2. status[c] # "UPTARE"
        BY <1>1, <2>1 DEF DueIsChanged, Sampled, Chan
      <3>3. packed[c] = val[c]
        BY <3>2 DEF DirtyExact
      <3> QED
        BY <1>7, <2>1, <3>1, <3>2, <3>3
    <2>2. CASE c # i
      <3>1. Sampled(c) /\ (packed[c] # val[c] \/ val[c] = NaN)
        BY <1>1, <1>7, <2>2 DEF DueIsChanged
      <3> QED
        BY <1>1, <1>7, <2>2, <3>1 DEF Sampled, Chan
    <2> QED
      BY <2>1, <2>2
  <1>12. RefusedBefore' /\ FormattedUsed' /\ AllOrNothing'
    BY <1>1, <1>2 DEF RefusedBefore, FormattedUsed, AllOrNothing
  <1>13. UnstampedFirst'
    <2>1. /\ \A c \in Chan : c # i => stamped'[c] = stamped[c]
          /\ stamped'[i] \/ (stamped'[i] = stamped[i] /\ val'[i] = val[i] /\ status'[i] = status[i])
      BY <1>1, <1>3 DEF TypeOK, hwVars
    <2> QED
      BY <1>1, <1>2, <1>7, <2>1 DEF UnstampedFirst
  <1> QED
    BY <1>6, <1>8, <1>9, <1>10, <1>11, <1>12, <1>13

\* A fault or the end of the sampling loop.
LEMMA MonitorEndPreserves ==
    ASSUME IInv, MonitorFault \/ MonitorEnd
    PROVE  IInv'
  <1> USE DEF IInv, hwVars
  <1>1. CASE MonitorFault
    BY <1>1 DEF MonitorFault, TypeOK, PCs, DirtyExact, UnstampedFirst, CellSeen, SampleFresh, Sampled,
                RefusedBefore, DueIsChanged, FormattedUsed, AllOrNothing
  <1>2. CASE MonitorEnd
    BY <1>2 DEF MonitorEnd, TypeOK, PCs, DirtyExact, UnstampedFirst, CellSeen, SampleFresh, Sampled,
                RefusedBefore, DueIsChanged, FormattedUsed, AllOrNothing, Chan
  <1> QED
    BY <1>1, <1>2

\* The decision to report: going back to the top, nothing is due or nothing has
\* ever been reported.
LEMMA LookPreserves ==
    ASSUME IInv, Look
    PROVE  IInv'
  <1> USE DEF IInv, Look, hwVars
  <1>1. TypeOK'
    BY DEF TypeOK, PCs, NoReport
  <1>2. CellSeen' /\ SampleFresh'
    BY DEF CellSeen, SampleFresh, Sampled
  <1>3. DueIsChanged'
    BY DEF DueIsChanged, Sampled, RefusedBefore, hw_look_cache_status, NoReport
  <1>4. FormattedUsed'
    BY DEF FormattedUsed, Chan
  <1>5. DirtyExact' /\ UnstampedFirst' /\ RefusedBefore' /\ AllOrNothing'
    BY DEF DirtyExact, UnstampedFirst, RefusedBefore, AllOrNothing
  <1> QED
    BY <1>1, <1>2, <1>3, <1>4, <1>5

\* Formatting a point: used, with its cached value in the report.
LEMMA FormatChannelPreserves ==
    ASSUME IInv, FormatChannel
    PROVE  IInv'
  <1> USE DEF IInv
  <1>1. pc = "format" /\ i \in Chan /\ pc' = pc /\ i' = i + 1
    BY DEF FormatChannel, TypeOK, Chan
  <1>2. UNCHANGED <<shm, val, stamped, p_user, g_running, window>>
    BY DEF FormatChannel
  <1>3. TypeOK'
    <2>1. status' \in [Chan -> Statuses]
      BY <1>1 DEF FormatChannel, TypeOK, Statuses
    <2>2. dbuf' \in [Chan -> Value \cup {None}] /\ packed' \in [Chan -> Value \cup {None}]
      BY <1>1 DEF FormatChannel, TypeOK
    <2>3. i' \in 0 .. nChNum
      BY <1>1 DEF Chan
    <2> QED
      BY <1>1, <1>2, <2>1, <2>2, <2>3 DEF TypeOK
  <1>4. /\ \A c \in Chan : c # i => status'[c] = status[c] /\ packed'[c] = packed[c]
        /\ status'[i] # "UPTARE"
        /\ packed'[i] = IF status[i] = "UPTARE" THEN val[i] ELSE packed[i]
    BY <1>1 DEF FormatChannel, TypeOK
  <1>5. DirtyExact'
    BY <1>1, <1>2, <1>4 DEF DirtyExact
  <1>6. CellSeen' /\ SampleFresh'
    BY <1>1, <1>2 DEF CellSeen, SampleFresh, Sampled
  <1>7. DueIsChanged'
    BY <1>1, <1>2, <1>4 DEF DueIsChanged, Sampled
  <1>8. FormattedUsed'
    BY <1>1, <1>4 DEF FormattedUsed, Chan
  <1>9. RefusedBefore' /\ AllOrNothing'
    BY <1>1, <1>2 DEF RefusedBefore, AllOrNothing
  <1>10. UnstampedFirst'
    BY <1>1, <1>2, <1>4 DEF UnstampedFirst
  <1> QED
    BY <1>3, <1>5, <1>6, <1>7, <1>8, <1>9, <1>10

\* The report is complete: every point is used, so every point has been reported.
LEMMA FormatEndPreserves ==
    ASSUME IInv, FormatEnd
    PROVE  IInv'
  <1> USE DEF IInv, FormatEnd, hwVars
  <1>1. TypeOK'
    BY DEF TypeOK, PCs
  <1>2. \A c \in Chan : status[c] # "UPTARE"
    BY DEF FormattedUsed, Chan
  <1>3. \A c \in Chan : packed[c] # None
    BY <1>2 DEF DirtyExact, TypeOK
  <1>4. CellSeen' /\ SampleFresh'
    BY DEF CellSeen, SampleFresh, Sampled
  <1>5. DirtyExact' /\ UnstampedFirst' /\ RefusedBefore' /\ DueIsChanged' /\ FormattedUsed' /\ AllOrNothing'
    BY <1>2, <1>3 DEF DirtyExact, UnstampedFirst, RefusedBefore, DueIsChanged, FormattedUsed,
                      AllOrNothing
  <1> QED
    BY <1>1, <1>4, <1>5

\* The end of the beat, the allocation of the buffer and the signal.
LEMMA OthersPreserve ==
    ASSUME IInv, Send \/ UserAlloc \/ signal_handler
    PROVE  IInv'
  <1> USE DEF IInv, hwVars
  <1>1. CASE Send
    BY <1>1 DEF Send, TypeOK, PCs, DirtyExact, UnstampedFirst, CellSeen, SampleFresh, Sampled,
                RefusedBefore, DueIsChanged, FormattedUsed, AllOrNothing
  <1>2. CASE UserAlloc
    BY <1>2 DEF UserAlloc, TypeOK, DirtyExact, UnstampedFirst, CellSeen, SampleFresh, Sampled,
                RefusedBefore, DueIsChanged, FormattedUsed, AllOrNothing
  <1>3. CASE signal_handler
    BY <1>3 DEF signal_handler, TypeOK, DirtyExact, UnstampedFirst, CellSeen, SampleFresh, Sampled,
                RefusedBefore, DueIsChanged, FormattedUsed, AllOrNothing
  <1> QED
    BY <1>1, <1>2, <1>3

\* IInv holds initially: all points are due and none has been reported.
LEMMA InitIInv == Init => IInv
  <1> SUFFICES ASSUME Init
               PROVE  IInv
    OBVIOUS
  <1> USE DEF Init, NewStatus
  <1>1. TypeOK
    <2>1. status \in [Chan -> Statuses]
      BY DEF Statuses
    <2>2. NoReport \in [Chan -> Value \cup {None}]
      BY DEF NoReport
    <2>3. pc \in PCs /\ i \in 0 .. nChNum
      BY DEF PCs
    <2>4. val \in [Chan -> Value] /\ stamped \in [Chan -> BOOLEAN]
      OBVIOUS
    <2>5. window \in [Chan -> SUBSET Value]
      OBVIOUS
    <2> QED
      BY <2>1, <2>2, <2>3, <2>4, <2>5 DEF TypeOK
  <1>2. DirtyExact /\ CellSeen /\ SampleFresh /\ FormattedUsed
    BY DEF DirtyExact, CellSeen, SampleFresh, Sampled, FormattedUsed
  <1>3. UnstampedFirst /\ RefusedBefore /\ DueIsChanged /\ AllOrNothing
    BY DEF UnstampedFirst, RefusedBefore, DueIsChanged, AllOrNothing, NoReport
  <1> QED
    BY <1>1, <1>2, <1>3 DEF IInv

\* Every step of the loop, the board, the websocket thread and the operator
\* preserves IInv.
LEMMA NextIInv == IInv /\ [Next]_vars => IInv'
  <1> SUFFICES ASSUME IInv, [Next]_vars
               PROVE  IInv'
    OBVIOUS
  <1>1. CASE UNCHANGED vars
    BY <1>1 DEF vars, IInv, TypeOK, DirtyExact, UnstampedFirst, CellSeen, SampleFresh, Sampled,
                RefusedBefore, DueIsChanged, FormattedUsed, AllOrNothing
  <1>2. CASE \E a \in Watched, v \in Value : BoardWrite(a, v)
    BY <1>2, BoardWritePreserves
  <1>3. CASE UserAlloc \/ signal_handler
    BY <1>3, OthersPreserve
  <1>4. CASE loop
    BY <1>4, LoopTopPreserves, MonitorChannelPreserves, MonitorEndPreserves, LookPreserves,
       FormatChannelPreserves, FormatEndPreserves, OthersPreserve DEF loop
  <1> QED
    BY <1>1, <1>2, <1>3, <1>4 DEF Next

-----------------------------------------------------------------------------
\* IInv is an invariant of the main loop (srv_main.cpp, srv_hardware.cpp,
\* ws_dataflow.cpp) whatever the board writes and whenever signals arrive.
THEOREM Invariance == Spec => []IInv
  <1>1. Init => IInv
    BY InitIInv
  <1>2. IInv /\ [Next]_vars => IInv'
    BY NextIInv
  <1> QED
    BY <1>1, <1>2, PTL DEF Spec

\* The variables keep their types: in particular the loop index never leaves the
\* caches, for any number of points.
THEOREM TypeCorrect == Spec => []TypeOK
  <1>1. IInv => TypeOK
    BY DEF IInv
  <1> QED
    BY <1>1, Invariance, PTL

\* The dirty flag of hw_cache_t is exact: a point that the formatter skips was last
\* reported with the value it has now.
THEOREM DirtyFlagExact == Spec => []DirtyExact
  <1>1. IInv => DirtyExact
    BY DEF IInv
  <1> QED
    BY <1>1, Invariance, PTL

\* A beat only reports values its points' cells held during that beat.
THEOREM ReportsFresh == Spec => []Fresh
  <1>1. IInv => Fresh
    BY DEF IInv, SampleFresh, Sampled, Fresh
  <1> QED
    BY <1>1, Invariance, PTL

\* The first report has every point.
THEOREM FirstReportHasAll == Spec => []FirstReportComplete
  <1>1. IInv => FirstReportComplete
    BY DEF IInv, AllOrNothing, FirstReportComplete
  <1> QED
    BY <1>1, Invariance, PTL

\* A point is reported without a time at most once, with the 0.0 of a new cache.
THEOREM UnstampedOnlyFirst == Spec => []UnstampedFirst
  <1>1. IInv => UnstampedFirst
    BY DEF IInv
  <1> QED
    BY <1>1, Invariance, PTL

\* No point is reported twice with the same value, NaN apart.
THEOREM ReportsOnlyChanges == Spec => ReportsChange
  <1> DEFINE Changed ==
        \A c \in Chan :
          (pc = "format" /\ i = c /\ i' # i /\ status[c] = "UPTARE")
             => packed[c] # val[c] \/ val[c] = NaN
  <1>1. IInv /\ [Next]_vars => [Changed]_vars
    BY DEF IInv, DueIsChanged, Sampled, TypeOK
  <1>2. Spec => [][Changed]_vars
    BY <1>1, Invariance, PTL DEF Spec
  <1> QED
    BY <1>2 DEF ReportsChange
=============================================================================
