---------------------------- MODULE UplinkProofs ----------------------------
(***************************************************************************)
(* Proofs about module Uplink: where the number of points and the lengths  *)
(* of their texts leave room for the longest report, none overruns dbuf;   *)
(* and how many points of the program's own sizes leave room, by how long  *)
(* the bytes of the configured texts print.                                *)
(***************************************************************************)
EXTENDS Uplink, TLAPS

LEMMA SizesNat == HeadMax \in Nat /\ PointMax \in Nat
  BY LengthsAssumption DEF HeadMax, PointMax, HeadSkeleton, PointSkeleton

\* More points take more room.
LEMMA Monotone ==
  ASSUME NEW a \in Nat, NEW b \in Nat, a <= b
  PROVE  /\ a * PointMax \in Nat /\ b * PointMax \in Nat
         /\ a * PointMax <= b * PointMax
         /\ (a + 1) * PointMax = a * PointMax + PointMax
<1>1. PICK d \in Nat : b = a + d
  <2>1. b - a \in Nat /\ b = a + (b - a)
    OBVIOUS
  <2> QED
    BY <2>1
<1>2. PointMax \in Nat
  BY SizesNat
<1>3. a * PointMax \in Nat /\ b * PointMax \in Nat /\ d * PointMax \in Nat
  BY <1>2
<1>4. b * PointMax = a * PointMax + d * PointMax
  BY <1>1, <1>2
<1>5. (a + 1) * PointMax = a * PointMax + PointMax
  BY <1>2
<1> QED
  BY <1>3, <1>4, <1>5

\* What RoomForReports says of the frame of a text no longer than the longest report.
LEMMA Room ==
  ASSUME RoomForReports, NEW k \in Nat, k <= HeadMax + nChNum * PointMax,
         NEW d \in 0 .. PrefixLen + ByteMax * k + 1
  PROVE  d \in Nat /\ d + 1 <= DbufSize
<1>1. nChNum * PointMax \in Nat
  BY LengthsAssumption, Monotone
<1>2. PrefixLen + ByteMax * k + 2 <= DbufSize
  BY <1>1, SizesNat, LengthsAssumption DEF RoomForReports, PrefixLen, ByteMax
<1> QED
  BY <1>2, LengthsAssumption DEF PrefixLen, ByteMax

LEMMA InitIInv == RoomForReports /\ Init => IInv
<1> SUFFICES ASSUME RoomForReports, Init PROVE IInv
  OBVIOUS
<1>1. nChNum * PointMax \in Nat
  BY LengthsAssumption, Monotone
<1>2. 1 <= DbufSize
  <2>1. 0 \in 0 .. PrefixLen + ByteMax * 0 + 1
    BY DEF PrefixLen, ByteMax
  <2> QED
    BY <1>1, <2>1, SizesNat, Room
<1> QED
  BY <1>1, <1>2, SizesNat, LengthsAssumption DEF Init, IInv, TypeOK, FrameFits

LEMMA NextIInv == RoomForReports /\ IInv /\ [Next]_vars => IInv'
<1> SUFFICES ASSUME RoomForReports, IInv, [Next]_vars PROVE IInv'
  OBVIOUS
<1>n. n \in 0 .. nChNum /\ nChNum \in Nat /\ DbufSize \in Nat
  BY LengthsAssumption DEF IInv, TypeOK
<1>m. /\ HeadMax \in Nat /\ PointMax \in Nat
      /\ nChNum * PointMax \in Nat /\ n * PointMax \in Nat
      /\ n * PointMax <= nChNum * PointMax
  BY <1>n, SizesNat, Monotone
<1>1. CASE Open
  BY <1>1, <1>n, <1>m DEF Open, IInv, TypeOK, FrameFits
<1>2. CASE Format
  <2>1. n + 1 \in 0 .. nChNum /\ (n + 1) * PointMax = n * PointMax + PointMax
    BY <1>2, <1>n, Monotone DEF Format
  <2>2. PICK add \in 0 .. len + PointMax : len' = add
    BY <1>2 DEF Format
  <2>3. /\ len' \in Nat
        /\ len' <= HeadMax + (n + 1) * PointMax
    BY <1>2, <2>1, <2>2, <1>m DEF Format, IInv, TypeOK
  <2> QED
    BY <1>2, <2>1, <2>3, <1>n DEF Format, IInv, TypeOK, FrameFits
<1>3. CASE Render
  BY <1>3, <1>n, <1>m DEF Render, IInv, TypeOK, FrameFits
<1>4. CASE Encode
  <2>1. len \in Nat /\ len <= HeadMax + nChNum * PointMax
    BY <1>4, <1>n DEF Encode, IInv, TypeOK
  <2>2. PICK d \in 0 .. PrefixLen + ByteMax * len + 1 : dlen' = d
    BY <1>4 DEF Encode
  <2>3. dlen' \in Nat /\ dlen' + 1 <= DbufSize
    BY <2>1, <2>2, Room
  <2> QED
    BY <1>4, <2>1, <2>3 DEF Encode, IInv, TypeOK, FrameFits
<1>5. CASE Close
  <2>1. 1 <= DbufSize
    BY <1>n DEF IInv, TypeOK, FrameFits
  <2> QED
    BY <1>5, <2>1, <1>n, <1>m DEF Close, IInv, TypeOK, FrameFits
<1>6. CASE UNCHANGED vars
  BY <1>6 DEF vars, IInv, TypeOK, FrameFits
<1> QED
  BY <1>1, <1>2, <1>3, <1>4, <1>5, <1>6 DEF Next

\* The text decided so far always leaves room for the points to come.
THEOREM Invariance ==
  ASSUME RoomForReports
  PROVE  Spec => []IInv
<1>1. Init => IInv
  BY InitIInv
<1>2. IInv /\ [Next]_vars => IInv'
  BY NextIInv
<1> QED
  BY <1>1, <1>2, PTL DEF Spec

\* Where there is room for the longest report, none overruns dbuf, the static array
\* ws_data_pack_and_send prints it into without a length check.
THEOREM ReportsFit ==
  ASSUME RoomForReports
  PROVE  Spec => []FrameFits
<1>1. IInv => FrameFits
  BY DEF IInv
<1>2. Spec => []IInv
  BY Invariance
<1> QED
  BY <1>1, <1>2, PTL

-----------------------------------------------------------------------------
\* The program's own sizes, when a byte of a configured text prints as at most e: from
\* one, where no text needs an escape, to six, the escape of a control character.
\* strncpy leaves a text that fills its array without a terminator, and it runs on: name
\* through id and terminal up to the time, id through terminal, kks through zone and ref
\* up to a byte of val_type, which is printed as an escape.
ProgramSizes(e) ==
  /\ DbufSize = 102400
  /\ NameMax = 160 * e + 23 /\ IdMax = 96 * e + 23 /\ KindMax = 31 /\ TimeMax = 23
  /\ KksMax = 256 * e + 6 /\ RefMax = 128 * e + 6 /\ VtypeMax = 12 /\ ValMax = 51

\* How many points leave room, by how long a byte may print.
PointsWithRoom == [e \in 1 .. 6 |-> CASE e = 1 -> 35 [] e = 2 -> 20 [] e = 3 -> 14
                                      [] e = 4 -> 11 [] e = 5 -> 9 [] e = 6 -> 7]

\* The program's arrays have room for so many points, and the bound gives none to a larger
\* number: to a board of 32 as long as no configured text needs an escape, but not once
\* every byte of them may be a quote.
THEOREM PointsBound ==
  ASSUME NEW e \in 1 .. 6, ProgramSizes(e)
  PROVE  RoomForReports <=> nChNum <= PointsWithRoom[e]
<1>1. nChNum \in Nat
  BY LengthsAssumption
<1>2. CASE e = 1
  BY <1>1, <1>2 DEF ProgramSizes, PointsWithRoom, RoomForReports, PrefixLen, ByteMax,
                    HeadMax, PointMax, HeadSkeleton, PointSkeleton
<1>3. CASE e = 2
  BY <1>1, <1>3 DEF ProgramSizes, PointsWithRoom, RoomForReports, PrefixLen, ByteMax,
                    HeadMax, PointMax, HeadSkeleton, PointSkeleton
<1>4. CASE e = 3
  BY <1>1, <1>4 DEF ProgramSizes, PointsWithRoom, RoomForReports, PrefixLen, ByteMax,
                    HeadMax, PointMax, HeadSkeleton, PointSkeleton
<1>5. CASE e = 4
  BY <1>1, <1>5 DEF ProgramSizes, PointsWithRoom, RoomForReports, PrefixLen, ByteMax,
                    HeadMax, PointMax, HeadSkeleton, PointSkeleton
<1>6. CASE e = 5
  BY <1>1, <1>6 DEF ProgramSizes, PointsWithRoom, RoomForReports, PrefixLen, ByteMax,
                    HeadMax, PointMax, HeadSkeleton, PointSkeleton
<1>7. CASE e = 6
  BY <1>1, <1>7 DEF ProgramSizes, PointsWithRoom, RoomForReports, PrefixLen, ByteMax,
                    HeadMax, PointMax, HeadSkeleton, PointSkeleton
<1> QED
  BY <1>2, <1>3, <1>4, <1>5, <1>6, <1>7

\* No report of the program overruns dbuf as long as the board has no more points than
\* the bytes of the configured texts leave room for.  That it has none is a condition on
\* the board and on main.json, which the code does not check.
THEOREM ProgramFits ==
  ASSUME NEW e \in 1 .. 6, ProgramSizes(e), nChNum <= PointsWithRoom[e]
  PROVE  Spec => []FrameFits
<1>1. RoomForReports
  BY PointsBound
<1> QED
  BY <1>1, ReportsFit
=============================================================================
