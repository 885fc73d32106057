---------------------------- MODULE UplinkSizes ----------------------------
(***************************************************************************)
(* How long a report gets.  It is printed as JSON, formatted, and each of  *)
(* its bytes is then written as a decimal number into dbuf, a static array *)
(* (srv_websocket.cpp:54); nothing checks a length on the way.             *)
(*                                                                         *)
(* The lengths of the texts are those of their printed forms.  A byte      *)
(* prints as one, a quote or a backslash as two, a control character as    *)
(* two or six.                                                             *)
(***************************************************************************)
EXTENDS Integers

CONSTANTS
    nChNum,             \* number of parameter points
    NameMax, IdMax, KindMax, TimeMax,       \* longest texts of hw_info_t, as printed
    KksMax, RefMax, VtypeMax, ValMax,       \* longest texts of a point, as printed
    DbufSize            \* sizeof(dbuf)

ASSUME LengthsAssumption ==
    /\ nChNum \in Nat /\ DbufSize \in Nat
    /\ NameMax \in Nat /\ IdMax \in Nat /\ KindMax \in Nat /\ TimeMax \in Nat
    /\ KksMax \in Nat /\ RefMax \in Nat /\ VtypeMax \in Nat /\ ValMax \in Nat

\* What ws_format_hardware_data prints around the texts: braces, names, quotes, tabs.
HeadSkeleton  == 106
PointSkeleton == 82     \* with the ", " before the next point

HeadMax  == HeadSkeleton + NameMax + IdMax + KindMax + TimeMax
PointMax == PointSkeleton + KksMax + RefMax + VtypeMax + ValMax + TimeMax

\* ws_format_uplink_data: "{"cmdCode":1,"cmdMerge":65537,"data":[", then at most
\* "-128," for each byte; "]}" replaces the last comma.
PrefixLen == 38
ByteMax   == 5

\* There is room for the longest report and its terminator.  Nothing in the code sees to
\* it: the number of points is what the board says (the clamp of srv_hardware.cpp:427 is
\* commented out), and the configured texts are printed whatever bytes they have.
RoomForReports ==
    PrefixLen + ByteMax * (HeadMax + nChNum * PointMax) + 2 <= DbufSize
=============================================================================
