------------------------------- MODULE Uplink -------------------------------
(***************************************************************************)
(* The lengths of the reports, beat after beat: an abstract specification  *)
(* of ws_format_hardware_data and ws_format_uplink_data that says only how *)
(* much each step may add.  Module Output has the texts.                   *)
(***************************************************************************)
EXTENDS UplinkSizes

VARIABLES
    stage,      \* "idle", "format", "printed" or "encoded"
    n,          \* points looked at
    len,        \* length of the JSON text, as far as it is decided
    dlen        \* length of the text in dbuf

vars == <<stage, n, len, dlen>>

TypeOK == /\ stage \in {"idle", "format", "printed", "encoded"}
          /\ n \in 0 .. nChNum
          /\ len \in Nat /\ dlen \in Nat

Init == stage = "idle" /\ n = 0 /\ len = 0 /\ dlen = 0

Open == /\ stage = "idle" /\ stage' = "format"
        /\ n' = 0 /\ len' \in 0 .. HeadMax
        /\ UNCHANGED dlen

Format == /\ stage = "format" /\ n < nChNum
          /\ n' = n + 1 /\ len' \in 0 .. len + PointMax
          /\ UNCHANGED <<stage, dlen>>

Render == /\ stage = "format" /\ n = nChNum /\ stage' = "printed"
         /\ len' \in 0 .. len
         /\ UNCHANGED <<n, dlen>>

Encode == /\ stage = "printed" /\ stage' = "encoded"
          /\ dlen' \in 0 .. PrefixLen + ByteMax * len + 1
          /\ UNCHANGED <<n, len>>

\* The report is handed on, or given up; the next one is written from the start of dbuf.
Close == /\ stage # "idle" /\ stage' = "idle"
         /\ n' = 0 /\ len' = 0 /\ dlen' = 0

Next == Open \/ Format \/ Render \/ Encode \/ Close

Spec == Init /\ [][Next]_vars

-----------------------------------------------------------------------------
\* No report overruns dbuf, the terminator included, however many points have changed
\* and whatever their texts are.
FrameFits == dlen + 1 <= DbufSize

\* Inductive: what has been decided of the text leaves room for the points to come.
IInv == /\ TypeOK
        /\ stage = "idle" => len = 0
        /\ len <= HeadMax + (IF stage = "format" THEN n ELSE nChNum) * PointMax
        /\ FrameFits
=============================================================================
