------------------------------ MODULE Hardware ------------------------------
(***************************************************************************)
(* The data definitions of the acquisition board: device kinds, value      *)
(* types, the shared-memory segment the board publishes its readings in,   *)
(* and the resolution of a parameter point to the cell it is read from     *)
(* (hardware/dataDef.h, hardware/srv_hardware.h, hardware/srv_hardware.cpp)*)
(*                                                                         *)
(* A cell is one float of the segment.  Cells are numbered from the first  *)
(* member of SHM_DATA_RO.envMonitor, in declaration order.  Names of       *)
(* members are left out: no property depends on them.                      *)
(***************************************************************************)
EXTENDS Integers, Sequences

AI_NUM_MAX == 32

EMPTY_STRING == ""

\* What strcasecmp compares by: the names of kinds and types in lower case.  The
\* others are Chinese, or are names of nothing.
LowerCase(name) == CASE name = "COL"   -> "col"
                     [] name = "CUR"   -> "cur"
                     [] name = "VOL"   -> "vol"
                     [] name = "ENV"   -> "env"
                     [] name = "ASE"   -> "ase"
                     [] name = "PSE"   -> "pse"
                     [] name = "TBD"   -> "tbd"
                     [] name = "TVOC"  -> "tvoc"
                     [] name = "PM10"  -> "pm10"
                     [] name = "PM2.5" -> "pm2.5"
                     [] OTHER          -> name

\* hw_dev_kind_e, and get_device_kind_by_name: an unknown name is TBD.
Kinds == {"COL", "CUR", "VOL", "ENV", "ASE", "PSE", "TBD"}

get_device_kind_by_name_NoDefault(name) == LowerCase(name)
get_device_kind_by_name(name) ==
    LET matches == {k \in Kinds : LowerCase(k) = LowerCase(name)}
    IN  IF matches = {} THEN "TBD" ELSE CHOOSE k \in matches : TRUE

\* hw_dev_type_e, in declaration order: hw_info_init computes with the position.
TypeOrder == <<"CUR", "VOL",
               "TEMP", "HUMI", "NIOSE", "PM2_5", "PM10", "O2", "TVOC",
               "FLOW", "SFLOW", "RSPD", "FREQ", "POWER", "ELEC",
               "RESV", "1", "2", "TBD", "END">>

Types == {TypeOrder[n] : n \in 1 .. Len(TypeOrder)}

\* hw_vtype_values: the name and the unit of each type, as the reports and the
\* configuration spell them (in the source most are Chinese words).
hw_vtype_values == <<
    [id |-> "CUR",   name |-> "current",     unit |-> "A"],
    [id |-> "VOL",   name |-> "voltage",     unit |-> "V"],
    [id |-> "TEMP",  name |-> "temperature", unit |-> "C"],
    [id |-> "HUMI",  name |-> "humidity",    unit |-> "%%RH"],
    [id |-> "NIOSE", name |-> "noise",       unit |-> "MPa"],
    [id |-> "PM2_5", name |-> "PM2.5",       unit |-> "ug/m3"],
    [id |-> "PM10",  name |-> "PM10",        unit |-> "ug/m3"],
    [id |-> "O2",    name |-> "oxygen",      unit |-> "%%"],
    [id |-> "TVOC",  name |-> "TVOC",        unit |-> "mg/m3"],
    [id |-> "FLOW",  name |-> "flow",        unit |-> "m3/m"],
    [id |-> "SFLOW", name |-> "total flow",  unit |-> "m3"],
    [id |-> "RSPD",  name |-> "speed",       unit |-> "r/min"],
    [id |-> "FREQ",  name |-> "frequency",   unit |-> "Hz"],
    [id |-> "POWER", name |-> "power",       unit |-> "W"],
    [id |-> "ELEC",  name |-> "energy",      unit |-> "KW.h"] >>

TableRows == 1 .. Len(hw_vtype_values)

\* The three searches of the table stop at the first match.
FirstRow(matches) == CHOOSE n \in matches : \A m \in matches : n <= m

get_hw_type_by_name_CaseSensitive(name) ==
    LET matches == {n \in TableRows : hw_vtype_values[n].name = name}
    IN  IF matches = {} THEN "TBD" ELSE hw_vtype_values[FirstRow(matches)].id
get_hw_type_by_name(name) ==
    LET matches == {n \in TableRows : LowerCase(hw_vtype_values[n].name) = LowerCase(name)}
    IN  IF matches = {} THEN "TBD" ELSE hw_vtype_values[FirstRow(matches)].id

get_hw_name_by_type(vtype) ==
    LET matches == {n \in TableRows : hw_vtype_values[n].id = vtype}
    IN  IF matches = {} THEN EMPTY_STRING ELSE hw_vtype_values[FirstRow(matches)].name

get_hw_unit_by_type(vtype) ==
    LET matches == {n \in TableRows : hw_vtype_values[n].id = vtype}
    IN  IF matches = {} THEN EMPTY_STRING ELSE hw_vtype_values[FirstRow(matches)].unit

\* hw_data_status_e; a calloc'ed cache has the first one.
Statuses == {"UPTARE", "KEEP", "USED", "DOWN", "INIT"}

JSON_HW_ENV_INS_NUM == 7

\* hw_get_channel_sum: how many parameter points a board of this kind has.
\* info holds the channel counts the board published (RTU_INFO).
hw_get_channel_sum(kind, info) ==
    CASE kind = "CUR"            -> info.currentChNum
      [] kind = "VOL"            -> info.voltageChNum
      [] kind = "ENV"            -> JSON_HW_ENV_INS_NUM
      [] kind \in {"ASE", "PSE"} -> info.aiChNumI
      [] OTHER                   -> 1

\* The value type hw_info_init gives channel c; "CUR" is the calloc'ed 0.
InitialType_NoOffset(kind, c) ==
    CASE kind = "VOL" -> "VOL"
      [] kind = "ENV" -> TypeOrder[3]
      [] OTHER        -> "CUR"
InitialType(kind, c) ==
    CASE kind = "VOL" -> "VOL"
      [] kind = "ENV" -> TypeOrder[3 + c]
      [] OTHER        -> "CUR"

-----------------------------------------------------------------------------
\* SHM_DATA_RO: envMonitor (7 readings and 9 reserved floats), aiValI, aiValV,
\* voltageV, currentA.  The segment is one page (srv_shm.c asks for 4096 bytes),
\* of which 12 bytes precede envMonitor on the 32-bit target.
EnvCells == 16
aiValI   == EnvCells
aiValV   == aiValI + AI_NUM_MAX
voltageV == aiValV + AI_NUM_MAX
currentA == voltageV + AI_NUM_MAX
ShmCells == (4096 - 12) \div 4
ShmAddr  == 0 .. ShmCells - 1

\* get_env_value_by_vtype: the seven environment readings, in member order.
EnvTypes == <<"TEMP", "HUMI", "NIOSE", "PM2_5", "PM10", "O2", "TVOC">>

\* Results of SourceOf that are not cells.
EnvUndefined == -1      \* get_env_value_by_vtype's default: the number -1
Unread       == -2      \* get_gpio_val returned before *val was assigned

\* get_gpio_val: the cell a parameter point is read from.  The port is not
\* checked: hwGpio = gpio - 1 is an index into the array whatever its size.
SourceOf(kind, type, gpio) ==
    LET hwGpio == gpio - 1
    IN  CASE kind = "CUR"            -> currentA + hwGpio
          [] kind = "VOL"            -> voltageV + hwGpio
          [] kind \in {"ASE", "PSE"} -> aiValI + hwGpio
          [] kind = "ENV"            ->
                IF \E n \in 1 .. Len(EnvTypes) : EnvTypes[n] = type
                THEN (CHOOSE n \in 1 .. Len(EnvTypes) : EnvTypes[n] = type) - 1
                ELSE EnvUndefined
          [] OTHER                   -> Unread

-----------------------------------------------------------------------------
\* data_AD_convert: the engineering value of an input current, as a fraction.  The
\* code divides floats, so a width of 0 gives an infinity or a NaN, not a fault.
data_AD_convert(val, inMin, inMax, outMin, outMax) ==
    [num |-> (val - inMin) * (outMax - outMin) + outMin * (inMax - inMin),
     den |-> inMax - inMin]

\* get_val: only the analogue boards' readings are converted.
get_val(kind, param, val) ==
    IF kind \in {"ASE", "PSE"}
    THEN data_AD_convert(val, param.rangeI[1], param.rangeI[2], param.rangeD[1], param.rangeD[2])
    ELSE [num |-> val, den |-> 1]
=============================================================================
