-------------------------------- MODULE Boot --------------------------------
(***************************************************************************)
(* From main() to the loop and back: attaching the board's segment         *)
(* (srv_shm.c, sys_shm.c), building the parameter points (hw_info_init),   *)
(* loading dev_main.json (conf_main.cpp), the command line (srv_option.cpp)*)
(* which may generate usr_main.json instead, and the end of the process.   *)
(*                                                                         *)
(* The two files and the board's segment outlive the process, which may be *)
(* killed between any two steps.  A file is its terminal kind and, for     *)
(* each parameter, the fields that decide where it is read from and how it *)
(* is converted; the other fields are texts that are only passed on.  The  *)
(* board and the user are external.                                        *)
(***************************************************************************)
EXTENDS Hardware

CONSTANTS BoardTypes,   \* device types boards publish
          Counts,       \* channel counts boards publish
          UserTypes,    \* names the user picks from vtype_list, in any spelling
          UserRanges    \* output ranges <<lower, upper>> of the user's sensors

ASSUME CountsAssumption == Counts \subseteq 0 .. AI_NUM_MAX
ASSUME UserTypesAssumption ==
    \A name \in UserTypes : \E n \in TableRows :
        LowerCase(hw_vtype_values[n].name) = LowerCase(name)
ASSUME UserRangesAssumption ==
    \A range \in UserRanges : range \in Int \X Int /\ range[1] < range[2]

VARIABLES
    board,      \* the segment: does it exist, what kind and how many channels
    dev, usr,   \* dev_main.json and usr_main.json
    pc, arg,    \* where main() is, its command line
    shmData,    \* drv_init's pointer: uninitialised until shm_open sets it
    kind, nChNum, points,   \* the hardware object: hwInfo.kind, nChNum, pCache
    conf,       \* the file load_configuration has parsed, in this run
    g_running

hardware == <<kind, nChNum, points>>
files    == <<dev, usr>>
process  == <<pc, arg, shmData, hardware, conf, g_running>>
vars     == <<board, files, process>>

-----------------------------------------------------------------------------
NoPort  == -1       \* the parameter has no "port" field
NoVtype == EMPTY_STRING     \* the parameter has no "vtype" field
NoRange == <<>>     \* the parameter has no such range

\* What _usr_genrate_param writes for the user to replace.
Placeholder == "_TBD_vtype_list"

Ranges == Seq(Int)

Entry  == [port : Nat \cup {NoPort}, vtype : UserTypes \cup {Placeholder, NoVtype},
           rangeI : Ranges, rangeD : Ranges]
File   == [text : {"absent", "bad", "good"}, terminal : Kinds, params : Seq(Entry)]
Absent == [text |-> "absent", terminal |-> "TBD", params |-> <<>>]
Bad    == [text |-> "bad",    terminal |-> "TBD", params |-> <<>>]

uint16_t == 0 .. 65535

Point == [val_type : Types, io : uint16_t,
          rangeI : [1 .. 2 -> Int], rangeD : [1 .. 2 -> Int]]

PCs == {"off", "shm", "hw", "conf", "option", "gen", "write", "start", "loop"}

TypeOK ==
    /\ board \in [exists : BOOLEAN, type : BoardTypes \cup {EMPTY_STRING}, count : Counts \cup {0}]
    /\ dev \in File /\ usr \in File /\ conf \in File
    /\ pc \in PCs /\ arg \in {EMPTY_STRING, "g", "d"}
    /\ shmData \in {"null", "junk", "failed", "attached"}
    /\ kind \in Kinds /\ nChNum \in Nat
    /\ points \in [0 .. nChNum - 1 -> Point]
    /\ g_running \in BOOLEAN

Init ==
    /\ board = [exists |-> FALSE, type |-> EMPTY_STRING, count |-> 0]
    /\ dev = Absent /\ usr = Absent
    /\ pc = "off" /\ arg = EMPTY_STRING /\ shmData = "null"
    /\ kind = "TBD" /\ nChNum = 0 /\ points = <<>>
    /\ conf = Absent /\ g_running = TRUE

\* The process ends: nothing of it is left.
Ends ==
    /\ pc' = "off" /\ arg' = EMPTY_STRING /\ shmData' = "null"
    /\ kind' = "TBD" /\ nChNum' = 0 /\ points' = <<>>
    /\ conf' = Absent /\ g_running' = TRUE

-----------------------------------------------------------------------------
(* The board and the user.                                                 *)

\* The segment appears zeroed, and is filled in later.
BoardCreates ==
    /\ ~board.exists
    /\ board' = [exists |-> TRUE, type |-> EMPTY_STRING, count |-> 0]
    /\ UNCHANGED <<files, process>>

BoardPublishes(type, n) ==
    /\ board.exists /\ board.type = EMPTY_STRING
    /\ board' = [board EXCEPT !.type = type, !.count = n]
    /\ UNCHANGED <<files, process>>

\* Another board is put in while the terminal is off.
BoardRemoved ==
    /\ pc = "off" /\ board.exists
    /\ board' = [exists |-> FALSE, type |-> EMPTY_STRING, count |-> 0]
    /\ UNCHANGED <<files, process>>

\* The command that option_main tells the user to run when -g has ended.
UserMoves ==
    /\ usr.text # "absent" /\ pc # "write"
    /\ dev' = usr /\ usr' = Absent
    /\ UNCHANGED <<board, process>>

\* The user replaces "_TBD_vtype_list" in the generated file and enters the range of
\* the sensor.
UserEdits(n, name, range) ==
    /\ usr.text = "good" /\ pc # "write" /\ n \in 1 .. Len(usr.params)
    /\ usr.params[n].vtype # NoVtype
    /\ usr' = [usr EXCEPT !.params[n].vtype = name, !.params[n].rangeD = range]
    /\ UNCHANGED <<board, dev, process>>

-----------------------------------------------------------------------------
(* main()                                                                  *)

\* The signal handlers are installed; drv_init's local has no initial value.
Start(a) ==
    /\ pc = "off"
    /\ pc' = "shm" /\ arg' = a
    /\ shmData' \in {"null", "junk"}
    /\ UNCHANGED <<board, files, hardware, conf, g_running>>

\* shm_open frees the address of a pointer that is not NULL, which aborts the
\* process unless the allocator happens to accept it.  It asks for an existing
\* segment (0666 || IPC_CREAT is 1), which shmget may still refuse (too small, no
\* permission), and takes the -1 of a failed shmat for an address.  drv_init does not
\* look at the result.
shm_hardware_init ==
    /\ pc = "shm"
    /\ \/ shmData = "junk" /\ Ends
       \/ /\ pc' = "hw"
          /\ \/ board.exists /\ shmData' \in {"attached", "failed"}
             \/ UNCHANGED shmData
          /\ UNCHANGED <<arg, hardware, conf, g_running>>
    /\ UNCHANGED <<board, files>>

\* hw_info_init with what it finds in the segment.
NewPoints(k, n) == [c \in 0 .. n - 1 |-> [val_type |-> InitialType(k, c), io |-> 0,
                                            rangeI |-> <<0, 0>>, rangeD |-> <<0, 0>>]]

\* _hw_kind_init: the type text is "KND:model"; only its first three letters, which
\* is all that is modelled of it, decide the kind.
hw_kind_init(type) == kind' = get_device_kind_by_name(type)

hw_info_init(type, info) ==
    /\ hw_kind_init(type)
    /\ nChNum' = hw_get_channel_sum(kind', info)
    /\ points' = NewPoints(kind', nChNum')
    /\ pc' = "conf"
    /\ UNCHANGED <<arg, shmData, conf, g_running>>

Info(n) == [currentChNum |-> n, voltageChNum |-> n, aiChNumI |-> n]

\* new hardware(shmData): no segment ends the process, -1 is a fault, and an
\* uninitialised pointer is followed: a fault, or a description made of whatever
\* it points to.
NewHardware_NoExit ==
    /\ pc = "hw"
    /\ \/ shmData = "attached" /\ hw_info_init(board.type, Info(board.count))
       \/ /\ shmData = "null" /\ pc' = "conf"
          /\ UNCHANGED <<arg, shmData, hardware, conf, g_running>>
       \/ shmData \in {"failed", "junk"} /\ Ends
       \/ shmData = "junk" /\ \E type \in BoardTypes, n \in Counts : hw_info_init(type, Info(n))
    /\ UNCHANGED <<board, files>>
NewHardware ==
    /\ pc = "hw"
    /\ \/ shmData = "attached" /\ hw_info_init(board.type, Info(board.count))
       \/ shmData \in {"null", "failed", "junk"} /\ Ends
       \/ shmData = "junk" /\ \E type \in BoardTypes, n \in Counts : hw_info_init(type, Info(n))
    /\ UNCHANGED <<board, files>>

\* cJSON_ParseParamInfo: a field that is not there leaves the point as it was, and so
\* does a bound a range does not have; io is a uint16_t.
Bounds_OffByOne(old, range) == [b \in 1 .. 2 |-> IF b < Len(range) THEN range[b] ELSE old[b]]
Bounds(old, range) == [b \in 1 .. 2 |-> IF b <= Len(range) THEN range[b] ELSE old[b]]

Configured(point, entry) ==
    [val_type |-> IF entry.vtype = NoVtype THEN point.val_type
                                           ELSE get_hw_type_by_name(entry.vtype),
     io       |-> IF entry.port = NoPort THEN point.io ELSE entry.port % 65536,
     rangeI   |-> Bounds(point.rangeI, entry.rangeI),
     rangeD   |-> Bounds(point.rangeD, entry.rangeD)]

\* cJSON_ParseMainInfo: the n-th parameter of the file configures the n-th point,
\* as far as there are both.  The file's kind is not looked at.
cJSON_ParseMainInfo(file) ==
    [c \in 0 .. nChNum - 1 |->
        IF c < Len(file.params) THEN Configured(points[c], file.params[c + 1])
                                ELSE points[c]]

\* serve_init: the points are configured, or, when the file cannot be read (missing,
\* not JSON, no memory for it), left as they are.  The result is not looked at.
conf_main_init ==
    /\ pc = "conf"
    /\ \/ dev.text = "good" /\ points' = cJSON_ParseMainInfo(dev) /\ conf' = dev
       \/ UNCHANGED <<points, conf>>
    /\ pc' = "option"
    /\ UNCHANGED <<board, files, arg, shmData, kind, nChNum, g_running>>

option_main ==
    /\ pc = "option"
    /\ \/ arg = "d" /\ Ends
       \/ /\ arg # "d"
          /\ pc' = IF arg = "g" THEN "gen" ELSE "start"
          /\ UNCHANGED <<arg, shmData, hardware, conf, g_running>>
    /\ UNCHANGED <<board, files>>

-----------------------------------------------------------------------------
(* -g: generate_json_file, then exit(0).                                   *)

\* _usr_genrate_param: the port is the running number, from 1, and is left out for
\* an environment board; an analogue board's points get a placeholder for the type
\* and the ranges of a 4-20 mA sensor of 0 to 100.
Analogue(k) == k \in {"ASE", "PSE"}

GeneratedEntry_FromZero(k, n) ==
    [port   |-> IF k = "ENV" THEN NoPort ELSE n - 1,
     vtype  |-> IF Analogue(k) THEN Placeholder ELSE NoVtype,
     rangeI |-> IF Analogue(k) THEN <<4, 20>> ELSE NoRange,
     rangeD |-> IF Analogue(k) THEN <<0, 100>> ELSE NoRange]
GeneratedEntry(k, n) ==
    [port   |-> IF k = "ENV" THEN NoPort ELSE n,
     vtype  |-> IF Analogue(k) THEN Placeholder ELSE NoVtype,
     rangeI |-> IF Analogue(k) THEN <<4, 20>> ELSE NoRange,
     rangeD |-> IF Analogue(k) THEN <<0, 100>> ELSE NoRange]

usr_genrate_proc_json ==
    [text |-> "good", terminal |-> kind,
     params |-> [n \in 1 .. nChNum |-> GeneratedEntry(kind, n)]]

\* write_file, first half: the old content is gone when the file has been opened.
OpenTruncate ==
    /\ pc = "gen"
    /\ \/ /\ usr' = Bad /\ pc' = "write"
          /\ UNCHANGED <<arg, shmData, hardware, conf, g_running>>
       \/ UNCHANGED usr /\ Ends
    /\ UNCHANGED <<board, dev>>

\* ... and second half: all of the text is written, or not.
write_file ==
    /\ pc = "write"
    /\ usr' \in {usr_genrate_proc_json, Bad}
    /\ Ends
    /\ UNCHANGED <<board, dev>>

-----------------------------------------------------------------------------
(* The loop, signals and the end.                                          *)

\* start_channel_services, the two seconds of sleep and the test of main's while.
EnterLoop ==
    /\ pc = "start"
    /\ \/ g_running /\ pc' = "loop" /\ UNCHANGED <<arg, shmData, hardware, conf, g_running>>
       \/ ~g_running /\ Ends
    /\ UNCHANGED <<board, files>>

signal_handler ==
    /\ pc # "off" /\ g_running
    /\ g_running' = FALSE
    /\ UNCHANGED <<board, files, pc, arg, shmData, hardware, conf>>

\* loop() returns, delete hw, return.
LeaveLoop ==
    /\ pc = "loop" /\ ~g_running /\ Ends
    /\ UNCHANGED <<board, files>>

\* Power fails, or a fault.
Killed ==
    /\ pc # "off" /\ Ends
    /\ UNCHANGED <<board, files>>

-----------------------------------------------------------------------------
Next == \/ BoardCreates \/ BoardRemoved
        \/ \E type \in BoardTypes, n \in Counts : BoardPublishes(type, n)
        \/ UserMoves
        \/ \E n \in 1 .. AI_NUM_MAX, name \in UserTypes, range \in UserRanges :
               UserEdits(n, name, range)
        \/ \E a \in {EMPTY_STRING, "g", "d"} : Start(a)
        \/ shm_hardware_init \/ NewHardware \/ conf_main_init \/ option_main
        \/ OpenTruncate \/ write_file
        \/ EnterLoop \/ signal_handler \/ LeaveLoop \/ Killed

Spec == Init /\ [][Next]_vars

-----------------------------------------------------------------------------
(* Properties.                                                             *)

PointSource(c) == SourceOf(kind, points[c].val_type, points[c].io)

\* The cells of the array, or of the environment readings, a board of this kind has.
ArrayOf(k) ==
    CASE k = "CUR"            -> currentA .. currentA + AI_NUM_MAX - 1
      [] k = "VOL"            -> voltageV .. voltageV + AI_NUM_MAX - 1
      [] k \in {"ASE", "PSE"} -> aiValI .. aiValI + AI_NUM_MAX - 1
      [] k = "ENV"            -> 0 .. JSON_HW_ENV_INS_NUM - 1
      [] OTHER                -> {Unread}

\* The segment's absence, reported as a null pointer, and a failed shmat never reach
\* the loop: what main() does not check ends the process before.
NeverUnattached == pc = "loop" => shmData \notin {"null", "failed"}

\* The round trip of the configuration: a file generated for a board of this kind
\* with at least as many channels, moved into place and loaded, wires every point to
\* a cell of its own among the cells a board of this kind fills, whatever the user
\* has picked for value types and whichever boots and kills came between.
GeneratedPointsDistinct ==
    (pc = "loop" /\ conf.text = "good" /\ conf.terminal = kind
         /\ Len(conf.params) >= nChNum /\ kind \notin {"COL", "TBD"})
        => /\ \A c \in 0 .. nChNum - 1 : PointSource(c) \in ArrayOf(kind)
           /\ \A c, d \in 0 .. nChNum - 1 : c # d => PointSource(c) # PointSource(d)

\* An environment board needs no configuration: without a file, or with one that
\* names no value type, its seven points read the seven readings.
EnvironmentUnconfigured ==
    (pc = "loop" /\ kind = "ENV" /\ \A n \in 1 .. Len(conf.params) : conf.params[n].vtype = NoVtype)
        => {PointSource(c) : c \in 0 .. nChNum - 1} = 0 .. JSON_HW_ENV_INS_NUM - 1

\* The point a parameter of a file configures in the running terminal.
Configures(n, c) == pc = "loop" /\ conf.text = "good" /\ n = c + 1 /\ c < nChNum
                        /\ n \in 1 .. Len(conf.params)

\* The names of vtype_list, in the user's spelling, come back as the types they were
\* generated from: the report names a point as the file does.
PickedTypeKept ==
    \A n \in 1 .. Len(conf.params), c \in DOMAIN points :
        (Configures(n, c) /\ conf.params[n].vtype \in UserTypes)
            => LowerCase(get_hw_name_by_type(points[c].val_type)) = LowerCase(conf.params[n].vtype)

\* The conversion of an analogue point is a proper one (no division by 0) as soon as
\* a file generated for an analogue board has configured the point, and it takes the
\* sensor's currents to its range: 4 mA to the lower bound, 20 mA to the upper one,
\* and what lies between to what lies between.
ConversionProper ==
    \A n \in 1 .. Len(conf.params), c \in DOMAIN points :
        (Configures(n, c) /\ Analogue(kind) /\ Analogue(conf.terminal)) =>
            LET out(mA) == get_val(kind, points[c], mA)
                lower   == conf.params[n].rangeD[1]
                upper   == conf.params[n].rangeD[2]
            IN  /\ out(4).den > 0
                /\ out(4).num = lower * out(4).den
                /\ out(20).num = upper * out(20).den
                /\ \A mA \in 4 .. 19 : out(mA).num < out(mA + 1).num

-----------------------------------------------------------------------------
(* What comments of the repository say, and the code has not.              *)

\* srv_hardware.cpp:344, a point's index is in the range of the board's channels.
PortsInRange ==
    (pc = "loop" /\ shmData = "attached" /\ kind \in {"CUR", "VOL", "ASE", "PSE"})
        => \A c \in 0 .. nChNum - 1 : PointSource(c) \in ArrayOf(kind)

-----------------------------------------------------------------------------
(* The inductive invariant behind the safety properties.                   *)

\* A parameter of a file is what -g writes for its number on a board of the file's
\* kind, but for the type and the range the user has put in on an analogue board.
EntryMade(k, n, entry) ==
    /\ entry.port = GeneratedEntry(k, n).port
    /\ entry.rangeI = GeneratedEntry(k, n).rangeI
    /\ IF Analogue(k) THEN /\ entry.vtype \in UserTypes \cup {Placeholder}
                           /\ entry.rangeD \in UserRanges \cup {<<0, 100>>}
                      ELSE entry.vtype = NoVtype /\ entry.rangeD = NoRange

\* Every file is one -g has written, whatever was moved, edited or cut short since.
FileMade(file) ==
    IF file.text = "good"
    THEN \A n \in 1 .. Len(file.params) : EntryMade(file.terminal, n, file.params[n])
    ELSE file.params = <<>>

FilesMade == FileMade(dev) /\ FileMade(usr) /\ FileMade(conf)

\* Until the hardware object is built there is nothing of this run to go by ...
BeforeHardware ==
    pc \in {"off", "shm", "hw"} =>
        kind = "TBD" /\ nChNum = 0 /\ points = <<>> /\ conf = Absent

\* ... and from then on the segment was there to be read, the number of points is one
\* a board can have, and the points are hw_info_init's, as far as the file that was
\* loaded does not say otherwise.
AfterHardware ==
    pc \notin {"off", "shm", "hw"} =>
        /\ shmData \in {"attached", "junk"}
        /\ nChNum <= AI_NUM_MAX
        /\ kind = "ENV" => nChNum = JSON_HW_ENV_INS_NUM
        /\ pc = "conf" => conf = Absent
        /\ \A c \in 0 .. nChNum - 1 :
               LET new == NewPoints(kind, nChNum)[c]
               IN  points[c] = IF c < Len(conf.params) THEN Configured(new, conf.params[c + 1])
                                                       ELSE new

IInv == TypeOK /\ FilesMade /\ BeforeHardware /\ AfterHardware
=============================================================================
