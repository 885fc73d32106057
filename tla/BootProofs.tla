----------------------------- MODULE BootProofs -----------------------------
(***************************************************************************)
(* Proofs about Boot, for every set of boards, channel counts, names and   *)
(* ranges: however often the terminal is booted, killed, given another     *)
(* board or another file, the loop is entered with points that are what    *)
(* the board and a generated file make of them.                            *)
(***************************************************************************)
EXTENDS Boot, Extrema

-----------------------------------------------------------------------------
(* The table of value types.                                               *)

\* The rows of the table are the first types, in their order.
LEMMA TableOrder ==
    /\ TableRows = 1 .. 15 /\ Len(TypeOrder) = 20
    /\ \A n \in TableRows : hw_vtype_values[n].id = TypeOrder[n]
  <1>1. TableRows = 1 .. 15 /\ Len(TypeOrder) = 20
    BY DEF TableRows, hw_vtype_values, TypeOrder
  <1>2. /\ hw_vtype_values[1].id = TypeOrder[1]
        /\ hw_vtype_values[2].id = TypeOrder[2]
        /\ hw_vtype_values[3].id = TypeOrder[3]
        /\ hw_vtype_values[4].id = TypeOrder[4]
        /\ hw_vtype_values[5].id = TypeOrder[5]
        /\ hw_vtype_values[6].id = TypeOrder[6]
        /\ hw_vtype_values[7].id = TypeOrder[7]
        /\ hw_vtype_values[8].id = TypeOrder[8]
        /\ hw_vtype_values[9].id = TypeOrder[9]
        /\ hw_vtype_values[10].id = TypeOrder[10]
        /\ hw_vtype_values[11].id = TypeOrder[11]
        /\ hw_vtype_values[12].id = TypeOrder[12]
        /\ hw_vtype_values[13].id = TypeOrder[13]
        /\ hw_vtype_values[14].id = TypeOrder[14]
        /\ hw_vtype_values[15].id = TypeOrder[15]
    BY DEF hw_vtype_values, TypeOrder
  <1> QED
    BY <1>1, <1>2

\* No two types are the same.
LEMMA TypesDistinct == \A m, n \in 1 .. 20 : TypeOrder[m] = TypeOrder[n] => m = n
  BY DEF TypeOrder

\* The names with another spelling.
Latin == {"COL", "CUR", "VOL", "ENV", "ASE", "PSE", "TBD", "TVOC", "PM10", "PM2.5"}

\* No name of the table is empty, in any spelling.
LEMMA NamesNotEmpty ==
    \A n \in TableRows : LowerCase(hw_vtype_values[n].name) # LowerCase(EMPTY_STRING)
  <1>1. \A x : x \notin Latin => LowerCase(x) = x
    BY Zenon DEF LowerCase, Latin
  <1>2. \A x \in Latin : LowerCase(x) # EMPTY_STRING
    BY DEF LowerCase, Latin, EMPTY_STRING
  <1>3. \A x : LowerCase(x) = EMPTY_STRING => x = EMPTY_STRING
    BY <1>1, <1>2, Zenon DEF EMPTY_STRING
  <1>4. LowerCase(EMPTY_STRING) = EMPTY_STRING
    BY Zenon DEF LowerCase, EMPTY_STRING
  <1>5. /\ hw_vtype_values[1].name # EMPTY_STRING /\ hw_vtype_values[2].name # EMPTY_STRING
        /\ hw_vtype_values[3].name # EMPTY_STRING /\ hw_vtype_values[4].name # EMPTY_STRING
        /\ hw_vtype_values[5].name # EMPTY_STRING /\ hw_vtype_values[6].name # EMPTY_STRING
        /\ hw_vtype_values[7].name # EMPTY_STRING /\ hw_vtype_values[8].name # EMPTY_STRING
        /\ hw_vtype_values[9].name # EMPTY_STRING /\ hw_vtype_values[10].name # EMPTY_STRING
        /\ hw_vtype_values[11].name # EMPTY_STRING /\ hw_vtype_values[12].name # EMPTY_STRING
        /\ hw_vtype_values[13].name # EMPTY_STRING /\ hw_vtype_values[14].name # EMPTY_STRING
        /\ hw_vtype_values[15].name # EMPTY_STRING
    BY Zenon DEF hw_vtype_values, EMPTY_STRING
  <1> QED
    BY <1>3, <1>4, <1>5, TableOrder

\* A search that has a match finds one.
LEMMA FirstRowMatches ==
    ASSUME NEW matches \in SUBSET TableRows, matches # {}
    PROVE  FirstRow(matches) \in matches
  <1>1. \E n \in matches : \A m \in matches : n <= m
    BY LeastExists, TableOrder
  <1> QED
    BY <1>1 DEF FirstRow

LEMMA TypeOfName ==
    ASSUME NEW name
    PROVE  get_hw_type_by_name(name) \in Types
  <1> DEFINE matches == {n \in TableRows : LowerCase(hw_vtype_values[n].name) = LowerCase(name)}
  <1>1. "TBD" \in Types
    BY DEF Types, TypeOrder
  <1>2. CASE matches = {}
    BY <1>1, <1>2 DEF get_hw_type_by_name
  <1>3. CASE matches # {}
    <2>1. FirstRow(matches) \in TableRows
      BY <1>3, FirstRowMatches
    <2>2. hw_vtype_values[FirstRow(matches)].id \in Types
      BY <2>1, TableOrder DEF Types
    <2> QED
      BY <1>3, <2>2 DEF get_hw_type_by_name
  <1> QED
    BY <1>2, <1>3

\* get_hw_name_by_type undoes get_hw_type_by_name, up to the spelling.
LEMMA NameRoundTrip ==
    ASSUME NEW name \in UserTypes
    PROVE  LowerCase(get_hw_name_by_type(get_hw_type_by_name(name))) = LowerCase(name)
  <1> DEFINE matches == {n \in TableRows : LowerCase(hw_vtype_values[n].name) = LowerCase(name)}
  <1>1. matches # {}
    BY UserTypesAssumption
  <1>2. PICK n \in matches : n = FirstRow(matches)
    BY <1>1, FirstRowMatches
  <1>3. get_hw_type_by_name(name) = hw_vtype_values[n].id
    BY <1>1, <1>2 DEF get_hw_type_by_name
  <1>4. {m \in TableRows : hw_vtype_values[m].id = hw_vtype_values[n].id} = {n}
    BY TableOrder, TypesDistinct
  <1>5. FirstRow({n}) = n
    BY FirstRowMatches
  <1>6. get_hw_name_by_type(hw_vtype_values[n].id) = hw_vtype_values[n].name
    BY <1>4, <1>5 DEF get_hw_name_by_type
  <1> QED
    BY <1>3, <1>6

LEMMA PickedNotEmpty == NoVtype \notin UserTypes /\ NoVtype # Placeholder
  <1>1. NoVtype \notin UserTypes
    BY UserTypesAssumption, NamesNotEmpty DEF NoVtype
  <1>2. NoVtype # Placeholder
    BY Zenon DEF NoVtype, Placeholder, EMPTY_STRING
  <1> QED
    BY <1>1, <1>2

-----------------------------------------------------------------------------
(* The points.                                                             *)

LEMMA Facts ==
    /\ Counts \cup {0} \subseteq 0 .. 32
    /\ AI_NUM_MAX = 32 /\ JSON_HW_ENV_INS_NUM = 7
  BY CountsAssumption DEF AI_NUM_MAX, JSON_HW_ENV_INS_NUM

LEMMA KindOfName ==
    ASSUME NEW name
    PROVE  get_device_kind_by_name(name) \in Kinds
  BY DEF get_device_kind_by_name, Kinds

LEMMA ChannelSum ==
    ASSUME NEW k, NEW n \in 0 .. 32
    PROVE  /\ hw_get_channel_sum(k, Info(n)) \in 0 .. 32
           /\ k = "ENV" => hw_get_channel_sum(k, Info(n)) = 7
  <1>1. hw_get_channel_sum(k, Info(n)) \in {n, JSON_HW_ENV_INS_NUM, 1}
    <2>1. Info(n).currentChNum = n /\ Info(n).voltageChNum = n /\ Info(n).aiChNumI = n
      BY DEF Info
    <2> QED
      BY <2>1, Zenon DEF hw_get_channel_sum
  <1>2. k = "ENV" => hw_get_channel_sum(k, Info(n)) = JSON_HW_ENV_INS_NUM
    BY Zenon DEF hw_get_channel_sum
  <1> QED
    BY <1>1, <1>2 DEF JSON_HW_ENV_INS_NUM

LEMMA InitialTypes ==
    ASSUME NEW k, NEW c \in 0 .. 31, k = "ENV" => c < 7
    PROVE  /\ InitialType(k, c) \in Types
           /\ k = "ENV" => InitialType(k, c) = TypeOrder[3 + c]
  <1>1. InitialType(k, c) \in {"VOL", "CUR"} \/ (k = "ENV" /\ InitialType(k, c) = TypeOrder[3 + c])
    BY Zenon DEF InitialType
  <1>2. k = "ENV" => InitialType(k, c) = TypeOrder[3 + c]
    BY Zenon DEF InitialType
  <1>3. "VOL" \in Types /\ "CUR" \in Types
    BY DEF Types, TypeOrder
  <1>4. \A n \in 1 .. 20 : TypeOrder[n] \in Types
    BY TableOrder DEF Types
  <1>5. k = "ENV" => 3 + c \in 1 .. 20
    OBVIOUS
  <1> QED
    BY <1>1, <1>2, <1>3, <1>4, <1>5

\* io is a uint16_t.
LEMMA PortType ==
    /\ 0 \in uint16_t
    /\ \A port \in Nat : port % 65536 \in uint16_t
  <1>1. ASSUME NEW k \in Nat, k > 0, NEW n \in Nat
        PROVE  n % k \in Nat /\ n % k < k
    BY <1>1, SMTT(30)
  <1>2. \A port \in Nat : port % 65536 \in Nat /\ port % 65536 < 65536
    BY <1>1, SMTT(30)
  <1> QED
    BY <1>2 DEF uint16_t

LEMMA NewPointsType ==
    ASSUME NEW k, NEW n \in 0 .. 32, k = "ENV" => n = 7
    PROVE  NewPoints(k, n) \in [0 .. n - 1 -> Point]
  <1> SUFFICES ASSUME NEW c \in 0 .. n - 1
               PROVE  [val_type |-> InitialType(k, c), io |-> 0,
                       rangeI |-> <<0, 0>>, rangeD |-> <<0, 0>>] \in Point
    BY DEF NewPoints
  <1>1. InitialType(k, c) \in Types
    BY InitialTypes
  <1>2. <<0, 0>> \in [1 .. 2 -> Int]
    OBVIOUS
  <1> QED
    BY <1>1, <1>2, PortType DEF Point

LEMMA BoundsType ==
    ASSUME NEW old \in [1 .. 2 -> Int], NEW range \in Seq(Int)
    PROVE  Bounds(old, range) \in [1 .. 2 -> Int]
  BY DEF Bounds

LEMMA ConfiguredType ==
    ASSUME NEW point \in Point, NEW entry \in Entry
    PROVE  Configured(point, entry) \in Point
  <1>1. /\ point.val_type \in Types /\ point.io \in uint16_t
        /\ point.rangeI \in [1 .. 2 -> Int] /\ point.rangeD \in [1 .. 2 -> Int]
    BY DEF Point
  <1>2. /\ entry.port \in Nat \cup {NoPort}
        /\ entry.rangeI \in Seq(Int) /\ entry.rangeD \in Seq(Int)
    BY DEF Entry, Ranges
  <1> DEFINE type == IF entry.vtype = NoVtype THEN point.val_type
                                              ELSE get_hw_type_by_name(entry.vtype)
             port == IF entry.port = NoPort THEN point.io ELSE entry.port % 65536
             in   == Bounds(point.rangeI, entry.rangeI)
             out  == Bounds(point.rangeD, entry.rangeD)
  <1>3. type \in Types
    BY <1>1, TypeOfName
  <1>4. port \in uint16_t
    BY <1>1, <1>2, PortType
  <1>5. in \in [1 .. 2 -> Int] /\ out \in [1 .. 2 -> Int]
    BY <1>1, <1>2, BoundsType
  <1>6. Configured(point, entry) = [val_type |-> type, io |-> port, rangeI |-> in, rangeD |-> out]
    BY DEF Configured
  <1> HIDE DEF type, port, in, out
  <1> QED
    BY <1>3, <1>4, <1>5, <1>6 DEF Point

LEMMA NoPoints == <<>> \in [0 .. 0 - 1 -> Point]
  OBVIOUS

-----------------------------------------------------------------------------
(* The files.                                                              *)

LEMMA SpoiltFiles ==
    /\ Absent \in File /\ FileMade(Absent) /\ Absent.text = "absent" /\ Absent.params = <<>>
    /\ Bad \in File /\ FileMade(Bad) /\ Bad.text = "bad"
  BY DEF Absent, Bad, File, FileMade, Kinds

LEMMA GeneratedMade ==
    ASSUME NEW k \in Kinds, NEW n \in Nat
    PROVE  GeneratedEntry(k, n) \in Entry /\ EntryMade(k, n, GeneratedEntry(k, n))
  <1>1. GeneratedEntry(k, n) \in Entry
    BY DEF GeneratedEntry, Entry, Ranges, NoRange
  <1>2. EntryMade(k, n, GeneratedEntry(k, n))
    BY DEF GeneratedEntry, EntryMade
  <1> QED
    BY <1>1, <1>2
-----------------------------------------------------------------------------
(* The inductive invariant.                                                *)

\* The end of the process leaves a board and files that are as they were, or made anew.
LEMMA EndsPreserves ==
    ASSUME TypeOK, Ends, UNCHANGED board,
           dev' \in File, FileMade(dev'), usr' \in File, FileMade(usr')
    PROVE  IInv'
  <1>1. TypeOK'
    BY SpoiltFiles, NoPoints DEF Ends, TypeOK, PCs, Kinds
  <1>2. FilesMade'
    BY SpoiltFiles DEF Ends, FilesMade
  <1>3. BeforeHardware' /\ AfterHardware'
    BY DEF Ends, BeforeHardware, AfterHardware
  <1> QED
    BY <1>1, <1>2, <1>3 DEF IInv

\* What happens to the board and the files while main() stands still.
LEMMA StandingStill ==
    ASSUME IInv, UNCHANGED process,
           board' \in [exists : BOOLEAN, type : BoardTypes \cup {EMPTY_STRING}, count : Counts \cup {0}],
           dev' \in File, FileMade(dev'), usr' \in File, FileMade(usr')
    PROVE  IInv'
  <1> USE DEF IInv, process, hardware
  <1>1. TypeOK'
    BY DEF TypeOK
  <1>2. FilesMade' /\ BeforeHardware'
    BY DEF FilesMade, BeforeHardware
  <1>3. AfterHardware'
    BY DEF AfterHardware
  <1> QED
    BY <1>1, <1>2, <1>3

LEMMA EditMade ==
    ASSUME usr \in File, FileMade(usr),
           NEW n \in Nat, NEW name \in UserTypes, NEW range \in UserRanges,
           UserEdits(n, name, range)
    PROVE  usr' \in File /\ FileMade(usr')
  <1>1. /\ usr.text = "good" /\ usr.params \in Seq(Entry) /\ n \in 1 .. Len(usr.params)
        /\ usr.params[n].vtype # NoVtype /\ EntryMade(usr.terminal, n, usr.params[n])
    BY DEF UserEdits, FileMade, File
  <1> DEFINE entry == [usr.params[n] EXCEPT !.vtype = name, !.rangeD = range]
  <1>2. entry \in Entry
    <2>1. range \in Seq(Int)
      <3>1. range \in Int \X Int
        BY UserRangesAssumption
      <3> QED
        BY <3>1, SMTT(30)
    <2>2. usr.params[n] \in Entry
      BY <1>1
    <2> QED
      BY <2>1, <2>2 DEF Entry, Ranges
  <1>3. EntryMade(usr.terminal, n, entry)
    BY <1>1 DEF EntryMade, Entry
  <1>4. usr' = [usr EXCEPT !.params = [usr.params EXCEPT ![n] = entry]]
    BY DEF UserEdits
  <1> HIDE DEF entry
  <1>5. /\ usr'.text = "good" /\ usr'.terminal = usr.terminal
        /\ usr'.params = [usr.params EXCEPT ![n] = entry]
    BY <1>1, <1>4 DEF File
  <1>6. usr'.params \in Seq(Entry) /\ Len(usr'.params) = Len(usr.params)
    BY <1>1, <1>2, <1>5
  <1>7. usr' \in File
    BY <1>4, <1>6, <1>5 DEF File
  <1>8. FileMade(usr')
    BY <1>1, <1>3, <1>5, <1>6 DEF FileMade
  <1> QED
    BY <1>7, <1>8

LEMMA OutsidePreserves ==
    ASSUME IInv,
           \/ BoardCreates \/ BoardRemoved \/ UserMoves
           \/ \E type \in BoardTypes, n \in Counts : BoardPublishes(type, n)
           \/ \E n \in 1 .. AI_NUM_MAX, name \in UserTypes, range \in UserRanges :
                  UserEdits(n, name, range)
    PROVE  IInv'
  <1>1. /\ board \in [exists : BOOLEAN, type : BoardTypes \cup {EMPTY_STRING}, count : Counts \cup {0}]
        /\ dev \in File /\ FileMade(dev) /\ usr \in File /\ FileMade(usr)
    BY DEF IInv, TypeOK, FilesMade
  <1>2. CASE BoardCreates
    BY <1>1, <1>2, StandingStill DEF BoardCreates, files
  <1>3. CASE BoardRemoved
    BY <1>1, <1>3, StandingStill DEF BoardRemoved, files
  <1>4. CASE UserMoves
    BY <1>1, <1>4, StandingStill, SpoiltFiles DEF UserMoves
  <1>5. CASE \E type \in BoardTypes, n \in Counts : BoardPublishes(type, n)
    BY <1>1, <1>5, StandingStill DEF BoardPublishes, files
  <1>6. CASE \E n \in 1 .. AI_NUM_MAX, name \in UserTypes, range \in UserRanges :
                 UserEdits(n, name, range)
    <2>1. PICK n \in 1 .. AI_NUM_MAX, name \in UserTypes, range \in UserRanges :
                 UserEdits(n, name, range)
      BY <1>6
    <2>2. n \in Nat
      BY DEF AI_NUM_MAX
    <2>3. usr' \in File /\ FileMade(usr')
      BY <1>1, <2>1, <2>2, EditMade
    <2> QED
      BY <1>1, <2>1, <2>3, StandingStill DEF UserEdits
  <1> QED
    BY <1>2, <1>3, <1>4, <1>5, <1>6

\* hw_info_init builds the points the invariant asks for, whatever the segment holds.
LEMMA InfoPreserves ==
    ASSUME IInv, pc = "hw", shmData \in {"attached", "junk"}, UNCHANGED <<board, files>>,
           NEW type, NEW n \in Counts \cup {0}, hw_info_init(type, Info(n))
    PROVE  IInv'
  <1>1. /\ kind' \in Kinds /\ nChNum' \in 0 .. 32
        /\ kind' = "ENV" => nChNum' = 7
    BY Facts, KindOfName, ChannelSum DEF hw_info_init, hw_kind_init
  <1>2. points' = NewPoints(kind', nChNum') /\ points' \in [0 .. nChNum' - 1 -> Point]
    BY <1>1, NewPointsType DEF hw_info_init
  <1>3. pc' = "conf" /\ UNCHANGED <<arg, shmData, conf, g_running, board, dev, usr>> /\ conf = Absent
    BY DEF IInv, BeforeHardware, hw_info_init, files
  <1>4. TypeOK'
    <2>1. TypeOK /\ "conf" \in PCs /\ nChNum' \in Nat
      BY <1>1 DEF IInv, PCs
    <2> HIDE DEF PCs
    <2> QED
      BY <1>1, <1>2, <1>3, <2>1 DEF TypeOK
  <1>5. FilesMade'
    BY <1>3 DEF IInv, FilesMade
  <1>6. BeforeHardware'
    BY <1>3 DEF BeforeHardware
  <1>7. AfterHardware'
    <2>1. Len(conf'.params) = 0
      BY <1>3, SpoiltFiles
    <2>2. nChNum' <= AI_NUM_MAX /\ (kind' = "ENV" => nChNum' = JSON_HW_ENV_INS_NUM)
      BY <1>1, Facts
    <2> QED
      BY <1>2, <1>3, <2>1, <2>2 DEF AfterHardware
  <1> QED
    BY <1>4, <1>5, <1>6, <1>7 DEF IInv

LEMMA BootingPreserves ==
    ASSUME IInv,
           \/ \E a \in {EMPTY_STRING, "g", "d"} : Start(a)
           \/ shm_hardware_init \/ NewHardware
    PROVE  IInv'
  <1>1. /\ TypeOK /\ FilesMade /\ BeforeHardware
        /\ dev \in File /\ FileMade(dev) /\ usr \in File /\ FileMade(usr)
    BY DEF IInv, TypeOK, FilesMade
  <1>2. ASSUME pc \in {"off", "shm"}, pc' \in {"shm", "hw"}, arg' \in {EMPTY_STRING, "g", "d"},
               shmData' \in {"null", "junk", "failed", "attached"},
               UNCHANGED <<board, files, hardware, conf, g_running>>
        PROVE  IInv'
    <2> USE DEF files, hardware
    <2>1. TypeOK'
      BY <1>1, <1>2 DEF TypeOK, PCs
    <2>2. FilesMade'
      BY <1>1, <1>2 DEF FilesMade
    <2>3. BeforeHardware' /\ AfterHardware'
      BY <1>1, <1>2 DEF BeforeHardware, AfterHardware
    <2> QED
      BY <2>1, <2>2, <2>3 DEF IInv
  <1>3. CASE \E a \in {EMPTY_STRING, "g", "d"} : Start(a)
    BY <1>2, <1>3 DEF Start
  <1>4. CASE shm_hardware_init
    <2>1. CASE Ends
      BY <1>1, <1>4, <2>1, EndsPreserves DEF shm_hardware_init, files
    <2>2. CASE ~Ends
      BY <1>1, <1>2, <1>4, <2>2 DEF shm_hardware_init, TypeOK
    <2> QED
      BY <2>1, <2>2
  <1>5. CASE NewHardware
    <2>1. CASE Ends
      BY <1>1, <1>5, <2>1, EndsPreserves DEF NewHardware, files
    <2>2. CASE shmData = "attached" /\ hw_info_init(board.type, Info(board.count))
      <3>1. board.count \in Counts \cup {0}
        BY <1>1 DEF TypeOK
      <3> QED
        BY <1>5, <2>2, <3>1, InfoPreserves DEF NewHardware
    <2>3. CASE shmData = "junk" /\ \E type \in BoardTypes, n \in Counts : hw_info_init(type, Info(n))
      BY <1>5, <2>3, InfoPreserves DEF NewHardware
    <2> QED
      BY <1>5, <2>1, <2>2, <2>3 DEF NewHardware
  <1> QED
    BY <1>3, <1>4, <1>5

\* What the file says of a point is applied to what hw_info_init has put there.
LEMMA ConfPreserves ==
    ASSUME IInv, conf_main_init
    PROVE  IInv'
  <1>1. /\ pc = "conf" /\ pc' = "option"
        /\ UNCHANGED <<board, dev, usr, arg, shmData, kind, nChNum, g_running>>
        /\ \/ dev.text = "good" /\ points' = cJSON_ParseMainInfo(dev) /\ conf' = dev
           \/ UNCHANGED <<points, conf>>
    BY DEF conf_main_init, files
  <1>2. /\ points \in [0 .. nChNum - 1 -> Point] /\ nChNum \in Nat
        /\ dev.params \in Seq(Entry) /\ dev \in File
    BY DEF IInv, TypeOK, File
  <1>3. points' \in [0 .. nChNum - 1 -> Point]
    <2>1. ASSUME points' = cJSON_ParseMainInfo(dev)
          PROVE  points' \in [0 .. nChNum - 1 -> Point]
      <3>1. \A c \in 0 .. nChNum - 1 : c < Len(dev.params) => dev.params[c + 1] \in Entry
        BY <1>2
      <3> QED
        BY <1>2, <2>1, <3>1, ConfiguredType DEF cJSON_ParseMainInfo
    <2> QED
      BY <1>1, <1>2, <2>1
  <1>4. TypeOK' /\ FilesMade' /\ BeforeHardware'
    BY <1>1, <1>2, <1>3 DEF IInv, TypeOK, PCs, FilesMade, BeforeHardware
  <1>5. /\ shmData \in {"attached", "junk"} /\ nChNum <= AI_NUM_MAX
        /\ kind = "ENV" => nChNum = JSON_HW_ENV_INS_NUM
        /\ conf = Absent
        /\ \A c \in 0 .. nChNum - 1 : points[c] = NewPoints(kind, nChNum)[c]
    BY <1>1, SpoiltFiles DEF IInv, AfterHardware
  <1>6. \A c \in 0 .. nChNum - 1 :
            LET new == NewPoints(kind, nChNum)[c]
            IN  points'[c] = IF c < Len(conf'.params) THEN Configured(new, conf'.params[c + 1])
                                                      ELSE new
    <2>1. CASE points' = cJSON_ParseMainInfo(dev) /\ conf' = dev
      BY <1>5, <2>1 DEF cJSON_ParseMainInfo
    <2>2. CASE UNCHANGED <<points, conf>>
      <3>1. Len(conf'.params) = 0
        BY <1>5, <2>2, SpoiltFiles
      <3> QED
        BY <1>5, <2>2, <3>1
    <2> QED
      BY <1>1, <2>1, <2>2
  <1>7. AfterHardware'
    BY <1>1, <1>5, <1>6 DEF AfterHardware
  <1> QED
    BY <1>4, <1>7 DEF IInv

\* The file -g writes is one the invariant allows.
LEMMA GeneratedFile ==
    ASSUME TypeOK
    PROVE  usr_genrate_proc_json \in File /\ FileMade(usr_genrate_proc_json)
  <1>1. kind \in Kinds /\ nChNum \in Nat
    BY DEF TypeOK
  <1> DEFINE params == [n \in 1 .. nChNum |-> GeneratedEntry(kind, n)]
  <1>2. \A n \in 1 .. nChNum : GeneratedEntry(kind, n) \in Entry /\ EntryMade(kind, n, GeneratedEntry(kind, n))
    BY <1>1, GeneratedMade
  <1>3. params \in Seq(Entry) /\ Len(params) = nChNum
    BY <1>1, <1>2
  <1>4. \A n \in 1 .. Len(params) : EntryMade(kind, n, params[n])
    BY <1>2, <1>3
  <1>5. usr_genrate_proc_json = [text |-> "good", terminal |-> kind, params |-> params]
    BY DEF usr_genrate_proc_json
  <1> HIDE DEF params
  <1> QED
    BY <1>1, <1>3, <1>4, <1>5 DEF File, FileMade

LEMMA GeneratingPreserves ==
    ASSUME IInv, OpenTruncate \/ write_file
    PROVE  IInv'
  <1>1. /\ TypeOK /\ FilesMade
        /\ dev \in File /\ FileMade(dev) /\ usr \in File /\ FileMade(usr)
    BY DEF IInv, TypeOK, FilesMade
  <1>2. CASE OpenTruncate /\ ~Ends
    <2>1. pc = "gen" /\ pc' = "write" /\ usr' = Bad /\ UNCHANGED <<board, dev, arg, shmData, hardware, conf, g_running>>
      BY <1>2 DEF OpenTruncate
    <2>2. TypeOK'
      BY <1>1, <2>1, SpoiltFiles DEF TypeOK, PCs, hardware
    <2>3. FilesMade'
      BY <1>1, <2>1, SpoiltFiles DEF FilesMade
    <2>4. BeforeHardware'
      BY <2>1 DEF BeforeHardware
    <2>5. AfterHardware'
      BY <2>1 DEF IInv, AfterHardware, hardware
    <2> QED
      BY <2>2, <2>3, <2>4, <2>5 DEF IInv
  <1>3. CASE OpenTruncate /\ Ends
    BY <1>1, <1>3, SpoiltFiles, EndsPreserves DEF OpenTruncate
  <1>4. CASE write_file
    BY <1>1, <1>4, SpoiltFiles, GeneratedFile, EndsPreserves DEF write_file
  <1> QED
    BY <1>2, <1>3, <1>4

LEMMA RunningPreserves ==
    ASSUME IInv, option_main \/ EnterLoop \/ signal_handler \/ LeaveLoop \/ Killed
    PROVE  IInv'
  <1>1. /\ TypeOK /\ FilesMade
        /\ dev \in File /\ FileMade(dev) /\ usr \in File /\ FileMade(usr)
    BY DEF IInv, TypeOK, FilesMade
  <1>2. CASE Ends
    <2>1. UNCHANGED <<board, dev, usr>>
      BY DEF option_main, EnterLoop, signal_handler, LeaveLoop, Killed, files
    <2> QED
      BY <1>1, <1>2, <2>1, EndsPreserves
  <1>3. CASE ~Ends
    <2>1. /\ pc' \in PCs /\ g_running' \in BOOLEAN
          /\ UNCHANGED <<board, dev, usr, arg, shmData, kind, nChNum, points, conf>>
          /\ pc' = pc \/ (pc \in {"option", "start"} /\ pc' \in {"gen", "start", "loop"})
      BY <1>1, <1>3 DEF option_main, EnterLoop, signal_handler, LeaveLoop, Killed, files, hardware,
                        TypeOK, PCs
    <2>2. TypeOK' /\ FilesMade'
      BY <1>1, <2>1 DEF TypeOK, FilesMade
    <2>3. BeforeHardware'
      BY <2>1 DEF IInv, BeforeHardware
    <2>4. AfterHardware'
      BY <2>1 DEF IInv, AfterHardware
    <2> QED
      BY <2>2, <2>3, <2>4 DEF IInv
  <1> QED
    BY <1>2, <1>3

LEMMA InitIInv == Init => IInv
  <1> SUFFICES ASSUME Init PROVE IInv
    OBVIOUS
  <1>1. TypeOK
    BY SpoiltFiles, NoPoints DEF Init, TypeOK, PCs, Kinds
  <1>2. FilesMade /\ BeforeHardware /\ AfterHardware
    BY SpoiltFiles DEF Init, FilesMade, BeforeHardware, AfterHardware
  <1> QED
    BY <1>1, <1>2 DEF IInv

LEMMA NextIInv == IInv /\ [Next]_vars => IInv'
  <1> SUFFICES ASSUME IInv, [Next]_vars PROVE IInv'
    OBVIOUS
  <1>1. CASE UNCHANGED vars
    <2>1. UNCHANGED <<board, dev, usr, process>>
      BY <1>1 DEF vars, files
    <2> QED
      BY <2>1, StandingStill DEF IInv, TypeOK, FilesMade
  <1>2. CASE \/ BoardCreates \/ BoardRemoved \/ UserMoves
             \/ \E type \in BoardTypes, n \in Counts : BoardPublishes(type, n)
             \/ \E n \in 1 .. AI_NUM_MAX, name \in UserTypes, range \in UserRanges :
                    UserEdits(n, name, range)
    BY <1>2, OutsidePreserves
  <1>3. CASE \/ \E a \in {EMPTY_STRING, "g", "d"} : Start(a)
             \/ shm_hardware_init \/ NewHardware
    BY <1>3, BootingPreserves
  <1>4. CASE conf_main_init
    BY <1>4, ConfPreserves
  <1>5. CASE OpenTruncate \/ write_file
    BY <1>5, GeneratingPreserves
  <1>6. CASE option_main \/ EnterLoop \/ signal_handler \/ LeaveLoop \/ Killed
    BY <1>6, RunningPreserves
  <1> QED
    BY <1>1, <1>2, <1>3, <1>4, <1>5, <1>6 DEF Next

\* Whatever is killed, moved, edited and put in, the files are generated ones and the
\* points are what the board and the file say.
THEOREM Invariance == Spec => []IInv
  <1>1. Init => IInv
    BY InitIInv
  <1>2. IInv /\ [Next]_vars => IInv'
    BY NextIInv
  <1> QED
    BY <1>1, <1>2, PTL DEF Spec

\* The type invariant of Boot: files, segment and points of every boot are well formed.
THEOREM TypeCorrect == Spec => []TypeOK
  <1>1. IInv => TypeOK
    BY DEF IInv
  <1> QED
    BY <1>1, Invariance, PTL

\* main() does not enter the loop without a segment.
THEOREM LoopAttached == Spec => []NeverUnattached
  <1>1. IInv => NeverUnattached
    BY DEF IInv, AfterHardware, NeverUnattached
  <1> QED
    BY <1>1, Invariance, PTL

-----------------------------------------------------------------------------
(* The points of a generated file.                                         *)

\* A point of the loop, and the parameter that has configured it.
LEMMA LoopPoints ==
    ASSUME IInv, pc = "loop", NEW c \in 0 .. nChNum - 1
    PROVE  /\ nChNum \in 0 .. 32 /\ kind \in Kinds /\ (kind = "ENV" => nChNum = 7)
           /\ NewPoints(kind, nChNum)[c].val_type = InitialType(kind, c)
           /\ c < Len(conf.params) =>
                  /\ points[c] = Configured(NewPoints(kind, nChNum)[c], conf.params[c + 1])
                  /\ c + 1 \in 1 .. Len(conf.params)
                  /\ conf.text = "good" => EntryMade(conf.terminal, c + 1, conf.params[c + 1])
           /\ ~ (c < Len(conf.params)) => points[c] = NewPoints(kind, nChNum)[c]
  <1>1. nChNum \in 0 .. 32 /\ kind \in Kinds /\ (kind = "ENV" => nChNum = 7)
    BY Facts DEF IInv, TypeOK, AfterHardware
  <1>2. NewPoints(kind, nChNum)[c].val_type = InitialType(kind, c)
    BY DEF NewPoints
  <1>3. conf.params \in Seq(Entry) /\ FileMade(conf)
    BY DEF IInv, TypeOK, File, FilesMade
  <1>4. c < Len(conf.params) => c + 1 \in 1 .. Len(conf.params)
    BY <1>3
  <1>5. c + 1 \in 1 .. Len(conf.params) /\ conf.text = "good"
            => EntryMade(conf.terminal, c + 1, conf.params[c + 1])
    BY <1>3 DEF FileMade
  <1>6. /\ c < Len(conf.params) =>
               points[c] = Configured(NewPoints(kind, nChNum)[c], conf.params[c + 1])
        /\ ~ (c < Len(conf.params)) => points[c] = NewPoints(kind, nChNum)[c]
    BY DEF IInv, AfterHardware
  <1> QED
    BY <1>1, <1>2, <1>4, <1>5, <1>6

\* The cell of a point whose port is n.
LEMMA SourceOfPort ==
    ASSUME NEW type, NEW n \in 1 .. 32, NEW k \in {"CUR", "VOL", "ASE", "PSE"}
    PROVE  /\ SourceOf(k, type, n) \in ArrayOf(k)
           /\ \A m \in 1 .. 32 : \A other : SourceOf(k, other, m) = SourceOf(k, type, n) => m = n
  <1> DEFINE base == IF k = "CUR" THEN currentA ELSE IF k = "VOL" THEN voltageV ELSE aiValI
  <1>1. \A t, m : SourceOf(k, t, m) = base + (m - 1)
    BY Zenon DEF SourceOf
  <1>2. ArrayOf(k) = base .. base + AI_NUM_MAX - 1
    BY Zenon DEF ArrayOf
  <1>3. base \in Int /\ AI_NUM_MAX = 32
    BY DEF currentA, voltageV, aiValV, aiValI, EnvCells, AI_NUM_MAX
  <1> HIDE DEF base
  <1>4. SourceOf(k, type, n) \in ArrayOf(k)
    <2>1. SourceOf(k, type, n) = base + (n - 1)
      BY <1>1
    <2> QED
      BY <1>2, <1>3, <2>1
  <1>5. ASSUME NEW m \in 1 .. 32, NEW other, SourceOf(k, other, m) = SourceOf(k, type, n)
        PROVE  m = n
    <2>1. base + (m - 1) = base + (n - 1)
      BY <1>1, <1>5
    <2> QED
      BY <1>3, <2>1
  <1> QED
    BY <1>4, <1>5

\* The seven readings, in the order of their types.
LEMMA SourceOfReading ==
    ASSUME NEW c \in 0 .. 6, NEW port
    PROVE  SourceOf("ENV", TypeOrder[3 + c], port) = c
  <1>1. /\ EnvTypes[1] = TypeOrder[3] /\ EnvTypes[2] = TypeOrder[4] /\ EnvTypes[3] = TypeOrder[5]
        /\ EnvTypes[4] = TypeOrder[6] /\ EnvTypes[5] = TypeOrder[7] /\ EnvTypes[6] = TypeOrder[8]
        /\ EnvTypes[7] = TypeOrder[9] /\ Len(EnvTypes) = 7
    BY DEF EnvTypes, TypeOrder
  <1>2. EnvTypes[c + 1] = TypeOrder[3 + c]
    BY <1>1
  <1>3. \A n \in 1 .. 7 : EnvTypes[n] = TypeOrder[2 + n]
    BY <1>1
  <1>4. \A n \in 1 .. Len(EnvTypes) : EnvTypes[n] = TypeOrder[3 + c] <=> n = c + 1
    <2> SUFFICES ASSUME NEW n \in 1 .. 7
                 PROVE  EnvTypes[n] = TypeOrder[3 + c] <=> n = c + 1
      BY <1>1
    <2>1. 2 + n \in 1 .. 20 /\ 3 + c \in 1 .. 20
      OBVIOUS
    <2>2. TypeOrder[2 + n] = TypeOrder[3 + c] <=> 2 + n = 3 + c
      BY <2>1, TypesDistinct
    <2> QED
      BY <1>3, <2>2
  <1> DEFINE row == CHOOSE n \in 1 .. Len(EnvTypes) : EnvTypes[n] = TypeOrder[3 + c]
  <1>5. \E n \in 1 .. Len(EnvTypes) : EnvTypes[n] = TypeOrder[3 + c]
    BY <1>1, <1>2
  <1>6. row \in 1 .. Len(EnvTypes) /\ EnvTypes[row] = TypeOrder[3 + c]
    BY <1>5
  <1>7. SourceOf("ENV", TypeOrder[3 + c], port) = row - 1
    BY <1>5, Zenon DEF SourceOf
  <1> HIDE DEF row
  <1>8. row = c + 1
    BY <1>4, <1>6
  <1> QED
    BY <1>7, <1>8

\* An environment board's point that no value type was given to reads its own reading.
LEMMA EnvironmentPoint ==
    ASSUME IInv, pc = "loop", kind = "ENV", NEW c \in 0 .. nChNum - 1,
           c < Len(conf.params) => conf.params[c + 1].vtype = NoVtype
    PROVE  PointSource(c) = c /\ c \in 0 .. 6
  <1>1. points[c].val_type = InitialType(kind, c)
    <2>1. Configured(NewPoints(kind, nChNum)[c], conf.params[c + 1]).val_type
              = IF conf.params[c + 1].vtype = NoVtype
                THEN NewPoints(kind, nChNum)[c].val_type
                ELSE get_hw_type_by_name(conf.params[c + 1].vtype)
      BY DEF Configured
    <2> QED
      BY <2>1, LoopPoints
  <1>2. c \in 0 .. 6 /\ nChNum = 7
    BY LoopPoints
  <1>3. points[c].val_type = TypeOrder[3 + c]
    BY <1>1, <1>2, InitialTypes
  <1> QED
    BY <1>2, <1>3, SourceOfReading DEF PointSource

-----------------------------------------------------------------------------
(* The round trip of the configuration.                                    *)

\* A point of any other board that a generated file of its kind has configured has the
\* running number of its parameter as its port.
LEMMA PortOfPoint ==
    ASSUME IInv, pc = "loop", conf.text = "good", conf.terminal = kind, kind # "ENV",
           NEW c \in 0 .. nChNum - 1, c < Len(conf.params)
    PROVE  points[c].io = c + 1 /\ c + 1 \in 1 .. 32
  <1>1. c + 1 \in 1 .. 32
    <2>1. nChNum \in 0 .. 32
      BY LoopPoints
    <2> QED
      BY <2>1
  <1>2. conf.params[c + 1].port = c + 1
    BY <1>1, LoopPoints DEF EntryMade, GeneratedEntry
  <1>3. points[c].io = (c + 1) % 65536
    <2>1. points[c] = Configured(NewPoints(kind, nChNum)[c], conf.params[c + 1])
      BY LoopPoints
    <2>2. points[c].io = IF conf.params[c + 1].port = NoPort
                         THEN NewPoints(kind, nChNum)[c].io ELSE conf.params[c + 1].port % 65536
      BY <2>1 DEF Configured
    <2> QED
      BY <1>1, <1>2, <2>2 DEF NoPort
  <1>4. (c + 1) % 65536 = c + 1
    BY <1>1
  <1> QED
    BY <1>1, <1>3, <1>4

\* A generated file wires every point to a cell of its own among those the board fills.
THEOREM GeneratedDistinct == Spec => []GeneratedPointsDistinct
  <1>1. IInv => GeneratedPointsDistinct
    <2> SUFFICES ASSUME IInv, pc = "loop", conf.text = "good", conf.terminal = kind,
                        Len(conf.params) >= nChNum, kind \notin {"COL", "TBD"}
                 PROVE  /\ \A c \in 0 .. nChNum - 1 : PointSource(c) \in ArrayOf(kind)
                        /\ \A c, d \in 0 .. nChNum - 1 : c # d => PointSource(c) # PointSource(d)
      BY DEF GeneratedPointsDistinct
    <2>1. conf.params \in Seq(Entry) /\ Len(conf.params) \in Nat /\ nChNum \in Nat
      BY DEF IInv, TypeOK, File
    <2>2. \A c \in 0 .. nChNum - 1 : c < Len(conf.params)
      BY <2>1
    <2>3. CASE kind = "ENV"
      <3>1. \A c \in 0 .. nChNum - 1 : conf.params[c + 1].vtype = NoVtype
        BY <2>2, <2>3, LoopPoints DEF EntryMade, Analogue
      <3>2. \A c \in 0 .. nChNum - 1 : PointSource(c) = c /\ c \in 0 .. 6
        BY <2>3, <3>1, EnvironmentPoint
      <3>3. ArrayOf("ENV") = 0 .. 6
        <4>1. ArrayOf("ENV") = 0 .. JSON_HW_ENV_INS_NUM - 1
          BY Zenon DEF ArrayOf
        <4> QED
          BY <4>1, Facts
      <3> QED
        BY <2>3, <3>2, <3>3
    <2>4. CASE kind # "ENV"
      <3>1. \A c \in 0 .. nChNum - 1 : points[c].io = c + 1 /\ c + 1 \in 1 .. 32
        BY <2>2, <2>4, PortOfPoint
      <3>2. kind \in {"CUR", "VOL", "ASE", "PSE"}
        BY <2>4 DEF IInv, TypeOK, Kinds
      <3>3. \A c \in 0 .. nChNum - 1 : PointSource(c) \in ArrayOf(kind)
        BY <3>1, <3>2, SourceOfPort DEF PointSource
      <3>4. ASSUME NEW c \in 0 .. nChNum - 1, NEW d \in 0 .. nChNum - 1,
                   PointSource(c) = PointSource(d)
            PROVE  c = d
        <4>1. PICK m \in 1 .. 32, n \in 1 .. 32 : m = d + 1 /\ n = c + 1
          BY <3>1
        <4>2. SourceOf(kind, points[d].val_type, m) = SourceOf(kind, points[c].val_type, n)
          BY <3>1, <3>4, <4>1 DEF PointSource
        <4>3. m = n
          <5>1. \A p \in 1 .. 32 : \A other :
                    SourceOf(kind, other, p) = SourceOf(kind, points[c].val_type, n) => p = n
            BY <3>2, SourceOfPort
          <5> QED
            BY <4>2, <5>1
        <4>4. c \in Int /\ d \in Int
          OBVIOUS
        <4> QED
          BY <4>1, <4>3, <4>4
      <3> QED
        BY <3>3, <3>4
    <2> QED
      BY <2>3, <2>4
  <1> QED
    BY <1>1, Invariance, PTL

\* An environment board serves its seven readings without a configuration.
THEOREM EnvironmentServed == Spec => []EnvironmentUnconfigured
  <1>1. IInv => EnvironmentUnconfigured
    <2> SUFFICES ASSUME IInv, pc = "loop", kind = "ENV",
                        \A n \in 1 .. Len(conf.params) : conf.params[n].vtype = NoVtype
                 PROVE  {PointSource(c) : c \in 0 .. nChNum - 1} = 0 .. JSON_HW_ENV_INS_NUM - 1
      BY DEF EnvironmentUnconfigured
    <2>1. conf.params \in Seq(Entry) /\ nChNum = 7 /\ JSON_HW_ENV_INS_NUM = 7
      BY Facts DEF IInv, TypeOK, File, AfterHardware
    <2>2. \A c \in 0 .. nChNum - 1 : PointSource(c) = c
      <3> SUFFICES ASSUME NEW c \in 0 .. nChNum - 1
                   PROVE  PointSource(c) = c
        OBVIOUS
      <3>1. c < Len(conf.params) => conf.params[c + 1].vtype = NoVtype
        BY <2>1
      <3> QED
        BY <3>1, EnvironmentPoint
    <2> QED
      BY <2>1, <2>2
  <1> QED
    BY <1>1, Invariance, PTL

\* The point a parameter configures, in terms of the parameter.
LEMMA ConfiguredPoint ==
    ASSUME IInv, NEW n \in 1 .. Len(conf.params), NEW c \in DOMAIN points, Configures(n, c)
    PROVE  /\ points[c] = Configured(NewPoints(kind, nChNum)[c], conf.params[n])
           /\ EntryMade(conf.terminal, n, conf.params[n])
           /\ NewPoints(kind, nChNum)[c] \in Point
  <1>1. pc = "loop" /\ conf.text = "good" /\ n = c + 1 /\ c < Len(conf.params)
        /\ c \in 0 .. nChNum - 1 /\ nChNum \in Nat
    BY DEF IInv, TypeOK, File, Configures
  <1>2. NewPoints(kind, nChNum) \in [0 .. nChNum - 1 -> Point]
    BY <1>1, LoopPoints, NewPointsType
  <1> QED
    BY <1>1, <1>2, LoopPoints

\* The user's choice of a value type is the one the report spells.
THEOREM PickedKept == Spec => []PickedTypeKept
  <1>1. IInv => PickedTypeKept
    <2> SUFFICES ASSUME IInv, NEW n \in 1 .. Len(conf.params), NEW c \in DOMAIN points,
                        Configures(n, c), conf.params[n].vtype \in UserTypes
                 PROVE  LowerCase(get_hw_name_by_type(points[c].val_type))
                            = LowerCase(conf.params[n].vtype)
      BY DEF PickedTypeKept
    <2>1. conf.params[n].vtype # NoVtype
      BY PickedNotEmpty
    <2>2. points[c].val_type = get_hw_type_by_name(conf.params[n].vtype)
      BY <2>1, ConfiguredPoint DEF Configured
    <2> QED
      BY <2>2, NameRoundTrip
  <1> QED
    BY <1>1, Invariance, PTL

\* A sensor's 4-20 mA are taken to its range, bounds to bounds and in order.
THEOREM ConversionsProper == Spec => []ConversionProper
  <1>1. ASSUME NEW lower \in Int, NEW upper \in Int, lower < upper
        PROVE  LET out(mA) == data_AD_convert(mA, 4, 20, lower, upper)
               IN  /\ out(4).den > 0
                   /\ out(4).num = lower * out(4).den
                   /\ out(20).num = upper * out(20).den
                   /\ \A mA \in 4 .. 19 : out(mA).num < out(mA + 1).num
    <2> DEFINE out(mA) == data_AD_convert(mA, 4, 20, lower, upper)
    <2>1. \A mA : out(mA).den = 16 /\ out(mA).num = (mA - 4) * (upper - lower) + lower * 16
      BY DEF data_AD_convert
    <2>2. PICK width \in Nat : width = upper - lower /\ width > 0
      BY <1>1
    <2>3. (4 - 4) * width = 0 /\ (20 - 4) * width = 16 * width
      OBVIOUS
    <2>4. \A mA \in 4 .. 19 : (mA - 4) * width \in Int /\ (mA + 1 - 4) * width = (mA - 4) * width + width
      OBVIOUS
    <2>5. out(4).num = lower * 16 /\ out(20).num = upper * 16
      BY <2>1, <2>2, <2>3
    <2>6. \A mA \in 4 .. 19 : out(mA).num < out(mA + 1).num
      BY <2>1, <2>2, <2>4
    <2> QED
      BY <2>1, <2>5, <2>6
  <1>2. IInv => ConversionProper
    <2> SUFFICES ASSUME IInv, NEW n \in 1 .. Len(conf.params), NEW c \in DOMAIN points,
                        Configures(n, c), Analogue(kind), Analogue(conf.terminal)
                 PROVE  LET out(mA) == get_val(kind, points[c], mA)
                            lower   == conf.params[n].rangeD[1]
                            upper   == conf.params[n].rangeD[2]
                        IN  /\ out(4).den > 0
                            /\ out(4).num = lower * out(4).den
                            /\ out(20).num = upper * out(20).den
                            /\ \A mA \in 4 .. 19 : out(mA).num < out(mA + 1).num
      BY DEF ConversionProper
    <2>1. /\ conf.params[n].rangeI = <<4, 20>>
          /\ conf.params[n].rangeD \in UserRanges \cup {<<0, 100>>}
      BY ConfiguredPoint DEF EntryMade, GeneratedEntry
    <2>2. PICK lower \in Int, upper \in Int : lower < upper /\ conf.params[n].rangeD = <<lower, upper>>
      BY <2>1, UserRangesAssumption
    <2>3. \A old, a, b : Bounds(old, <<a, b>>)[1] = a /\ Bounds(old, <<a, b>>)[2] = b
      BY DEF Bounds
    <2>4. \A point, entry : /\ Configured(point, entry).rangeI = Bounds(point.rangeI, entry.rangeI)
                            /\ Configured(point, entry).rangeD = Bounds(point.rangeD, entry.rangeD)
      BY DEF Configured
    <2>5. /\ points[c].rangeI[1] = 4 /\ points[c].rangeI[2] = 20
          /\ points[c].rangeD[1] = lower /\ points[c].rangeD[2] = upper
      BY <2>1, <2>2, <2>3, <2>4, ConfiguredPoint
    <2>6. \A mA : get_val(kind, points[c], mA) = data_AD_convert(mA, 4, 20, lower, upper)
      BY <2>5 DEF get_val, Analogue
    <2>7. conf.params[n].rangeD[1] = lower /\ conf.params[n].rangeD[2] = upper
      BY <2>2
    <2> DEFINE out(mA) == data_AD_convert(mA, 4, 20, lower, upper)
    <2>8. /\ out(4).den > 0
          /\ out(4).num = lower * out(4).den
          /\ out(20).num = upper * out(20).den
          /\ \A mA \in 4 .. 19 : out(mA).num < out(mA + 1).num
      BY <1>1, <2>2
    <2> QED
      BY <2>6, <2>7, <2>8
  <1> QED
    BY <1>2, Invariance, PTL
=============================================================================
