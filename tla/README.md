# Verification of the acquisition terminal (wdd_proc)

TLA+ models of the acquisition terminal, TLC configurations that check them on small
instances, and TLAPS proofs for every size. All paths below are relative to `src/`.

## The system

The terminal is one C/C++ process on an embedded board. It reads the values another
process (the acquisition board's driver) publishes in System V shared memory, keeps them in
one cache per *parameter point*, and pushes the points that changed to an *upper computer*
over a websocket.

| Part | Source | State | Operations |
|---|---|---|---|
| shared memory | `shm/source/srv_shm.c`, `common/sys_shm.c` | the attached segment | `shm_hardware_init`, `shm_open` |
| hardware | `hardware/srv_hardware.cpp`, `.h`, `dataDef.h` | kind, channel count, `pCache[]` (value, status, time, port, type) | `hw_info_init`, `hw_param_monitor`, `hw_look_cache_status`, `hw_used_cache`, `get_gpio_val` |
| configuration | `config/conf_main.cpp`, `usr_main/source/srv_option.cpp`, `common/sys_file.c` | `dev_main.json`, `usr_main.json` | `conf_main_init`, `option_main -g/-d`, `write_file` |
| report building | `dataflow/ws_dataflow.cpp`, `websocket/source/srv_websocket.cpp` | a static buffer | `ws_format_hardware_data`, `ws_format_uplink_data`, `ws_data_pack_and_send` |
| websocket link | `websocket/source/ws_test_client.c`, `ws_test_rtx.c` | `ws_prot[0]`: `p_user`, `wsi_multi`, `established`, `pthread_state`, `user_state`, `lock_ring` | `run_ws_client`, `protocol_test_callback`, `test_callbake_msgHandle` |
| main | `usr_main/source/srv_main.cpp`, `srv_channel_init.cpp` | `g_running`, `g_table` | `main`, `loop`, signal handlers |
| helpers | `common/cJSON.c`, `stringtable.c`, `sys_time.c`, `log/`, `dataflow/data_convert.c` | - | JSON, console table, time, logging, AD conversion |

Interaction. Three threads run: *main* (the loop), *lws* (`run_ws_client`, in which
libwebsockets makes its callbacks) and *handler* (`test_callbake_msgHandle`). Main and lws
meet in `p_user`, the one buffer that carries reports up and messages down, and in
`wsi_multi`; lws and handler meet in `p_user`, `user_state` and `pthread_state`. Only the
lws callbacks take `lock_ring`. The board writes the segment at any moment. The two files
and the segment outlive the process.

What is hard here: the board writing during a sampling pass; the unlocked buffer; a
connection closed and freed while another thread uses it; joins inside callbacks; the order
of connecting, creating the thread and failing; a report marked as used before it is sent;
start-up with a missing segment or configuration, and kills between steps. The list, line by
line, is `hazards` in PROJECT.json.

What makes each part correct:

* hardware and reports: no change is lost by the dirty flags; a report is made of samples of
  one beat; only changes are reported; a settled value is reported.
* link: no wake-up lost; nothing stale or uninitialised is sent; the lock is released on
  every path; the connection outlives its users; close returns; the link comes back.
* terminal: the upper computer gets whole reports, in order, and in the end the latest
  values.
* start-up: the loop runs only with a segment; a generated configuration wires every point
  to its own channel, and its conversion is a proper one.
* output: the frame's bytes mean the report, whatever the texts are and whichever allocation
  fails; the frame fits its buffer; a beat leaves no memory behind; the table stands.
* cJSON: every block has one owner; the links make no circle; printing and parsing are inverse to each other.

## Modules

| Module | Models | Role |
|---|---|---|
| `Hardware` | kinds, types, names and units, segment layout, `get_gpio_val`, AD conversion | definitions |
| `Acquisition` | main loop: sampling, look, format, send | component |
| `WsLink` | the websocket link with its three threads | component |
| `Monitoring` | what the terminal promises the upper computer | abstract specification |
| `Terminal` | loop and link as one process (two `INSTANCE`s) | composition, implements `Monitoring` |
| `Boot` | start-up, configuration, command line, kills and restarts | component |
| `JsonLinks`, `JsonHeap`, `JsonText` | cJSON: its heap and links; its trees; printing, parsing, minifying | operators |
| `Json` | cJSON under a client that calls it in any order, allocations failing | component |
| `UplinkSizes`, `Uplink` | how long a report and its frame may get | abstract specification |
| `StringTable` | the text table of `stringtable.c` | operators |
| `Console` | the table on the console: signal, clock, rate limit, and the table made of any rows | abstract specification |
| `Output` | a beat's report down to its bytes, and the rows of the table | component, implements `Uplink` and `Console` |
| `AcquisitionProofs`, `WsLinkProofs`, `TerminalProofs`, `BootProofs`, `UplinkProofs`, `StringTableProofs`, `JsonLinksProofs` | theorems about the module of that name | proofs |
| `Extrema` | least and greatest elements of finite sets of numbers | lemmas |
| `MCAcquisition`, `MCWsLink`, `MCTerminal`, `MCBoot`, `MCJson`, `MCOutput` | constants for TLC | model checking |

Definitions ending in `_Something`, placed before a definition of the same stem, are faulty
variants used to test that the properties notice them (`mutants` in PROJECT.json).

### Acquisition

`val`, `status`, `stamped` are `pCache[c]->val`, `->status` and "`param_time` is not empty".
`shm` has only the cells some point reads (`Watched`): no other cell can be observed.
Readings are model values compared as C compares floats: `FloatEq` makes NaN differ from
itself. One action is one iteration of the monitor or format loop, so the board
(`BoardWrite`) can write between any two of them. `Readings` gives what `get_gpio_val` can
leave: the cell; -1.0 for an undefined environment type; any value where the code reads an
uninitialised local or memory outside the segment (`MonitorFault` is the other outcome
there). `dbuf`/`packed` hold the value a point's text is made from; the text itself is
`Output`'s. `packed` and `window` are history.

### WsLink

`p_user` is two cells, front and back. That is enough to see a store half done, to have a
short string (terminator in the back cell) and a long one, and to mix two writers. Cells say
which report or message they belong to. `sprintf`, `memset`, `memmove` and the copy in
`_ws_send_msg` take two steps each; `CopyBackAndWrite` joins the second half of the copy with
`lws_write`, which touches only the local copy. The three stores of the close callback are
one step (`Closed`): a thread that sees the new `wsi_multi` and the old `pthread_state` only
goes round its loop once more. `Connect` and `ConnectFails` are the two outcomes of
`lws_client_connect_via_info`; `wsi` is the connection as libwebsockets sees it. Joining a
thread that was never created and using a freed connection may fault or be survived.
`lock_ring` is free, held or destroyed: when `pthread_create` fails the code destroys it, and
later callbacks lock and unlock what is no mutex any more (`Lock`, `Unlock` leave it
destroyed). A message is long or short (a terminator in the back cell). Variables of a callback
or of the thread (`len`, `sbuf`, `taken`) are reset when they are left, which saves states.

### Terminal

`A == INSTANCE Acquisition WITH p_user <- allocated`, `L == INSTANCE WsLink`. The loop's
`send` step is the link's main thread (`StoreReport`, `FinishSend`). `reports` records what
each stored report has, `delivered`/`upto` what the upper computer has last got: it can use a
frame that is exactly one report. A fault or main's return ends all threads (`Alive`).
`M == INSTANCE Monitoring WITH ...` is the refinement mapping: `cell` is the point's cell,
`recent` the window, `log` the points of `reports`. Two of its assumptions restate what
`Acquisition` assumes of the same constants; the other two are about the bounds.

### Boot

`board`, `dev`, `usr` outlive the process; `Ends` is the end of the process. The
uninitialised local of `drv_init` is a choice between zero and not zero; `free` of its
address aborts or is survived; `shmat`'s -1 is followed and faults. A file is the kind it was
generated for and, for each parameter, the port, the vtype and the two ranges; texts that are
only passed on are left out. `UserEdits` picks a name of `vtype_list`, in any spelling, and
the sensor's output range. Kinds are compared without case, as `strcasecmp` does. `shmget` may
fail although the segment exists. `write_file` has two steps (truncate, write), and `Killed` may come
between any two steps. The Chinese names of `hw_vtype_values` are written in English.
`data_AD_convert` gives a numerator and a denominator: the code's float division is the
quotient, and a denominator of 0 is its infinity or NaN.

### JsonLinks, JsonHeap, JsonText, Json

A heap has nodes (the `cJSON` structures with their links) and a count of the other live
blocks; texts are sequences of bytes. `left` counts down to the one malloc that fails.
`bad` records a use of freed memory or a text longer than its block. The C functions are
operators from a heap to a heap and a result. `JsonLinks` has the steps that make and change
links (`SetFirst`, `suffix_object`, `create_reference`, the middle of `cJSON_DetachItemFromArray` and of
`cJSON_ReplaceItemInArray`); `JsonHeap` the functions that look for an item first or go
through a tree, with the loops over children as recursion along `next`. A number is its count of millionths (what `%f` keeps); `Digits` and `Number` are the
decimal conversions. `Json` is the client: `Creates`, `Adds`, `References`, `Detaches`,
`Deletes`, `Replaces` call every function of the library in any order. It keeps the rules the
library's users must keep (an item has one owner; a tree that is referred to is left alone):
without them any such library fails. `overwritten` counts the names
`cJSON_ReplaceItemInObject` loses.

### UplinkSizes, Uplink, StringTable, Console, Output

`Output` is one beat after another of the main thread, after the buffer was allocated:
`Sample`, `LookIdle` or `Open`, `FormatPoint`/`FormatSkip` for each point, `FormatEnd` (join,
print, delete), `Encode`, `Store`, `Display`/`NoDisplay`, `Wake`. It uses `JsonHeap` and
`JsonText` as they are, so a failing malloc has the effect cJSON gives it: a member without
its name, a text that was lost, or a NULL that is followed (`Crash`). `dbuf` holds the bytes
of the frame, each printed as a `char`, signed as on a PC or unsigned as on the ARM boards;
`Bytes` and `cJSON_Parse` read them back as the upper computer does.
Rows of the table are printed into `str[25]`, which is too short for most of them (a time stamp
alone has 23 characters), so that from the first row that does not fit the process may fault
or go on with other rows (`Junk`). `due`, `size` and `failed` are history.

`Console` has of the beats only their phases (`Heartbeat`) and everything about the table: the
signal (`signal_table_handler`), the clock that is set (`ClockSet`), `ratelimit_connects`
modulo `ULONG`, and `Table`, what `show_hw_table` makes of its rows with the operators of
`StringTable`. `ShowTable` takes any rows, or ends the process; `Output`'s `Signal`, `Tick` and
`Display` are the steps of `Console` with the rest of the state, and with the rows the points
give. `TableIntact` says of any rows what the table code does with them. Its one condition is
that no value is longer than `tmp_value`, the array of `MAX_COLWIDTH + 1` (33) bytes each value is
copied into first: a kks of more bytes runs over it, and nothing can be said of what follows.

`Uplink` says of the same beats only how much each step may add to the text. `Sizes ==
INSTANCE Uplink WITH ...` maps `size`, the length the text is going to have with the points
formatted so far, to its `len`. The two skeleton lengths of `UplinkSizes` count braces, names,
quotes and tabs. `ImplementsParts` is that every behaviour of `Output` is one of `Sizes!Spec`,
which checks those lengths against the texts, and of `ConsoleSpec`.

## Runs

| Run | Instance | Shows |
|---|---|---|
| `acquisition` | 2 current inputs and one wired behind the segment's end, 3 values with NaN, fair | TypeOK, DirtyExact, Fresh, FirstReportComplete, UnstampedFirst, ReportsChange, SettledReported, IInv |
| `wslink` | 2 reports, 2 messages, fair | TypeOK, NoLostWakeup, FrameCurrent, HandlerNeverOutlivesWsi, LockScope, FaultsOnlyAtEnd, IInv; ReportServed, MessageTaken, JoinReturns |
| `wslink_torn` | 2 reports, 1 message | *violated*: FrameIntact |
| `wslink_drop` | 2 reports | *violated*: DropsExactlyOnError |
| `wslink_join` | 1 report, fair | *violated*: CloseReturns |
| `wslink_reconnect` | 1 report, fair | *violated*: Reconnects |
| `terminal` | 2 points, 1 change, fair | LastReportDelivered, ImplementsMonitoring, LastReportArrives |
| `terminal_lost` | 2 points, 1 change, fair | *violated*: SettledDelivered |
| `boot` | boards of 0 and 2 channels: voltage, environment, analogue, unknown | TypeOK, NeverUnattached, GeneratedPointsDistinct, EnvironmentUnconfigured, PickedTypeKept, ConversionProper |
| `boot_ports` | boards of 1 channel | *violated*: PortsInRange |
| `json` | 4 nodes, 2 items held, 5 calls, one of them with any malloc failing | Linked (with TypeOK), OneOwner, BlocksOwned, MemorySafe, RoundTrip, PrintBalanced, ParsedAsMeant |
| `output` | 2 points, one with Chinese texts, 2 readings, a clock that is set, any malloc of a beat failing | TypeOK, FrameMeansReport, NothingLeaks, TableIntact, TableShown, ImplementsParts |

A violated property states what a comment or document of the repository says; PROJECT.json
`findings` quotes the line.

The models have other behaviours worth knowing that no run is spent on: a point that was
never updated is in the first report with an empty time (`NewStatus`: `UnstampedFirst` says when); a report stored while
a message waits in `p_user` is taken for the message (`StoreFront`, `HandlerTake`); the main
thread may use a connection freed since its test, the handler may pass NULL to
`lws_rx_flow_control`, a connection error before the handler exists joins a thread that was
never created (`RequestWritable`, `HandlerFlow`, `JoinUncreated`: `FaultsOnlyAtEnd` says when);
`drv_init`'s uninitialised pointer can carry the terminal into its loop without a segment
(`NewHardware`: `NeverUnattached` excludes the other two ways).

Bounds. Two points are what it takes for one to be sampled before and one after a write, and
for a report to have one and lack the other. Two reports are what it takes for one to
supersede or tear another; two messages are what it takes for one to be lost while another is
taken (one is enough for `wslink_torn`); the safety properties of the link
are proved for every bound. `MaxReports`,
`MaxDown` and `MaxWrites` occur only in guards (`StoreFront`, `ReceiveClearFront`,
`BoardWrites`); in `Terminal` the bound on reports is never met, because every report but
the first needs a change. The runs of the link, of the terminal and of the output allow
deadlock: a fault ends the process; `json`'s because the client stops after `MaxCalls`.

`json`: four nodes are an array or object in another, with two children; five calls build such
a tree and take it apart again, or make an array of one number, refer to it from another array
and delete both. `MaxMallocs` (8) is more than any single call
makes within four nodes, and `Done` ignores a failure that was not met, so every malloc of a
call fails in some behaviour; `MaxFails` is one. The parsed inputs have blanks, a fraction, an
exponent, escapes of one to four bytes, every literal and empty groups.

`output`: two points are enough for one to be due and the other not; a byte above 127, an
empty text and a text of one byte are among theirs. A beat makes less than `MaxMallocs` (60)
mallocs and needs less than `MaxNodes` (20) items; one malloc a beat fails. `Clock` has two
instants and `ULONG` is 16: subtracting the later from the earlier wraps, as it does with the
real width. `DbufSize` is what the longest report of the instance needs and little more.

`MessageTaken` is about a message that stands whole in the buffer with `user_state` up, outside
the window from the handler's log to its last store (`ws_test_rtx.c:104-105`): the handler
takes that very message, unless another message or a report is stored over it, or the
connection ends. In the window the code loses a message together with its flag; that happens in
the run, and without the exclusion the property is violated.

Fairness. Weak fairness of each thread: the kernel schedules them, and no step of theirs
waits on another but the join. `Writeable` is fair because libwebsockets makes a callback it
was asked for while the connection lasts; the same fairness is under `LastReportArrives` and
under the violated liveness properties. Nothing is assumed of the board, the operator, the
network or the upper computer.

## Proofs

`AcquisitionProofs` proves `Spec => []IInv` for every number of points, wiring and set of
readings (assumptions: `ChannelAssumption`, `PointAssumption`, `ValueAssumption`), and from
it TypeOK, DirtyExact, Fresh, FirstReportComplete, UnstampedFirst and the action property ReportsChange.
`Fresh` is not inductive: it speaks of the end of a pass. `IInv` adds that `window` follows
the cells since the beat began (`CellSeen`), that the points passed so far have a value of
the window (`SampleFresh`), that nothing is reported without a buffer (`RefusedBefore`), that
a due point was never reported or was found changed in this very beat (`DueIsChanged`), that
the format loop leaves no passed point due (`FormattedUsed`) and that reports are
all-or-nothing (`AllOrNothing`). One lemma per action.

`WsLinkProofs` proves `Spec => []IInv` for every `MaxReports` and `MaxDown`, and from it
NoLostWakeup, FrameCurrent, HandlerNeverOutlivesWsi, LockScope and FaultsOnlyAtEnd. The strengthening:
`wsi_multi` is set exactly while there is a connection (`WsiKnown`), nothing is stored before
allocation (`Startup`), callbacks come after a first store (`AskedAfterStore`), and what the
buffer holds of reports is of the last complete or the current one (`BufferCurrent`,
`BufferWritten`), which is why a copy made across a store is never stale.

`UplinkProofs` proves `Spec => []FrameFits` of `Uplink` under `RoomForReports` (the longest
report has room in `dbuf`), for every number of points and every length of their texts
(`ReportsFit`). `FrameFits` says nothing of the text while it is built; `IInv` adds that
what has been decided after n points is at most the head and n points (`Format` adds one
point's length on both sides), and that a printed text is at most the longest.

`RoomForReports` is a condition, not a fact of the code: the number of points is what the board
publishes (the clamp to 32, `srv_hardware.cpp:427`, is commented out), and no length is checked.
`PointsBound` says when the program's own arrays meet it, by how many bytes (1 to 6) a byte of a
configured text prints as: up to 35 points where no text needs an escape, 20 where every
byte may be a quote or a backslash, 7 where every byte may be a control character; and the
bound is exact for `RoomForReports`, so it gives a board of 32 points room where no text
needs an escape, and none where every byte may be a quote. `ProgramFits` is what follows for the
reports. The sizes count what `strncpy` does to a text that fills its array: it has no
terminator and runs on into the arrays behind. `p_user` and the send buffer have the same size as `dbuf`. The run `output` shows that
the texts follow `Uplink` (`ImplementsParts`).

`TerminalProofs` proves, for every number of points, every wiring and every bound,
LastReportDelivered and the refinement ImplementsMonitoring. Both components' invariants are
used as they are: the proof modules are instantiated (`AP`, `LP`), and a step of the terminal
is a step or a stutter of each component (`Components`). What the components cannot say is how
they are in step, `JointInv`:

* `ReportsStored`: as many reports as the link has stored, and the loop waits in `send` while
  one is being stored, so the report a frame refers to is complete and does not change;
* `ReportInMaking`: the loop's `packed` is the last value the reports have, except for the
  points of the report being made, which differ from it. Without it `Deliver`'s and `Report`'s
  "other than the last one reported" has nothing to stand on;
* `FramesInOrder`: a report at the front of the buffer is the last, one in the send buffer is
  none older than the one last delivered;
* `DeliveredKept`: the upper computer has the values of the report it last got;
* `Undisturbed`, `LastFrame`: before the first message from above only the main thread writes
  the buffer, and a callback that began after the last store sends the last report.

`JointInv` was model-checked on the runs' instances before it was proved. The refinement goes
action by action (`MonitoringStep`): the top of the loop is `NewBeat`, a write of the board
`Change`, `StoreReport` is `Report(dbuf)`, `WriteFrame` of a usable frame `Deliver(n)`, and
every other step stutters; `MonitoringActions` has one line for each.

`BootProofs` proves `Spec => []IInv` for every set of boards, kinds, channel counts and ranges
(`CountsAssumption`: at most the 32 points of the array; `UserTypesAssumption`: the user picks
a name of the list; `UserRangesAssumption`: lower before upper), and from it all six
invariants of the run. `IInv` says what a generated file is made of: `EntryMade` for an
entry (port by its number, a placeholder or a picked type, the ranges), `FileMade` for a file
and `FilesMade` for the three copies there are (`usr_main.json`, `dev_main.json` and the one
that was loaded); of the points, that they are as `hw_info_init` left them until the file is
loaded (`BeforeHardware`), and then what board and loaded file say (`AfterHardware`). That a
picked type survives needs `get_hw_name_by_type` to undo `get_hw_type_by_name`, up to the
spelling (`NameRoundTrip`): no two rows of the table have the same type.

`Extrema` has what these proofs need of `CHOOSE`n smallest and greatest elements.

`StringTableProofs` proves of the operators of `StringTable`, for every size of table: a cell
has its own pointer and it is in the array (`PointersDistinct`); the cells are disjoint
(`CellsApart`); a table made with an accepted name is `Formed`, written inside its
block with its pointers the cells' places, and has its rules, its name and the line breaks of
its `table_type` (`TableMade`); and setting a value keeps it so,
shows the value padded with blanks, and changes no other byte (`ValueShown`). `s_table_create`
accepts a name of 65 bytes, one more than `md->name` has: the last one becomes `table_type`, the
index into the two line breaks (`table_type`, `LineBreakOf`; `Behind` is what stands behind
them). `TableMade` says that this is the only name with which anything is read out of range,
and only when that byte is neither 0 nor 1. A text of values
(`s_table_valuesetxs_ex`) is a loop along the text, here a recursive function of the
position (`LoopExists` says that such a function is what its equation says, `Upwards` is
induction from 0 to a bound). That the loop puts the values of the text into consecutive cells,
up to the first that is too wide (`ValuesHeld`), needs to be said of every position it can be
at: how many values have been placed, and that those after them are the values of what is left
of the text (`Placing`).

From these lemmas comes what the table of `show_hw_table` is (`TableStands`), for every number
of points (`LengthsAssumption`) and all rows whose values `tmp_value` can hold: captions, then one row
after another, each step keeping the rules and what the cells before it hold (`RulesKept`,
`LineHeld`, `CaptionsHeld`, `RowHeld`, `TableHeld`). With `ConsoleTypeOK`, which makes `shown`
rows of bytes, it is `ConsoleSpec => []TableIntact`; `ConsoleSpec => TableShown` needs of the
clock only that the subtraction is unsigned (`ClockAssumption`): a remainder is never below 0.
The run `output` shows that `Output` is such a console (`ImplementsParts`).

`JsonLinksProofs` proves of the operators of `JsonLinks`, for a heap of any size with any
items on it, that from `DoublyLinked` (links lead to live items, `next` and `prev` are inverse
to each other, a first child has no `prev`) each step leads to `DoublyLinked` and moves what
it is about and nothing else: `ItemMade`, `ReferenceMade`, `ItemFirst`, `ItemSuffixed`,
`ItemUnlinked` (`Skipped`), `ItemRelinked` (`Replaced`). Each link is one assignment to one
field (`SetNext`, `SetPrev`, `SetChild`), and a step is a sequence of them, seen as three
functions (`LinkedAs`). The hypotheses are what the callers see to: what is put into a list is
in none (`Loose`), what is taken out of the front of one is its parent's first child.

`DoublyLinked` does not exclude circles; `NoCircle` does: there are no items each of which
leads, by `next` or `child`, to one of them. References share children, so that the links are
not a tree and an argument by depth or by owner would not do; with `NoCircle` a step is shown to
make no circle by turning the items of a circle after it into those of one before it
(`MadeEnding`, `SuffixEnding`, `UnlinkEnding`, `RelinkEnding`). Adding and replacing need that
what is put in does not lead to where it is put (`Whole`: the set of the items it leads to),
the rule that `Json`'s client keeps by taking it from another tree; detaching needs nothing.
`WalksEnd` is what it is for: printing, duplicating and deleting end.

The run `json` checks that `Heap`, `DoublyLinked` and `NoCircle` hold in every state (in Linked).
That the functions of `JsonHeap` find the items these steps need is recursion along a list, and
stays with TLC.

Only model-checked: liveness (SettledReported, ReportServed, MessageTaken, JoinReturns,
LastReportArrives; out of the prover's reach); and what is stated with recursive operators:
the refinement `ImplementsParts`, `Output`'s TypeOK, FrameMeansReport and NothingLeaks, and the
invariants of `Json`. TableIntact and TableShown are proved of `ConsoleSpec`; that `Output`
implements it is what the run checks.

## Not modelled

* libwebsockets and pthreads are external: calls and callbacks as the code uses them. The
  headers under `websocket/libinc` (some 25000 of the repository's 31000 source lines)
  declare the library and have no code to model; of the program's own lines the models stand
  for nearly all that change state.
* Logging (`log/`): output that nothing reads.
* The test tools (`2.Tool`), stand-ins for the board and the upper computer.
* `srv_hardwar_bak.c` (commented out), `callback2`, `test_thread`, `ws_client_monitor` and the
  lists and rings of the headers (never called or used).
* In cJSON: hooks, `cJSON_GetErrorPtr`, numbers that need an exponent, texts the parser should
  refuse for anything but a missing name, text or allocation.
* Texts with quotes, backslashes or control characters in the run `output`: `json` has their
  escaping, `ProgramFits` what they do to the lengths.
* What is read behind a text's terminator, after an escape cut short or in a comment without an
  end (`cJSON.c:250`, `:1074`): `At` gives a NUL there, and no input of a run goes there.
* Float rounding: readings are model values (`Acquisition`), tenths (`Output`) or integers
  (`Boot`).

## Plan

1. Done: the components above, their composition, the refinements; the proofs of the loop, the
   link, their composition and its refinement, start-up, the lengths, the console table and
   the links of cJSON.
2. Next proofs: what `cJSON_strdup`, `malloc` and `free` keep of the count of blocks, for the
   functions of cJSON that are not recursive; the conversions of `Hardware` for every reading.
