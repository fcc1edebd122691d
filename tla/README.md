# Formal model of vehicle_can_decoder

TLA+ modules that model the CAN decoder node and the offline bag converter of
this repository, TLC configurations that check them on small instances, and
TLAPS proofs of the properties that matter most for every instance. Paths below
are relative to the root of the repository.

## 1. The system

| Component | State | Operations | Calls / is called by |
| --- | --- | --- | --- |
| `VehicleCanNode` (`src/vehicle_can_node.cpp`) | parameters, lookup tables, publishers, counters, per-frame buffers | constructor steps, `on_can_frame`/`process_frame`, `on_diagnostics_timer`, `publish_schema` | owns all of the following but the tools |
| `TimeoutMonitor` (`src/timeout_monitor.cpp`) | map signal -> (last instant, status) | `register_signal`, `signal_received`, `get_status`, `check_timeouts`, `timed_out_signals` | fed by `process_frame`, read by the diagnostics timer |
| `SignalRouter` (`src/signal_router.cpp`) | CAN id -> domain, domain -> topic, aliases | `configure`, `domain_for_id`, `topic_for_domain`, `apply_alias` | read by `resolve_signal` and `setup_publishers` |
| `resolve_signal` (`signal_pipeline.hpp`) | none | the function | node and converter |
| `DbcDecoder` (`src/dbc_decoder.cpp`) | network, id -> message map, `loaded_` | `load`, `decode`, moves | node and converter |
| `SignalTransformer` (`src/signal_transformer.cpp`) | signal -> compiled expression | `configure`, `transform`, moves | node and converter |
| node process (`src/main.cpp`) | none | construct, spin, exit | single-threaded executor |
| `mcap_converter`, batch (`tools/mcap_converter`, `main`) | files on disk | the loop over files, temporary bags | calls `convert_one`; shares paths with other runs |
| `mcap_converter`, one bag (`convert_one`) | input and output bag, `groups`, counters | pass through, decode, group, write | uses decoder, router, transformer, CDR buffer |
| `mcap_converter`, configuration (`load_yaml`, `build_config`) | merged key -> leaf map | flatten, merge, look up | the node's parameters, read by other code |
| `mcap_converter`, CDR (`cdr::Buffer`) | bytes | aligned writes | called per group by `convert_one` |
| `CanReader` (`src/can_reader.cpp`) | descriptor, last errno, name | `open`, `read_frame`, `close`, moves | not used by the node, which receives frames over ROS |

**Interaction.** The node has one thread. After construction `rclcpp::spin`
runs one callback at a time: the CAN subscription (a keep-last queue of depth 5,
`SensorDataQoS`), the diagnostics timer and the schema timer. Callbacks do not
overlap, but the clock moves and frames arrive *during* them, and the instant of
each signal is read in the middle of `process_frame`. The converter is a
separate process that shares only code with the node, and shares files with its
own earlier runs and with other runs at the same time. `CanReader` shares the
descriptor numbers of its process with everything else in it.

**What is hard.** Frames that wait, are lost or are processed late; a timer that
is the only thing that can notice a dead signal; unsigned and truncated time;
buffers reused and moved from between frames; a transform that throws in the
middle of a frame; tables in which now the first and now the last duplicate
wins; in the converter, failures and crashes between any two file-system
steps, with their leftovers seen by the next run or by one in progress; objects
that are loaded again, fail midway, or are moved from while they own a
descriptor or a network. `PROJECT.json` lists these under `hazards`, each at its
line.

**What makes each part correct.**

- Monitor: an entry changes only as the documented life cycle allows; a check
  finds exactly the signals whose silence, over the integers, exceeds the
  timeout, although the arithmetic is unsigned.
- Node, time: a diagnostic names the silent signals and no others; a dead signal
  does not look alive for longer than a bound; a silent signal is reported.
- Node, data: what is published for a frame is what its bytes and the parameters
  say, with nothing left over from another frame; whatever is published can be
  resolved from the schema a subscriber has.
- Converter, files: exit status 0 means complete outputs; converted data is never
  destroyed; a finished output is never touched.
- Converter, data: the output bag is the input bag translated message by message;
  the parameters mean what the file says, in whatever shape it is written; the
  bytes are those a CDR reader expects.
- Decoder, transformer and reader objects: nothing is used, leaked or answered
  from after it is gone, whatever failed and however the object was moved.

## 2. Modules

| Module | Stands for |
| --- | --- |
| `SignalFreshness` | abstract specification: signals are fresh or lost; hearing and checking |
| `TimeoutMonitor` | the class, with instants modulo `TimeModulus`; `Freshness` is the refinement mapping |
| `SignalRouter`, `SignalPipeline`, `DbcDecoder`, `SignalTransformer` | the configured objects, which the node only reads, as records and functions |
| `NodeParameters` | `load_parameters` and `setup_publishers` as functions of the parameters |
| `VehicleCanNode` | the node and its process: extends the modules above, adds time, queue, timers |
| `FrameMeaning` | reference: what a CAN message means, read off the parameters and not off the tables built from them |
| `NodeProperties` | the properties of the node, and statements of the documentation it does not keep |
| `DecoderObjects`, `TransformerObject` | the life of `DbcDecoder` and `SignalTransformer` objects |
| `CanReader` | the socket wrapper, beside the other users of the descriptor table |
| `McapConverter` | the converter and the file system, over several runs |
| `ConcurrentConverters` | several runs in batch mode at the same time |
| `ConverterConfig` | `build_config`, and what `main` and `convert_one` make of it |
| `BagConversion` | one conversion from end to end: `main` loads the configuration, `convert_one` takes the bag message by message |
| `YamlConfig` | `load_yaml`, the merge of files, the look-ups, as operators |
| `YamlDocuments` | the ways to write a parameter set down, for the instance |
| `CdrBuffer` | `cdr::Buffer` and `serialize_signal_group`, as operators, with a reader |
| `MC*` | instances for TLC (`MCFrames`: frames and parameter sets shared by node and converter; `MCLibrary`: monitor, reader, decoders and transformers) |
| `FrameLemmas` | lemmas about the tables of `NodeParameters` and the definitions of `FrameMeaning` |
| `VehicleCanNodeProofs`, `NodeDataProofs` | proofs about the monitor and the node: types, refinement and time; data |
| `LibraryProofs` | proofs about readers, decoders and transformers |
| `McapConverterProofs`, `ConcurrentConvertersProofs` | proofs about the converter's runs, one at a time and overlapping |
| `CdrBufferProofs`, `BagConversionProofs` | proofs about the bytes of a group, and about the conversion of a bag |

`VehicleCanNode` and `BagConversion` extend the same modules for routing, decoding
and transforming, as the two programs share that code, and both are checked
against `FrameMeaning`.

Variables and actions keep the names of the members and functions they model
(`frame_signals_`, `on_can_frame`, `bag_tmp`). Definitions whose comment starts
with "Mutant:" are variants of the definition that follows them, with a plausible
bug; nothing uses them, they are there to be put in its place to see that the
properties notice.

### The node

`pc` is where the process is. Construction is one action per step of the
constructor (`load_parameters`, `setup_publishers`, `FirstSchema`,
`create_subscription`, the two timers): frames can arrive as soon as the
subscription exists, before the timers do. A frame is processed by
`on_can_frame` (count, look up, clear the buffers, decode), one `process_signal`
or `transform_error` per decoded signal, and `publish_groups`; between them only
`Tick` and `Receive` can happen, which is what the single thread allows.
`on_diagnostics_timer` and `on_schema_timer` run between frames. `Shutdown` is
the return of `spin`, `failed` the exit after a start-up exception.

Variables that are not in the code: `clock` (steady clock, in ticks of
`1/TicksPerMs` milliseconds), `rx_queue`, `diag_due` and `schema_due` (rmw and
rcl), `groups_out`, `promoted_out`, `diagnostic`, `schema_sample` (what has been
published), and two histories, `heard` (the tick at which a signal was last
handled) and `failed` (the places in the frame whose transform threw), which no
action reads.

Abstractions:

- A payload has `NBytes` bytes of a small set, and `Physical` gives the value of
  a signal: dbcppp's bit extraction is external. exprtk is too: `Eval`,
  `Compiles` and `MayThrow`. An expression that may throw does so or not at each
  evaluation. `Float32` is the cast of a double.
- The compound name `"CAN<id>_<name>"` is the parameter `CompoundKey`.
- The rate is an integer number of Hz and the republish interval an integer
  number of ms; `DiagnosticsPeriod` divides as `duration_cast` does.
- `create_publisher` refusing a malformed topic name, middleware discovery and
  the reliability of the publishers' side are left out. Counters are unbounded
  integers: 64-bit counters of frames do not overflow.
- A timer's next call is rcl's: the next multiple of the period not already past.

Time advances in `Tick`, which is not allowed to take a due timer further than
`MaxDelay` past its due time. This is an assumption on the executor and the
machine, that a ready timer is served within `MaxDelay` ticks, which covers the
longest callback too; it is a parameter, and the latency property carries it.

### The converter

The state is what is on disk at the two paths of each file, `out` and
`bag_tmp` (`<out>.__bag`): nothing, a bag being written or left so, a finished
bag with one data file or with another number of them, a directory without its
data file. Each system call of the batch loop that changes the disk is an action
of its own and `Crash` may come between any two; an exception nothing catches
(`std::terminate`) is a crash as well. `UserRemoves` happens between runs.
Assumed: one run at a time (`ConcurrentConverters` has several), the same input for
all runs, the output directory outside the input. Bags are opaque here; what is
in them is `BagConversion`.

`ConcurrentConverters` has the batch loop again, for runs that overlap: between the
test for a path and its use another run may have made or removed it. `bag_tmp` and
`out` say whose data is at a path, `written` who has written all of it. A conversion
goes on writing to its open file even when that has been moved or unlinked. `remove_all`
takes two steps, the contents and then the directory (`Discard` and `DiscardDir`,
`RemoveBag` and `RemoveDir`), between which other runs act; if a file has appeared
in the directory meanwhile, the removal throws and the run ends (`Crash`). `Crash`
may come at any point. Left out: the copy after a failed rename (in `McapConverter`)
and the temporary ament prefixes, whose names contain the process id.

### The conversion of a bag

`LoadConfig` loads one file of `--config`; `Configure` is the part of `main` that builds
and checks the objects. Then one action per pass of a loop of `convert_one`:
`pass_through`, `read_frame` (count, decode, clear `groups`), `process_signal` or
`transform_error`, `write_group` for each domain in any order, as the hash map has none,
and `io_error` for any other exception of the loop. A topic that exists is not created
again. Messages have a topic, a time and data; a frame has `NBytes` bytes, and data that
is no frame (`Malformed`) always ends in `io_error`. A CAN id in the configuration is
cast to 32 bits unchecked (`AsCanId`), where the node refuses it. A run starts from one
of `Inputs`: a parameter set (`settings`), the documents that write it down (`configs`)
and a bag. Only `configs` is read by the program; `settings` is what the properties
compare with, except for its DBC file, which stands for the argument `--dbc`.

`YamlConfig`: a document is a tree of maps, lists and scalars; a key is the sequence
of its segments, so that dotted and nested keys differ in the document and agree once
flattened. The recursion of `flatten_yaml` is unrolled: `Opened` opens the maps of one level
in place, and `Entries` does so `MaxNesting` times, a bound on the documents that
`NestingAssumption` states. `Documents` is every shape of a parameter set (nested, dotted, with
and without the namespace, whole or in two files in either order, after a file with
other settings, defaults spelled out or left out, elements in the lists that do not
convert). A file that is missing or does not parse is `Broken`. `CdrBuffer`: a group is
serialized to a sequence of bytes; the base of a byte is a parameter. The reader in that
module is written from the rules of CDR (offsets counted from the end of the header) and
not from the writer, which counts from its start; `OutputFaithful` compares the messages
of the output as that reader reads them (`AsRead`) with what the input means (`Meant`).

### The objects

`CanReader`: `kernel` says what each descriptor number refers to; numbers are handed
out lowest first, also to the rest of the process (`ForeignOpen`, `ForeignClose`).
`open` is one action per system call (`open`, `create_socket`, `bind_socket`,
`set_nonblocking`), so that numbers change hands in between. An object is used by
one thread at a time, as the class has no lock. `read_frame` receives a frame of
`Sent` in the layout of `struct can_frame`, nothing, or an error; `last_read` is a
history of it. Timestamps, which no property is about, are left out, and so is the
optional `setsockopt`.

`DecoderObjects`: a network is the number of the load that made it, and a map knows
which network it points into. The three ways `load` fails are told apart by what they
leave: no file or a parse error (all is left), or no network (the old one is gone).
A load into a moved-from object would dereference null; its guard excludes it.

`TransformerObject`: `configure` is a step that clears and one `compile` per entry,
in any order; `transform` is two steps, storing the argument in `x` and evaluating.
`Unused` and `CallsApart` are what `signal_transformer.hpp` asks of callers: no call
beside a `configure` or a move of the object, no two for one signal. Within that,
calls of different signals overlap; the header also says that neither function is
thread-safe, and nothing in the repository calls them from several threads, so this is
more than the program relies on.

## 3. Checks

| Run | Checks | Instance |
| --- | --- | --- |
| `library_classes` | `LifeCycle`, `ImplementsFreshness` | 2 signals, clock of 6 instants, thresholds 0, 2, 5 |
| | `ReaderTypeOK`, `FrameSane`, `OwnedOnce`, `OpenIsReady`, `ErrorTruthful`, `OthersUntouched` | 2 readers, 3 descriptors, 3 names, 3 frames |
| | `DecoderTypeOK`, `NoDangling`, `DecodesLastLoad` | 2 decoders, 2 files, 4 loads |
| | `TransformerTypeOK`, `ConfiguredOnly`, `ReturnsOwn` | 2 transformers, 2 threads, 2 signals, 3 configurations |
| `node_data` | `TypeOK`, `GroupsFaithful`, `PromotedFaithful`, `SchemaResolves`, `DataInv` | 14 parameter sets, 3 frames of 4 kinds, clock stopped |
| `node_timing` | `DiagnosticExact`, `DetectionLatency`, `TimingInv` | 2 parameter sets, 3 frames, 9 ticks of half a millisecond |
| `node_liveness` | `SilenceReported` | 1 parameter set, 2 frames, 9 ticks |
| `mcap_converter` | `TypeOK`, `SuccessIsComplete`, `ConverterInv`, `ConvertedNotLost`, `OutputKept` | single file, batch of three, empty batch; 3 runs |
| `concurrent_converters` | `TypeOK`, `BagsOwned`, `OutAppearsComplete`, `SuccessIsComplete`, `LossReported` | 2 runs, 3 files |
| `bag_conversion` | `TypeOK`, `ReadsBack`, `OutputFaithful`, `SummaryTrue`, `TypesKept`, `ConversionInv` | 10 parameter sets with all bags of up to 3 messages of 7 kinds; 5 parameter sets in every shape of 1 or 2 files with a bag of one frame; a broken file |
| `decode_errors`, `table_index`, `empty_schema`, `out_appears` | one statement of the documentation each, violated | see 5 |

Why the bounds are enough:

- *Library classes.* The four classes share no state, so `MCLibrary` explores the sum of
  their state spaces and not the product: in a behaviour one of them acts while the others
  are as they began. 330560 distinct states up to the symmetry of readers, transformers
  and threads, which are interchangeable; the liveness run has no symmetry.
- *Monitor.* Two signals show that an operation on one leaves the other alone.
  The thresholds include 0, a middle value and the largest instant, and instants
  come in any order, so every case of the unsigned difference occurs. There is
  no bound on the number of calls. The type invariant of the monitor (`MonitorTypeOK`) is
  checked as a part of the node's `TypeOK`.
- *Node, data.* Time plays no part in what is published, so the clock stands
  still. Three frames let a frame follow one that left its domains, or others, in
  the buffers. The DBC file has a duplicate message and a signal name shared by
  two messages. The parameter sets have: a CAN id of two domains, a signal of two
  schema domains, compound and bare aliases of the same signal, an alias to
  itself, a repeated table entry, a full table (4 ids stand for 65535), a unit
  that is not in the table, a domain called like the sentinel, expressions that
  may throw on either or both signals of a frame, a promoted signal with and
  without a domain, and one parameter set for each reason to refuse start-up.
  Frames are exact, short, over-long and unknown. 8596 distinct states.
- *Node, time.* Half-millisecond ticks make truncation visible. A period longer
  than the timeout and one shorter occur (in the second, 1500 Hz, a single tick
  and so not a multiple of a millisecond); nine ticks leave room for several
  timer calls, a timeout and a recovery. The queue of depth one overflows. About
  1.7 million distinct states, within a minute or two.
- *Node, liveness.* One signal, heard twice. The clock is bounded, so a receipt
  so late that its timeout lies beyond the bound is not required to be reported
  (`Detectable`); receipts in the first ticks are.
- *Converter.* Three files show the order of the loop and let an error strike in its
  middle; three runs let a crashed run be followed by one that finds its leftovers and
  one after the user has removed some of them.
- *Concurrent runs.* Three files let two runs meet at the same file, or at different
  ones, with an error before, at or after it; 5863 distinct states. With two runs an
  output is always complete and a lost bag always reported; with three all of the
  properties but `TypeOK` fail (see 5).
- *Bags.* A frame between two others, or between messages that pass through, shows
  what is left over and what is lost. The kinds are an exact, a short, an over-long and
  an unknown frame, data that is no frame, a topic of its own, and one that is also the
  topic of a domain. The parameter sets add to the node's: a schema domain without
  signals, a legacy domain with an empty topic, a CAN id that wraps around, and each
  reason to refuse. 62226 distinct states. Bags that differ only in a configuration file's
  shape do not multiply: the shapes are explored with the bag of one frame.
- *CDR.* Two-bit bytes leave all the arithmetic and make 32-bit numbers 8 bits wide;
  the least and greatest stamps occur, and names of 0 to 5 characters, so of every
  length modulo 4.
- *Reader.* Two readers and a foreign file compete for three numbers, so that a
  closed number comes back as somebody else's; one name is cut to that of a present
  interface, one is of none. Two standard and four extended ids have the flags above them.
- *Objects.* Two objects are what a move needs. Four loads let each of two decoders
  be loaded twice. Two threads are what a disturbed call needs.

`CHECK_DEADLOCK` is on everywhere: a stopped process is an explicit stutter
(`Terminated`, `Returned`, `AllEnded`), a resting user `Rest`. Only `library_classes`
uses symmetry, and has no liveness property.

**Fairness** (`FairSpec`). The process is scheduled, so each of its steps that
stays enabled is taken (`WF`), and time passes. For `on_can_frame` and the two
timers the executor justifies weak fairness: each wait collects all ready
entities and serves them all before it waits again, so none is passed over for
ever. Nothing is assumed of frames (`Receive`) nor of `Shutdown`. Fairness of the
two kinds of passes over a signal is joint: a transform is not obliged to throw.

## 4. Proofs

All are checked by TLAPS to the last leaf, for all values of the constants that
satisfy the named assumptions (`TimeAssumption`, `ParameterAssumption`,
`NodeAssumption`, `DataAssumption`, `ConverterAssumption`, `ReaderAssumption`,
`ObjectsAssumption`, `FilesAssumption`, `YamlAssumption`, `NestingAssumption`,
`BufferAssumption`, `CanIdAssumption`, `BagAssumption`, `SettingsAssumption`,
`CodeAssumption`): types of the
parameters, of the functions that stand for libraries, and bounds that are
natural numbers. TLC evaluates the assumptions on its instances. Some have
content: a CAN id fits its format and the number of extended ids is a multiple of
that of standard ones (29 and 11 bits); the files of a batch are distinct; the
timeouts of accepted parameters fit the instants of the monitor
(a positive `int64_t` cast to `uint64_t`), and `MaxClock < TimeModulus`, so the
process ends before its clock has made 2^64 ticks (`steady_clock` counts
nanoseconds in an `int64_t`); ids of a table fit 16 bits and the seconds, nanoseconds,
lengths and counts that are serialized fit 32; a bag has only messages of its
topics; different domain names have different character codes.

| Theorem | Says |
| --- | --- |
| `MonitorTypeCorrect`, `MonitorLifeCycle` | type correctness and life cycle of the monitor |
| `MonitorRefinesFreshness` | the monitor implements `SignalFreshness` |
| `TypeCorrect` | the node is well typed and runs only with accepted parameters |
| `NodeDrivesMonitor`, `NodeImplementsFreshness` | the node uses the monitor within its ranges, so it implements `SignalFreshness` too |
| `TimingInvariant`, `DiagnosticsExact`, `LatencyBound` | `TimingInv`, and `DiagnosticExact` and `DetectionLatency` from it |
| `DataCorrect` | `DataInv`: what the middle of a frame has collected |
| `GroupsAreFaithful`, `PromotedAreFaithful`, `SchemaAlwaysResolves` | `GroupsFaithful`, `PromotedFaithful`, `SchemaResolves` |
| `ConverterTypeCorrect`, `ConverterInvariant`, `SuccessComplete`, `NothingConvertedIsLost`, `OutputsKept` | the properties of the converter's runs |
| `ConcurrentTypeCorrect`, `ReportedOutputsThere` | any number of overlapping runs: types, and an output for every input of a run that reports success |
| `BagsStayOwned`, `OutputsAppearComplete`, `ConcurrentSuccessComplete`, `LossesReported` | two overlapping runs: `BagsOwned`, `OutAppearsComplete`, `SuccessIsComplete`, `LossReported` |
| `ReaderTypeCorrect`, `SocketsOwnedOnce`, `OpenReadersReady`, `ErrorsTruthful`, `OtherDescriptorsUntouched`, `FramesSane` | the properties of readers |
| `DecoderTypeCorrect`, `DecodersNeverDangle`, `LastLoadDecodes` | type correctness, `NoDangling`, `DecodesLastLoad` |
| `TransformerTypeCorrect`, `ConfigureReplaces`, `TransformsReturnOwn` | `TransformerTypeOK`, `ConfiguredOnly`, `ReturnsOwn` |
| `RoundTrip` | what a CDR reader finds in the bytes of a group is the group |
| `ConversionTypeOK` | the conversion of a bag is well typed |
| `ConversionInvariant` | `ConversionInv`, if the configuration reads back |
| `ConversionTypesKept`, `ConversionSummaryTrue`, `ConversionFaithful` | `TypesKept`, `SummaryTrue`, `OutputFaithful`, if the configuration reads back |

**Monitor.** The key is `UnsignedDifference`: between two instants in order the
difference modulo `TimeModulus` is the difference. `Expired` tests the order
first, so on well-typed entries it is `now - last > timeout` over the integers
(`ExpiredIsOverdue`), for instants in any order.

**Node, types.** The first lemmas on the node in `VehicleCanNodeProofs`, and the first of
`FrameLemmas`, give what routing, tables, transform and decode
return; `TypeCorrect` needs `members = LoadedMembers(params)` as a part of the
invariant, because the types of everything computed later come from the checks of
`load_parameters`.

**Node, time.** `DetectionLatency` is not inductive: it does not say when the next
check comes. `TimingInv` adds three things. `ScheduleInv`: the timer is never due
later than a period from now, nor more than `MaxDelay` ago. `MonitorInv`: an entry
has the truncated instant of the last receipt, and it is either still OK, in
which case the next check comes less than a period after its deadline (the first
tick at which a check would find it late), or timed out with the deadline passed.
`DiagnosticInv`: the last diagnostic names exactly the signals whose deadline had
passed by then, among those not handled since. A receipt sets the deadline ahead of the
clock; a check moves `diag_due` to the next period only for signals whose deadline
is still ahead (`NextCallBound`); a tick stops at `diag_due + MaxDelay`. The two
properties then follow by arithmetic on truncation (`DeadlineReached`,
`DeadlineOfReceipt`).

**Node, data.** The properties speak of the end of a frame and of tables that were built
at start-up, so they are not inductive. `DataInv` adds two things. `FrameInv`: in the
middle of a frame the buffers, the firehose list and the promoted values are what
`FrameMeaning` says of the same frame with the signals still to come left out
(`Skipped`: those, and the ones whose transform threw). `StartUpInv`: the publishers and
the schema sample are those of the parameters as soon as they exist. A step of the loop
takes one place out of `Skipped`. `InOrderAppend` and `ListedAppend` say that a list over
a set of places grows by one element when a place above all others is added, and
`NextPlace`, `NothingListed` and `AppendNotEmpty` carry that to the lists of `FrameMeaning`;
a transform that throws leaves the set as it was. That the tables give
for a signal what the parameters mean is `ResolvesName` (aliases, compound before bare),
`SchemaDomain`, `LegacyDomain` and `ResolvesDomain` (which of several domains wins),
`ExpressionOf`, `IdIsLastPlace` and `MessageSignals` (which of several messages). Each follows
from what a loop that writes a map in order leaves in it (`WriteInOrderGives`, the last write
wins) or from the least and greatest places of a list (`LeastExists`, `MaxInSet`), and
needs what `load_parameters` has checked: names of aliases and transforms occur once,
and tables fit 16 bits. `SchemaResolves` follows from `DataInv` without a step of its
own: an id that is published is the place of the last entry with its name
(`IdIsAPlace`), ids of two names differ, and the table is sorted by id (`TableRow`).

**Converter.** `ConverterInv` says what the steps of the loop have left at the two
paths of the file at hand, that the files before it are done, and what a run that
is about to exit with 0 has achieved. `EarlierKept` carries "done" across the
steps, as the paths of two files differ. `ConvertedNotLost` and `OutputKept` are
action properties: the invariant tells what `Discard`, `Rename` and `RemoveBag`
find where they write.

**Reader.** `OwnedOnce` needs to know where an `open` under way stands: `OpeningInv` says
at which step the object holds a descriptor, to what it is bound by then, and that it
reports no error yet. Together (`ReaderInv`) the four parts are inductive. Ownership
makes `OthersUntouched` a consequence: the number a step closes is `fd_` of its own
object, and no other object has it. `FramesSane` needs no more than its own state; its
content is arithmetic (`IdOfRaw`): the flags are multiples of the number of extended
ids, so that the remainder by the size of the format is the id (`DivMod`).

**Overlapping runs.** `ProgressInv` holds for any number of runs: a run has seen an
output for each file it is done with and has converted nothing else but the file at hand,
and `OutsGrow` says that no step takes an output away. Completeness is a matter of whose
bag is renamed. `BagsOwned` says that the bag at the path a run works on is its own, or
emptied or gone, and then every other run has `Failed`: a run that fails to create a bag
removes the one that is there, but does nothing after that. With two runs nobody is left
to make another bag at the path, so what is renamed is one's own and written. With three
somebody is, and the properties fail; `AtMostTwo` is therefore a hypothesis of these
theorems.

What the clean-up of the one run can cost the other is `LossReported`: a result that has
been converted is neither lost in silence nor lost twice. `LossKnown`, the part that is
inductive, says that wherever a result is gone every other run has failed: the only step
that can take the last copy is the one that empties a bag after a failure (`StepLoss`);
the removals after a rename leave the output, and `DiscardDir` finds the bag empty. That
the run which has lost its result does not report success follows without induction
(`LostAtHand`): every earlier file has an output, so the lost one is the file at hand, and
with status 0 no file is at hand.

**Objects.** For decoders, `NoDangling` and the type invariant are inductive together: a
map points into the network it was built from, and every step that replaces one of
them sets `loaded_` accordingly. `LoadInv` adds that the map of a loaded object is
`build_map` of the file its last load read, and `MapOfFile` what that answers.
For transformers, the invariant says that every
entry of a map is of the last argument of `configure`, compiled (`EntriesOwn`), which
entries are still to come (`Progress`), and that the variable `x` of an expression in
evaluation is the argument of the one call that evaluates it (`CallOwn`), for which
`CallsApart` is needed.

**CDR.** Writer and reader count from different places, the start and the end of the
header. That they agree is arithmetic on alignment: the header is four bytes, a multiple of
every alignment used, so a value the writer has padded to `a` begins where the reader
looks (`Begin`). What has been written stays where it is, as every write
appends; so each `write_*` has a lemma which says that the
bytes so far are kept and that the reader finds the value at the next place. For the
signals the invariant of the two loops is over their number: after `k` of
them the reader stands at the end of what the first `k` writes have left. `RoundTrip` puts the
fields together.

**Conversion of a bag.** The hypothesis of the theorems is `[]ReadsBack`: the documents at
hand are read as the parameter set they write down. It ties `settings`, with which the
properties compare, to `configs`, which the program reads; without it the two are
unrelated. `TypeOK` needs no such thing.
`OutputFaithful` is not inductive: it speaks of what was read before this message only
as far as it has been written, and not of `cfg`, `groups` or `todo`. `ConversionInv` adds them. `ConfigInv`: `cfg` is
`build_config` of `settings`, which the checks of `main` accept. `TopicsInv`: topics exist before
messages. `Counted`: the counters are those of the messages read and
written; its steps are about the cardinality of a set that grows by its next index.
`FrameInv`: at a frame, `groups` is what `FrameMeaning` says with the places
still to come left out, as in the node. `WrittenInv`: between two
messages the output is the translation of all so far; while the groups of a frame are
written, it is that and the groups that have been. `write_group` adds one
message that was not there before: groups of two domains differ when read, as the codes of
the names do; and the set of all groups is the translation of the frame by `RoundTrip`
and by what `FrameLemmas` says of tables and domains. That elements of one name agree is
part of `ConfigInv` because the file has one entry per name, which is where it
differs from the node, whose parameters were checked. `OutputFaithful` follows from `ConversionInv` as long
as nothing has failed; a step that fails may leave `unwritten` groups behind, and changes
neither the output nor what it is compared with, so that it keeps the property itself.

**Only model-checked.** `SilenceReported` (liveness under fairness and `ENABLED`
are out of the prover's reach; `LatencyBound` is the safety part, proved).
`ReadsBack`: that every supported way of writing a parameter set down is read as that set. It
is about `YamlDocuments`, which generates the ways by a recursive operator and exists
for the instance only; for documents in general it does not hold, and is
the hypothesis above.
The properties of `ConcurrentConverters` that need `AtMostTwo` are false for three
runs.

## 5. Where documentation and code disagree

Each of these is a run with a counterexample; `findings` quotes the lines.

- `decode_errors` counts signals whose transform threw, not frames.
- `signal_table[name_id - 1]` is not the row of the signal when
  `signal_id_names` repeats a name (`table_index`). (`SchemaResolves` states what does
  hold: the row with that `id` has its name.)
- A non-empty `schema_domain_names` does not enable schema mode when its domains
  list no signals (`empty_schema`).
- When a converted bag cannot be renamed, its output appears while it grows, and
  stays truncated if the run dies (`out_appears`).

Noticed while modelling, and visible in the modules, but with no run of their own:

- The firehose does not have every decoded signal: those outside every domain are
  left out (`vehicle_can_node.cpp:362`).
- A signal can be reported as timed out while messages with it arrive in time
  but wait in the queue (`vehicle_can_node.cpp:417`).
- The converter writes per-domain topics where `schema_publish_per_domain` is false
  (`mcap_converter.cpp:412`).
- A run that loses the race for a temporary bag removes the winner's, even a converted
  one; the message for the same situation found earlier leaves that to the user
  (`mcap_converter.cpp:696`). `LossReported` states the limits of the damage.
- With three runs at the same time, an output can appear while it is still written.
- `has_error()` of a reader that was closed after an error stays true after a read that
  met none (`can_reader.cpp:116`).
- A name longer than `IFNAMSIZ - 1` opens another interface than the named one
  (`can_reader.cpp:69`).
- The unit of a signal configured without an expression is lost
  (`signal_transformer.cpp:97`).

In comments and documents: `vehicle_can_node.hpp:83` says that signals not in the schema
are not forwarded to any topic, while `docs/configuration.md:168` has promoted ones
published whatever their domain, as the code does and `PromotedFaithful` says; `VehicleSchema.msg` says the schema is published once, and
it is republished; `timeout_monitor.hpp:29` offers `register_signal` for
`check_timeouts()` coverage of signals that may never arrive, but a check skips
entries in `STATUS_INITIAL`; `docs/mcap_conversion.md` says an
existing `--output` is an error, which batch mode does not apply to the directory;
a compound alias to itself does not stop the bare alias from applying.

## 6. Not modelled, and plan

Not modelled, and why:

- the bit extraction of dbcppp, the arithmetic of exprtk, the YAML parser, rosbag2's
  storage, DDS and discovery: external, parameters of the modules that use them;
- logging and the text of the summary; the launch file and the vehicle configurations
  (data); the contents of the temporary ament prefix (constant files);
- `parse_args`, a loop over words with no state of its own, and the directory listing
  of `find_bag_files`, whose result is the constant `files`. An output directory inside
  the input directory, where one run's outputs are inputs of the next, is therefore
  not explored;
- parameters under the name of another node, or under a wildcard, which `load_yaml`
  flattens to keys nothing looks up, so that all defaults apply;
- what only the layout of can_msgs tells apart: error and remote frames are frames to
  node and converter alike;
- timestamps of `CanReader`; `SignalRouter::all_known_ids` and its warnings.

Everything else that keeps state or decides something in the code is in a module, and
every safety property that a passing run checks is proved, but `ReadsBack`. What could be
added: a grammar of the configuration files as an abstract specification, from which
`ReadsBack` would follow for all of them; it needs induction over documents. The
properties of overlapping runs that hold for two are open to a fix of the code rather than
to a proof.
