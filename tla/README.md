# TLA+ models of rs-1722

rs-1722 streams PCM audio over Ethernet with IEEE 1722 (AVTP), timed by IEEE
1588 (PTP). This directory models the parts of it that keep state, run
concurrently, or compute with time: TLC checks the models on small instances,
and TLAPS proves the results that matter most for every value of the constants.
Paths below are relative to the repository; a module's comments name the
functions its definitions stand for.

    tlc -workers 2 -config syncd_monitor.cfg PtpSyncd   # a run, see PROJECT.json
    tlapm SyncClockProofs.tla                           # a proof

## The system

| Part | Source | State it keeps | Operations |
|------|--------|----------------|------------|
| PTP-synchronized clock | `src/avtp/synchronizer.rs` | time and instant of the last resync, frequency, phase, last answer | `with_resync_interval`, `elapsed`, `elapsed_no_resync`, `ptp_time` |
| PTP and AVTP time | `src/ptp_phc/time.rs`, `src/avtp/timestamp.rs` | none | conversions between seconds, nanoseconds and 32-bit timestamps, `expand_near` |
| AAF talker, listener | `src/avtp/formats/aaf/stream.rs`, `src/avtp/stream.rs` | sequence number and clock; expected sequence number and filter | `build_packet`; `process` |
| ptp4l instance | `src/ptp_proto/instance.rs` | handle of the child, configuration file | `new`, `start`, `stop`, `snapshot`, `drop` |
| ptp-syncd | `src/bin/ptp-syncd.rs` | two instances, synchronization state, log timestamps, shutdown flag | startup, two polling loops, Ctrl+C, shutdown |
| AVTP integration test | `src/bin/avtp-integration-test.rs` | three threads, three channels, jitter buffer, records of both sides | send, receive, buffer, present, compare |
| Ethernet transport | `src/avtp/transport/ethernet.rs` | socket, buffers | `send`, `recv_next_with` |
| AVTPDU, headers | `src/avtp/avtpdu.rs`, `src/avtp/subtype.rs`, `src/avtp/headers/` | none | encode, decode |
| AAF formats | `src/avtp/formats/aaf/` | none | PCM/AES3 from and into stream headers, validation |
| pmc output | `src/ptp_proto/state.rs` | none (ptp4l's port changes between its answers) | `parse_pmc_output`, `is_synchronized` |
| PHC, ptp-tool | `src/ptp_phc/clock.rs`, `src/bin/ptp-tool.rs` | in the kernel: clock, pin functions, periodic output, external timestamps and their queue | `perout`, `stop-perout`, `extts`, `stop-extts`, `set-pin`; each ioctl in two versions |
| WAV files | `src/audio/wav.rs` | none | `read`, `write`, `from_header_and_data`, streaming preamble |
| Tools of the binaries | `src/bin_utils/` | none | interface lookup, CSV, logging |

How they interact. The talker asks its clock for the time of each packet and
adds the playback delay; the clock reads the PTP hardware clock of its interface
through `ptp_phc`, at most once per resync interval. The hardware clocks are kept
together by ptp4l processes, which ptp-syncd starts and watches: each poll runs
the program pmc against the instance's socket. Packets are encoded, travel as
Ethernet frames that can be lost, duplicated and overtaken by those of other
devices, are decoded, and reach the listener, which counts the gaps in their
sequence numbers. The integration test runs talker and receiver in threads of
their own, expands the 32-bit timestamp of each packet against the clock at its
arrival, keeps packets in a heap until then and compares both ends.

What is hard in it, and the properties that make it correct:

- **The clock** mixes two clocks that drift, one of which may step backwards; its
  reads take time and may fail. Answers must strictly increase whatever happens,
  must follow PTP time within a known error, and steps have to be told from drift.
- **Timestamps** lose all but 32 bits. Near every wrap, with negative times and with
  delays added in wrapping arithmetic, the time that was meant has to come back.
- **Streams** lose, duplicate and reorder; failed calls and filtered frames must
  not disturb the sequence numbers of either side.
- **Child processes** exit whenever they want, including between the checks of one
  snapshot; every failure of a call must leave them either tracked or gone.
- **ptp-syncd** has to notice exits, report them once, and end at Ctrl+C with
  nothing left behind, whichever step of startup or of the loops is going on.
- **pmc** prints ptp4l's answers one after the other, in any order, perhaps not all,
  perhaps damaged, while the port changes state: a snapshot must be whole, a missing
  answer must be told from a wrong one, and "synchronized" must have been true.
- **ptp-tool** shares a device with other runs of itself and asks the kernel twice
  when it is refused; a start computed from a clock that has been read must not have
  passed, and capturing must not stay enabled for nobody.
- **WAV files** are read as chunks of any order and length: what is cut must be
  refused, what is written must read back, and the audio that goes through two byte
  orders and two conversions of its format must come back.
- **Packets** are packed by the bit, in code that is written twice, once per
  direction: what arrives must be what was sent, whatever the frame was padded with,
  and what one end validates the other must accept.
- **The integration test** has three threads that race with each other and with the
  clock: a pass has to mean what it says, a complete reception must pass, and
  main must end when the others hang or fail.

`PROJECT.json` lists every part with what is modelled of it, and every hazard with
the line where it bites and the properties that would catch it.

## The modules

`MonotonicClock` is the promise of the clock in terms of its caller: a call fails
and leaves the highest answer alone, or answers higher. It is the abstract
specification that `SyncClock` implements, and what the talkers of `AafStream` and
`IntegrationTest` use in its place.

`SyncClock` is `PtpSynchronizedClock`. `pll` holds the four fields of the loop,
`last_returned` the field of that name. An operation is one action: `Interpolate`
(`elapsed` and `ptp_time` within the interval), `ResyncAndAnswer` (when a resync is
due; base, frequency, phase and answer change in one step because `&mut self`
excludes other calls), `ResyncFails` (the read fails), `ElapsedNoResync`. The
environment's actions move the local timer and the hardware clock (`Tick`), and step
the latter (`StepPtp`); a read comes `latency` after the call's `Instant::now()`.
The `f64` frequency is a fraction over `FreqOne`, with the code's rounding at the two
places where it returns to integers. Rounding inside `f64` expressions is left out.
`Tracks` speaks of the answers whose base is within the resync interval, which `elapsed`
and `ptp_time` see to; `elapsed_no_resync` can interpolate from an arbitrarily old base.

`AvtpTime` has the conversions as operators, with a record outside `PtpTimes` for a
failed one. They are checked in `PtpTool`, whose hardware clock goes through every
time.

`AafStream` has talkers, one listener and the network. `BuildPacket` is the whole of
`build_packet`, `BuildRejected` its exit after the clock has answered; a failed
clock changes nothing. `Deliver` and `DeliverCopy` hand a frame to `Process`, which
makes the tests of `process` in their order. `index`, `sent`, `lastIndex`, `youngest` and
`lost` are history: the number a packet would have if numbers did not wrap, which packet of
a stream was accepted last, the highest one accepted, and those the network has lost.

`AvtpPdu` and `AafPdu` are operators. A field is the sequence of its bits. Encoding is
written as the code writes it, field after field; decoding reads by a layout, the list
of fields and widths in the order in which the code reads them, so that the two can
disagree. `Shifted`, `Numbers` and `Starts` are recursive functions (a number's bits, the
number of some bits, the place of each field). `Avtpdus` and `PcmAafs` are the values that
the types of the code allow. `Decode` keeps the order of the errors: end of input, unknown subtype, the
panic of the alternative subtypes. In `AafPdu`, `ToAaf` and `FromAaf` are the conversions
between a stream header and an `Aaf`; every rejection is `NoAaf`, as its kind changes
nothing. `AvtpEthernet` puts a sender and a receiver around them. `Transmit` is `send`,
with what each of its failures leaves in the buffer that the next call reuses; `SendAaf`
a talker's way there through `AafPcm::new` and `From<Aaf>`; `SendPacket` any other PDU.
`Receive` and `Skip` are the two ways through the loop of `recv_next_with`. `state`,
`packet` and `source` are history: what the frame on the wire was made of; a frame of another
device (`OtherProtocol`) was made of nothing known. The kinds of
frames that `AafStream` and `IntegrationTest` tell apart are the outcomes of `Decode` and
`ToAaf` here.

`PtpInstance` has one action per call and outcome, except for `snapshot`, which is
three: the first check, the run of pmc, and the second check after a failure of pmc.
Between them ptp4l may exit (`ChildExits`) and other instances move. Children are
numbered; `process` is the handle, `alive` the truth. `StartFails` has the failure of the
log threads with both ends of the `kill` whose result `start` ignores: a child that goes on
running after it is in `unkilled`, like one that `stop` could not kill.

`PmcOutput` is `parse_pmc_output` as operators. A line is an abstract record (noise, a
header, a field); of a value it matters whether its type parses it. `Reader`
is the state of the line loop after each line and `TakeBlocks` that of the loop over blocks,
both recursive functions; `ParsePmcOutput` makes the checks in the code's order, so that it
tells which error is returned when there are several.

`PtpQueries` extends `PtpInstance` and `PmcOutput` and takes the run of pmc inside
`snapshot` apart: `Answer` prints one block (complete, without a field, with a value that
does not parse, of another kind, a second time), `PortMoves` changes the port's state
between answers, and pmc ends in `PmcBreaks`, `PmcRefuses` or `PmcParsed`, which hands
`text` to the parser. It implements `PtpInstance`, where these are `PmcFails` and
`PmcAnswers`: `PtpSyncd`, which is built on `PtpInstance`, needs no more detail.

`PtpSyncd` extends `PtpInstance` with `pc`, which walks `main`, the loops and the
shutdown with the destructors in their order. A failure of startup goes through `fatal`,
which exits without destructors. Of `MonitorState` it keeps the synchronization state
and whether the other timestamps are `Some`; durations and wording are left out.

`IntegrationTest` extends `AvtpTime`. Each thread's loop is cut at every point where
another thread could be seen: main's iteration is `Collect`..`Collected`,
`PollTalker`, `ReadClock`, `Present`..`NoneReady`, `Check`. The three channels carry
the distinction the code makes of them: empty, a message, gone. The jitter buffer
gives out any element that is on top of the heap. `PresentFails` is the second reading of
the clock, after a packet has left the buffer. The bytes of the payload are the
packet's index, and `Analyze` compares counts, sequence numbers and timestamps only: the
comparison of the audio can but add failures, so that what is shown of a pass does not rest
on it, and `TestPayload` makes it. One clock stands for the hardware clocks of both interfaces and
for `Instant`; their differences are `SyncClock`'s subject.

`PtpTool` extends `AvtpTime`. Runs of ptp-tool are cut at their system calls; `tool[t].at`
is the call that comes next. `PeroutRequest2` and `PeroutRequest1` are the two versions
of one request, and the second is tried after any failure of the first; `ExttsRequest2`
and `ExttsRequest1` likewise. What the program asks for and what it does next is its own (`PeroutAsked`,
`Granted`, `LeavesOn`); `kernel` says what the kernel knows (the second version,
phases), and only what the kernel does with a request is external (`StartsOutput`,
`SetsCapture`). `Tick` advances the clock by
a nanosecond. One pin and one channel stand for all.

`WavFile` is the reader and the writer on sequences of bytes: `Scan` walks the chunks,
`ReadWav` returns a file's content or the error that comes first, `WriteWav` its bytes.
`ProductsFit` says when the two products of `into_wav_chunk` do not overflow.

`TestPayload` extends `AvtpEthernet` and `WavFile`: the audio of the integration test from
`load_wav` (`LoadWav`) through the talker's loop (`SendChunk`: swap, `AafPcm::new`, encode),
the segment, decoding and the listener's swap (`PresentChunk`) to `received.wav` and the
comparison (`Finish`). At the stage "bench" the segment's ends are used freely, as in
`AvtpEthernet`.

The modules ending in `Proofs` hold the theorems; the `MC` modules hold symmetry and
values that a `.cfg` cannot.

## The runs

| Run | Question | Bounds |
|-----|----------|--------|
| `clock` | Do answers strictly increase, does the clock implement `MonotonicClock`, do answers follow PTP time, does the loop reset after every step and only after steps, with all operations, failed reads, and durations and absolute times near their limits? | 1.0 is 8, clocks differ by up to 1 in 8, interval 16, 36 units of local time (two resyncs), latency 0 or 2, one step in {-19, -3, 30}, `Duration::MAX` 38, last `PtpTime` 44, so that all overflow errors happen |
| `phc_tool` | Is a periodic output always asked for with a start ahead, who keeps timestamps enabled; does a stamp expand to the time that was meant, do all ways to a time and its order agree? | two runs at a time, one of which captures one event and the other does everything else, on every kind of kernel; a second of 10 ns, which is also the longest suspension; the clock from -1 s to 2 s, through negative times and four windows of 8 |
| `ethernet_frames` | Is what arrives what was sent, is a cut frame refused, do both ends validate alike; does the audio of a WAV file come back, is a file cut anywhere refused, does a rewritten file read the same? | `u16::MAX` is 8 for payloads; 34 files: 22 formats, chunks around and between the obligatory ones, odd lengths, missing and doubled chunks, bad magic numbers, an announced size of 2^30, a frame too wide for the alignment; one sample per packet, up to six packets, each of which can be padded or lost; PCM in five formats, 0 to 2 channels, five bit depths, four lengths of which one is too long; stream packets with their reserved bits set, of other subtypes, versions, formats and rates, two control and two alternative packets, frames of other protocols; cut at every length |
| `stream_network` | Are the losses reported with packets that arrive in order exactly the losses? | two streams of one device, 5 and 1 packets with 3 sequence numbers (wraps, and gaps of more than a range), one foreign frame of any kind, 3 frames in flight, loss, copies, reordering |
| `stream_doc_any` | Does a listener for all streams report losses only when something was lost? No. | two streams, FIFO |
| `stream_doc_copy` | Were as many packets lost as are reported, however they arrive? No. | the same streams, copies, no reordering |
| `instance_lifecycle` | Does a child ever escape, is what a snapshot says true, is it whole, was "synchronized" true; does the run of pmc implement `PtpInstance`? | one instance, two spawns, one failed `try_wait`; two states of the port, up to four answers, of which a field may be missing (`portState`) or junk (`gmPresent`) |
| `instance_doc_missing` | Does a snapshot without one of the answers come back with what is there? No. | as `instance_lifecycle` |
| `syncd_monitor` | Does ptp-syncd notice exits, report them once, clean up, end at Ctrl+C? | one spawn per instance (it never restarts), one failed `try_wait` each, Ctrl+C at any step |
| `syncd_doc_orphan` | Are resources cleaned up however the program ends? No. | the same |
| `test_threads` | Does a pass mean what it says, are packets in order and never early, does main end? | two packets, two sequence numbers, a loss, a copy, any failure of any thread, any scheduling |
| `test_timely` | Does a test that receives everything pass, when the threads keep up? | three packets, pace 2, delay 5, lag 1, a foreign frame, any failure; timestamps of 18, so that the delay is within half a window, and which wrap during the test |

Why the bounds are enough. The clock's arithmetic depends on ratios, and the scaled
constants keep the code's order of sizes: the threshold of a jump lies above what a
clamped frequency can drift in an interval and below what it can drift in a few, and the
range of the phase is below it. Two resyncs show every transition of the loop's state,
which depends on one earlier base only. Headers have the code's widths, and equal widths
carry different bits; each format meets each rule of its validation on both sides. A
stream needs more packets than sequence numbers to show wrap-around, and one frame of
each class to show what a class may disturb. Four answers of pmc are one more than a
snapshot needs: enough for one that is missing, doubled or foreign in each place.
Instances do not touch each other's state, so one of them shows what an instance can do;
`syncd_monitor` has two. A periodic output starts at a whole second, and the suspension
of a whole second is the longest with which the start stays ahead. In `test_threads`, a
loss and a copy together are the least that leaves the counts equal. Counters are
bounded by the constants whose comments begin with "bound"; the guards that use them are
`MaxSpawns`, `MaxFaults`, `MaxPackets`, `MaxForeign`, `MaxFlight`, `MaxLength`,
`MaxLost`, `MaxCopies`, `MaxLocal`, `MaxSteps`, `MaxBlocks`, `MaxCount`, `MaxEvents` and
`MaxSuspension`; the sets `Missable` and `Fragile` bound what can be wrong with an
answer.

Deadlock is checked where the system always has a next step within the bounds
(`clock`); the others stop when a program has exited or a bound is reached.

### Fairness

`PtpSyncd!FairSpec`: weak fairness of main. The thread is runnable except inside
pmc, which gives up on a ptp4l that does not answer, and inside `kill`/`wait` of a
child that has been killed. Nothing is assumed of ptp4l, which need not exit, nor of
Ctrl+C.

`IntegrationTest!FairSpec`: weak fairness of main, of the receiver's setup and of
time. Nothing is assumed of the talker, which may hang, nor of the receiver once it
has reported, as it may block in `recv` for ever. The setup needs it: `run_test`
blocks in `ready_rx.recv()` until the receiver thread sends or ends.

`test_timely` also fixes timing: an iteration of main takes no time apart from its
sleep, and no packet is sent or received more than `Lag` late. Its claim needs
`Delay > Pace + 2 * Lag` and `(Packets - 1) * Pace > 2 * Lag`: then a packet is in the
buffer from before the talker's result can be seen until the last packet has been
collected. A file of a single packet
is outside the claim (see below).

### Where code and documentation differ

Checked by a violation run: losses reported by a listener for several streams
(`stream_doc_any`); a frame that arrives twice, which is reported as the loss of nearly a
whole range (`stream_doc_copy`: 255 packets with the code's `u8`), though
`src/avtp/formats/aaf/stream.rs:64` says "Number of packets lost before this one"; a missing
dataset, which is an error of the snapshot (`instance_doc_missing`), though
`src/ptp_proto/state.rs:175` and 224 say that it is represented as `None`; and a ptp4l that
outlives a failed startup (`syncd_doc_orphan`). `PROJECT.json` quotes the lines.

Met while modelling, and not given a run of their own: the test's main loop ends as soon as
it has the talker's result and its buffer is empty (`src/bin/avtp-integration-test.rs:643`),
so a file of one packet can fail the test although everything is received; with
`Packets = 1` in `test_timely.cfg` TLC finds that behaviour, as a violation of
`CompleteReceptionPasses`. `expand_near` recovers a time
within half a window of the reference (`StampRecovered`), while its comment
(`src/avtp/timestamp.rs:51`) is content with a whole one; `AlternativeHeader::encode`
relies on a decoder that returns at least one byte (`src/avtp/headers/alternative.rs:139`)
and the decoder panics; a comment in `Subtype` has 0xFD reserved
(`src/avtp/subtype.rs:107`) and the next line gives it to MAAP; the comment on
`frequency_adjustment` (`src/avtp/synchronizer.rs:74`) has the direction reversed; a
clock that stays idle for longer than drift takes to reach
`LARGE_JUMP_THRESHOLD_NS` resets its loop at the next call, while lines 108-109 say it
stays synchronized; `expand_near` panics for references in the first or last half
window of `PtpTime` (`src/avtp/timestamp.rs:55`); `PtpInstance::start` on a running instance forgets its child
(`src/ptp_proto/instance.rs:208`, the constant `StartsTwice`).

pmc: a snapshot is of "a specific point in time" (`src/ptp_proto/state.rs:172`), but its three datasets are answers to three requests, between which
the port may change (`SynchronizedWasTrue` is what remains: it was a slave at some time
during the call).

ptp-tool and the PHC: every failure of the second version of an ioctl leads to the first
(`src/ptp_phc/clock.rs:371`), which knows no phase, so a phase the kernel refuses becomes an
absolute start, in the past, and `Ok`, while the documentation
(`src/bin/ptp-tool.rs:74`, `src/ptp_phc/clock.rs:205`) speaks of a phase;
`enable_periodic_output_ns` accepts negative periods, which its comment (line 239) calls an
error; a run that fails between enabling timestamps and the end leaves them enabled; a
reader blocks for ever when another run disables its channel, and takes events of channels
it has not enabled.

WAV files and the test: a format extension that was read is kept while the format tag is
recomputed (`src/audio/wav.rs:260`), so that a short extension under the extensible tag
gives a file the reader refuses, and an extension of 24 bytes or more of another encoding,
as of ADPCM, is written under the extensible tag, where it reads as a different format
(`TagIsKept` excludes both); a file cut within the id of
a chunk behind the data reads as complete; the listener swaps by the valid bits, the
talker by the container's (`src/bin/avtp-integration-test.rs:628` and 521), so that a
file whose valid bits do not fill their container fails the test though nothing is lost,
and less than eight valid bits panic.

## The proofs

`PROJECT.json` lists the theorems. They rest on the named assumptions of the
modules, which state the types of the constants (and, for ptp-syncd, that there are two
instances), and, where a statement says so, on `~StartsTwice`, `OneStream`, `Window`,
`Timely`, `Rates`, `Punctual` or `MaxLength = 65535`. They hold without the bounds: every counter's limit is a
constant about which only `\in Nat` is assumed, except that `MaxSuspension` is at most a
second, on which `StartIsAhead` depends, and that a WAV file is shorter than 2^30 bytes, so that
the sizes of what is written back fit the `u32` they are written in.

`SyncClockProofs`. `StrictlyMonotonic` speaks of the highest duration a caller has
received, the code compares with `last_returned`, which also counts an answer that
`ptp_time` then refused. The invariant is `TypeOK /\ ReceivedBelowLast`:
`highest <= last_returned`. Each operation either leaves both alone, or sets
`last_returned` to something greater, and `highest` to the same or not at all
(`FinishPreserves`, from `ElapsedAnswer`). `TypeCorrect` shows that clamping keeps
frequency and phase within their limits through any sequence of resyncs, whatever the
hardware clock does; `Refinement` that every step is one of `MonotonicClock` or a
stutter.

The other three theorems assume `Rates` (between steps the hardware clock runs at most
`FreqDev` fast or slow, the range of the clamped frequency) and `Punctual` (some latency is
the longest). Their invariant is `Follows`: since the loop's base the hardware clock has moved,
steps apart, by the span of the local timer, the latency of one read, and the drift of that
span. The phase error of a resync is then the unseen step give or take the drift and two
latencies (`ErrorIsStep`), whatever frequency and phase the loop has reached, which gives
`JumpsAreCaught` and `ResetsHaveACause`; and an interpolation is off by the phase, one latency
and the drift (`InterpolationIsNear`, with the rounding), which gives `AnswersTrack`, for the
answers from a base within the interval, whichever operation gives them. Two latencies are needed, and the attempt to prove it with one is how that
was found: the constructor reads PTP time before the local timer and a resync after it, so
that at the first resync both reads count in the same direction (with one latency, a step of
17 in `clock` would be missed). A step of -19 there is the least beyond the threshold and
the slack of a timely resync.

`PtpToolProofs` begins with the times, over a few lemmas on division and remainders with
an unknown divisor: `expand_near` returns any time less than half a window from the reference,
for every window; wrapping `u64` arithmetic followed by the cut to 32 bits is the
remainder by 2^32, negative seconds included; together (`StampRecovery`) a packet's
stamp comes back for every delay.

Of the tool itself, `TypeCorrect` includes that a run never reads more events than it was
asked for. `AskedInTime`: a start two whole seconds on from a clock that has been read
is ahead for as long as at most a second has passed; the argument is that the reading
rounds down by less than a second (the invariant is `Timed`: the start is the one
computed from the reading, whose age is bounded). `NothingLeftEnabled` needs that a run
which still reads or has not disabled yet is one of extts. `StampsRecovered` and
`ConversionsAgree` carry the theorems on times over to every time of the clock.

`IntegrationTestProofs` proves the test's safety for any file, network and scheduling.
A packet is followed through its stages (wire, event channel, jitter buffer, presented):
everything everywhere is a record of the talker, unchanged (`GenuineEverywhere`), and
records are numbered and their times grow (`Recorded`). With `Window` (playback delay and
lateness within half a window of timestamps), the receiver's expansion gives every packet
the time it was meant for (`InTime`), so the heap's top is the first packet in it
(`TopIsFirst`), and what is at a later stage is never behind what is at an earlier one
(`Ordered`). From this follow `InOrder`, `NeverEarly` and, since the sequence numbers of
neighbours differ and an increasing map of an interval to itself is the identity,
`PassIsSound`. For files of at most one round of sequence numbers `PassIsSound` needs no
assumption on the times.

`CompleteReceptionDoesNotFail` is the converse, for a test that is `Timely`: main is prompt,
`Delay > Pace + 2 * Lag`, and `(Packets - 1) * Pace > 2 * Lag` unless the file is empty. Its
invariant `OnTime` says that as long as nothing has been lost or copied the packets stand in
one row: presented, in the buffer, in the event channel, on the wire, not yet sent (`InRow`,
`RestOnWire`); that each left at its time (`Paced`, `Stamped`); that what has come in since main emptied the
channel is not yet late (`Fresh`); and that no packet is presented before it is due
(`PresentedDue`). `Complete` is where these meet: main leaves its loop before the deadline
only when all packets of the row have been presented, and then both sides match. A file of one packet
violates the second inequality, and the property.

`AafStreamProofs`. That a reported loss is exact has two halves. The numbers on both sides
and on the wire are the history's, modulo their range (`Numbered`, `Expecting`), so the
gap is a difference of remainders: the distance from the packet accepted last
(`ReportsDistance`). And every packet that was built and is younger than all that were
accepted is on its way or lost (`AccountedFor`), which a delivery, a copy and a loss each
keep for their own reason; so with a packet that arrives in order, behind which nothing is
still on its way, the distance is a set of lost packets (`BetweenIsLost`). Copies and late
packets before it need no extra case. With a packet that is itself a copy or late the
code counts a distance that is no loss (`stream_doc_copy`), and nothing is claimed.
`OneStream` says that the filter accepts one stream; `ExactAccepts` shows it of the `Exact`
filter, and `stream_doc_any` what happens without it.

`PtpInstanceProofs`. `Tracked` (no child runs that is not tracked) is not inductive:
a dropped instance could be thought to track a child again. `Lifetime` adds that a
snapshot is in progress on live instances only and that a dropped instance tracks
nothing. `VerdictIsTrue` is an action property from the same invariant.

`PtpQueriesProofs`. Every step of `PtpQueries` is one of `PtpInstance` or leaves its
variables alone (`QueriesRefine`): what is printed decides only which of the answers that
`PtpInstance` allows is given. `QueriesKeepOwnership` takes `Tracked` over.

The module then proves the parser right for every text (`ParserIsRight`), which takes
induction over the lines and the blocks. The library's induction theorems cannot be
instantiated here, but induction can be said of a set: a set that holds 0, and n + 1 with n,
holds every number (`UpTo`, from the well-foundedness of `<`). With the set of the n up to
which the claim holds this proves what `Reader` is after n lines, that the blocks it leaves
lie between neighbouring headers and cover every field (so that a header's block
is complete exactly when the text between them is), and which datasets `TakeBlocks` has
after n blocks. Two invariants tie the text to ptp4l: `QueryTypes`, and `Remembers` (a line
that says SLAVE was printed while `wasSlave` held). `AnswersAreWhole` and
`SynchronizedIsTrue` are action properties from them.

`TestPayloadProofs` proves the transport for every packet, payload, padding and cut. From
the bottom: a number is the number of its bits and a byte sequence that of its bits (by
`UpTo` again, and `Recursion`, which gives a recursive function on an interval its values); a
layout reads the slice between two places (`StreamRead`, `ControlRead`); an encoding is a
sequence of slices, one per field (`StreamWritten`, `ControlWritten`). Decoding then inverts encoding
for any bits that begin with a packet's encoding (`StreamBack`, `ControlBack`; padding is
what comes after), and fails on every shorter beginning, because the length field asks for
more (`StreamCut`, `ControlCut`). The inductive invariant is `EthernetInv`: a frame on the
wire begins with its packet's frame, or is a beginning of it (`OnTheWire`), comes from an
accepted `Aaf` if one is remembered (`FromTalker`), and what was received last is the packet
(`ToListener`). `ReceivedIsSent` and `CutIsRefused` are action properties from it.
`BuiltIsAccepted` adds that a valid `Aaf` survives the header and its packed bits
(`TalkerBack`), `SentOnUnchanged` that whatever is accepted is again a valid `Aaf`
(`AcceptedBack`); the latter assumes `MaxLength = 65535`, since a received payload is only
bounded by its 16-bit length field, while a run can take a smaller limit when no frame has a
longer payload.

The module then turns to WAV files. A scan is a function that calls itself at the next
chunk; since it only looks behind the place it is called at, induction over the length of what
is left shows that its definition has a solution (`ScanSteps`), and that the chunks it
returns stand in a row from where it began to where it ended (`Walks`, `ScanAlong`). A file
is read exactly when it is `Readable`, and then as `ValueRead` (`WavRead`). The
scan of a beginning of a file is a beginning of the file's scan (`CutScan`), so a cut file
that can be read has the same preamble and samples (`CutValue`), which is
`CutFileIsRefusedAlways`; its invariant is only that the file is one of those given.

`RewritingKeepsAlways` goes the other way. The bytes of a written file lie where the sizes
of its chunks put them (`Lies`), so the scan passes the chunks in front of the format,
between it and the samples and behind them as one row; sorting the row parts it around
the one format and the one data chunk (`WritesBack`, from `WritingBack`); and the format
written from a header reads as that header, be it plain or extensible, with the extension
it was read with or with one made up for it. There are two exceptions: `TagIsKept`, and
formats whose byte rate exceeds `u32` or whose alignment exceeds `u16` (`ProductsFit`). There a
build with overflow checks panics while it writes; one without writes the low bytes, as
`FormatChunk` does. The headers that the integration test can send are none of these.

`AudioComesBackAlways` puts all of this together. Its invariant `TestInv` is `EthernetInv`
with `TalkInv`: while the talker sends and nothing has been lost, what was presented, what
is on its way (`OnItsWay`: the payload of the frame on the wire, swapped by the listener's
word) and the rest are, one after the other, the audio of the file. Sending keeps it because
a round divides the rest (`TakenAndRest`), because every frame that is taken is on the wire
(`TalkerSends`) and because two swaps by the same word of 2, 3 or 4 bytes cancel
(`SwapBack`), whether or not the chunk ends with a whole word; presenting keeps it because the
`Aaf` that arrives is the one that was sent (`TalkerArrives`, from `TalkerBack` and
`EthernetInv`). At the end nothing is on its way and nothing is left, and `SavedReads`, a case
of `WritingBack`, reads `received.wav`. Without the assumption that the valid bits fill the
container the two words differ and nothing is claimed.

`PtpSyncdProofs`. `UsesInstances`: every behaviour of ptp-syncd is one of
`PtpInstance`, which makes the theorems above available to it. `SyncdInv` adds what the
program counter implies: a snapshot waits only for a tracked process
(`QueryTracked`), its result is still true of the process when the handler runs
(`HandlerKnows`), what is down was down after startup and is not tracked
(`DownKnown`), and the order of the destructors (`Destroyed`). From it follow
`DownMeansGone`, `DownIsFinal` and `ReturnCleansUp`.

## What is only model-checked, and what is not modelled

Every safety property that a passing run checks is also a theorem. All liveness
(`ExitIsNoticed`, `InterruptEnds`, `Terminates`) stays with TLC: TLAPS does not prove
liveness under fairness, nor does it reason about `ENABLED`. The violation runs are
counterexamples, to which there is nothing to prove.

Induction over numbers is possible in the form given above, for recursive functions; no module
declares a `RECURSIVE` operator, about which nothing can be proved.

Not modelled: `write_stream` of WAV files, which no program calls; WAV files too long for the
`u32` of their sizes; the panic of a build with overflow checks at the products of
`into_wav_chunk`; commands of ptp-tool that print one answer (caps, pins, time), and
looking up the PHC of an interface. Several pins and channels are one in `PtpTool`, so
that conflicts between them are left out. Not to be modelled: the layout of kernel
structures, interface lookup, CSV and logging, which are input and output without
behaviour of their own, and the empty programs avtp-talker and avtp-listener. A control
header whose length field differs from its payload is not sent: the code asks this of its
caller and nothing in it builds one.

## Plan

Done: clock, time, streams, encodings, instances with the answers of pmc, ptp-syncd, the
hardware clock with ptp-tool, WAV files, and the integration test in its threads and in
its payload. What would come next:

1. A composition of `AafStream` with `AafPdu` whose `Outcome` is computed from frames, and
   of `TestPayload` with `IntegrationTest`; the playback delay in `u32`.
2. A composition of `SyncClock`, `AafStream` and `IntegrationTest`'s buffer with two
   hardware clocks that differ, bounding how early or late a packet is presented.
3. Several pins and channels in `PtpTool`.
