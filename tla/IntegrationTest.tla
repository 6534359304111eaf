--------------------------- MODULE IntegrationTest ---------------------------
(***************************************************************************)
(* avtp-integration-test (src/bin/avtp-integration-test.rs).  Three        *)
(* threads: the talker sends the packets of a WAV file at their pace, the  *)
(* receiver takes frames off the wire and passes those of the stream on,   *)
(* main keeps them in a jitter buffer until their presentation time and    *)
(* compares what it has presented with what was sent.  They talk through   *)
(* three channels, whose ends disappear with their threads.                *)
(*                                                                         *)
(* One time stands for the clocks of both interfaces, which ptp4l keeps    *)
(* together, and for Instant, which counts from the start of the talker.    *)
(***************************************************************************)
EXTENDS AvtpTime, Sequences, SequencesExt

CONSTANTS
    Epoch,       \* PTP time at the start of the talker
    Packets,     \* packets in the WAV file
    Pace,        \* the duration of a packet
    Delay,       \* the playback delay
    Timeout,     \* the deadline beyond the duration of the audio
    SeqRange,    \* 2^8, the sequence numbers
    Lag,         \* bound: how late a packet is sent, and how late it is received
    Prompt,      \* whether an iteration of main takes no time, apart from its sleep
    MaxForeign,  \* bound: frames of other devices
    MaxLost,     \* bound: frames lost on the wire
    MaxCopies,   \* bound: frames delivered once more
    Faults       \* whether threads and their calls may fail

ASSUME TestAssumption ==
    /\ Epoch \in Nat /\ Packets \in Nat /\ Pace \in Nat /\ Delay \in Nat /\ Timeout \in Nat
    /\ SeqRange \in Nat \ {0} /\ Lag \in Nat
    /\ MaxForeign \in Nat /\ MaxLost \in Nat /\ MaxCopies \in Nat
    /\ Prompt \in BOOLEAN /\ Faults \in BOOLEAN

VARIABLES
    now,             \* the time since the start of the talker
    receiver,        \* thread B
    ready,           \* its ready channel
    talker,          \* thread C
    talker_time,     \* the last answer of the talker's PtpSynchronizedClock
    talker_records,  \* what it has sent
    talker_channel,  \* its result channel
    wire,            \* frames between the sockets
    events,          \* the event channel
    main,            \* thread A: the next step of run_test and drain_loop
    jitter_buf,
    talker_result,   \* what drain_loop has taken from the result channel
    current,         \* current_ptp_time
    presented,       \* listener_records, as the frames they were made from
    timed_out,       \* drain_loop ended at its deadline
    verdict,         \* of the program
    disturbances     \* history: foreign frames, losses and copies so far

receiverVars == <<receiver, ready>>
talkerVars == <<talker, talker_time, talker_records, talker_channel>>
mainVars == <<main, jitter_buf, talker_result, current, presented, timed_out, verdict>>
vars == <<now, receiverVars, talkerVars, wire, events, mainVars, disturbances>>

\* index and due, the presentation time that was meant, are not on the wire.  The
\* payload is the index: every packet of the file is different, or it would not
\* matter which one is presented.
\* What the receiver can make of a frame: a packet of the stream, an AVTP packet that
\* process() skips or rejects, and one that recv_next_with cannot parse.  Frames that
\* are not AVTP are not seen at all.
Kinds == {"ours", "foreign", "unparseable"}
NoFrame == [kind |-> "foreign", index |-> 0, seq_num |-> 0, stamp |-> 0, due |-> 0]
Deadline == Packets * Pace + Timeout
MaxTime == Deadline + 1
PtpNow == Epoch + now

Frames == [kind : Kinds, index : Nat, seq_num : 0..(SeqRange - 1),
           stamp : Timestamps, due : Nat]
ReceivedFrames == [frame : Frames, received : Nat]
BufferedFrames == [presentation_time : Int, frame : Frames]

\* The talker's clock is ahead of the time by less than the packets it has sent.
TypeOK ==
    /\ now \in 0..MaxTime
    /\ receiver \in {"open", "receive", "ended"}
    /\ ready \in {"empty", "ok", "error", "gone"}
    /\ talker \in {"absent", "open", "send", "ended"}
    /\ talker_records \in Seq(Frames) /\ Len(talker_records) <= Packets
    /\ talker_time \in (Epoch - 1)..(PtpNow + Len(talker_records) - 1)
    /\ talker_channel \in {"empty", "records", "error", "gone"}
    /\ wire \in Seq(Frames) /\ events \in Seq(ReceivedFrames)
    /\ main \in {"wait", "collect", "poll", "clock", "present", "check", "analyze", "done"}
    /\ jitter_buf \in Seq(BufferedFrames) /\ presented \in Seq(Frames)
    /\ talker_result \in {"none", "records", "error"}
    /\ current \in 0..PtpNow
    /\ timed_out \in BOOLEAN
    /\ verdict \in {"none", "pass", "fail", "error"}
    /\ disturbances \in [foreign : 0..MaxForeign, lost : 0..MaxLost, copies : 0..MaxCopies]

Init ==
    /\ now = 0
    /\ receiver = "open" /\ ready = "empty"
    /\ talker = "absent" /\ talker_time = Epoch - 1
    /\ talker_records = <<>> /\ talker_channel = "empty"
    /\ wire = <<>> /\ events = <<>>
    /\ main = "wait" /\ jitter_buf = <<>> /\ talker_result = "none" /\ current = 0
    /\ presented = <<>> /\ timed_out = FALSE /\ verdict = "none"
    /\ disturbances = [foreign |-> 0, lost |-> 0, copies |-> 0]

-----------------------------------------------------------------------------
(* Thread B, receiver_thread *)

\* A socket that cannot be opened is reported; after any other failure the only
\* report is that ready_tx is dropped.
ReceiverOpens ==
    /\ receiver = "open"
    /\ \/ receiver' = "receive" /\ ready' = "ok"
       \/ Faults /\ receiver' = "ended" /\ ready' \in {"error", "gone"}
    /\ UNCHANGED <<now, talkerVars, wire, events, mainVars, disturbances>>

\* recv_next_with stamps the frame before it parses it; a frame that does not parse
\* ends the thread, one that is not of the stream is skipped.
Receive ==
    /\ receiver = "receive" /\ wire # <<>>
    /\ wire' = Tail(wire)
    /\ LET frame == Head(wire)
       IN  /\ receiver' = IF frame.kind = "unparseable" THEN "ended" ELSE receiver
           /\ events' = IF frame.kind = "ours"
                        THEN Append(events, [frame |-> frame, received |-> PtpNow])
                        ELSE events
    /\ UNCHANGED <<now, ready, talkerVars, mainVars, disturbances>>

ReceiverFails ==
    /\ Faults /\ receiver = "receive"
    /\ receiver' = "ended"
    /\ UNCHANGED <<now, ready, talkerVars, wire, events, mainVars, disturbances>>

-----------------------------------------------------------------------------
(* Thread C, talker_thread *)

Ends(r) == talker' = "ended" /\ talker_channel' = r

TalkerOpens ==
    /\ talker = "open"
    /\ talker' = "send"
    /\ UNCHANGED <<now, receiverVars, talker_time, talker_records, talker_channel,
                   wire, events, mainVars, disturbances>>

Sent == Len(talker_records)
Target == Sent * Pace

\* The talker's clock answers later than before, also when it is late and sends
\* several packets at once.
ClockTime == IF PtpNow > talker_time THEN PtpNow ELSE talker_time + 1

SendPacket ==
    /\ talker = "send" /\ Sent < Packets
    /\ now >= Target
    /\ talker_time' = ClockTime
    /\ LET frame == [kind |-> "ours", index |-> Sent + 1, seq_num |-> Sent % SeqRange,
                     stamp |-> WrappingAdd(ClockTime % Wrap, Delay),
                     due |-> ClockTime + Delay]
       IN  /\ wire' = Append(wire, frame)
           /\ talker_records' = Append(talker_records, frame)
    /\ UNCHANGED <<now, receiverVars, talker, talker_channel, events, mainVars, disturbances>>

TalkerFinishes ==
    /\ talker = "send" /\ Sent = Packets
    /\ Ends("records")
    /\ UNCHANGED <<now, receiverVars, talker_time, talker_records, wire, events, mainVars,
                   disturbances>>

\* An error is the thread's result; a panic drops the channel.  Both can happen
\* before the first packet, between packets, and instead of sending one.
TalkerFails ==
    /\ Faults /\ talker \in {"open", "send"}
    /\ Ends("error") \/ Ends("gone")
    /\ UNCHANGED <<now, receiverVars, talker_time, talker_records, wire, events, mainVars,
                   disturbances>>

-----------------------------------------------------------------------------
(* Thread A, run_test and drain_loop *)

Finish(v) == main' = "done" /\ verdict' = v

\* ready_rx.recv() returns a message, or the receiver is gone.
AwaitsMessage ==
    /\ main = "wait" /\ ready \in {"ok", "error"}
    /\ \/ ready = "ok" /\ main' = "collect" /\ talker' = "open" /\ UNCHANGED verdict
       \/ ready = "error" /\ Finish("error") /\ UNCHANGED talker
    /\ UNCHANGED <<now, receiverVars, talker_time, talker_records, talker_channel, wire, events,
                   jitter_buf, talker_result, current, presented, timed_out, disturbances>>
AwaitReady ==
    /\ main = "wait" /\ ready # "empty"
    /\ \/ ready = "ok" /\ main' = "collect" /\ talker' = "open" /\ UNCHANGED verdict
       \/ ready # "ok" /\ Finish("error") /\ UNCHANGED talker
    /\ UNCHANGED <<now, receiverVars, talker_time, talker_records, talker_channel, wire, events,
                   jitter_buf, talker_result, current, presented, timed_out, disturbances>>

\* while let Ok(..) = event_rx.try_recv(): an empty channel and a receiver that is
\* gone look the same.
Collect ==
    /\ main = "collect" /\ events # <<>>
    /\ events' = Tail(events)
    /\ LET event == Head(events)
       IN  jitter_buf' = Append(jitter_buf,
               [presentation_time |-> ExpandNs(event.frame.stamp, event.received),
                frame |-> event.frame])
    /\ UNCHANGED <<now, receiverVars, talkerVars, wire, main, talker_result, current,
                   presented, timed_out, verdict, disturbances>>

Collected ==
    /\ main = "collect" /\ events = <<>>
    /\ main' = "poll"
    /\ UNCHANGED <<now, receiverVars, talkerVars, wire, events, jitter_buf, talker_result,
                   current, presented, timed_out, verdict, disturbances>>

PollTalker ==
    /\ main = "poll" /\ main' = "clock"
    /\ talker_result' =
           IF talker_result = "none" /\ talker_channel # "empty"
           THEN IF talker_channel = "records" THEN "records" ELSE "error"
           ELSE talker_result
    /\ UNCHANGED <<now, receiverVars, talkerVars, wire, events, jitter_buf, current,
                   presented, timed_out, verdict, disturbances>>

ReadClock ==
    /\ main = "clock"
    /\ \/ main' = "present" /\ current' = PtpNow /\ UNCHANGED verdict
       \/ Faults /\ Finish("error") /\ UNCHANGED current
    /\ UNCHANGED <<now, receiverVars, talkerVars, wire, events, jitter_buf, talker_result,
                   presented, timed_out, disturbances>>

\* The heap's order: Reverse puts the earliest presentation time on top.
LatestFirst(a, b) == a.presentation_time >= b.presentation_time
OnTop(a, b) == a.presentation_time <= b.presentation_time
Tops == {k \in DOMAIN jitter_buf :
            \A l \in DOMAIN jitter_buf : OnTop(jitter_buf[k], jitter_buf[l])}

\* Within a packet of its time is early.
WithinPace(buffered) == current + Pace >= buffered.presentation_time
IsReady(buffered) == current >= buffered.presentation_time

Present ==
    /\ main = "present"
    /\ \E k \in Tops :
           /\ IsReady(jitter_buf[k])
           /\ presented' = Append(presented, jitter_buf[k].frame)
           /\ jitter_buf' = RemoveAt(jitter_buf, k)
    /\ UNCHANGED <<now, receiverVars, talkerVars, wire, events, main, talker_result, current,
                   timed_out, verdict, disturbances>>

\* The clock is read once more for the record, which can fail: drain_loop returns, and the
\* packet is gone with the buffer.
PresentFails ==
    /\ Faults /\ main = "present"
    /\ \E k \in Tops : IsReady(jitter_buf[k])
    /\ Finish("error")
    /\ UNCHANGED <<now, receiverVars, talkerVars, wire, events, jitter_buf, talker_result,
                   current, presented, timed_out, disturbances>>

NoneReady ==
    /\ main = "present"
    /\ \A k \in Tops : ~IsReady(jitter_buf[k])
    /\ main' = "check"
    /\ UNCHANGED <<now, receiverVars, talkerVars, wire, events, jitter_buf, talker_result,
                   current, presented, timed_out, verdict, disturbances>>

\* The end of an iteration: the loop ends, or sleeps for a millisecond.
TalkerDone == talker_result # "none"
Drained == talker_result # "none" /\ jitter_buf = <<>>
Late == now > Deadline
Check ==
    /\ main = "check"
    /\ main' = IF Drained \/ Late THEN "analyze" ELSE "collect"
    /\ timed_out' = (~Drained /\ Late)
    /\ UNCHANGED <<now, receiverVars, talkerVars, wire, events, jitter_buf, talker_result,
                   current, presented, verdict, disturbances>>

\* analyze_and_report: the counts and the pairs of records; zip() stops at the end of the
\* shorter list.  The comparison of the audio, which can only add failures, is left to
\* TestPayload: here it is shown that a pass does not rest on it.
SameWire(sent, received) ==
    sent.seq_num = received.seq_num /\ sent.stamp = received.stamp
Common == 1..(IF Len(presented) < Sent THEN Len(presented) ELSE Sent)
PairsMatch == \A k \in Common : SameWire(talker_records[k], presented[k])
Matches == Len(presented) = Sent /\ \A k \in Common : SameWire(talker_records[k], presented[k])

Report == IF Matches THEN "pass" ELSE "fail"

\* Without records, run_test returns an error.
Analyze ==
    /\ main = "analyze"
    /\ Finish(IF talker_result # "records" THEN "error" ELSE Report)
    /\ UNCHANGED <<now, receiverVars, talkerVars, wire, events, jitter_buf, talker_result,
                   current, presented, timed_out, disturbances>>

-----------------------------------------------------------------------------
(* The wire and the time *)

SendForeign ==
    /\ disturbances.foreign < MaxForeign
    /\ \E kind \in Kinds \ {"ours"} : wire' = Append(wire, [NoFrame EXCEPT !.kind = kind])
    /\ disturbances' = [disturbances EXCEPT !.foreign = @ + 1]
    /\ UNCHANGED <<now, receiverVars, talkerVars, events, mainVars>>

Lose ==
    /\ disturbances.lost < MaxLost
    /\ \E k \in DOMAIN wire : wire[k].kind = "ours" /\ wire' = RemoveAt(wire, k)
    /\ disturbances' = [disturbances EXCEPT !.lost = @ + 1]
    /\ UNCHANGED <<now, receiverVars, talkerVars, events, mainVars>>

Copy ==
    /\ disturbances.copies < MaxCopies
    /\ \E k \in DOMAIN wire : wire[k].kind = "ours" /\ wire' = InsertAt(wire, k, wire[k])
    /\ disturbances' = [disturbances EXCEPT !.copies = @ + 1]
    /\ UNCHANGED <<now, receiverVars, talkerVars, events, mainVars>>

\* Time passes while no packet is late to be sent or to be received, and main is not
\* within an iteration that takes no time.
Tick ==
    /\ main # "wait" /\ now < MaxTime
    /\ Prompt => main = "collect"
    /\ talker \in {"open", "send"} /\ Sent < Packets => now < Target + Lag
    /\ \A k \in DOMAIN wire : wire[k].kind = "ours" => PtpNow < wire[k].due - Delay + Lag
    /\ now' = now + 1
    /\ UNCHANGED <<receiverVars, talkerVars, wire, events, mainVars, disturbances>>

\* The other threads end with the process, when main has returned.
Receiver == ReceiverOpens \/ Receive \/ ReceiverFails
Talker == TalkerOpens \/ SendPacket \/ TalkerFinishes \/ TalkerFails
Main ==
    \/ AwaitReady \/ Collect \/ Collected \/ PollTalker \/ ReadClock
    \/ Present \/ PresentFails \/ NoneReady \/ Check \/ Analyze

Others == Receiver \/ Talker \/ SendForeign \/ Lose \/ Copy \/ Tick

Next == Main \/ (main # "done" /\ Others)

Spec == Init /\ [][Next]_vars

\* Main is scheduled, the receiver's setup ends, and time passes.  Nothing is assumed
\* of the talker, nor of the receiver once it receives.
FairSpec == Spec /\ WF_vars(Main) /\ WF_vars(ReceiverOpens) /\ WF_vars(main # "done" /\ Tick)

-----------------------------------------------------------------------------
(* Properties *)

\* A test that passes has presented every packet of the file, once and in order:
\* the count, the sequence numbers that wrap and the 32-bit timestamps leave no
\* other way, whatever is lost, duplicated and interleaved.
PassIsSound ==
    verdict = "pass" =>
        /\ Len(presented) = Packets
        /\ \A k \in 1..Packets : presented[k].index = k

\* The jitter buffer gives out packets in the order of the stream, also those that
\* arrive after their presentation time.
InOrder ==
    \A k \in 1..(Len(presented) - 1) :
        presented[k].index <= presented[k + 1].index

\* No packet is presented before the time its talker meant, although only 32 bits of
\* that time have travelled and the clock was read at the head of the loop.
NeverEarly == [][presented' # presented => Last(presented').due <= PtpNow]_vars

\* "transmit a WAV file over Ethernet and validate reception" (lines 1-6): when no
\* frame is lost or duplicated, the threads work and the deadline is not reached,
\* the test does not fail.
CompleteReceptionPasses ==
    verdict = "fail" =>
        \/ disturbances.lost > 0 \/ disturbances.copies > 0
        \/ receiver = "ended" \/ timed_out

\* Main ends, also when the talker hangs or panics and when the receiver is gone.
Terminates == <>(main = "done")
=============================================================================
