----------------------------- MODULE TestPayload -----------------------------
(***************************************************************************)
(* The way of the audio through avtp-integration-test: from a WAV file     *)
(* (load_wav), through the talker's setup and its packets, over the        *)
(* segment of AvtpEthernet, to what the listener presents and saves as     *)
(* received.wav.  IntegrationTest models the threads and the times of the  *)
(* same program with packets that have no content.                         *)
(*                                                                         *)
(* At the stage "bench" the ends of the segment are used freely.           *)
(***************************************************************************)
EXTENDS AvtpEthernet, WavFile

CONSTANTS
    Files,             \* the WAV files a test may be given
    TalkerStream,      \* the fields of the talker's stream, see AafStream
    SamplesPerPacket

\* What is read and written back has sizes below 2^31.
ASSUME PayloadAssumption ==
    /\ \A f \in Files : f \in Seq(Byte) /\ Len(f) < 2^30
    /\ TalkerStream \in GenericStreamData
    /\ SamplesPerPacket \in Nat \ {0}

VARIABLES
    stage,             \* how far the test has come
    file,              \* the bytes of the WAV file
    wav,               \* what load_wav keeps of it: header and pcm_le
    rest,              \* of wav.pcm_le, not sent yet
    received_pcm_le,
    saved,             \* the bytes of received.wav
    lost               \* history: a frame was lost

testVars == <<stage, file, wav, rest, received_pcm_le, saved, lost>>
allVars == <<vars, testVars>>

NoWav == [header |-> "none", pcm_le |-> <<>>]

TestInit ==
    /\ Init
    /\ \/ stage = "bench" /\ file = <<>>
       \/ stage = "load" /\ file \in Files
    /\ wav = NoWav /\ rest = <<>> /\ received_pcm_le = <<>> /\ saved = <<>> /\ lost = FALSE

Bench == stage = "bench" /\ Next /\ UNCHANGED testVars

-----------------------------------------------------------------------------
(* main and the talker's setup *)

\* PcmFormat::from_wav_header; User stands for an encoding that is not supported.
FromWavHeader(header) ==
    CASE header.audio_format.kind = "Pcm" /\ header.bits_per_sample = 16 -> 4
      [] header.audio_format.kind = "Pcm" /\ header.bits_per_sample = 24 -> 3
      [] header.audio_format.kind = "Pcm" /\ header.bits_per_sample = 32 -> 2
      [] header.audio_format.kind = "IeeeFloat" /\ header.bits_per_sample = 32 -> Float32Bit
      [] OTHER -> User

\* SampleRate::from_hz, the values in the order of RatesInOrder, then 24 kHz.
Hertz == <<8000, 16000, 32000, 44100, 48000, 88200, 96000, 176400, 192000, 24000>>
FromHz(rate) == CHOOSE i \in DOMAIN Hertz : Hertz[i] = rate

\* What run_talker and AafPcmTalker::new demand of a header; u10::new panics.
Supported(header) ==
    /\ header.valid_bits_per_sample \in 1..255
    /\ FromWavHeader(header) # User
    /\ \E i \in DOMAIN Hertz : Hertz[i] = header.sample_rate
    /\ header.channels \in 1..1023

\* load_wav, and the beginning of run_talker: the test fails when the file cannot be
\* read or sent.
LoadWav ==
    /\ stage = "load"
    /\ \E read \in {ReadWav(file)} :
           IF read.outcome = "Wav" /\ Supported(read.wav.header)
           THEN /\ wav' = [header |-> read.wav.header, pcm_le |-> read.wav.data]
                /\ rest' = read.wav.data /\ stage' = "talk"
           ELSE stage' = "failed" /\ UNCHANGED <<wav, rest>>
    /\ UNCHANGED <<vars, file, received_pcm_le, saved, lost>>

-----------------------------------------------------------------------------
(* The talker *)

\* swap_byte_order: whole words are reversed, a remainder stays as it is.
SwapByteOrder(bytes, word) ==
    [i \in DOMAIN bytes |->
        LET start == ((i - 1) \div word) * word
        IN  IF start + word <= Len(bytes) THEN bytes[2 * start + word - i + 1]
            ELSE bytes[i]]

AlignedBytes(header) == IF header.bits_per_sample = 16 THEN 2 ELSE 4
ContainerBytes(header) == header.bits_per_sample \div 8
FileChunk(header) == SamplesPerPacket * header.channels * ContainerBytes(header)

\* AafPcmTalker::build_packet
TalkerAaf(payload_be) ==
    [valid |-> TRUE,
     common |-> [subtype |-> AAF, header_specific_bit |-> <<1>>, version |-> Bits(0, 3)],
     stream_data |-> TalkerStream,
     format_data |-> [variant |-> "Pcm",
         data |-> [format |-> FromWavHeader(wav.header),
                   nominal_sample_rate |-> FromHz(wav.header.sample_rate),
                   channels_per_frame |-> wav.header.channels,
                   bit_depth |-> wav.header.valid_bits_per_sample,
                   payload |-> payload_be]],
     sparse_timestamp |-> <<0>>, event_flags |-> Bits(0, 4)]

\* One round of run_talker's loop.  A packet that cannot be built or sent ends the
\* talker, and with it the test.
SendChunk(accepted) ==
    /\ stage = "talk" /\ rest # <<>> /\ wire = NoFrame
    /\ LET size == FileChunk(wav.header)
           taken == IF Len(rest) < size THEN Len(rest) ELSE size
       IN  \E aaf \in {TalkerAaf(SwapByteOrder(SubSeq(rest, 1, taken),
                                             ContainerBytes(wav.header)))} :
           IF ValidPcm(aaf.format_data.data)
           THEN /\ SendAaf(aaf, accepted)
                /\ rest' = SubSeq(rest, taken + 1, Len(rest))
                /\ stage' = IF accepted THEN stage ELSE "failed"
           ELSE /\ stage' = "failed"
                /\ UNCHANGED <<vars, rest>>
    /\ UNCHANGED <<file, wav, received_pcm_le, saved, lost>>

-----------------------------------------------------------------------------
(* The segment and the listener *)

PadChunk == stage = "talk" /\ Pad /\ UNCHANGED testVars
LoseChunk ==
    /\ stage = "talk" /\ Lose /\ lost' = TRUE
    /\ UNCHANGED <<stage, file, wav, rest, received_pcm_le, saved>>

\* The receiver thread and drain_loop, which swaps by the packet's bit depth: below
\* eight bits, chunks_exact_mut panics.
DepthBytes(pcm) == pcm.bit_depth \div 8
PresentChunk ==
    /\ stage = "talk" /\ Receive
    /\ LET pcm == ToAaf(received'.pdu).format_data.data
       IN  IF DepthBytes(pcm) = 0
           THEN stage' = "failed" /\ UNCHANGED received_pcm_le
           ELSE /\ received_pcm_le' =
                       received_pcm_le \o SwapByteOrder(pcm.payload, DepthBytes(pcm))
                /\ UNCHANGED stage
    /\ UNCHANGED <<file, wav, rest, saved, lost>>

\* main: what was presented is saved, with the header of the file, and compared with
\* what was sent.  The products of a header that is Supported fit.
Finish ==
    /\ stage = "talk" /\ rest = <<>> /\ wire = NoFrame
    /\ saved' = WriteWav(FromHeaderAndData(wav.header, received_pcm_le))
    /\ stage' = IF received_pcm_le = wav.pcm_le THEN "passed" ELSE "failed"
    /\ UNCHANGED <<vars, file, wav, rest, received_pcm_le, lost>>

TestNext ==
    \/ Bench
    \/ LoadWav \/ PadChunk \/ LoseChunk \/ PresentChunk \/ Finish
    \/ \E accepted \in BOOLEAN : SendChunk(accepted)

TestSpec == TestInit /\ [][TestNext]_allVars

-----------------------------------------------------------------------------
(* Properties *)

\* Where the valid bits of a sample fill its container, to the byte, the audio comes
\* back: unless a frame is lost the test passes, and received.wav reads as the format
\* and the samples of the file.  The two swaps, the headers of the packets and the two
\* conversions of the format are inverse only together.
AudioComesBack ==
    saved # <<>> /\ ~lost
    /\ wav.header.valid_bits_per_sample \div 8 = wav.header.bits_per_sample \div 8 =>
        \A again \in {ReadWav(saved)} :
            /\ stage = "passed" /\ again.outcome = "Wav"
            /\ again.wav.header = wav.header /\ again.wav.data = wav.pcm_le

\* A WAV file that ends early is refused, wherever it ends, unless all the samples are
\* there and it ends with whole chunks behind them or within the id of the next one.
Unchained(value) == [value EXCEPT !.chunks_after_data = <<>>]
CutFileIsRefused ==
    stage = "load" =>
        \A whole \in {ReadWav(file)}, length \in 0..(Len(file) - 1) :
            whole.outcome = "Wav" =>
                \A cut \in {ReadWav(SubSeq(file, 1, length))} :
                    cut.outcome = "Wav" =>
                        /\ Unchained(cut.wav) = Unchained(whole.wav)
                        /\ IsPrefix(cut.wav.chunks_after_data, whole.wav.chunks_after_data)
                        /\ Len(file) + TotalSize(cut.wav.chunks_after_data) + 3
                               >= length + TotalSize(whole.wav.chunks_after_data)

\* A value that was read is written as a file that reads as the same value, with the
\* chunks in their order and sizes that are exact, unless its format keeps an extension
\* under another tag than the one it was read with, or a product of it does not fit.
ReadTag == U16(Sorted(Scan(file, {DATA})[13].chunks).format, 1)
WrittenTag(value) == U16(FormatChunk(value.header, value.fmt_extension).data, 1)
TagIsKept(value) == value.fmt_extension = <<>> \/ WrittenTag(value) = ReadTag
RewritingKeeps ==
    stage = "load" =>
        \A read \in {ReadWav(file)} :
            read.outcome = "Wav" /\ TagIsKept(read.wav) /\ ProductsFit(read.wav.header) =>
            \A bytes \in {WriteWav(read.wav)} : \A again \in {ReadWav(bytes)} :
                /\ U32(bytes, 5) = Len(bytes) - 8
                /\ again.outcome = "Wav"
                /\ [again.wav EXCEPT !.fmt_extension = <<>>]
                   = [read.wav EXCEPT !.fmt_extension = <<>>]
                /\ read.wav.fmt_extension # <<>> =>
                       again.wav.fmt_extension = read.wav.fmt_extension
=============================================================================
