--------------------------------- MODULE AafPdu ---------------------------------
(***************************************************************************)
(* AAF on top of a stream header (src/avtp/formats/aaf): which headers     *)
(* Aaf::try_from accepts, what it keeps of them, and the header that an    *)
(* Aaf turns back into.                                                    *)
(*                                                                         *)
(* Every reason to reject is one outcome: NoAaf stands for InvalidAaf.     *)
(***************************************************************************)
EXTENDS AvtpPdu

CONSTANT MaxLength    \* u16::MAX, the longest payload in bytes

ASSUME LengthAssumption == MaxLength \in Nat \ {0} /\ MaxLength <= 65535

NoAaf == [valid |-> FALSE]

\* The fields of GenericStreamData, which AAF carries unchanged.
GenericFields ==
    {"media_clock_restart", "avtp_timestamp_valid", "sequence_num",
     "timestamp_uncertain", "mac_address", "unique_id", "avtp_timestamp"}
GenericStreamData ==
    [media_clock_restart : Word(1), avtp_timestamp_valid : Word(1), sequence_num : Word(8),
     timestamp_uncertain : Word(1), mac_address : Word(48), unique_id : Word(16),
     avtp_timestamp : Word(32)]

-----------------------------------------------------------------------------
(* PCM *)

User == 0
Float32Bit == 1
AES3_32Bit == 5
PcmFormats == 0..4
AafFormats == PcmFormats \cup {AES3_32Bit}
\* 24 kHz came last, out of the order of the rates.
RatesInOrder == 0..9
SampleRates == 0..10

\* PcmFormat::word_size, for the formats other than User
WordSize == [format \in 1..4 |-> CASE format \in 1..2 -> 32
                                   [] format = 3 -> 24
                                   [] format = 4 -> 16]

ValidBitDepth(bit_depth, format) ==
    /\ bit_depth # 0
    /\ format = Float32Bit => bit_depth = 32
    /\ format # User => bit_depth <= WordSize[format]

FrameSize(format, channels) == (WordSize[format] \div 8) * channels

UnboundedPayload(format, length, channels) ==
    format # User => length % FrameSize(format, channels) = 0
ValidPayloadSize(format, length, channels) ==
    /\ length <= MaxLength
    /\ format # User => length % FrameSize(format, channels) = 0

\* AafPcm::new, and the second half of AafPcm::from_specific
ValidPcm(pcm) ==
    /\ ValidBitDepth(pcm.bit_depth, pcm.format)
    /\ pcm.channels_per_frame # 0
    /\ ValidPayloadSize(pcm.format, Len(pcm.payload), pcm.channels_per_frame)

-----------------------------------------------------------------------------
(* AafSpecificData: what the bits of a header mean to a format *)

UnreservedLayout ==
    << <<"nominal_sample_rate", 4>>, <<"channels_per_frame", 12>>, <<"bit_depth", 8>> >>
SpecificLayout ==
    << <<"nominal_sample_rate", 4>>, <<"reserved", 2>>, <<"channels_per_frame", 10>>,
       <<"bit_depth", 8>> >>

\* AafPcm::from_specific; asfd and aaf_format_specific_data_2 are reserved.
PcmFromSpecific(data) ==
    LET read == Read(SpecificLayout, data.aaf_format_specific_data_1)
    IN  [format |-> data.format,
         nominal_sample_rate |-> Number(read.nominal_sample_rate),
         channels_per_frame |-> Number(read.channels_per_frame),
         bit_depth |-> Number(read.bit_depth),
         payload |-> data.aaf_format_specific_payload]

PcmIntoSpecific(pcm) ==
    [format |-> pcm.format,
     aaf_format_specific_data_1 |->
         Bits(pcm.nominal_sample_rate, 4) \o Bits(0, 2)
         \o Bits(pcm.channels_per_frame, 10) \o Bits(pcm.bit_depth, 8),
     asfd |-> Bits(0, 3),
     aaf_format_specific_data_2 |-> Bits(0, 8),
     aaf_format_specific_payload |-> pcm.payload]

\* AafVariant::try_from and AafAes3, a container around the specific data
FromSpecific(data) ==
    IF data.format = AES3_32Bit THEN [variant |-> "Aes3", data |-> data]
    ELSE [variant |-> "Pcm", data |-> PcmFromSpecific(data)]

IntoSpecific(format_data) ==
    IF format_data.variant = "Aes3" THEN format_data.data
    ELSE PcmIntoSpecific(format_data.data)

\* SampleRate::try_from and the validation of the PCM format
ValidFormatData(format_data) ==
    format_data.variant = "Pcm" =>
        /\ format_data.data.nominal_sample_rate \in SampleRates
        /\ ValidPcm(format_data.data)

-----------------------------------------------------------------------------
(* Aaf *)

\* Aaf::validate_stream_data
ValidStreamData(common) ==
    /\ common.subtype = AAF
    /\ common.header_specific_bit = <<1>>
    /\ Number(common.version) = 0

PackedLayout ==
    << <<"asfd", 3>>, <<"sparse_timestamp", 1>>, <<"event_flags", 4>>,
       <<"aaf_format_specific_data_2", 8>> >>

\* The values of Aaf that hold PCM, whether AafPcm::new accepts it or not.
Pcms ==
    [format : PcmFormats, nominal_sample_rate : SampleRates,
     channels_per_frame : {n \in Nat : n < 1024}, bit_depth : Byte, payload : Seq(Byte)]
PcmAafs ==
    [valid : {TRUE}, common : Commons, stream_data : GenericStreamData,
     format_data : [variant : {"Pcm"}, data : Pcms],
     sparse_timestamp : Word(1), event_flags : Word(4)]

\* TryFrom<StreamHeader> for Aaf
ToAaf(pdu) ==
    LET fields == pdu.fields
        format == Number(SubSeq(fields.format_specific_data_2, 1, 8))
        packed == Read(PackedLayout, fields.format_specific_data_3)
        data == FromSpecific(
            [format |-> format,
             aaf_format_specific_data_1 |-> SubSeq(fields.format_specific_data_2, 9, 32),
             asfd |-> packed.asfd,
             aaf_format_specific_data_2 |-> packed.aaf_format_specific_data_2,
             aaf_format_specific_payload |-> pdu.payload])
    IN  IF ValidStreamData(pdu.common) /\ format \in AafFormats /\ ValidFormatData(data)
        THEN [valid |-> TRUE, common |-> pdu.common,
              stream_data |-> [name \in GenericFields |-> fields[name]],
              format_data |-> data,
              sparse_timestamp |-> packed.sparse_timestamp,
              event_flags |-> packed.event_flags]
        ELSE NoAaf

\* From<Aaf> expects SpecificStreamData::new_unchecked to accept the payload.
Converts(aaf) == Len(IntoSpecific(aaf.format_data).aaf_format_specific_payload) <= MaxLength

\* From<Aaf> for StreamHeader: the reserved fields are zero.
FromAaf(aaf) ==
    LET data == IntoSpecific(aaf.format_data)
        generic == aaf.stream_data
    IN  [variant |-> "Stream", common |-> aaf.common,
         fields |->
             [media_clock_restart |-> generic.media_clock_restart,
              format_specific_data |-> Bits(0, 2),
              avtp_timestamp_valid |-> generic.avtp_timestamp_valid,
              sequence_num |-> generic.sequence_num,
              format_specific_data_1 |-> Bits(0, 7),
              timestamp_uncertain |-> generic.timestamp_uncertain,
              mac_address |-> generic.mac_address, unique_id |-> generic.unique_id,
              avtp_timestamp |-> generic.avtp_timestamp,
              format_specific_data_2 |->
                  Bits(data.format, 8) \o data.aaf_format_specific_data_1,
              format_specific_data_3 |->
                  data.asfd \o aaf.sparse_timestamp \o aaf.event_flags
                  \o data.aaf_format_specific_data_2],
         payload |-> data.aaf_format_specific_payload]
=================================================================================
