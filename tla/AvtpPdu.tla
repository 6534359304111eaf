-------------------------------- MODULE AvtpPdu --------------------------------
(***************************************************************************)
(* The AVTPDUs of src/avtp/avtpdu.rs and src/avtp/headers: what encode     *)
(* writes and what decode reads, bit by bit.                               *)
(*                                                                         *)
(* A field is the sequence of its bits, the most significant first; the    *)
(* arbitrary_int types of the code hold exactly as many bits as they name. *)
(* A subtype is its number, a payload a sequence of bytes.  A PDU is       *)
(* [variant, common, fields, payload], as the enum Avtpdu and its headers. *)
(***************************************************************************)
EXTENDS Integers, Sequences, SequencesExt

Byte == 0..255

\* A field of an arbitrary_int type.
Word(width) == [1..width -> {0, 1}]

\* n shifted to the right by each number of bits, and the lowest bits of n.
Shifted(n, width) ==
    LET shifted[k \in 0..width] == IF k = 0 THEN n ELSE shifted[k - 1] \div 2
    IN  shifted
Bits(n, width) == [i \in 1..width |-> Shifted(n, width)[width - i] % 2]

\* The number read so far, after each number of bits.
Numbers(bits) ==
    LET number[i \in 0..Len(bits)] == IF i = 0 THEN 0 ELSE 2 * number[i - 1] + bits[i]
    IN  number
Number(bits) == Numbers(bits)[Len(bits)]

\* BitWriter emits and BitReader takes whole bytes.
ToBits(bytes) ==
    [i \in 1..(8 * Len(bytes)) |-> Bits(bytes[(i - 1) \div 8 + 1], 8)[((i - 1) % 8) + 1]]
ToBytes(bits) ==
    [i \in 1..(Len(bits) \div 8) |-> Number(SubSeq(bits, 8 * i - 7, 8 * i))]

-----------------------------------------------------------------------------
(* Subtypes *)

StreamSubtypes == {0, 1, 2, 3, 5, 6, 7, 111, 127}
AlternativeSubtypes == {4, 110, 130, 236, 237, 238}
ControlSubtypes == {250, 251, 252, 253, 255}
Subtypes == StreamSubtypes \cup AlternativeSubtypes \cup ControlSubtypes

AAF == 2

HeaderType(subtype) ==
    CASE subtype \in StreamSubtypes -> "Stream"
      [] subtype \in ControlSubtypes -> "Control"
      [] subtype \in AlternativeSubtypes -> "Alternative"

-----------------------------------------------------------------------------
(* Encoding *)

EncodeCommon(common) ==
    Bits(common.subtype, 8) \o common.header_specific_bit \o common.version

EncodeStreamID(id) == id.mac_address \o id.unique_id

\* The length written is that of the payload, which new_unchecked has kept within
\* a u16.
EncodeStream(pdu) ==
    LET f == pdu.fields
    IN  EncodeCommon(pdu.common)
        \o f.media_clock_restart \o f.format_specific_data \o f.avtp_timestamp_valid
        \o f.sequence_num \o f.format_specific_data_1 \o f.timestamp_uncertain
        \o EncodeStreamID(f)
        \o f.avtp_timestamp
        \o f.format_specific_data_2
        \o Bits(Len(pdu.payload), 16)
        \o f.format_specific_data_3
        \o ToBits(pdu.payload)

\* The length written is the field, which the caller keeps equal to the payload's.
EncodeControl(pdu) ==
    EncodeCommon(pdu.common)
    \o pdu.fields.format_specific_data \o pdu.fields.control_data_length
    \o EncodeStreamID(pdu.fields)
    \o ToBits(pdu.payload)

\* The last nibble of the payload is padding and not written; an empty payload is
\* four zero bits.
EncodeAlternative(pdu) ==
    LET bits == ToBits(pdu.payload)
    IN  EncodeCommon(pdu.common)
        \o IF bits = <<>> THEN Bits(0, 4) ELSE SubSeq(bits, 1, Len(bits) - 4)

\* Avtpdu::encode
Encode(pdu) ==
    CASE pdu.variant = "Stream" -> EncodeStream(pdu)
      [] pdu.variant = "Control" -> EncodeControl(pdu)
      [] pdu.variant = "Alternative" -> EncodeAlternative(pdu)

\* Avtpdu::validate_subtype
ValidSubtype(pdu) == HeaderType(pdu.common.subtype) = pdu.variant

\* The values of Avtpdu.  A payload's length fits its field; a control header's caller
\* keeps its field equal to it.
Commons == [subtype : Subtypes, header_specific_bit : Word(1), version : Word(3)]
StreamFields ==
    [media_clock_restart : Word(1), format_specific_data : Word(2),
     avtp_timestamp_valid : Word(1), sequence_num : Word(8),
     format_specific_data_1 : Word(7), timestamp_uncertain : Word(1),
     mac_address : Word(48), unique_id : Word(16), avtp_timestamp : Word(32),
     format_specific_data_2 : Word(32), format_specific_data_3 : Word(16)]
ControlFields ==
    [format_specific_data : Word(9), control_data_length : Word(11),
     mac_address : Word(48), unique_id : Word(16)]

Pdus(variant, fields) ==
    [variant : {variant}, common : Commons, fields : fields, payload : Seq(Byte)]
StreamPdus == {pdu \in Pdus("Stream", StreamFields) : Len(pdu.payload) <= 65535}
ControlPdus ==
    {pdu \in Pdus("Control", ControlFields) :
        Number(pdu.fields.control_data_length) = Len(pdu.payload)}
AlternativePdus == Pdus("Alternative", {<<>>})
Avtpdus == StreamPdus \cup ControlPdus \cup AlternativePdus

-----------------------------------------------------------------------------
(* Decoding: a layout lists the fields in the order they are read. *)

\* The bits before each field of a layout, and of the whole of it.
Starts(layout) ==
    LET start[i \in 0..Len(layout)] == IF i = 0 THEN 0 ELSE start[i - 1] + layout[i][2]
    IN  start
Size(layout) == Starts(layout)[Len(layout)]

Read(layout, bits) ==
    LET index(name) == CHOOSE i \in DOMAIN layout : layout[i][1] = name
    IN  [name \in {layout[i][1] : i \in DOMAIN layout} |->
            SubSeq(bits, Starts(layout)[index(name) - 1] + 1, Starts(layout)[index(name)])]

CommonLayout == << <<"subtype", 8>>, <<"header_specific_bit", 1>>, <<"version", 3>> >>

\* A stream ID is its two parts, in both.
StreamLayout ==
    << <<"media_clock_restart", 1>>, <<"format_specific_data", 2>>,
       <<"avtp_timestamp_valid", 1>>, <<"sequence_num", 8>>,
       <<"format_specific_data_1", 7>>, <<"timestamp_uncertain", 1>>,
       <<"mac_address", 48>>, <<"unique_id", 16>>,
       <<"avtp_timestamp", 32>>, <<"format_specific_data_2", 32>>,
       <<"stream_data_length", 16>>, <<"format_specific_data_3", 16>> >>

ControlLayout ==
    << <<"format_specific_data", 9>>, <<"control_data_length", 11>>,
       <<"mac_address", 48>>, <<"unique_id", 16>> >>

Failed(outcome) == [outcome |-> outcome]
Decoded(pdu) == [outcome |-> "Avtpdu", pdu |-> pdu]

\* read_arc fails unless the reader still holds the whole payload.
ReadPartly(bits, length) ==
    [outcome |-> "bytes",
     bytes |-> ToBytes(IF Len(bits) < 8 * length THEN bits ELSE SubSeq(bits, 1, 8 * length))]
ReadArc(bits, length) ==
    IF Len(bits) < 8 * length THEN Failed("Io")
    ELSE [outcome |-> "bytes", bytes |-> ToBytes(SubSeq(bits, 1, 8 * length))]

\* decode_after_common of the stream and the control header: the fields, then as many
\* bytes as the length field says.  A stream header does not keep its length.
DecodeAfterCommon(variant, common, layout, lengthField, bits) ==
    IF Len(bits) < Size(layout) THEN Failed("Io")
    ELSE LET fields == Read(layout, bits)
             kept == DOMAIN fields \ {"stream_data_length"}
             payload == ReadArc(SubSeq(bits, Size(layout) + 1, Len(bits)),
                                Number(fields[lengthField]))
         IN  IF payload.outcome = "Io" THEN payload
             ELSE Decoded([variant |-> variant, common |-> common,
                           fields |-> [name \in kept |-> fields[name]],
                           payload |-> payload.bytes])

\* AlternativeHeader::decode_after_common is todo!() for each of its subtypes.
DecodeAlternative == Failed("panic")

\* Avtpdu::decode
Decode(bits) ==
    IF Len(bits) < 8 THEN Failed("Io")
    ELSE IF Number(SubSeq(bits, 1, 8)) \notin Subtypes THEN Failed("UnknownSubtype")
    ELSE IF Len(bits) < Size(CommonLayout) THEN Failed("Io")
    ELSE LET read == Read(CommonLayout, bits)
             common == [read EXCEPT !.subtype = Number(@)]
             rest == SubSeq(bits, Size(CommonLayout) + 1, Len(bits))
         IN  CASE HeaderType(common.subtype) = "Stream" ->
                      DecodeAfterCommon("Stream", common, StreamLayout,
                                        "stream_data_length", rest)
               [] HeaderType(common.subtype) = "Control" ->
                      DecodeAfterCommon("Control", common, ControlLayout,
                                        "control_data_length", rest)
               [] HeaderType(common.subtype) = "Alternative" -> DecodeAlternative
================================================================================
