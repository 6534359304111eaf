------------------------------- MODULE WavFile -------------------------------
(***************************************************************************)
(* RIFF/WAVE files (src/audio/wav.rs): how a file is read into its chunks  *)
(* and its format, and written back.  A file is a sequence of bytes, a     *)
(* chunk is [chunk_id, data].  Sizes and rates have 32 bits, of which TLC  *)
(* is given files that use 31.                                             *)
(***************************************************************************)
EXTENDS Integers, Sequences, SequencesExt

RIFF == <<82, 73, 70, 70>>
WAVE == <<87, 65, 86, 69>>
FMT == <<102, 109, 116, 32>>
DATA == <<100, 97, 116, 97>>
EXTENSIBLE == 65534
KS_SUBFORMAT_GUID_SUFFIX == <<0, 0, 0, 0, 16, 0, 128, 0, 0, 170, 0, 56, 155, 113>>

\* to_le_bytes, and from_le_bytes of the bytes from a place.
LE(n, width) == [i \in 1..width |-> (n \div 256^(i - 1)) % 256]
U16(bytes, at) == bytes[at] + 256 * bytes[at + 1]
U32(bytes, at) == U16(bytes, at) + 65536 * U16(bytes, at + 2)

-----------------------------------------------------------------------------
(* Reading *)

\* ChunkHeader::read: a file that ends within an id has ended before it.
EofAnywhere(file, at) == IF Len(file) < at + 7 THEN "eof" ELSE "chunk"
ChunkHeader(file, at) ==
    IF Len(file) < at + 3 THEN "eof"
    ELSE IF Len(file) < at + 7 THEN "Io"
    ELSE "chunk"

\* WavChunk::read, again and again: the chunks from each place of a file up to one of
\* the ids given, to the end of the file, or to a chunk that is not complete.
Padded(size) == size + (size % 2)
Scan(file, until) ==
    LET Ends(end, at) == [end |-> end, at |-> at, chunks |-> <<>>]
        scan[at \in 1..(Len(file) + 1)] ==
            LET id == SubSeq(file, at, at + 3)
                size == U32(file, at + 4)
                next == at + 8 + Padded(size)
            IN  IF ChunkHeader(file, at) # "chunk" THEN Ends(ChunkHeader(file, at), at)
                ELSE IF id \in until THEN Ends("data", at)
                ELSE IF Len(file) < next - 1 THEN Ends("Io", at)
                ELSE [scan[next] EXCEPT !.chunks =
                         <<[chunk_id |-> id, data |-> SubSeq(file, at + 8, at + 7 + size)]>>
                         \o @]
    IN  scan

\* WavHeader::from_fmt_chunk_unchecked
FormatFits(data) ==
    Len(data) >= 16 /\ (U16(data, 1) = EXTENSIBLE => Len(data) >= 40)
AudioFormat(tag) ==
    [kind |-> CASE tag = 1 -> "Pcm" [] tag = 3 -> "IeeeFloat" [] OTHER -> "Other",
     tag |-> tag]
HeaderOf(data) ==
    LET bits == U16(data, 15)
        extensible == U16(data, 1) = EXTENSIBLE
        known == SubSeq(data, 27, 40) = KS_SUBFORMAT_GUID_SUFFIX
    IN  [channels |-> U16(data, 3), sample_rate |-> U32(data, 5), bits_per_sample |-> bits,
         valid_bits_per_sample |->
             IF extensible /\ U16(data, 19) # 0 THEN U16(data, 19) ELSE bits,
         audio_format |->
             IF ~extensible THEN AudioFormat(U16(data, 1))
             ELSE IF known THEN AudioFormat(U16(data, 25))
             ELSE [kind |-> "Other", tag |-> U16(data, 25)]]

\* WavPreamble::read_riff_header; the size in it is not looked at.
RiffError(file) ==
    IF Len(file) < 4 THEN "Io"
    ELSE IF SubSeq(file, 1, 4) # RIFF THEN "InvalidMagic"
    ELSE IF Len(file) < 12 THEN "Io"
    ELSE IF SubSeq(file, 9, 12) # WAVE THEN "InvalidMagic"
    ELSE "none"

\* The loop of WavPreamble::read: the chunks in front of the first format, the data of
\* the latest one (<<>>: None), the other chunks behind.
Sorting(chunks) ==
    LET Sort(sorted, chunk) ==
            IF chunk.chunk_id = FMT THEN [sorted EXCEPT !.format = chunk.data]
            ELSE IF sorted.format = <<>>
            THEN [sorted EXCEPT !.before_fmt = Append(@, chunk)]
            ELSE [sorted EXCEPT !.before_data = Append(@, chunk)]
        sorting[i \in 0..Len(chunks)] ==
            IF i = 0 THEN [before_fmt |-> <<>>, format |-> <<>>, before_data |-> <<>>]
            ELSE Sort(sorting[i - 1], chunks[i])
    IN  sorting
Sorted(chunks) == Sorting(chunks)[Len(chunks)]

\* WavPreamble::read
ReadPreamble(file) ==
    LET riff == RiffError(file)
        scan == Scan(file, {DATA})[13]
        sorted == Sorted(scan.chunks)
        error == IF riff # "none" THEN riff
                 ELSE IF \E i \in DOMAIN scan.chunks :
                             /\ scan.chunks[i].chunk_id = FMT
                             /\ ~FormatFits(scan.chunks[i].data)
                 THEN "InvalidChunkSize"
                 ELSE IF scan.end = "Io" THEN "Io"
                 ELSE IF scan.end = "eof"
                 THEN IF sorted.format = <<>> THEN "MissingFmtChunk" ELSE "MissingDataChunk"
                 ELSE IF sorted.format = <<>> THEN "DataBeforeFmt" ELSE "none"
    IN  IF error # "none" THEN [outcome |-> error]
        ELSE [outcome |-> "preamble",
              header |-> HeaderOf(sorted.format),
              fmt_extension |-> SubSeq(sorted.format, 17, Len(sorted.format)),
              chunks_before_fmt |-> sorted.before_fmt,
              chunks_before_data |-> sorted.before_data,
              data_size |-> U32(file, scan.at + 4), at |-> scan.at + 8]

\* Wav::read
ReadWav(file) ==
    LET preamble == ReadPreamble(file)
        after == preamble.at + Padded(preamble.data_size)
        rest == Scan(file, {})[after]
    IN  IF preamble.outcome # "preamble" THEN preamble
        ELSE IF Len(file) < after - 1 \/ rest.end = "Io" THEN [outcome |-> "Io"]
        ELSE [outcome |-> "Wav",
              wav |-> [header |-> preamble.header, fmt_extension |-> preamble.fmt_extension,
                       chunks_before_fmt |-> preamble.chunks_before_fmt,
                       chunks_before_data |-> preamble.chunks_before_data,
                       data |-> SubSeq(file, preamble.at,
                                       preamble.at + preamble.data_size - 1),
                       chunks_after_data |-> rest.chunks]]

-----------------------------------------------------------------------------
(* Writing *)

\* WavHeader::needs_extensible_format and extensible_fmt_extension
NeedsExtensibleFormat(header) ==
    \/ header.valid_bits_per_sample # header.bits_per_sample
    \/ header.channels > 2
    \/ header.audio_format.kind = "Pcm" /\ header.bits_per_sample > 16
ExtensibleFmtExtension(header) ==
    LE(22, 2) \o LE(header.valid_bits_per_sample, 2) \o LE(0, 4)
    \o LE(header.audio_format.tag, 2) \o KS_SUBFORMAT_GUID_SUFFIX

\* The products of into_wav_chunk fit: 32 bits for the byte rate, 16 for the alignment.
\* A build with overflow checks panics where they do not.
ProductsFit(header) ==
    LET bytes == header.bits_per_sample \div 8
        rate == header.sample_rate * header.channels
    IN  /\ rate \div 65536 < 65536 /\ (rate * bytes) \div 65536 < 65536
        /\ header.channels * bytes < 65536

\* WavHeader::into_wav_chunk; a product that does not fit is cut off by LE, as a build
\* without overflow checks does.
FormatChunk(header, extension) ==
    LET needs == Len(extension) >= 24 \/ NeedsExtensibleFormat(header)
        bytes == header.bits_per_sample \div 8
    IN  [chunk_id |-> FMT,
         data |-> LE(IF needs THEN EXTENSIBLE ELSE header.audio_format.tag, 2)
                  \o LE(header.channels, 2) \o LE(header.sample_rate, 4)
                  \o LE(header.sample_rate * header.channels * bytes, 4)
                  \o LE(header.channels * bytes, 2) \o LE(header.bits_per_sample, 2)
                  \o IF needs /\ extension = <<>> THEN ExtensibleFmtExtension(header)
                     ELSE extension]

\* WavChunk::write and serialized_size
ChunkBytes(chunk) ==
    LET size == Len(chunk.data)
    IN  chunk.chunk_id \o LE(size, 4) \o chunk.data \o LE(0, size % 2)
UnpaddedSize(chunk) == 8 + Len(chunk.data)
SerializedSize(chunk) == 8 + Len(chunk.data) + (Len(chunk.data) % 2)
TotalSize(chunks) ==
    LET size[i \in 0..Len(chunks)] ==
            IF i = 0 THEN 0 ELSE size[i - 1] + SerializedSize(chunks[i])
    IN  size[Len(chunks)]

\* Wav::write
WriteWav(wav) ==
    LET chunks == wav.chunks_before_fmt
                  \o <<FormatChunk(wav.header, wav.fmt_extension)>>
                  \o wav.chunks_before_data
                  \o <<[chunk_id |-> DATA, data |-> wav.data]>>
                  \o wav.chunks_after_data
        bytes[i \in 0..Len(chunks)] ==
            IF i = 0 THEN WAVE ELSE bytes[i - 1] \o ChunkBytes(chunks[i])
    IN  RIFF \o LE(4 + TotalSize(chunks), 4) \o bytes[Len(chunks)]

\* Wav::from_header_and_data
FromHeaderAndData(header, data) ==
    [header |-> header, fmt_extension |-> <<>>, chunks_before_fmt |-> <<>>,
     chunks_before_data |-> <<>>, data |-> data, chunks_after_data |-> <<>>]
=============================================================================
