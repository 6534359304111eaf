----------------------------- MODULE MCAvtpEthernet -----------------------------
(* Talkers' requests and packets, and WAV files, of the instance of TestPayload. *)
EXTENDS TestPayload, TLC

Payload(length) == [i \in 1..length |-> (37 * i) % 256]

Common(subtype) ==
    [subtype |-> subtype, header_specific_bit |-> <<1>>, version |-> Bits(0, 3)]

\* No two fields of the same width have the same bits.
Generic ==
    [media_clock_restart |-> <<1>>, avtp_timestamp_valid |-> <<0>>,
     sequence_num |-> Bits(200, 8), timestamp_uncertain |-> <<0>>,
     mac_address |-> Bits(4660, 24) \o Bits(13398, 24), unique_id |-> Bits(258, 16),
     avtp_timestamp |-> Bits(772, 16) \o Bits(1286, 16)]

MCInputs ==
    {[valid |-> TRUE, common |-> Common(AAF), stream_data |-> Generic,
      format_data |-> [variant |-> "Pcm",
          data |-> [format |-> format, nominal_sample_rate |-> 10,
                    channels_per_frame |-> channels, bit_depth |-> depth,
                    payload |-> Payload(length)]],
      sparse_timestamp |-> <<1>>, event_flags |-> Bits(6, 4)] :
        format \in PcmFormats, channels \in {0, 1, 2}, depth \in {0, 16, 24, 32, 33},
        length \in {0, 4, 6, 9}}

\* A stream PDU of another device: the reserved bits are set.
Stream(common, format, specific, payload) ==
    [variant |-> "Stream", common |-> common,
     fields |-> Generic @@
         [format_specific_data |-> Bits(1, 2), format_specific_data_1 |-> Bits(99, 7),
          format_specific_data_2 |-> Bits(format, 8) \o specific,
          format_specific_data_3 |-> Bits(23130, 16)],
     payload |-> payload]

Specific(rate, channels, depth) ==
    Bits(rate, 4) \o Bits(3, 2) \o Bits(channels, 10) \o Bits(depth, 8)

Control(length) ==
    [variant |-> "Control", common |-> Common(250),
     fields |-> [format_specific_data |-> Bits(300, 9),
                 control_data_length |-> Bits(length, 11),
                 mac_address |-> Generic.mac_address, unique_id |-> Generic.unique_id],
     payload |-> Payload(length)]

Alternative(payload) ==
    [variant |-> "Alternative", common |-> Common(4), fields |-> <<>>, payload |-> payload]

MCPackets ==
    {Stream(Common(AAF), format, Specific(rate, channels, 16), Payload(4)) :
        format \in {0, 4, 5, 6}, rate \in {5, 11}, channels \in {0, 2}}
    \cup {Stream(common, 4, Specific(5, 1, 16), Payload(2)) :
            common \in {Common(3), [Common(AAF) EXCEPT !.version = Bits(2, 3)],
                        [Common(AAF) EXCEPT !.header_specific_bit = <<0>>], Common(4)}}
    \cup {Control(0), Control(3), Alternative(<<>>), Alternative(<<171, 160>>)}

\* Another protocol, a frame too short for a header, and AVTP frames of no use: empty,
\* ending inside the common header, and of a reserved subtype.
MCOtherFrames ==
    {[i \in 1..20 |-> 8], [i \in 1..13 |-> 34], EthernetHeader \o <<254, 128>>,
     EthernetHeader, EthernetHeader \o <<2>>, EthernetHeader \o <<254>>}

-----------------------------------------------------------------------------
(* WAV files *)

Chunk(id, data) == id \o LE(Len(data), 4) \o data \o LE(0, Len(data) % 2)
Sum4(chunks) == chunks[1] \o chunks[2] \o chunks[3] \o chunks[4]
File(chunks) == RIFF \o LE(4, 4) \o WAVE \o Sum4(chunks)

\* Byte rate and block alignment are left at zero: nobody reads them.
Format(tag, channels, rate, bits, extension) ==
    Chunk(FMT, LE(tag, 2) \o LE(channels, 2) \o LE(rate, 4) \o LE(0, 4) \o LE(0, 2) \o LE(bits, 2)
               \o extension)
Extension(valid, tag, suffix) == LE(22, 2) \o LE(valid, 2) \o LE(0, 4) \o LE(tag, 2) \o suffix
NoSize == LE(0, 2)
Guid == KS_SUBFORMAT_GUID_SUFFIX
Samples(length) == Chunk(DATA, [i \in 1..length |-> i])
Junk == Chunk(<<74, 85, 78, 75>>, <<1, 2, 3>>)

\* Sixteen bits with and without an extension, 24 bits and float, three channels, and
\* what the test cannot send: eight bits, 11025 Hz, another encoding, no channels.
ClassicFormats ==
    {Format(1, 2, 48000, 16, <<>>), Format(1, 1, 24000, 16, NoSize),
     Format(1, 1, 44100, 24, <<>>), Format(1, 1, 44100, 24, NoSize),
     Format(3, 1, 192000, 32, NoSize), Format(1, 3, 8000, 16, <<>>),
     Format(1, 1, 8000, 8, <<>>), Format(1, 1, 11025, 16, <<>>),
     Format(7, 1, 8000, 16, NoSize), Format(1, 0, 8000, 16, <<>>),
     Format(2, 1, 44100, 4, LE(32, 2) \o [i \in 1..32 |-> i])}
\* Valid bits that fill the container, do not, are left open, or are less than a byte;
\* a foreign suffix, and an extension that is too short.
ExtensibleFormats ==
    {Format(EXTENSIBLE, 1, 96000, bits, Extension(valid, 1, Guid)) :
        bits \in {16, 24}, valid \in {0, 4, 20, 24}}
    \cup {Format(EXTENSIBLE, 1, 96000, 32, Extension(32, 3, Guid)),
          Format(EXTENSIBLE, 1, 96000, 16, Extension(16, 1, [Guid EXCEPT ![5] = 0])),
          Format(EXTENSIBLE, 1, 96000, 16, NoSize)}
BadFormat == Chunk(FMT, LE(1, 2))
\* A frame of 80000 bytes does not fit into the alignment.
WideFormat == Format(1, 40000, 8000, 16, <<>>)
\* Data that is announced and does not come.
NoData == DATA \o LE(2^30, 4)

MCFiles ==
    {File(<<format, Samples(12), <<>>, <<>>>>) : format \in ClassicFormats \cup ExtensibleFormats}
    \cup {File(<<Junk, format, Junk, Samples(3) \o Junk>>) :
            format \in {Format(1, 2, 48000, 16, <<>>), Format(1, 1, 44100, 24, <<>>)}}
    \cup {File(<<Junk, format, Format(1, 1, 44100, 24, <<>>), Junk \o Samples(0)>>) :
            format \in {Format(1, 2, 48000, 16, <<>>), BadFormat}}
    \cup {File(<<Samples(4), Format(1, 2, 48000, 16, <<>>), <<>>, <<>>>>),
          File(<<Junk, Format(1, 2, 48000, 16, <<>>), Junk, <<>>>>),
          File(<<WideFormat, Samples(12), <<>>, <<>>>>),
          File(<<Format(1, 2, 48000, 16, <<>>), NoData, Samples(2), <<>>>>),
          File(<<Junk, <<>>, <<>>, <<>>>>),
          RIFF \o LE(4, 4) \o RIFF, WAVE, <<>>}
=================================================================================
