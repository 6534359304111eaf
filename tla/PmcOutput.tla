------------------------------ MODULE PmcOutput ------------------------------
(***************************************************************************)
(* PtpSnapshot::parse_pmc_output (src/ptp_proto/state.rs): from the output *)
(* of one run of pmc to a snapshot of three datasets, or to an error.      *)
(*                                                                         *)
(* A line is noise (empty, or "sending: ..."), the header of a response, a *)
(* key with a value, or a single word.  Of a value it matters whether its  *)
(* type parses it; "junk" stands for one that only a text accepts.         *)
(***************************************************************************)
EXTENDS Naturals, Sequences, SequencesExt

Noise == [line |-> "noise"]
Header(kind) == [line |-> "header", kind |-> kind]
Field(key, value) == [line |-> "field", key |-> key, value |-> value]
IsField(l, key) == l.line = "field" /\ l.key = key

\* The fields that each parse_block asks for, in its order: keys and types.
Fields == [
    TIME_STATUS_NP |-> <<
        <<"master_offset", "number">>, <<"ingress_time", "number">>,
        <<"cumulativeScaledRateOffset", "number">>, <<"gmPresent", "flag">>,
        <<"gmIdentity", "text">> >>,
    PORT_DATA_SET |-> <<
        <<"portIdentity", "text">>, <<"portState", "text">>,
        <<"logMinDelayReqInterval", "number">>, <<"peerMeanPathDelay", "number">>,
        <<"logAnnounceInterval", "number">>, <<"announceReceiptTimeout", "number">>,
        <<"logSyncInterval", "number">>, <<"delayMechanism", "number">>,
        <<"logMinPdelayReqInterval", "number">>, <<"versionNumber", "number">> >>,
    CURRENT_DATA_SET |-> <<
        <<"stepsRemoved", "number">>, <<"offsetFromMaster", "number">>,
        <<"meanPathDelay", "number">> >>]
Datasets == DOMAIN Fields

-----------------------------------------------------------------------------
(* parse_blocks *)

\* No block has begun: lines are dropped until the first header.
NoKind == "none"

\* The blocks with the one that is being read at their end.
ForgetsLast(reader) == reader.blocks
Closed(reader) ==
    IF reader.kind = NoKind THEN reader.blocks
    ELSE Append(reader.blocks, [kind |-> reader.kind, lines |-> reader.lines])

ReadLine(reader, l) ==
    CASE l.line = "noise" -> reader
      [] l.line = "header" ->
             [blocks |-> Closed(reader), kind |-> l.kind, lines |-> <<>>]
      [] OTHER -> IF reader.kind = NoKind THEN reader
                  ELSE [reader EXCEPT !.lines = Append(@, l)]

\* The reader after each number of lines.
Reader(text) ==
    LET reader[n \in 0..Len(text)] ==
            IF n = 0 THEN [blocks |-> <<>>, kind |-> NoKind, lines |-> <<>>]
            ELSE ReadLine(reader[n - 1], text[n])
    IN  reader

ParseBlocks(text) == Closed(Reader(text)[Len(text)])

-----------------------------------------------------------------------------
(* parse_pmc_output *)

\* Lines that are not a key and a value are ignored; the last value of a key wins.
ToMap(lines) ==
    LET keys == {lines[n].key : n \in {m \in DOMAIN lines : lines[m].line = "field"}}
        last(key) == Max({n \in DOMAIN lines : IsField(lines[n], key)})
    IN  [key \in keys |-> lines[last(key)].value]

Parses(type, value) ==
    CASE type = "number" -> value = "number"
      [] type = "flag" -> value \in {"true", "false"}
      [] OTHER -> TRUE

\* The parse_block of the dataset `kind` returns a value.
BlockParses(kind, map) ==
    \A n \in DOMAIN Fields[kind] :
        LET key == Fields[kind][n][1]
        IN  key \in DOMAIN map /\ Parses(Fields[kind][n][2], map[key])

\* Blocks of other kinds are passed over; the first error ends the loop.
TakeBlock(parse, block) ==
    LET map == ToMap(block.lines)
    IN  IF parse.error # "none" \/ block.kind \notin Datasets THEN parse
        ELSE IF block.kind \in DOMAIN parse.found
             THEN [parse EXCEPT !.error = "DuplicateDataset"]
        ELSE IF ~BlockParses(block.kind, map)
             THEN [parse EXCEPT !.error = "DatasetError"]
        ELSE [parse EXCEPT !.found =
                 [k \in DOMAIN @ \cup {block.kind} |->
                     IF k = block.kind THEN map ELSE @[k]]]

\* What the loop has made of the first blocks.
TakeBlocks(blocks) ==
    LET parse[n \in 0..Len(blocks)] ==
            IF n = 0 THEN [error |-> "none", found |-> <<>>]
            ELSE TakeBlock(parse[n - 1], blocks[n])
    IN  parse

Taken(text) ==
    LET blocks == ParseBlocks(text)
    IN  TakeBlocks(blocks)[Len(blocks)]

\* The error, or "none" with the datasets of the snapshot in `found`.
MissingFirst(text) ==
    IF DOMAIN Taken(text).found # Datasets
    THEN [Taken(text) EXCEPT !.error = "MissingDataset"] ELSE Taken(text)
ParsePmcOutput(text) ==
    LET taken == Taken(text)
    IN  IF taken.error = "none" /\ DOMAIN taken.found # Datasets
        THEN [taken EXCEPT !.error = "MissingDataset"] ELSE taken

\* PtpSnapshot::is_synchronized
HasMaster(snapshot) ==
    snapshot.found["PORT_DATA_SET"]["portState"] \in {"SLAVE", "UNCALIBRATED"}
IsSynchronized(snapshot) == snapshot.found["PORT_DATA_SET"]["portState"] = "SLAVE"

-----------------------------------------------------------------------------
(* What an output says, without parsing it in one pass *)

\* The lines after a header, up to the next one.
HeadersOf(text, kind) ==
    {n \in DOMAIN text : text[n].line = "header" /\ text[n].kind = kind}
Below(text, n) ==
    {m \in (n + 1)..Len(text) : \A k \in (n + 1)..m : text[k].line # "header"}

\* The line that gives a key below the header its value is the last with that key.
Gives(text, n, key, type) ==
    \E m \in Below(text, n) :
        /\ IsField(text[m], key) /\ Parses(type, text[m].value)
        /\ \A k \in Below(text, n) : k > m => ~IsField(text[k], key)

Complete(text, kind, n) ==
    \A f \in DOMAIN Fields[kind] : Gives(text, n, Fields[kind][f][1], Fields[kind][f][2])

\* Exactly one answer for the dataset, with every field.
AnsweredOnce(text, kind) ==
    \E n \in HeadersOf(text, kind) :
        HeadersOf(text, kind) = {n} /\ Complete(text, kind, n)
=============================================================================
