------------------------------ MODULE AvtpEthernet ------------------------------
(***************************************************************************)
(* EthernetAvtpSender and EthernetAvtpReceiver                             *)
(* (src/avtp/transport/ethernet.rs) at the two ends of a segment.  The     *)
(* sender builds every frame in one buffer it reuses.  The segment pads a  *)
(* short frame, loses frames, carries other protocols, and the receiving   *)
(* socket may hand over less than the frame.                               *)
(***************************************************************************)
EXTENDS AafPdu

CONSTANTS
    Inputs,       \* what talkers ask for: Aafs that AafPcm::new has not seen yet
    Packets,      \* other Avtpdus given to send()
    OtherFrames,  \* frames of other devices, of any protocol
    MinFrame      \* the length a short frame is padded to

ASSUME EthernetAssumption ==
    /\ Inputs \subseteq PcmAafs /\ Packets \subseteq Avtpdus
    /\ OtherFrames \subseteq Seq(Byte) /\ MinFrame \in Nat

VARIABLES
    frame_buf,    \* of the sender
    wire,         \* the frame on its way, <<>>: none
    state,        \* history: of that frame, "whole", "padded", "cut" or "foreign"
    packet,       \* history: the Avtpdu it was made of
    source,       \* history: the Aaf that was made of, or NoAaf
    received,     \* what the latest recv_next() returned
    panicked      \* the ends that have panicked

sender == <<frame_buf, packet, source>>
vars == <<frame_buf, wire, state, packet, source, received, panicked>>

NoFrame == <<>>
NoPacket == [variant |-> "none"]
Nothing == Failed("nothing")

Init ==
    /\ frame_buf = <<>> /\ wire = NoFrame /\ state = "whole"
    /\ packet = NoPacket /\ source = NoAaf
    /\ received = Nothing
    /\ panicked = {}

-----------------------------------------------------------------------------
(* The sender *)

EtherType == <<34, 240>>
EthernetHeader == [i \in 1..12 |-> 0] \o EtherType

UnclearedBuffer == frame_buf
ClearedBuffer == <<>>

\* send(): the buffer is cleared, then the header and the packet are appended.  A
\* packet whose subtype does not fit its variant leaves the header behind, a frame
\* the interface does not take leaves all of it.
Transmit(pdu, accepted) ==
    LET header == ClearedBuffer \o EthernetHeader
    IN  IF ValidSubtype(pdu)
        THEN /\ frame_buf' = header \o ToBytes(Encode(pdu))
             /\ wire' = IF accepted THEN frame_buf' ELSE NoFrame
        ELSE /\ frame_buf' = header
             /\ wire' = NoFrame

\* A talker's path to the wire: AafPcm::new, Aaf::new, From<Aaf>, send.  AafPcm::new
\* and Aaf::new may reject what they are given, which changes nothing.
SendAaf(aaf, accepted) ==
    /\ wire = NoFrame /\ "sender" \notin panicked
    /\ ValidPcm(aaf.format_data.data) /\ ValidStreamData(aaf.common)
    /\ IF Converts(aaf)
       THEN /\ packet' = FromAaf(aaf) /\ source' = aaf
            /\ Transmit(packet', accepted)
            /\ UNCHANGED panicked
       ELSE /\ panicked' = panicked \cup {"sender"}
            /\ UNCHANGED <<frame_buf, wire, packet, source>>
    /\ state' = "whole" /\ received' = Nothing

SendPacket(pdu, accepted) ==
    /\ wire = NoFrame /\ "sender" \notin panicked
    /\ packet' = pdu /\ source' = NoAaf
    /\ Transmit(pdu, accepted)
    /\ state' = "whole" /\ received' = Nothing
    /\ UNCHANGED panicked

-----------------------------------------------------------------------------
(* The segment *)

OtherProtocol(frame) ==
    /\ wire = NoFrame
    /\ wire' = frame /\ state' = "foreign"
    /\ packet' = NoPacket /\ source' = NoAaf
    /\ UNCHANGED <<frame_buf, received, panicked>>

Pad ==
    /\ wire # NoFrame /\ state = "whole" /\ Len(wire) < MinFrame
    /\ wire' = wire \o [i \in 1..(MinFrame - Len(wire)) |-> 0]
    /\ state' = "padded"
    /\ UNCHANGED <<sender, received, panicked>>

Cut(length) ==
    /\ wire # NoFrame /\ state = "whole"
    /\ wire' = SubSeq(wire, 1, length)
    /\ state' = "cut"
    /\ UNCHANGED <<sender, received, panicked>>

Lose ==
    /\ wire # NoFrame /\ wire' = NoFrame
    /\ UNCHANGED <<sender, state, received, panicked>>

-----------------------------------------------------------------------------
(* The receiver *)

IsAvtp(frame) == Len(frame) >= 14 /\ SubSeq(frame, 13, 14) = EtherType

\* recv_next() goes on waiting.
Skip ==
    /\ wire # NoFrame /\ "receiver" \notin panicked
    /\ ~IsAvtp(wire)
    /\ wire' = NoFrame
    /\ UNCHANGED <<sender, state, received, panicked>>

\* recv_next() returns a packet or an error, or panics.
Receive ==
    /\ wire # NoFrame /\ "receiver" \notin panicked
    /\ IsAvtp(wire)
    /\ received' = Decode(ToBits(SubSeq(wire, 15, Len(wire))))
    /\ panicked' = IF received'.outcome = "panic" THEN panicked \cup {"receiver"}
                   ELSE panicked
    /\ wire' = NoFrame
    /\ UNCHANGED <<sender, state>>

Next ==
    \/ \E accepted \in BOOLEAN :
           \/ \E aaf \in Inputs : SendAaf(aaf, accepted)
           \/ \E pdu \in Packets : SendPacket(pdu, accepted)
    \/ \E frame \in OtherFrames : OtherProtocol(frame)
    \/ Pad \/ Lose
    \/ \E length \in 1..(Len(wire) - 1) : Cut(length)
    \/ Skip \/ Receive

Spec == Init /\ [][Next]_vars

-----------------------------------------------------------------------------
(* Properties *)

\* encode and decode agree, and so does the reused buffer: a frame that arrives
\* whole, with or without padding behind it, is the packet given to send(), whatever
\* earlier sends, failed ones included, have left in the buffer.  Decoding an
\* alternative header is not implemented.
ReceivedIsSent ==
    [][Receive /\ state \in {"whole", "padded"} /\ packet.variant # "Alternative" =>
           received' = Decoded(packet)]_vars

\* The length fields make every frame self-delimiting: cut anywhere, it is an error
\* and never a shorter packet.
CutIsRefused ==
    [][Receive /\ state = "cut" => received'.outcome # "Avtpdu"]_vars

\* What AafPcm::new and Aaf::new accept at one end, From<Aaf> converts without the
\* panic that its comment rules out (the variants' invariants do not allow the payload
\* length to overflow), and Aaf::try_from accepts at the other end, as the same Aaf:
\* the three validate alike although they are separate.
BuiltIsAccepted ==
    /\ "sender" \notin panicked
    /\ source.valid /\ received.outcome = "Avtpdu" => ToAaf(received.pdu) = source

\* An Aaf taken from the network can be sent on: it converts into a header, whose
\* reserved bits may differ from the ones received, and which reads as the same Aaf.
SentOnUnchanged ==
    LET aaf == ToAaf(received.pdu)
    IN  received.outcome = "Avtpdu" /\ received.pdu.variant = "Stream" /\ aaf.valid =>
            Converts(aaf) /\ ToAaf(FromAaf(aaf)) = aaf
=================================================================================
