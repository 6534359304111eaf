----------------------------- MODULE MCAafStream -----------------------------
(* Streams and filters of the instances of AafStream that TLC checks.        *)
EXTENDS AafStream

A1 == [mac |-> "a", uid |-> 1]
A2 == [mac |-> "a", uid |-> 2]

MCTwoTalkers == {A1, A2}
MCExact == [kind |-> "Exact", mac |-> "a", uid |-> 1]
MCAny == [kind |-> "Any"]

\* The stream under observation wraps around its sequence numbers; the other
\* one only has to interleave.
MCPackets == [t \in Talkers |-> IF t = A1 THEN 5 ELSE 1]
=============================================================================
