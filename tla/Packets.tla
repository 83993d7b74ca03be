------------------------------ MODULE Packets ------------------------------
(***************************************************************************)
(* A packet as the live path of the program tells packets apart: the       *)
(* number it was received under, and its _packet_key in                    *)
(* src/src/flow/nfstream_wrapper.py, the flow that it belongs to.          *)
(***************************************************************************)
EXTENDS Naturals

CONSTANTS
    Keys,               \* keys of TCP, UDP and ICMP packets over IP
    NoKey,              \* any other packet
    BadKey              \* a packet on which add_packet raises

ASSUME PacketAssumption ==
    /\ NoKey \notin Keys
    /\ BadKey \notin Keys
    /\ NoKey # BadKey

Labels == Keys \cup {NoKey, BadKey}
Packet == [n : Nat, key : Labels]

=============================================================================
