---------------------------- MODULE MCAgentCapture ----------------------------
(* Three packets of two flows, and a capture that may be restarted twice. *)
EXTENDS AgentCapture

CONSTANTS p1, p2, p3, k1, k2

MCPacket  == {p1, p2, p3}
MCPacket2 == {p1, p2}
MCKey     == {k1, k2}
MCKeyOf   == [p \in Packet |-> IF p = p3 THEN k2 ELSE k1]
=============================================================================
