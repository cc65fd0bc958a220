-------------------------- MODULE MCTelemetryDelivery --------------------------
(* Small instances of TelemetryDelivery. *)
EXTENDS TelemetryDelivery, TLC

CONSTANTS b1, b2, b3

MCBatch    == {b1, b2}
MCNone     == {}
MCOne      == {b1}
MCCapacity == {2}
MCTight    == {1, 2}
MCPairs    == {2}
MCThree    == {b1, b2, b3}
Symmetry   == Permutations(MCThree)

(* What the backend of the same commit accepts of this agent. *)
MCByCode == IF AgentConforms THEN MCBatch ELSE {}
=============================================================================
