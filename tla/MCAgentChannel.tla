----------------------------- MODULE MCAgentChannel -----------------------------
(***************************************************************************)
(* Three agents with an id each, so that a broadcast has an entry behind   *)
(* it, one in hand and one ahead; with fewer of them connected, agents     *)
(* reconnect.  The table is smaller than CPython's, so that it is rebuilt  *)
(* after two insertions already.                                           *)
(***************************************************************************)
EXTENDS AgentChannel, TLC

CONSTANTS a1, a2, a3, k1, k2, k3

MCAgent  == {a1, a2, a3}
MCAgent1 == {a1}
MCKey    == {k1, k2, k3}
MCRoom(n) == n + 2
MCKeyOf  == a1 :> k1 @@ a2 :> k2 @@ a3 :> k3
MCKeyOf1 == a1 :> k1
=============================================================================
