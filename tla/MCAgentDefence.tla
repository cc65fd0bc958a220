---------------------------- MODULE MCAgentDefence -----------------------------
(* One address to block, since two share no rule and no command; two       *)
(* indicators, one of them built in; two equal rules, which is enough to   *)
(* tell systems that delete one rule from those that delete all of a name. *)
EXTENDS AgentDefence

CONSTANTS one, seeded, other

MCIoc    == {seeded, other}
MCSeedOf == [i \in MCIoc |-> IF i = seeded THEN 1 ELSE NoScore]
=============================================================================
