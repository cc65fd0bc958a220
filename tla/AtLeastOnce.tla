------------------------------ MODULE AtLeastOnce ------------------------------
(***************************************************************************)
(* What a store-and-forward uploader with bounded storage promises: an     *)
(* accepted item is held until the receiver has it or until it is dropped, *)
(* openly, in favour of a newer item.  The receiver may see an item again, *)
(* and may even see one that was dropped while it was on its way.          *)
(***************************************************************************)
CONSTANT Item

VARIABLES held,    \* items the sender answers for
          seen,    \* items the receiver has
          dropped  \* items given up for lack of room

aloVars == <<held, seen, dropped>>

Known == held \cup seen \cup dropped

ALOInit == held = {} /\ seen = {} /\ dropped = {}

Accept(i) ==
  /\ i \notin Known
  /\ \E D \in SUBSET held :
       /\ held' = (held \ D) \cup {i}
       /\ dropped' = dropped \cup D
  /\ UNCHANGED seen

Receive(i) ==
  /\ i \in Known
  /\ seen' = seen \cup {i}
  /\ UNCHANGED <<held, dropped>>

Release ==
  /\ \E S \in SUBSET (held \cap seen) : held' = held \ S
  /\ UNCHANGED <<seen, dropped>>

ALONext == Release \/ \E i \in Item : Accept(i) \/ Receive(i)

ALOSpec == ALOInit /\ [][ALONext]_aloVars
=============================================================================
