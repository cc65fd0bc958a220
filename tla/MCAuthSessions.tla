---------------------------- MODULE MCAuthSessions ---------------------------
(* Two requests overlap on one account or on two; three tokens are a login *)
(* refreshed twice, by overlapping requests or one after the other.        *)
EXTENDS AuthSessions, TLC

CONSTANTS u1, u2, r1, r2

MCUser    == {u1, u2}
MCRequest == {r1, r2}
Swaps     == Permutations(MCUser) \cup Permutations(MCRequest)
=============================================================================
