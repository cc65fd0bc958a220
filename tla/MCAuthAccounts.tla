---------------------------- MODULE MCAuthAccounts ---------------------------
(* One account, the administrator's, and two requests in flight; a lock    *)
(* after two failures and a password window of one row.                    *)
EXTENDS AuthAccounts, TLC

CONSTANTS admin, r1, r2, p1, p2

MCUser     == {admin}
MCPassword == {p1, p2}
MCRequest  == {r1, r2}
MCNone     == {}
Overlaps   == Permutations(MCRequest)
=============================================================================
