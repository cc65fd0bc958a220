--------------------------- MODULE MCDashboardSession --------------------------
(* A call and a live stream in one browser, another client of the same     *)
(* account; three refresh tokens are enough for a sign-in, its refresh,    *)
(* and a second sign-in or refresh beside what the first left behind.      *)
EXTENDS DashboardSession

CONSTANTS call, stream, other

MCFetch   == {call}
MCSocket  == {stream}
MCRequest == {call, stream, other}
=============================================================================
