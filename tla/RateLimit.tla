------------------------------- MODULE RateLimit -------------------------------
(***************************************************************************)
(* The token buckets in front of the API (utils/rate_limit.py, one process *)
(* of uvicorn).  Between finding a bucket and writing it nothing is        *)
(* awaited, so a request passes the middleware in one step.  The paths     *)
(* that are let through without a bucket are left out.                     *)
(*                                                                         *)
(* A token counts Window units: every second brings Requests of them, and  *)
(* all numbers are whole.  The rounding of floats is left out.             *)
(***************************************************************************)
EXTENDS Integers

CONSTANTS Client,     \* addresses
          Requests,   \* settings.rate_limit_requests
          Window,     \* settings.rate_limit_window_seconds
          MaxSeconds, \* bound: of the clock
          MaxBoots    \* bound: restarts of the backend

ASSUME LimitAssumption ==
  /\ Requests \in Nat \ {0} /\ Window \in Nat \ {0}
  /\ MaxSeconds \in Nat /\ MaxBoots \in Nat

VARIABLES buckets,  \* of each address, NoBucket before its first request
          second,   \* the monotonic clock
          boots,    \* restarts so far
          watched   \* an observer: when it began to count, and what it counted

limiter == <<buckets, second, boots, watched>>

max_tokens == Requests * Window
NoBucket   == [tokens |-> 0, last_refill |-> -1]
NewBucket  == [tokens |-> max_tokens, last_refill |-> second]

Watch == [since |-> second, boots |-> boots, admitted |-> [c \in Client |-> 0]]

LimitInit ==
  /\ buckets = [c \in Client |-> NoBucket]
  /\ second = 0
  /\ boots = 0
  /\ watched = [since |-> 0, boots |-> 0, admitted |-> [c \in Client |-> 0]]

-----------------------------------------------------------------------------
(* A fault put in on purpose: a request that is refused leaves the time of *)
(* the last refill as it is.  The specification never uses it.             *)
MutantLeft(b, have) ==
  IF have >= Window THEN [tokens |-> have - Window, last_refill |-> second]
  ELSE [b EXCEPT !.tokens = have]

Refilled(b) ==
  LET sum == b.tokens + (second - b.last_refill) * Requests
  IN  IF sum < max_tokens THEN sum ELSE max_tokens

(* What consume leaves of a bucket that holds so much at this second.      *)
Left(b, have) ==
  [tokens |-> IF have >= Window THEN have - Window ELSE have, last_refill |-> second]

dispatch(c) ==
  LET bucket == IF buckets[c] = NoBucket THEN NewBucket ELSE buckets[c]
      have   == Refilled(bucket)
  IN  /\ buckets' = [buckets EXCEPT ![c] = Left(bucket, have)]
      /\ watched' = IF have >= Window THEN [watched EXCEPT !.admitted[c] = @ + 1] ELSE watched
      /\ UNCHANGED <<second, boots>>

Passes ==
  /\ second < MaxSeconds
  /\ second' = second + 1
  /\ UNCHANGED <<buckets, boots, watched>>

(* The buckets live in the memory of the process. *)
Boots ==
  /\ boots < MaxBoots
  /\ boots' = boots + 1
  /\ buckets' = [c \in Client |-> NoBucket]
  /\ UNCHANGED <<second, watched>>

(* The observer starts to count at any time. *)
Watches == watched' = Watch /\ UNCHANGED <<buckets, second, boots>>

LimitNext == (\E c \in Client : dispatch(c)) \/ Passes \/ Boots \/ Watches

LimitSpec == LimitInit /\ [][LimitNext]_limiter

-----------------------------------------------------------------------------
(* Whenever the count begins, an address is admitted no more often than a  *)
(* full bucket, one more for each restart, and the refill of the time that *)
(* passed allow, whatever requests were refused in between: over one       *)
(* window that is twice the setting, which config.py:48 calls "per window" *)
(* (rate_limit.py:28-36).                                                  *)
AdmissionIsBounded ==
  \A c \in Client :
    watched.admitted[c] * Window <=
      max_tokens * (1 + boots - watched.boots) + Requests * (second - watched.since)
=============================================================================
