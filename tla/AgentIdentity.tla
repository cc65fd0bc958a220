----------------------------- MODULE AgentIdentity -----------------------------
(***************************************************************************)
(* Under which id an endpoint agent reports, from one start to the next    *)
(* (endpoint-agent/config.py, main.py start, client/api_client.py,         *)
(* services/retry.py; backend device_service.create_device and the first   *)
(* steps of telemetry_service.ingest_payload).                             *)
(*                                                                         *)
(* A host keeps a uuid of its own in a file.  Each start logs in and       *)
(* registers the host; the id of the row that answers replaces the uuid    *)
(* for the run.  A registration that was given up may be committed later,  *)
(* and a batch keeps the id under which it was queued: a later run uploads *)
(* it under that.  The transactions of an ingestion are in DeviceRegistry, *)
(* the queue is in TelemetryQueue.                                         *)
(***************************************************************************)
EXTENDS Integers, FiniteSets

CONSTANTS Host,
          Attempts,  \* cfg.retry_max_attempts
          MaxStarts  \* bound: starts of an agent

ASSUME IdentityAssumption == Attempts \in Nat \ {0} /\ MaxStarts \in Nat

VARIABLES agent,    \* what the process of each host is at, and as whom
          uuid_file,\* the id in .agent_uuid, 0 without the file
          queued,   \* the ids of the batches each host ever queued
          posted,   \* the requests the backend has yet to handle
          devices,  \* the rows of the devices table
          issued,   \* ids that were drawn so far
          tally     \* of each host: starts, logins posted and granted, uuids drawn

identity == <<agent, uuid_file, queued, posted, devices, issued, tally>>

Down     == [at |-> "down", own |-> 0, device_id |-> 0, token |-> FALSE]
Fresh    == issued + 1
Rows(h)  == {d \in devices : d.host = h}
HasRow(i) == \E d \in devices : d.id = i

IdentityInit ==
  /\ agent = [h \in Host |-> Down]
  /\ uuid_file = [h \in Host |-> 0]
  /\ queued = [h \in Host |-> {}]
  /\ posted = {}
  /\ devices = {}
  /\ issued = 0
  /\ tally = [h \in Host |-> [starts |-> 0, logins |-> 0, granted |-> 0, drawn |-> 0]]

-----------------------------------------------------------------------------
(* A process begins; a uuid that is drawn may not reach the file. *)
_load_or_generate_uuid(h) ==
  LET found == uuid_file[h] # 0
      own   == IF found THEN uuid_file[h] ELSE Fresh
  IN  /\ agent[h].at = "down"
      /\ tally[h].starts < MaxStarts
      /\ agent' = [agent EXCEPT ![h] = [at |-> "login", own |-> own, device_id |-> own,
                                        token |-> FALSE]]
      /\ \E saved \in {uuid_file[h], own} : uuid_file' = [uuid_file EXCEPT ![h] = saved]
      /\ issued' = IF found THEN issued ELSE Fresh
      /\ tally' = [tally EXCEPT ![h].starts = @ + 1,
                                ![h].drawn = IF found THEN @ ELSE @ + 1]
      /\ UNCHANGED <<queued, posted, devices>>

(* A fault put in on purpose: login lets its errors out.  The              *)
(* specification never uses it.                                            *)
MutantLogin == {"true", "false", "raises"}

(* What login returns: it catches whatever goes wrong. *)
Login == {"true", "false"}

(* The attempts retry_with_backoff makes, and what the last one gives.     *)
Tries(results) ==
  IF \A i \in 1..Attempts : results[i] = "raises" THEN Attempts
  ELSE CHOOSE i \in 1..Attempts : /\ results[i] # "raises"
                                  /\ \A j \in 1..(i - 1) : results[j] = "raises"

_authenticate(h) ==
  /\ agent[h].at = "login"
  /\ \E results \in [1..Attempts -> Login] :
       LET granted == results[Tries(results)] = "true" IN
       /\ agent' = [agent EXCEPT ![h].at = IF granted THEN "register" ELSE "up",
                                 ![h].token = granted]
       /\ tally' = [tally EXCEPT ![h].logins = @ + Tries(results),
                                 ![h].granted = IF granted THEN @ + 1 ELSE @]
  /\ UNCHANGED <<uuid_file, queued, posted, devices, issued>>

-----------------------------------------------------------------------------
Post(h, id) == [host |-> h, start |-> tally[h].starts, id |-> id]

(* A registration names no id; the backend draws it. *)
_register_device(h) ==
  /\ agent[h].at = "register"
  /\ agent' = [agent EXCEPT ![h].at = "wait"]
  /\ posted' = posted \cup {Post(h, 0)}
  /\ UNCHANGED <<uuid_file, queued, devices, issued, tally>>

(* The row is committed; the answer reaches the agent that waits, or       *)
(* nobody.                                                                 *)
create_device(p) ==
  /\ p.id = 0
  /\ posted' = posted \ {p}
  /\ devices' = devices \cup {[id |-> Fresh, host |-> p.host]}
  /\ issued' = Fresh
  /\ \/ /\ agent[p.host].at = "wait" /\ tally[p.host].starts = p.start
        /\ agent' = [agent EXCEPT ![p.host].at = "up", ![p.host].device_id = Fresh]
     \/ UNCHANGED agent
  /\ UNCHANGED <<uuid_file, queued, tally>>

(* No answer in time, or not the one hoped for: on with the own uuid. *)
GivesUp(h) ==
  /\ agent[h].at = "wait"
  /\ agent' = [agent EXCEPT ![h].at = "up"]
  /\ UNCHANGED <<uuid_file, queued, posted, devices, issued, tally>>

_process_flows(h) ==
  /\ agent[h].at = "up"
  /\ queued' = [queued EXCEPT ![h] = @ \cup {agent[h].device_id}]
  /\ UNCHANGED <<agent, uuid_file, posted, devices, issued, tally>>

(* An upload under an id that has a row changes nothing here; so the ids   *)
(* of batches that were delivered may stay.                                *)
_flush_queue(h) ==
  /\ agent[h].at = "up" /\ agent[h].token
  /\ \E i \in queued[h] : ~HasRow(i) /\ posted' = posted \cup {Post(h, i)}
  /\ UNCHANGED <<agent, uuid_file, queued, devices, issued, tally>>

(* An upload under an id without a row registers it. *)
ingest_upload(p) ==
  /\ p.id # 0
  /\ posted' = posted \ {p}
  /\ devices' = IF HasRow(p.id) THEN devices ELSE devices \cup {[id |-> p.id, host |-> p.host]}
  /\ UNCHANGED <<agent, uuid_file, queued, issued, tally>>

(* The request never arrives, or the backend refuses it. *)
Lost(p) ==
  /\ posted' = posted \ {p}
  /\ UNCHANGED <<agent, uuid_file, queued, devices, issued, tally>>

(* The process ends, in whatever it was doing. *)
Quits(h) ==
  /\ agent[h].at # "down"
  /\ agent' = [agent EXCEPT ![h] = Down]
  /\ UNCHANGED <<uuid_file, queued, posted, devices, issued, tally>>

IdentityNext ==
  \/ \E h \in Host :
       \/ _load_or_generate_uuid(h) \/ _authenticate(h) \/ _register_device(h)
       \/ GivesUp(h) \/ _process_flows(h) \/ _flush_queue(h) \/ Quits(h)
  \/ \E p \in posted : create_device(p) \/ ingest_upload(p) \/ Lost(p)

IdentitySpec == IdentityInit /\ [][IdentityNext]_identity

-----------------------------------------------------------------------------
(* A start costs the backend one login at most, though it is made under a  *)
(* retry policy: with the five attempts of the policy one start with a     *)
(* stale password would lock the account.  A host has no more rows than    *)
(* logins that were granted and uuids it drew, whichever answers were lost *)
(* or came after a restart, and an agent that reports under another id     *)
(* than its own has a row of its host under it (main.py:228-268,           *)
(* retry.py:47-73, device_service.py:26-47, telemetry_service.py:42-55).   *)
StartsAreFrugal ==
  \A h \in Host :
    /\ tally[h].logins <= tally[h].starts
    /\ Cardinality(Rows(h)) <= tally[h].granted + tally[h].drawn
    /\ agent[h].device_id # agent[h].own =>
         [id |-> agent[h].device_id, host |-> h] \in devices
=============================================================================
