----------------------------- MODULE DeviceRegistry -----------------------------
(***************************************************************************)
(* The devices table of the backend and the requests that change it:       *)
(* telemetry and traffic ingestion, heartbeats with their sweep for silent *)
(* devices, and the registration, update and deletion of devices           *)
(* (backend/services/telemetry_service.py, device_service.py,              *)
(* backend/api/v1/traffic.py, backend/api/heartbeat,                       *)
(* database/repositories/device.py).                                       *)
(*                                                                         *)
(* Requests are coroutines of one process, each with a session of its own  *)
(* on PostgreSQL (READ COMMITTED).  A request loads the row of its device, *)
(* and what it writes later are the attributes that differ from the values *)
(* it loaded; an UPDATE or INSERT holds the row until the commit.          *)
(***************************************************************************)
EXTENDS Integers, FiniteSets

CONSTANTS Device,    \* device ids
          Request,   \* requests under way at once
          Verdict,   \* highest risk score in a telemetry payload, 0 for none
          Scores,    \* the scores of the alerts two models raise on traffic, in pairs
          MaxFaults  \* bound: transactions the database aborts

AlertAt      == 50
QuarantineAt == 90

ASSUME RegistryAssumption ==
  /\ Verdict \subseteq 0..100 /\ MaxFaults \in Nat
  /\ Scores \subseteq (AlertAt..100) \X ({0} \cup AlertAt..100) \cup {<<0, 0>>}

VARIABLES row,     \* the committed row of each device
          req,     \* the requests under way
          phantom, \* an alert was shown on the dashboards and never stored
          faults

vars == <<row, req, phantom, faults>>

Status == {"online", "offline", "quarantined"}
Row    == [status : Status \cup {"none"}, risk : Nat, fresh : BOOLEAN, deleted : BOOLEAN]
NoRow  == [status |-> "none", risk |-> 0, fresh |-> FALSE, deleted |-> FALSE]
NewRow == [status |-> "online", risk |-> 0, fresh |-> TRUE, deleted |-> FALSE]

(* loaded is the status and known the risk a request read from the row;    *)
(* verdict and second are the scores it gives the device, one after the    *)
(* other; told: an alert was broadcast; gone records, for a property, that *)
(* the device had been deleted when an ingestion looked for it.  "score"   *)
(* is a traffic request that found its device only after a first miss.     *)
Job == [op : {"none", "ingest", "traffic", "score", "heartbeat", "update"},
        pc : {"idle", "write", "announce", "commit", "sweep"},
        dev : Device \cup {"none"}, verdict : Nat, second : Nat,
        status : Status \cup {"none"}, loaded : Status \cup {"none"}, known : Nat,
        told : BOOLEAN, gone : BOOLEAN]
Idle == [op |-> "none", pc |-> "idle", dev |-> "none", verdict |-> 0, second |-> 0,
         status |-> "none", loaded |-> "none", known |-> 0, told |-> FALSE, gone |-> FALSE]

Init ==
  /\ row = [d \in Device |-> NoRow]
  /\ req = [r \in Request |-> Idle]
  /\ phantom = FALSE
  /\ faults = 0

MutantLoaded(d) == row[d]

(* device_repository.get leaves out deleted rows. *)
Loaded(d) == IF row[d].deleted THEN NoRow ELSE row[d]

MutantHolds(r, d) == req[r].dev = d /\ req[r].pc \in {"write", "announce", "commit"}

(* A traffic request that found no row holds none. *)
Missed(j) == j.op = "traffic" /\ j.loaded = "none"

MutantLate(r, d) == req[r].dev = d /\ req[r].pc = "commit" /\ ~Missed(req[r])

Holds(r, d) == req[r].dev = d /\ req[r].pc \in {"announce", "commit"} /\ ~Missed(req[r])
Free(d)     == \A r \in Request : ~Holds(r, d)

Begin(r, job) ==
  /\ req[r] = Idle
  /\ req' = [req EXCEPT ![r] = job]
  /\ UNCHANGED <<row, phantom, faults>>

Ends(r) == req' = [req EXCEPT ![r] = Idle]

(* The transaction of r is rolled back. *)
Fails(r) == Ends(r) /\ phantom' = (phantom \/ req[r].told)

-----------------------------------------------------------------------------
MutantTouched(now, loaded) == [now EXCEPT !.fresh = TRUE, !.status = "online", !.deleted = FALSE]

(* update_last_seen: an attribute set to the value that was loaded is no   *)
(* change, and the UPDATE leaves it out.                                   *)
Touched(now, loaded) ==
  [now EXCEPT !.fresh = TRUE, !.status = IF loaded = "online" THEN @ ELSE "online"]

MutantScored(mine, s, known, v) ==
  IF v = 0 THEN mine ELSE [mine EXCEPT !.risk = IF v = known THEN @ ELSE v]

(* update_risk_score, where the session has s and known as the status and  *)
(* the risk of the device.                                                 *)
Scored(mine, s, known, v) ==
  IF v = 0 THEN mine
  ELSE [mine EXCEPT !.risk   = IF v = known THEN @ ELSE v,
                    !.status = IF v >= QuarantineAt /\ s # "quarantined" THEN "quarantined"
                                                                          ELSE @]

(* ingest_payload *)
IngestLook(r, d, v) ==
  Begin(r, [Idle EXCEPT !.op = "ingest", !.pc = "write", !.dev = d, !.verdict = v,
                        !.loaded = Loaded(d).status, !.known = Loaded(d).risk,
                        !.gone = row[d].deleted])

IngestFound(r) ==
  /\ req[r].op \in {"ingest", "traffic", "score"} /\ req[r].pc = "write"
  /\ req[r].loaded # "none"
  /\ Free(req[r].dev)
  /\ req' = [req EXCEPT ![r].pc = "announce"]
  /\ UNCHANGED <<row, phantom, faults>>

(* A device the SELECT did not find is registered on the way. *)
IngestRegisters(r) ==
  /\ req[r].op = "ingest" /\ req[r].pc = "write"
  /\ req[r].loaded = "none"
  /\ Free(req[r].dev)
  /\ row[req[r].dev] = NoRow
  /\ req' = [req EXCEPT ![r].pc = "announce"]
  /\ UNCHANGED <<row, phantom, faults>>

(* The row was there although the SELECT did not return it, or another     *)
(* request inserted it: the INSERT violates the primary key, answer 500.   *)
IngestRefused(r) ==
  /\ req[r].op = "ingest" /\ req[r].pc = "write"
  /\ req[r].loaded = "none"
  /\ Free(req[r].dev)
  /\ row[req[r].dev] # NoRow
  /\ Fails(r)
  /\ UNCHANGED <<row, faults>>

(* Flows, predictions and alerts are inserted, and each alert is broadcast *)
(* to the dashboards at once, in the open transaction.                     *)
Announce(r) ==
  /\ req[r].pc = "announce"
  /\ Missed(req[r]) => req[r].verdict = 0
  /\ req' = [req EXCEPT ![r].pc = "commit",
                        ![r].told = @ \/ req[r].verdict >= AlertAt]
  /\ UNCHANGED <<row, phantom, faults>>

(* The row as the transaction leaves it; nobody else writes to it since    *)
(* the UPDATE or the INSERT.                                               *)
Written(r) ==
  LET j    == req[r]
      base == IF j.op = "score" THEN row[j.dev]
              ELSE IF j.loaded = "none" THEN NewRow ELSE Touched(row[j.dev], j.loaded)
      s    == IF j.op = "score" THEN j.loaded ELSE "online"
  IN  Scored(Scored(base, s, j.known, j.verdict), s, j.verdict, j.second)

Commit(r) ==
  /\ req[r].pc = "commit"
  /\ row' = IF Missed(req[r]) THEN row ELSE [row EXCEPT ![req[r].dev] = Written(r)]
  /\ Ends(r)
  /\ UNCHANGED <<phantom, faults>>

(* The database aborts the transaction of a request, which ends with 500;  *)
(* the sweep, a background task, logs the error and ends.                  *)
Abort(r) ==
  /\ req[r].pc # "idle"
  /\ faults < MaxFaults
  /\ faults' = faults + 1
  /\ Fails(r)
  /\ UNCHANGED row

-----------------------------------------------------------------------------
(* ingest_traffic: flows are stored for any device id, registered or not,  *)
(* and update_last_seen loads deleted rows too.  v and w are what the two  *)
(* models make of the flows, where that is an alert; a pipeline that fails *)
(* is passed over.                                                         *)
TrafficLook(r, d, v, w) ==
  Begin(r, [Idle EXCEPT !.op = "traffic", !.pc = "write", !.dev = d,
                        !.verdict = v, !.second = w,
                        !.loaded = row[d].status, !.known = row[d].risk,
                        !.gone = row[d].deleted])

(* Nothing to touch. *)
TrafficMisses(r) ==
  /\ req[r].pc = "write" /\ Missed(req[r])
  /\ req' = [req EXCEPT ![r].pc = "announce"]
  /\ UNCHANGED <<row, phantom, faults>>

(* update_risk_score looks again for each alert, finds no row, and the     *)
(* alert is broadcast all the same.                                        *)
AlertsUnknown(r) ==
  /\ req[r].pc = "announce" /\ Missed(req[r]) /\ req[r].verdict # 0
  /\ row[req[r].dev] = NoRow
  /\ req' = [req EXCEPT ![r].told = TRUE, ![r].verdict = req[r].second, ![r].second = 0]
  /\ UNCHANGED <<row, phantom, faults>>

(* Or a row that was inserted since. *)
ScoreLook(r) ==
  /\ req[r].pc = "announce" /\ Missed(req[r]) /\ req[r].verdict # 0
  /\ row[req[r].dev] # NoRow
  /\ req' = [req EXCEPT ![r].op = "score", ![r].pc = "write",
                        ![r].loaded = row[req[r].dev].status,
                        ![r].known = row[req[r].dev].risk]
  /\ UNCHANGED <<row, phantom, faults>>

-----------------------------------------------------------------------------
(* receive_heartbeat, which loads deleted rows too; the record it means to *)
(* store is never written, its model cannot be imported.                   *)
HeartbeatLook(r, d) ==
  Begin(r, [Idle EXCEPT !.op = "heartbeat", !.dev = d, !.loaded = row[d].status,
                        !.pc = IF row[d] = NoRow THEN "sweep" ELSE "write"])

HeartbeatWrite(r) ==
  /\ req[r].op = "heartbeat" /\ req[r].pc = "write"
  /\ Free(req[r].dev)
  /\ row' = [row EXCEPT ![req[r].dev] = Touched(@, req[r].loaded)]
  /\ req' = [req EXCEPT ![r] = [Idle EXCEPT !.op = "heartbeat", !.dev = req[r].dev,
                                            !.pc = "sweep"]]
  /\ UNCHANGED <<phantom, faults>>

(* A heartbeat of some other device, or of one the table does not have. *)
HeartbeatElsewhere(r) == Begin(r, [Idle EXCEPT !.op = "heartbeat", !.pc = "sweep"])

Silent(d) == row[d].status = "online" /\ ~row[d].fresh

MutantSwept == {d \in Device : row[d].status = "online" /\ row[d].fresh}

Swept == {d \in Device : Silent(d)}

(* mark_stale_devices_offline, the background task of a heartbeat: one     *)
(* UPDATE that waits for the rows other requests hold.                     *)
Sweep(r) ==
  /\ req[r].pc = "sweep"
  /\ \A d \in Swept : Free(d)
  /\ row' = [d \in Device |-> IF d \in Swept THEN [row[d] EXCEPT !.status = "offline"]
                                             ELSE row[d]]
  /\ Ends(r)
  /\ UNCHANGED <<phantom, faults>>

(* 90 seconds pass since the device was last seen. *)
FallsSilent(d) ==
  /\ row[d].fresh
  /\ row' = [row EXCEPT ![d].fresh = FALSE]
  /\ UNCHANGED <<req, phantom, faults>>

-----------------------------------------------------------------------------
(* create_device, under an id of its own *)
Register(d) ==
  /\ row[d] = NoRow
  /\ \A r \in Request : req[r].dev # d
  /\ row' = [row EXCEPT ![d] = NewRow]
  /\ UNCHANGED <<req, phantom, faults>>

(* update_device with a new status, by an analyst *)
UpdateLook(r, d, s) ==
  /\ Loaded(d) # NoRow
  /\ Begin(r, [Idle EXCEPT !.op = "update", !.pc = "write", !.dev = d, !.status = s,
                           !.loaded = Loaded(d).status])

UpdateWrite(r) ==
  /\ req[r].op = "update" /\ req[r].pc = "write"
  /\ \/ /\ req[r].loaded # req[r].status
        /\ Free(req[r].dev)
        /\ row' = [row EXCEPT ![req[r].dev].status = req[r].status]
        /\ Ends(r)
     \/ /\ req[r].loaded = req[r].status
        /\ Ends(r)
        /\ UNCHANGED row
  /\ UNCHANGED <<phantom, faults>>

(* delete_device: soft_delete sets the flag, whatever its value was. *)
Delete(d) ==
  /\ row[d] # NoRow
  /\ Free(d)
  /\ row' = [row EXCEPT ![d].deleted = TRUE]
  /\ UNCHANGED <<req, phantom, faults>>

-----------------------------------------------------------------------------
Arrives(r) ==
  \/ HeartbeatElsewhere(r)
  \/ \E d \in Device : \/ \E v \in Verdict : IngestLook(r, d, v)
                       \/ \E p \in Scores : TrafficLook(r, d, p[1], p[2])
                       \/ HeartbeatLook(r, d)
                       \/ \E s \in Status : UpdateLook(r, d, s)

GoesOn(r) == \/ IngestFound(r) \/ IngestRegisters(r) \/ IngestRefused(r)
             \/ TrafficMisses(r) \/ AlertsUnknown(r) \/ ScoreLook(r)
             \/ Announce(r) \/ Commit(r)
             \/ HeartbeatWrite(r) \/ Sweep(r) \/ UpdateWrite(r)

Next == \/ \E r \in Request : Arrives(r) \/ GoesOn(r) \/ Abort(r)
        \/ \E d \in Device : FallsSilent(d) \/ Register(d) \/ Delete(d)

Spec == Init /\ [][Next]_vars

(* Coroutines are scheduled fairly, row locks are granted in the order of  *)
(* waiting, and a dashboard that does not read its messages is cut off by  *)
(* the server's ping timeout, so a broadcast ends.                         *)
FairSpec == Spec /\ \A r \in Request : SF_vars(GoesOn(r))

-----------------------------------------------------------------------------
(* Type invariant of the table and of the requests. *)
TypeOK ==
  /\ row \in [Device -> Row]
  /\ req \in [Request -> Job]
  /\ \A r \in Request : req[r].pc \notin {"idle", "sweep"} => req[r].dev \in Device
  /\ phantom \in BOOLEAN
  /\ faults \in 0..MaxFaults

(* Deletion is final: no request that loaded the row before it, and writes *)
(* to it afterwards, brings the device back (device.py:42-65).             *)
DeletedForGood == [][\A d \in Device : row[d].deleted => row'[d].deleted]_vars

Stores(r) == req[r].op = "ingest" /\ req[r].pc \in {"announce", "commit"}

(* A telemetry payload is stored for a device its request found alive, or  *)
(* for one that it alone registers: not for a device deleted before the    *)
(* request looked, and not twice by two first payloads that overlap        *)
(* (telemetry_service.py:37-50).  Traffic ingestion makes no such check.   *)
IngestedForLiving ==
  /\ \A r \in Request : Stores(r) => ~req[r].gone
  /\ \A r, q \in Request :
       (Stores(r) /\ req[r].loaded = "none") =>
         /\ row[req[r].dev] = NoRow
         /\ Stores(q) /\ req[q].loaded = "none" /\ req[q].dev = req[r].dev => q = r

(* What an ingestion leaves behind: a device with a verdict of 90 or more  *)
(* is quarantined, and its risk is the last verdict of this request,       *)
(* whatever other requests did meanwhile, unless they changed the value    *)
(* since this one loaded it; of the status that can only happen to traffic *)
(* that found its device late (telemetry_service.py:37-50, 165-167,        *)
(* traffic.py:50-52).                                                      *)
VerdictTakesEffect ==
  [][\A r \in Request :
       (Commit(r) /\ req[r].verdict > 0) =>
         LET j == req[r]
         IN  /\ ((j.verdict >= QuarantineAt \/ j.second >= QuarantineAt)
                   /\ (j.op = "score" => row[j.dev].status = j.loaded))
                  => row'[j.dev].status = "quarantined"
             /\ row[j.dev].risk = j.known
                  => row'[j.dev].risk = IF j.second > 0 THEN j.second ELSE j.verdict]_vars

(* An alert on the dashboards is in the database, or will be, unless the   *)
(* database itself failed: nothing the code does to other rows, and no     *)
(* request for the same device, makes it take back an announced alert      *)
(* (telemetry_service.py:142-157, 191).                                    *)
AnnouncedIsStored == phantom => faults > 0

(* No two requests wait for each other: every request comes to an end. *)
RequestsEnd == \A r \in Request : req[r].pc # "idle" ~> req[r].pc = "idle"

(* As long as heartbeats of any device keep coming, a silent device is     *)
(* marked offline or is seen again (heartbeat/routes.py:71-82).            *)
SilentGoesOffline ==
  []<><<\E r \in Request : Sweep(r)>>_vars => \A d \in Device : Silent(d) ~> ~Silent(d)

-----------------------------------------------------------------------------
(* What the repository says and the code does not do. *)

(* heartbeat/routes.py:37: a heartbeat "Updates device last_seen_at and     *)
(* system metrics": a quarantine ends only by an analyst's update.          *)
QuarantineHolds ==
  [][\A d \in Device : (row[d].status = "quarantined" /\ row'[d].status # "quarantined")
                         => \E r \in Request : UpdateWrite(r)]_vars
=============================================================================
