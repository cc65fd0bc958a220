-------------------------- MODULE DeviceRegistryProofs --------------------------
(***************************************************************************)
(* Theorems about DeviceRegistry, for every set of devices, of requests    *)
(* and of verdicts.  The inductive invariant adds to the properties that   *)
(* at most one transaction holds a device's row, and what each request     *)
(* knows of the row it works on: one that loaded a status found the device *)
(* there for good, one that registers a device is the first to, and a      *)
(* telemetry request that began after the deletion loaded nothing.  And    *)
(* about AgentIdentity, where the devices come from, for every set of      *)
(* hosts.                                                                  *)
(***************************************************************************)
EXTENDS DeviceRegistry, AgentIdentity, TLAPS, FiniteSetTheorems

Writing(j) == j.pc \in {"announce", "commit"}

(* What holds of each request's job with respect to the table. *)
JobInv(j) ==
  /\ j.pc \notin {"idle", "sweep"} => j.dev \in Device
  /\ j.told => (j.pc = "commit" \/ j.op \in {"traffic", "score"})
  /\ Writing(j) => j.op \in {"ingest", "traffic", "score"}
  /\ j.op = "update" => j.status \in Status
  /\ ((j.pc = "write" /\ j.op \notin {"ingest", "traffic"}) \/ j.op = "score")
       => j.loaded # "none"
  /\ j.loaded # "none" => (j.dev \in Device /\ row[j.dev] # NoRow)
  /\ j.gone => (j.dev \in Device /\ row[j.dev] # NoRow)
  /\ (j.gone /\ j.op = "ingest") => j.loaded = "none"
  /\ (Writing(j) /\ j.op = "ingest" /\ j.loaded = "none") => row[j.dev] = NoRow
  /\ (j.pc = "commit" /\ Missed(j)) => j.verdict = 0

(* A request that neither holds a row nor remembers one. *)
Quiet(j) == /\ j.pc \in {"idle", "sweep"} /\ j.op \in {"none", "heartbeat"}
            /\ j.loaded = "none" /\ ~j.told /\ ~j.gone

OneWriter ==
  \A r, q \in Request, d \in Device : (Holds(r, d) /\ Holds(q, d)) => r = q

(* A device without a status is not in the table at all. *)
PresentHasStatus == \A d \in Device : row[d].status = "none" => row[d] = NoRow

TableInv == /\ row \in [Device -> Row]
            /\ req \in [Request -> Job]
            /\ OneWriter /\ PresentHasStatus
            /\ \A r \in Request : JobInv(req[r])

BoundInv == /\ phantom \in BOOLEAN /\ faults \in 0..MaxFaults
            /\ AnnouncedIsStored

IInv == TableInv /\ BoundInv

(* The invariant has the properties of the runs in it. *)
LEMMA InvImplies == IInv => TypeOK /\ IngestedForLiving /\ AnnouncedIsStored
  <1>1. IInv => TypeOK
    BY DEF IInv, TableInv, BoundInv, TypeOK, JobInv
  <1>2. ASSUME IInv, NEW r \in Request, Stores(r)
        PROVE  /\ ~req[r].gone
               /\ req[r].loaded = "none" => row[req[r].dev] = NoRow
               /\ req[r].dev \in Device /\ Holds(r, req[r].dev)
    <2>1. JobInv(req[r]) /\ Writing(req[r]) /\ req[r].op = "ingest"
      BY <1>2 DEF IInv, TableInv, Stores, Writing
    <2> QED BY <2>1 DEF Holds, Missed, Writing, JobInv
  <1>3. IInv => IngestedForLiving
    BY <1>2 DEF IngestedForLiving, IInv, TableInv, OneWriter
  <1> QED BY <1>1, <1>3 DEF IInv, BoundInv

LEMMA IdleJob == Idle \in Job /\ Quiet(Idle) /\ JobInv(Idle)
  BY DEF Idle, Job, Status, Quiet, JobInv, Writing, Missed

(* A step that gives one request a new job and leaves the table alone. *)
LEMMA RequestChanges ==
  ASSUME TableInv, NEW r \in Request, NEW j \in Job,
         req' = [req EXCEPT ![r] = j], row' = row, JobInv(j),
         (Writing(j) /\ ~Missed(j)) => (Free(j.dev) \/ Holds(r, j.dev))
  PROVE  TableInv'
  <1>1. req' \in [Request -> Job]
    BY DEF TableInv
  <1>2. \A q \in Request : req'[q] = IF q = r THEN j ELSE req[q]
    BY DEF TableInv
  <1>3. \A q \in Request : JobInv(req[q])'
    BY <1>2 DEF TableInv, JobInv, Writing, Missed
  <1>4. OneWriter'
    BY <1>2 DEF TableInv, OneWriter, Holds, Free, Writing, Missed
  <1> QED BY <1>1, <1>3, <1>4 DEF TableInv, PresentHasStatus

(* A step that changes rows of devices no other transaction registers, and *)
(* leaves every request as it was or quiet.                                *)
LEMMA TableChanges ==
  ASSUME TableInv, row' \in [Device -> Row], req' \in [Request -> Job],
         \A q \in Request : req'[q] = req[q] \/ Quiet(req'[q]),
         \A d \in Device :
           \/ row'[d] = row[d]
           \/ /\ row'[d].status # "none"
              /\ row[d] # NoRow \/ \A q \in Request : Holds(q, d) => Quiet(req'[q])
  PROVE  TableInv'
  <1>0. NoRow.status = "none"
    BY DEF NoRow
  <1>1. \A d \in Device : row[d] # NoRow => row'[d] # NoRow
    BY <1>0
  <1>2. ASSUME NEW q \in Request PROVE JobInv(req[q])'
    <2>1. CASE Quiet(req'[q])
      BY <2>1 DEF Quiet, JobInv, Writing, Missed
    <2>2. CASE req'[q] = req[q] /\ ~Quiet(req'[q])
      <3>1. JobInv(req[q])
        BY DEF TableInv
      <3>2. (Writing(req[q]) /\ req[q].op = "ingest" /\ req[q].loaded = "none")
              => row'[req[q].dev] = NoRow
        BY <2>2, <3>1 DEF JobInv, Writing, Holds, Missed
      <3> QED BY <2>2, <3>1, <3>2, <1>1 DEF JobInv, Writing, Missed
    <2> QED BY <2>1, <2>2
  <1>3. OneWriter'
    BY DEF TableInv, OneWriter, Holds, Quiet, Missed
  <1>4. PresentHasStatus'
    BY DEF TableInv, PresentHasStatus
  <1> QED BY <1>2, <1>3, <1>4 DEF TableInv

-----------------------------------------------------------------------------
(* The steps *)

LEMMA InitTable == Init => IInv
  <1> SUFFICES ASSUME Init PROVE IInv
    OBVIOUS
  <1>1. row \in [Device -> Row] /\ PresentHasStatus
    BY DEF Init, NoRow, Row, Status, PresentHasStatus
  <1>2. \A r \in Request : JobInv(req[r])
    BY IdleJob DEF Init
  <1>3. req \in [Request -> Job] /\ OneWriter
    BY IdleJob DEF Init, OneWriter, Holds, Quiet
  <1>4. BoundInv
    <2>1. phantom \in BOOLEAN /\ AnnouncedIsStored
      BY Zenon DEF Init, AnnouncedIsStored
    <2>2. faults \in 0..MaxFaults
      BY RegistryAssumption DEF Init
    <2> QED BY <2>1, <2>2 DEF BoundInv
  <1> QED BY <1>1, <1>2, <1>3, <1>4 DEF IInv, TableInv

(* A request arrives: it reads and writes nothing yet. *)
LEMMA ArrivesStep ==
  ASSUME TableInv, NEW r \in Request, Arrives(r)
  PROVE  TableInv' /\ UNCHANGED <<row, phantom, faults>>
  <1>1. ASSUME NEW d \in Device, NEW v \in Verdict, IngestLook(r, d, v) PROVE TableInv'
    <2> DEFINE j == [Idle EXCEPT !.op = "ingest", !.pc = "write", !.dev = d, !.verdict = v,
                                 !.loaded = Loaded(d).status, !.known = Loaded(d).risk,
                                 !.gone = row[d].deleted]
    <2>1. row[d] \in Row /\ Loaded(d) \in Row /\ v \in Nat
      BY RegistryAssumption DEF TableInv, Loaded, NoRow, Row
    <2>2. j \in Job /\ ~Writing(j)
      BY <2>1 DEF Job, Idle, Row, Writing
    <2>3. JobInv(j)
      BY <2>1 DEF JobInv, Idle, Loaded, NoRow, Writing, Row, Missed
    <2>4. req' = [req EXCEPT ![r] = j] /\ row' = row
      BY <1>1 DEF IngestLook, Begin
    <2> HIDE DEF j
    <2> QED BY <2>2, <2>3, <2>4, RequestChanges
  <1>2. ASSUME NEW d \in Device, HeartbeatLook(r, d) PROVE TableInv'
    <2> DEFINE j == [Idle EXCEPT !.op = "heartbeat", !.dev = d, !.loaded = row[d].status,
                                 !.pc = IF row[d] = NoRow THEN "sweep" ELSE "write"]
    <2>1. row[d] \in Row /\ (row[d].status = "none" => row[d] = NoRow)
      BY DEF TableInv, PresentHasStatus
    <2>2. j \in Job /\ ~Writing(j)
      BY <2>1 DEF Job, Idle, Row, Writing
    <2>3. JobInv(j)
      BY <2>1 DEF JobInv, Idle, NoRow, Writing, Row, Missed
    <2>4. req' = [req EXCEPT ![r] = j] /\ row' = row
      BY <1>2 DEF HeartbeatLook, Begin
    <2> HIDE DEF j
    <2> QED BY <2>2, <2>3, <2>4, RequestChanges
  <1>3. ASSUME NEW d \in Device, NEW s \in Status, UpdateLook(r, d, s) PROVE TableInv'
    <2> DEFINE j == [Idle EXCEPT !.op = "update", !.pc = "write", !.dev = d, !.status = s,
                                 !.loaded = Loaded(d).status]
    <2>1. row[d] \in Row /\ Loaded(d) = row[d] /\ row[d] # NoRow /\ row[d].status # "none"
      BY <1>3 DEF TableInv, PresentHasStatus, UpdateLook, Loaded
    <2>2. j \in Job /\ ~Writing(j)
      BY <2>1 DEF Job, Idle, Row, Writing
    <2>3. JobInv(j)
      BY <2>1 DEF JobInv, Idle, Writing, Missed
    <2>4. req' = [req EXCEPT ![r] = j] /\ row' = row
      BY <1>3 DEF UpdateLook, Begin
    <2> HIDE DEF j
    <2> QED BY <2>2, <2>3, <2>4, RequestChanges
  <1>4. ASSUME HeartbeatElsewhere(r) PROVE TableInv'
    <2> DEFINE j == [Idle EXCEPT !.op = "heartbeat", !.pc = "sweep"]
    <2>1. j \in Job /\ ~Writing(j) /\ JobInv(j)
      BY DEF Job, Idle, Status, Writing, JobInv, Missed
    <2>2. req' = [req EXCEPT ![r] = j] /\ row' = row
      BY <1>4 DEF HeartbeatElsewhere, Begin
    <2> HIDE DEF j
    <2> QED BY <2>1, <2>2, RequestChanges
  <1>5. ASSUME NEW d \in Device, NEW p \in Scores, TrafficLook(r, d, p[1], p[2]) PROVE TableInv'
    <2> DEFINE j == [Idle EXCEPT !.op = "traffic", !.pc = "write", !.dev = d,
                                 !.verdict = p[1], !.second = p[2],
                                 !.loaded = row[d].status, !.known = row[d].risk,
                                 !.gone = row[d].deleted]
    <2>1. row[d] \in Row /\ (row[d].status = "none" => row[d] = NoRow)
      BY DEF TableInv, PresentHasStatus
    <2>2. p[1] \in Nat /\ p[2] \in Nat
      BY RegistryAssumption DEF AlertAt
    <2>3. j \in Job /\ ~Writing(j)
      BY <2>1, <2>2 DEF Job, Idle, Row, Writing
    <2>4. JobInv(j)
      BY <2>1 DEF JobInv, Idle, NoRow, Writing, Row, Missed
    <2>5. req' = [req EXCEPT ![r] = j] /\ row' = row
      BY <1>5 DEF TrafficLook, Begin
    <2> HIDE DEF j
    <2> QED BY <2>3, <2>4, <2>5, RequestChanges
  <1>6. UNCHANGED <<row, phantom, faults>>
    BY DEF Arrives, IngestLook, TrafficLook, HeartbeatLook, UpdateLook, HeartbeatElsewhere, Begin
  <1> QED BY <1>1, <1>2, <1>3, <1>4, <1>5, <1>6 DEF Arrives

(* A request that ends, or fails, gives up what it held. *)
LEMMA EndsStep ==
  ASSUME TableInv, NEW r \in Request, Ends(r), row' = row
  PROVE  TableInv'
  <1>1. ~Writing(Idle)
    BY DEF Idle, Writing
  <1> QED BY <1>1, IdleJob, RequestChanges DEF Ends

(* An ingestion takes the row, or goes on without it. *)
LEMMA TakesRow ==
  ASSUME TableInv, NEW r \in Request,
         \/ IngestFound(r) \/ IngestRegisters(r) \/ Announce(r)
         \/ TrafficMisses(r) \/ AlertsUnknown(r) \/ ScoreLook(r)
  PROVE  TableInv' /\ UNCHANGED <<row, phantom, faults>>
  <1>0. req[r] \in Job /\ JobInv(req[r])
    BY DEF TableInv
  <1>1. CASE IngestFound(r) \/ IngestRegisters(r)
    <2> DEFINE j == [req[r] EXCEPT !.pc = "announce"]
    <2>1. req' = [req EXCEPT ![r] = j] /\ UNCHANGED <<row, phantom, faults>>
      BY <1>1, <1>0 DEF IngestFound, IngestRegisters, TableInv
    <2>2. /\ req[r].op \in {"ingest", "traffic", "score"}
          /\ req[r].pc = "write" /\ Free(req[r].dev)
          /\ req[r].loaded = "none" => row[req[r].dev] = NoRow
      BY <1>1 DEF IngestFound, IngestRegisters
    <2>3. j \in Job /\ JobInv(j) /\ Free(j.dev)
      BY <2>2, <1>0 DEF Job, JobInv, Writing, Missed
    <2> HIDE DEF j
    <2> QED BY <2>1, <2>3, RequestChanges
  <1>2. CASE Announce(r)
    <2> DEFINE t == req[r].told \/ req[r].verdict >= AlertAt
               j == [req[r] EXCEPT !.pc = "commit", !.told = t]
    <2>0. t \in BOOLEAN
      OBVIOUS
    <2>1. req' = [req EXCEPT ![r] = j] /\ UNCHANGED <<row, phantom, faults>>
      BY <1>2, <1>0 DEF Announce, TableInv
    <2>2. /\ req[r].pc = "announce" /\ (Missed(req[r]) => req[r].verdict = 0)
          /\ req[r].dev \in Device
      BY <1>2, <1>0 DEF Announce, JobInv
    <2> HIDE DEF t
    <2>3. j \in Job /\ JobInv(j)
      BY <2>0, <2>2, <1>0 DEF Job, JobInv, Writing, Missed
    <2>4. Missed(j) \/ Holds(r, j.dev)
      BY <2>2, <1>0 DEF Holds, Job, Missed
    <2> HIDE DEF j
    <2> QED BY <2>1, <2>3, <2>4, RequestChanges
  <1>3. CASE TrafficMisses(r)
    <2> DEFINE j == [req[r] EXCEPT !.pc = "announce"]
    <2>1. req' = [req EXCEPT ![r] = j] /\ UNCHANGED <<row, phantom, faults>>
      BY <1>3, <1>0 DEF TrafficMisses, TableInv
    <2>2. req[r].pc = "write" /\ req[r].op = "traffic" /\ req[r].loaded = "none"
      BY <1>3 DEF TrafficMisses, Missed
    <2>3. j \in Job /\ JobInv(j) /\ Missed(j)
      BY <2>2, <1>0 DEF Job, JobInv, Writing, Missed
    <2> HIDE DEF j
    <2> QED BY <2>1, <2>3, RequestChanges
  <1>4. CASE AlertsUnknown(r)
    <2> DEFINE j == [req[r] EXCEPT !.told = TRUE, !.verdict = req[r].second, !.second = 0]
    <2>1. req' = [req EXCEPT ![r] = j] /\ UNCHANGED <<row, phantom, faults>>
      BY <1>4, <1>0 DEF AlertsUnknown, TableInv
    <2>2. req[r].pc = "announce" /\ req[r].op = "traffic" /\ req[r].loaded = "none"
      BY <1>4 DEF AlertsUnknown, Missed
    <2>3. j \in Job /\ JobInv(j) /\ Missed(j)
      BY <2>2, <1>0 DEF Job, JobInv, Writing, Missed
    <2> HIDE DEF j
    <2> QED BY <2>1, <2>3, RequestChanges
  <1>5. CASE ScoreLook(r)
    <2> DEFINE d == req[r].dev
               j == [req[r] EXCEPT !.op = "score", !.pc = "write",
                                   !.loaded = row[d].status, !.known = row[d].risk]
    <2>1. req' = [req EXCEPT ![r] = j] /\ UNCHANGED <<row, phantom, faults>>
      BY <1>5, <1>0 DEF ScoreLook, TableInv
    <2>2. /\ req[r].pc = "announce" /\ req[r].op = "traffic" /\ d \in Device
          /\ row[d] # NoRow /\ row[d] \in Row /\ row[d].status # "none"
      BY <1>5, <1>0 DEF ScoreLook, Missed, JobInv, TableInv, PresentHasStatus
    <2>3. row[d].status \in Status /\ row[d].risk \in Nat
      BY <2>2 DEF Row
    <2>4. j \in Job /\ JobInv(j) /\ ~Writing(j)
      BY <2>2, <2>3, <1>0 DEF Job, JobInv, Writing, Missed
    <2> HIDE DEF j
    <2> QED BY <2>1, <2>4, RequestChanges
  <1> QED BY <1>1, <1>2, <1>3, <1>4, <1>5

(* What update_last_seen and update_risk_score make of a row. *)
LEMMA TouchedRow ==
  ASSUME NEW now \in Row, NEW loaded \in Status \cup {"none"}, now.status # "none"
  PROVE  /\ Touched(now, loaded) \in Row
         /\ Touched(now, loaded).status # "none"
         /\ Touched(now, loaded).risk = now.risk
         /\ now.deleted => Touched(now, loaded).deleted
  BY DEF Touched, Row, Status

LEMMA ScoredRow ==
  ASSUME NEW mine \in Row, NEW st \in Status, NEW known \in Nat, NEW v \in Nat,
         mine.status # "none"
  PROVE  /\ Scored(mine, st, known, v) \in Row
         /\ Scored(mine, st, known, v).status # "none"
         /\ mine.deleted => Scored(mine, st, known, v).deleted
         /\ mine.status = "quarantined" => Scored(mine, st, known, v).status = "quarantined"
         /\ (v >= QuarantineAt /\ (st = "quarantined" => mine.status = "quarantined"))
              => Scored(mine, st, known, v).status = "quarantined"
         /\ mine.risk = known => Scored(mine, st, known, v).risk = IF v > 0 THEN v ELSE known
  <1>1. CASE v = 0
    BY <1>1 DEF Scored, QuarantineAt
  <1>2. CASE v # 0
    <2> DEFINE risk == IF v = known THEN mine.risk ELSE v
               hit  == v >= QuarantineAt /\ st # "quarantined"
               stat == IF hit THEN "quarantined" ELSE mine.status
    <2>1. Scored(mine, st, known, v) = [mine EXCEPT !.risk = risk, !.status = stat]
      BY <1>2 DEF Scored
    <2>2. risk \in Nat /\ (mine.risk = known => risk = v)
      BY DEF Row
    <2>3. /\ stat \in Status \cup {"none"} /\ stat # "none"
          /\ mine.status = "quarantined" => stat = "quarantined"
          /\ (v >= QuarantineAt /\ (st = "quarantined" => mine.status = "quarantined"))
               => stat = "quarantined"
      BY DEF Row, Status
    <2> HIDE DEF risk, stat
    <2>4. /\ [mine EXCEPT !.risk = risk, !.status = stat] \in Row
          /\ [mine EXCEPT !.risk = risk, !.status = stat].risk = risk
          /\ [mine EXCEPT !.risk = risk, !.status = stat].status = stat
          /\ [mine EXCEPT !.risk = risk, !.status = stat].deleted = mine.deleted
      BY <2>2, <2>3 DEF Row
    <2>5. v > 0
      BY <1>2
    <2> QED BY <2>1, <2>2, <2>3, <2>4, <2>5
  <1> QED BY <1>1, <1>2

LEMMA FreshRow == NewRow \in Row /\ NewRow.status # "none" /\ ~NewRow.deleted /\ NewRow.risk = 0
  BY DEF NewRow, Row, Status

(* The row an ingestion writes.                                            *)
LEMMA WrittenRow ==
  ASSUME TableInv, NEW r \in Request, req[r].pc = "commit", ~Missed(req[r])
  PROVE  LET j == req[r]
             d == req[r].dev
         IN  /\ d \in Device
             /\ Written(r) \in Row /\ Written(r).status # "none"
             /\ row[d].deleted => Written(r).deleted
             /\ ((j.verdict >= QuarantineAt \/ j.second >= QuarantineAt)
                   /\ (j.op = "score" => row[d].status = j.loaded))
                  => Written(r).status = "quarantined"
             /\ (j.verdict > 0 /\ row[d].risk = j.known)
                  => Written(r).risk = IF j.second > 0 THEN j.second ELSE j.verdict
  <1> DEFINE d  == req[r].dev
             o  == req[r].op
             l  == req[r].loaded
             k  == req[r].known
             v  == req[r].verdict
             w  == req[r].second
             st == IF o = "score" THEN l ELSE "online"
             mine == IF o = "score" THEN row[d] ELSE IF l = "none" THEN NewRow ELSE Touched(row[d], l)
             one == Scored(mine, st, k, v)
             two == Scored(one, st, v, w)
  <1>0. req[r] \in Job /\ JobInv(req[r])
    BY DEF TableInv
  <1>1. /\ d \in Device /\ row[d] \in Row /\ l \in Status \cup {"none"}
        /\ o \in {"ingest", "traffic", "score"} /\ (o # "ingest" => l # "none")
    BY <1>0 DEF JobInv, Job, TableInv, Writing, Missed
  <1>2. k \in Nat /\ v \in Nat /\ w \in Nat
    BY <1>0 DEF Job
  <1>3. l # "none" => row[d].status # "none"
    BY <1>0, <1>1 DEF JobInv, TableInv, PresentHasStatus
  <1>4. st \in Status
    BY <1>1 DEF Status
  <1>5. /\ mine \in Row /\ mine.status # "none"
        /\ row[d].deleted => mine.deleted
        /\ mine.risk = row[d].risk
        /\ (st = "quarantined" /\ row[d].status = l) => mine.status = "quarantined"
    <2>1. CASE o = "score"
      BY <2>1, <1>1, <1>3
    <2>2. CASE o # "score" /\ l = "none"
      <3>1. row[d] = NoRow
        BY <2>2, <1>0, <1>1 DEF JobInv, Writing
      <3> QED BY <2>2, <3>1, FreshRow DEF NoRow
    <2>3. CASE o # "score" /\ l # "none"
      BY <2>3, <1>1, <1>3, TouchedRow
    <2> QED BY <2>1, <2>2, <2>3
  <1>6. Written(r) = two
    BY DEF Written
  <1>7. st = "quarantined" => o = "score"
    OBVIOUS
  <1> HIDE DEF st, mine, k, v, w, l
  <1>8. /\ one \in Row /\ one.status # "none"
        /\ mine.deleted => one.deleted
        /\ mine.status = "quarantined" => one.status = "quarantined"
        /\ (v >= QuarantineAt /\ (st = "quarantined" => mine.status = "quarantined"))
             => one.status = "quarantined"
        /\ mine.risk = k => one.risk = IF v > 0 THEN v ELSE k
    BY <1>2, <1>4, <1>5, ScoredRow
  <1> HIDE DEF one
  <1>9. /\ two \in Row /\ two.status # "none"
        /\ one.deleted => two.deleted
        /\ one.status = "quarantined" => two.status = "quarantined"
        /\ (w >= QuarantineAt /\ (st = "quarantined" => one.status = "quarantined"))
             => two.status = "quarantined"
        /\ one.risk = v => two.risk = IF w > 0 THEN w ELSE v
    BY <1>2, <1>4, <1>8, ScoredRow
  <1> HIDE DEF two
  <1>10. /\ d \in Device
         /\ Written(r) \in Row /\ Written(r).status # "none"
         /\ row[d].deleted => Written(r).deleted
         /\ ((v >= QuarantineAt \/ w >= QuarantineAt) /\ (o = "score" => row[d].status = l))
              => Written(r).status = "quarantined"
         /\ (v > 0 /\ row[d].risk = k) => Written(r).risk = IF w > 0 THEN w ELSE v
    BY <1>1, <1>5, <1>6, <1>7, <1>8, <1>9
  <1> QED BY <1>10 DEF k, v, w, l

(* The commit of an ingestion, with the row it holds or without. *)
LEMMA CommitStep ==
  ASSUME TableInv, NEW r \in Request, Commit(r)
  PROVE  /\ TableInv'
         /\ \A d \in Device : row[d].deleted => row'[d].deleted
  <1> DEFINE d == req[r].dev
  <1>0. req[r] \in Job /\ JobInv(req[r]) /\ req[r].pc = "commit"
    BY DEF TableInv, Commit
  <1>1. CASE Missed(req[r])
    BY <1>1, EndsStep DEF Commit
  <1>2. CASE ~Missed(req[r])
    <2>1. /\ d \in Device /\ Written(r) \in Row /\ Written(r).status # "none"
          /\ row[d].deleted => Written(r).deleted
      BY <1>0, <1>2, WrittenRow
    <2>2. row' = [row EXCEPT ![d] = Written(r)] /\ req' = [req EXCEPT ![r] = Idle]
      BY <1>2 DEF Commit, Ends
    <2>3. row' \in [Device -> Row] /\ req' \in [Request -> Job]
      BY <2>1, <2>2, IdleJob DEF TableInv
    <2>4. \A q \in Request : req'[q] = req[q] \/ Quiet(req'[q])
      BY <2>2, IdleJob DEF TableInv
    <2>5. \A q \in Request : Holds(q, d) => Quiet(req'[q])
      <3>1. Holds(r, d)
        BY <1>0, <1>2 DEF Holds
      <3> QED BY <3>1, <2>1, <2>2, IdleJob DEF TableInv, OneWriter
    <2>6. \A e \in Device :
            \/ row'[e] = row[e]
            \/ /\ row'[e].status # "none"
               /\ row[e] # NoRow \/ \A q \in Request : Holds(q, e) => Quiet(req'[q])
      BY <2>1, <2>2, <2>5 DEF TableInv
    <2>7. \A e \in Device : row[e].deleted => row'[e].deleted
      BY <2>1, <2>2 DEF TableInv
    <2> QED BY <2>3, <2>4, <2>6, <2>7, TableChanges
  <1> QED BY <1>1, <1>2

(* The writes of the other requests, of the sweep and of the clock: each   *)
(* changes rows that are there, or registers a device nobody works on.     *)
KeepsDeleted == \A d \in Device : row[d].deleted => row'[d].deleted

LEMMA HeartbeatWriteStep ==
  ASSUME TableInv, NEW r \in Request, HeartbeatWrite(r)
  PROVE  TableInv' /\ KeepsDeleted
  <1> DEFINE d == req[r].dev
             j == [Idle EXCEPT !.op = "heartbeat", !.dev = d, !.pc = "sweep"]
             t == Touched(row[d], req[r].loaded)
  <1>1. /\ req[r] \in Job /\ d \in Device /\ row[d] \in Row
        /\ req[r].loaded \in Status \cup {"none"} /\ row[d] # NoRow /\ row[d].status # "none"
    BY DEF TableInv, PresentHasStatus, JobInv, HeartbeatWrite, Job
  <1>2. t \in Row /\ t.status # "none" /\ (row[d].deleted => t.deleted)
    BY <1>1, TouchedRow
  <1>3. j \in Job /\ Quiet(j)
    BY <1>1 DEF Job, Idle, Quiet, Status
  <1>4. row' = [row EXCEPT ![d] = t] /\ req' = [req EXCEPT ![r] = j]
    BY DEF HeartbeatWrite
  <1> HIDE DEF t, j, d
  <1>5. TableInv'
    <2>1. row' \in [Device -> Row] /\ req' \in [Request -> Job]
      BY <1>2, <1>3, <1>4 DEF TableInv
    <2>2. \A q \in Request : req'[q] = req[q] \/ Quiet(req'[q])
      BY <1>3, <1>4 DEF TableInv
    <2>3. \A e \in Device : row'[e] = row[e] \/ (row'[e].status # "none" /\ row[e] # NoRow)
      BY <1>1, <1>2, <1>4 DEF TableInv
    <2> QED BY <2>1, <2>2, <2>3, TableChanges
  <1>6. KeepsDeleted
    BY <1>1, <1>2, <1>4 DEF KeepsDeleted, TableInv
  <1> QED BY <1>5, <1>6

LEMMA UpdateWriteStep ==
  ASSUME TableInv, NEW r \in Request, UpdateWrite(r)
  PROVE  TableInv' /\ KeepsDeleted
  <1>1. CASE Ends(r) /\ UNCHANGED row
    BY <1>1, EndsStep DEF KeepsDeleted
  <1>2. CASE Ends(r) /\ row' = [row EXCEPT ![req[r].dev].status = req[r].status]
    <2> DEFINE d == req[r].dev
               t == [row[d] EXCEPT !.status = req[r].status]
    <2>1. d \in Device /\ row[d] \in Row /\ row[d] # NoRow /\ req[r].status \in Status
      BY DEF TableInv, JobInv, UpdateWrite
    <2>2. t \in Row /\ t.status # "none" /\ t.deleted = row[d].deleted
      BY <2>1 DEF Row, Status
    <2>3. row' = [row EXCEPT ![d] = t] /\ req' = [req EXCEPT ![r] = Idle]
      BY <1>2 DEF Ends
    <2> HIDE DEF t, d
    <2>4. row' \in [Device -> Row] /\ req' \in [Request -> Job]
      BY <2>2, <2>3, IdleJob DEF TableInv
    <2>5. \A q \in Request : req'[q] = req[q] \/ Quiet(req'[q])
      BY <2>3, IdleJob DEF TableInv
    <2>6. \A e \in Device : row'[e] = row[e] \/ (row'[e].status # "none" /\ row[e] # NoRow)
      BY <2>1, <2>2, <2>3 DEF TableInv
    <2>7. KeepsDeleted
      BY <2>1, <2>2, <2>3 DEF KeepsDeleted, TableInv
    <2> QED BY <2>4, <2>5, <2>6, <2>7, TableChanges
  <1> QED BY <1>1, <1>2 DEF UpdateWrite

LEMMA SweepStep ==
  ASSUME TableInv, NEW r \in Request, Sweep(r)
  PROVE  TableInv' /\ KeepsDeleted
  <1>1. row' = [d \in Device |-> IF d \in Swept THEN [row[d] EXCEPT !.status = "offline"]
                                                ELSE row[d]]
        /\ req' = [req EXCEPT ![r] = Idle]
    BY DEF Sweep, Ends
  <1>2. \A d \in Device :
          \/ row'[d] = row[d]
          \/ /\ row'[d] = [row[d] EXCEPT !.status = "offline"]
             /\ row[d].status = "online"
    BY <1>1 DEF Swept, Silent
  <1>3. \A d \in Device :
          /\ row'[d] \in Row
          /\ row[d].deleted => row'[d].deleted
          /\ row'[d] = row[d] \/ (row'[d].status # "none" /\ row[d] # NoRow)
    <2> SUFFICES ASSUME NEW d \in Device, row'[d] # row[d]
                 PROVE  /\ row'[d] \in Row /\ row'[d].status # "none"
                        /\ row[d].deleted => row'[d].deleted
                        /\ row[d] # NoRow
      BY DEF TableInv
    <2>1. row[d] \in Row /\ row'[d] = [row[d] EXCEPT !.status = "offline"]
      BY <1>2 DEF TableInv
    <2>2. row[d].status = "online" /\ NoRow.status = "none"
      BY <1>2 DEF NoRow
    <2> QED BY <2>1, <2>2 DEF Row, Status
  <1>4. row' \in [Device -> Row] /\ req' \in [Request -> Job]
    BY <1>1, <1>3, IdleJob DEF TableInv
  <1>5. \A q \in Request : req'[q] = req[q] \/ Quiet(req'[q])
    BY <1>1, IdleJob DEF TableInv
  <1> QED BY <1>3, <1>4, <1>5, TableChanges DEF KeepsDeleted

LEMMA DeviceStep ==
  ASSUME TableInv, NEW d \in Device, FallsSilent(d) \/ Register(d) \/ Delete(d)
  PROVE  TableInv' /\ KeepsDeleted
  <1>1. req' = req
    BY DEF FallsSilent, Register, Delete
  <1>2. PICK t \in Row :
          /\ row' = [row EXCEPT ![d] = t]
          /\ t.status # "none" /\ (row[d].deleted => t.deleted)
          /\ row[d] # NoRow \/ \A q \in Request : ~Holds(q, d)
    <2>1. CASE FallsSilent(d)
      <3> DEFINE t == [row[d] EXCEPT !.fresh = FALSE]
      <3>1. row[d] \in Row /\ row[d] # NoRow /\ row[d].status # "none"
        BY <2>1 DEF FallsSilent, TableInv, PresentHasStatus, NoRow
      <3>2. t \in Row /\ t.status # "none" /\ (row[d].deleted => t.deleted)
        BY <3>1 DEF Row
      <3> QED BY <2>1, <3>1, <3>2 DEF FallsSilent
    <2>2. CASE Register(d)
      <3>1. ~row[d].deleted /\ \A q \in Request : ~Holds(q, d)
        BY <2>2 DEF Register, Holds, NoRow
      <3>2. row' = [row EXCEPT ![d] = NewRow]
        BY <2>2 DEF Register
      <3> QED BY <3>1, <3>2, FreshRow
    <2>3. CASE Delete(d)
      <3> DEFINE t == [row[d] EXCEPT !.deleted = TRUE]
      <3>1. row[d] \in Row /\ row[d] # NoRow /\ row[d].status # "none"
        BY <2>3 DEF Delete, TableInv, PresentHasStatus
      <3>2. t \in Row /\ t.status # "none" /\ t.deleted
        BY <3>1 DEF Row
      <3> QED BY <2>3, <3>1, <3>2 DEF Delete
    <2> QED BY <2>1, <2>2, <2>3
  <1>3. row' \in [Device -> Row] /\ req' \in [Request -> Job]
    BY <1>1, <1>2 DEF TableInv
  <1>4. \A e \in Device :
          \/ row'[e] = row[e]
          \/ /\ row'[e].status # "none"
             /\ row[e] # NoRow \/ \A q \in Request : Holds(q, e) => Quiet(req'[q])
    BY <1>2 DEF TableInv
  <1>5. KeepsDeleted
    BY <1>2 DEF TableInv, KeepsDeleted
  <1> QED BY <1>1, <1>3, <1>4, <1>5, TableChanges

(* All steps of the table, and what becomes of a deleted row. *)
LEMMA TableStep == TableInv /\ [Next]_vars => TableInv' /\ KeepsDeleted
  <1> SUFFICES ASSUME TableInv, [Next]_vars PROVE TableInv' /\ KeepsDeleted
    OBVIOUS
  <1>0. row' = row => KeepsDeleted
    BY DEF KeepsDeleted
  <1>1. CASE UNCHANGED vars
    BY <1>1, <1>0 DEF vars, TableInv, OneWriter, PresentHasStatus, JobInv, Holds, Missed
  <1>2. ASSUME NEW r \in Request, Arrives(r) PROVE TableInv' /\ KeepsDeleted
    BY <1>2, <1>0, ArrivesStep
  <1>3. ASSUME NEW r \in Request, GoesOn(r) PROVE TableInv' /\ KeepsDeleted
    <2>1. CASE \/ IngestFound(r) \/ IngestRegisters(r) \/ Announce(r)
               \/ TrafficMisses(r) \/ AlertsUnknown(r) \/ ScoreLook(r)
      BY <2>1, <1>0, TakesRow
    <2>2. CASE IngestRefused(r)
      BY <2>2, <1>0, EndsStep DEF IngestRefused, Fails
    <2>3. CASE Commit(r)
      BY <2>3, CommitStep DEF KeepsDeleted, TableInv
    <2>4. CASE HeartbeatWrite(r) \/ Sweep(r) \/ UpdateWrite(r)
      BY <2>4, HeartbeatWriteStep, SweepStep, UpdateWriteStep
    <2> QED BY <1>3, <2>1, <2>2, <2>3, <2>4 DEF GoesOn
  <1>4. ASSUME NEW r \in Request, Abort(r) PROVE TableInv' /\ KeepsDeleted
    BY <1>4, <1>0, EndsStep DEF Abort, Fails
  <1>5. ASSUME NEW d \in Device, FallsSilent(d) \/ Register(d) \/ Delete(d)
        PROVE  TableInv' /\ KeepsDeleted
    BY <1>5, DeviceStep
  <1> QED BY <1>1, <1>2, <1>3, <1>4, <1>5 DEF Next

(* Only a transaction the database aborts takes back an announced alert:   *)
(* one refused at the INSERT has announced nothing yet.                    *)
LEMMA BoundStep == IInv /\ [Next]_vars => BoundInv'
  <1> SUFFICES ASSUME IInv, [Next]_vars PROVE BoundInv'
    OBVIOUS
  <1>1. ASSUME UNCHANGED <<phantom, faults>> PROVE BoundInv'
    BY <1>1, Zenon DEF IInv, BoundInv, AnnouncedIsStored
  <1>2. ASSUME NEW r \in Request, IngestRefused(r) PROVE BoundInv'
    <2>1. ~req[r].told /\ faults' = faults
      BY <1>2 DEF IInv, TableInv, JobInv, IngestRefused
    <2>2. phantom' = phantom
      BY <1>2, <2>1, Zenon DEF IInv, BoundInv, IngestRefused, Fails
    <2> QED BY <1>1, <2>1, <2>2
  <1>3. ASSUME NEW r \in Request, Abort(r) PROVE BoundInv'
    <2>1. faults' \in 0..MaxFaults /\ faults' > 0
      BY <1>3, RegistryAssumption DEF IInv, BoundInv, Abort
    <2>2. req[r] \in Job
      BY DEF IInv, TableInv
    <2>3. phantom' \in BOOLEAN
      BY <1>3, <2>2 DEF IInv, BoundInv, Abort, Fails, Job
    <2> QED BY <2>1, <2>3, Zenon DEF BoundInv, AnnouncedIsStored
  <1>4. ASSUME NEW r \in Request, Arrives(r) PROVE BoundInv'
    BY <1>1, <1>4, ArrivesStep DEF IInv
  <1>5. ASSUME NEW r \in Request, GoesOn(r) PROVE BoundInv'
    BY <1>1, <1>2, <1>5 DEF GoesOn, IngestFound, IngestRegisters, Announce, Commit,
                            TrafficMisses, AlertsUnknown, ScoreLook,
                            HeartbeatWrite, Sweep, UpdateWrite
  <1>6. ASSUME NEW d \in Device, FallsSilent(d) \/ Register(d) \/ Delete(d) PROVE BoundInv'
    BY <1>1, <1>6 DEF FallsSilent, Register, Delete
  <1> QED BY <1>1, <1>3, <1>4, <1>5, <1>6 DEF Next, vars

-----------------------------------------------------------------------------
(* The inductive invariant holds in every reachable state. *)
THEOREM Invariance == Spec => []IInv
  <1>1. IInv /\ [Next]_vars => IInv'
    BY TableStep, BoundStep DEF IInv
  <1> QED BY <1>1, InitTable, PTL DEF Spec

(* The table and the requests keep their types (device.py:16-70). *)
THEOREM TypeCorrect == Spec => []TypeOK
  BY Invariance, InvImplies, PTL

(* No telemetry request that looked after the deletion of its device gets  *)
(* past the INSERT, and of several that find none at most one does, before *)
(* anybody else has registered it (telemetry_service.py:37-50).            *)
THEOREM IngestsForLiving == Spec => []IngestedForLiving
  BY Invariance, InvImplies, PTL

(* An alert the dashboards were shown is taken back only by a failure of   *)
(* the database (telemetry_service.py:142-157, 191).                       *)
THEOREM AnnouncedAlertsStored == Spec => []AnnouncedIsStored
  BY Invariance, InvImplies, PTL

(* No interleaving of requests brings a deleted device back                *)
(* (database/repositories/device.py:42-65).                                *)
THEOREM DeletionIsFinal == Spec => DeletedForGood
  <1>1. IInv /\ [Next]_vars => [\A d \in Device : row[d].deleted => row'[d].deleted]_vars
    BY TableStep DEF IInv, KeepsDeleted
  <1> QED BY <1>1, Invariance, PTL DEF Spec, DeletedForGood

(* The commit of an upload with a verdict of 90 or more leaves its device  *)
(* quarantined, and a risk nobody else changed becomes the last verdict    *)
(* (telemetry_service.py:165-167, traffic.py:50-52, device.py:58-65).      *)
THEOREM VerdictIsTaken == Spec => VerdictTakesEffect
  <1> DEFINE Effect == \A r \in Request :
       (Commit(r) /\ req[r].verdict > 0) =>
         LET j == req[r]
         IN  /\ ((j.verdict >= QuarantineAt \/ j.second >= QuarantineAt)
                   /\ (j.op = "score" => row[j.dev].status = j.loaded))
                  => row'[j.dev].status = "quarantined"
             /\ row[j.dev].risk = j.known
                  => row'[j.dev].risk = IF j.second > 0 THEN j.second ELSE j.verdict
  <1>1. IInv => Effect
    <2> SUFFICES ASSUME IInv, NEW r \in Request, Commit(r), req[r].verdict > 0
                 PROVE  LET j == req[r]
                        IN  /\ ((j.verdict >= QuarantineAt \/ j.second >= QuarantineAt)
                                  /\ (j.op = "score" => row[j.dev].status = j.loaded))
                                 => row'[j.dev].status = "quarantined"
                            /\ row[j.dev].risk = j.known
                                 => row'[j.dev].risk = IF j.second > 0 THEN j.second ELSE j.verdict
      BY Zenon
    <2>1. req[r].pc = "commit" /\ TableInv /\ ~Missed(req[r])
      BY DEF Commit, IInv, TableInv, JobInv
    <2>2. req[r].dev \in Device
      BY <2>1, WrittenRow
    <2>3. row'[req[r].dev] = Written(r)
      BY <2>1, <2>2 DEF Commit, TableInv
    <2> QED BY <2>1, <2>3, WrittenRow
  <1>2. IInv /\ [Next]_vars => [Effect]_vars
    BY <1>1
  <1> QED BY <1>2, Invariance, PTL DEF Spec, VerdictTakesEffect

-----------------------------------------------------------------------------
(* The ids of the agents.                                                  *)
Process(n) == [at : {"down", "login", "register", "wait", "up"},
               own : 0..n, device_id : 0..n, token : BOOLEAN]
Tally      == [starts : Nat, logins : Nat, granted : Nat, drawn : Nat]

IdentityTypes ==
  /\ agent \in [Host -> Process(issued)]
  /\ uuid_file \in [Host -> 0..issued]
  /\ queued \in [Host -> SUBSET (1..issued)]
  /\ posted \subseteq [host : Host, start : Nat, id : 0..issued]
  /\ devices \subseteq [id : 1..issued, host : Host]
  /\ issued \in Nat
  /\ tally \in [Host -> Tally]

(* The ids a host has, or may still bring to the backend, and the starts   *)
(* whose registration may still insert a row.                              *)
Ids(h) ==
  {i \in 1..issued : \/ i = agent[h].own \/ i = uuid_file[h] \/ i \in queued[h]
                     \/ \E d \in devices : d.host = h /\ d.id = i
                     \/ \E p \in posted : p.host = h /\ p.id = i}

Registering(h) ==
  {n \in 0..tally[h].starts : \/ agent[h].at = "register" /\ n = tally[h].starts
                              \/ \E p \in posted : p.host = h /\ p.id = 0 /\ p.start = n}

(* A start posts one registration, after its login was granted.            *)
PostsInv(h) ==
  \A p \in posted :
    p.host = h /\ p.id = 0 =>
      /\ p.start <= tally[h].starts
      /\ p.start = tally[h].starts => agent[h].at \notin {"login", "register"}

HostInv(h) ==
  /\ tally[h].logins + (IF agent[h].at = "login" THEN 1 ELSE 0) <= tally[h].starts
  /\ PostsInv(h)
  /\ Cardinality(Ids(h)) + Cardinality(Registering(h)) <= tally[h].granted + tally[h].drawn
  /\ agent[h].device_id # agent[h].own => [id |-> agent[h].device_id, host |-> h] \in devices
  /\ agent[h].at # "down" => agent[h].own # 0

IdentityInv == IdentityTypes /\ \A h \in Host : HostInv(h)

LEMMA IdsAreFinite ==
  ASSUME IdentityTypes, NEW h \in Host
  PROVE  /\ IsFiniteSet(Ids(h)) /\ Cardinality(Ids(h)) \in Nat
         /\ IsFiniteSet(Registering(h)) /\ Cardinality(Registering(h)) \in Nat
<1>1. IsFiniteSet(1..issued) /\ IsFiniteSet(0..tally[h].starts)
  BY FS_Interval DEF IdentityTypes, Tally
<1>2. Ids(h) \in SUBSET (1..issued) /\ Registering(h) \in SUBSET (0..tally[h].starts)
  BY DEF Ids, Registering
<1> QED BY <1>1, <1>2, FS_Subset, FS_CardinalityType

(* A set that gains at most one element grows by one at most.              *)
LEMMA AtMostOneMore ==
  ASSUME NEW S, IsFiniteSet(S), NEW x, NEW T, T \subseteq S \cup {x}
  PROVE  Cardinality(T) \in Nat /\ Cardinality(T) <= Cardinality(S) + 1
<1>0. Cardinality(S) \in Nat BY FS_CardinalityType
<1>1. IsFiniteSet(S \cup {x}) /\ Cardinality(S \cup {x}) <= Cardinality(S) + 1
  BY <1>0, FS_AddElement
<1>2. Cardinality(T) <= Cardinality(S \cup {x}) /\ IsFiniteSet(T)
  BY <1>1, FS_Subset
<1> QED BY <1>1, <1>2, FS_CardinalityType

LEMMA NoMore ==
  ASSUME NEW S, IsFiniteSet(S), NEW T, T \subseteq S
  PROVE  Cardinality(T) \in Nat /\ Cardinality(T) <= Cardinality(S)
  BY FS_Subset, FS_CardinalityType

LEMMA OneLess ==
  ASSUME NEW S, IsFiniteSet(S), NEW x \in S, NEW T, T \subseteq S \ {x}
  PROVE  Cardinality(T) \in Nat /\ Cardinality(T) <= Cardinality(S) - 1
<1>1. IsFiniteSet(S \ {x}) /\ Cardinality(S \ {x}) = Cardinality(S) - 1
  BY FS_RemoveElement
<1> QED BY <1>1, FS_Subset, FS_CardinalityType

(* login never raises, so its first result is the last.                    *)
LEMMA OneTry ==
  ASSUME NEW results \in [1..Attempts -> Login]
  PROVE  Tries(results) = 1
<1>1. 1 \in 1..Attempts BY IdentityAssumption
<1>2. \A i \in 1..Attempts : results[i] # "raises" BY DEF Login
<1>3. ~(\A i \in 1..Attempts : results[i] = "raises") BY <1>1, <1>2
<1> DEFINE First(i) == results[i] # "raises" /\ \A j \in 1..(i - 1) : results[j] = "raises"
<1>4. First(1) BY <1>1, <1>2
<1>5. ASSUME NEW i \in 1..Attempts, First(i) PROVE i = 1
  <2> SUFFICES ASSUME i # 1 PROVE FALSE
    OBVIOUS
  <2>1. 1 \in 1..(i - 1) BY IdentityAssumption
  <2> QED BY <1>1, <1>2, <1>5, <2>1
<1> HIDE DEF First
<1>6. (CHOOSE i \in 1..Attempts : First(i)) = 1
  BY <1>1, <1>4, <1>5
<1> QED BY <1>3, <1>6 DEF Tries, First

LEMMA IdentityInitInv == IdentityInit => IdentityInv
<1> SUFFICES ASSUME IdentityInit PROVE IdentityInv
  OBVIOUS
<1>1. IdentityTypes BY DEF IdentityInit, IdentityTypes, Down, Process, Tally
<1>2. ASSUME NEW h \in Host PROVE HostInv(h)
  <2>1. Ids(h) = {} /\ Registering(h) = {}
    BY DEF IdentityInit, Ids, Registering, Down
  <2>2. Cardinality(Ids(h)) = 0 /\ Cardinality(Registering(h)) = 0
    BY <2>1, FS_EmptySet
  <2>3. PostsInv(h) BY DEF IdentityInit, PostsInv
  <2>4. /\ tally[h].logins = 0 /\ tally[h].starts = 0 /\ tally[h].granted = 0
        /\ tally[h].drawn = 0 /\ agent[h].at = "down" /\ agent[h].device_id = agent[h].own
    BY DEF IdentityInit, Down
  <2> QED BY <2>2, <2>3, <2>4 DEF HostInv
<1> QED BY <1>1, <1>2 DEF IdentityInv

(* The sum of the two counts of a host, before a step.                     *)
LEMMA HostCounts ==
  ASSUME IdentityInv, NEW h \in Host
  PROVE  /\ Cardinality(Ids(h)) + Cardinality(Registering(h)) <= tally[h].granted + tally[h].drawn
         /\ IsFiniteSet(Ids(h)) /\ IsFiniteSet(Registering(h))
         /\ Cardinality(Ids(h)) \in Nat /\ Cardinality(Registering(h)) \in Nat
         /\ tally[h].granted \in Nat /\ tally[h].drawn \in Nat
         /\ tally[h].starts \in Nat /\ tally[h].logins \in Nat
  BY IdsAreFinite DEF IdentityInv, HostInv, IdentityTypes, Tally

(* A step after which a host has no more ids and registrations than before.*)
LEMMA HostKeeps ==
  ASSUME IdentityInv, NEW h \in Host, tally'[h] = tally[h],
         Ids(h)' \subseteq Ids(h), Registering(h)' \subseteq Registering(h), PostsInv(h)',
         agent'[h].at # "login" \/ agent'[h].at = agent[h].at,
         agent'[h].device_id # agent'[h].own =>
           [id |-> agent'[h].device_id, host |-> h] \in devices',
         agent'[h].at # "down" => agent'[h].own # 0
  PROVE  HostInv(h)'
<1>1. /\ Cardinality(Ids(h)') \in Nat /\ Cardinality(Ids(h)') <= Cardinality(Ids(h))
      /\ Cardinality(Registering(h)') \in Nat
      /\ Cardinality(Registering(h)') <= Cardinality(Registering(h))
  BY HostCounts, NoMore
<1>2. Cardinality(Ids(h)') + Cardinality(Registering(h)') <= tally'[h].granted + tally'[h].drawn
  BY <1>1, HostCounts
<1>3. tally'[h].logins + (IF agent'[h].at = "login" THEN 1 ELSE 0) <= tally'[h].starts
  <2>1. tally[h].logins + (IF agent[h].at = "login" THEN 1 ELSE 0) <= tally[h].starts
    BY DEF IdentityInv, HostInv
  <2> QED BY <2>1, HostCounts
<1> QED BY <1>2, <1>3 DEF HostInv

(* A step that changes nothing of a host but posts of it that go.          *)
LEMMA HostIsLeft ==
  ASSUME IdentityInv, IdentityTypes', NEW h \in Host,
         agent'[h] = agent[h], uuid_file'[h] = uuid_file[h], queued'[h] = queued[h],
         tally'[h] = tally[h], devices \subseteq devices', \A d \in devices' : d.host = h => d \in devices,
         \A p \in posted' : p.host = h => p \in posted
  PROVE  HostInv(h)'
<1>1. HostInv(h) /\ IdentityTypes
  BY DEF IdentityInv
<1>2. Ids(h)' \subseteq Ids(h)
  BY <1>1 DEF Ids, IdentityTypes, Process
<1>3. Registering(h)' \subseteq Registering(h)
  BY DEF Registering
<1>4. PostsInv(h)'
  BY <1>1 DEF PostsInv, HostInv
<1> QED BY <1>1, <1>2, <1>3, <1>4, HostKeeps DEF HostInv

LEMMA StartedTally ==
  ASSUME NEW t \in [Host -> Tally], NEW h \in Host, NEW f \in BOOLEAN
  PROVE [t EXCEPT ![h].starts = @ + 1, ![h].drawn = IF f THEN @ ELSE @ + 1] \in [Host -> Tally]
<1> DEFINE u == [t EXCEPT ![h].starts = @ + 1]
<1>1. u \in [Host -> Tally] BY DEF Tally
<1>2. [t EXCEPT ![h].starts = @ + 1, ![h].drawn = IF f THEN @ ELSE @ + 1]
        = [u EXCEPT ![h].drawn = IF f THEN @ ELSE @ + 1]
  BY DEF Tally
<1> HIDE DEF u
<1>3. CASE f BY <1>1, <1>2, <1>3 DEF Tally
<1>4. CASE ~f BY <1>1, <1>2, <1>4 DEF Tally
<1> QED BY <1>3, <1>4

LEMMA LoginTally ==
  ASSUME NEW t \in [Host -> Tally], NEW h \in Host, NEW f \in BOOLEAN, NEW k \in Nat
  PROVE [t EXCEPT ![h].logins = @ + k, ![h].granted = IF f THEN @ + 1 ELSE @] \in [Host -> Tally]
<1> DEFINE u == [t EXCEPT ![h].logins = @ + k]
<1>1. u \in [Host -> Tally] BY DEF Tally
<1>2. [t EXCEPT ![h].logins = @ + k, ![h].granted = IF f THEN @ + 1 ELSE @]
        = [u EXCEPT ![h].granted = IF f THEN @ + 1 ELSE @]
  BY DEF Tally
<1> HIDE DEF u
<1>3. CASE f BY <1>1, <1>2, <1>3 DEF Tally
<1>4. CASE ~f BY <1>1, <1>2, <1>4 DEF Tally
<1> QED BY <1>3, <1>4

LEMMA LoginProcess ==
  ASSUME NEW n \in Nat, NEW t \in [Host -> Process(n)], NEW h \in Host, NEW a \in {"up", "register"}, NEW k \in BOOLEAN
  PROVE [t EXCEPT ![h].at = a, ![h].token = k] \in [Host -> Process(n)]
<1> DEFINE u == [t EXCEPT ![h].at = a]
<1>1. u \in [Host -> Process(n)] BY DEF Process
<1>2. [t EXCEPT ![h].at = a, ![h].token = k] = [u EXCEPT ![h].token = k]
  BY DEF Process
<1> HIDE DEF u
<1> QED BY <1>1, <1>2 DEF Process

LEMMA NamedProcess ==
  ASSUME NEW n \in Nat, NEW t \in [Host -> Process(n)], NEW h \in Host, NEW i \in 0..n
  PROVE [t EXCEPT ![h].at = "up", ![h].device_id = i] \in [Host -> Process(n)]
<1> DEFINE u == [t EXCEPT ![h].at = "up"]
<1>1. u \in [Host -> Process(n)] BY DEF Process
<1>2. [t EXCEPT ![h].at = "up", ![h].device_id = i] = [u EXCEPT ![h].device_id = i]
  BY DEF Process
<1> HIDE DEF u
<1> QED BY <1>1, <1>2 DEF Process

LEMMA StartStep ==
  ASSUME IdentityInv, NEW h \in Host, _load_or_generate_uuid(h)
  PROVE  IdentityInv'
<1> DEFINE found == uuid_file[h] # 0
           own   == IF found THEN uuid_file[h] ELSE Fresh
<1>1. /\ agent[h].at = "down" /\ queued' = queued /\ posted' = posted /\ devices' = devices
      /\ agent' = [agent EXCEPT ![h] = [at |-> "login", own |-> own, device_id |-> own,
                                        token |-> FALSE]]
      /\ issued' = IF found THEN issued ELSE Fresh
      /\ tally' = [tally EXCEPT ![h].starts = @ + 1, ![h].drawn = IF found THEN @ ELSE @ + 1]
  BY DEF _load_or_generate_uuid
<1>2. PICK saved \in {uuid_file[h], own} : uuid_file' = [uuid_file EXCEPT ![h] = saved]
  BY DEF _load_or_generate_uuid
<1>3. IdentityTypes BY DEF IdentityInv
<1>4. /\ issued \in Nat /\ issued' \in Nat /\ issued <= issued' /\ own \in 0..issued'
      /\ uuid_file[h] \in 0..issued
  BY <1>1, <1>3 DEF IdentityTypes, Fresh
<1> HIDE DEF own
<1>t. tally' \in [Host -> Tally]
  BY <1>1, <1>3, StartedTally DEF IdentityTypes
<1>5. IdentityTypes'
  <2>1. agent' \in [Host -> Process(issued')]
    BY <1>1, <1>3, <1>4 DEF IdentityTypes, Process
  <2>2. uuid_file' \in [Host -> 0..issued'] /\ queued' \in [Host -> SUBSET (1..issued')]
    <3>1. queued' \in [Host -> SUBSET (1..issued)]
      BY <1>1, <1>3 DEF IdentityTypes
    <3>2. 1..issued \subseteq 1..issued'
      BY <1>4
    <3>3. queued' \in [Host -> SUBSET (1..issued')]
      BY <3>1, <3>2, Zenon
    <3> QED BY <1>2, <1>3, <1>4, <3>3 DEF IdentityTypes
  <2>3. posted' \subseteq [host : Host, start : Nat, id : 0..issued']
    BY <1>1, <1>3, <1>4 DEF IdentityTypes
  <2>4. devices' \subseteq [id : 1..issued', host : Host]
    BY <1>1, <1>3, <1>4 DEF IdentityTypes
  <2> QED BY <2>1, <2>2, <2>3, <2>4, <1>4, <1>t DEF IdentityTypes
<1>6. ASSUME NEW g \in Host \ {h} PROVE HostInv(g)'
  <2>1. agent'[g] = agent[g] /\ uuid_file'[g] = uuid_file[g] /\ tally'[g] = tally[g]
    BY <1>1, <1>2, <1>3 DEF IdentityTypes, Tally, Process
  <2> QED BY <1>1, <1>5, <2>1, HostIsLeft
<1>7. HostInv(h)'
  <2>1. /\ agent'[h].at = "login" /\ agent'[h].own = own /\ agent'[h].device_id = own
        /\ uuid_file'[h] = saved /\ tally'[h].starts = tally[h].starts + 1
        /\ tally'[h].logins = tally[h].logins /\ tally'[h].granted = tally[h].granted
        /\ tally'[h].drawn = IF found THEN tally[h].drawn ELSE tally[h].drawn + 1
    BY <1>1, <1>2, <1>3 DEF IdentityTypes, Tally, Process
  <2>2. Ids(h)' \subseteq IF found THEN Ids(h) ELSE Ids(h) \cup {Fresh}
    <3>1. /\ posted \subseteq [host : Host, start : Nat, id : 0..issued]
          /\ devices \subseteq [id : 1..issued, host : Host] /\ queued[h] \subseteq 1..issued
      BY <1>3 DEF IdentityTypes
    <3>2. CASE found
      BY <3>1, <3>2, <1>1, <1>2, <1>4, <2>1 DEF Ids, own
    <3>3. CASE ~found
      BY <3>1, <3>3, <1>1, <1>2, <1>4, <2>1 DEF Ids, own, Fresh
    <3> QED BY <3>2, <3>3
  <2>3. Registering(h)' \subseteq Registering(h)
    <3>1. PostsInv(h) /\ tally[h].starts \in Nat
      BY HostCounts DEF IdentityInv, HostInv
    <3> QED BY <1>1, <2>1, <3>1 DEF Registering, PostsInv
  <2>4. PostsInv(h)'
    <3>1. PostsInv(h) /\ tally[h].starts \in Nat /\ \A p \in posted : p.start \in Nat
      BY <1>3, HostCounts DEF IdentityInv, HostInv, IdentityTypes
    <3> QED BY <1>1, <2>1, <3>1 DEF PostsInv
  <2>5. Cardinality(Ids(h)') + Cardinality(Registering(h)') <= tally'[h].granted + tally'[h].drawn
    <3>1. /\ Cardinality(Registering(h)') \in Nat
          /\ Cardinality(Registering(h)') <= Cardinality(Registering(h))
      BY <2>3, HostCounts, NoMore
    <3>2. CASE found
      <4>1. Cardinality(Ids(h)') \in Nat /\ Cardinality(Ids(h)') <= Cardinality(Ids(h))
        BY <2>2, <3>2, HostCounts, NoMore
      <4> QED BY <2>1, <3>1, <3>2, <4>1, HostCounts
    <3>3. CASE ~found
      <4>1. Cardinality(Ids(h)') \in Nat /\ Cardinality(Ids(h)') <= Cardinality(Ids(h)) + 1
        BY <2>2, <3>3, HostCounts, AtMostOneMore
      <4> QED BY <2>1, <3>1, <3>3, <4>1, HostCounts
    <3> QED BY <3>2, <3>3
  <2>6. tally[h].logins <= tally[h].starts
    <3>1. tally[h].logins + (IF agent[h].at = "login" THEN 1 ELSE 0) <= tally[h].starts
      BY DEF IdentityInv, HostInv
    <3> QED BY <1>1, <3>1, HostCounts
  <2>7. own # 0
    BY <1>3, <1>4 DEF own, Fresh
  <2> QED BY <2>1, <2>4, <2>5, <2>6, <2>7, HostCounts DEF HostInv
<1> QED BY <1>5, <1>6, <1>7 DEF IdentityInv

LEMMA LoginStep ==
  ASSUME IdentityInv, NEW h \in Host, _authenticate(h)
  PROVE  IdentityInv'
<1>1. PICK results \in [1..Attempts -> Login] :
        LET granted == results[Tries(results)] = "true" IN
        /\ agent' = [agent EXCEPT ![h].at = IF granted THEN "register" ELSE "up",
                                  ![h].token = granted]
        /\ tally' = [tally EXCEPT ![h].logins = @ + Tries(results),
                                  ![h].granted = IF granted THEN @ + 1 ELSE @]
  BY DEF _authenticate
<1> DEFINE granted == results[1] = "true"
           at      == IF granted THEN "register" ELSE "up"
<1>2. /\ agent' = [agent EXCEPT ![h].at = at, ![h].token = granted]
      /\ tally' = [tally EXCEPT ![h].logins = @ + 1, ![h].granted = IF granted THEN @ + 1 ELSE @]
  BY <1>1, OneTry
<1>3. granted \in BOOLEAN /\ at \in {"up", "register"}
  OBVIOUS
<1>4. /\ agent[h].at = "login" /\ uuid_file' = uuid_file /\ queued' = queued /\ posted' = posted
      /\ devices' = devices /\ issued' = issued
  BY DEF _authenticate
<1>5. IdentityTypes BY DEF IdentityInv
<1> HIDE DEF granted, at
<1>6. IdentityTypes'
  <2>1. agent' \in [Host -> Process(issued)]
    BY <1>2, <1>3, <1>5, LoginProcess DEF IdentityTypes
  <2>2. tally' \in [Host -> Tally]
    BY <1>2, <1>3, <1>5, LoginTally DEF IdentityTypes
  <2> QED BY <2>1, <2>2, <1>4, <1>5 DEF IdentityTypes
<1>7. ASSUME NEW g \in Host \ {h} PROVE HostInv(g)'
  <2>1. agent'[g] = agent[g] /\ tally'[g] = tally[g]
    BY <1>2, <1>5 DEF IdentityTypes, Tally, Process
  <2> QED BY <1>4, <1>6, <2>1, HostIsLeft
<1>8. HostInv(h)'
  <2>1. /\ agent'[h].at = at /\ agent'[h].own = agent[h].own
        /\ agent'[h].device_id = agent[h].device_id
        /\ tally'[h].starts = tally[h].starts /\ tally'[h].logins = tally[h].logins + 1
        /\ tally'[h].granted = (IF granted THEN tally[h].granted + 1 ELSE tally[h].granted)
        /\ tally'[h].drawn = tally[h].drawn
    BY <1>2, <1>5 DEF IdentityTypes, Tally, Process
  <2>2. Ids(h)' \subseteq Ids(h)
    BY <1>4, <2>1 DEF Ids
  <2>3. Registering(h)' \subseteq IF granted THEN Registering(h) \cup {tally[h].starts}
                                 ELSE Registering(h)
    BY <1>4, <2>1 DEF Registering, at
  <2>4. PostsInv(h)'
    <3>1. PostsInv(h) BY DEF IdentityInv, HostInv
    <3> QED BY <1>4, <2>1, <3>1 DEF PostsInv
  <2>5. Cardinality(Ids(h)') + Cardinality(Registering(h)') <= tally'[h].granted + tally'[h].drawn
    <3>1. Cardinality(Ids(h)') \in Nat /\ Cardinality(Ids(h)') <= Cardinality(Ids(h))
      BY <2>2, HostCounts, NoMore
    <3>2. CASE granted
      <4>1. /\ Cardinality(Registering(h)') \in Nat
            /\ Cardinality(Registering(h)') <= Cardinality(Registering(h)) + 1
        BY <2>3, <3>2, HostCounts, AtMostOneMore
      <4> QED BY <2>1, <3>1, <3>2, <4>1, HostCounts, SMTT(20)
    <3>3. CASE ~granted
      <4>1. /\ Cardinality(Registering(h)') \in Nat
            /\ Cardinality(Registering(h)') <= Cardinality(Registering(h))
        BY <2>3, <3>3, HostCounts, NoMore
      <4> QED BY <2>1, <3>1, <3>3, <4>1, HostCounts
    <3> QED BY <3>2, <3>3
  <2>6. tally[h].logins + 1 <= tally[h].starts /\ at # "login"
    <3>1. tally[h].logins + (IF agent[h].at = "login" THEN 1 ELSE 0) <= tally[h].starts
      BY DEF IdentityInv, HostInv
    <3> QED BY <1>3, <1>4, <3>1, HostCounts
  <2>7. agent'[h].device_id # agent'[h].own =>
          [id |-> agent'[h].device_id, host |-> h] \in devices'
    BY <1>4, <2>1 DEF IdentityInv, HostInv
  <2>8. agent'[h].own # 0
    BY <1>4, <2>1 DEF IdentityInv, HostInv
  <2> QED BY <2>1, <2>4, <2>5, <2>6, <2>7, <2>8, HostCounts DEF HostInv
<1> QED BY <1>6, <1>7, <1>8 DEF IdentityInv

LEMMA RegisterStep ==
  ASSUME IdentityInv, NEW h \in Host, _register_device(h)
  PROVE  IdentityInv'
<1>1. /\ agent[h].at = "register" /\ agent' = [agent EXCEPT ![h].at = "wait"]
      /\ posted' = posted \cup {Post(h, 0)} /\ queued' = queued
      /\ uuid_file' = uuid_file /\ devices' = devices /\ issued' = issued /\ tally' = tally
  BY DEF _register_device
<1>2. IdentityTypes BY DEF IdentityInv
<1>3. Post(h, 0) = [host |-> h, start |-> tally[h].starts, id |-> 0]
  BY DEF Post
<1>4. IdentityTypes'
  <2>1. agent' \in [Host -> Process(issued)]
    BY <1>1, <1>2 DEF IdentityTypes, Process
  <2>2. posted' \subseteq [host : Host, start : Nat, id : 0..issued]
    BY <1>1, <1>2, <1>3 DEF IdentityTypes, Tally
  <2> QED BY <2>1, <2>2, <1>1, <1>2 DEF IdentityTypes
<1>5. ASSUME NEW g \in Host \ {h} PROVE HostInv(g)'
  <2>1. agent'[g] = agent[g] /\ \A p \in posted' : p.host = g => p \in posted
    BY <1>1, <1>2, <1>3 DEF IdentityTypes
  <2> QED BY <1>1, <1>4, <2>1, HostIsLeft
<1>6. HostInv(h)'
  <2>1. /\ agent'[h].at = "wait" /\ agent'[h].own = agent[h].own
        /\ agent'[h].device_id = agent[h].device_id
    BY <1>1, <1>2 DEF IdentityTypes, Process
  <2>2. Ids(h)' \subseteq Ids(h)
    BY <1>1, <1>3, <2>1 DEF Ids
  <2>3. Registering(h)' \subseteq Registering(h)
    BY <1>1, <1>3, <2>1, HostCounts DEF Registering
  <2>4. PostsInv(h)'
    <3>1. PostsInv(h) /\ tally[h].starts \in Nat BY HostCounts DEF IdentityInv, HostInv
    <3> QED BY <1>1, <1>3, <2>1, <3>1 DEF PostsInv
  <2>5. agent'[h].device_id # agent'[h].own =>
          [id |-> agent'[h].device_id, host |-> h] \in devices'
    BY <1>1, <2>1 DEF IdentityInv, HostInv
  <2>6. agent'[h].own # 0
    BY <1>1, <2>1 DEF IdentityInv, HostInv
  <2> QED BY <1>1, <2>1, <2>2, <2>3, <2>4, <2>5, <2>6, HostKeeps
<1> QED BY <1>4, <1>5, <1>6 DEF IdentityInv

LEMMA CreateStep ==
  ASSUME IdentityInv, NEW p \in posted, create_device(p)
  PROVE  IdentityInv'
<1> DEFINE h == p.host
<1>1. /\ p.id = 0 /\ posted' = posted \ {p} /\ issued' = Fresh
      /\ devices' = devices \cup {[id |-> Fresh, host |-> h]}
      /\ uuid_file' = uuid_file /\ queued' = queued /\ tally' = tally
      /\ \/ agent' = [agent EXCEPT ![h].at = "up", ![h].device_id = Fresh]
         \/ agent' = agent
      /\ agent[h].at = "wait" \/ agent' = agent
  BY DEF create_device
<1>2. IdentityTypes BY DEF IdentityInv
<1>3. /\ h \in Host /\ p.start \in Nat /\ issued \in Nat /\ Fresh = issued + 1
      /\ p = [host |-> h, start |-> p.start, id |-> 0]
  BY <1>1, <1>2 DEF IdentityTypes, Fresh
<1> HIDE DEF h
<1>4. IdentityTypes'
  <2>1. agent \in [Host -> Process(Fresh)]
    BY <1>2, <1>3 DEF IdentityTypes, Process
  <2>2. agent' \in [Host -> Process(Fresh)]
    <3>1. Fresh \in Nat /\ Fresh \in 0..Fresh
      BY <1>3
    <3>2. CASE agent' = agent
      BY <2>1, <3>2
    <3>3. CASE agent' = [agent EXCEPT ![h].at = "up", ![h].device_id = Fresh]
      <4> HIDE DEF Fresh
      <4> QED BY <1>3, <2>1, <3>1, <3>3, NamedProcess
    <3> QED BY <1>1, <3>2, <3>3
  <2>3. /\ uuid_file' \in [Host -> 0..Fresh] /\ queued' \in [Host -> SUBSET (1..Fresh)]
        /\ posted' \subseteq [host : Host, start : Nat, id : 0..Fresh]
    <3>1. queued' \in [Host -> SUBSET (1..issued)]
      BY <1>1, <1>2 DEF IdentityTypes
    <3>2. 1..issued \subseteq 1..Fresh
      BY <1>3
    <3>3. queued' \in [Host -> SUBSET (1..Fresh)]
      BY <3>1, <3>2, Zenon
    <3> QED BY <1>1, <1>2, <1>3, <3>3 DEF IdentityTypes
  <2>4. devices' \subseteq [id : 1..Fresh, host : Host]
    BY <1>1, <1>2, <1>3 DEF IdentityTypes
  <2>5. tally' \in [Host -> Tally] /\ Fresh \in Nat
    BY <1>1, <1>2, <1>3 DEF IdentityTypes
  <2> QED BY <1>1, <2>2, <2>3, <2>4, <2>5 DEF IdentityTypes
<1>5. ASSUME NEW g \in Host \ {h} PROVE HostInv(g)'
  <2>1. agent'[g] = agent[g]
    BY <1>1, <1>2, <1>3 DEF IdentityTypes, Process
  <2>2. /\ devices \subseteq devices' /\ \A d \in devices' : d.host = g => d \in devices
        /\ \A q \in posted' : q.host = g => q \in posted
    BY <1>1
  <2> QED BY <1>1, <1>4, <2>1, <2>2, HostIsLeft
<1>6. HostInv(h)'
  <2>1. /\ agent'[h].own = agent[h].own
        /\ \/ agent'[h].at = "up" /\ agent'[h].device_id = Fresh
           \/ agent'[h].at = agent[h].at /\ agent'[h].device_id = agent[h].device_id
    BY <1>1, <1>2, <1>3 DEF IdentityTypes, Process
  <2>2. PostsInv(h) /\ PostsInv(h)'
    <3>1. PostsInv(h) BY <1>3 DEF IdentityInv, HostInv
    <3> QED BY <1>1, <2>1, <3>1 DEF PostsInv
  <2>3. Ids(h)' \subseteq Ids(h) \cup {Fresh}
    <3>1. queued[h] \subseteq 1..issued /\ \A d \in devices : d.id \in 1..issued
      BY <1>2, <1>3 DEF IdentityTypes
    <3> QED BY <1>1, <1>3, <2>1, <3>1 DEF Ids
  <2>4. p.start \in Registering(h)
    BY <1>1, <1>3, <2>2 DEF Registering, PostsInv, h
  <2>5. Registering(h)' \subseteq Registering(h) \ {p.start}
    <3>1. Registering(h)' \subseteq Registering(h)
      BY <1>1, <2>1 DEF Registering
    <3>2. p.start \notin Registering(h)'
      <4>1. p.start = tally[h].starts => agent'[h].at # "register"
        BY <1>1, <2>1, <2>2 DEF PostsInv, h
      <4>2. \A q \in posted' : q.host = h /\ q.id = 0 => q.start # p.start
        <5>1. \A q \in posted : q = [host |-> q.host, start |-> q.start, id |-> q.id]
          BY <1>2 DEF IdentityTypes
        <5> QED BY <1>1, <1>3, <5>1
      <4> QED BY <1>1, <4>1, <4>2 DEF Registering
    <3> QED BY <3>1, <3>2
  <2>6. /\ Cardinality(Ids(h)') \in Nat /\ Cardinality(Ids(h)') <= Cardinality(Ids(h)) + 1
        /\ Cardinality(Registering(h)') \in Nat
        /\ Cardinality(Registering(h)') <= Cardinality(Registering(h)) - 1
    BY <1>3, <2>3, <2>4, <2>5, HostCounts, AtMostOneMore, OneLess
  <2>7. Cardinality(Ids(h)') + Cardinality(Registering(h)') <= tally'[h].granted + tally'[h].drawn
    BY <1>1, <1>3, <2>6, HostCounts
  <2>8. tally'[h].logins + (IF agent'[h].at = "login" THEN 1 ELSE 0) <= tally'[h].starts
    <3>1. tally[h].logins + (IF agent[h].at = "login" THEN 1 ELSE 0) <= tally[h].starts
      BY <1>3 DEF IdentityInv, HostInv
    <3> QED BY <1>1, <1>3, <2>1, <3>1, HostCounts
  <2>9. agent'[h].device_id # agent'[h].own =>
          [id |-> agent'[h].device_id, host |-> h] \in devices'
    BY <1>1, <1>3, <2>1 DEF IdentityInv, HostInv
  <2>10. agent'[h].at # "down" => agent'[h].own # 0
    BY <1>1, <1>3, <2>1 DEF IdentityInv, HostInv
  <2> QED BY <2>2, <2>7, <2>8, <2>9, <2>10 DEF HostInv
<1> QED BY <1>4, <1>5, <1>6 DEF IdentityInv

(* An id under which a host reports is one of its ids.                     *)
LEMMA ReportsAsItself ==
  ASSUME IdentityInv, NEW h \in Host, agent[h].at = "up"
  PROVE  agent[h].device_id \in Ids(h)
<1>1. /\ agent[h].own \in 0..issued /\ agent[h].own # 0 /\ issued \in Nat
      /\ devices \subseteq [id : 1..issued, host : Host]
      /\ agent[h].device_id # agent[h].own => [id |-> agent[h].device_id, host |-> h] \in devices
  BY DEF IdentityInv, IdentityTypes, HostInv, Process
<1>2. CASE agent[h].device_id = agent[h].own
  BY <1>1, <1>2 DEF Ids
<1>3. CASE [id |-> agent[h].device_id, host |-> h] \in devices
  <2> DEFINE d == [id |-> agent[h].device_id, host |-> h]
  <2>1. d \in devices /\ d.host = h /\ d.id = agent[h].device_id
    BY <1>3
  <2>2. d.id \in 1..issued
    BY <1>1, <2>1
  <2> HIDE DEF d
  <2> QED BY <2>1, <2>2 DEF Ids
<1> QED BY <1>1, <1>2, <1>3

LEMMA QueueStep ==
  ASSUME IdentityInv, NEW h \in Host, _process_flows(h)
  PROVE  IdentityInv'
<1>1. /\ agent[h].at = "up" /\ queued' = [queued EXCEPT ![h] = @ \cup {agent[h].device_id}]
      /\ agent' = agent /\ uuid_file' = uuid_file /\ posted' = posted /\ devices' = devices
      /\ issued' = issued /\ tally' = tally
  BY DEF _process_flows
<1>2. IdentityTypes BY DEF IdentityInv
<1>3. agent[h].device_id \in Ids(h)
  BY <1>1, ReportsAsItself
<1>4. agent[h].device_id \in 1..issued
  BY <1>3 DEF Ids
<1>5. IdentityTypes'
  BY <1>1, <1>2, <1>4 DEF IdentityTypes
<1>6. queued'[h] = queued[h] \cup {agent[h].device_id} /\ \A g \in Host \ {h} : queued'[g] = queued[g]
  BY <1>1, <1>2 DEF IdentityTypes
<1>7. ASSUME NEW g \in Host \ {h} PROVE HostInv(g)'
  BY <1>1, <1>5, <1>6, HostIsLeft
<1>8. HostInv(h)'
  <2>1. Ids(h)' \subseteq Ids(h)
    BY <1>1, <1>3, <1>6 DEF Ids
  <2>2. Registering(h)' \subseteq Registering(h)
    BY <1>1 DEF Registering
  <2>3. PostsInv(h)'
    BY <1>1 DEF PostsInv, IdentityInv, HostInv
  <2>4. /\ agent'[h].device_id # agent'[h].own =>
             [id |-> agent'[h].device_id, host |-> h] \in devices'
        /\ agent'[h].at # "down" => agent'[h].own # 0
    BY <1>1 DEF IdentityInv, HostInv
  <2> QED BY <1>1, <2>1, <2>2, <2>3, <2>4, HostKeeps
<1> QED BY <1>5, <1>7, <1>8 DEF IdentityInv

LEMMA FlushStep ==
  ASSUME IdentityInv, NEW h \in Host, _flush_queue(h)
  PROVE  IdentityInv'
<1>1. PICK i \in queued[h] : posted' = posted \cup {Post(h, i)}
  BY DEF _flush_queue
<1>2. /\ agent' = agent /\ uuid_file' = uuid_file /\ queued' = queued /\ devices' = devices
      /\ issued' = issued /\ tally' = tally
  BY DEF _flush_queue
<1>3. IdentityTypes BY DEF IdentityInv
<1>4. i \in 1..issued /\ issued \in Nat /\ tally[h].starts \in Nat
  BY <1>3 DEF IdentityTypes, Tally
<1> DEFINE post == Post(h, i)
<1>5. post = [host |-> h, start |-> tally[h].starts, id |-> i] /\ posted' = posted \cup {post}
  BY <1>1 DEF Post
<1> HIDE DEF post
<1>6. IdentityTypes'
  BY <1>2, <1>3, <1>4, <1>5 DEF IdentityTypes
<1>7. ASSUME NEW g \in Host \ {h} PROVE HostInv(g)'
  <2>1. \A p \in posted' : p.host = g => p \in posted
    BY <1>5
  <2> QED BY <1>2, <1>6, <2>1, HostIsLeft
<1>8. HostInv(h)'
  <2>1. post.id = i /\ i # 0
    BY <1>4, <1>5
  <2>2. Ids(h)' \subseteq Ids(h)
    BY <1>2, <1>5, <2>1 DEF Ids
  <2>3. Registering(h)' \subseteq Registering(h)
    BY <1>2, <1>5, <2>1 DEF Registering
  <2>4. PostsInv(h)'
    BY <1>2, <1>5, <2>1 DEF PostsInv, IdentityInv, HostInv
  <2>5. /\ agent'[h].device_id # agent'[h].own =>
             [id |-> agent'[h].device_id, host |-> h] \in devices'
        /\ agent'[h].at # "down" => agent'[h].own # 0
    BY <1>2 DEF IdentityInv, HostInv
  <2> QED BY <1>2, <2>2, <2>3, <2>4, <2>5, HostKeeps
<1> QED BY <1>6, <1>7, <1>8 DEF IdentityInv

LEMMA AgentStep ==
  ASSUME IdentityInv, NEW h \in Host, GivesUp(h) \/ Quits(h)
  PROVE  IdentityInv'
<1>1. IdentityTypes BY DEF IdentityInv
<1>2. /\ uuid_file' = uuid_file /\ queued' = queued /\ posted' = posted /\ devices' = devices
      /\ issued' = issued /\ tally' = tally
      /\ \A g \in Host \ {h} : agent'[g] = agent[g]
  BY <1>1 DEF GivesUp, Quits, IdentityTypes
<1>3. agent[h].device_id \in 0..issued /\ agent[h] \in Process(issued)
  BY <1>1 DEF IdentityTypes, Process
<1>4. IdentityTypes'
  <2>1. agent' \in [Host -> Process(issued)]
    <3>1. agent \in [Host -> Process(issued)] /\ issued \in Nat
      BY <1>1 DEF IdentityTypes
    <3>2. CASE agent' = [agent EXCEPT ![h].at = "up"]
      BY <3>1, <3>2 DEF Process
    <3>3. CASE agent' = [agent EXCEPT ![h] = Down]
      <4>1. Down \in Process(issued)
        BY <3>1 DEF Down, Process
      <4> QED BY <3>1, <3>3, <4>1
    <3> QED BY <3>2, <3>3 DEF GivesUp, Quits
  <2> QED BY <1>1, <1>2, <2>1 DEF IdentityTypes
<1>5. ASSUME NEW g \in Host \ {h} PROVE HostInv(g)'
  BY <1>2, <1>4, HostIsLeft
<1>6. HostInv(h)'
  <2>1. /\ PostsInv(h) /\ (agent[h].at # "down" => agent[h].own # 0)
        /\ agent[h].device_id # agent[h].own => [id |-> agent[h].device_id, host |-> h] \in devices
    BY DEF IdentityInv, HostInv
  <2>2. /\ agent'[h].at = "up" \/ agent'[h].at = "down"
        /\ agent'[h].at = "up" => agent'[h].own = agent[h].own /\ agent[h].at # "down"
        /\ agent'[h].own = agent[h].own \/ agent'[h].own = 0
        /\ \/ agent'[h].device_id = agent[h].device_id /\ agent'[h].own = agent[h].own
           \/ agent'[h].device_id = agent'[h].own
    BY <1>1, <1>3 DEF GivesUp, Quits, Down, IdentityTypes, Process
  <2>3. Ids(h)' \subseteq Ids(h)
    BY <1>2, <2>2 DEF Ids
  <2>4. Registering(h)' \subseteq Registering(h)
    BY <1>2, <2>2 DEF Registering
  <2>5. PostsInv(h)'
    BY <1>2, <2>1, <2>2 DEF PostsInv
  <2>6. agent'[h].device_id # agent'[h].own =>
          [id |-> agent'[h].device_id, host |-> h] \in devices'
    BY <1>2, <2>1, <2>2
  <2> QED BY <1>2, <2>1, <2>2, <2>3, <2>4, <2>5, <2>6, HostKeeps
<1> QED BY <1>4, <1>5, <1>6 DEF IdentityInv

LEMMA UploadStep ==
  ASSUME IdentityInv, NEW p \in posted, ingest_upload(p)
  PROVE  IdentityInv'
<1> DEFINE h == p.host
           d == [id |-> p.id, host |-> h]
<1>1. /\ p.id # 0 /\ posted' = posted \ {p}
      /\ devices' = devices \/ devices' = devices \cup {d}
      /\ agent' = agent /\ uuid_file' = uuid_file /\ queued' = queued /\ issued' = issued
      /\ tally' = tally
  BY DEF ingest_upload
<1>2. IdentityTypes BY DEF IdentityInv
<1>3. h \in Host /\ p.id \in 1..issued /\ d \in [id : 1..issued, host : Host]
  BY <1>1, <1>2 DEF IdentityTypes
<1>4. d.id = p.id /\ d.host = h
  OBVIOUS
<1> HIDE DEF h, d
<1>5. IdentityTypes'
  BY <1>1, <1>2, <1>3 DEF IdentityTypes
<1>6. ASSUME NEW g \in Host \ {h} PROVE HostInv(g)'
  BY <1>1, <1>4, <1>5, HostIsLeft
<1>7. HostInv(h)'
  <2>1. Ids(h)' \subseteq Ids(h)
    BY <1>1, <1>3, <1>4 DEF Ids, h
  <2>2. Registering(h)' \subseteq Registering(h)
    BY <1>1 DEF Registering
  <2>3. PostsInv(h)'
    BY <1>1, <1>3 DEF PostsInv, IdentityInv, HostInv
  <2>4. /\ agent'[h].device_id # agent'[h].own =>
             [id |-> agent'[h].device_id, host |-> h] \in devices'
        /\ agent'[h].at # "down" => agent'[h].own # 0
    BY <1>1, <1>3 DEF IdentityInv, HostInv
  <2> QED BY <1>1, <1>3, <2>1, <2>2, <2>3, <2>4, HostKeeps
<1> QED BY <1>5, <1>6, <1>7 DEF IdentityInv

LEMMA IdentityNextInv == IdentityInv /\ [IdentityNext]_identity => IdentityInv'
<1> SUFFICES ASSUME IdentityInv, [IdentityNext]_identity PROVE IdentityInv'
  OBVIOUS
<1>1. ASSUME NEW h \in Host, _load_or_generate_uuid(h) PROVE IdentityInv'
  BY <1>1, StartStep
<1>2. ASSUME NEW h \in Host, _authenticate(h) PROVE IdentityInv'
  BY <1>2, LoginStep
<1>3. ASSUME NEW h \in Host, _register_device(h) PROVE IdentityInv'
  BY <1>3, RegisterStep
<1>4. ASSUME NEW h \in Host, GivesUp(h) \/ Quits(h) PROVE IdentityInv'
  BY <1>4, AgentStep
<1>a. ASSUME NEW h \in Host, _process_flows(h) PROVE IdentityInv'
  BY <1>a, QueueStep
<1>b. ASSUME NEW h \in Host, _flush_queue(h) PROVE IdentityInv'
  BY <1>b, FlushStep
<1>5. ASSUME NEW p \in posted, create_device(p) PROVE IdentityInv'
  BY <1>5, CreateStep
<1>6. ASSUME NEW p \in posted, ingest_upload(p) PROVE IdentityInv'
  BY <1>6, UploadStep
<1>7. ASSUME NEW p \in posted, Lost(p) PROVE IdentityInv'
  <2>1. IdentityTypes'
    BY <1>7 DEF IdentityInv, IdentityTypes, Lost
  <2> QED BY <1>7, <2>1, HostIsLeft DEF IdentityInv, Lost
<1>8. CASE UNCHANGED identity
  <2>1. IdentityTypes'
    BY <1>8 DEF IdentityInv, IdentityTypes, identity
  <2> QED BY <1>8, <2>1, HostIsLeft DEF IdentityInv, identity
<1> QED BY <1>1, <1>2, <1>3, <1>4, <1>5, <1>6, <1>7, <1>8, <1>a, <1>b DEF IdentityNext

(* The rows of a host have different ids, and they are among its ids.      *)
LEMMA RowsAreCounted ==
  ASSUME IdentityInv, NEW h \in Host
  PROVE  Cardinality(Rows(h)) \in Nat /\ Cardinality(Rows(h)) <= Cardinality(Ids(h))
<1> DEFINE f == [d \in Rows(h) |-> d.id]
<1>1. devices \subseteq [id : 1..issued, host : Host]
  BY DEF IdentityInv, IdentityTypes
<1>2. \A d \in Rows(h) : d.id \in Ids(h) /\ d = [id |-> d.id, host |-> h]
  BY <1>1 DEF Rows, Ids
<1>3. f \in Injection(Rows(h), Ids(h))
  BY <1>2 DEF Injection, IsInjective
<1>4. IsFiniteSet(Rows(h)) /\ Cardinality(Rows(h)) <= Cardinality(Ids(h))
  BY <1>3, HostCounts, FS_Injection
<1> QED BY <1>4, FS_CardinalityType

(* However many hosts start however often, and whichever answers are lost  *)
(* or late: a start costs one login at most, a host has no more rows than  *)
(* logins it was granted and uuids it drew, and an agent under an adopted  *)
(* id has a row of its host (main.py:228-268, retry.py:47-73).             *)
THEOREM FrugalStarts == IdentitySpec => []StartsAreFrugal
<1>1. IdentityInv => StartsAreFrugal
  <2> SUFFICES ASSUME IdentityInv, NEW h \in Host
               PROVE  /\ tally[h].logins <= tally[h].starts
                      /\ Cardinality(Rows(h)) <= tally[h].granted + tally[h].drawn
                      /\ agent[h].device_id # agent[h].own =>
                           [id |-> agent[h].device_id, host |-> h] \in devices
    BY DEF StartsAreFrugal
  <2>1. Cardinality(Rows(h)) <= tally[h].granted + tally[h].drawn
    BY RowsAreCounted, HostCounts
  <2>2. tally[h].logins + (IF agent[h].at = "login" THEN 1 ELSE 0) <= tally[h].starts
    BY DEF IdentityInv, HostInv
  <2>3. tally[h].logins <= tally[h].starts
    BY <2>2, HostCounts
  <2> QED BY <2>1, <2>3 DEF IdentityInv, HostInv
<1> QED BY <1>1, IdentityInitInv, IdentityNextInv, PTL DEF IdentitySpec
=============================================================================
