---------------------------- MODULE TelemetryQueue ----------------------------
(***************************************************************************)
(* The endpoint agent's persistent queue of telemetry batches              *)
(* (endpoint-agent/services/queue.py): one SQLite table whose rows survive *)
(* a restart of the agent.  Every operation takes the instance lock and    *)
(* commits one transaction, so each is one step.                           *)
(*                                                                         *)
(* A row is [id, prio, batch].  The payload is abstracted to the identity  *)
(* of the batch; created_at is never read by the code and is left out.     *)
(***************************************************************************)
EXTENDS Integers, FiniteSets

CONSTANTS Batch,      \* identities of telemetry batches
          Capacities, \* values the setting offline_cache_max_size may take
          BatchSizes, \* values the setting batch_size may take
          MaxId       \* bound: at most MaxId - 1 batches are ever enqueued

ASSUME QueueAssumption ==
         /\ Capacities \subseteq Nat \ {0}
         /\ BatchSizes \subseteq Nat \ {0}
         /\ MaxId \in Nat

VARIABLES rows,      \* the table telemetry_queue
          nextId,    \* sqlite_sequence: the id AUTOINCREMENT gives next
          maxSize    \* TelemetryQueue.max_size of the running agent

queueVars == <<rows, nextId, maxSize>>

CRITICAL == 0   \* IOC match
HIGH     == 1   \* threat detected by the models
NORMAL   == 2   \* standard telemetry
Priority == {CRITICAL, HIGH, NORMAL}

Row == [id : Nat, prio : Priority, batch : Batch]

-----------------------------------------------------------------------------
(* ORDER BY priority ASC, id ASC: the order in which rows are uploaded. *)
DeliveredBefore(r, s) ==
  r.prio < s.prio \/ (r.prio = s.prio /\ r.id < s.id)

(* Definitions named Mutant... are faults put in on purpose, to see that   *)
(* the properties find them; the specification never uses them.            *)
MutantEvictedBefore(r, s) == DeliveredBefore(r, s)

(* ORDER BY priority DESC, id ASC: the order in which rows are evicted. *)
EvictedBefore(r, s) ==
  r.prio > s.prio \/ (r.prio = s.prio /\ r.id < s.id)

(* SELECT ... LIMIT n in either order: the rows with fewer than n predecessors. *)
FirstDelivered(R, n) ==
  {r \in R : Cardinality({s \in R : DeliveredBefore(s, r)}) < n}

FirstEvicted(R, n) ==
  {r \in R : Cardinality({s \in R : EvictedBefore(s, r)}) < n}

(* The rows an enqueue deletes to make room. *)
Victims ==
  IF Cardinality(rows) >= maxSize
  THEN FirstEvicted(rows, Cardinality(rows) - maxSize + 1)
  ELSE {}

(* dequeue only reads: the rows stay in the table until they are removed. *)
Dequeue(n) == FirstDelivered(rows, n)

-----------------------------------------------------------------------------
QueueInit ==
  /\ rows = {}
  /\ nextId = 1
  /\ maxSize \in Capacities

MutantEnqueueReusingIds(b, p) ==
  /\ LET used == {r.id : r \in rows \ Victims}
         id   == CHOOSE i \in 1..nextId : i \notin used /\ \A j \in used : j < i
     IN  rows' = (rows \ Victims) \cup {[id |-> id, prio |-> p, batch |-> b]}
  /\ nextId' = nextId + 1
  /\ UNCHANGED maxSize

(* INSERT after the evictions, in one transaction. *)
Enqueue(b, p) ==
  /\ rows' = (rows \ Victims) \cup {[id |-> nextId, prio |-> p, batch |-> b]}
  /\ nextId' = nextId + 1
  /\ UNCHANGED maxSize

(* DELETE ... WHERE id IN ids: an id no longer in the table is ignored. *)
RemoveRows(ids) ==
  /\ rows' = {r \in rows : r.id \notin ids}
  /\ UNCHANGED <<nextId, maxSize>>

(* A new process opens the same file, possibly with another configured size. *)
Reopen ==
  /\ maxSize' \in Capacities
  /\ UNCHANGED <<rows, nextId>>

-----------------------------------------------------------------------------
(* Type invariant of the table and of the settings read from the file. *)
QueueTypeOK ==
  /\ rows \subseteq Row
  /\ nextId \in Nat
  /\ maxSize \in Capacities

(* Two rows never share an id and every id was handed out before. *)
IdsIdentifyRows ==
  /\ \A r, s \in rows : r.id = s.id => r = s
  /\ \A r \in rows : r.id < nextId

Inserting == rows' \ rows # {}
Evicted   == rows \ rows'

(* An insert drops a batch only if everything it keeps of the old table is *)
(* at least as urgent, and among equals only the oldest ones go.  It drops *)
(* what it must and no more: however far over capacity a restart with a    *)
(* smaller setting left the table, it is full afterwards, and a table with *)
(* room loses nothing (queue.py:68-81).                                    *)
EvictionKeepsTheUrgent ==
  [][Inserting =>
       /\ \A v \in Evicted, k \in rows \cap rows' :
            k.prio < v.prio \/ (k.prio = v.prio /\ v.id < k.id)
       /\ Cardinality(rows') <= maxSize
       /\ Evicted # {} => Cardinality(rows') = maxSize]_queueVars

=============================================================================
