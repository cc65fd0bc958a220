--------------------------- MODULE TelemetryDelivery ---------------------------
(***************************************************************************)
(* How the endpoint agent gets its telemetry batches to the backend        *)
(* (endpoint-agent/main.py, client/api_client.py over services/queue.py).  *)
(*                                                                         *)
(* Two threads run _flush_queue: the scheduler task "queue_flush", every   *)
(* flush_interval seconds, and the main thread, once, inside stop().  A    *)
(* flush reads up to batch_size rows, posts them one after another without *)
(* holding the queue's lock, and removes in one transaction the rows whose *)
(* post was answered.  The agent may crash or be stopped at any point; the *)
(* table survives, everything else is lost.                                *)
(***************************************************************************)
EXTENDS TelemetryQueue

CONSTANTS Conforming,  \* batches that pass the backend's validation
          Compressed,  \* batches that are sent gzip-compressed
          MaxFaults,   \* bound: faults of the network, of SQLite, crashes
          MaxStops     \* bound: graceful stops of the agent

ASSUME DeliveryAssumption ==
         /\ Conforming \subseteq Batch
         /\ Compressed \subseteq Batch
         /\ MaxFaults \in Nat
         /\ MaxStops \in Nat

VARIABLES phase,    \* where the main thread is
          token,    \* PlatformApiClient.token
          flush,    \* the locals of _flush_queue in each thread that runs it
          stored,   \* how many times the backend has committed each batch
          late,     \* posts the agent gave up on that the backend still holds
          accepted, \* batches for which enqueue returned True
          evicted,  \* batches dropped to make room
          faults,   \* faults so far
          stops     \* graceful stops so far

agentVars   == <<phase, token, flush>>
historyVars == <<accepted, evicted>>
boundVars   == <<faults, stops>>
vars == <<queueVars, agentVars, stored, late, historyVars, boundVars>>

Uploader == {"queue_flush", "main"}
Phase    == {"down", "running", "draining", "stopping"}
Token    == {"none", "valid", "expired"}
FlushState == [items : SUBSET Row, todo : SUBSET Row, done : SUBSET Nat]
NoFlush  == [items |-> {}, todo |-> {}, done |-> {}]
Idle     == [u \in Uploader |-> NoFlush]

(* The keys of an event and of its prediction as _process_flows builds     *)
(* them, and the ones the backend's schema has no default for.             *)
AgentEvent      == {"flow", "prediction", "risk", "behavior"}
AgentPrediction == {"xgb_score", "is_anomaly", "threat_type"}
RequiredEvent      == {"flow", "prediction", "risk", "collected_at"}
RequiredPrediction == {"xgb_score", "is_anomaly", "threat_type", "features_used"}
AgentConforms == /\ RequiredEvent \subseteq AgentEvent
                 /\ RequiredPrediction \subseteq AgentPrediction

(* The backend decodes no Content-Encoding: a gzip body is not JSON to it. *)
Readable(b) == b \in Conforming /\ b \notin Compressed

Held == {r.batch : r \in rows}
Seen == {b \in Batch : stored[b] > 0}

-----------------------------------------------------------------------------
Init ==
  /\ QueueInit
  /\ phase = "down" /\ token = "none" /\ flush = Idle
  /\ stored = [b \in Batch |-> 0]
  /\ late = [b \in Batch |-> 0]
  /\ accepted = {} /\ evicted = {}
  /\ faults = 0 /\ stops = 0

(* start: open the queue, log in once.  login returns False instead of     *)
(* raising, so the retry policy around it never retries.                   *)
Start ==
  /\ phase = "down"
  /\ Reopen
  /\ phase' = "running"
  /\ token' \in {"none", "valid"}
  /\ UNCHANGED <<flush, stored, late, historyVars, boundVars>>

(* _process_flows hands over a new batch: the flow_flush thread while the  *)
(* process lives, or the main thread with the last flows during stop.      *)
Produce(b, p) ==
  /\ phase # "down"
  /\ b \notin accepted
  /\ Enqueue(b, p)
  /\ accepted' = accepted \cup {b}
  /\ evicted' = evicted \cup {v.batch : v \in Victims}
  /\ UNCHANGED <<agentVars, stored, late, boundVars>>

(* access_token_expire_minutes after the login; the agent never renews it. *)
TokenExpires ==
  /\ token = "valid"
  /\ token' = "expired"
  /\ UNCHANGED <<queueVars, phase, flush, stored, late, historyVars, boundVars>>

-----------------------------------------------------------------------------
(* _flush_queue *)
Entered(u) == IF u = "main" THEN phase = "draining" ELSE phase # "down"

Flush(u) ==
  /\ Entered(u)
  /\ flush[u] = NoFlush
  /\ token # "none"
  /\ \E n \in BatchSizes :
       /\ Dequeue(n) # {}
       /\ flush' = [flush EXCEPT ![u] =
                      [items |-> Dequeue(n), todo |-> Dequeue(n), done |-> {}]]
  /\ UNCHANGED <<queueVars, phase, token, stored, late, historyVars, boundVars>>

(* The row u posts now. *)
Posts(u, r) ==
  /\ r \in flush[u].todo
  /\ \A s \in flush[u].todo : s = r \/ DeliveredBefore(r, s)

Passed(u, r, ids) ==
  flush' = [flush EXCEPT ![u] = [items |-> @.items,
                                 todo  |-> @.todo \ {r},
                                 done  |-> @.done \cup ids]]

(* The backend commits the batch and its answer arrives. *)
Deliver(u) ==
  \E r \in flush[u].todo :
    /\ Posts(u, r)
    /\ token = "valid" /\ Readable(r.batch)
    /\ stored' = [stored EXCEPT ![r.batch] = @ + 1]
    /\ Passed(u, r, {r.id})
    /\ UNCHANGED <<queueVars, phase, token, late, historyVars, boundVars>>

MutantRejectTicksOff(u) ==
  \E r \in flush[u].todo :
    /\ Posts(u, r)
    /\ token = "expired" \/ ~Readable(r.batch)
    /\ Passed(u, r, {r.id})
    /\ UNCHANGED <<queueVars, phase, token, stored, late, historyVars, boundVars>>

MutantRejectEndsFlush(u) ==
  \E r \in flush[u].todo :
    /\ Posts(u, r)
    /\ token = "expired" \/ ~Readable(r.batch)
    /\ flush' = [flush EXCEPT ![u] = [items |-> @.items, todo |-> {}, done |-> @.done]]
    /\ UNCHANGED <<queueVars, phase, token, stored, late, historyVars, boundVars>>

(* 401, 400 or 422: send_telemetry returns None and the loop goes on. *)
Reject(u) ==
  \E r \in flush[u].todo :
    /\ Posts(u, r)
    /\ token = "expired" \/ ~Readable(r.batch)
    /\ Passed(u, r, {})
    /\ UNCHANGED <<queueVars, phase, token, stored, late, historyVars, boundVars>>

Fault == faults < MaxFaults /\ faults' = faults + 1

(* No connection, 429, 500: nothing is stored. *)
Fail(u) ==
  \E r \in flush[u].todo :
    /\ Posts(u, r)
    /\ Fault
    /\ Passed(u, r, {})
    /\ UNCHANGED <<queueVars, phase, token, stored, late, historyVars, stops>>

(* The timeout of the request expires while the backend works on it, or    *)
(* its answer is lost: the backend may commit the batch now or much later. *)
GiveUp(u) ==
  \E r \in flush[u].todo :
    /\ Posts(u, r)
    /\ token = "valid" /\ Readable(r.batch)
    /\ Fault
    /\ late' = [late EXCEPT ![r.batch] = @ + 1]
    /\ Passed(u, r, {})
    /\ UNCHANGED <<queueVars, phase, token, stored, historyVars, stops>>

LateCommit(b) ==
  /\ late[b] > 0
  /\ late' = [late EXCEPT ![b] = @ - 1]
  /\ stored' = [stored EXCEPT ![b] = @ + 1]
  /\ UNCHANGED <<queueVars, agentVars, historyVars, boundVars>>

AllPosted(u) == flush[u].items # {} /\ flush[u].todo = {}

Returns(u) ==
  /\ flush' = [flush EXCEPT ![u] = NoFlush]
  /\ phase' = IF u = "main" THEN "stopping" ELSE phase

MutantRemoveAllRead(u) ==
  /\ AllPosted(u)
  /\ RemoveRows({r.id : r \in flush[u].items})
  /\ Returns(u)
  /\ UNCHANGED <<token, stored, late, historyVars, boundVars>>

MutantRemoveForgotten(u) ==
  /\ AllPosted(u)
  /\ RemoveRows({})
  /\ Returns(u)
  /\ UNCHANGED <<token, stored, late, historyVars, boundVars>>

(* queue.remove(uploaded_ids) *)
Remove(u) ==
  /\ AllPosted(u)
  /\ RemoveRows(flush[u].done)
  /\ Returns(u)
  /\ UNCHANGED <<token, stored, late, historyVars, boundVars>>

(* The DELETE fails (the database is locked, the disk is full): remove     *)
(* logs the error and returns normally.                                    *)
RemoveFails(u) ==
  /\ AllPosted(u)
  /\ Fault
  /\ Returns(u)
  /\ UNCHANGED <<queueVars, token, stored, late, historyVars, stops>>

-----------------------------------------------------------------------------
(* stop: capture ends, the main thread flushes once, the services stop. *)
BeginStop ==
  /\ phase = "running"
  /\ stops < MaxStops
  /\ phase' = "draining"
  /\ stops' = stops + 1
  /\ UNCHANGED <<queueVars, token, flush, stored, late, historyVars, faults>>

(* The main thread finds no token, or dequeue returns no row: the queue is *)
(* empty or the SELECT failed.                                             *)
NothingToFlush ==
  /\ phase = "draining"
  /\ flush["main"] = NoFlush
  /\ \/ (token = "none" \/ rows = {}) /\ UNCHANGED faults
     \/ Fault
  /\ phase' = "stopping"
  /\ UNCHANGED <<queueVars, token, flush, stored, late, historyVars, stops>>

ProcessEnds == phase' = "down" /\ token' = "none" /\ flush' = Idle

(* stop_all joins each task for interval + 2 s; a flush that takes longer  *)
(* dies with the process, its thread being a daemon.                       *)
Exit ==
  /\ phase = "stopping"
  /\ ProcessEnds
  /\ UNCHANGED <<queueVars, stored, late, historyVars, boundVars>>

Crash ==
  /\ phase # "down"
  /\ Fault
  /\ ProcessEnds
  /\ UNCHANGED <<queueVars, stored, late, historyVars, stops>>

FlushStep(u) == \/ Flush(u) \/ Deliver(u) \/ Reject(u) \/ Fail(u)
                \/ GiveUp(u) \/ Remove(u) \/ RemoveFails(u)

Next ==
  \/ Start \/ TokenExpires \/ BeginStop \/ NothingToFlush \/ Exit \/ Crash
  \/ \E b \in Batch, p \in Priority : Produce(b, p)
  \/ \E u \in Uploader : FlushStep(u)
  \/ \E b \in Batch : LateCommit(b)

Spec == Init /\ [][Next]_vars

(* The scheduler's loop runs until it is told to stop, every post has a    *)
(* timeout, every join too, and the queue's operations are local: a flush, *)
(* or a stop, that can go on does.  Nothing makes the environment start or *)
(* stop the agent, fail, or commit a post whose sender gave up.            *)
Fairness == /\ WF_vars(Flush("queue_flush"))
            /\ WF_vars(Flush("main") \/ NothingToFlush)
            /\ WF_vars(Exit)
            /\ \A u \in Uploader : /\ WF_vars(Deliver(u) \/ Reject(u))
                                   /\ WF_vars(Remove(u))
FairSpec == Spec /\ Fairness

(* The delivery keeps the promise of an at-least-once uploader. *)
ALO == INSTANCE AtLeastOnce WITH Item    <- Batch,
                                 held    <- Held,
                                 seen    <- Seen,
                                 dropped <- evicted

-----------------------------------------------------------------------------
(* Type invariant of the delivery state. *)
TypeOK ==
  /\ QueueTypeOK
  /\ phase \in Phase
  /\ token \in Token
  /\ flush \in [Uploader -> FlushState]
  /\ stored \in [Batch -> Nat]
  /\ late \in [Batch -> Nat]
  /\ accepted \subseteq Batch
  /\ evicted \subseteq Batch
  /\ faults \in 0..MaxFaults
  /\ stops \in 0..MaxStops

(* A batch the queue accepted is in the table, or committed by the backend, *)
(* or was evicted for lack of room: neither crashes, nor two threads        *)
(* removing rows from snapshots of a table that changes under them, nor a   *)
(* failed DELETE lose one silently (queue.py:116-132, main.py:484-491).     *)
NoSilentLoss ==
  \A b \in accepted : b \in Held \/ b \in Seen \/ b \in evicted

(* A row id that a thread has ticked off still names the batch it posted:  *)
(* AUTOINCREMENT (queue.py:46) gives no id twice, even when the table was   *)
(* emptied, or the agent restarted, between the SELECT and the DELETE.      *)
TickedOffIsStored ==
  \A u \in Uploader, r \in rows : r.id \in flush[u].done => r.batch \in Seen

(* Delivery is at least once, and every extra copy has a cause: a fault, or *)
(* a graceful stop, whose own flush overlaps the one of the scheduler and   *)
(* whose exit may cut that one off (main.py:199-204).  In particular a      *)
(* batch is stored at most once while there is neither.                     *)
EveryCopyHasACause ==
  \A b \in Batch : stored[b] + late[b] <= 1 + faults + stops

Unreadable == {b \in Batch : ~Readable(b)}

(* While the agent runs with a valid token, every readable batch is         *)
(* delivered or evicted, provided that the batches the backend rejects,     *)
(* which stay at the head of the queue for good, are fewer than batch_size. *)
DeliveredWhileAuthorised ==
  \A b \in Batch :
    (/\ b \in Held /\ Readable(b)
     /\ \A n \in BatchSizes : Cardinality(Unreadable) < n)
      ~> (b \in Seen \/ b \in evicted \/ phase # "running" \/ token # "valid")

(* The agent implements the abstract uploader: every step of it is a step   *)
(* of AtLeastOnce or leaves what that module talks about unchanged.         *)
ImplementsAtLeastOnce == ALO!ALOSpec

-----------------------------------------------------------------------------
(* What the repository says of the delivery and the code does not do. *)

(* queue.py:6: "Provides offline caching when the backend is unreachable":  *)
(* what was cached is uploaded once the agent runs and faults have ended.   *)
CachedIsUploaded ==
  \A b \in Batch : b \in Held ~> (b \in Seen \/ b \in evicted \/ phase # "running")

(* main.py:459, api_client.py:25: "Dequeue and upload telemetry batches to  *)
(* backend", "Telemetry batch upload with compression".                     *)
UploadedWhileAuthorised ==
  \A b \in Batch : b \in Held ~> (\/ b \in Seen \/ b \in evicted
                                  \/ phase # "running" \/ token # "valid")

=============================================================================
