------------------------ MODULE TelemetryDeliveryProofs ------------------------
(***************************************************************************)
(* Proofs about TelemetryDelivery for every set of batches, every bound,   *)
(* every batch size and every capacity.                                    *)
(***************************************************************************)
EXTENDS TelemetryDelivery, TLAPS, FiniteSetTheorems

(* No two rows hold the same batch, and none a batch never accepted. *)
RowsWereAccepted ==
  /\ \A r, s \in rows : r.batch = s.batch => r = s
  /\ \A r \in rows : r.batch \in accepted

(* A snapshot is stale at worst: where the table still has a row with the  *)
(* id of one still to be posted, it is that very row.                      *)
SnapshotsAreRows ==
  \A u \in Uploader : \A t \in flush[u].todo :
    /\ t.id < nextId
    /\ t.batch \in accepted
    /\ \A r \in rows : r.id = t.id => r = t

(* An id ticked off is an old one, and if the table still has its row the  *)
(* backend has its batch.                                                  *)
TickedOff ==
  \A u \in Uploader : \A i \in flush[u].done :
    /\ i < nextId
    /\ \A r \in rows : r.id = i => stored[r.batch] > 0

(* The backend has, will have, or lost to eviction only what was accepted. *)
OnlyAcceptedTravels ==
  /\ \A b \in Batch : stored[b] > 0 \/ late[b] > 0 => b \in accepted
  /\ evicted \subseteq accepted

IInv == /\ TypeOK
        /\ IdsIdentifyRows
        /\ RowsWereAccepted
        /\ SnapshotsAreRows
        /\ TickedOff
        /\ OnlyAcceptedTravels
        /\ NoSilentLoss

-----------------------------------------------------------------------------
(* What dequeue returns and what an insert evicts are rows of the table. *)
LEMMA SelectionsAreRows ==
  /\ Victims \subseteq rows
  /\ \A n \in BatchSizes : Dequeue(n) \subseteq rows
  BY DEF Victims, Dequeue, FirstEvicted, FirstDelivered

(* The initial state satisfies the inductive invariant. *)
LEMMA InitIInv == Init => IInv
  BY DeliveryAssumption, QueueAssumption
  DEF Init, QueueInit, IInv, TypeOK, QueueTypeOK, IdsIdentifyRows, RowsWereAccepted,
      SnapshotsAreRows, TickedOff, OnlyAcceptedTravels, NoSilentLoss, Phase, Token,
      Idle, NoFlush, FlushState

(* What going past one row changes. *)
LEMMA PassedRow ==
  ASSUME TypeOK, NEW u \in Uploader, NEW r \in flush[u].todo, NEW ids \in SUBSET Nat,
         Passed(u, r, ids)
  PROVE  /\ r \in Row
         /\ flush' \in [Uploader -> FlushState]
         /\ flush'[u].todo = flush[u].todo \ {r}
         /\ flush'[u].done = flush[u].done \cup ids
         /\ \A v \in Uploader \ {u} : flush'[v] = flush[v]
<1>1. flush[u] \in FlushState
  BY DEF TypeOK
<1>2. [items |-> flush[u].items, todo |-> flush[u].todo \ {r},
       done |-> flush[u].done \cup ids] \in FlushState
  BY <1>1 DEF FlushState
<1>3. r \in Row
  BY <1>1 DEF FlushState
<1> QED
  BY <1>2, <1>3 DEF Passed, TypeOK

(* Type correctness is inductive by itself. *)
LEMMA TypeStep == TypeOK /\ [Next]_vars => TypeOK'
<1> SUFFICES ASSUME TypeOK, [Next]_vars PROVE TypeOK'
  OBVIOUS
<1> USE DeliveryAssumption, QueueAssumption
<1>1. CASE UNCHANGED vars
  BY <1>1 DEF vars, queueVars, agentVars, historyVars, boundVars, TypeOK, QueueTypeOK
<1>2. CASE Start
  BY <1>2 DEF Start, Reopen, queueVars, agentVars, historyVars, boundVars,
              TypeOK, QueueTypeOK, Phase, Token
<1>3. CASE TokenExpires
  BY <1>3 DEF TokenExpires, queueVars, historyVars, boundVars, TypeOK, QueueTypeOK, Token
<1>4. CASE BeginStop
  BY <1>4 DEF BeginStop, queueVars, historyVars, TypeOK, QueueTypeOK, Phase
<1>5. CASE NothingToFlush
  BY <1>5 DEF NothingToFlush, Fault, queueVars, historyVars, TypeOK, QueueTypeOK, Phase
<1>6. CASE Exit
  BY <1>6 DEF Exit, ProcessEnds, Idle, NoFlush, FlushState, queueVars, historyVars, boundVars,
              TypeOK, QueueTypeOK, Phase, Token
<1>7. CASE Crash
  BY <1>7 DEF Crash, Fault, ProcessEnds, Idle, NoFlush, FlushState, queueVars, historyVars,
              TypeOK, QueueTypeOK, Phase, Token
<1>8. ASSUME NEW b \in Batch, NEW p \in Priority, Produce(b, p) PROVE TypeOK'
  <2>1. [id |-> nextId, prio |-> p, batch |-> b] \in Row
    BY DEF TypeOK, QueueTypeOK, Row
  <2>2. \A v \in Victims : v.batch \in Batch
    BY SelectionsAreRows DEF TypeOK, QueueTypeOK, Row
  <2> QED
    BY <1>8, <2>1, <2>2 DEF Produce, Enqueue, agentVars, boundVars, TypeOK, QueueTypeOK
<1>9. ASSUME NEW u \in Uploader, FlushStep(u) PROVE TypeOK'
  <2>1. CASE Flush(u)
    <3>1. PICK n \in BatchSizes :
            flush' = [flush EXCEPT ![u] =
                        [items |-> Dequeue(n), todo |-> Dequeue(n), done |-> {}]]
      BY <2>1 DEF Flush
    <3>2. [items |-> Dequeue(n), todo |-> Dequeue(n), done |-> {}] \in FlushState
      BY SelectionsAreRows DEF FlushState, TypeOK, QueueTypeOK
    <3> QED
      BY <2>1, <3>1, <3>2 DEF Flush, queueVars, historyVars, boundVars, TypeOK, QueueTypeOK
  <2>2. CASE Deliver(u)
    <3>1. PICK r \in flush[u].todo :
            /\ stored' = [stored EXCEPT ![r.batch] = @ + 1]
            /\ Passed(u, r, {r.id})
            /\ UNCHANGED <<queueVars, phase, token, late, historyVars, boundVars>>
      BY <2>2 DEF Deliver
    <3>2. r \in Row /\ {r.id} \in SUBSET Nat
      BY DEF TypeOK, FlushState, Row
    <3>3. flush' \in [Uploader -> FlushState]
      BY <3>1, <3>2, PassedRow
    <3> QED
      BY <3>1, <3>2, <3>3 DEF Row, queueVars, historyVars, boundVars, TypeOK, QueueTypeOK
  <2>3. CASE Reject(u)
    <3>1. PICK r \in flush[u].todo :
            /\ Passed(u, r, {})
            /\ UNCHANGED <<queueVars, phase, token, stored, late, historyVars, boundVars>>
      BY <2>3 DEF Reject
    <3>2. flush' \in [Uploader -> FlushState]
      BY <3>1, PassedRow
    <3> QED
      BY <3>1, <3>2 DEF queueVars, historyVars, boundVars, TypeOK, QueueTypeOK
  <2>4. CASE Fail(u)
    <3>1. PICK r \in flush[u].todo :
            /\ Passed(u, r, {}) /\ Fault
            /\ UNCHANGED <<queueVars, phase, token, stored, late, historyVars, stops>>
      BY <2>4 DEF Fail
    <3>2. flush' \in [Uploader -> FlushState]
      BY <3>1, PassedRow
    <3> QED
      BY <3>1, <3>2 DEF Fault, queueVars, historyVars, boundVars, TypeOK, QueueTypeOK
  <2>5. CASE GiveUp(u)
    <3>1. PICK r \in flush[u].todo :
            /\ late' = [late EXCEPT ![r.batch] = @ + 1]
            /\ Passed(u, r, {}) /\ Fault
            /\ UNCHANGED <<queueVars, phase, token, stored, historyVars, stops>>
      BY <2>5 DEF GiveUp
    <3>2. r \in Row /\ flush' \in [Uploader -> FlushState]
      BY <3>1, PassedRow
    <3> QED
      BY <3>1, <3>2 DEF Row, Fault, queueVars, historyVars, boundVars, TypeOK, QueueTypeOK
  <2>6. CASE Remove(u)
    BY <2>6 DEF Remove, RemoveRows, Returns, NoFlush, FlushState, queueVars, historyVars, boundVars,
                TypeOK, QueueTypeOK, Phase
  <2>7. CASE RemoveFails(u)
    BY <2>7 DEF RemoveFails, Fault, Returns, NoFlush, FlushState, queueVars, historyVars, boundVars,
                TypeOK, QueueTypeOK, Phase
  <2> QED BY <1>9, <2>1, <2>2, <2>3, <2>4, <2>5, <2>6, <2>7 DEF FlushStep
<1>10. ASSUME NEW b \in Batch, LateCommit(b) PROVE TypeOK'
  BY <1>10 DEF LateCommit, queueVars, agentVars, historyVars, boundVars, TypeOK, QueueTypeOK
<1> QED
  BY <1>1, <1>2, <1>3, <1>4, <1>5, <1>6, <1>7, <1>8, <1>9, <1>10 DEF Next

-----------------------------------------------------------------------------
(* A step that touches neither the table nor the backend, and in which     *)
(* threads at most forget what they had to post or had ticked off, keeps   *)
(* the invariant.                                                          *)
LEMMA ForgettingIsSafe ==
  ASSUME IInv, TypeOK',
         UNCHANGED <<rows, nextId, stored, late, accepted, evicted>>,
         \A u \in Uploader : /\ flush'[u].todo \subseteq flush[u].todo
                             /\ flush'[u].done \subseteq flush[u].done
  PROVE  IInv'
<1>1. IdsIdentifyRows' /\ RowsWereAccepted' /\ OnlyAcceptedTravels' /\ NoSilentLoss'
  BY DEF IInv, IdsIdentifyRows, RowsWereAccepted, OnlyAcceptedTravels, NoSilentLoss,
         Held, Seen
<1>2. SnapshotsAreRows'
  BY DEF IInv, SnapshotsAreRows
<1>3. TickedOff'
  BY DEF IInv, TickedOff
<1> QED
  BY <1>1, <1>2, <1>3 DEF IInv

(* An insert, with the evictions it makes, keeps the invariant: its row    *)
(* gets an id that no snapshot and no ticked-off id can name.              *)
LEMMA ProduceKeepsIInv ==
  ASSUME IInv, TypeOK', NEW b \in Batch, NEW p \in Priority, Produce(b, p)
  PROVE  IInv'
<1> DEFINE new == [id |-> nextId, prio |-> p, batch |-> b]
<1>1. /\ rows' = (rows \ Victims) \cup {new}
      /\ nextId' = nextId + 1
      /\ b \notin accepted
      /\ accepted' = accepted \cup {b}
      /\ evicted' = evicted \cup {v.batch : v \in Victims}
      /\ UNCHANGED <<flush, stored, late>>
  BY DEF Produce, Enqueue, agentVars
<1>2. /\ nextId \in Nat /\ \A r \in rows : r.id \in Nat /\ r.id < nextId
      /\ new.id = nextId /\ new.batch = b
  BY DEF IInv, TypeOK, QueueTypeOK, Row, IdsIdentifyRows
<1> HIDE DEF new
<1>3. IdsIdentifyRows'
  BY <1>1, <1>2 DEF IInv, IdsIdentifyRows
<1>4. RowsWereAccepted'
  BY <1>1, <1>2 DEF IInv, RowsWereAccepted
<1>5. SnapshotsAreRows'
  <2> SUFFICES ASSUME NEW u \in Uploader, NEW t \in flush[u].todo
               PROVE /\ t.id < nextId' /\ t.batch \in accepted'
                     /\ \A r \in rows' : r.id = t.id => r = t
    BY <1>1 DEF SnapshotsAreRows
  <2>1. t.id \in Nat
    BY DEF IInv, TypeOK, FlushState, Row
  <2>2. t.id < nextId /\ t.batch \in accepted /\ \A r \in rows : r.id = t.id => r = t
    BY DEF IInv, SnapshotsAreRows
  <2> QED
    BY <1>1, <1>2, <2>1, <2>2
<1>6. TickedOff'
  <2> SUFFICES ASSUME NEW u \in Uploader, NEW i \in flush[u].done
               PROVE /\ i < nextId' /\ \A r \in rows' : r.id = i => stored[r.batch] > 0
    BY <1>1 DEF TickedOff
  <2>1. i \in Nat
    BY DEF IInv, TypeOK, FlushState
  <2>2. i < nextId /\ \A r \in rows : r.id = i => stored[r.batch] > 0
    BY DEF IInv, TickedOff
  <2> QED
    BY <1>1, <1>2, <2>1, <2>2
<1>7. OnlyAcceptedTravels'
  <2>1. \A v \in Victims : v.batch \in accepted
    BY SelectionsAreRows DEF IInv, RowsWereAccepted
  <2> QED
    BY <1>1, <2>1 DEF IInv, OnlyAcceptedTravels
<1>8. NoSilentLoss'
  <2> SUFFICES ASSUME NEW c \in accepted', c \notin Seen', c \notin evicted'
               PROVE  c \in Held'
    BY DEF NoSilentLoss
  <2>1. CASE c = b
    BY <1>1, <1>2, <2>1 DEF Held
  <2>2. CASE c # b
    <3>1. c \in accepted /\ c \notin Seen /\ c \notin evicted
      BY <1>1, <2>2 DEF Seen
    <3>2. PICK r \in rows : r.batch = c
      BY <3>1 DEF IInv, NoSilentLoss, Held
    <3>3. r \notin Victims
      BY <1>1, <3>2
    <3> QED
      BY <1>1, <3>2, <3>3 DEF Held
  <2> QED BY <2>1, <2>2
<1> QED
  BY <1>3, <1>4, <1>5, <1>6, <1>7, <1>8 DEF IInv

(* Reading a snapshot keeps the invariant: its rows are rows. *)
LEMMA FlushKeepsIInv ==
  ASSUME IInv, TypeOK', NEW u \in Uploader, Flush(u) PROVE IInv'
<1>1. PICK n \in BatchSizes :
        flush' = [flush EXCEPT ![u] =
                    [items |-> Dequeue(n), todo |-> Dequeue(n), done |-> {}]]
  BY DEF Flush
<1>2. UNCHANGED <<rows, nextId, stored, late, accepted, evicted>>
  BY DEF Flush, queueVars, historyVars
<1>3. /\ flush'[u].todo \subseteq rows /\ flush'[u].done = {}
      /\ \A v \in Uploader \ {u} : flush'[v] = flush[v]
  BY <1>1, SelectionsAreRows DEF IInv, TypeOK
<1>4. IdsIdentifyRows' /\ RowsWereAccepted' /\ OnlyAcceptedTravels' /\ NoSilentLoss'
  BY <1>2 DEF IInv, IdsIdentifyRows, RowsWereAccepted, OnlyAcceptedTravels, NoSilentLoss,
              Held, Seen
<1>5. SnapshotsAreRows'
  BY <1>2, <1>3 DEF IInv, SnapshotsAreRows, IdsIdentifyRows, RowsWereAccepted
<1>6. TickedOff'
  BY <1>2, <1>3 DEF IInv, TickedOff
<1> QED
  BY <1>4, <1>5, <1>6 DEF IInv

(* Ticking a row off when the backend has committed it keeps the invariant: *)
(* a row that still has its id is the row that was posted.                  *)
LEMMA DeliverKeepsIInv ==
  ASSUME IInv, TypeOK', NEW u \in Uploader, Deliver(u) PROVE IInv'
<1>1. PICK r \in flush[u].todo :
        /\ stored' = [stored EXCEPT ![r.batch] = @ + 1]
        /\ Passed(u, r, {r.id})
        /\ UNCHANGED <<rows, nextId, late, accepted, evicted>>
  BY DEF Deliver, queueVars, historyVars
<1>2. r \in Row /\ r.batch \in Batch /\ {r.id} \in SUBSET Nat
  BY DEF IInv, TypeOK, FlushState, Row
<1>3. /\ flush'[u].todo = flush[u].todo \ {r}
      /\ flush'[u].done = flush[u].done \cup {r.id}
      /\ \A v \in Uploader \ {u} : flush'[v] = flush[v]
  BY <1>1, <1>2, PassedRow DEF IInv
<1>4. stored'[r.batch] > 0 /\ \A b \in Batch : stored[b] > 0 => stored'[b] > 0
  BY <1>1, <1>2 DEF IInv, TypeOK
<1>5. r.id < nextId /\ r.batch \in accepted /\ \A s \in rows : s.id = r.id => s = r
  BY DEF IInv, SnapshotsAreRows
<1>6. IdsIdentifyRows' /\ RowsWereAccepted'
  BY <1>1 DEF IInv, IdsIdentifyRows, RowsWereAccepted
<1>7. OnlyAcceptedTravels'
  BY <1>1, <1>2, <1>5 DEF IInv, TypeOK, OnlyAcceptedTravels
<1>8. NoSilentLoss'
  BY <1>1, <1>4 DEF IInv, NoSilentLoss, Held, Seen
<1>9. SnapshotsAreRows'
  BY <1>1, <1>3 DEF IInv, SnapshotsAreRows
<1>10. TickedOff'
  <2>1. \A s \in rows : s.batch \in Batch
    BY DEF IInv, TypeOK, QueueTypeOK, Row
  <2> QED
    BY <1>1, <1>3, <1>4, <1>5, <2>1 DEF IInv, TickedOff
<1> QED
  BY <1>6, <1>7, <1>8, <1>9, <1>10 DEF IInv

(* A post that may be committed later concerns an accepted batch. *)
LEMMA GiveUpKeepsIInv ==
  ASSUME IInv, TypeOK', NEW u \in Uploader, GiveUp(u) PROVE IInv'
<1>1. PICK r \in flush[u].todo :
        /\ late' = [late EXCEPT ![r.batch] = @ + 1]
        /\ Passed(u, r, {})
        /\ UNCHANGED <<rows, nextId, stored, accepted, evicted>>
  BY DEF GiveUp, queueVars, historyVars
<1>2. /\ flush'[u].todo = flush[u].todo \ {r}
      /\ flush'[u].done = flush[u].done \cup {}
      /\ \A v \in Uploader \ {u} : flush'[v] = flush[v]
  BY <1>1, PassedRow DEF IInv
<1>3. r.batch \in accepted
  BY DEF IInv, SnapshotsAreRows
<1>4. IdsIdentifyRows' /\ RowsWereAccepted' /\ NoSilentLoss'
  BY <1>1 DEF IInv, IdsIdentifyRows, RowsWereAccepted, NoSilentLoss, Held, Seen
<1>5. OnlyAcceptedTravels'
  BY <1>1, <1>3 DEF IInv, TypeOK, OnlyAcceptedTravels
<1>6. SnapshotsAreRows'
  BY <1>1, <1>2 DEF IInv, SnapshotsAreRows
<1>7. TickedOff'
  BY <1>1, <1>2 DEF IInv, TickedOff
<1> QED
  BY <1>4, <1>5, <1>6, <1>7 DEF IInv

(* A late commit adds to what the backend has and to nothing else. *)
LEMMA LateCommitKeepsIInv ==
  ASSUME IInv, TypeOK', NEW b \in Batch, LateCommit(b) PROVE IInv'
<1>1. /\ late[b] > 0
      /\ late' = [late EXCEPT ![b] = @ - 1]
      /\ stored' = [stored EXCEPT ![b] = @ + 1]
      /\ UNCHANGED <<rows, nextId, flush, accepted, evicted>>
  BY DEF LateCommit, queueVars, agentVars, historyVars
<1>2. \A c \in Batch : stored[c] > 0 => stored'[c] > 0
  BY <1>1 DEF IInv, TypeOK
<1>3. IdsIdentifyRows' /\ RowsWereAccepted' /\ SnapshotsAreRows'
  BY <1>1 DEF IInv, IdsIdentifyRows, RowsWereAccepted, SnapshotsAreRows
<1>4. OnlyAcceptedTravels'
  <2>1. b \in accepted
    BY <1>1 DEF IInv, OnlyAcceptedTravels
  <2>2. \A c \in Batch \ {b} : stored'[c] = stored[c] /\ late'[c] = late[c]
    BY <1>1 DEF IInv, TypeOK
  <2> QED
    BY <1>1, <2>1, <2>2 DEF IInv, OnlyAcceptedTravels
<1>5. NoSilentLoss'
  BY <1>1, <1>2 DEF IInv, NoSilentLoss, Held, Seen
<1>6. TickedOff'
  <2>1. \A r \in rows : r.batch \in Batch
    BY DEF IInv, TypeOK, QueueTypeOK, Row
  <2> QED
    BY <1>1, <1>2, <2>1 DEF IInv, TickedOff
<1> QED
  BY <1>3, <1>4, <1>5, <1>6 DEF IInv

(* Removing the rows ticked off keeps the invariant: the backend has them. *)
LEMMA RemoveKeepsIInv ==
  ASSUME IInv, TypeOK', NEW u \in Uploader, Remove(u) PROVE IInv'
<1>1. /\ rows' = {r \in rows : r.id \notin flush[u].done}
      /\ flush' = [flush EXCEPT ![u] = NoFlush]
      /\ UNCHANGED <<nextId, stored, late, accepted, evicted>>
  BY DEF Remove, RemoveRows, Returns, historyVars
<1>2. /\ flush'[u].todo = {} /\ flush'[u].done = {}
      /\ \A v \in Uploader \ {u} : flush'[v] = flush[v]
  BY <1>1 DEF IInv, TypeOK, NoFlush
<1>3. IdsIdentifyRows' /\ RowsWereAccepted' /\ OnlyAcceptedTravels'
  BY <1>1 DEF IInv, IdsIdentifyRows, RowsWereAccepted, OnlyAcceptedTravels
<1>4. SnapshotsAreRows'
  BY <1>1, <1>2 DEF IInv, SnapshotsAreRows
<1>5. TickedOff'
  BY <1>1, <1>2 DEF IInv, TickedOff
<1>6. NoSilentLoss'
  <2> SUFFICES ASSUME NEW b \in accepted, b \notin Seen, b \notin evicted
               PROVE  b \in Held'
    BY <1>1 DEF NoSilentLoss, Seen
  <2>1. PICK r \in rows : r.batch = b
    BY DEF IInv, NoSilentLoss, Held
  <2>2. r.id \notin flush[u].done
    BY <2>1 DEF IInv, TypeOK, TickedOff, Seen
  <2> QED
    BY <1>1, <2>1, <2>2 DEF Held
<1> QED
  BY <1>3, <1>4, <1>5, <1>6 DEF IInv

-----------------------------------------------------------------------------
(* Every step keeps the inductive invariant. *)
LEMMA StepIInv == IInv /\ [Next]_vars => IInv'
<1> SUFFICES ASSUME IInv, [Next]_vars PROVE IInv'
  OBVIOUS
<1>t. TypeOK' /\ TypeOK
  BY TypeStep DEF IInv
<1> DEFINE Data == UNCHANGED <<rows, nextId, stored, late, accepted, evicted>>
<1>1. CASE UNCHANGED vars
  BY <1>1, <1>t, ForgettingIsSafe DEF vars, queueVars, agentVars, historyVars
<1>2. CASE Start
  BY <1>2, <1>t, ForgettingIsSafe DEF Start, Reopen, historyVars
<1>3. CASE TokenExpires
  BY <1>3, <1>t, ForgettingIsSafe DEF TokenExpires, queueVars, historyVars
<1>4. CASE BeginStop
  BY <1>4, <1>t, ForgettingIsSafe DEF BeginStop, queueVars, historyVars
<1>5. CASE NothingToFlush
  BY <1>5, <1>t, ForgettingIsSafe DEF NothingToFlush, queueVars, historyVars
<1>6. CASE Exit \/ Crash
  <2>1. Data /\ flush' = Idle
    BY <1>6 DEF Exit, Crash, ProcessEnds, queueVars, historyVars
  <2>2. \A u \in Uploader : flush'[u].todo = {} /\ flush'[u].done = {}
    BY <2>1 DEF Idle, NoFlush
  <2> QED
    BY <2>1, <2>2, <1>t, ForgettingIsSafe
<1>7. ASSUME NEW b \in Batch, NEW p \in Priority, Produce(b, p) PROVE IInv'
  BY <1>7, <1>t, ProduceKeepsIInv
<1>8. ASSUME NEW u \in Uploader, FlushStep(u) PROVE IInv'
  <2>1. CASE Flush(u)
    BY <2>1, <1>t, FlushKeepsIInv
  <2>2. CASE Deliver(u)
    BY <2>2, <1>t, DeliverKeepsIInv
  <2>3. CASE Reject(u) \/ Fail(u)
    <3>1. Data
      BY <2>3 DEF Reject, Fail, queueVars, historyVars
    <3>2. PICK r \in flush[u].todo : Passed(u, r, {})
      BY <2>3 DEF Reject, Fail
    <3>3. \A v \in Uploader : /\ flush'[v].todo \subseteq flush[v].todo
                              /\ flush'[v].done \subseteq flush[v].done
      BY <3>2, <1>t, PassedRow
    <3> QED
      BY <3>1, <3>3, <1>t, ForgettingIsSafe
  <2>4. CASE GiveUp(u)
    BY <2>4, <1>t, GiveUpKeepsIInv
  <2>5. CASE Remove(u)
    BY <2>5, <1>t, RemoveKeepsIInv
  <2>6. CASE RemoveFails(u)
    <3>1. Data /\ flush' = [flush EXCEPT ![u] = NoFlush]
      BY <2>6 DEF RemoveFails, Returns, queueVars, historyVars
    <3>2. \A v \in Uploader : /\ flush'[v].todo \subseteq flush[v].todo
                              /\ flush'[v].done \subseteq flush[v].done
      BY <3>1, <1>t DEF TypeOK, NoFlush
    <3> QED
      BY <3>1, <3>2, <1>t, ForgettingIsSafe
  <2> QED
    BY <1>8, <2>1, <2>2, <2>3, <2>4, <2>5, <2>6 DEF FlushStep
<1>9. ASSUME NEW b \in Batch, LateCommit(b) PROVE IInv'
  BY <1>9, <1>t, LateCommitKeepsIInv
<1> QED
  BY <1>1, <1>2, <1>3, <1>4, <1>5, <1>6, <1>7, <1>8, <1>9 DEF Next

(* The inductive invariant holds in every reachable state. *)
THEOREM Invariance == Spec => []IInv
  BY InitIInv, StepIInv, PTL DEF Spec

(* The agent's variables and the backend's keep their types. *)
THEOREM TypeCorrect == Spec => []TypeOK
<1>1. IInv => TypeOK
  BY DEF IInv
<1> QED
  BY <1>1, Invariance, PTL

(* No batch the queue accepted is lost without a trace, whatever crashes,  *)
(* faults and interleavings of the two uploading threads occur.            *)
THEOREM NoLoss == Spec => []NoSilentLoss
<1>1. IInv => NoSilentLoss
  BY DEF IInv
<1> QED
  BY <1>1, Invariance, PTL

(* An id a thread is about to remove never names another batch's row. *)
THEOREM RemovalIsSound == Spec => []TickedOffIsStored
<1>1. IInv => TickedOffIsStored
  <2> SUFFICES ASSUME IInv, NEW u \in Uploader, NEW r \in rows,
                      r.id \in flush[u].done
               PROVE  r.batch \in Seen
    BY DEF TickedOffIsStored
  <2>1. r.batch \in Batch
    BY DEF IInv, TypeOK, QueueTypeOK, Row
  <2> QED
    BY <2>1 DEF IInv, TickedOff, Seen
<1> QED
  BY <1>1, Invariance, PTL

-----------------------------------------------------------------------------
(* What a step does, seen through the mapping of ALO. *)

(* Everything accepted is known to the abstract uploader, and conversely. *)
LEMMA KnownIsAccepted == IInv => ALO!Known = accepted
<1> SUFFICES ASSUME IInv PROVE ALO!Known = accepted
  OBVIOUS
<1>1. Held \subseteq accepted
  BY DEF IInv, RowsWereAccepted, Held
<1>2. Seen \subseteq accepted /\ evicted \subseteq accepted
  BY DEF IInv, OnlyAcceptedTravels, Seen
<1>3. accepted \subseteq Held \cup Seen \cup evicted
  BY DEF IInv, NoSilentLoss
<1> QED
  BY <1>1, <1>2, <1>3 DEF ALO!Known

(* A late or a timely commit of an accepted batch is a Receive. *)
LEMMA CommitReceives ==
  ASSUME IInv, NEW b \in Batch, b \in accepted,
         stored' = [stored EXCEPT ![b] = @ + 1], UNCHANGED <<rows, evicted>>
  PROVE  ALO!Receive(b)
<1>1. Seen' = Seen \cup {b}
  BY DEF IInv, TypeOK, Seen
<1>2. UNCHANGED <<Held, evicted>>
  BY DEF Held
<1> QED
  BY <1>1, <1>2, KnownIsAccepted DEF ALO!Receive

(* An insert is an Accept that drops the batches of the victims. *)
LEMMA ProduceAccepts ==
  ASSUME IInv, NEW b \in Batch, NEW p \in Priority, Produce(b, p)
  PROVE  ALO!Accept(b)
<1> DEFINE new == [id |-> nextId, prio |-> p, batch |-> b]
           D   == {v.batch : v \in Victims}
<1>1. /\ rows' = (rows \ Victims) \cup {new}
      /\ b \notin accepted
      /\ evicted' = evicted \cup D
      /\ UNCHANGED stored
  BY DEF Produce, Enqueue
<1>2. D \in SUBSET Held
  BY SelectionsAreRows DEF Held
<1>3. Held' = (Held \ D) \cup {b}
  <2>1. \A r \in rows : r \in Victims <=> r.batch \in D
    BY SelectionsAreRows DEF IInv, RowsWereAccepted
  <2>2. new.batch = b
    OBVIOUS
  <2> HIDE DEF new, D
  <2> QED
    BY <1>1, <2>1, <2>2 DEF Held
<1>4. UNCHANGED Seen
  BY <1>1 DEF Seen
<1> QED
  BY <1>1, <1>2, <1>3, <1>4, KnownIsAccepted DEF ALO!Accept

(* A removal is a Release of batches that were received. *)
LEMMA RemoveReleases ==
  ASSUME IInv, NEW u \in Uploader, Remove(u) PROVE ALO!Release
<1> DEFINE S == {r.batch : r \in {q \in rows : q.id \in flush[u].done}}
<1>1. /\ rows' = {r \in rows : r.id \notin flush[u].done}
      /\ UNCHANGED <<stored, evicted>>
  BY DEF Remove, RemoveRows, historyVars
<1>2. S \subseteq Held
  BY DEF Held
<1>3. S \subseteq Seen
  BY DEF IInv, TypeOK, QueueTypeOK, Row, TickedOff, Seen
<1>4. Held' = Held \ S
  <2>1. \A r \in rows : r.id \in flush[u].done <=> r.batch \in S
    BY DEF IInv, RowsWereAccepted
  <2> HIDE DEF S
  <2> QED
    BY <1>1, <2>1 DEF Held
<1>5. UNCHANGED <<Seen, evicted>>
  BY <1>1 DEF Seen
<1> QED
  BY <1>2, <1>3, <1>4, <1>5 DEF ALO!Release

(* Every step implements a step of AtLeastOnce or stutters there. *)
LEMMA StepRefines == IInv /\ [Next]_vars => [ALO!ALONext]_ALO!aloVars
<1> SUFFICES ASSUME IInv, [Next]_vars PROVE [ALO!ALONext]_ALO!aloVars
  OBVIOUS
<1> DEFINE Same == UNCHANGED <<rows, stored, evicted>>
<1>s. Same => UNCHANGED ALO!aloVars
  BY DEF ALO!aloVars, Held, Seen
<1>1. CASE UNCHANGED vars
  BY <1>1, <1>s DEF vars, queueVars, historyVars
<1>2. CASE Start \/ TokenExpires \/ BeginStop \/ NothingToFlush \/ Exit \/ Crash
  BY <1>2, <1>s DEF Start, Reopen, TokenExpires, BeginStop, NothingToFlush, Exit, Crash,
                    queueVars, historyVars
<1>3. ASSUME NEW b \in Batch, NEW p \in Priority, Produce(b, p) PROVE ALO!ALONext
  BY <1>3, ProduceAccepts DEF ALO!ALONext
<1>4. ASSUME NEW u \in Uploader, FlushStep(u) PROVE [ALO!ALONext]_ALO!aloVars
  <2>1. CASE Flush(u) \/ Reject(u) \/ Fail(u) \/ GiveUp(u) \/ RemoveFails(u)
    BY <2>1, <1>s DEF Flush, Reject, Fail, GiveUp, RemoveFails, queueVars, historyVars
  <2>2. CASE Deliver(u)
    <3>1. PICK r \in flush[u].todo :
            /\ stored' = [stored EXCEPT ![r.batch] = @ + 1]
            /\ UNCHANGED <<rows, evicted>>
      BY <2>2 DEF Deliver, queueVars, historyVars
    <3>2. r.batch \in Batch /\ r.batch \in accepted
      BY DEF IInv, TypeOK, FlushState, Row, SnapshotsAreRows
    <3> QED
      BY <3>1, <3>2, CommitReceives DEF ALO!ALONext
  <2>3. CASE Remove(u)
    BY <2>3, RemoveReleases DEF ALO!ALONext
  <2> QED
    BY <1>4, <2>1, <2>2, <2>3 DEF FlushStep
<1>5. ASSUME NEW b \in Batch, LateCommit(b) PROVE ALO!ALONext
  <2>1. b \in accepted
    BY <1>5 DEF LateCommit, IInv, OnlyAcceptedTravels
  <2> QED
    BY <1>5, <2>1, CommitReceives DEF LateCommit, ALO!ALONext, queueVars, historyVars
<1> QED
  BY <1>1, <1>2, <1>3, <1>4, <1>5 DEF Next

(* The agent with its backend implements the at-least-once uploader. *)
THEOREM Refinement == Spec => ImplementsAtLeastOnce
<1>1. Init => ALO!ALOInit
  BY DEF Init, QueueInit, ALO!ALOInit, Held, Seen
<1>2. IInv /\ [Next]_vars => [ALO!ALONext]_ALO!aloVars
  BY StepRefines
<1> QED
  BY <1>1, <1>2, Invariance, PTL DEF Spec, ImplementsAtLeastOnce, ALO!ALOSpec

-----------------------------------------------------------------------------
(* Why a batch has the copies it has. *)
Copies(b)    == stored[b] + late[b]
Posted(u, r) == IF r.id \in flush[u].done THEN 1 ELSE 0
ToPost(u, b) == IF \E t \in flush[u].todo : t.batch = b THEN 1 ELSE 0
Stopping     == IF phase \in {"draining", "stopping"} THEN 1 ELSE 0

(* A row is in one place of a flush, and a batch has one row for good. *)
OneRowPerBatch ==
  /\ \A u \in Uploader : \A t \in flush[u].todo :
       /\ t.id \notin flush[u].done
       /\ \A s \in flush[u].todo : s.id = t.id \/ s.batch = t.batch => s = t
       /\ \A r \in rows : r.batch = t.batch => r = t

(* The main thread flushes only inside stop. *)
MainFlushesInStop ==
  /\ phase # "draining" => flush["main"].items = {} /\ flush["main"].todo = {}
                           /\ flush["main"].done = {}
  /\ phase \in {"draining", "stopping"} => stops >= 1

(* A copy of a batch that is still in the table is one that a thread is    *)
(* about to tick off, or had its fault or an earlier stop: the stop under  *)
(* way has not taken its share yet.                                        *)
HeldCopies ==
  \A r \in rows : Copies(r.batch) + Stopping
                    <= Posted("queue_flush", r) + Posted("main", r) + faults + stops

(* A batch that left the table gets only the copies of threads that had    *)
(* read it before.                                                         *)
GoneCopies ==
  \A b \in Batch \ Held : Copies(b) + ToPost("queue_flush", b) + ToPost("main", b)
                            <= 1 + faults + stops

CopiesInv == OneRowPerBatch /\ MainFlushesInStop /\ HeldCopies /\ GoneCopies

LEMMA OneRowStep == IInv /\ OneRowPerBatch /\ [Next]_vars => OneRowPerBatch'
<1> SUFFICES ASSUME IInv, OneRowPerBatch, [Next]_vars PROVE OneRowPerBatch'
  OBVIOUS
<1>t. TypeOK
  BY DEF IInv
<1>f. ASSUME \A r \in rows' : r \in rows,
             \A u \in Uploader : /\ flush'[u].todo \subseteq flush[u].todo
                                 /\ flush'[u].done \subseteq flush[u].done
      PROVE  OneRowPerBatch'
  BY <1>f DEF OneRowPerBatch
<1>1. CASE UNCHANGED vars
  BY <1>1, <1>f DEF vars, queueVars, agentVars
<1>2. CASE Start \/ TokenExpires \/ BeginStop \/ NothingToFlush
  BY <1>2, <1>f DEF Start, Reopen, TokenExpires, BeginStop, NothingToFlush, queueVars
<1>3. CASE Exit \/ Crash
  <2>1. rows' = rows /\ flush' = Idle
    BY <1>3 DEF Exit, Crash, ProcessEnds, queueVars
  <2>2. \A u \in Uploader : flush'[u].todo = {} /\ flush'[u].done = {}
    BY <2>1 DEF Idle, NoFlush
  <2> QED
    BY <2>1, <2>2, <1>f
<1>4. ASSUME NEW b \in Batch, NEW p \in Priority, Produce(b, p) PROVE OneRowPerBatch'
  <2> DEFINE new == [id |-> nextId, prio |-> p, batch |-> b]
  <2>1. /\ \A r \in rows' : r \in rows \/ r = new
        /\ flush' = flush /\ b \notin accepted /\ new.batch = b
    BY <1>4 DEF Produce, Enqueue, agentVars
  <2>2. \A u \in Uploader : \A t \in flush[u].todo : t.batch \in accepted
    BY DEF IInv, SnapshotsAreRows
  <2> HIDE DEF new
  <2> QED
    BY <2>1, <2>2 DEF OneRowPerBatch
<1>5. ASSUME NEW u \in Uploader, FlushStep(u) PROVE OneRowPerBatch'
  <2>1. CASE Flush(u)
    <3>1. PICK n \in BatchSizes :
            flush' = [flush EXCEPT ![u] =
                        [items |-> Dequeue(n), todo |-> Dequeue(n), done |-> {}]]
      BY <2>1 DEF Flush
    <3>2. /\ flush'[u].todo \subseteq rows /\ flush'[u].done = {} /\ rows' = rows
          /\ \A v \in Uploader \ {u} : flush'[v] = flush[v]
      BY <2>1, <3>1, <1>t, SelectionsAreRows DEF Flush, queueVars, TypeOK
    <3> QED
      BY <3>2 DEF OneRowPerBatch, IInv, IdsIdentifyRows, RowsWereAccepted
  <2>2. CASE Deliver(u)
    <3>1. PICK r \in flush[u].todo : Passed(u, r, {r.id}) /\ rows' = rows
      BY <2>2 DEF Deliver, queueVars
    <3>2. {r.id} \in SUBSET Nat
      BY <1>t DEF TypeOK, FlushState, Row
    <3>3. /\ flush'[u].todo = flush[u].todo \ {r}
          /\ flush'[u].done = flush[u].done \cup {r.id}
          /\ \A v \in Uploader \ {u} : flush'[v] = flush[v]
      BY <3>1, <3>2, <1>t, PassedRow
    <3> QED
      BY <3>1, <3>3 DEF OneRowPerBatch
  <2>3. CASE Reject(u) \/ Fail(u) \/ GiveUp(u)
    <3>1. PICK r \in flush[u].todo : Passed(u, r, {}) /\ rows' = rows
      BY <2>3 DEF Reject, Fail, GiveUp, queueVars
    <3> QED
      BY <3>1, <1>t, <1>f, PassedRow
  <2>4. CASE Remove(u) \/ RemoveFails(u)
    <3>1. /\ \A r \in rows' : r \in rows
          /\ flush' = [flush EXCEPT ![u] = NoFlush]
      BY <2>4 DEF Remove, RemoveFails, RemoveRows, Returns, queueVars
    <3> QED
      BY <3>1, <1>t, <1>f DEF TypeOK, NoFlush
  <2> QED BY <1>5, <2>1, <2>2, <2>3, <2>4 DEF FlushStep
<1>6. ASSUME NEW b \in Batch, LateCommit(b) PROVE OneRowPerBatch'
  BY <1>6, <1>f DEF LateCommit, queueVars, agentVars
<1> QED
  BY <1>1, <1>2, <1>3, <1>4, <1>5, <1>6 DEF Next

LEMMA MainStep == IInv /\ MainFlushesInStop /\ [Next]_vars => MainFlushesInStop'
<1> SUFFICES ASSUME IInv, MainFlushesInStop, [Next]_vars PROVE MainFlushesInStop'
  OBVIOUS
<1>t. TypeOK
  BY DEF IInv
<1>a. "main" \in Uploader /\ stops \in Nat /\ flush["main"] \in FlushState
  BY <1>t, DeliveryAssumption DEF TypeOK, Uploader
<1>1. CASE UNCHANGED vars
  BY <1>1 DEF vars, agentVars, boundVars, MainFlushesInStop
<1>2. CASE Start \/ TokenExpires
  BY <1>2 DEF Start, TokenExpires, boundVars, MainFlushesInStop
<1>3. CASE BeginStop \/ NothingToFlush
  BY <1>3, <1>a DEF BeginStop, NothingToFlush, NoFlush, MainFlushesInStop
<1>4. CASE Exit \/ Crash
  BY <1>4 DEF Exit, Crash, ProcessEnds, Idle, NoFlush, Uploader, MainFlushesInStop
<1>5. ASSUME NEW b \in Batch, NEW p \in Priority, Produce(b, p) PROVE MainFlushesInStop'
  BY <1>5 DEF Produce, agentVars, boundVars, MainFlushesInStop
<1>6. ASSUME NEW u \in Uploader, FlushStep(u) PROVE MainFlushesInStop'
  <2>1. CASE Flush(u)
    <3>1. /\ u = "main" => phase = "draining"
          /\ u # "main" => flush'["main"] = flush["main"]
          /\ UNCHANGED <<phase, stops>>
      BY <2>1, <1>a, <1>t DEF Flush, Entered, boundVars, TypeOK
    <3> QED BY <3>1 DEF MainFlushesInStop
  <2>2. CASE Deliver(u) \/ Reject(u) \/ Fail(u) \/ GiveUp(u)
    <3>1. PICK r \in flush[u].todo : \E ids \in SUBSET Nat : Passed(u, r, ids)
      <4>1. \A r \in flush[u].todo : {r.id} \in SUBSET Nat /\ {} \in SUBSET Nat
        BY <1>t DEF TypeOK, FlushState, Row
      <4> QED BY <2>2, <4>1 DEF Deliver, Reject, Fail, GiveUp
    <3>2. UNCHANGED <<phase, stops>>
      BY <2>2 DEF Deliver, Reject, Fail, GiveUp, boundVars
    <3>3. u = "main" => phase = "draining"
      BY <3>1 DEF MainFlushesInStop
    <3>4. u # "main" => flush'["main"] = flush["main"]
      BY <3>1, <1>a, <1>t, PassedRow
    <3> QED BY <3>2, <3>3, <3>4 DEF MainFlushesInStop
  <2>3. CASE Remove(u) \/ RemoveFails(u)
    <3>1. /\ flush' = [flush EXCEPT ![u] = NoFlush] /\ stops' = stops
          /\ phase' = IF u = "main" THEN "stopping" ELSE phase
          /\ flush[u].items # {}
      BY <2>3 DEF Remove, RemoveFails, Returns, AllPosted, boundVars
    <3>2. /\ u = "main" => flush'["main"] = NoFlush
          /\ u # "main" => flush'["main"] = flush["main"]
      BY <3>1, <1>a, <1>t DEF TypeOK
    <3> QED BY <3>1, <3>2 DEF MainFlushesInStop, NoFlush
  <2> QED BY <1>6, <2>1, <2>2, <2>3 DEF FlushStep
<1>7. ASSUME NEW b \in Batch, LateCommit(b) PROVE MainFlushesInStop'
  BY <1>7 DEF LateCommit, agentVars, boundVars, MainFlushesInStop
<1> QED
  BY <1>1, <1>2, <1>3, <1>4, <1>5, <1>6, <1>7 DEF Next

(* A thread has a row to post or has ticked it off, and the main thread    *)
(* neither unless the agent stops.                                         *)
LEMMA CopyBounds ==
  ASSUME IInv, CopiesInv
  PROVE  /\ \A b \in Batch : Copies(b) \in Nat
         /\ faults \in Nat /\ stops \in Nat /\ Stopping \in {0, 1}
         /\ Stopping = 1 => stops >= 1
         /\ \A u \in Uploader : (\A r : Posted(u, r) \in {0, 1}) /\ (\A b : ToPost(u, b) \in {0, 1})
         /\ \A r \in rows : /\ r.batch \in Batch
                            /\ \A u \in Uploader : Posted(u, r) + ToPost(u, r.batch) <= 1
                            /\ Posted("main", r) + ToPost("main", r.batch) <= Stopping
         /\ \A b : ToPost("main", b) <= Stopping
         /\ "main" \in Uploader /\ "queue_flush" \in Uploader
<1>1. /\ stored \in [Batch -> Nat] /\ late \in [Batch -> Nat] /\ faults \in Nat /\ stops \in Nat
  BY DeliveryAssumption DEF IInv, TypeOK
<1>2. \A b \in Batch : Copies(b) \in Nat
  BY <1>1 DEF Copies
<1>3. /\ Stopping \in {0, 1} /\ (Stopping = 1 => stops >= 1)
      /\ Stopping = 0 => phase # "draining"
  BY DEF Stopping, CopiesInv, MainFlushesInStop
<1>4. \A u \in Uploader : (\A r : Posted(u, r) \in {0, 1}) /\ (\A b : ToPost(u, b) \in {0, 1})
  BY DEF Posted, ToPost
<1>5. \A r \in rows : r.batch \in Batch
  BY DEF IInv, TypeOK, QueueTypeOK, Row
<1>6. ASSUME NEW r \in rows, NEW u \in Uploader
      PROVE  Posted(u, r) + ToPost(u, r.batch) <= 1
  <2>1. CASE r.id \in flush[u].done
    <3>1. \A t \in flush[u].todo : t.batch # r.batch
      BY <2>1 DEF CopiesInv, OneRowPerBatch
    <3> QED BY <2>1, <3>1 DEF Posted, ToPost
  <2>2. CASE r.id \notin flush[u].done
    BY <2>2 DEF Posted, ToPost
  <2> QED BY <2>1, <2>2
<1>7. Stopping = 0 => /\ \A r : Posted("main", r) = 0
                      /\ \A b : ToPost("main", b) = 0
  BY <1>3 DEF CopiesInv, MainFlushesInStop, Posted, ToPost
<1>8. "main" \in Uploader /\ "queue_flush" \in Uploader
  BY DEF Uploader
<1>9. \A r \in rows : Posted("main", r) + ToPost("main", r.batch) <= Stopping
  BY <1>3, <1>4, <1>6, <1>7, <1>8
<1>10. \A b : ToPost("main", b) <= Stopping
  BY <1>3, <1>4, <1>7, <1>8
<1> QED
  BY <1>1, <1>2, <1>3, <1>4, <1>5, <1>6, <1>8, <1>9, <1>10

(* Steps that touch no row, no copy and no flush, but may excuse more. *)
LEMMA CalmCounts ==
  ASSUME IInv, CopiesInv, UNCHANGED <<rows, stored, late, flush>>,
         faults' \in Nat, stops' \in Nat, faults + stops <= faults' + stops',
         Stopping' + faults + stops <= Stopping + faults' + stops',
         Stopping' \in {0, 1}
  PROVE  HeldCopies' /\ GoneCopies'
<1>1. /\ \A b : Copies(b)' = Copies(b)
      /\ \A u, r : Posted(u, r)' = Posted(u, r)
      /\ \A u, b : ToPost(u, b)' = ToPost(u, b)
  BY DEF Copies, Posted, ToPost
<1>2. HeldCopies'
  <2> SUFFICES ASSUME NEW r \in rows
               PROVE  Copies(r.batch) + Stopping'
                        <= Posted("queue_flush", r) + Posted("main", r) + faults' + stops'
    BY <1>1 DEF HeldCopies
  <2>1. Copies(r.batch) + Stopping
          <= Posted("queue_flush", r) + Posted("main", r) + faults + stops
    BY DEF CopiesInv, HeldCopies
  <2> QED BY <2>1, CopyBounds
<1>3. GoneCopies'
  <2> SUFFICES ASSUME NEW b \in Batch, b \notin Held
               PROVE  Copies(b) + ToPost("queue_flush", b) + ToPost("main", b)
                        <= 1 + faults' + stops'
    BY <1>1 DEF GoneCopies, Held
  <2>1. Copies(b) + ToPost("queue_flush", b) + ToPost("main", b) <= 1 + faults + stops
    BY DEF CopiesInv, GoneCopies
  <2> QED BY <2>1, CopyBounds
<1> QED BY <1>2, <1>3

(* The process ends: what its threads had ticked off is forgotten, and a   *)
(* fault or the stop that was under way is the excuse.                     *)
LEMMA EndCounts ==
  ASSUME IInv, CopiesInv, Exit \/ Crash
  PROVE  HeldCopies' /\ GoneCopies'
<1>1. /\ UNCHANGED <<rows, stored, late, stops>> /\ flush' = Idle /\ phase' = "down"
      /\ \/ faults' = faults /\ phase = "stopping"
         \/ faults' = faults + 1
  BY DEF Exit, Crash, Fault, ProcessEnds, queueVars, boundVars
<1>2. /\ \A b : Copies(b)' = Copies(b)
      /\ \A u \in Uploader : (\A r : Posted(u, r)' = 0) /\ (\A b : ToPost(u, b)' = 0)
      /\ Stopping' = 0
  BY <1>1 DEF Copies, Posted, ToPost, Idle, NoFlush, Stopping
<1>3. phase = "stopping" => Stopping = 1 /\ \A r : Posted("main", r) = 0
  BY DEF CopiesInv, MainFlushesInStop, Stopping, Posted
<1>4. HeldCopies'
  <2> SUFFICES ASSUME NEW r \in rows PROVE Copies(r.batch) <= faults' + stops
    BY <1>1, <1>2, CopyBounds DEF HeldCopies
  <2>1. Copies(r.batch) + Stopping
          <= Posted("queue_flush", r) + Posted("main", r) + faults + stops
    BY DEF CopiesInv, HeldCopies
  <2>2. /\ Posted("queue_flush", r) \in {0, 1} /\ Posted("main", r) \in {0, 1}
        /\ ToPost("main", r.batch) \in {0, 1}
        /\ Posted("main", r) + ToPost("main", r.batch) <= Stopping
        /\ Copies(r.batch) \in Nat /\ faults \in Nat /\ stops \in Nat /\ Stopping \in {0, 1}
    BY CopyBounds
  <2> QED BY <1>1, <1>3, <2>1, <2>2
<1>5. GoneCopies'
  <2> SUFFICES ASSUME NEW b \in Batch, b \notin Held
               PROVE  Copies(b) <= 1 + faults' + stops
    BY <1>1, <1>2, CopyBounds DEF GoneCopies, Held
  <2>1. Copies(b) + ToPost("queue_flush", b) + ToPost("main", b) <= 1 + faults + stops
    BY DEF CopiesInv, GoneCopies
  <2>2. /\ ToPost("queue_flush", b) \in {0, 1} /\ ToPost("main", b) \in {0, 1}
        /\ Copies(b) \in Nat /\ faults \in Nat /\ stops \in Nat
    BY CopyBounds
  <2> QED BY <1>1, <2>1, <2>2
<1> QED BY <1>4, <1>5

(* A row that leaves the table, evicted or removed, is at most in the      *)
(* hands of the threads that read it.                                      *)
LEMMA LeavingRow ==
  ASSUME IInv, CopiesInv, NEW r \in rows
  PROVE  Copies(r.batch) + ToPost("queue_flush", r.batch) + ToPost("main", r.batch)
           <= 1 + faults + stops
<1>1. Copies(r.batch) + Stopping
        <= Posted("queue_flush", r) + Posted("main", r) + faults + stops
  BY DEF CopiesInv, HeldCopies
<1>2. /\ Posted("queue_flush", r) \in {0, 1} /\ Posted("main", r) \in {0, 1}
      /\ ToPost("queue_flush", r.batch) \in {0, 1} /\ ToPost("main", r.batch) \in {0, 1}
      /\ Posted("queue_flush", r) + ToPost("queue_flush", r.batch) <= 1
      /\ Posted("main", r) + ToPost("main", r.batch) <= Stopping
      /\ Copies(r.batch) \in Nat /\ faults \in Nat /\ stops \in Nat /\ Stopping \in {0, 1}
  BY CopyBounds
<1> QED BY <1>1, <1>2

LEMMA ProduceCounts ==
  ASSUME IInv, CopiesInv, NEW b \in Batch, NEW p \in Priority, Produce(b, p)
  PROVE  HeldCopies' /\ GoneCopies'
<1> DEFINE new == [id |-> nextId, prio |-> p, batch |-> b]
<1>1. /\ \A r \in rows' : r \in rows \/ r = new
      /\ \A r \in rows : r \in rows' \/ r \in Victims
      /\ new \in rows' /\ new.batch = b
      /\ UNCHANGED <<flush, stored, late, phase, faults, stops>> /\ b \notin accepted
  BY DEF Produce, Enqueue, agentVars, boundVars
<1>2. /\ \A c : Copies(c)' = Copies(c)
      /\ \A u, r : Posted(u, r)' = Posted(u, r)
      /\ \A u, c : ToPost(u, c)' = ToPost(u, c)
      /\ Stopping' = Stopping
  BY <1>1 DEF Copies, Posted, ToPost, Stopping
<1>3. Copies(b) = 0
  <2>1. stored[b] \in Nat /\ late[b] \in Nat /\ ~(stored[b] > 0) /\ ~(late[b] > 0)
    BY <1>1 DEF IInv, TypeOK, OnlyAcceptedTravels
  <2> QED BY <2>1 DEF Copies
<1> HIDE DEF new
<1>4. HeldCopies'
  <2> SUFFICES ASSUME NEW r \in rows'
               PROVE  Copies(r.batch) + Stopping
                        <= Posted("queue_flush", r) + Posted("main", r) + faults + stops
    BY <1>1, <1>2 DEF HeldCopies
  <2>1. CASE r \in rows
    BY <2>1 DEF CopiesInv, HeldCopies
  <2>2. CASE r = new
    <3>1. /\ Posted("queue_flush", r) \in {0, 1} /\ Posted("main", r) \in {0, 1}
          /\ faults \in Nat /\ stops \in Nat /\ Stopping \in {0, 1}
          /\ Stopping = 1 => stops >= 1
      BY CopyBounds
    <3> QED BY <1>1, <1>3, <2>2, <3>1
  <2> QED BY <1>1, <2>1, <2>2
<1>5. GoneCopies'
  <2> SUFFICES ASSUME NEW c \in Batch, c \notin Held'
               PROVE  Copies(c) + ToPost("queue_flush", c) + ToPost("main", c)
                        <= 1 + faults + stops
    BY <1>1, <1>2 DEF GoneCopies
  <2>1. CASE c \in Held
    <3>1. PICK r \in rows : r.batch = c
      BY <2>1 DEF Held
    <3> QED BY <3>1, LeavingRow
  <2>2. CASE c \notin Held
    BY <2>2 DEF CopiesInv, GoneCopies
  <2> QED BY <2>1, <2>2
<1> QED BY <1>4, <1>5

LEMMA FlushCounts ==
  ASSUME IInv, CopiesInv, NEW u \in Uploader, Flush(u)
  PROVE  HeldCopies' /\ GoneCopies'
<1>1. PICK n \in BatchSizes :
        flush' = [flush EXCEPT ![u] =
                    [items |-> Dequeue(n), todo |-> Dequeue(n), done |-> {}]]
  BY DEF Flush
<1>2. /\ UNCHANGED <<rows, stored, late, phase, faults, stops>>
      /\ flush'[u].todo \subseteq rows /\ flush'[u].done = {} /\ flush[u].done = {}
      /\ \A v \in Uploader \ {u} : flush'[v] = flush[v]
  BY <1>1, SelectionsAreRows DEF Flush, NoFlush, queueVars, boundVars, IInv, TypeOK
<1>3. /\ \A b : Copies(b)' = Copies(b)
      /\ \A v \in Uploader : \A r : Posted(v, r)' = Posted(v, r)
      /\ Stopping' = Stopping
  BY <1>2 DEF Copies, Posted, Stopping
<1>4. HeldCopies'
  BY <1>2, <1>3, CopyBounds DEF HeldCopies, CopiesInv
<1>5. GoneCopies'
  <2> SUFFICES ASSUME NEW b \in Batch, b \notin Held
               PROVE  Copies(b) + ToPost("queue_flush", b)' + ToPost("main", b)'
                        <= 1 + faults + stops
    BY <1>2, <1>3 DEF GoneCopies, Held
  <2>1. Copies(b) + ToPost("queue_flush", b) + ToPost("main", b) <= 1 + faults + stops
    BY DEF CopiesInv, GoneCopies
  <2>2. \A v \in Uploader : ToPost(v, b)' = 0 \/ ToPost(v, b)' = ToPost(v, b)
    BY <1>2 DEF ToPost, Held
  <2> QED BY <2>1, <2>2, CopyBounds
<1> QED BY <1>4, <1>5

(* A post that is not ticked off: it stores nothing, or its fault excuses  *)
(* the copy it may leave.                                                  *)
LEMMA PassCounts ==
  ASSUME IInv, CopiesInv, NEW u \in Uploader, Reject(u) \/ Fail(u) \/ GiveUp(u)
  PROVE  HeldCopies' /\ GoneCopies'
<1>1. PICK r \in flush[u].todo :
        /\ Passed(u, r, {})
        /\ UNCHANGED <<rows, stored, phase, stops>>
        /\ \/ late' = late /\ faults' \in {faults, faults + 1}
           \/ late' = [late EXCEPT ![r.batch] = @ + 1] /\ faults' = faults + 1
  BY DEF Reject, Fail, GiveUp, Fault, queueVars, boundVars
<1>2. /\ flush'[u].todo = flush[u].todo \ {r} /\ flush'[u].done = flush[u].done
      /\ \A v \in Uploader \ {u} : flush'[v] = flush[v]
  <2>1. /\ flush'[u].todo = flush[u].todo \ {r} /\ flush'[u].done = flush[u].done \cup {}
        /\ \A v \in Uploader \ {u} : flush'[v] = flush[v]
    BY <1>1, PassedRow DEF IInv
  <2> QED BY <2>1
<1>3. /\ \A v \in Uploader : \A s : Posted(v, s)' = Posted(v, s)
      /\ \A v \in Uploader : \A b : ToPost(v, b)' <= ToPost(v, b)
      /\ Stopping' = Stopping
  BY <1>1, <1>2 DEF Posted, ToPost, Stopping
<1>4. \A b \in Batch : Copies(b)' <= Copies(b) + faults' - faults
  <2>1. /\ stored \in [Batch -> Nat] /\ late \in [Batch -> Nat] /\ faults \in Nat
    BY CopyBounds DEF IInv, TypeOK
  <2> QED BY <1>1, <2>1 DEF Copies
<1>5. faults' \in Nat
  BY <1>1, CopyBounds
<1>6. \A b \in Batch : Copies(b)' \in Nat
  <2>1. stored \in [Batch -> Nat] /\ late' \in [Batch -> Nat]
    BY <1>1 DEF IInv, TypeOK
  <2> QED BY <1>1, <2>1 DEF Copies
<1>7. HeldCopies'
  <2> SUFFICES ASSUME NEW s \in rows
               PROVE  Copies(s.batch)' + Stopping
                        <= Posted("queue_flush", s) + Posted("main", s) + faults' + stops
    BY <1>1, <1>3, CopyBounds DEF HeldCopies
  <2>1. Copies(s.batch) + Stopping
          <= Posted("queue_flush", s) + Posted("main", s) + faults + stops
    BY DEF CopiesInv, HeldCopies
  <2>2. /\ Posted("queue_flush", s) \in {0, 1} /\ Posted("main", s) \in {0, 1}
        /\ s.batch \in Batch /\ Copies(s.batch) \in Nat
        /\ faults \in Nat /\ stops \in Nat /\ Stopping \in {0, 1}
    BY CopyBounds
  <2> QED BY <1>4, <1>5, <1>6, <2>1, <2>2
<1>8. GoneCopies'
  <2> SUFFICES ASSUME NEW b \in Batch, b \notin Held
               PROVE  Copies(b)' + ToPost("queue_flush", b)' + ToPost("main", b)'
                        <= 1 + faults' + stops
    BY <1>1 DEF GoneCopies, Held
  <2>1. Copies(b) + ToPost("queue_flush", b) + ToPost("main", b) <= 1 + faults + stops
    BY DEF CopiesInv, GoneCopies
  <2>2. /\ ToPost("queue_flush", b) \in {0, 1} /\ ToPost("main", b) \in {0, 1}
        /\ ToPost("queue_flush", b)' \in {0, 1} /\ ToPost("main", b)' \in {0, 1}
        /\ Copies(b) \in Nat /\ faults \in Nat /\ stops \in Nat
    BY CopyBounds DEF ToPost
  <2>3. /\ ToPost("queue_flush", b)' <= ToPost("queue_flush", b)
        /\ ToPost("main", b)' <= ToPost("main", b)
    BY <1>3, CopyBounds
  <2> QED BY <1>4, <1>5, <1>6, <2>1, <2>2, <2>3
<1> QED BY <1>7, <1>8

(* A copy that is ticked off replaces the post that was still to be made.  *)
LEMMA DeliverCounts ==
  ASSUME IInv, CopiesInv, NEW u \in Uploader, Deliver(u)
  PROVE  HeldCopies' /\ GoneCopies'
<1>1. PICK r \in flush[u].todo :
        /\ stored' = [stored EXCEPT ![r.batch] = @ + 1]
        /\ Passed(u, r, {r.id})
        /\ UNCHANGED <<rows, late, phase, faults, stops>>
  BY DEF Deliver, queueVars, boundVars
<1>2. r \in Row /\ r.batch \in Batch /\ {r.id} \in SUBSET Nat
  BY DEF IInv, TypeOK, FlushState, Row
<1>3. /\ flush'[u].todo = flush[u].todo \ {r}
      /\ flush'[u].done = flush[u].done \cup {r.id}
      /\ \A v \in Uploader \ {u} : flush'[v] = flush[v]
  BY <1>1, <1>2, PassedRow DEF IInv
<1>4. /\ Copies(r.batch)' = Copies(r.batch) + 1
      /\ \A b \in Batch \ {r.batch} : Copies(b)' = Copies(b)
      /\ Stopping' = Stopping
  BY <1>1, <1>2 DEF Copies, Stopping, IInv, TypeOK
<1>5. /\ r.id \notin flush[u].done
      /\ \A t \in flush[u].todo : t.batch = r.batch => t = r
      /\ \A s \in rows : s.batch = r.batch <=> s = r
      /\ \A s \in rows : s.id = r.id => s = r
  BY DEF CopiesInv, OneRowPerBatch, IInv, SnapshotsAreRows
<1>6. /\ Posted(u, r) = 0 /\ Posted(u, r)' = 1
      /\ \A s \in rows : s # r => Posted(u, s)' = Posted(u, s)
      /\ \A v \in Uploader \ {u} : \A s : Posted(v, s)' = Posted(v, s)
  BY <1>3, <1>5 DEF Posted
<1>7. /\ ToPost(u, r.batch) = 1 /\ ToPost(u, r.batch)' = 0
      /\ \A b : b # r.batch => ToPost(u, b)' = ToPost(u, b)
      /\ \A v \in Uploader \ {u} : \A b : ToPost(v, b)' = ToPost(v, b)
  BY <1>3, <1>5 DEF ToPost
<1>8. u = "main" \/ u = "queue_flush"
  BY DEF Uploader
<1>9. HeldCopies'
  <2> SUFFICES ASSUME NEW s \in rows
               PROVE  Copies(s.batch)' + Stopping
                        <= Posted("queue_flush", s)' + Posted("main", s)' + faults + stops
    BY <1>1, <1>4 DEF HeldCopies
  <2>1. Copies(s.batch) + Stopping
          <= Posted("queue_flush", s) + Posted("main", s) + faults + stops
    BY DEF CopiesInv, HeldCopies
  <2>2. /\ Posted("queue_flush", s) \in {0, 1} /\ Posted("main", s) \in {0, 1}
        /\ s.batch \in Batch /\ Copies(s.batch) \in Nat
        /\ faults \in Nat /\ stops \in Nat /\ Stopping \in {0, 1}
        /\ "main" \in Uploader /\ "queue_flush" \in Uploader
    BY CopyBounds
  <2>3. CASE s = r
    BY <1>4, <1>6, <1>8, <2>1, <2>2, <2>3
  <2>4. CASE s # r
    BY <1>4, <1>5, <1>6, <1>8, <2>1, <2>2, <2>4
  <2> QED BY <2>3, <2>4
<1>10. GoneCopies'
  <2> SUFFICES ASSUME NEW b \in Batch, b \notin Held
               PROVE  Copies(b)' + ToPost("queue_flush", b)' + ToPost("main", b)'
                        <= 1 + faults + stops
    BY <1>1 DEF GoneCopies, Held
  <2>1. Copies(b) + ToPost("queue_flush", b) + ToPost("main", b) <= 1 + faults + stops
    BY DEF CopiesInv, GoneCopies
  <2>2. /\ ToPost("queue_flush", b) \in {0, 1} /\ ToPost("main", b) \in {0, 1}
        /\ Copies(b) \in Nat /\ faults \in Nat /\ stops \in Nat
        /\ "main" \in Uploader /\ "queue_flush" \in Uploader
    BY CopyBounds
  <2>3. CASE b = r.batch
    BY <1>4, <1>7, <1>8, <2>1, <2>2, <2>3
  <2>4. CASE b # r.batch
    BY <1>4, <1>7, <1>8, <2>1, <2>2, <2>4
  <2> QED BY <2>3, <2>4
<1> QED BY <1>9, <1>10

(* A flush ends, with its rows removed or not. *)
LEMMA RemoveCounts ==
  ASSUME IInv, CopiesInv, NEW u \in Uploader, Remove(u) \/ RemoveFails(u)
  PROVE  HeldCopies' /\ GoneCopies'
<1>1. /\ flush' = [flush EXCEPT ![u] = NoFlush] /\ UNCHANGED <<stored, late, stops>>
      /\ phase' = IF u = "main" THEN "stopping" ELSE phase
      /\ flush[u].items # {}
      /\ \/ rows' = {r \in rows : r.id \notin flush[u].done} /\ faults' = faults
         \/ rows' = rows /\ faults' = faults + 1
  BY DEF Remove, RemoveFails, RemoveRows, Returns, AllPosted, Fault, queueVars, boundVars
<1>2. /\ flush'[u].todo = {} /\ flush'[u].done = {}
      /\ \A v \in Uploader \ {u} : flush'[v] = flush[v]
  BY <1>1 DEF IInv, TypeOK, NoFlush
<1>3. /\ \A b : Copies(b)' = Copies(b)
      /\ \A r : Posted(u, r)' = 0 /\ \A b : ToPost(u, b)' = 0
      /\ \A v \in Uploader \ {u} : /\ \A r : Posted(v, r)' = Posted(v, r)
                                     /\ \A b : ToPost(v, b)' = ToPost(v, b)
  BY <1>1, <1>2 DEF Copies, Posted, ToPost
<1>4. Stopping' = Stopping
  BY <1>1 DEF CopiesInv, MainFlushesInStop, Stopping
<1>5. u = "main" \/ u = "queue_flush"
  BY DEF Uploader
<1>6. HeldCopies'
  <2> SUFFICES ASSUME NEW r \in rows, r \in rows'
               PROVE  Copies(r.batch) + Stopping
                        <= Posted("queue_flush", r)' + Posted("main", r)' + faults' + stops
    BY <1>1, <1>3, <1>4 DEF HeldCopies
  <2>1. Copies(r.batch) + Stopping
          <= Posted("queue_flush", r) + Posted("main", r) + faults + stops
    BY DEF CopiesInv, HeldCopies
  <2>2. /\ Posted("queue_flush", r) \in {0, 1} /\ Posted("main", r) \in {0, 1}
        /\ Copies(r.batch) \in Nat
        /\ faults \in Nat /\ stops \in Nat /\ Stopping \in {0, 1}
        /\ "main" \in Uploader /\ "queue_flush" \in Uploader
    BY CopyBounds
  <2>3. faults' = faults => Posted(u, r) = 0
    <3>1. faults' = faults => r.id \notin flush[u].done
      BY <1>1, <2>2
    <3> QED BY <3>1 DEF Posted
  <2>4. faults' = faults \/ faults' = faults + 1
    BY <1>1
  <2> QED BY <1>3, <1>5, <2>1, <2>2, <2>3, <2>4
<1>7. GoneCopies'
  <2> SUFFICES ASSUME NEW b \in Batch, b \notin Held'
               PROVE  Copies(b) + ToPost("queue_flush", b)' + ToPost("main", b)'
                        <= 1 + faults' + stops
    BY <1>1, <1>3 DEF GoneCopies
  <2>1. Copies(b) + ToPost("queue_flush", b) + ToPost("main", b) <= 1 + faults + stops
    <3>1. CASE b \in Held
      <4>1. PICK r \in rows : r.batch = b
        BY <3>1 DEF Held
      <4> QED BY <4>1, LeavingRow
    <3>2. CASE b \notin Held
      BY <3>2 DEF CopiesInv, GoneCopies
    <3> QED BY <3>1, <3>2
  <2>2. /\ ToPost("queue_flush", b) \in {0, 1} /\ ToPost("main", b) \in {0, 1}
        /\ Copies(b) \in Nat /\ faults \in Nat /\ stops \in Nat
        /\ "main" \in Uploader /\ "queue_flush" \in Uploader
    BY CopyBounds
  <2>3. faults' = faults \/ faults' = faults + 1
    BY <1>1
  <2> QED BY <1>3, <1>5, <2>1, <2>2, <2>3
<1> QED BY <1>6, <1>7

LEMMA LateCommitCounts ==
  ASSUME IInv, CopiesInv, NEW b \in Batch, LateCommit(b)
  PROVE  HeldCopies' /\ GoneCopies'
<1>1. /\ late[b] > 0 /\ late' = [late EXCEPT ![b] = @ - 1]
      /\ stored' = [stored EXCEPT ![b] = @ + 1]
      /\ UNCHANGED <<rows, flush, phase, faults, stops>>
  BY DEF LateCommit, queueVars, agentVars, boundVars
<1>2. \A c \in Batch : Copies(c)' = Copies(c)
  <2>1. stored \in [Batch -> Nat] /\ late \in [Batch -> Nat]
    BY DEF IInv, TypeOK
  <2> QED BY <1>1, <2>1 DEF Copies
<1>3. /\ \A u, r : Posted(u, r)' = Posted(u, r)
      /\ \A u, c : ToPost(u, c)' = ToPost(u, c)
      /\ Stopping' = Stopping
  BY <1>1 DEF Posted, ToPost, Stopping
<1>4. HeldCopies'
  BY <1>1, <1>2, <1>3, CopyBounds DEF HeldCopies, CopiesInv
<1>5. GoneCopies'
  BY <1>1, <1>2, <1>3 DEF GoneCopies, Held, CopiesInv
<1> QED BY <1>4, <1>5

LEMMA CountStep == IInv /\ CopiesInv /\ [Next]_vars => HeldCopies' /\ GoneCopies'
<1> SUFFICES ASSUME IInv, CopiesInv, [Next]_vars PROVE HeldCopies' /\ GoneCopies'
  OBVIOUS
<1>t. faults \in Nat /\ stops \in Nat /\ Stopping \in {0, 1} /\ Stopping' \in {0, 1}
  BY CopyBounds DEF Stopping
<1>1. CASE UNCHANGED vars \/ TokenExpires
  <2>1. UNCHANGED <<rows, stored, late, flush, phase, faults, stops>>
    BY <1>1 DEF vars, queueVars, agentVars, boundVars, TokenExpires
  <2>2. Stopping' = Stopping
    BY <2>1 DEF Stopping
  <2> QED BY <2>1, <2>2, <1>t, CalmCounts
<1>2. CASE Start
  <2>1. UNCHANGED <<rows, stored, late, flush, faults, stops>> /\ Stopping' = 0 /\ Stopping = 0
    BY <1>2 DEF Start, Reopen, Stopping, boundVars
  <2> QED BY <2>1, <1>t, CalmCounts
<1>3. CASE BeginStop
  <2>1. /\ UNCHANGED <<rows, stored, late, flush, faults>> /\ stops' = stops + 1
        /\ Stopping' = 1 /\ Stopping = 0
    BY <1>3 DEF BeginStop, Stopping, queueVars
  <2> QED BY <2>1, <1>t, CalmCounts
<1>4. CASE NothingToFlush
  <2>1. /\ UNCHANGED <<rows, stored, late, flush, stops>>
        /\ faults' = faults \/ faults' = faults + 1
        /\ Stopping' = 1 /\ Stopping = 1
    BY <1>4 DEF NothingToFlush, Fault, Stopping, queueVars
  <2> QED BY <2>1, <1>t, CalmCounts
<1>5. ASSUME NEW u \in Uploader, FlushStep(u) PROVE HeldCopies' /\ GoneCopies'
  BY <1>5, FlushCounts, DeliverCounts, PassCounts, RemoveCounts DEF FlushStep
<1> QED
  BY <1>1, <1>2, <1>3, <1>4, <1>5, EndCounts, ProduceCounts, LateCommitCounts DEF Next

(* The backend gets a batch at most once more than there were faults and   *)
(* graceful stops, with any number of batches and bounds on either.        *)
THEOREM CopiesHaveCauses == Spec => []EveryCopyHasACause
<1>1. Init => CopiesInv
  BY DeliveryAssumption
  DEF Init, QueueInit, CopiesInv, OneRowPerBatch, MainFlushesInStop, HeldCopies, GoneCopies,
      Copies, ToPost, Idle, NoFlush, Uploader, Held
<1>2. IInv /\ CopiesInv /\ [Next]_vars => CopiesInv'
  BY OneRowStep, MainStep, CountStep DEF CopiesInv
<1>3. IInv /\ CopiesInv => EveryCopyHasACause
  <2> SUFFICES ASSUME IInv, CopiesInv, NEW b \in Batch
               PROVE  stored[b] + late[b] <= 1 + faults + stops
    BY DEF EveryCopyHasACause
  <2>1. Copies(b) + ToPost("queue_flush", b) + ToPost("main", b) <= 1 + faults + stops
    <3>1. CASE b \in Held
      <4>1. PICK r \in rows : r.batch = b
        BY <3>1 DEF Held
      <4> QED BY <4>1, LeavingRow
    <3>2. CASE b \notin Held
      BY <3>2 DEF CopiesInv, GoneCopies
    <3> QED BY <3>1, <3>2
  <2>2. /\ ToPost("queue_flush", b) \in {0, 1} /\ ToPost("main", b) \in {0, 1}
        /\ Copies(b) \in Nat /\ faults \in Nat /\ stops \in Nat
    BY CopyBounds
  <2> QED BY <2>1, <2>2 DEF Copies
<1> QED
  BY <1>1, <1>2, <1>3, Invariance, PTL DEF Spec

-----------------------------------------------------------------------------
(* The LIMIT of a SELECT: of a finite table, the first n rows in the order *)
(* of eviction are n rows, and all the others come after them.  A row's    *)
(* rank is the number of rows before it; the order is total, so ranks      *)
(* differ and fill 0..N-1.                                                 *)
LEMMA FirstRows ==
  ASSUME NEW R \in SUBSET Row, IsFiniteSet(R), \A r, s \in R : r.id = s.id => r = s,
         NEW n \in 0..Cardinality(R)
  PROVE  LET F == FirstEvicted(R, n)
         IN  /\ F \subseteq R /\ IsFiniteSet(F) /\ Cardinality(F) = n
             /\ \A v \in F, k \in R \ F : EvictedBefore(v, k)
<1> DEFINE N        == Cardinality(R)
           Ahead(r) == {s \in R : EvictedBefore(s, r)}
           rank     == [r \in R |-> Cardinality(Ahead(r))]
           F        == FirstEvicted(R, n)
<1>1. N \in Nat /\ n \in Nat /\ n <= N
  BY FS_CardinalityType
<1>2. \A r \in R : r.prio \in 0..2 /\ r.id \in Nat
  BY DEF Row, Priority, CRITICAL, HIGH, NORMAL
<1>3. \A r, s \in R : r # s => EvictedBefore(r, s) \/ EvictedBefore(s, r)
  BY <1>2 DEF EvictedBefore
<1>4. \A r \in R : ~EvictedBefore(r, r)
  BY <1>2 DEF EvictedBefore
<1>5. ASSUME NEW r \in R, NEW s \in R, EvictedBefore(r, s)
      PROVE  rank[r] < rank[s]
  <2>1. Ahead(r) \subseteq Ahead(s)
    <3> SUFFICES ASSUME NEW x \in R, EvictedBefore(x, r) PROVE EvictedBefore(x, s)
      OBVIOUS
    <3> QED BY <1>2, <1>5 DEF EvictedBefore
  <2>2. r \in Ahead(s) /\ r \notin Ahead(r)
    BY <1>4, <1>5
  <2>3. IsFiniteSet(Ahead(s)) /\ IsFiniteSet(Ahead(r))
    BY FS_Subset
  <2>4. Cardinality(Ahead(r)) <= Cardinality(Ahead(s)) /\ Cardinality(Ahead(r)) # Cardinality(Ahead(s))
    <3> HIDE DEF Ahead
    <3> QED BY <2>1, <2>2, <2>3, FS_Subset
  <2>5. Cardinality(Ahead(r)) \in Nat /\ Cardinality(Ahead(s)) \in Nat
    <3> HIDE DEF Ahead
    <3> QED BY <2>3, FS_CardinalityType
  <2> HIDE DEF Ahead
  <2> QED BY <2>4, <2>5
<1>6. \A r \in R : rank[r] \in 0..(N - 1)
  <2> SUFFICES ASSUME NEW r \in R PROVE Cardinality(Ahead(r)) \in 0..(N - 1)
    OBVIOUS
  <2>1. IsFiniteSet(R \ {r}) /\ Cardinality(R \ {r}) = N - 1
    BY FS_RemoveElement
  <2>2. Ahead(r) \in SUBSET (R \ {r})
    BY <1>4
  <2>3. IsFiniteSet(Ahead(r)) /\ Cardinality(Ahead(r)) <= N - 1
    <3> HIDE DEF Ahead
    <3> QED BY <2>1, <2>2, FS_Subset
  <2>4. Cardinality(Ahead(r)) \in Nat
    <3> HIDE DEF Ahead
    <3> QED BY <2>3, FS_CardinalityType
  <2> HIDE DEF Ahead
  <2> QED BY <1>1, <2>3, <2>4
<1> HIDE DEF rank
<1>7. DOMAIN rank = R /\ rank \in [R -> 0..(N - 1)]
  <2>1. DOMAIN rank = R /\ rank = [r \in R |-> rank[r]]
    BY DEF rank
  <2> QED BY <1>6, <2>1
<1>8. \A r, s \in R : rank[r] = rank[s] => r = s
  <2>1. \A r \in R : rank[r] \in Nat
    BY <1>1, <1>6
  <2> QED BY <1>3, <1>5, <2>1
<1>9. \A i \in 0..(N - 1) : \E r \in R : rank[r] = i
  <2>1. rank \in Injection(R, 0..(N - 1))
    BY <1>7, <1>8 DEF Injection, IsInjective
  <2>2. IsFiniteSet(0..(N - 1)) /\ Cardinality(0..(N - 1)) = N
    <3> HIDE DEF N
    <3>1. 0 \in Int /\ N - 1 \in Int /\ N \in Nat
      BY <1>1
    <3>2. IF 0 > N - 1 THEN 0 = N ELSE (N - 1) - 0 + 1 = N
      BY <3>1
    <3> QED BY <3>1, <3>2, FS_Interval
  <2>3. rank \in Surjection(R, 0..(N - 1))
    BY <2>1, <2>2, FS_Injection
  <2> QED BY <2>3 DEF Surjection
<1>10. F = {r \in R : rank[r] < n}
  BY DEF FirstEvicted, rank
<1> HIDE DEF F
<1>11. Cardinality(F) = n
  <2> DEFINE f == [r \in F |-> rank[r]]
  <2>1. \A r \in F : r \in R /\ rank[r] \in 0..(n - 1)
    BY <1>1, <1>6, <1>10
  <2>2. f \in [F -> 0..(n - 1)]
    BY <2>1
  <2>3. f \in Injection(F, 0..(n - 1))
    BY <2>1, <2>2, <1>8 DEF Injection, IsInjective
  <2>4. f \in Surjection(F, 0..(n - 1))
    <3>1. ASSUME NEW i \in 0..(n - 1) PROVE \E r \in F : f[r] = i
      <4>1. PICK r \in R : rank[r] = i
        BY <1>1, <1>9
      <4> QED BY <1>1, <1>10, <4>1
    <3> QED BY <2>2, <3>1 DEF Surjection
  <2>5. IsFiniteSet(0..(n - 1)) /\ Cardinality(0..(n - 1)) = n
    <3> HIDE DEF N
    <3>1. 0 \in Int /\ n - 1 \in Int /\ n \in Nat
      BY <1>1
    <3>2. IF 0 > n - 1 THEN 0 = n ELSE (n - 1) - 0 + 1 = n
      BY <3>1
    <3> QED BY <3>1, <3>2, FS_Interval
  <2> HIDE DEF f
  <2> QED BY <2>3, <2>4, <2>5, FS_Injection
<1>12. F \subseteq R /\ IsFiniteSet(F)
  BY <1>10, FS_Subset
<1>13. ASSUME NEW v \in F, NEW k \in R \ F PROVE EvictedBefore(v, k)
  <2>1. v \in R /\ rank[v] < n /\ ~(rank[k] < n) /\ v # k
    BY <1>10, <1>13
  <2>2. rank[v] \in Int /\ rank[k] \in Int
    BY <1>1, <1>6, <2>1
  <2> QED BY <1>1, <1>3, <1>5, <2>1, <2>2
<1> QED BY <1>11, <1>12, <1>13 DEF F

LEMMA FiniteStep == IInv /\ IsFiniteSet(rows) /\ [Next]_vars => IsFiniteSet(rows)'
<1> SUFFICES ASSUME IInv, IsFiniteSet(rows), [Next]_vars PROVE IsFiniteSet(rows)'
  OBVIOUS
<1>1. CASE \E b \in Batch, p \in Priority : Produce(b, p)
  <2>1. PICK b \in Batch, p \in Priority : Produce(b, p)
    BY <1>1
  <2>2. rows' = (rows \ Victims) \cup {[id |-> nextId, prio |-> p, batch |-> b]}
    BY <2>1 DEF Produce, Enqueue
  <2> QED BY <2>2, FS_Difference, FS_AddElement
<1>2. CASE rows' \in SUBSET rows
  BY <1>2, FS_Subset
<1>3. ASSUME NEW u \in Uploader, FlushStep(u) PROVE rows' \in SUBSET rows
  BY <1>3 DEF FlushStep, Flush, Deliver, Reject, Fail, GiveUp, Remove, RemoveFails, RemoveRows,
              queueVars
<1>4. CASE \/ UNCHANGED vars \/ Start \/ TokenExpires \/ BeginStop \/ NothingToFlush \/ Exit
           \/ Crash \/ \E b \in Batch : LateCommit(b)
  BY <1>2, <1>4 DEF vars, queueVars, Start, Reopen, TokenExpires, BeginStop, NothingToFlush, Exit,
                   Crash, LateCommit
<1> QED BY <1>1, <1>2, <1>3, <1>4 DEF Next

(* An insert evicts, from however full a table, just enough of the least   *)
(* urgent rows and the oldest among equals.                                *)
LEMMA EvictionStep ==
  ASSUME IInv, IsFiniteSet(rows), NEW b \in Batch, NEW p \in Priority, Produce(b, p)
  PROVE  /\ \A v \in Evicted, k \in rows \cap rows' : EvictedBefore(v, k)
         /\ Cardinality(rows') <= maxSize
         /\ Evicted # {} => Cardinality(rows') = maxSize
<1> DEFINE new  == [id |-> nextId, prio |-> p, batch |-> b]
           kept == rows \ Victims
           N    == Cardinality(rows)
<1>1. rows' = kept \cup {new}
  BY DEF Produce, Enqueue
<1>2. /\ rows \in SUBSET Row /\ maxSize \in Nat \ {0} /\ N \in Nat
      /\ \A r, s \in rows : r.id = s.id => r = s
  BY QueueAssumption, FS_CardinalityType DEF IInv, TypeOK, QueueTypeOK, IdsIdentifyRows
<1>3. new \notin rows
  <2>1. new.id = nextId /\ nextId \in Nat /\ \A r \in rows : r.id < nextId /\ r.id \in Nat
    BY <1>2 DEF IInv, TypeOK, QueueTypeOK, IdsIdentifyRows, Row
  <2> HIDE DEF new
  <2> QED BY <2>1
<1> HIDE DEF new
<1>4. /\ IsFiniteSet(Victims) /\ Victims \subseteq rows
      /\ \A v \in Victims, k \in kept : EvictedBefore(v, k)
      /\ IF N >= maxSize THEN Cardinality(Victims) = N - maxSize + 1 ELSE Victims = {}
  <2>1. CASE N >= maxSize
    <3>1. N - maxSize + 1 \in 0..N
      BY <1>2, <2>1
    <3>2. Victims = FirstEvicted(rows, N - maxSize + 1)
      BY <2>1 DEF Victims
    <3> QED BY <1>2, <2>1, <3>1, <3>2, FirstRows
  <2>2. CASE ~(N >= maxSize)
    BY <2>2, FS_EmptySet DEF Victims
  <2> QED BY <2>1, <2>2
<1>5. Evicted = Victims /\ rows \cap rows' = kept
  BY <1>1, <1>3, <1>4 DEF Evicted
<1>6. IsFiniteSet(kept) /\ Cardinality(kept) = N - Cardinality(Victims)
  <2>1. rows \cap Victims = Victims
    BY <1>4
  <2> QED BY <2>1, FS_Difference
<1>7. Cardinality(rows') = N - Cardinality(Victims) + 1
  <2>1. new \notin kept
    BY <1>3
  <2> HIDE DEF kept
  <2> QED BY <1>1, <1>6, <2>1, FS_AddElement
<1>8. Cardinality({}) = 0
  BY FS_EmptySet
<1> HIDE DEF N, kept
<1>9. Cardinality(rows') <= maxSize /\ (Evicted # {} => Cardinality(rows') = maxSize)
  <2>1. CASE N >= maxSize
    <3>1. Cardinality(Victims) = N - maxSize + 1
      BY <1>4, <2>1
    <3>2. Cardinality(rows') = maxSize
      BY <1>2, <1>7, <3>1
    <3> QED BY <1>2, <3>2
  <2>2. CASE ~(N >= maxSize)
    <3>1. Victims = {} /\ Evicted = {}
      BY <1>4, <1>5, <2>2
    <3>2. Cardinality(rows') = N + 1
      BY <1>2, <1>7, <1>8, <3>1
    <3> QED BY <1>2, <2>2, <3>1, <3>2
  <2> QED BY <2>1, <2>2
<1> QED BY <1>4, <1>5, <1>9

(* Whatever capacity the agent restarts with and however full the table is *)
(* then, an insert leaves it within the capacity and drops only what is    *)
(* less urgent, or as urgent and older, than all it keeps.                 *)
THEOREM EvictionsAreRight == Spec => EvictionKeepsTheUrgent
<1> DEFINE Keeps ==
      Inserting =>
        /\ \A v \in Evicted, k \in rows \cap rows' :
             k.prio < v.prio \/ (k.prio = v.prio /\ v.id < k.id)
        /\ Cardinality(rows') <= maxSize
        /\ Evicted # {} => Cardinality(rows') = maxSize
<1>1. Init => IsFiniteSet(rows)
  BY FS_EmptySet DEF Init, QueueInit
<1>2. IInv /\ IsFiniteSet(rows) /\ [Next]_vars => IsFiniteSet(rows)'
  BY FiniteStep
<1>3. IInv /\ IsFiniteSet(rows) /\ [Next]_vars => [Keeps]_queueVars
  <2> SUFFICES ASSUME IInv, IsFiniteSet(rows), [Next]_vars PROVE Keeps
    OBVIOUS
  <2>1. CASE \E b \in Batch, p \in Priority : Produce(b, p)
    <3>1. PICK b \in Batch, p \in Priority : Produce(b, p)
      BY <2>1
    <3>2. \A v \in rows, k \in rows : /\ v.prio \in Int /\ k.prio \in Int
      BY DEF IInv, TypeOK, QueueTypeOK, Row, Priority, CRITICAL, HIGH, NORMAL
    <3> QED BY <3>1, <3>2, EvictionStep DEF EvictedBefore, Evicted
  <2>2. CASE rows' \subseteq rows
    BY <2>2 DEF Inserting
  <2>3. ASSUME NEW u \in Uploader, FlushStep(u) PROVE rows' \subseteq rows
    BY <2>3 DEF FlushStep, Flush, Deliver, Reject, Fail, GiveUp, Remove, RemoveFails, RemoveRows,
                queueVars
  <2>4. CASE \/ UNCHANGED vars \/ Start \/ TokenExpires \/ BeginStop \/ NothingToFlush \/ Exit
             \/ Crash \/ \E b \in Batch : LateCommit(b)
    BY <2>2, <2>4 DEF vars, queueVars, Start, Reopen, TokenExpires, BeginStop, NothingToFlush, Exit,
                     Crash, LateCommit
  <2> QED BY <2>1, <2>2, <2>3, <2>4 DEF Next
<1> QED
  BY <1>1, <1>2, <1>3, Invariance, PTL DEF Spec, EvictionKeepsTheUrgent
=============================================================================
