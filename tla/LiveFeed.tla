------------------------------- MODULE LiveFeed --------------------------------
(***************************************************************************)
(* What the dashboards hear of: flows arrive at the backend, the models    *)
(* behind the API rate them and raise alerts, and every alert and every    *)
(* batch is broadcast to the dashboards (api/v1/traffic.py,                *)
(* services/telemetry_service.py, ml/models, websocket/manager.py).        *)
(*                                                                         *)
(* A broadcast walks along the list of connections and awaits each send;   *)
(* meanwhile dashboards come and go, and other broadcasts run.             *)
(*                                                                         *)
(* Confidences are percents, features tenths; the rest is in whole         *)
(* seconds, packets and bytes.                                             *)
(***************************************************************************)
EXTENDS Integers, FiniteSets, SequencesExt

NoQuery == -1   \* the entropy of a flow that carries no DNS query

CONSTANTS Dashboard,  \* connections to /ws/live
          Handler,    \* ingestions that may overlap
          Batches,    \* sequences of flows that clients send
          Confidence, \* what a trained classifier may say
          RawScore,   \* what score_samples of a trained forest may say
          MaxAlerts   \* bound: alerts in one payload of an agent

(* The rows of ingest_flows, as far as the features look: nothing checks   *)
(* that a client sends numbers above zero.                                 *)
NetworkFlow ==
  [packets : Int, bytes : Int, duration : Int, start : Int,
   entropy : Nat \cup {NoQuery}, flags : SUBSET STRING, outbound : BOOLEAN]

ASSUME FeedAssumption ==
  /\ Batches \subseteq Seq(NetworkFlow)
  /\ Confidence \subseteq 0..100
  /\ RawScore \subseteq -100..-1   \* of scikit-learn
  /\ IsFiniteSet(Dashboard) /\ MaxAlerts \in Nat

VARIABLES loaded,      \* the models of ml/saved_models that are there and answer
          connections, \* ws_manager._connections
          alive,       \* connections whose client is there
          handler      \* the locals of the handlers in flight

feed == <<loaded, connections, alive, handler>>

Models == {"xgboost", "isolation_forest"}

-----------------------------------------------------------------------------
Column(flows, rows, field) == [i \in rows |-> flows[i][field]]
Total(numbers)   == FoldFunction(+, 0, numbers)
Squares(numbers) == Total([i \in DOMAIN numbers |-> numbers[i] * numbers[i]])
Mean(numbers)    == IF DOMAIN numbers = {} THEN 0
                    ELSE Total(numbers) \div Cardinality(DOMAIN numbers)
Root(x)          == Cardinality({r \in 1..x : r * r <= x})

(* Ten standard deviations of the gaps between a flow and the next one.    *)
BeaconInterval(flows) ==
  LET Later(i) == {j \in DOMAIN flows : \/ flows[j].start > flows[i].start
                                        \/ flows[j].start = flows[i].start /\ j > i}
      followed == {i \in DOMAIN flows : Later(i) # {}}
      gaps     == [i \in followed |-> Min({flows[j].start - flows[i].start : j \in Later(i)})]
      n        == Cardinality(followed)
  IN  IF n = 0 THEN 0 ELSE Root(100 * (n * Squares(gaps) - Total(gaps) * Total(gaps))) \div n

(* A flag counts by its whole name alone. *)
FlagBit == [SYN |-> 1, ACK |-> 2, FIN |-> 4, RST |-> 8, PSH |-> 16, URG |-> 32]

TcpFlags(flows) ==
  LET names == (UNION {flows[i].flags : i \in DOMAIN flows}) \cap DOMAIN FlagBit
  IN  Total([name \in names |-> FlagBit[name]])

compute_features(flows) ==
  LET rows    == DOMAIN flows
      queries == {i \in rows : flows[i].entropy # NoQuery}
      lasting == {i \in rows : flows[i].duration # 0}
      abroad  == {i \in rows : flows[i].outbound}
      bytes   == Total(Column(flows, rows, "bytes"))
      packets == Total(Column(flows, rows, "packets"))
      PerSecond(f) == (10 * f.packets) \div (IF f.duration > 0 THEN f.duration ELSE 1)
  IN  << Mean([i \in rows |-> PerSecond(flows[i])]),
         BeaconInterval(flows),
         Mean(Column(flows, queries, "entropy")),
         Mean([i \in lasting |-> 10 * flows[i].duration]),
         10 * TcpFlags(flows),
         IF packets > 0 THEN (10 * bytes) \div packets ELSE 0,
         10 * Cardinality({i \in rows : "RST" \in flows[i].flags}),
         IF bytes > 0 THEN (10 * Total(Column(flows, abroad, "bytes"))) \div bytes ELSE 0 >>

-----------------------------------------------------------------------------
(* The models without their artifacts.                                     *)
xgboost_heuristic(v) ==
  LET score == (IF v[1] > 1000 THEN 25 ELSE 0) + (IF v[2] \in 1..19 THEN 20 ELSE 0)
                 + (IF v[3] > 40 THEN 25 ELSE 0) + (IF v[7] > 50 THEN 15 ELSE 0)
                 + (IF v[8] > 8 THEN 15 ELSE 0)
  IN  IF score < 99 THEN score ELSE 99

(* A fault put in on purpose; the specification never uses it.             *)
MutantForestHeuristic(v) ==
  LET sum    == Total(v)
      spread == 8 * Squares(v) - sum * sum
  IN  /\ spread > 0
      /\ \E i \in 1..8 : (8 * v[i] - sum) * (8 * v[i] - sum) >= 4 * spread

(* Is the confidence, a fifth of the largest z-score, 0.5 or more?  Eight  *)
(* times a value less the sum is eight times its distance from the mean.   *)
ForestHeuristic(v) ==
  LET sum    == Total(v)
      spread == 8 * Squares(v) - sum * sum
  IN  /\ spread > 0
      /\ \E i \in 1..8 : 4 * (8 * v[i] - sum) * (8 * v[i] - sum) >= 25 * spread

(* 1 - (raw + 0.5), between 0 and 1 *)
forest_confidence(raw) == IF 50 - raw > 100 THEN 100 ELSE 50 - raw

-----------------------------------------------------------------------------
(* detection_engine.predict, and create_alert_from_prediction: the models  *)
(* that may raise an alert about a batch with these features.              *)
Raises(model, v) ==
  IF model = "xgboost"
  THEN IF model \in loaded THEN {c >= 50 : c \in Confidence} ELSE {xgboost_heuristic(v) >= 50}
  ELSE IF model \in loaded THEN {forest_confidence(r) >= 50 : r \in RawScore} ELSE {ForestHeuristic(v)}

Verdicts(v) == {raising \in SUBSET Models : \A m \in Models : (m \in raising) \in Raises(m, v)}

(* todo: broadcasts left; features, raised, whole: of the batch, who raised *)
(* an alert about it, and whether all went well (until the first broadcast).*)
(* While one goes on: to holds who is being sent to, next is the iterator; *)
(* failed: disconnected.  History: heard; owed: connected since it began;  *)
(* cut: connections removed from the part of the list that was passed,     *)
(* as far as there are dashboards to skip.                                 *)
Quiet == [todo |-> 0]

Handling(features, raised, whole, todo) ==
  [features |-> features, raised |-> raised, whole |-> whole, todo |-> todo,
   to |-> {}, next |-> 1, heard |-> {}, failed |-> {}, owed |-> {}, cut |-> 0]

Waiting(todo) == IF todo = 0 THEN Quiet ELSE Handling(<<>>, {}, FALSE, todo)

Busy(h)    == handler[h] # Quiet
Sending(h) == Busy(h) /\ handler[h].to # {}
Reached(h) == handler[h].heard \cup handler[h].failed
Ahead(h)   == {connections[i] : i \in handler[h].next..Len(connections)}
Missed(h)  == handler[h].owed \ (Reached(h) \cup handler[h].to \cup Ahead(h))

FeedInit ==
  /\ loaded \in SUBSET Models
  /\ connections = <<>> /\ alive = {}
  /\ handler = [h \in Handler |-> Quiet]

-----------------------------------------------------------------------------
(* POST /traffic/ingest: the forest's alert is the second.  An error of the *)
(* pipeline is swallowed; the alerts raised so far and the batch are       *)
(* announced, even if the error was one of the database and nothing can be *)
(* committed any more.                                                     *)
ingest_traffic(h, batch) ==
  /\ ~Busy(h)
  /\ LET v == compute_features(batch) IN
     \E raising \in (IF batch = <<>> THEN {{}} ELSE Verdicts(v)), whole \in BOOLEAN :
       \E raised \in SUBSET raising :
         /\ whole \/ "isolation_forest" \in raised => raised = raising
         /\ handler' = [handler EXCEPT ![h] = Handling(v, raised, whole, Cardinality(raised) + 1)]
  /\ UNCHANGED <<loaded, connections, alive>>

(* POST /telemetry/ingest announces the alerts of the agent, and the batch *)
(* unless an error ends the request.                                       *)
ingest_payload(h) ==
  /\ ~Busy(h)
  /\ \E n \in 1..(MaxAlerts + 1) : handler' = [handler EXCEPT ![h] = Waiting(n)]
  /\ UNCHANGED <<loaded, connections, alive>>

-----------------------------------------------------------------------------
(* What a broadcast becomes when the connections in gone leave the list.   *)
Shifted(w, gone) ==
  IF w = Quiet \/ gone = {} THEN w
  ELSE LET passed == {i \in 1..(w.next - 1) : i \in DOMAIN connections /\ connections[i] \in gone}
           cut    == w.cut + (IF w.to = {} THEN 0 ELSE Cardinality(passed))
       IN  [w EXCEPT !.owed = @ \ gone,
                     !.cut  = IF cut < Cardinality(Dashboard) THEN cut ELSE Cardinality(Dashboard)]

Without(gone) ==
  LET kept[i \in 0..Len(connections)] ==
        IF i = 0 THEN <<>>
        ELSE IF connections[i] \in gone THEN kept[i - 1] ELSE Append(kept[i - 1], connections[i])
  IN  kept[Len(connections)]

(* broadcast returns at once when nobody is connected. *)
BeginBroadcast(h) ==
  /\ Busy(h) /\ ~Sending(h)
  /\ handler' = [handler EXCEPT
       ![h] = IF connections = <<>> THEN Waiting(@.todo - 1)
              ELSE [Waiting(@.todo) EXCEPT !.to = {connections[1]}, !.next = 2,
                                           !.owed = ToSet(connections)]]
  /\ UNCHANGED <<loaded, connections, alive>>

(* A send returns or, if the client has gone, may raise; the loop takes    *)
(* the next of the list as it is now, or removes the ones that failed.     *)
Sent(h) ==
  /\ Sending(h)
  /\ \E raised \in {FALSE} \cup {handler[h].to \cap alive = {}} :
       LET w    == handler[h]
           done == IF raised THEN [w EXCEPT !.failed = @ \cup w.to]
                   ELSE [w EXCEPT !.heard = @ \cup w.to]
       IN  IF w.next <= Len(connections)
           THEN /\ handler' = [handler EXCEPT
                     ![h] = [done EXCEPT !.to = {connections[w.next]}, !.next = @ + 1]]
                /\ UNCHANGED connections
           ELSE /\ handler' = [g \in Handler |->
                     IF g = h THEN Waiting(w.todo - 1)
                     ELSE Shifted(handler[g], done.failed)]
                /\ connections' = Without(done.failed)
  /\ UNCHANGED <<loaded, alive>>

-----------------------------------------------------------------------------
(* A fault put in on purpose: the newest comes first.                      *)
MutantAccepted(d) == <<d>> \o connections

Accepted(d) == Append(connections, d)

(* /ws/live with an access token.  A connection of a reload is another     *)
(* one, so d is used again when nobody remembers it.                       *)
Connect(d) ==
  /\ d \notin alive \cup ToSet(connections)
  /\ \A h \in Handler : Busy(h) => d \notin Reached(h) \cup handler[h].to
  /\ connections' = Accepted(d)
  /\ alive' = alive \cup {d}
  /\ UNCHANGED <<loaded, handler>>

Breaks(d) ==
  /\ d \in alive
  /\ alive' = alive \ {d}
  /\ UNCHANGED <<loaded, connections, handler>>

(* receive_text raises: disconnect, unless a broadcast did it before. *)
Leaves(d) ==
  /\ d \in ToSet(connections) \ alive
  /\ connections' = Without({d})
  /\ handler' = [h \in Handler |-> Shifted(handler[h], {d})]
  /\ UNCHANGED <<loaded, alive>>

FeedNext ==
  \/ \E h \in Handler : \/ \E batch \in Batches : ingest_traffic(h, batch)
                        \/ ingest_payload(h)
                        \/ BeginBroadcast(h) \/ Sent(h)
  \/ \E d \in Dashboard : Connect(d) \/ Breaks(d) \/ Leaves(d)

FeedSpec == FeedInit /\ [][FeedNext]_feed

-----------------------------------------------------------------------------
(* A broadcast sends to nobody twice.  Of the dashboards that are there    *)
(* all along it passes over some, but at most one for each entry that was  *)
(* removed, meanwhile, from the part of the list it had been through: not  *)
(* for those that connect, for the other broadcasts, or for an entry that  *)
(* is removed from the part still ahead (websocket/manager.py:55-64).      *)
SkipsHaveCauses ==
  \A h \in Handler : Sending(h) =>
    /\ handler[h].to \cap Reached(h) = {}
    /\ Ahead(h) \cap (Reached(h) \cup handler[h].to) = {}
    /\ Cardinality(Missed(h)) <= handler[h].cut

NoFeatures == compute_features(<<>>)   \* of the empty batch
Gap(x, y)  == IF x > y THEN x - y ELSE y - x

(* The isolation forest hardly tells one batch from another.  Loaded, its  *)
(* scores are negative, so that its confidence reaches the threshold of an *)
(* alert for every batch.  Without its file it flags a batch only for one  *)
(* feature that stands apart, farther from each of the others than any two *)
(* of those are from each other: two signs of an attack hide one another.  *)
OneFeatureDecides ==
  \A h \in Handler :
    Busy(h) /\ handler[h].features # <<>> =>
      LET v == handler[h].features IN
      /\ handler[h].whole /\ v # NoFeatures /\ "isolation_forest" \in loaded
           => "isolation_forest" \in handler[h].raised
      /\ "isolation_forest" \in handler[h].raised \ loaded
           => \E i \in 1..8 : \A j, k \in 1..8 \ {i} : Gap(v[i], v[j]) > Gap(v[j], v[k])

-----------------------------------------------------------------------------
(* What the repository says and the code does not do.                      *)

(* manager.py:47: "Send a JSON message to all connected clients"           *)
AllAreSentTo == \A h \in Handler : Sending(h) => Missed(h) \subseteq (Dashboard \ alive)
=============================================================================
