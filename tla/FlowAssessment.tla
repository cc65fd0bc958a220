---------------------------- MODULE FlowAssessment -----------------------------
(***************************************************************************)
(* The pipeline from a completed flow to an alert (KovirxAgent             *)
(* _process_flows in endpoint-agent/main.py, then ingest_agent_telemetry   *)
(* in backend/services/telemetry_service.py): a batch of flows is assessed *)
(* one by one, against indicators, models and the analyzer's windows of    *)
(* past times, and uploaded as one payload whose events the backend stores *)
(* as flows, predictions and alerts.                                       *)
(*                                                                         *)
(* The queue and the upload between the two are TelemetryDelivery's: here  *)
(* a payload arrives, once and in order.  What the model, the indicator    *)
(* cache and the flows say are inputs.                                     *)
(***************************************************************************)
EXTENDS RiskScoring

CONSTANTS Flow,      \* flows the agent may see
          Batches,   \* batches of flows that may complete together
          Models,    \* models the agent may have: what each answers to a flow
          NoAnswer,  \* no model, or it raises
          IocScores, \* scores of indicators in the cache: nothing checks them
          LocalIps,  \* addresses of the endpoint itself
          Steps,     \* seconds that may pass between two batches
          MaxFlows,  \* bound: flows assessed
          MaxUploads, \* bound: payloads on their way
          MaxClock   \* bound: seconds

Answer == [xgb : 0..100, anomaly : BOOLEAN]

ASSUME AssessmentAssumption ==
  /\ \A f \in Flow : /\ {f.port, f.entropy, f.interval, f.duration, f.packets, f.out, f.sent, f.recv,
                         f.failed} \subseteq Nat
                     /\ {f.long, f.digits} \subseteq BOOLEAN
  /\ Batches \subseteq Seq(Flow)
  /\ \A b \in Batches : b # <<>>
  /\ Models \subseteq [Flow -> Answer \cup {NoAnswer}]
  /\ NoAnswer \notin Answer
  /\ IocScores \subseteq Int
  /\ Steps \subseteq Nat \ {0}
  /\ MaxFlows \in Nat /\ MaxUploads \in Nat /\ MaxClock \in Nat

VARIABLES model,        \* the artifacts the agent loaded, or none
          clock,        \* time.time()
          dest_history, \* times per destination, the newest KeepTimes
          dns_history,  \* times per queried name, the newest KeepTimes
          sessions,     \* the session tracker's table, never cleaned
          batch,        \* the flows _process_flows is working on
          events,       \* the events it has built
          flows_processed,
          threats,      \* threats_detected
          blocked,      \* destinations the pipeline had blocked
          uploads,      \* payloads on their way
          flows,        \* network_flows, in the order of their rows
          predictions,  \* confidences of ml_predictions, in the same order
          alerts,       \* severities of the alerts raised, -1 for a prediction without one
          contacts      \* history: all times per destination

agentVars  == <<dest_history, dns_history, sessions, batch, events,
               flows_processed, threats, blocked, contacts>>
serverVars == <<flows, predictions, alerts>>
vars == <<model, clock, agentVars, uploads, serverVars>>

Dests == {f.dest : f \in Flow}
Names == {f.name : f \in Flow} \ {""}

Init ==
  /\ model \in Models
  /\ clock = 0
  /\ dest_history = [d \in Dests |-> <<>>]
  /\ dns_history = [n \in Names |-> <<>>]
  /\ sessions = <<>>
  /\ batch = <<>>
  /\ events = <<>>
  /\ flows_processed = 0
  /\ threats = 0
  /\ blocked = {}
  /\ uploads = <<>>
  /\ flows = <<>>
  /\ predictions = <<>>
  /\ alerts = <<>>
  /\ contacts = [d \in Dests |-> <<>>]

(***************************************************************************)
(* The agent.                                                              *)
(***************************************************************************)
(* Flows complete together: one pass of _process_flows begins.             *)
Complete(b) ==
  /\ batch = <<>>
  /\ flows_processed + Len(b) <= MaxFlows
  /\ Len(uploads) < MaxUploads
  /\ batch' = b
  /\ UNCHANGED <<model, clock, dest_history, dns_history, sessions, events, flows_processed, threats,
                 blocked, contacts, uploads, serverVars>>

(* The model's answer, or the rules.                                       *)
predict(flow, f) == IF model[flow] = NoAnswer THEN heuristic_fallback(f) ELSE model[flow]

Seen(flow) == [dest_history EXCEPT ![flow.dest] = Keep(Append(@, clock))]

Queried(flow) ==
  IF flow.name = "" THEN dns_history
  ELSE [dns_history EXCEPT ![flow.name] = Keep(Append(@, clock))]

DnsSignals(flow) ==
  detect_dns_beaconing(flow, IF flow.name = "" THEN <<>> ELSE Queried(flow)[flow.name])

CallbackSignals(flow) == detect_periodic_callbacks(flow, Seen(flow)[flow.dest])

(* What analyze() makes of a flow whose times have been recorded: the      *)
(* behavior score and the confidence of a periodic callback.               *)
Analysis(flow, dns, callback) ==
  [score |-> get_behavior_score(dns, callback, detect_dga_domain(flow),
               detect_data_exfiltration(flow), detect_long_encrypted_session(flow)),
   callback |-> callback]

(* The rest of the turn for a flow: what was found, and the payload, which *)
(* is enqueued after the last flow.                                        *)
Emit(event) ==
  IF Len(events) + 1 = Len(batch)
  THEN /\ uploads' = Append(uploads, Append(events, event))
       /\ batch' = <<>>
       /\ events' = <<>>
  ELSE /\ events' = Append(events, event)
       /\ UNCHANGED <<batch, uploads>>

(* One turn of the loop.  ioc is what the cache has for the destination or *)
(* the name: no indicator, or one with its score.  A flow with an          *)
(* indicator is urgent and not counted as a threat.                        *)
Assess(ioc) ==
  /\ batch # <<>>
  /\ LET flow   == batch[Len(events) + 1]
         f      == extract_features(flow, batch)
         answer == predict(flow, f)
     IN \E dns \in DnsSignals(flow), callback \in CallbackSignals(flow) :
        LET found == Analysis(flow, dns, callback)
        IN \E risk \in calculate_risk(answer, ioc.score, Behavior(found.score, f)) :
          /\ threats' = threats + Count(~ioc.matched /\ IsThreat(risk))
          /\ blocked' = blocked \cup {d \in {flow.dest} \ LocalIps : AutoBlock(risk)}
          /\ dest_history' = Seen(flow)
          /\ dns_history' = Queried(flow)
          /\ contacts' = [contacts EXCEPT ![flow.dest] = Append(@, clock)]
          /\ sessions' = update(sessions, flow, clock)
          /\ flows_processed' = flows_processed + 1
          /\ Emit([flow |-> flow, answer |-> answer, ioc |-> ioc.score, score |-> found.score,
                   callback |-> found.callback, risk |-> risk])
  /\ UNCHANGED <<model, clock, serverVars>>

Indicators == {[matched |-> FALSE, score |-> 0]} \cup {[matched |-> TRUE, score |-> s] : s \in IocScores}

(***************************************************************************)
(* The backend.                                                            *)
(***************************************************************************)
AlertsOf(payload) ==
  [i \in DOMAIN payload |-> IF RaisesAlert(payload[i].risk) THEN severity(payload[i].risk) ELSE -1]

Ingest ==
  /\ uploads # <<>>
  /\ uploads' = Tail(uploads)
  /\ flows' = flows \o [i \in DOMAIN Head(uploads) |-> Head(uploads)[i].flow]
  /\ predictions' = predictions \o [i \in DOMAIN Head(uploads) |-> Head(uploads)[i].answer.xgb]
  /\ alerts' = alerts \o AlertsOf(Head(uploads))
  /\ UNCHANGED <<model, clock, agentVars>>

Tick(s) ==
  /\ batch = <<>>
  /\ clock + s <= MaxClock
  /\ clock' = clock + s
  /\ UNCHANGED <<model, agentVars, uploads, serverVars>>

Next ==
  \/ \E b \in Batches : Complete(b)
  \/ \E ioc \in Indicators : Assess(ioc)
  \/ Ingest
  \/ \E s \in Steps : Tick(s)

Spec == Init /\ [][Next]_vars

(***************************************************************************)
(* Properties.                                                             *)
(***************************************************************************)
Threats(payload) == SumOf([i \in DOMAIN payload |-> Count(IsThreat(payload[i].risk))])

(* What the agent counts as a threat reaches the dashboards as an alert of *)
(* at least high severity, once its payload has arrived, and no alert is   *)
(* low.                                                                    *)
ThreatsBecomeAlerts ==
  /\ \A i \in DOMAIN alerts : alerts[i] # 0
  /\ threats <= SumOf([i \in DOMAIN alerts |-> Count(alerts[i] >= 2)])
                  + SumOf([j \in DOMAIN uploads |-> Threats(uploads[j])])
                  + Threats(events)

(* The rows a query over a window of time finds.                           *)
From(rows, since) == SubSeq(rows, since, Len(rows))

Near(a, b) == a - b \in -1..1

(* The program rates a flow in eight places, with five sets of thresholds. *)
(* On what the agent assessed, and for an indicator with a score between 0 *)
(* and 1, which is what the backend accepts and the legacy agent has: the  *)
(* backend, with whatever history, is within one severity of it; what the  *)
(* legacy agent calls high is at least medium to it, and what it calls     *)
(* critical at least high to the legacy agent, which may call its high     *)
(* low.  An anomaly alone is a threat to nobody; what the rules of the     *)
(* ensemble call a botnet those of the agent flag too, with a name, and    *)
(* behaves abnormally to the behavior scorer; a prediction raises an alert *)
(* of the severity of its level.                                           *)
RatingsAgree ==
  \A j \in DOMAIN uploads : \A i \in DOMAIN uploads[j] :
    LET e     == uploads[j][i]
        f     == extract_features(e.flow, [k \in DOMAIN uploads[j] |-> uploads[j][k].flow])
        rules == heuristic_fallback(f)
    IN /\ e.ioc \in 0..100 => \A since \in 1..(Len(predictions) + 1) :
            \A r \in calculate(e.answer, e.ioc, Behavior(e.score, f), From(predictions, since)) :
               Near(severity(r), severity(e.risk))
       /\ e.ioc \in 0..100 => \A r \in legacy_calculate_risk(e.answer, e.ioc, f) :
            /\ severity(r) >= 2 => severity(e.risk) >= 1
            /\ severity(e.risk) = 3 => severity(r) >= 2
       /\ Near(severity_from_risk(e.risk), severity(e.risk))
       /\ \A r \in hybrid_risk(0, 0, TRUE) : ~is_botnet(r)
       /\ TRUE \notin ensemble_is_threat(0, 0, TRUE)
       /\ ensemble_fallback(f).botnet =>
            /\ rules.xgb >= 75
            /\ classify_threat(rules, f) \notin {"Normal", "Unknown Threat"}
            /\ ~behaves_normally(f)
       /\ create_alert_from_prediction(e.answer.xgb) \in {-1, confidence_to_risk_level(e.answer.xgb)}

Latest == IF events # <<>> THEN events[Len(events)]
          ELSE LET payload == uploads[Len(uploads)] IN payload[Len(payload)]

(* The agent itself blocks a destination for nothing but an indicator with *)
(* a score above 1, which nothing rules out: it rates without the history, *)
(* and no model, behavior and indicator within its range reach the 95 that *)
(* a block takes, however critical (main.py:417, _process_flows).          *)
OnlyOverratedIsBlocked == [][blocked' # blocked => Latest'.ioc > 100]_vars

Accumulating == {"port_scan", "ssh_brute_force", "rdp_brute_force", "smb_enumeration", "lateral_movement"}

EquallySpaced(times) ==
  /\ times[2] - times[1] \in 1..600
  /\ \A i \in 2..Len(times) : times[i] - times[i - 1] = times[2] - times[1]

(* A destination outside that was contacted at equal gaps of at most 600 s *)
(* for as long as the analyzer remembers is reported as periodic at the    *)
(* next contact, whatever the contacts before were like.                   *)
RegularIsFound ==
  [][flows_processed' > flows_processed /\ Foreign(Latest'.flow)
       => LET times == contacts'[Latest'.flow.dest]
          IN Len(times) >= KeepTimes /\ EquallySpaced(From(times, Len(times) - KeepTimes + 1))
               => Latest'.callback = 100]_vars

(* What the analysis of the flows since some time says of scans, brute     *)
(* force and movement is not weakened by more flows.  It misses no scan    *)
(* that a look at the new batch alone finds, and what it finds of names    *)
(* and scans the analysis of the device finds too, if it reads the rows.   *)
FindingsStay ==
  [][Len(flows') > Len(flows)
       => \A src \in {f.src : f \in Flow} :
            /\ \A since \in 1..(Len(flows) + 1), k \in Accumulating :
                 analyze_network(From(flows', since), src)[k] >= analyze_network(From(flows, since), src)[k]
            /\ analyze_flows(From(flows', Len(flows) + 1), src).port_scan > 0
                 => analyze_network(flows', src).port_scan > 0
            /\ LET found == analyze_network(flows', src)
               IN Len(flows') <= DeviceRows /\ (found.dns_abuse > 0 \/ found.port_scan > 0)
                    => analyze_device(flows') > 0]_vars
================================================================================
