------------------------------ MODULE RiskScoring ------------------------------
(***************************************************************************)
(* How the program rates what it found: the agent's classifier and risk    *)
(* engine (endpoint-agent ml/detection_engine.py, services/risk_engine.py),*)
(* those of the legacy agent, the risk engine of the backend with its      *)
(* history, the classifiers of ml/ and ai-engine/, and the thresholds that *)
(* turn a score into a severity, an alert, a priority or a response.       *)
(*                                                                         *)
(* Scores are percents.  Severities are 0 low, 1 medium, 2 high,           *)
(* 3 critical; -1 stands for a level below low, or for no alert.           *)
(***************************************************************************)
EXTENDS Detectors

Level(score, medium, high, critical) ==
  IF score >= critical THEN 3 ELSE IF score >= high THEN 2 ELSE IF score >= medium THEN 1 ELSE 0

(* round() of a sum of percents times weights, clamped.  A sum in the      *)
(* middle goes to the even neighbour, unless the floats fell on either     *)
(* side of it.                                                             *)
Clamped(score)    == Greater(0, Lesser(100, score))
Rounded(weighted) == {Clamped((weighted + 49) \div 100), Clamped((weighted + 50) \div 100)}

(* int() of such a sum: a whole result may be a float just below it.       *)
Truncated(weighted) ==
  {Lesser(100, weighted \div 100)}
    \cup {r \in {(weighted \div 100) - 1} : weighted % 100 = 0 /\ weighted > 0}

(***************************************************************************)
(* The agent.  An answer of the model is [xgb, anomaly].                   *)
(***************************************************************************)
heuristic_fallback(f) ==
  [xgb |-> IF f.entropy >= 42 THEN 85
           ELSE IF f.beacon >= 80 THEN 88
           ELSE IF f.failed >= 60 THEN 78
           ELSE IF f.outbound >= 50 /\ f.count >= 100 THEN 92 ELSE 0,
   anomaly |-> f.unique >= 80]

classify_threat(answer, f) ==
  IF answer.xgb >= 75
  THEN IF f.beacon >= 75 THEN "Beaconing"
       ELSE IF f.entropy >= 40 THEN "DNS Abuse"
       ELSE IF f.failed >= 50 THEN "Port Scan" ELSE "Command & Control"
  ELSE IF answer.anomaly THEN "Unknown Threat" ELSE "Normal"

ml_combined(answer) == Greater(answer.xgb, IF answer.anomaly THEN 80 ELSE 0)

extract_behavior_signals(f) ==
  Average((IF f.entropy >= 40 THEN Lesser(100, 2 * f.entropy) ELSE 0)
            + (IF f.beacon >= 70 THEN f.beacon ELSE 0)
            + (IF f.failed >= 50 THEN f.failed ELSE 0)
            + (IF Rate(f) >= 300 THEN Lesser(100, Rate(f) \div 5) ELSE 0)
            + (IF f.flags >= 50 THEN f.flags ELSE 0),
          Count(f.entropy >= 40) + Count(f.beacon >= 70) + Count(f.failed >= 50)
            + Count(Rate(f) >= 300) + Count(f.flags >= 50))

(* The analyzer's score, or without any signal the one of the features.    *)
Behavior(score, f) == IF score = 0 THEN extract_behavior_signals(f) ELSE score

Weighted(ml, ioc, behavior, history) == 40 * ml + 25 * ioc + 25 * behavior + 10 * history

(* A mistake: the behavior passed for the history, too.                    *)
MutantCalculateRisk(answer, ioc, behavior) ==
  Rounded(Weighted(ml_combined(answer), ioc, behavior, behavior))

calculate_risk(answer, ioc, behavior) == Rounded(Weighted(ml_combined(answer), ioc, behavior, 0))

(* A mistake: the thresholds of the hybrid detector.                       *)
MutantSeverity(risk) == Level(risk, 35, 65, 90)

severity(risk) == Level(risk, 35, 60, 85)

IsThreat(risk)  == risk >= 60   \* priority HIGH, counted
AutoBlock(risk) == risk >= 95

(***************************************************************************)
(* The backend: risk with the history of the device, a sequence of the     *)
(* confidences of its predictions, and the alerts of an upload.            *)
(***************************************************************************)
compute_history_score(predictions) ==
  LET counted == {i \in DOMAIN predictions : predictions[i] >= 50}
      n       == Cardinality(counted)
      total   == SumOf([i \in counted |-> predictions[i]])
  IN IF n = 0 THEN 0 ELSE Lesser(100, (total * (20 + Lesser(20, n))) \div (40 * n))

calculate(answer, ioc, behavior, predictions) ==
  Rounded(Weighted(ml_combined(answer), ioc, behavior, compute_history_score(predictions)))

RaisesAlert(risk) == risk >= 50

(* The models behind the API (ml_service, alert_service).                  *)
confidence_to_risk_level(confidence) ==
  IF confidence > 20 THEN Level(confidence, 50, 75, 90) ELSE -1

create_alert_from_prediction(confidence) ==
  IF confidence < 50 THEN -1 ELSE Level(confidence, 50, 75, 90)

(***************************************************************************)
(* The legacy agent.                                                       *)
(***************************************************************************)
legacy_calculate_risk(answer, ioc, f) ==
  LET signals == Count(f.beacon >= 70) + Count(f.entropy >= 40)
                   + Count(f.failed >= 50) + Count(Rate(f) >= 300)
  IN Rounded(40 * answer.xgb + (IF answer.anomaly THEN 20 * 80 ELSE 0) + 30 * ioc + 10 * 25 * signals)

(***************************************************************************)
(* The classifiers with three models, and the ones without artifacts.      *)
(***************************************************************************)
Vote(xgb, forest, anomaly) == 40 * xgb + 30 * forest + 30 * (IF anomaly THEN 85 ELSE 15)

hybrid_risk(xgb, forest, anomaly) == Truncated(Vote(xgb, forest, anomaly))

severity_from_risk(risk) == Level(risk, 35, 65, 90)

is_botnet(risk) == risk >= 55

(* At 0.55 exactly the floats decide.                                      *)
ensemble_is_threat(xgb, forest, anomaly) ==
  {Vote(xgb, forest, anomaly) >= 5500, Vote(xgb, forest, anomaly) > 5500}

(* A mistake: any sign is a botnet.                                        *)
MutantEnsembleFallback(f) ==
  LET signs == f.entropy >= 42 \/ f.beacon >= 80 \/ f.failed >= 60 \/ f.outbound >= 60
  IN [botnet |-> signs, threat |-> IF signs THEN "Command & Control" ELSE "benign"]

ensemble_fallback(f) ==
  LET score == (IF f.entropy >= 42 THEN 35 ELSE 0) + (IF f.beacon >= 80 THEN 40 ELSE 0)
                 + (IF f.failed >= 60 THEN 30 ELSE 0) + (IF f.outbound >= 60 THEN 25 ELSE 0)
  IN [botnet |-> score >= 50,
      threat |-> IF score < 50 THEN "benign"
                 ELSE IF f.outbound >= 60 THEN "Command & Control"
                 ELSE IF f.failed >= 60 THEN "Port Scan" ELSE "Beaconing"]

(* ai-engine/prediction/behavior_scorer.py, without signals: the analyzer  *)
(* and the backend name theirs otherwise, except dns_abuse.                *)
behavior_scores(f) ==
  [dns_abuse    |-> IF f.entropy >= 40 /\ f.queries >= 3 THEN Lesser(100, (20 * (f.entropy - 35)) \div 3)
                    ELSE IF f.entropy >= 35 THEN Lesser(50, 5 * (f.entropy - 30)) ELSE 0,
   beaconing    |-> f.beacon,
   exfiltration |-> IF f.recv > 0 /\ f.sent > 10 * f.recv
                    THEN Lesser(100, (2 * f.sent) \div f.recv) ELSE 0,
   scanning     |-> Lesser(100, (f.failed + f.flags) \div 2),
   encrypted_session |-> IF f.duration > 1800 /\ 10 * f.packets < f.duration
                         THEN Lesser(100, f.duration \div 72) ELSE 0]

(* The behavior is normal when its strongest kind stays below 0.3.         *)
behaves_normally(f) == LET scores == behavior_scores(f) IN \A k \in DOMAIN scores : scores[k] < 30
================================================================================
