------------------------------- MODULE Detectors -------------------------------
(***************************************************************************)
(* What the agent and the backend look for in flows: the features of one   *)
(* flow (ml/feature_extractor.py), the signals of the behavior analyzer    *)
(* over the times of its rolling windows (behavior/analyzer.py), and the   *)
(* queries of the backend over stored flows (api/behavior/service.py).     *)
(*                                                                         *)
(* Scores and ratios are percents, rounded down, entropies and variances   *)
(* of intervals are in tenths, times and durations in seconds.  A signal   *)
(* that was not found has confidence 0.                                    *)
(***************************************************************************)
EXTENDS Integers, Sequences, FiniteSets, FiniteSetsExt

CONSTANTS MinSamples,  \* times needed before a period is looked for (code: 5)
          KeepTimes,   \* times kept per domain and destination (code: 50)
          ScanPorts,   \* distinct ports that are a scan (code: 15)
          BruteForce,  \* flows to a login port that are a brute force (code: 10)
          SmbTargets,  \* destinations on port 445 that are an enumeration (code: 4)
          LateralHops, \* destinations that are a lateral movement (code: 3)
          DeviceRows   \* newest flows read for one device (code: 500)

ASSUME DetectorsAssumption ==
  /\ {MinSamples, KeepTimes, ScanPorts, BruteForce, SmbTargets, LateralHops, DeviceRows}
       \subseteq Nat \ {0}
  /\ MinSamples \in 2..KeepTimes

Lesser(a, b)  == IF a <= b THEN a ELSE b
Greater(a, b) == IF a >= b THEN a ELSE b
Count(p)      == IF p THEN 1 ELSE 0

SumOf(f)      == MapThenSumSet(LAMBDA i : f[i], DOMAIN f)

(* An average of confidences, of which none may have been found.           *)
Average(total, count) == IF count = 0 THEN 0 ELSE Lesser(100, total \div count)

(***************************************************************************)
(* One flow: [src, dest, net, port, name, entropy, long, digits, interval, *)
(* duration, packets, out, sent, recv, failed, flags]; name "" is a flow   *)
(* with no DNS query, net is the range of the destination's address, long  *)
(* and digits tell what the check of the name looks at.                    *)
(***************************************************************************)
Public(flow)  == flow.net \notin {"10.", "192.168.", "172.16.", "127.", "0."}

(* The analyzer leaves out fewer ranges than the pipeline around it.       *)
Foreign(flow) == flow.net \notin {"10.", "192.168.", "127."}

extract_features(flow, batch) ==
  [entropy  |-> flow.entropy,
   queries  |-> Count(flow.name # ""),
   beacon   |-> IF flow.interval > 0 THEN Greater(0, 100 - flow.interval) ELSE 0,
   flags    |-> IF "R" \in flow.flags THEN 70
                ELSE IF "S" \in flow.flags /\ "A" \notin flow.flags THEN 50 ELSE 0,
   failed   |-> Lesser(100, (100 * flow.failed) \div Greater(1, flow.packets)),
   packets  |-> flow.packets,
   duration |-> Greater(1, flow.duration),
   outbound |-> (100 * flow.out) \div Greater(1, flow.duration),
   sent     |-> flow.sent,
   recv     |-> flow.recv,
   count    |-> Len(batch),
   unique   |-> Cardinality({batch[i].dest : i \in DOMAIN batch}),
   public   |-> IF Public(flow)
                THEN Cardinality({batch[i].dest : i \in {j \in DOMAIN batch : Public(batch[j])}})
                ELSE 0]

Rate(f) == f.packets \div f.duration

(***************************************************************************)
(* The analyzer.                                                           *)
(***************************************************************************)
(* A mistake: the history is never cut.                                    *)
MutantKeep(times) == times

Keep(times) == SubSeq(times, Greater(1, Len(times) - KeepTimes + 1), Len(times))

Gaps(times)    == [i \in 1..(Len(times) - 1) |-> times[i + 1] - times[i]]
Squares(times) == SumOf([i \in DOMAIN Gaps(times) |-> Gaps(times)[i] * Gaps(times)[i]])

(* The coefficient of variation of the gaps is c percent, rounded down:    *)
(* c^2 <= variance / mean^2 < (c + 1)^2.                                   *)
VaryBy(times, c) ==
  LET span == times[Len(times)] - times[1]
      n    == Len(times) - 1
      over == 10000 * (n * Squares(times) - span * span)
  IN c * c * span * span <= over /\ over < (c + 1) * (c + 1) * span * span

(* The confidences a look for a period may give: gaps vary by less than    *)
(* variation percent and are slowest seconds at most.  Times of one batch  *)
(* differ by microseconds: a window of them varies in any way.             *)
Periods(times, variation, slowest, floor) ==
  LET span    == times[Len(times)] - times[1]
      regular == {c \in 0..(variation - 1) : VaryBy(times, c)}
  IN IF Len(times) < MinSamples THEN {0}
     ELSE IF span = 0 THEN {0, floor, 100}
     ELSE IF span > slowest * (Len(times) - 1) \/ regular = {} THEN {0}
     ELSE {Greater(floor, 100 - c) : c \in regular}

detect_dns_beaconing(flow, times) ==
  IF flow.name = "" THEN {0} ELSE Periods(times, 30, 299, 60)

detect_periodic_callbacks(flow, times) ==
  IF Foreign(flow) THEN Periods(times, 25, 600, 65) ELSE {0}

detect_dga_domain(flow) ==
  LET confidence == Lesser(95, 5 * (flow.entropy - 35)) + (IF flow.digits THEN 10 ELSE 0)
  IN IF flow.name # "" /\ flow.entropy >= 40 /\ flow.long /\ confidence >= 50
     THEN Lesser(100, confidence) ELSE 0

detect_data_exfiltration(flow) ==
  IF flow.sent < 10000 \/ ~Foreign(flow) \/ flow.sent <= 10 * flow.recv THEN 0
  ELSE IF flow.recv = 0 THEN 85 ELSE Lesser(85, (2 * flow.sent) \div flow.recv)

detect_long_encrypted_session(flow) ==
  IF flow.port \in {443, 8443, 993, 995} /\ flow.duration > 1800 /\ 10 * flow.packets < flow.duration
  THEN Lesser(70, flow.duration \div 72) ELSE 0

(* get_behavior_score: the average over the signals found.                 *)
get_behavior_score(dns, callback, dga, exfil, encrypted) ==
  Average(dns + callback + dga + exfil + encrypted,
          Count(dns > 0) + Count(callback > 0) + Count(dga > 0) + Count(exfil > 0) + Count(encrypted > 0))

(***************************************************************************)
(* Long sessions (behavior/session_tracker.py), kept per destination and   *)
(* port: [first, last, packets].                                           *)
(***************************************************************************)
update(sessions, flow, now) ==
  LET key == <<flow.dest, flow.port>>
      old == IF key \in DOMAIN sessions THEN sessions[key] ELSE [first |-> now, packets |-> 0]
  IN [k \in DOMAIN sessions \cup {key} |->
        IF k = key THEN [first |-> old.first, last |-> now, packets |-> old.packets + flow.packets]
        ELSE sessions[k]]

(***************************************************************************)
(* Scans and movements in one batch (behavior/patterns.py) and over the    *)
(* flows the backend stored (api/behavior/service.py), a sequence in the   *)
(* order of their rows.                                                    *)
(***************************************************************************)
PortsOf(flows, src) == {flows[i].port : i \in {j \in DOMAIN flows : flows[j].src = src}} \ {0}

analyze_flows(flows, src) ==
  [port_scan        |-> LET n == Cardinality(PortsOf(flows, src))
                        IN IF n >= ScanPorts THEN Lesser(95, 2 * n) ELSE 0,
   lateral_movement |-> LET n == Cardinality({flows[i].dest : i \in {j \in DOMAIN flows :
                                   flows[j].src = src /\ flows[j].net \in {"10.", "192.168.", "172.16."}}})
                        IN IF n >= LateralHops + 2 THEN Lesser(85, 5 * n) ELSE 0]

Rows(flows, src, ports) == {i \in DOMAIN flows : flows[i].src = src /\ flows[i].port \in ports}

Targets(flows, rows) == Cardinality({flows[i].dest : i \in rows})

detect_dns_abuse(flows, src) ==
  LET rows  == {i \in DOMAIN flows : flows[i].src = src /\ flows[i].entropy > 35}
      total == SumOf([i \in rows |-> flows[i].entropy])
  IN IF Cardinality(rows) >= MinSamples /\ total >= 40 * Cardinality(rows)
     THEN Lesser(95, (2 * total) \div Cardinality(rows)) ELSE 0

(* A mistake: the limit of the device's query.                             *)
MutantDetectScanning(flows, src) ==
  LET n == Cardinality(PortsOf(SubSeq(flows, Greater(1, Len(flows) - DeviceRows + 1), Len(flows)), src))
  IN IF n >= ScanPorts THEN Lesser(90, 2 * n) ELSE 0

detect_scanning(flows, src) ==
  LET n == Cardinality(PortsOf(flows, src)) IN IF n >= ScanPorts THEN Lesser(90, 2 * n) ELSE 0

(* The query names columns network_flows has not: it raises, and the       *)
(* handler reports no exfiltration.                                        *)
detect_exfiltration(flows, src) == 0

detect_brute_force(flows, src, port) ==
  LET n == Cardinality(Rows(flows, src, {port}))
  IN IF n >= BruteForce THEN Lesser(95, (100 * n) \div 30) ELSE 0

detect_smb_enumeration(flows, src) ==
  LET n == Targets(flows, Rows(flows, src, {445})) IN IF n >= SmbTargets THEN Lesser(90, 10 * n) ELSE 0

detect_lateral_movement(flows, src) ==
  LET rows == {i \in Rows(flows, src, {22, 135, 139, 445, 3389, 5985, 5986}) :
                 flows[i].net \in {"192.168.", "10.", "172.16."}}
      n    == Targets(flows, rows)
  IN IF n >= LateralHops THEN Lesser(95, (100 * n) \div 8) ELSE 0

analyze_network(flows, src) ==
  [dns_abuse        |-> detect_dns_abuse(flows, src),
   port_scan        |-> detect_scanning(flows, src),
   data_exfiltration |-> detect_exfiltration(flows, src),
   ssh_brute_force  |-> detect_brute_force(flows, src, 22),
   rdp_brute_force  |-> detect_brute_force(flows, src, 3389),
   smb_enumeration  |-> detect_smb_enumeration(flows, src),
   lateral_movement |-> detect_lateral_movement(flows, src)]

(* The behavior score of one device, over its newest rows only.            *)
analyze_device(flows) ==
  LET rows  == {i \in DOMAIN flows : i > Len(flows) - DeviceRows}
      dns   == {i \in rows : flows[i].entropy >= 40}
      ports == Cardinality({flows[i].port : i \in rows} \ {0})
      scan  == IF ports >= ScanPorts THEN Lesser(90, 2 * ports) ELSE 0
      total == SumOf([i \in dns |-> Lesser(95, 2 * flows[i].entropy)])
  IN Average(total + scan, Cardinality(dns) + Count(scan > 0))
================================================================================
