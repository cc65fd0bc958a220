------------------------------- MODULE MCServices ------------------------------
(* The broadcasts, the reports, the alerts, the rate limiter or the ids of *)
(* the agents: they share nothing.  Three dashboards and two ingestions    *)
(* that overlap; two reports, a task delivered up to twice, two workers of *)
(* which none, one or both know it; two alerts, two requests, a summary;   *)
(* two addresses with two requests in three seconds, for four seconds with *)
(* a restart; two starts of an agent.  The batches are a flood, a beacon,  *)
(* a scan of closed ports, browsing, lookups and the empty one, from       *)
(* agents (flags in single letters) and from clients of the API.           *)
EXTENDS LiveFeed, ReportJobs, AlertDesk, RateLimit, AgentIdentity

CONSTANTS d1, d2, d3, h1, h2, report1, report2, worker1, worker2,
          alert1, alert2, clerk1, clerk2, viewer1, client1, client2, host1

Flow(packets, bytes, duration, start, entropy, flags, outbound) ==
  [packets |-> packets, bytes |-> bytes, duration |-> duration, start |-> start,
   entropy |-> entropy, flags |-> flags, outbound |-> outbound]

Flood    == << Flow(200, 12000, 1, 0, NoQuery, {"SYN"}, TRUE) >>
Beacon   == << Flow(2, 120, 1, 0, NoQuery, {"S", "A"}, TRUE),
               Flow(2, 120, 1, 121, 45, {"S", "A"}, TRUE),
               Flow(2, 120, 1, 60, NoQuery, {"S", "A"}, TRUE) >>
Scan     == [i \in 1..6 |-> Flow(1, 40, 0, i, NoQuery, {"RST"}, FALSE)]
Browsing == << Flow(20, 2000, 10, 0, NoQuery, {"SYN", "ACK"}, TRUE),
               Flow(20, 1000, 5, 7, 30, {"ACK"}, FALSE) >>
Lookups  == << Flow(40, 2400, 1, 0, 42, {}, FALSE) >>

MCDashboard == {d1, d2, d3}
MCHandler   == {h1, h2}
MCBatches   == {<<>>, Flood, Beacon, Scan, Browsing, Lookups}
MCRawScore  == {-70, -50, -35}
MCReport    == {report1, report2}
MCWorker    == {worker1, worker2}
MCAlert     == {alert1, alert2}
MCClerk     == {clerk1, clerk2}
MCViewer    == {viewer1}
MCClient    == {client1, client2}
MCHost      == {host1}

VARIABLE side

all == <<feed, reports, desk, limiter, identity, side>>

MCInit ==
  /\ FeedInit /\ JobsInit /\ DeskInit /\ LimitInit /\ IdentityInit
  /\ side \in {"feed", "reports", "desk", "limiter", "identity"}
  /\ side # "reports" => known = {}

MCNext ==
  /\ \/ side = "feed" /\ FeedNext /\ UNCHANGED <<reports, desk, limiter, identity>>
     \/ side = "reports" /\ JobsNext /\ UNCHANGED <<feed, desk, limiter, identity>>
     \/ side = "desk" /\ DeskNext /\ UNCHANGED <<feed, reports, limiter, identity>>
     \/ side = "limiter" /\ LimitNext /\ UNCHANGED <<feed, reports, desk, identity>>
     \/ side = "identity" /\ IdentityNext /\ UNCHANGED <<feed, reports, desk, limiter>>
  /\ UNCHANGED side

MCSpec == MCInit /\ [][MCNext]_all

MCSymmetry == UNION {Permutations(S) : S \in {MCDashboard, MCHandler, MCWorker}}
=============================================================================
