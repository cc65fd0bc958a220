------------------------------ MODULE AgentCapture ------------------------------
(***************************************************************************)
(* Packet capture, flow tracking and shutdown of the endpoint agent        *)
(* (endpoint-agent/main.py, capture/sniffer.py, capture/flow_engine.py).   *)
(*                                                                         *)
(* Four threads: the sniffer adds packets to the flow table; the scheduler *)
(* task "flow_flush" takes expired flows out of it and enqueues them; the  *)
(* WebSocket thread may be told to restart the capture, or to shut down;   *)
(* the main thread, on shutdown, stops the capture, takes all flows,       *)
(* enqueues them and stops the other threads.  Every join has a timeout.   *)
(***************************************************************************)
EXTENDS Integers, FiniteSets

CONSTANTS Packet,      \* the packets that pass by, each captured at most once
          Key,         \* five-tuples, normalised by direction
          KeyOf,       \* the key process_packet computes for each packet
          MaxSniffers, \* bound: sniffer threads ever started
          MaxRestarts  \* bound: restart_capture commands

ASSUME CaptureAssumption ==
         /\ KeyOf \in [Packet -> Key]
         /\ MaxSniffers \in Nat \ {0}
         /\ MaxRestarts \in Nat

VARIABLES main,      \* where the main thread is
          ws,        \* what the WebSocket thread is doing
          shutdown,  \* EndpointAgent._shutdown_event
          stopEvent, \* PacketSniffer._stop_event
          current,   \* PacketSniffer._thread, 0 before the first
          alive,     \* sniffer threads that run
          joined,    \* the thread that main's join waits for
          passing,   \* packets not captured yet
          tracked,   \* packets of the flows in FlowEngine.flows
          reporting, \* packets of the flows _process_flows works on, per thread
          reported,  \* how many times a packet's flow was enqueued
          dropped,   \* packets of flows whose enqueue failed
          stopping,  \* the services were told to stop
          restarts,  \* restart_capture commands so far
          cut,       \* some join of the shutdown timed out
          lateStart  \* the capture was started again during the shutdown

snifferVars == <<stopEvent, current, alive>>
flowVars    == <<passing, tracked, reporting, reported, dropped>>
ghostVars   == <<cut, lateStart>>
vars == <<main, ws, shutdown, snifferVars, joined, flowVars, stopping, restarts, ghostVars>>

Sniffer  == 1..MaxSniffers
Reporter == {"flow_flush", "main"}
Captured == Packet \ passing

Init ==
  /\ main = "running" /\ ws = "listening" /\ shutdown = FALSE
  /\ stopEvent = FALSE /\ current = 1 /\ alive = {1} /\ joined = 0
  /\ passing = Packet /\ tracked = {}
  /\ reporting = [t \in Reporter |-> {}]
  /\ reported = [p \in Packet |-> 0] /\ dropped = {}
  /\ stopping = FALSE /\ restarts = 0 /\ cut = FALSE /\ lateStart = FALSE

-----------------------------------------------------------------------------
(* The sniffer thread.  sniff looks at the stop event after a packet or    *)
(* its timeout, so packets still come in after the event is set.           *)
Capture(s, p) ==
  /\ s \in alive /\ main # "ended"
  /\ p \in passing
  /\ passing' = passing \ {p}
  /\ tracked' = tracked \cup {p}
  /\ UNCHANGED <<main, ws, shutdown, snifferVars, joined, reporting, reported, dropped,
                 stopping, restarts, ghostVars>>

SnifferExits(s) ==
  /\ s \in alive /\ stopEvent
  /\ alive' = alive \ {s}
  /\ UNCHANGED <<main, ws, shutdown, stopEvent, current, joined, flowVars, stopping,
                 restarts, ghostVars>>

(* PacketSniffer.stop up to its join; the caller need not wait for a dead one. *)
SignalSniffer == stopEvent' = (stopEvent \/ current \in alive)

(* PacketSniffer.start: with a living thread it only warns.  (Definitions   *)
(* named Mutant... are faults put in on purpose, to see that the            *)
(* properties find them; the specification never uses them.)                *)
StartSniffer ==
  IF current \in alive
  THEN UNCHANGED snifferVars
  ELSE /\ current < MaxSniffers
       /\ stopEvent' = FALSE
       /\ current' = current + 1
       /\ alive' = alive \cup {current + 1}

-----------------------------------------------------------------------------
(* flow_flush: _tick_flow_flush *)
FlowsOf(K) == {p \in tracked : KeyOf[p] \in K}

MutantFlushExpired ==
  /\ main # "ended" /\ ~stopping /\ reporting["flow_flush"] = {}
  /\ \E K \in SUBSET Key :
       /\ FlowsOf(K) # {}
       /\ tracked' = {}
       /\ reporting' = [reporting EXCEPT !["flow_flush"] = FlowsOf(K)]
  /\ UNCHANGED <<main, ws, shutdown, snifferVars, joined, passing, reported, dropped,
                 stopping, restarts, ghostVars>>

FlushExpired ==
  /\ main # "ended" /\ ~stopping /\ reporting["flow_flush"] = {}
  /\ \E K \in SUBSET Key :
       /\ FlowsOf(K) # {}
       /\ tracked' = tracked \ FlowsOf(K)
       /\ reporting' = [reporting EXCEPT !["flow_flush"] = FlowsOf(K)]
  /\ UNCHANGED <<main, ws, shutdown, snifferVars, joined, passing, reported, dropped,
                 stopping, restarts, ghostVars>>

(* The end of _process_flows; the result of enqueue is not looked at. *)
Report(t) ==
  /\ main # "ended" /\ reporting[t] # {}
  /\ \/ /\ reported' = [p \in Packet |->
                          IF p \in reporting[t] THEN reported[p] + 1 ELSE reported[p]]
        /\ UNCHANGED dropped
     \/ /\ dropped' = dropped \cup reporting[t]
        /\ UNCHANGED reported
  /\ reporting' = [reporting EXCEPT ![t] = {}]
  /\ UNCHANGED <<main, ws, shutdown, snifferVars, joined, passing, tracked, stopping,
                 restarts, ghostVars>>

-----------------------------------------------------------------------------
(* _handle_ws_command on the WebSocket thread *)
WsShutdown ==
  /\ ws = "listening" /\ ~stopping
  /\ shutdown' = TRUE
  /\ UNCHANGED <<main, ws, snifferVars, joined, flowVars, stopping, restarts, ghostVars>>

(* A signal of the operating system does the same at any time. *)
Signal ==
  /\ main = "running" /\ ~shutdown
  /\ shutdown' = TRUE
  /\ UNCHANGED <<main, ws, snifferVars, joined, flowVars, stopping, restarts, ghostVars>>

WsRestartCapture ==
  /\ ws = "listening" /\ ~stopping /\ main # "ended"
  /\ restarts < MaxRestarts
  /\ restarts' = restarts + 1
  /\ SignalSniffer
  /\ ws' = "joining"
  /\ UNCHANGED <<main, shutdown, current, alive, joined, flowVars, stopping, ghostVars>>

(* The join ends because the thread did, or after timeout + 2 s. *)
WsJoined ==
  /\ ws = "joining" /\ main # "ended"
  /\ ws' = "sleeping"
  /\ UNCHANGED <<main, shutdown, snifferVars, joined, flowVars, stopping, restarts, ghostVars>>

WsStartCapture ==
  /\ ws = "sleeping" /\ main # "ended"
  /\ StartSniffer
  /\ ws' = "listening"
  /\ lateStart' = (lateStart \/ main # "running")
  /\ UNCHANGED <<main, shutdown, joined, flowVars, stopping, restarts, cut>>

-----------------------------------------------------------------------------
(* stop, on the main thread *)
StopCapture ==
  /\ main = "running" /\ shutdown
  /\ SignalSniffer
  /\ IF current \in alive THEN main' = "joining" /\ joined' = current
                          ELSE main' = "flushing" /\ UNCHANGED joined
  /\ UNCHANGED <<ws, shutdown, current, alive, flowVars, stopping, restarts, ghostVars>>

CaptureJoined ==
  /\ main = "joining"
  /\ cut' = (cut \/ joined \in alive)
  /\ main' = "flushing"
  /\ UNCHANGED <<ws, shutdown, snifferVars, joined, flowVars, stopping, restarts, lateStart>>

MutantFlushAll ==
  /\ main = "flushing"
  /\ reporting' = [reporting EXCEPT !["main"] = tracked]
  /\ main' = "processing"
  /\ UNCHANGED <<ws, shutdown, snifferVars, joined, passing, tracked, reported, dropped,
                 stopping, restarts, ghostVars>>

FlushAll ==
  /\ main = "flushing"
  /\ tracked' = {}
  /\ reporting' = [reporting EXCEPT !["main"] = tracked]
  /\ main' = "processing"
  /\ UNCHANGED <<ws, shutdown, snifferVars, joined, passing, reported, dropped,
                 stopping, restarts, ghostVars>>

StopServices ==
  /\ main = "processing" /\ reporting["main"] = {}
  /\ stopping' = TRUE
  /\ main' = "waiting"
  /\ UNCHANGED <<ws, shutdown, snifferVars, joined, flowVars, restarts, ghostVars>>

ServicesDone == ws = "listening" /\ reporting["flow_flush"] = {}

MutantExit ==
  /\ main = "waiting"
  /\ main' = "ended"
  /\ UNCHANGED <<ws, shutdown, snifferVars, joined, flowVars, stopping, restarts, ghostVars>>

MutantNonDaemonExit ==
  /\ main = "waiting" /\ alive = {}
  /\ cut' = (cut \/ ~ServicesDone)
  /\ main' = "ended"
  /\ UNCHANGED <<ws, shutdown, snifferVars, joined, flowVars, stopping, restarts, lateStart>>

(* ws_client.stop and stop_all join with timeouts; the process ends then   *)
(* and takes with it the threads that were not done, all of them daemons.  *)
Exit ==
  /\ main = "waiting"
  /\ cut' = (cut \/ ~ServicesDone)
  /\ main' = "ended"
  /\ UNCHANGED <<ws, shutdown, snifferVars, joined, flowVars, stopping, restarts, lateStart>>

-----------------------------------------------------------------------------
SnifferStep(s) == SnifferExits(s) \/ \E p \in Packet : Capture(s, p)
WsStep   == WsShutdown \/ WsRestartCapture \/ WsJoined \/ WsStartCapture
MainStep == StopCapture \/ CaptureJoined \/ FlushAll \/ StopServices \/ Exit

Next ==
  \/ \E s \in Sniffer : SnifferStep(s)
  \/ FlushExpired
  \/ \E t \in Reporter : Report(t)
  \/ WsStep
  \/ Signal
  \/ MainStep

Spec == Init /\ [][Next]_vars

(* Threads that can go on do, and flows do expire.  Packets, commands and  *)
(* signals come if they like.                                              *)
FairSpec ==
  /\ Spec
  /\ \A s \in Sniffer : WF_vars(SnifferExits(s))
  /\ \A t \in Reporter : WF_vars(Report(t))
  /\ \A k \in Key : WF_vars(FlushExpired /\ FlowsOf({k}) \cap tracked' = {})
  /\ WF_vars(WsJoined) /\ WF_vars(WsStartCapture)
  /\ WF_vars(MainStep)

-----------------------------------------------------------------------------
(* Type invariant of the threads and of the flow table. *)
TypeOK ==
  /\ main \in {"running", "joining", "flushing", "processing", "waiting", "ended"}
  /\ ws \in {"listening", "joining", "sleeping"}
  /\ shutdown \in BOOLEAN /\ stopEvent \in BOOLEAN /\ stopping \in BOOLEAN
  /\ current \in Sniffer /\ alive \subseteq Sniffer /\ joined \in {0} \cup Sniffer
  /\ passing \subseteq Packet /\ tracked \subseteq Packet /\ dropped \subseteq Packet
  /\ reporting \in [Reporter -> SUBSET Packet]
  /\ reported \in [Packet -> Nat]
  /\ restarts \in 0..MaxRestarts
  /\ cut \in BOOLEAN /\ lateStart \in BOOLEAN

(* The capture runs in at most one thread, however restarts and the        *)
(* shutdown interleave (sniffer.py:41-43): two would count packets twice.  *)
OneSniffer == alive \subseteq {current}

(* No packet is reported in two flows, although two threads take flows out *)
(* of the table and a restart may refill it (flow_engine.py:145-194).      *)
ReportedOnce ==
  /\ \A p \in Packet : reported[p] + (IF p \in dropped THEN 1 ELSE 0) <= 1
  /\ \A p \in Packet, t \in Reporter : p \in reporting[t] => reported[p] = 0
  /\ reporting["main"] \cap reporting["flow_flush"] = {}

(* A captured packet is in the flow table, in the hands of a thread, or    *)
(* reported, or its enqueue failed.                                        *)
NothingVanishes ==
  \A p \in Captured : \/ p \in tracked
                      \/ \E t \in Reporter : p \in reporting[t]
                      \/ reported[p] > 0
                      \/ p \in dropped

(* When the agent has stopped, no join timed out and the capture was not   *)
(* started again meanwhile, everything captured was handed to the queue    *)
(* (main.py:185-209): stop takes the flows after the capture has ended and *)
(* leaves before no thread that still holds some.                          *)
CleanStopReportsAll ==
  (main = "ended" /\ ~cut /\ ~lateStart) =>
     \A p \in Captured : reported[p] = 1 \/ p \in dropped

(* What was captured is handed to the queue unless the agent stops. *)
CapturedIsReported ==
  \A p \in Packet : p \in tracked ~> (reported[p] = 1 \/ p \in dropped \/ shutdown)

(* A requested shutdown ends, whatever the other threads are doing. *)
ShutdownEnds == shutdown ~> main = "ended"

(* main.py:193: stop will "Flush remaining flows": with every join in time *)
(* no captured packet is left in the flow table when the agent has ended.  *)
RemainingFlowsFlushed == main = "ended" /\ ~cut => tracked = {}

(* websocket_client.py:26: the command restart_capture will "Restart       *)
(* packet capture": while the agent runs, it captures again afterwards.    *)
RestartResumesCapture == ws = "joining" ~> ((current \in alive /\ ~stopEvent) \/ shutdown)

=============================================================================
