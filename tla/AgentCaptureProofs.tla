--------------------------- MODULE AgentCaptureProofs ---------------------------
(***************************************************************************)
(* Proofs about AgentCapture for every set of packets, every assignment of *)
(* packets to flows and every number of restarts.                          *)
(***************************************************************************)
EXTENDS AgentCapture, TLAPS

(* A packet is in one place at a time. *)
OnePlace ==
  \A p \in Packet :
    /\ reported[p] <= 1
    /\ p \in passing => p \notin tracked /\ p \notin dropped /\ reported[p] = 0
    /\ p \in tracked => p \notin dropped /\ reported[p] = 0
    /\ p \in dropped => reported[p] = 0
    /\ \A t \in Reporter : p \in reporting[t] =>
         /\ p \notin passing /\ p \notin tracked /\ p \notin dropped
         /\ reported[p] = 0
    /\ ~(p \in reporting["main"] /\ p \in reporting["flow_flush"])

(* As long as no join timed out and nobody started the capture again, each *)
(* stage of the shutdown leaves behind what it is there to end.            *)
StagesEnd ==
  ~cut /\ ~lateStart =>
    /\ main = "joining" => joined = current
    /\ main \in {"flushing", "processing", "waiting", "ended"} => alive = {}
    /\ main \in {"processing", "waiting", "ended"} => tracked = {}
    /\ main \in {"waiting", "ended"} => reporting["main"] = {}
    /\ main = "ended" => reporting["flow_flush"] = {}

(* main's own flows are in its hands only between its two steps. *)
MainHolds == reporting["main"] # {} => main \in {"processing", "ended"}

IInv == TypeOK /\ OneSniffer /\ OnePlace /\ NothingVanishes /\ StagesEnd /\ MainHolds

-----------------------------------------------------------------------------
(* The initial state satisfies the inductive invariant. *)
LEMMA InitIInv == Init => IInv
<1> SUFFICES ASSUME Init PROVE IInv
  OBVIOUS
<1>1. TypeOK
  <2>1. 1 \in Sniffer /\ 0 \in 0..MaxRestarts
    BY CaptureAssumption DEF Sniffer
  <2>2. reporting \in [Reporter -> SUBSET Packet] /\ reported \in [Packet -> Nat]
    BY DEF Init
  <2> QED
    BY <2>1, <2>2 DEF Init, TypeOK
<1>2. OneSniffer /\ StagesEnd /\ MainHolds /\ NothingVanishes
  BY DEF Init, OneSniffer, StagesEnd, MainHolds, NothingVanishes, Captured, Reporter
<1>3. OnePlace
  BY DEF Init, OnePlace, Reporter
<1> QED
  BY <1>1, <1>2, <1>3 DEF IInv

(* Steps that leave the flow table alone keep what is said of packets. *)
LEMMA PacketsKept ==
  ASSUME IInv, UNCHANGED flowVars PROVE OnePlace' /\ NothingVanishes'
  BY DEF IInv, OnePlace, NothingVanishes, flowVars, Captured

(* A captured packet moves from the wire to the table. *)
LEMMA CaptureStep ==
  ASSUME IInv, NEW s \in Sniffer, NEW p \in Packet, Capture(s, p) PROVE IInv'
<1>1. /\ s \in alive /\ main # "ended" /\ p \in passing
      /\ passing' = passing \ {p} /\ tracked' = tracked \cup {p}
      /\ UNCHANGED <<main, ws, shutdown, stopEvent, current, alive, joined, reporting,
                     reported, dropped, stopping, restarts, cut, lateStart>>
  BY DEF Capture, snifferVars, ghostVars
<1>2. TypeOK'
  BY <1>1 DEF IInv, TypeOK
<1>3. OneSniffer' /\ MainHolds'
  BY <1>1 DEF IInv, OneSniffer, MainHolds
<1>4. OnePlace'
  BY <1>1 DEF IInv, OnePlace
<1>5. NothingVanishes'
  BY <1>1 DEF IInv, NothingVanishes, Captured
<1>6. StagesEnd'
  BY <1>1 DEF IInv, StagesEnd
<1> QED
  BY <1>2, <1>3, <1>4, <1>5, <1>6 DEF IInv

(* The flow_flush thread takes flows out of the table. *)
LEMMA FlushExpiredStep == IInv /\ FlushExpired => IInv'
<1> SUFFICES ASSUME IInv, FlushExpired PROVE IInv'
  OBVIOUS
<1>1. PICK K \in SUBSET Key :
        /\ FlowsOf(K) # {}
        /\ tracked' = tracked \ FlowsOf(K)
        /\ reporting' = [reporting EXCEPT !["flow_flush"] = FlowsOf(K)]
  BY DEF FlushExpired
<1>2. /\ main # "ended" /\ reporting["flow_flush"] = {}
      /\ UNCHANGED <<main, ws, shutdown, stopEvent, current, alive, joined, passing,
                     reported, dropped, stopping, restarts, cut, lateStart>>
  BY DEF FlushExpired, snifferVars, ghostVars
<1>3. FlowsOf(K) \subseteq tracked
  BY DEF FlowsOf
<1>4. /\ reporting'["flow_flush"] = FlowsOf(K)
      /\ reporting'["main"] = reporting["main"]
      /\ reporting' \in [Reporter -> SUBSET Packet]
  BY <1>1, <1>3 DEF IInv, TypeOK, Reporter
<1>5. TypeOK'
  BY <1>1, <1>2, <1>3, <1>4 DEF IInv, TypeOK
<1>6. OneSniffer' /\ MainHolds'
  BY <1>2, <1>4 DEF IInv, OneSniffer, MainHolds
<1>7. OnePlace'
  BY <1>1, <1>2, <1>3, <1>4 DEF IInv, OnePlace, Reporter
<1>8. NothingVanishes'
  BY <1>1, <1>2, <1>3, <1>4 DEF IInv, NothingVanishes, Captured, Reporter
<1>9. StagesEnd'
  BY <1>1, <1>2, <1>3, <1>4 DEF IInv, StagesEnd
<1> QED
  BY <1>5, <1>6, <1>7, <1>8, <1>9 DEF IInv

(* A thread hands its flows to the queue, or fails to. *)
LEMMA ReportStep == ASSUME IInv, NEW t \in Reporter, Report(t) PROVE IInv'
<1>1. /\ main # "ended"
      /\ reporting' = [reporting EXCEPT ![t] = {}]
      /\ UNCHANGED <<main, ws, shutdown, stopEvent, current, alive, joined, passing,
                     tracked, stopping, restarts, cut, lateStart>>
  BY DEF Report, snifferVars, ghostVars
<1>2. \/ /\ reported' = [p \in Packet |->
                           IF p \in reporting[t] THEN reported[p] + 1 ELSE reported[p]]
         /\ UNCHANGED dropped
      \/ /\ dropped' = dropped \cup reporting[t]
         /\ UNCHANGED reported
  BY DEF Report
<1>3. /\ reporting'[t] = {} /\ \A u \in Reporter \ {t} : reporting'[u] = reporting[u]
      /\ reporting' \in [Reporter -> SUBSET Packet]
  BY <1>1 DEF IInv, TypeOK
<1>4. reporting[t] \subseteq Packet
  BY DEF IInv, TypeOK
<1>5. TypeOK'
  BY <1>1, <1>2, <1>3, <1>4 DEF IInv, TypeOK
<1>6. OneSniffer' /\ MainHolds'
  BY <1>1, <1>3 DEF IInv, OneSniffer, MainHolds, Reporter
<1>7. OnePlace'
  <2> SUFFICES ASSUME NEW p \in Packet
               PROVE  /\ reported'[p] <= 1
                      /\ p \in passing => p \notin tracked /\ p \notin dropped' /\ reported'[p] = 0
                      /\ p \in tracked => p \notin dropped' /\ reported'[p] = 0
                      /\ p \in dropped' => reported'[p] = 0
                      /\ \A u \in Reporter : p \in reporting'[u] =>
                           /\ p \notin passing /\ p \notin tracked /\ p \notin dropped'
                           /\ reported'[p] = 0
                      /\ ~(p \in reporting'["main"] /\ p \in reporting'["flow_flush"])
    BY <1>1 DEF OnePlace
  <2>1. p \in reporting[t] => reported[p] = 0 /\ p \notin passing /\ p \notin tracked /\ p \notin dropped
    BY DEF IInv, OnePlace
  <2>2. \A u \in Reporter : p \in reporting'[u] => p \in reporting[u] /\ p \notin reporting[t]
    BY <1>3 DEF IInv, OnePlace, Reporter
  <2>3. ~(p \in reporting'["main"] /\ p \in reporting'["flow_flush"])
    BY <2>2 DEF IInv, OnePlace, Reporter
  <2>4. reported[p] \in Nat
    BY DEF IInv, TypeOK
  <2> QED
    BY <1>2, <2>1, <2>2, <2>3, <2>4 DEF IInv, OnePlace
<1>8. NothingVanishes'
  <2> SUFFICES ASSUME NEW p \in Captured
               PROVE  \/ p \in tracked \/ \E u \in Reporter : p \in reporting'[u]
                      \/ reported'[p] > 0 \/ p \in dropped'
    BY <1>1 DEF NothingVanishes, Captured
  <2>1. p \in Packet /\ reported[p] \in Nat
    BY DEF IInv, TypeOK, Captured
  <2>2. CASE p \in reporting[t]
    BY <1>2, <2>1, <2>2
  <2>3. CASE p \notin reporting[t]
    BY <1>2, <1>3, <2>1, <2>3 DEF IInv, NothingVanishes
  <2> QED
    BY <2>2, <2>3
<1>9. StagesEnd'
  BY <1>1, <1>3 DEF IInv, StagesEnd, Reporter
<1> QED
  BY <1>5, <1>6, <1>7, <1>8, <1>9 DEF IInv

(* The steps of the sniffer's end and of the WebSocket thread. *)
LEMMA WsStepKeeps ==
  ASSUME IInv, WsStep \/ Signal \/ \E s \in Sniffer : SnifferExits(s) PROVE IInv'
<1> USE CaptureAssumption
<1>1. UNCHANGED flowVars
  BY DEF WsStep, WsShutdown, WsRestartCapture, WsJoined, WsStartCapture, Signal, SnifferExits
<1>2. OnePlace' /\ NothingVanishes'
  BY <1>1, PacketsKept
<1>3. TypeOK'
  <2>1. CASE WsShutdown \/ Signal \/ WsJoined
    BY <1>1, <2>1 DEF IInv, TypeOK, WsShutdown, Signal, WsJoined, flowVars, snifferVars, ghostVars
  <2>2. CASE WsRestartCapture
    <3>1. restarts' \in 0..MaxRestarts
      BY <2>2 DEF IInv, TypeOK, WsRestartCapture
    <3>2. stopEvent' \in BOOLEAN
      BY <2>2 DEF WsRestartCapture, SignalSniffer
    <3> QED
      BY <1>1, <2>2, <3>1, <3>2 DEF IInv, TypeOK, WsRestartCapture, flowVars, ghostVars
  <2>3. CASE WsStartCapture
    <3>1. stopEvent' \in BOOLEAN /\ current' \in Sniffer /\ alive' \subseteq Sniffer
      <4>1. CASE current \in alive
        BY <2>3, <4>1 DEF IInv, TypeOK, WsStartCapture, StartSniffer, snifferVars
      <4>2. CASE current \notin alive
        <5>1. current + 1 \in Sniffer
          BY <2>3, <4>2 DEF IInv, TypeOK, WsStartCapture, StartSniffer, Sniffer
        <5> QED
          BY <2>3, <4>2, <5>1 DEF IInv, TypeOK, WsStartCapture, StartSniffer
      <4> QED
        BY <4>1, <4>2
    <3>2. lateStart' \in BOOLEAN
      BY <2>3 DEF WsStartCapture
    <3> QED
      BY <1>1, <2>3, <3>1, <3>2 DEF IInv, TypeOK, WsStartCapture, flowVars
  <2>4. CASE \E s \in Sniffer : SnifferExits(s)
    BY <1>1, <2>4 DEF IInv, TypeOK, SnifferExits, flowVars, ghostVars
  <2> QED
    BY <2>1, <2>2, <2>3, <2>4 DEF WsStep
<1>4. OneSniffer'
  BY DEF IInv, TypeOK, OneSniffer, WsStep, WsShutdown, WsRestartCapture, WsJoined, WsStartCapture,
      Signal, SnifferExits, StartSniffer, snifferVars
<1>5. StagesEnd' /\ MainHolds'
  BY <1>1 DEF IInv, TypeOK, StagesEnd, MainHolds, OneSniffer, WsStep, WsShutdown,
      WsRestartCapture, WsJoined, WsStartCapture, Signal, SnifferExits, StartSniffer,
      flowVars, snifferVars, ghostVars
<1> QED
  BY <1>2, <1>3, <1>4, <1>5 DEF IInv

(* The steps of the main thread. *)
LEMMA MainStepKeeps == IInv /\ MainStep => IInv'
<1> SUFFICES ASSUME IInv, MainStep PROVE IInv'
  OBVIOUS
<1>1. CASE StopCapture \/ CaptureJoined \/ StopServices \/ Exit
  <2>1. UNCHANGED <<flowVars, current, alive>>
    BY <1>1 DEF StopCapture, CaptureJoined, StopServices, Exit, snifferVars
  <2>2. OnePlace' /\ NothingVanishes' /\ OneSniffer'
    BY <2>1, PacketsKept DEF IInv, OneSniffer
  <2>3. TypeOK'
    BY <1>1, <2>1 DEF IInv, TypeOK, StopCapture, CaptureJoined, StopServices, Exit,
       SignalSniffer, snifferVars, flowVars, ghostVars
  <2>4. StagesEnd'
    BY <1>1, <2>1 DEF IInv, TypeOK, StagesEnd, MainHolds, OneSniffer, StopCapture, CaptureJoined,
       StopServices, Exit, ServicesDone, snifferVars, flowVars, ghostVars
  <2>5. MainHolds'
    BY <1>1, <2>1 DEF IInv, MainHolds, StopCapture, CaptureJoined, StopServices, Exit, flowVars
  <2> QED
    BY <2>2, <2>3, <2>4, <2>5 DEF IInv
<1>2. CASE FlushAll
  <2>1. /\ main = "flushing" /\ main' = "processing" /\ tracked' = {}
        /\ reporting' = [reporting EXCEPT !["main"] = tracked]
        /\ UNCHANGED <<ws, shutdown, stopEvent, current, alive, joined, passing, reported,
                       dropped, stopping, restarts, cut, lateStart>>
    BY <1>2 DEF FlushAll, snifferVars, ghostVars
  <2>2. /\ reporting["main"] = {}
        /\ reporting'["main"] = tracked
        /\ reporting'["flow_flush"] = reporting["flow_flush"]
        /\ reporting' \in [Reporter -> SUBSET Packet]
    BY <2>1 DEF IInv, TypeOK, MainHolds, Reporter
  <2>3. TypeOK' /\ OneSniffer' /\ MainHolds'
    BY <2>1, <2>2 DEF IInv, TypeOK, OneSniffer, MainHolds
  <2>4. OnePlace'
    BY <2>1, <2>2 DEF IInv, OnePlace, Reporter
  <2>5. NothingVanishes'
    BY <2>1, <2>2 DEF IInv, NothingVanishes, Captured, Reporter
  <2>6. StagesEnd'
    BY <2>1, <2>2 DEF IInv, StagesEnd
  <2> QED
    BY <2>3, <2>4, <2>5, <2>6 DEF IInv
<1> QED
  BY <1>1, <1>2 DEF MainStep

(* Every step keeps the inductive invariant. *)
LEMMA StepIInv == IInv /\ [Next]_vars => IInv'
<1> SUFFICES ASSUME IInv, [Next]_vars PROVE IInv'
  OBVIOUS
<1>1. CASE UNCHANGED vars
  BY <1>1 DEF vars, snifferVars, flowVars, ghostVars, IInv, TypeOK, OneSniffer, OnePlace,
              NothingVanishes, StagesEnd, MainHolds, Captured
<1>2. CASE Next
  BY <1>2, CaptureStep, FlushExpiredStep, ReportStep, WsStepKeeps, MainStepKeeps
  DEF Next, SnifferStep
<1> QED
  BY <1>1, <1>2

(* The inductive invariant holds in every reachable state. *)
THEOREM Invariance == Spec => []IInv
  BY InitIInv, StepIInv, PTL DEF Spec

(* The threads and the flow table keep their types. *)
THEOREM TypeCorrect == Spec => []TypeOK
  BY Invariance, PTL DEF IInv

(* The capture never runs in two threads. *)
THEOREM SnifferIsUnique == Spec => []OneSniffer
  BY Invariance, PTL DEF IInv

(* No captured packet vanishes between the threads. *)
THEOREM PacketsAccountedFor == Spec => []NothingVanishes
  BY Invariance, PTL DEF IInv

(* No packet is reported in two flows. *)
THEOREM NoDoubleReport == Spec => []ReportedOnce
<1>1. IInv => ReportedOnce
  BY DEF IInv, TypeOK, OnePlace, ReportedOnce, Reporter
<1> QED
  BY <1>1, Invariance, PTL

(* A shutdown whose joins are all in time, and during which nobody starts  *)
(* the capture again, hands every captured packet to the queue.            *)
THEOREM CleanStop == Spec => []CleanStopReportsAll
<1>1. IInv => CleanStopReportsAll
  <2> SUFFICES ASSUME IInv, main = "ended", ~cut, ~lateStart, NEW p \in Captured
               PROVE  reported[p] = 1 \/ p \in dropped
    BY DEF CleanStopReportsAll
  <2>1. p \in Packet /\ reported[p] \in Nat /\ reported[p] <= 1
    BY DEF IInv, TypeOK, OnePlace, Captured
  <2>2. p \notin tracked /\ \A t \in Reporter : p \notin reporting[t]
    BY DEF IInv, StagesEnd, Reporter
  <2> QED
    BY <2>1, <2>2 DEF IInv, NothingVanishes
<1> QED
  BY <1>1, Invariance, PTL

=============================================================================
