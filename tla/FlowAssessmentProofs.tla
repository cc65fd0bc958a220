-------------------------- MODULE FlowAssessmentProofs -------------------------
(***************************************************************************)
(* Proofs about the ratings for every flow, model, indicator and window,   *)
(* and about the pipeline built from them.                                 *)
(***************************************************************************)
EXTENDS FlowAssessment, FiniteSetTheorems, SequenceTheorems, WellFoundedInduction,
        TLAPS

-----------------------------------------------------------------------------
(***************************************************************************)
(* Sums over finite sets.  Induction goes by the smallest set for which    *)
(* something fails.                                                        *)
(***************************************************************************)
(* Among some subsets of a finite set there is a smallest one: induction   *)
(* over finite sets.                                                       *)
LEMMA SmallestSet ==
  ASSUME NEW S, IsFiniteSet(S), NEW T \in SUBSET (SUBSET S), T # {}
  PROVE  \E x \in T : \A y \in T : y \subseteq x => y = x
<1>1. IsWellFoundedOn(StrictSubsetOrdering(S), SUBSET S)
  BY FS_StrictSubsetOrderingWellFounded, FS_FiniteSubsetsOfFinite
<1>2. PICK x \in T : \A y \in T : <<y, x>> \notin StrictSubsetOrdering(S)
  BY <1>1, WFMin
<1> QED BY <1>2 DEF StrictSubsetOrdering

(* The sum over a set, one element after another.                          *)
Chosen(s)         == CHOOSE x \in s : TRUE
AddedUp(f, g, s)  == IF s = {} THEN 0 ELSE f[Chosen(s)] + g[s \ {Chosen(s)}]
Adds(f, g, S)     == g = [s \in SUBSET S |-> AddedUp(f, g, s)]

LEMMA SumChoice ==
  ASSUME NEW f, NEW S, S = DOMAIN f
  PROVE  SumOf(f) = (CHOOSE g : Adds(f, g, S))[S]
  BY Zenon DEF SumOf, MapThenSumSet, MapThenFoldSet, Adds, AddedUp, Chosen

LEMMA ChosenIs ==
  ASSUME NEW s, s # {}
  PROVE  Chosen(s) \in s
  BY DEF Chosen

LEMMA AddsAt ==
  ASSUME NEW f, NEW g, NEW S, Adds(f, g, S), NEW s \in SUBSET S
  PROVE  g[s] = AddedUp(f, g, s)
  BY DEF Adds

(* Two ways to add agree on what both add. *)
LEMMA AddsOnce ==
  ASSUME NEW f, NEW S, IsFiniteSet(S), NEW g, NEW U \in SUBSET S, Adds(f, g, U),
         NEW h, NEW V \in SUBSET S, Adds(f, h, V), NEW s \in SUBSET U, s \in SUBSET V
  PROVE  g[s] = h[s]
<1> DEFINE T == {t \in SUBSET S : t \subseteq U /\ t \subseteq V /\ g[t] # h[t]}
<1> SUFFICES ASSUME T # {} PROVE FALSE
  OBVIOUS
<1>0. T \in SUBSET (SUBSET S)
  OBVIOUS
<1> HIDE DEF T
<1>1. PICK t \in T : \A u \in T : u \subseteq t => u = t
  BY <1>0, SmallestSet
<1> USE DEF T
<1>2. g[t] = AddedUp(f, g, t) /\ h[t] = AddedUp(f, h, t)
  BY <1>1, AddsAt
<1>3. t # {}
  BY <1>1, <1>2 DEF AddedUp
<1>4. t \ {Chosen(t)} \subseteq t /\ t \ {Chosen(t)} # t
  BY <1>3, ChosenIs
<1>5. g[t \ {Chosen(t)}] = h[t \ {Chosen(t)}]
  BY <1>1, <1>4
<1> QED BY <1>1, <1>2, <1>3, <1>5 DEF AddedUp

LEMMA AddsExists ==
  ASSUME NEW f, NEW S, IsFiniteSet(S)
  PROVE  \E g : Adds(f, g, S)
<1> DEFINE T == {t \in SUBSET S : ~ \E g : Adds(f, g, t)}
<1> SUFFICES ASSUME T # {} PROVE FALSE
  OBVIOUS
<1>0. T \in SUBSET (SUBSET S)
  OBVIOUS
<1> HIDE DEF T
<1>1. PICK t \in T : \A u \in T : u \subseteq t => u = t
  BY <1>0, SmallestSet
<1> USE DEF T
<1> DEFINE sol(u) == CHOOSE g : Adds(f, g, u)
<1>2. ASSUME NEW u \in SUBSET t, u # t PROVE Adds(f, sol(u), u)
  <2>1. \E g : Adds(f, g, u)
    BY <1>1, <1>2
  <2> QED BY <2>1
<1> HIDE DEF sol
<1> DEFINE val(s) == IF s = {} THEN 0 ELSE f[Chosen(s)] + sol(s \ {Chosen(s)})[s \ {Chosen(s)}]
           g      == [s \in SUBSET t |-> val(s)]
<1>3. ASSUME NEW s \in SUBSET t PROVE g[s] = AddedUp(f, g, s)
  <2>1. CASE s = {}
    BY <2>1 DEF AddedUp
  <2>2. CASE s # {}
    <3> DEFINE r == s \ {Chosen(s)}
    <3>1. r \in SUBSET t /\ r # t /\ r # s
      BY <2>2, ChosenIs
    <3>2. g[s] = f[Chosen(s)] + sol(r)[r]
      BY <2>2
    <3>3. sol(r)[r] = val(r)
      <4>1. sol(r)[r] = AddedUp(f, sol(r), r)
        BY <3>1, <1>2, AddsAt
      <4>2. CASE r = {}
        BY <4>1, <4>2 DEF AddedUp
      <4>3. CASE r # {}
        <5> DEFINE q == r \ {Chosen(r)}
        <5>1. q \in SUBSET t /\ q # t /\ q \subseteq r
          BY <3>1, <4>3, ChosenIs
        <5>2. Adds(f, sol(r), r) /\ Adds(f, sol(q), q)
          BY <3>1, <5>1, <1>2
        <5>3. sol(r)[q] = sol(q)[q]
          <6>1. q \in SUBSET S /\ r \in SUBSET S
            BY <1>1, <3>1, <5>1
          <6> HIDE DEF q, r
          <6> QED BY <5>1, <5>2, <6>1, AddsOnce
        <5> QED BY <4>1, <4>3, <5>3 DEF AddedUp
      <4> QED BY <4>2, <4>3
    <3>4. g[r] = val(r)
      BY <3>1
    <3> HIDE DEF val, g, sol
    <3> QED BY <2>2, <3>2, <3>3, <3>4 DEF AddedUp
  <2> QED BY <2>1, <2>2
<1>4. Adds(f, g, t)
  BY <1>3 DEF Adds
<1> QED BY <1>1, <1>4

(* SumOf is what adding the elements one after another gives.              *)
LEMMA SumAdds ==
  ASSUME NEW f, IsFiniteSet(DOMAIN f)
  PROVE  \E g : Adds(f, g, DOMAIN f) /\ SumOf(f) = g[DOMAIN f]
<1>1. \E g : Adds(f, g, DOMAIN f)
  BY AddsExists
<1> DEFINE g == CHOOSE h : Adds(f, h, DOMAIN f)
<1>2. Adds(f, g, DOMAIN f)
  BY <1>1
<1>3. SumOf(f) = g[DOMAIN f]
  BY SumChoice
<1> QED BY <1>2, <1>3

(* Each summand is between lo and hi: so is their average.                 *)
LEMMA SumBounds ==
  ASSUME NEW f, IsFiniteSet(DOMAIN f), NEW lo \in Int, NEW hi \in Int,
         \A i \in DOMAIN f : f[i] \in Int /\ lo <= f[i] /\ f[i] <= hi
  PROVE  /\ SumOf(f) \in Int
         /\ lo * Cardinality(DOMAIN f) <= SumOf(f)
         /\ SumOf(f) <= hi * Cardinality(DOMAIN f)
<1> DEFINE S == DOMAIN f
<1>1. PICK g : Adds(f, g, S) /\ SumOf(f) = g[S]
  BY SumAdds
<1> DEFINE Fits(s) == /\ g[s] \in Int
                      /\ lo * Cardinality(s) <= g[s] /\ g[s] <= hi * Cardinality(s)
           T == {t \in SUBSET S : ~Fits(t)}
<1>2. T = {}
  <2> SUFFICES ASSUME T # {} PROVE FALSE
    OBVIOUS
  <2>0. T \in SUBSET (SUBSET S)
    OBVIOUS
  <2>a. IsFiniteSet(S)
    OBVIOUS
  <2> HIDE DEF T, S
  <2>1. PICK t \in T : \A u \in T : u \subseteq t => u = t
    BY <2>0, <2>a, SmallestSet
  <2> USE DEF T, S
  <2>2. g[t] = AddedUp(f, g, t)
    BY <1>1, <2>1, AddsAt
  <2>3. IsFiniteSet(t)
    BY <2>1, FS_Subset
  <2>4. t # {}
    <3>1. CASE t = {}
      <4>1. g[t] = 0 /\ Cardinality(t) = 0
        BY <2>2, <3>1, FS_EmptySet DEF AddedUp
      <4>2. lo * 0 = 0 /\ hi * 0 = 0
        OBVIOUS
      <4>3. Fits(t)
        BY <4>1, <4>2
      <4> QED BY <2>1, <4>3
    <3> QED BY <3>1
  <2> DEFINE x == Chosen(t)
             u == t \ {x}
  <2>5. x \in t /\ x \in S
    BY <2>1, <2>4, ChosenIs
  <2>6. u \subseteq t /\ u # t
    BY <2>5
  <2>7. Fits(u)
    BY <2>1, <2>6
  <2>8. /\ Cardinality(u) = Cardinality(t) - 1 /\ Cardinality(t) \in Nat /\ Cardinality(u) \in Nat
    BY <2>3, <2>5, FS_RemoveElement, FS_CardinalityType
  <2>9. g[t] = f[x] + g[u]
    BY <2>2, <2>4 DEF AddedUp
  <2>10. f[x] \in Int /\ lo <= f[x] /\ f[x] <= hi
    BY <2>5
  <2>11. PICK n \in Nat : Cardinality(u) = n /\ Cardinality(t) = n + 1
    BY <2>8
  <2>12. lo * (n + 1) = lo * n + lo /\ hi * (n + 1) = hi * n + hi
    OBVIOUS
  <2>13. lo * n \in Int /\ hi * n \in Int
    OBVIOUS
  <2> HIDE DEF x, u
  <2>14. Fits(t)
    <3> DEFINE ln == lo * n
               hn == hi * n
    <3>1. g[u] \in Int /\ ln <= g[u] /\ g[u] <= hn
      BY <2>7, <2>11
    <3>2. lo * Cardinality(t) = ln + lo /\ hi * Cardinality(t) = hn + hi
      BY <2>11, <2>12
    <3>3. ln \in Int /\ hn \in Int
      BY <2>13
    <3> HIDE DEF ln, hn
    <3> QED BY <2>9, <2>10, <3>1, <3>2, <3>3
  <2> QED BY <2>1, <2>14
<1>3. Fits(S)
  BY <1>2
<1> QED BY <1>1, <1>3

-----------------------------------------------------------------------------

Percent == 0..100

(* An average of confidences is a confidence.                              *)
LEMMA AverageIsPercent ==
  ASSUME NEW total \in Nat, NEW count \in Nat
  PROVE  Average(total, count) \in Percent
<1>1. CASE count = 0
  BY <1>1 DEF Average, Percent
<1>2. CASE count # 0
  <2>1. total \div count \in Nat
    BY <1>2, Z3
  <2> QED  BY <1>2, <2>1 DEF Average, Percent, Lesser
<1> QED  BY <1>1, <1>2

LEMMA CountIsNat == \A p : Count(p) \in Nat
  BY DEF Count

(* What the sum of the weighted scores rounds to.                          *)
LEMMA RoundedBounds ==
  ASSUME NEW w \in Int, NEW n \in Nat, w <= 100 * n, n <= 100
  PROVE  Rounded(w) \subseteq 0..n
<1>1. PICK a \in Int : a = (w + 49) \div 100 /\ 100 * a <= w + 49
  BY Z3
<1>2. PICK b \in Int : b = (w + 50) \div 100 /\ 100 * b <= w + 50
  BY Z3
<1>3. Rounded(w) = {Clamped(a), Clamped(b)}
  BY <1>1, <1>2 DEF Rounded
<1>4. a <= n /\ b <= n
  BY <1>1, <1>2
<1> QED  BY <1>3, <1>4 DEF Clamped, Lesser, Greater

LEMMA RoundedIsPercent ==
  ASSUME NEW w \in Int
  PROVE  Rounded(w) \subseteq Percent
<1>1. (w + 49) \div 100 \in Int /\ (w + 50) \div 100 \in Int
  BY Z3
<1>2. \A a \in Int : Clamped(a) \in Percent
  BY DEF Clamped, Lesser, Greater, Percent
<1> QED  BY <1>1, <1>2 DEF Rounded

LEMMA MlIsPercent ==
  ASSUME NEW answer \in Answer
  PROVE  ml_combined(answer) \in Percent
  BY DEF Answer, ml_combined, Greater, Percent

(* The agent rates without a history: whatever the model and the analyzer  *)
(* say, and an indicator with a score of at most 1, the risk is at most    *)
(* 90, while a block takes 95 (calculate_risk, _process_flows).            *)
THEOREM AgentRiskIsBounded ==
  ASSUME NEW answer \in Answer, NEW ioc \in Int, ioc <= 100, NEW behavior \in Percent,
         NEW risk \in calculate_risk(answer, ioc, behavior)
  PROVE  risk \in 0..90 /\ ~AutoBlock(risk)
<1> DEFINE ml == ml_combined(answer)
<1>1. ml \in Percent
  BY MlIsPercent
<1>2. /\ Weighted(ml, ioc, behavior, 0) \in Int
      /\ Weighted(ml, ioc, behavior, 0) <= 100 * 90
  BY <1>1 DEF Weighted, Percent
<1>3. Rounded(Weighted(ml, ioc, behavior, 0)) \subseteq 0..90
  BY <1>2, RoundedBounds
<1>4. risk \in 0..90
  BY <1>3 DEF calculate_risk
<1> QED  BY <1>4 DEF AutoBlock

(* What a rounded sum is.                                                  *)
LEMMA RoundedIs ==
  ASSUME NEW w \in Nat, w <= 10000, NEW r \in Rounded(w)
  PROVE  r \in Int /\ 100 * r <= w + 50 /\ w + 49 < 100 * r + 100
<1>1. PICK a \in Int : a = (w + 49) \div 100 /\ 100 * a <= w + 49 /\ w + 49 < 100 * a + 100
  BY Z3
<1>2. PICK b \in Int : b = (w + 50) \div 100 /\ 100 * b <= w + 50 /\ w + 50 < 100 * b + 100
  BY Z3
<1>3. r \in {Clamped(a), Clamped(b)}
  BY <1>1, <1>2 DEF Rounded
<1>4. a \in 0..100 /\ b \in 0..100
  BY <1>1, <1>2
<1>5. r \in {a, b}
  BY <1>3, <1>4 DEF Clamped, Lesser, Greater
<1> QED  BY <1>1, <1>2, <1>5

(* With a history the backend rates the same flow at most eleven points    *)
(* higher (ten, and rounding), never lower but for rounding, and one       *)
(* severity away at most (RiskCalculationService.calculate and             *)
(* calculate_risk).                                                        *)
THEOREM HistoryMovesOneSeverity ==
  ASSUME NEW ml \in Percent, NEW ioc \in Percent, NEW behavior \in Percent, NEW history \in Percent,
         NEW agent \in Rounded(Weighted(ml, ioc, behavior, 0)),
         NEW server \in Rounded(Weighted(ml, ioc, behavior, history))
  PROVE  /\ server \in (agent - 1)..(agent + 11)
         /\ Near(severity(server), severity(agent))
<1>1. PICK w \in Nat : w = Weighted(ml, ioc, behavior, 0) /\ w <= 9000
  BY DEF Weighted, Percent
<1>2. PICK h \in Nat : h = Weighted(ml, ioc, behavior, history) /\ w <= h /\ h <= w + 1000
  <2>1. Weighted(ml, ioc, behavior, history) = w + 10 * history
    BY <1>1 DEF Weighted, Percent
  <2>2. w + 10 * history \in Nat /\ w <= w + 10 * history /\ w + 10 * history <= w + 1000
    BY <1>1 DEF Percent
  <2> QED  BY <2>1, <2>2
<1>3. agent \in Int /\ 100 * agent <= w + 50 /\ w + 49 < 100 * agent + 100
  <2>1. agent \in Rounded(w) /\ w <= 10000
    BY <1>1
  <2> QED  BY <2>1, RoundedIs
<1>4. server \in Int /\ 100 * server <= h + 50 /\ h + 49 < 100 * server + 100
  <2>1. server \in Rounded(h) /\ h <= 10000
    BY <1>1, <1>2
  <2> QED  BY <2>1, RoundedIs
<1>5. agent - 1 <= server /\ server <= agent + 11
  BY <1>2, <1>3, <1>4, Z3
<1>6. Near(severity(server), severity(agent))
  BY <1>3, <1>4, <1>5 DEF Near, severity, Level
<1> QED  BY <1>3, <1>4, <1>5, <1>6

-----------------------------------------------------------------------------
(* The flows of the model are what the assumption says.                    *)
LEMMA FlowFields ==
  ASSUME NEW flow \in Flow
  PROVE  /\ flow.entropy \in Nat /\ flow.interval \in Nat /\ flow.duration \in Nat
         /\ flow.packets \in Nat /\ flow.sent \in Nat /\ flow.recv \in Nat /\ flow.failed \in Nat
         /\ flow.digits \in BOOLEAN
  BY AssessmentAssumption

(* What was found has a confidence of at least 20.                         *)
Signal == {0} \cup 20..100

LEMMA PeriodsAreSignals ==
  ASSUME NEW times, NEW variation \in Percent, NEW slowest, NEW floor \in 20..100
  PROVE  Periods(times, variation, slowest, floor) \subseteq Signal
<1> DEFINE regular == {c \in 0..(variation - 1) : VaryBy(times, c)}
<1>1. \A c \in regular : Greater(floor, 100 - c) \in Signal
  BY DEF Greater, Percent, Signal
<1>2. {Greater(floor, 100 - c) : c \in regular} \subseteq Signal
  BY <1>1
<1>3. {0, floor, 100} \subseteq Signal /\ {0} \subseteq Signal
  BY DEF Signal
<1> QED  BY <1>2, <1>3 DEF Periods

(* So is what is found in one flow, an average of signals.                 *)
LEMMA AverageOfSignals ==
  ASSUME NEW a \in Signal, NEW b \in Signal, NEW c \in Signal, NEW d \in Signal, NEW e \in Signal
  PROVE  get_behavior_score(a, b, c, d, e) \in Signal
<1> DEFINE total == a + b + c + d + e
           count == Count(a > 0) + Count(b > 0) + Count(c > 0) + Count(d > 0) + Count(e > 0)
<1>1. total \in Nat /\ count \in Nat /\ total >= 20 * count
  BY DEF Signal, Count
<1> HIDE DEF total, count
<1>2. Average(total, count) \in Signal
  <2>1. CASE count = 0
    BY <2>1 DEF Average, Signal
  <2>2. CASE count # 0
    <3>1. total \div count \in Nat /\ total \div count >= 20
      BY <1>1, <2>2, Z3
    <3> QED  BY <2>2, <3>1 DEF Average, Lesser, Signal
  <2> QED  BY <2>1, <2>2
<1> QED  BY <1>2 DEF get_behavior_score, total, count

LEMMA AnalysisIsSignal ==
  ASSUME NEW flow \in Flow, NEW dns \in DnsSignals(flow), NEW callback \in CallbackSignals(flow)
  PROVE  /\ Analysis(flow, dns, callback).score \in Signal
         /\ Analysis(flow, dns, callback).callback \in Signal
<1>1. dns \in Signal /\ callback \in Signal
  <2>1. {30, 25} \subseteq Percent /\ {60, 65} \subseteq 20..100 /\ 0 \in Signal
    BY DEF Percent, Signal
  <2>2. \A times, slowest : /\ Periods(times, 30, slowest, 60) \subseteq Signal
                            /\ Periods(times, 25, slowest, 65) \subseteq Signal
    BY <2>1, PeriodsAreSignals
  <2> QED  BY <2>1, <2>2, ZenonT(30) DEF DnsSignals, CallbackSignals, detect_dns_beaconing, detect_periodic_callbacks
<1>2. detect_dga_domain(flow) \in Signal
  <2> DEFINE confidence == Lesser(95, 5 * (flow.entropy - 35)) + (IF flow.digits THEN 10 ELSE 0)
  <2>1. confidence \in Int
    BY FlowFields DEF Lesser
  <2>2. confidence >= 50 => Lesser(100, confidence) \in Signal
    <3> HIDE DEF confidence
    <3> QED  BY <2>1 DEF Lesser, Signal
  <2> QED  BY <2>2 DEF detect_dga_domain, Signal
<1>3. detect_data_exfiltration(flow) \in Signal
  <2>1. ASSUME flow.recv # 0, flow.sent > 10 * flow.recv
        PROVE  (2 * flow.sent) \div flow.recv \in Nat /\ (2 * flow.sent) \div flow.recv >= 20
    <3>1. PICK s \in Nat, r \in Nat : s = 2 * flow.sent /\ r = flow.recv /\ r # 0 /\ s >= 20 * r
      BY <2>1, FlowFields
    <3>2. s \div r \in Nat /\ s \div r >= 20
      BY <3>1, Z3
    <3> QED  BY <3>1, <3>2
  <2> QED  BY <2>1, FlowFields DEF detect_data_exfiltration, Lesser, Signal
<1>4. detect_long_encrypted_session(flow) \in Signal
  BY FlowFields DEF detect_long_encrypted_session, Lesser, Signal
<1>5. get_behavior_score(dns, callback, detect_dga_domain(flow), detect_data_exfiltration(flow),
                         detect_long_encrypted_session(flow)) \in Signal
  BY <1>1, <1>2, <1>3, <1>4, AverageOfSignals
<1> QED  BY <1>1, <1>5 DEF Analysis

(* The features the rules read.                                            *)
LEMMA FeatureValues ==
  ASSUME NEW flow \in Flow, NEW seen
  PROVE  LET f == extract_features(flow, seen)
         IN /\ f.entropy \in Nat /\ f.beacon \in Nat /\ f.failed \in Nat /\ f.flags \in Nat
            /\ f.queries \in Nat /\ f.packets \in Nat /\ f.duration \in Nat /\ f.duration >= 1
            /\ Rate(f) \in Nat
<1> DEFINE f == extract_features(flow, seen)
<1>1. /\ f.entropy \in Nat /\ f.beacon \in Nat /\ f.failed \in Nat /\ f.flags \in Nat
      /\ f.queries \in Nat /\ f.packets \in Nat /\ f.duration \in Nat /\ f.duration >= 1
  <2>1. (100 * flow.failed) \div Greater(1, flow.packets) \in Nat
    <3>1. PICK n \in Nat : n = Greater(1, flow.packets) /\ n >= 1
      BY FlowFields DEF Greater
    <3>2. PICK k \in Nat : k = 100 * flow.failed
      BY FlowFields
    <3>3. k \div n \in Nat
      BY <3>1, Z3
    <3> QED  BY <3>1, <3>2, <3>3
  <2>2. f.queries \in Nat
    BY CountIsNat DEF extract_features
  <2>3. /\ f.entropy \in Nat /\ f.beacon \in Nat /\ f.failed \in Nat /\ f.flags \in Nat
        /\ f.packets \in Nat /\ f.duration \in Nat /\ f.duration >= 1
    BY <2>1, FlowFields DEF extract_features, Greater, Lesser
  <2> QED  BY <2>2, <2>3
<1>2. Rate(f) \in Nat
  <2>1. PICK p \in Nat, d \in Nat : p = f.packets /\ d = f.duration /\ d >= 1
    BY <1>1
  <2>2. p \div d \in Nat
    BY <2>1, Z3
  <2> QED  BY <2>1, <2>2 DEF Rate
<1> QED  BY <1>1, <1>2

(* The behavior the risk is computed from, with or without signals: at     *)
(* least 20 if the features show anything that the legacy agent counts.    *)
LegacySignals(f) == Count(f.beacon >= 70) + Count(f.entropy >= 40)
                      + Count(f.failed >= 50) + Count(Rate(f) >= 300)

LEMMA BehaviorShowsSignals ==
  ASSUME NEW flow \in Flow, NEW seen, NEW score \in Signal
  PROVE  LET f == extract_features(flow, seen)
         IN /\ Behavior(score, f) \in Percent
            /\ LegacySignals(f) \in 0..4
            /\ LegacySignals(f) > 0 => Behavior(score, f) >= 20
<1> DEFINE f == extract_features(flow, seen)
<1>1. /\ f.entropy \in Nat /\ f.beacon \in Nat /\ f.failed \in Nat /\ f.flags \in Nat
      /\ Rate(f) \in Nat
  BY FeatureValues
<1> HIDE DEF f
<1> DEFINE t1 == IF f.entropy >= 40 THEN Lesser(100, 2 * f.entropy) ELSE 0
           t2 == IF f.beacon >= 70 THEN f.beacon ELSE 0
           t3 == IF f.failed >= 50 THEN f.failed ELSE 0
           t4 == IF Rate(f) >= 300 THEN Lesser(100, Rate(f) \div 5) ELSE 0
           t5 == IF f.flags >= 50 THEN f.flags ELSE 0
           c1 == Count(f.entropy >= 40)
           c2 == Count(f.beacon >= 70)
           c3 == Count(f.failed >= 50)
           c4 == Count(Rate(f) >= 300)
           c5 == Count(f.flags >= 50)
           total == t1 + t2 + t3 + t4 + t5
           count == c1 + c2 + c3 + c4 + c5
<1>a. /\ t1 \in Nat /\ c1 \in 0..1 /\ t1 >= 20 * c1
      /\ t2 \in Nat /\ c2 \in 0..1 /\ t2 >= 20 * c2
      /\ t3 \in Nat /\ c3 \in 0..1 /\ t3 >= 20 * c3
      /\ t5 \in Nat /\ c5 \in 0..1 /\ t5 >= 20 * c5
  BY <1>1 DEF Lesser, Count
<1>b. t4 \in Nat /\ c4 \in 0..1 /\ t4 >= 20 * c4
  <2>1. PICK r \in Nat : r = Rate(f)
    BY <1>1
  <2>2. r >= 300 => r \div 5 \in Nat /\ r \div 5 >= 60
    BY <2>1, Z3
  <2> QED  BY <2>1, <2>2 DEF Lesser, Count
<1>c. LegacySignals(f) = c2 + c1 + c3 + c4
  BY DEF LegacySignals
<1> HIDE DEF t1, t2, t3, t4, t5, c1, c2, c3, c4, c5
<1>2. /\ total \in Nat /\ count \in Nat /\ total >= 20 * count
      /\ LegacySignals(f) \in 0..4 /\ LegacySignals(f) <= count
  BY <1>a, <1>b, <1>c
<1>3. extract_behavior_signals(f) = Average(total, count)
  BY DEF extract_behavior_signals, t1, t2, t3, t4, t5, c1, c2, c3, c4, c5
<1> HIDE DEF total, count
<1>4. extract_behavior_signals(f) \in Percent
  BY <1>2, <1>3, AverageIsPercent
<1>5. LegacySignals(f) > 0 => extract_behavior_signals(f) >= 20
  <2>1. count # 0 => total \div count >= 20 /\ total \div count \in Nat
    BY <1>2, Z3
  <2> QED  BY <2>1, <1>2, <1>3 DEF Average, Lesser
<1>6. score \in Percent /\ (score # 0 => score >= 20)
  BY DEF Signal, Percent
<1> QED  BY <1>2, <1>4, <1>5, <1>6 DEF Behavior, f

(* It does not depend on the other flows of the batch.                     *)
LEMMA BehaviorOfOneFlow ==
  \A flow, score, a, b :
    Behavior(score, extract_features(flow, a)) = Behavior(score, extract_features(flow, b))
  <1> TAKE flow, score, a, b
  <1> DEFINE f == extract_features(flow, a)
             g == extract_features(flow, b)
  <1>1. /\ f.entropy = g.entropy /\ f.beacon = g.beacon /\ f.failed = g.failed
        /\ f.flags = g.flags /\ f.packets = g.packets /\ f.duration = g.duration
    BY DEF extract_features
  <1> HIDE DEF f, g
  <1>2. Rate(f) = Rate(g)
    BY <1>1 DEF Rate
  <1>3. extract_behavior_signals(f) = extract_behavior_signals(g)
    BY <1>1, <1>2 DEF extract_behavior_signals
  <1>4. Behavior(score, f) = Behavior(score, g)
    BY <1>3, Zenon DEF Behavior
  <1> QED BY <1>4 DEF f, g

-----------------------------------------------------------------------------
(* What the pipeline keeps.  The loop of _process_flows works through the  *)
(* flows of one batch; what it made of a flow, wherever it is, has the     *)
(* risk of that flow.                                                      *)
Rated(e) == e.risk \in calculate_risk(e.answer, e.ioc, Behavior(e.score, extract_features(e.flow, <<>>)))

Event == {e \in [flow : Flow, answer : Answer, ioc : Int, score : Signal, callback : Signal,
                 risk : Percent] : Rated(e)}

LoopInv ==
  /\ model \in Models
  /\ batch \in Seq(Flow)
  /\ events \in Seq(Event)
  /\ batch = <<>> => events = <<>>
  /\ batch # <<>> => Len(events) < Len(batch)

StoreInv ==
  /\ uploads \in Seq(Seq(Event))
  /\ flows \in Seq(Flow)
  /\ predictions \in Seq(Percent)

PipelineInv == LoopInv /\ StoreInv

(* One turn of the loop keeps it, and blocks by an overrated indicator.    *)
LEMMA AssessMakesEvent ==
  ASSUME LoopInv, NEW ioc \in Indicators, Assess(ioc)
  PROVE  \E event \in Event :
              /\ Emit(event)
              /\ blocked' # blocked => event.ioc > 100
              /\ \E n \in 0..Count(IsThreat(event.risk)) : threats' = threats + n
<1> DEFINE flow   == batch[Len(events) + 1]
           f      == extract_features(flow, batch)
           answer == predict(flow, f)
<1>1. flow \in Flow
  BY DEF LoopInv, Assess
<1>2. ioc.score \in Int
  <2>1. \E score \in IocScores \cup {0} : ioc.score = score
    BY DEF Indicators
  <2> QED  BY <2>1, AssessmentAssumption
<1>3. answer \in Answer
  <2>1. model[flow] \in Answer \cup {NoAnswer}
    BY <1>1, AssessmentAssumption DEF LoopInv
  <2>2. heuristic_fallback(f) \in Answer
    BY DEF heuristic_fallback, Answer
  <2> QED  BY <2>1, <2>2 DEF predict
<1> HIDE DEF flow, answer, f
<1>4. PICK dns \in DnsSignals(flow), callback \in CallbackSignals(flow) :
        \E risk \in calculate_risk(answer, ioc.score, Behavior(Analysis(flow, dns, callback).score, f)) :
          /\ threats' = threats + Count(~ioc.matched /\ IsThreat(risk))
          /\ blocked' = blocked \cup {d \in {flow.dest} \ LocalIps : AutoBlock(risk)}
          /\ Emit([flow |-> flow, answer |-> answer, ioc |-> ioc.score,
                   score |-> Analysis(flow, dns, callback).score,
                   callback |-> Analysis(flow, dns, callback).callback, risk |-> risk])
  BY DEF Assess, flow, f, answer
<1> DEFINE found == Analysis(flow, dns, callback)
<1>5. found.score \in Signal /\ found.callback \in Signal
  BY <1>1, <1>4, AnalysisIsSignal
<1> HIDE DEF found
<1> PICK risk \in calculate_risk(answer, ioc.score, Behavior(found.score, f)) :
          /\ threats' = threats + Count(~ioc.matched /\ IsThreat(risk))
          /\ blocked' = blocked \cup {d \in {flow.dest} \ LocalIps : AutoBlock(risk)}
          /\ Emit([flow |-> flow, answer |-> answer, ioc |-> ioc.score, score |-> found.score,
                   callback |-> found.callback, risk |-> risk])
  BY <1>4 DEF found
<1>6. Behavior(found.score, f) \in Percent
  BY <1>1, <1>5, BehaviorShowsSignals DEF f
<1>7. ioc.score <= 100 => blocked' = blocked
  <2> SUFFICES ASSUME ioc.score <= 100  PROVE blocked' = blocked
    OBVIOUS
  <2>1. ~AutoBlock(risk)
    BY <1>2, <1>3, <1>6, AgentRiskIsBounded
  <2> QED  BY <2>1
<1>8. risk \in Percent
  <2>1. Weighted(ml_combined(answer), ioc.score, Behavior(found.score, f), 0) \in Int
    <3>1. PICK ml \in Int, b \in Int : ml = ml_combined(answer) /\ b = Behavior(found.score, f)
      BY <1>3, <1>6, MlIsPercent DEF Percent
    <3>2. Weighted(ml, ioc.score, b, 0) \in Int
      BY <1>2 DEF Weighted
    <3> QED  BY <3>1, <3>2
  <2> QED  BY <2>1, RoundedIsPercent DEF calculate_risk
<1> DEFINE event == [flow |-> flow, answer |-> answer, ioc |-> ioc.score, score |-> found.score,
                     callback |-> found.callback, risk |-> risk]
<1>9. Rated(event)
  <2>1. Behavior(found.score, f) = Behavior(found.score, extract_features(flow, <<>>))
    BY BehaviorOfOneFlow DEF f
  <2> QED  BY <2>1 DEF Rated
<1>10. event \in Event
  BY <1>1, <1>2, <1>3, <1>5, <1>8, <1>9 DEF Event
<1>11. Count(~ioc.matched /\ IsThreat(risk)) \in 0..Count(IsThreat(risk))
  <2> DEFINE matched == ioc.matched
             threat  == IsThreat(risk)
  <2> HIDE DEF matched, threat
  <2>1. Count(~matched /\ threat) \in {0, Count(threat)} /\ Count(threat) \in {0, 1}
    BY Zenon DEF Count
  <2> QED  BY <2>1 DEF matched, threat
<1>12. \E n \in 0..Count(IsThreat(event.risk)) : threats' = threats + n
  BY <1>11
<1>13. Emit(event) /\ (blocked' # blocked => event.ioc > 100)
  BY <1>2, <1>7
<1> HIDE DEF event
<1> QED  BY <1>10, <1>12, <1>13

LEMMA AssessKeepsPipelineInv ==
  ASSUME PipelineInv, NEW ioc \in Indicators, Assess(ioc)
  PROVE  PipelineInv'
<1>1. LoopInv /\ StoreInv /\ batch # <<>>
  BY DEF PipelineInv, Assess
<1>2. PICK event \in Event : Emit(event)
  BY <1>1, AssessMakesEvent
<1>3. /\ batch \in Seq(Flow) /\ events \in Seq(Event) /\ Len(events) < Len(batch)
      /\ Append(events, event) \in Seq(Event) /\ Len(Append(events, event)) = Len(events) + 1
  BY <1>1 DEF LoopInv
<1>4. /\ batch' \in Seq(Flow) /\ events' \in Seq(Event)
      /\ batch' = <<>> => events' = <<>>
      /\ batch' # <<>> => Len(events') < Len(batch')
      /\ uploads' \in Seq(Seq(Event))
  <2> DEFINE payload == Append(events, event)
  <2>1. /\ payload \in Seq(Event) /\ uploads \in Seq(Seq(Event)) /\ Len(payload) = Len(events) + 1
        /\ Len(events) \in Nat /\ Len(batch) \in Nat
    BY <1>1, <1>3 DEF StoreInv
  <2> HIDE DEF payload
  <2>2. CASE Len(events) + 1 = Len(batch)
    <3>1. uploads' = Append(uploads, payload) /\ batch' = <<>> /\ events' = <<>>
      BY <1>2, <2>2 DEF Emit, payload
    <3> QED  BY <3>1, <2>1
  <2>3. CASE Len(events) + 1 # Len(batch)
    <3>1. uploads' = uploads /\ batch' = batch /\ events' = payload
      BY <1>2, <2>3 DEF Emit, payload
    <3> QED  BY <3>1, <2>1, <2>3, <1>1, <1>3
  <2> QED  BY <2>2, <2>3
<1> QED  BY <1>1, <1>4 DEF PipelineInv, LoopInv, StoreInv, Assess, serverVars

LEMMA IngestKeepsPipelineInv == PipelineInv /\ Ingest => PipelineInv'
<1> SUFFICES ASSUME PipelineInv, Ingest  PROVE PipelineInv'
  OBVIOUS
<1> DEFINE payload == Head(uploads)
           rows    == [i \in DOMAIN payload |-> payload[i].flow]
           scores  == [i \in DOMAIN payload |-> payload[i].answer.xgb]
<1>1. payload \in Seq(Event) /\ Tail(uploads) \in Seq(Seq(Event))
  BY DEF PipelineInv, StoreInv, Ingest
<1>2. \A i \in DOMAIN payload : payload[i].flow \in Flow /\ payload[i].answer.xgb \in Percent
  BY <1>1 DEF Event, Answer, Percent
<1>3. rows \in Seq(Flow) /\ scores \in Seq(Percent)
  <2>1. DOMAIN payload = 1..Len(payload) /\ Len(payload) \in Nat
    BY <1>1
  <2> QED  BY <1>2, <2>1
<1> QED  BY <1>1, <1>3 DEF PipelineInv, LoopInv, StoreInv, Ingest, agentVars

LEMMA NextKeepsPipelineInv == PipelineInv /\ [Next]_vars => PipelineInv'
<1> SUFFICES ASSUME PipelineInv, [Next]_vars  PROVE PipelineInv'
  OBVIOUS
<1>1. ASSUME NEW b \in Batches, Complete(b)  PROVE PipelineInv'
  BY <1>1, AssessmentAssumption DEF PipelineInv, LoopInv, StoreInv, Complete, serverVars
<1>2. ASSUME NEW ioc \in Indicators, Assess(ioc)  PROVE PipelineInv'
  BY <1>2, AssessKeepsPipelineInv
<1>3. CASE Ingest
  BY <1>3, IngestKeepsPipelineInv
<1>4. ASSUME NEW s \in Steps, Tick(s)  PROVE PipelineInv'
  BY <1>4 DEF PipelineInv, LoopInv, StoreInv, Tick, agentVars, serverVars
<1>5. CASE UNCHANGED vars
  BY <1>5 DEF PipelineInv, LoopInv, StoreInv, vars, agentVars, serverVars
<1> QED  BY <1>1, <1>2, <1>3, <1>4, <1>5 DEF Next

LEMMA PipelineHolds == Spec => []PipelineInv
<1>1. Init => PipelineInv
  BY DEF Init, PipelineInv, LoopInv, StoreInv
<1> QED  BY <1>1, NextKeepsPipelineInv, PTL DEF Spec

-----------------------------------------------------------------------------
(* The legacy agent, which adds an anomaly to the confidence and counts    *)
(* signals where the agent averages them.                                  *)
LEMMA LegacyRates ==
  ASSUME NEW e \in Event, e.ioc \in Percent, NEW r \in legacy_calculate_risk(e.answer, e.ioc, extract_features(e.flow, <<>>))
  PROVE  /\ severity(r) >= 2 => severity(e.risk) >= 1
         /\ severity(e.risk) = 3 => severity(r) >= 2
<1> DEFINE f == extract_features(e.flow, <<>>)
           v == Weighted(ml_combined(e.answer), e.ioc, Behavior(e.score, f), 0)
           w == 40 * e.answer.xgb + (IF e.answer.anomaly THEN 20 * 80 ELSE 0) + 30 * e.ioc
                  + 10 * 25 * LegacySignals(f)
<1>1. /\ e.flow \in Flow /\ e.answer \in Answer /\ e.ioc \in Percent /\ e.score \in Signal
      /\ e.risk \in Rounded(v)
  BY DEF Event, Rated, calculate_risk
<1>2. PICK b \in 0..100, s \in 0..4 : b = Behavior(e.score, f) /\ s = LegacySignals(f) /\ (s > 0 => b >= 20)
  BY <1>1, BehaviorShowsSignals DEF Percent
<1>3. PICK x \in 0..100, a \in {0, 80}, i \in 0..100 :
        x = e.answer.xgb /\ a = (IF e.answer.anomaly THEN 80 ELSE 0) /\ i = e.ioc
  BY <1>1 DEF Answer, Percent
<1>4. r \in Rounded(w)
  BY DEF legacy_calculate_risk, LegacySignals
<1>5. v = 40 * Greater(x, a) + 25 * i + 25 * b
  <2>1. v = 40 * Greater(x, a) + 25 * i + 25 * b + 10 * 0
    BY <1>2, <1>3 DEF ml_combined, Weighted
  <2>2. Greater(x, a) \in Int
    BY DEF Greater
  <2> QED  BY <2>1, <2>2
<1>6. w = 40 * x + 20 * a + 30 * i + 250 * s
  <2>1. (IF e.answer.anomaly THEN 20 * 80 ELSE 0) = 20 * a
    BY <1>3
  <2> QED  BY <1>2, <1>3, <2>1
<1> HIDE DEF f, v, w
<1>a. PICK g \in 0..100 : g = Greater(x, a) /\ g >= x /\ g >= a /\ g \in {x, a}
  BY DEF Greater
<1>b. v = 40 * g + 25 * i + 25 * b
  BY <1>a, <1>5
<1>c. s > 0 => b >= 20
  BY <1>2
<1>7. /\ v \in Nat /\ v <= 10000 /\ w \in Nat /\ w <= 10000
      /\ v <= 3450 => w < 5950
      /\ v >= 8450 => w >= 6050
  <2>1. v \in Nat /\ v <= 10000 /\ w \in Nat /\ w <= 10000
    BY <1>b, <1>6
  <2>2. v <= 3450 => w < 5950
    <3>1. w <= v - 25 * b + 20 * a + 5 * i + 250 * s
      BY <1>a, <1>b, <1>6, SMTT(20)
    <3>2. CASE a = 0
      BY <2>1, <3>1, <3>2
    <3>3. CASE a = 80
      <4>1. 3200 + 25 * i + 25 * b <= v
        BY <1>a, <1>b, <3>3
      <4>2. v <= 3450 => s = 0
        BY <2>1, <4>1, <1>c
      <4> QED  BY <2>1, <3>1, <3>3, <4>1, <4>2
    <3> QED  BY <3>2, <3>3
  <2>3. v >= 8450 => w >= 6050
    BY <1>a, <1>b, <1>6, <2>1, SMTT(60)
  <2> QED  BY <2>1, <2>2, <2>3
<1>8. e.risk \in Int /\ 100 * e.risk <= v + 50 /\ v + 49 < 100 * e.risk + 100
  BY <1>1, <1>7, RoundedIs
<1>9. r \in Int /\ 100 * r <= w + 50 /\ w + 49 < 100 * r + 100
  BY <1>4, <1>7, RoundedIs
<1>12. r >= 60 => e.risk >= 35
  BY <1>7, <1>8, <1>9
<1>13. e.risk >= 85 => r >= 60
  BY <1>7, <1>8, <1>9
<1> QED  BY <1>8, <1>9, <1>12, <1>13 DEF severity, Level

(* What the rules of the ensemble call a botnet.                           *)
LEMMA BotnetsAreFlagged ==
  ASSUME NEW flow \in Flow, NEW seen,
         ensemble_fallback(extract_features(flow, seen)).botnet
  PROVE  LET f     == extract_features(flow, seen)
             rules == heuristic_fallback(f)
         IN /\ rules.xgb >= 75
            /\ classify_threat(rules, f) \notin {"Normal", "Unknown Threat"}
            /\ ~behaves_normally(f)
<1> DEFINE f     == extract_features(flow, seen)
           rules == heuristic_fallback(f)
<1>1. /\ f.entropy \in Nat /\ f.beacon \in Nat /\ f.failed \in Nat /\ f.flags \in Nat
      /\ f.queries \in Nat
  BY FeatureValues
<1> HIDE DEF f
<1>2. f.entropy >= 42 \/ f.beacon >= 80 \/ f.failed >= 60
  <2> DEFINE score == (IF f.entropy >= 42 THEN 35 ELSE 0) + (IF f.beacon >= 80 THEN 40 ELSE 0)
                        + (IF f.failed >= 60 THEN 30 ELSE 0) + (IF f.outbound >= 60 THEN 25 ELSE 0)
  <2>1. ensemble_fallback(f).botnet = (score >= 50)
    BY Zenon DEF ensemble_fallback
  <2>2. score >= 50
    BY <2>1 DEF f
  <2> QED  BY <2>2
<1>3. rules.xgb >= 75
  BY <1>2 DEF heuristic_fallback
<1>4. classify_threat(rules, f) \notin {"Normal", "Unknown Threat"}
  BY <1>3 DEF classify_threat
<1> DEFINE scores == behavior_scores(f)
<1>5. /\ "dns_abuse" \in DOMAIN scores /\ "beaconing" \in DOMAIN scores /\ "scanning" \in DOMAIN scores
      /\ scores["dns_abuse"] = IF f.entropy >= 40 /\ f.queries >= 3 THEN Lesser(100, (20 * (f.entropy - 35)) \div 3)
                               ELSE IF f.entropy >= 35 THEN Lesser(50, 5 * (f.entropy - 30)) ELSE 0
      /\ scores["beaconing"] = f.beacon
      /\ scores["scanning"] = Lesser(100, (f.failed + f.flags) \div 2)
  BY DEF behavior_scores
<1> HIDE DEF scores
<1>6. \E k \in DOMAIN scores : ~(scores[k] < 30)
  <2>1. CASE f.entropy >= 42
    <3>1. (20 * (f.entropy - 35)) \div 3 >= 46 /\ (20 * (f.entropy - 35)) \div 3 \in Int
      <4>1. PICK n \in Nat : n = 20 * (f.entropy - 35) /\ n >= 140
        BY <1>1, <2>1
      <4> QED  BY <4>1, Z3
    <3>2. ~(scores["dns_abuse"] < 30)
      BY <1>1, <1>5, <2>1, <3>1 DEF Lesser
    <3> QED  BY <1>5, <3>2
  <2>2. CASE f.beacon >= 80
    BY <1>1, <1>5, <2>2
  <2>3. CASE f.failed >= 60
    <3>1. (f.failed + f.flags) \div 2 >= 30 /\ (f.failed + f.flags) \div 2 \in Int
      <4>1. PICK n \in Nat : n = f.failed + f.flags /\ n >= 60
        BY <1>1, <2>3
      <4> QED  BY <4>1, Z3
    <3>2. ~(scores["scanning"] < 30)
      BY <1>5, <3>1 DEF Lesser
    <3> QED  BY <1>5, <3>2
  <2> QED  BY <1>2, <2>1, <2>2, <2>3
<1>7. ~behaves_normally(f)
  BY <1>6 DEF behaves_normally, scores
<1> QED  BY <1>3, <1>4, <1>7 DEF f

(* The confidences a history is computed from.                             *)
LEMMA HistoryIsPercent ==
  ASSUME NEW rows \in Seq(Percent)
  PROVE  compute_history_score(rows) \in Percent
<1> DEFINE counted == {i \in DOMAIN rows : rows[i] >= 50}
           values  == [i \in counted |-> rows[i]]
           n       == Cardinality(counted)
           total   == SumOf(values)
<1>1. IsFiniteSet(counted)
  <2>1. DOMAIN rows = 1..Len(rows) /\ Len(rows) \in Nat
    OBVIOUS
  <2>2. IsFiniteSet(DOMAIN rows)
    BY <2>1, FS_Interval
  <2> QED  BY <2>2, FS_Subset
<1>2. n \in Nat
  BY <1>1, FS_CardinalityType
<1>3. total \in Int /\ 0 * n <= total /\ total <= 100 * n
  <2>1. DOMAIN values = counted
    OBVIOUS
  <2>2. \A i \in counted : values[i] \in Int /\ 0 <= values[i] /\ values[i] <= 100
    <3>1. \A i \in DOMAIN rows : rows[i] \in Percent
      OBVIOUS
    <3>2. \A p \in Percent : p \in Int /\ 0 <= p /\ p <= 100
      BY DEF Percent
    <3> QED  BY <3>1, <3>2
  <2> HIDE DEF values, counted
  <2> QED  BY <1>1, <2>1, <2>2, SumBounds
<1> HIDE DEF counted, values, total, n
<1>4. total \in Nat
  BY <1>2, <1>3
<1>5. n # 0 => Lesser(100, (total * (20 + Lesser(20, n))) \div (40 * n)) \in Percent
  <2> SUFFICES ASSUME n # 0  PROVE Lesser(100, (total * (20 + Lesser(20, n))) \div (40 * n)) \in Percent
    OBVIOUS
  <2>1. PICK k \in Nat : k = 20 + Lesser(20, n)
    BY <1>2 DEF Lesser
  <2>2. PICK p \in Nat : p = total * k
    BY <1>4, <2>1
  <2>3. PICK q \in Nat : q = 40 * n /\ q # 0
    BY <1>2
  <2>4. p \div q \in Nat
    BY <2>2, <2>3, Z3
  <2>5. Lesser(100, p \div q) \in Percent
    <3>1. PICK m \in Nat : m = p \div q
      BY <2>4
    <3>2. Lesser(100, m) \in Percent
      BY DEF Lesser, Percent
    <3> QED  BY <3>1, <3>2
  <2> QED  BY <2>1, <2>2, <2>3, <2>5
<1>6. compute_history_score(rows) = IF n = 0 THEN 0 ELSE Lesser(100, (total * (20 + Lesser(20, n))) \div (40 * n))
  BY DEF compute_history_score, counted, values, total, n
<1> QED  BY <1>5, <1>6 DEF Percent

(* What the program says of a flow in its different places agrees as far   *)
(* as RatingsAgree says, for every flow, answer, indicator and history.    *)
THEOREM RatingsStayClose == Spec => []RatingsAgree
<1>1. ASSUME NEW e \in Event, e.ioc \in Percent, NEW seen, NEW rows \in Seq(Percent), NEW since \in 1..(Len(rows) + 1),
             NEW r \in calculate(e.answer, e.ioc, Behavior(e.score, extract_features(e.flow, seen)),
                                 From(rows, since))
      PROVE  Near(severity(r), severity(e.risk))
  <2> DEFINE ml       == ml_combined(e.answer)
             behavior == Behavior(e.score, extract_features(e.flow, seen))
             history  == compute_history_score(From(rows, since))
  <2>1. e.flow \in Flow /\ e.answer \in Answer /\ e.ioc \in Percent /\ e.score \in Signal
    BY <1>1 DEF Event
  <2>2. ml \in Percent /\ behavior \in Percent
    BY <2>1, MlIsPercent, BehaviorShowsSignals
  <2>3. From(rows, since) \in Seq(Percent)
    BY DEF From
  <2>4. history \in Percent
    BY <2>3, HistoryIsPercent
  <2>5. behavior = Behavior(e.score, extract_features(e.flow, <<>>))
    BY BehaviorOfOneFlow
  <2>6. e.risk \in Rounded(Weighted(ml, e.ioc, behavior, 0))
    BY <2>5 DEF Event, Rated, calculate_risk
  <2>7. r \in Rounded(Weighted(ml, e.ioc, behavior, history))
    BY DEF calculate
  <2> HIDE DEF ml, behavior, history
  <2> QED  BY <2>1, <2>2, <2>4, <2>6, <2>7, HistoryMovesOneSeverity
<1>2. ASSUME NEW e \in Event, e.ioc \in Percent, NEW seen,
             NEW r \in legacy_calculate_risk(e.answer, e.ioc, extract_features(e.flow, seen))
      PROVE  /\ severity(r) >= 2 => severity(e.risk) >= 1
             /\ severity(e.risk) = 3 => severity(r) >= 2
  <2>1. r \in legacy_calculate_risk(e.answer, e.ioc, extract_features(e.flow, <<>>))
    BY DEF legacy_calculate_risk, extract_features, Rate
  <2> QED  BY <1>2, <2>1, LegacyRates
<1>3. \A risk \in Percent : Near(severity_from_risk(risk), severity(risk))
  BY DEF Percent, Near, severity_from_risk, severity, Level
<1>4. \A r \in hybrid_risk(0, 0, TRUE) : ~is_botnet(r)
  BY DEF hybrid_risk, Vote, Truncated, Lesser, is_botnet
<1>5. TRUE \notin ensemble_is_threat(0, 0, TRUE)
  <2> DEFINE vote    == Vote(0, 0, TRUE)
             atLeast == vote >= 5500
             above   == vote > 5500
  <2>1. ensemble_is_threat(0, 0, TRUE) = {atLeast, above}
    BY Zenon DEF ensemble_is_threat
  <2>2. vote = 2550
    BY DEF Vote
  <2> HIDE DEF vote
  <2>3. atLeast = FALSE /\ above = FALSE
    BY <2>2
  <2> HIDE DEF atLeast, above
  <2> QED  BY <2>1, <2>3, Zenon
<1>6. \A c \in Percent : create_alert_from_prediction(c) \in {-1, confidence_to_risk_level(c)}
  BY DEF Percent, create_alert_from_prediction, confidence_to_risk_level
<1>7. PipelineInv => RatingsAgree
  <2> SUFFICES ASSUME PipelineInv, NEW j \in DOMAIN uploads, NEW i \in DOMAIN uploads[j]
               PROVE  LET e     == uploads[j][i]
                          f     == extract_features(e.flow, [k \in DOMAIN uploads[j] |-> uploads[j][k].flow])
                          rules == heuristic_fallback(f)
                      IN /\ e.ioc \in 0..100 => \A since \in 1..(Len(predictions) + 1) :
                              \A r \in calculate(e.answer, e.ioc, Behavior(e.score, f), From(predictions, since)) :
                                 Near(severity(r), severity(e.risk))
                         /\ e.ioc \in 0..100 => \A r \in legacy_calculate_risk(e.answer, e.ioc, f) :
                              /\ severity(r) >= 2 => severity(e.risk) >= 1
                              /\ severity(e.risk) = 3 => severity(r) >= 2
                         /\ Near(severity_from_risk(e.risk), severity(e.risk))
                         /\ \A r \in hybrid_risk(0, 0, TRUE) : ~is_botnet(r)
                         /\ TRUE \notin ensemble_is_threat(0, 0, TRUE)
                         /\ ensemble_fallback(f).botnet =>
                              /\ rules.xgb >= 75
                              /\ classify_threat(rules, f) \notin {"Normal", "Unknown Threat"}
                              /\ ~behaves_normally(f)
                         /\ create_alert_from_prediction(e.answer.xgb)
                              \in {-1, confidence_to_risk_level(e.answer.xgb)}
    BY DEF RatingsAgree
  <2> DEFINE e    == uploads[j][i]
             seen == [k \in DOMAIN uploads[j] |-> uploads[j][k].flow]
  <2>1. e \in Event /\ predictions \in Seq(Percent)
    BY DEF PipelineInv, StoreInv
  <2> HIDE DEF e, seen
  <2>2. e.flow \in Flow /\ e.risk \in Percent /\ e.answer.xgb \in Percent
    BY <2>1 DEF Event, Answer, Percent
  <2> DEFINE f == extract_features(e.flow, seen)
  <2>3. e.ioc \in 0..100 => \A since \in 1..(Len(predictions) + 1) :
          \A r \in calculate(e.answer, e.ioc, Behavior(e.score, f), From(predictions, since)) :
             Near(severity(r), severity(e.risk))
    BY <2>1, <1>1 DEF Percent
  <2>4. e.ioc \in 0..100 => \A r \in legacy_calculate_risk(e.answer, e.ioc, f) :
          /\ severity(r) >= 2 => severity(e.risk) >= 1
          /\ severity(e.risk) = 3 => severity(r) >= 2
    BY <2>1, <1>2 DEF Percent
  <2>5. ensemble_fallback(f).botnet =>
          /\ heuristic_fallback(f).xgb >= 75
          /\ classify_threat(heuristic_fallback(f), f) \notin {"Normal", "Unknown Threat"}
          /\ ~behaves_normally(f)
    BY <2>2, BotnetsAreFlagged
  <2> HIDE DEF f
  <2> QED  BY <2>2, <2>3, <2>4, <2>5, <1>3, <1>4, <1>5, <1>6, Zenon DEF e, seen, f
<1> QED  BY <1>7, PipelineHolds, PTL

-----------------------------------------------------------------------------
(***************************************************************************)
(* What the analysis finds in rows is found in more rows, too.             *)
(***************************************************************************)
LEMMA ImageIsFinite ==
  ASSUME NEW S, IsFiniteSet(S), NEW f
  PROVE  IsFiniteSet({f[x] : x \in S})
<1> DEFINE T == {f[x] : x \in S}
           g == [x \in S |-> f[x]]
<1>1. g \in Surjection(S, T)
  BY DEF Surjection
<1> QED  BY <1>1, FS_Surjection

LEMMA RowsAreFinite ==
  ASSUME NEW rows \in Seq(Flow), NEW some \in SUBSET (DOMAIN rows)
  PROVE  /\ IsFiniteSet(some)
         /\ IsFiniteSet({rows[i].port : i \in some})
         /\ IsFiniteSet({rows[i].dest : i \in some})
<1>1. IsFiniteSet(some)
  <2>1. DOMAIN rows = 1..Len(rows) /\ Len(rows) \in Nat
    OBVIOUS
  <2>2. IsFiniteSet(DOMAIN rows)
    BY <2>1, FS_Interval
  <2> QED  BY <2>2, FS_Subset
<1> DEFINE ports == [i \in DOMAIN rows |-> rows[i].port]
           dests == [i \in DOMAIN rows |-> rows[i].dest]
<1>2. IsFiniteSet({ports[i] : i \in some}) /\ IsFiniteSet({dests[i] : i \in some})
  <2> HIDE DEF ports, dests
  <2> QED  BY <1>1, ImageIsFinite
<1>3. /\ {ports[i] : i \in some} = {rows[i].port : i \in some}
      /\ {dests[i] : i \in some} = {rows[i].dest : i \in some}
  OBVIOUS
<1> QED  BY <1>1, <1>2, <1>3

Begins(a, b) == /\ a \in Seq(Flow) /\ b \in Seq(Flow)
                /\ \A i \in DOMAIN a : i \in DOMAIN b /\ b[i] = a[i]

LEMMA MoreToCount ==
  ASSUME NEW S, NEW T, IsFiniteSet(T), S \subseteq T
  PROVE  Cardinality(S) \in Nat /\ Cardinality(T) \in Nat /\ Cardinality(S) <= Cardinality(T)
  BY FS_Subset, FS_CardinalityType

LEMMA MorePorts ==
  ASSUME NEW a, NEW b, Begins(a, b), NEW src
  PROVE  /\ PortsOf(a, src) \subseteq PortsOf(b, src) /\ IsFiniteSet(PortsOf(b, src))
         /\ Cardinality(PortsOf(a, src)) \in Nat /\ Cardinality(PortsOf(b, src)) \in Nat
         /\ Cardinality(PortsOf(a, src)) <= Cardinality(PortsOf(b, src))
<1> DEFINE some == {j \in DOMAIN b : b[j].src = src}
<1>1. IsFiniteSet({b[i].port : i \in some})
  BY RowsAreFinite DEF Begins
<1>2. IsFiniteSet(PortsOf(b, src))
  BY <1>1, FS_Subset DEF PortsOf
<1>3. PortsOf(a, src) \subseteq PortsOf(b, src)
  BY DEF PortsOf, Begins
<1> QED  BY <1>2, <1>3, MoreToCount

LEMMA MoreScans ==
  ASSUME NEW a, NEW b, Begins(a, b), NEW src
  PROVE  detect_scanning(b, src) >= detect_scanning(a, src)
<1>1. PICK n \in Nat, m \in Nat : n = Cardinality(PortsOf(a, src)) /\ m = Cardinality(PortsOf(b, src)) /\ n <= m
  BY MorePorts
<1> QED  BY <1>1, DetectorsAssumption DEF detect_scanning, Lesser

LEMMA MoreRows ==
  ASSUME NEW a, NEW b, Begins(a, b), NEW src, NEW ports
  PROVE  /\ Rows(a, src, ports) \subseteq Rows(b, src, ports)
         /\ Rows(b, src, ports) \subseteq DOMAIN b
         /\ Cardinality(Rows(a, src, ports)) \in Nat /\ Cardinality(Rows(b, src, ports)) \in Nat
         /\ Cardinality(Rows(a, src, ports)) <= Cardinality(Rows(b, src, ports))
<1>1. Rows(a, src, ports) \subseteq Rows(b, src, ports) /\ Rows(b, src, ports) \subseteq DOMAIN b
  BY DEF Rows, Begins
<1>2. IsFiniteSet(Rows(b, src, ports))
  BY <1>1, RowsAreFinite DEF Begins
<1> QED  BY <1>1, <1>2, MoreToCount

LEMMA MoreTargets ==
  ASSUME NEW a, NEW b, Begins(a, b), NEW r \in SUBSET (DOMAIN a), NEW s \in SUBSET (DOMAIN b), r \subseteq s
  PROVE  Targets(a, r) \in Nat /\ Targets(b, s) \in Nat /\ Targets(a, r) <= Targets(b, s)
<1>1. {a[i].dest : i \in r} \subseteq {b[i].dest : i \in s}
  BY DEF Begins
<1>2. IsFiniteSet({b[i].dest : i \in s})
  BY RowsAreFinite DEF Begins
<1> QED  BY <1>1, <1>2, MoreToCount DEF Targets

LEMMA MoreBruteForce ==
  ASSUME NEW a, NEW b, Begins(a, b), NEW src, NEW port
  PROVE  detect_brute_force(b, src, port) >= detect_brute_force(a, src, port)
<1>1. PICK n \in Nat, m \in Nat : /\ n = Cardinality(Rows(a, src, {port})) /\ m = Cardinality(Rows(b, src, {port}))
                                  /\ n <= m
  BY MoreRows
<1>2. PICK p \in Nat, q \in Nat : p = (100 * n) \div 30 /\ q = (100 * m) \div 30 /\ p <= q
  <2>1. (100 * n) \div 30 \in Nat /\ (100 * m) \div 30 \in Nat /\ (100 * n) \div 30 <= (100 * m) \div 30
    BY <1>1, Z3
  <2> QED  BY <2>1
<1> QED  BY <1>1, <1>2, DetectorsAssumption DEF detect_brute_force, Lesser

LEMMA MoreEnumeration ==
  ASSUME NEW a, NEW b, Begins(a, b), NEW src
  PROVE  detect_smb_enumeration(b, src) >= detect_smb_enumeration(a, src)
<1>1. Rows(a, src, {445}) \subseteq DOMAIN a
  BY DEF Rows
<1>2. PICK n \in Nat, m \in Nat : /\ n = Targets(a, Rows(a, src, {445})) /\ m = Targets(b, Rows(b, src, {445}))
                                  /\ n <= m
  BY <1>1, MoreRows, MoreTargets
<1> QED  BY <1>2, DetectorsAssumption DEF detect_smb_enumeration, Lesser

LEMMA MoreMovement ==
  ASSUME NEW a, NEW b, Begins(a, b), NEW src
  PROVE  detect_lateral_movement(b, src) >= detect_lateral_movement(a, src)
<1> DEFINE ports   == {22, 135, 139, 445, 3389, 5985, 5986}
           hops(c) == {i \in Rows(c, src, ports) : c[i].net \in {"192.168.", "10.", "172.16."}}
<1>1. hops(a) \subseteq DOMAIN a /\ hops(b) \subseteq DOMAIN b /\ hops(a) \subseteq hops(b)
  BY DEF Rows, Begins
<1>2. PICK n \in Nat, m \in Nat : n = Targets(a, hops(a)) /\ m = Targets(b, hops(b)) /\ n <= m
  <2> HIDE DEF hops
  <2> QED  BY <1>1, MoreTargets
<1>3. PICK p \in Nat, q \in Nat : p = (100 * n) \div 8 /\ q = (100 * m) \div 8 /\ p <= q
  <2>1. (100 * n) \div 8 \in Nat /\ (100 * m) \div 8 \in Nat /\ (100 * n) \div 8 <= (100 * m) \div 8
    BY <1>2, Z3
  <2> QED  BY <2>1
<1>4. /\ detect_lateral_movement(a, src) = IF n >= LateralHops THEN Lesser(95, p) ELSE 0
      /\ detect_lateral_movement(b, src) = IF m >= LateralHops THEN Lesser(95, q) ELSE 0
  BY <1>2, <1>3 DEF detect_lateral_movement
<1> QED  BY <1>2, <1>3, <1>4, DetectorsAssumption DEF Lesser

LEMMA MoreIsFound ==
  ASSUME NEW a, NEW b, Begins(a, b), NEW src, NEW k \in Accumulating
  PROVE  analyze_network(b, src)[k] >= analyze_network(a, src)[k]
<1>1. \A c : /\ analyze_network(c, src)["port_scan"] = detect_scanning(c, src)
             /\ analyze_network(c, src)["ssh_brute_force"] = detect_brute_force(c, src, 22)
             /\ analyze_network(c, src)["rdp_brute_force"] = detect_brute_force(c, src, 3389)
             /\ analyze_network(c, src)["smb_enumeration"] = detect_smb_enumeration(c, src)
             /\ analyze_network(c, src)["lateral_movement"] = detect_lateral_movement(c, src)
  BY DEF analyze_network
<1> QED  BY <1>1, MoreScans, MoreBruteForce, MoreEnumeration, MoreMovement DEF Accumulating

(* A scan within the new rows alone is a scan.                             *)
LEMMA NewScanIsFound ==
  ASSUME NEW rows \in Seq(Flow), NEW new \in Seq(Flow), NEW src,
         \A i \in DOMAIN new : \E j \in DOMAIN rows : rows[j] = new[i],
         analyze_flows(new, src).port_scan > 0
  PROVE  analyze_network(rows, src).port_scan > 0
<1>1. PortsOf(new, src) \subseteq PortsOf(rows, src)
  BY DEF PortsOf
<1>2. IsFiniteSet(PortsOf(rows, src))
  BY MorePorts DEF Begins
<1>3. PICK n \in Nat, m \in Nat : /\ n = Cardinality(PortsOf(new, src)) /\ m = Cardinality(PortsOf(rows, src))
                                  /\ n <= m
  BY <1>1, <1>2, MoreToCount
<1>4. n >= ScanPorts
  BY <1>3, DetectorsAssumption DEF analyze_flows
<1>5. detect_scanning(rows, src) > 0
  BY <1>3, <1>4, DetectorsAssumption, SMTT(30) DEF detect_scanning, Lesser
<1> QED  BY <1>5 DEF analyze_network

(* Names whose entropy is 40 on average are not all below 40.              *)
LEMMA AbuseHasName ==
  ASSUME NEW rows \in Seq(Flow), NEW src, detect_dns_abuse(rows, src) > 0
  PROVE  \E i \in DOMAIN rows : rows[i].entropy >= 40
<1> DEFINE some   == {i \in DOMAIN rows : rows[i].src = src /\ rows[i].entropy > 35}
           values == [i \in some |-> rows[i].entropy]
           n      == Cardinality(some)
           total  == SumOf(values)
<1>1. IsFiniteSet(some) /\ DOMAIN values = some
  BY RowsAreFinite
<1>2. n \in Nat
  BY <1>1, FS_CardinalityType
<1>3. n >= MinSamples /\ total >= 40 * n
  <2>1. detect_dns_abuse(rows, src) = IF n >= MinSamples /\ total >= 40 * n
                                      THEN Lesser(95, (2 * total) \div n) ELSE 0
    BY DEF detect_dns_abuse
  <2> HIDE DEF n, total
  <2> QED  BY <2>1
<1> SUFFICES ASSUME \A i \in DOMAIN rows : ~(rows[i].entropy >= 40)  PROVE FALSE
  OBVIOUS
<1>4. \A i \in DOMAIN values : values[i] \in Int /\ 36 <= values[i] /\ values[i] <= 39
  <2>1. \A i \in DOMAIN rows : rows[i].entropy \in Nat
    BY FlowFields
  <2> QED  BY <1>1, <2>1
<1>5. total \in Int /\ 36 * n <= total /\ total <= 39 * n
  <2> HIDE DEF values, some
  <2>1. IsFiniteSet(DOMAIN values) /\ 36 \in Int /\ 39 \in Int
    BY <1>1
  <2>2. /\ SumOf(values) \in Int
        /\ 36 * Cardinality(DOMAIN values) <= SumOf(values)
        /\ SumOf(values) <= 39 * Cardinality(DOMAIN values)
    BY <2>1, <1>4, SumBounds, Zenon
  <2> QED  BY <1>1, <2>2
<1> HIDE DEF some, values, n, total
<1> QED  BY <1>2, <1>3, <1>5, DetectorsAssumption

(* The analysis of the device finds them, and scans, in the rows it reads. *)
LEMMA DeviceFindsToo ==
  ASSUME NEW rows \in Seq(Flow), NEW src, Len(rows) <= DeviceRows,
         detect_dns_abuse(rows, src) > 0 \/ detect_scanning(rows, src) > 0
  PROVE  analyze_device(rows) > 0
<1> DEFINE dns    == {i \in DOMAIN rows : rows[i].entropy >= 40}
           ports  == Cardinality({rows[i].port : i \in DOMAIN rows} \ {0})
           scan   == IF ports >= ScanPorts THEN Lesser(90, 2 * ports) ELSE 0
           values == [i \in dns |-> Lesser(95, 2 * rows[i].entropy)]
           n      == Cardinality(dns)
           total  == SumOf(values)
<1>1. analyze_device(rows) = Average(total + scan, n + Count(scan > 0))
  <2>1. {i \in DOMAIN rows : i > Len(rows) - DeviceRows} = DOMAIN rows
    <3>1. DOMAIN rows = 1..Len(rows) /\ Len(rows) \in Nat
      OBVIOUS
    <3>2. \A i \in DOMAIN rows : i > Len(rows) - DeviceRows
      BY <3>1, DetectorsAssumption
    <3> QED  BY <3>2
  <2> QED  BY <2>1 DEF analyze_device
<1>2. IsFiniteSet(dns) /\ DOMAIN values = dns
  BY RowsAreFinite
<1>3. n \in Nat
  BY <1>2, FS_CardinalityType
<1>4. total \in Int /\ 80 * n <= total
  <2>1. \A i \in DOMAIN values : values[i] \in Int /\ 80 <= values[i] /\ values[i] <= 95
    <3>1. \A i \in dns : rows[i].entropy \in Nat /\ rows[i].entropy >= 40
      BY FlowFields
    <3> QED  BY <1>2, <3>1 DEF Lesser
  <2> HIDE DEF values, dns
  <2> QED  BY <1>2, <2>1, SumBounds
<1>5. ports \in Nat /\ Cardinality(PortsOf(rows, src)) \in Nat /\ Cardinality(PortsOf(rows, src)) <= ports
  <2>1. PortsOf(rows, src) \subseteq {rows[i].port : i \in DOMAIN rows} \ {0}
    BY DEF PortsOf
  <2>2. IsFiniteSet({rows[i].port : i \in DOMAIN rows} \ {0})
    BY RowsAreFinite, FS_Subset
  <2> QED  BY <2>1, <2>2, MoreToCount
<1> HIDE DEF ports
<1>6. scan \in Nat
  BY <1>5 DEF Lesser
<1>7. n > 0 \/ scan > 0
  <2>1. CASE detect_dns_abuse(rows, src) > 0
    <3>1. dns # {}
      BY <2>1, AbuseHasName
    <3>2. n # 0
      BY <1>2, <3>1, FS_EmptySet
    <3> HIDE DEF n
    <3> QED  BY <1>3, <3>2
  <2>2. CASE detect_scanning(rows, src) > 0
    <3>1. Cardinality(PortsOf(rows, src)) >= ScanPorts
      BY <2>2 DEF detect_scanning
    <3> QED  BY <1>5, <3>1, DetectorsAssumption DEF Lesser
  <2> QED  BY <2>1, <2>2
<1> HIDE DEF dns, values, n, total, scan
<1>8. PICK c \in Nat : c = n + Count(scan > 0) /\ c # 0 /\ total + scan >= c
  BY <1>3, <1>4, <1>6, <1>7 DEF Count
<1>9. (total + scan) \div c \in Int /\ (total + scan) \div c >= 1
  <2>1. PICK s \in Nat : s = total + scan /\ s >= c
    BY <1>4, <1>6, <1>8
  <2>2. s \div c \in Int /\ s \div c >= 1
    BY <1>8, <2>1, Z3
  <2> QED  BY <2>1, <2>2
<1> QED  BY <1>1, <1>8, <1>9 DEF Average, Lesser

(* More stored flows weaken no finding, and what a look at fewer flows     *)
(* finds the wider looks find too.                                         *)
THEOREM FindingsAreKept == Spec => FindingsStay
<1> DEFINE Kept == Len(flows') > Len(flows)
       => \A src \in {f.src : f \in Flow} :
            /\ \A since \in 1..(Len(flows) + 1), k \in Accumulating :
                 analyze_network(From(flows', since), src)[k] >= analyze_network(From(flows, since), src)[k]
            /\ analyze_flows(From(flows', Len(flows) + 1), src).port_scan > 0
                 => analyze_network(flows', src).port_scan > 0
            /\ LET found == analyze_network(flows', src)
               IN Len(flows') <= DeviceRows /\ (found.dns_abuse > 0 \/ found.port_scan > 0)
                    => analyze_device(flows') > 0
<1>1. ASSUME PipelineInv, PipelineInv', [Next]_vars  PROVE Kept
  <2> SUFFICES ASSUME Len(flows') > Len(flows), NEW src
               PROVE  /\ \A since \in 1..(Len(flows) + 1), k \in Accumulating :
                           analyze_network(From(flows', since), src)[k] >= analyze_network(From(flows, since), src)[k]
                      /\ analyze_flows(From(flows', Len(flows) + 1), src).port_scan > 0
                           => analyze_network(flows', src).port_scan > 0
                      /\ LET found == analyze_network(flows', src)
                         IN Len(flows') <= DeviceRows /\ (found.dns_abuse > 0 \/ found.port_scan > 0)
                              => analyze_device(flows') > 0
    OBVIOUS
  <2>1. flows \in Seq(Flow) /\ flows' \in Seq(Flow)
    BY <1>1 DEF PipelineInv, StoreInv
  <2>2. \A i \in DOMAIN flows : i \in DOMAIN flows' /\ flows'[i] = flows[i]
    <3>1. CASE Ingest
      <4> DEFINE new == [i \in DOMAIN Head(uploads) |-> Head(uploads)[i].flow]
      <4>1. Head(uploads) \in Seq(Event)
        BY <1>1, <3>1 DEF PipelineInv, StoreInv, Ingest
      <4>2. new \in Seq(Flow)
        <5>1. \A i \in DOMAIN Head(uploads) : Head(uploads)[i].flow \in Flow
          BY <4>1 DEF Event
        <5>2. DOMAIN Head(uploads) = 1..Len(Head(uploads)) /\ Len(Head(uploads)) \in Nat
          BY <4>1
        <5> QED  BY <5>1, <5>2
      <4>3. flows' = flows \o new
        BY <3>1 DEF Ingest
      <4> HIDE DEF new
      <4> QED  BY <2>1, <4>2, <4>3
    <3>2. CASE ~Ingest
      <4>1. flows' = flows
        BY <1>1, <3>2 DEF Next, Complete, Assess, Tick, vars, serverVars
      <4> QED  BY <4>1
    <3> QED  BY <3>1, <3>2
  <2>3. ASSUME NEW since \in 1..(Len(flows) + 1), NEW k \in Accumulating
        PROVE  analyze_network(From(flows', since), src)[k] >= analyze_network(From(flows, since), src)[k]
    <3>1. Begins(From(flows, since), From(flows', since))
      BY <2>1, <2>2 DEF Begins, From
    <3> QED  BY <3>1, MoreIsFound
  <2>4. ASSUME analyze_flows(From(flows', Len(flows) + 1), src).port_scan > 0
        PROVE  analyze_network(flows', src).port_scan > 0
    <3> DEFINE new == From(flows', Len(flows) + 1)
    <3>1. new \in Seq(Flow) /\ \A i \in DOMAIN new : \E j \in DOMAIN flows' : flows'[j] = new[i]
      BY <2>1 DEF From
    <3> HIDE DEF new
    <3> QED  BY <2>1, <2>4, <3>1, NewScanIsFound DEF new
  <2>5. /\ analyze_network(flows', src).dns_abuse = detect_dns_abuse(flows', src)
        /\ analyze_network(flows', src).port_scan = detect_scanning(flows', src)
    BY DEF analyze_network
  <2>6. Len(flows') <= DeviceRows /\ (detect_dns_abuse(flows', src) > 0 \/ detect_scanning(flows', src) > 0)
           => analyze_device(flows') > 0
    BY <2>1, DeviceFindsToo
  <2> QED  BY <2>3, <2>4, <2>5, <2>6
<1>2. PipelineInv /\ PipelineInv' /\ [Next]_vars => [Kept]_vars
  BY <1>1
<1> QED  BY <1>2, PipelineHolds, PTL DEF Spec, FindingsStay

-----------------------------------------------------------------------------
(***************************************************************************)
(* Times at equal gaps.                                                    *)
(***************************************************************************)
(* Among some numbers there is a smallest one: induction over numbers.     *)
LEMMA SmallestNumber ==
  ASSUME NEW n \in Nat, NEW T \in SUBSET (1..n), T # {}
  PROVE  \E m \in T : \A k \in T : m <= k
<1> DEFINE U == {1..k : k \in T}
           S == 1..n
<1>1. U \in SUBSET (SUBSET S)
  <2>1. \A k \in T : 1..k \subseteq S
    OBVIOUS
  <2> QED  BY <2>1
<1>a. U # {}
  OBVIOUS
<1>2. IsFiniteSet(S)
  BY FS_Interval
<1> HIDE DEF U, S
<1>3. PICK u \in U : \A v \in U : v \subseteq u => v = u
  BY <1>1, <1>a, <1>2, SmallestSet
<1>4. PICK m \in T : u = 1..m
  BY <1>3 DEF U
<1>5. \A k \in T : m <= k
  <2> SUFFICES ASSUME NEW k \in T, ~(m <= k)  PROVE FALSE
    OBVIOUS
  <2>1. m \in Nat /\ k \in Nat /\ k < m /\ 1 <= m
    OBVIOUS
  <2>2. 1..k \in U /\ 1..k \subseteq u
    BY <1>4, <2>1 DEF U
  <2>3. m \in 1..m /\ m \notin 1..k
    BY <2>1
  <2> QED  BY <1>3, <1>4, <2>2, <2>3
<1> QED  BY <1>5

LEMMA EqualGaps ==
  ASSUME NEW times \in Seq(Nat), Len(times) >= 2, EquallySpaced(times), NEW i \in 1..Len(times)
  PROVE  times[i] = times[1] + (i - 1) * (times[2] - times[1])
<1> DEFINE gap == times[2] - times[1]
           T   == {k \in 1..Len(times) : times[k] # times[1] + (k - 1) * gap}
<1>1. gap \in Int /\ Len(times) \in Nat /\ \A k \in 1..Len(times) : times[k] \in Nat
  OBVIOUS
<1> SUFFICES ASSUME T # {}  PROVE FALSE
  OBVIOUS
<1>2. T \in SUBSET (1..Len(times))
  OBVIOUS
<1> HIDE DEF T
<1>3. PICK m \in T : \A k \in T : m <= k
  BY <1>1, <1>2, SmallestNumber
<1>4. m \in 1..Len(times) /\ times[m] # times[1] + (m - 1) * gap
  BY <1>3 DEF T
<1>5. times[m] - times[m - 1] = gap \/ m = 1
  BY <1>4 DEF EquallySpaced
<1>6. m # 1 => times[m - 1] = times[1] + (m - 1 - 1) * gap
  <2>1. m # 1 => m - 1 \in 1..Len(times) /\ m - 1 \notin T
    BY <1>3, <1>4
  <2> QED  BY <2>1 DEF T
<1> HIDE DEF gap
<1>7. m # 1
  <2>1. (1 - 1) * gap = 0
    BY <1>1
  <2>2. times[1] \in Nat
    BY <1>1, <1>4
  <2> QED  BY <1>4, <2>1, <2>2
<1>8. PICK p \in Int, q \in Int : p = (m - 1) * gap /\ q = (m - 1 - 1) * gap /\ p = q + gap
  <2>1. PICK k \in Int : k = m - 1
    BY <1>4
  <2>2. k * gap \in Int /\ (k - 1) * gap \in Int /\ k * gap = (k - 1) * gap + gap
    BY <1>1, <2>1
  <2> QED  BY <2>1, <2>2
<1>9. times[m] \in Nat /\ times[m - 1] \in Nat /\ times[1] \in Nat
  BY <1>1, <1>4, <1>7
<1>10. times[m - 1] = times[1] + q /\ times[m] # times[1] + p /\ times[m] - times[m - 1] = gap
  BY <1>4, <1>5, <1>6, <1>7, <1>8
<1>11. PICK a \in Nat, b \in Nat, c \in Nat : a = times[m] /\ b = times[m - 1] /\ c = times[1]
  BY <1>9
<1>12. b = c + q /\ a # c + p /\ a - b = gap
  BY <1>10, <1>11
<1>13. p = q + gap
  BY <1>8
<1>14. PICK g \in Int : g = gap
  BY <1>1
<1>15. p = q + g /\ b = c + q /\ a # c + p /\ a - b = g
  BY <1>12, <1>13, <1>14
<1>16. a = b + g
  BY <1>15
<1>17. a = c + p
  BY <1>15, <1>16
<1> QED  BY <1>15, <1>17

LEMMA SamplesAndTimes ==
  MinSamples \in Nat /\ KeepTimes \in Nat /\ 2 <= MinSamples /\ MinSamples <= KeepTimes
  BY DetectorsAssumption

LEMMA SquaresOfGaps ==
  ASSUME NEW n \in Nat, NEW g \in Nat
  PROVE  n * (g * g * n) = n * g * (n * g)
  BY Z3

LEMMA ProductIsPositive ==
  ASSUME NEW a \in Nat, NEW b \in Nat, a >= 1, b >= 1
  PROVE  a * b \in Nat /\ a * b >= 1
  BY Z3

(* They do not vary: what they are looked for finds a period with full     *)
(* confidence.                                                             *)
LEMMA RegularIsPeriod ==
  ASSUME NEW times \in Seq(Nat), Len(times) >= MinSamples, EquallySpaced(times)
  PROVE  Periods(times, 25, 600, 65) = {100}
<1> DEFINE gap  == times[2] - times[1]
           n    == Len(times) - 1
           span == times[Len(times)] - times[1]
<1>1. n \in Nat /\ n >= 1 /\ Len(times) = n + 1 /\ Len(times) >= 2
  BY SamplesAndTimes
<1>2. gap \in Nat /\ gap >= 1 /\ gap <= 600
  <2>1. gap \in 1..600
    BY DEF EquallySpaced
  <2> HIDE DEF gap
  <2> QED  BY <2>1
<1>3. span = n * gap
  <2>1. times[n + 1] = times[1] + (n + 1 - 1) * gap
    <3>1. n + 1 \in 1..Len(times)
      BY <1>1
    <3>2. \A i \in 1..Len(times) : times[i] = times[1] + (i - 1) * gap
      BY <1>1, EqualGaps
    <3> HIDE DEF n, gap
    <3> QED  BY <1>1, <1>2, <3>1, <3>2
  <2>2. PICK p \in Int : p = n * gap
    BY <1>1, <1>2
  <2>3. times[1] \in Nat /\ (n + 1 - 1) * gap = p
    BY <1>1, <2>2
  <2> HIDE DEF gap, n
  <2> QED  BY <1>1, <2>1, <2>2, <2>3
<1>4. Squares(times) = gap * gap * n
  <2> DEFINE squares == [i \in DOMAIN Gaps(times) |-> Gaps(times)[i] * Gaps(times)[i]]
  <2>1. DOMAIN squares = 1..n
    BY DEF Gaps
  <2>2. \A i \in 1..n : squares[i] = gap * gap
    <3> SUFFICES ASSUME NEW i \in 1..n  PROVE squares[i] = gap * gap
      OBVIOUS
    <3>1. i + 1 \in 2..Len(times)
      BY <1>1
    <3>2. times[i + 1] - times[i + 1 - 1] = gap
      BY <3>1 DEF EquallySpaced
    <3>3. Gaps(times)[i] = times[i + 1] - times[i] /\ i \in DOMAIN Gaps(times)
      BY DEF Gaps
    <3>4. Gaps(times)[i] = gap
      BY <3>2, <3>3
    <3> QED  BY <3>3, <3>4
  <2>3. IsFiniteSet(1..n) /\ Cardinality(1..n) = n
    BY <1>1, FS_Interval
  <2> DEFINE g2 == gap * gap
  <2>4. g2 \in Int
    BY <1>2
  <2> HIDE DEF squares, g2, n, gap
  <2>5. \A i \in DOMAIN squares : squares[i] \in Int /\ g2 <= squares[i] /\ squares[i] <= g2
    BY <2>1, <2>2, <2>4 DEF g2
  <2>6. IsFiniteSet(DOMAIN squares) /\ Cardinality(DOMAIN squares) = n
    BY <2>1, <2>3
  <2>7. /\ SumOf(squares) \in Int
        /\ g2 * Cardinality(DOMAIN squares) <= SumOf(squares)
        /\ SumOf(squares) <= g2 * Cardinality(DOMAIN squares)
    BY <2>4, <2>5, <2>6, SumBounds, Zenon
  <2>8. SumOf(squares) = g2 * n
    <3>1. PICK p \in Int : p = g2 * n
      BY <1>1, <2>4
    <3> QED  BY <2>6, <2>7, <3>1
  <2> QED  BY <2>8 DEF Squares, squares, g2
<1>5. 10000 * (n * Squares(times) - span * span) = 0
  <2>1. n * (gap * gap * n) = n * gap * (n * gap)
    <3> HIDE DEF n, gap
    <3> QED  BY <1>1, <1>2, SquaresOfGaps
  <2>2. PICK p \in Int : p = n * gap * (n * gap)
    BY <1>1, <1>2
  <2>3. n * Squares(times) = p /\ span * span = p
    BY <1>3, <1>4, <2>1, <2>2
  <2> HIDE DEF n, span
  <2> QED  BY <2>2, <2>3
<1>6. span \in Nat /\ span >= 1
  BY <1>1, <1>2, <1>3, ProductIsPositive
<1>7. ~(span > 600 * n)
  <2>1. n * gap <= 600 * n
    BY <1>1, <1>2, SMTT(20)
  <2> QED  BY <1>1, <1>3, <1>6, <2>1
<1> HIDE DEF gap, span
<1>8. \A c \in 0..24 : VaryBy(times, c) <=> c = 0
  <2> SUFFICES ASSUME NEW c \in 0..24  PROVE VaryBy(times, c) <=> c = 0
    OBVIOUS
  <2>1. VaryBy(times, c) <=> c * c * span * span <= 0 /\ 0 < (c + 1) * (c + 1) * span * span
    BY <1>5 DEF VaryBy, span
  <2>2. CASE c = 0
    <3>1. c * c * span * span = 0
      BY <1>6, <2>2
    <3>2. (c + 1) * (c + 1) * span * span \in Nat /\ (c + 1) * (c + 1) * span * span >= 1
      <4>1. (c + 1) * (c + 1) = 1
        BY <2>2
      <4>2. (c + 1) * (c + 1) * span = span
        BY <1>6, <4>1
      <4>3. span * span \in Nat /\ span * span >= 1
        BY <1>6, ProductIsPositive
      <4>4. (c + 1) * (c + 1) * span * span = span * span
        BY <4>2
      <4> QED  BY <4>3, <4>4
    <3> QED  BY <2>1, <2>2, <3>1, <3>2
  <2>3. CASE c # 0
    <3>1. c * c * span * span >= 1 /\ c * c * span * span \in Nat
      <4>1. c * c \in Nat /\ c * c >= 1
        BY <2>3, ProductIsPositive
      <4>2. c * c * span \in Nat /\ c * c * span >= 1
        BY <1>6, <4>1, ProductIsPositive
      <4> QED  BY <1>6, <4>2, ProductIsPositive
    <3> QED  BY <2>1, <2>3, <3>1
  <2> QED  BY <2>2, <2>3
<1> DEFINE regular == {c \in 0..(25 - 1) : VaryBy(times, c)}
<1>9. regular = {0}
  BY <1>8, SMTT(20)
<1>10. Periods(times, 25, 600, 65)
         = IF Len(times) < MinSamples THEN {0}
           ELSE IF span = 0 THEN {0, 65, 100}
           ELSE IF span > 600 * (Len(times) - 1) \/ regular = {} THEN {0}
           ELSE {Greater(65, 100 - c) : c \in regular}
  BY DEF Periods, span
<1> HIDE DEF regular
<1>11. {Greater(65, 100 - c) : c \in regular} = {100}
  BY <1>9 DEF Greater
<1>12. ~(Len(times) < MinSamples) /\ span # 0 /\ ~(span > 600 * (Len(times) - 1)) /\ regular # {}
  BY <1>6, <1>7, <1>9, SamplesAndTimes
<1> QED  BY <1>10, <1>11, <1>12, ZenonT(30)

-----------------------------------------------------------------------------
(* The window of a destination holds its newest times.                     *)
LEMMA KeepIs ==
  ASSUME NEW s \in Seq(Nat)
  PROVE  /\ Keep(s) \in Seq(Nat)
         /\ Len(Keep(s)) = Lesser(Len(s), KeepTimes)
         /\ \A i \in 1..Len(Keep(s)) : Keep(s)[i] = s[Len(s) - Len(Keep(s)) + i]
<1> DEFINE n     == Len(s)
           first == Greater(1, n - KeepTimes + 1)
<1>1. n \in Nat
  OBVIOUS
<1>2. Keep(s) = SubSeq(s, first, n)
  BY DEF Keep
<1> HIDE DEF n
<1>3. first \in 1..(n + 1) /\ n + 1 - first = Lesser(n, KeepTimes) /\ first \in Nat
  BY <1>1, SamplesAndTimes DEF Greater, Lesser
<1> HIDE DEF first
<1>4. /\ SubSeq(s, first, n) \in Seq(Nat)
      /\ Len(SubSeq(s, first, n)) = n + 1 - first
      /\ \A i \in 1..(n + 1 - first) : SubSeq(s, first, n)[i] = s[first + i - 1]
  BY <1>1, <1>3 DEF n
<1>5. \A i \in 1..(n + 1 - first) : n - (n + 1 - first) + i = first + i - 1
  BY <1>1, <1>3
<1> QED  BY <1>1, <1>2, <1>3, <1>4, <1>5 DEF n

LEMMA KeepAppend ==
  ASSUME NEW s \in Seq(Nat), NEW t \in Nat
  PROVE  Keep(Append(Keep(s), t)) = Keep(Append(s, t))
<1> DEFINE k == Keep(s)
           a == Append(k, t)
           b == Append(s, t)
<1>1. k \in Seq(Nat) /\ Len(k) = Lesser(Len(s), KeepTimes) /\ \A i \in 1..Len(k) : k[i] = s[Len(s) - Len(k) + i]
  BY KeepIs
<1> HIDE DEF k
<1>2. /\ a \in Seq(Nat) /\ Len(a) = Len(k) + 1
      /\ b \in Seq(Nat) /\ Len(b) = Len(s) + 1
      /\ \A i \in 1..Len(a) : a[i] = IF i = Len(k) + 1 THEN t ELSE k[i]
      /\ \A i \in 1..Len(b) : b[i] = IF i = Len(s) + 1 THEN t ELSE s[i]
  BY <1>1
<1> HIDE DEF a, b
<1>3. /\ Keep(a) \in Seq(Nat) /\ Len(Keep(a)) = Lesser(Len(a), KeepTimes)
      /\ \A i \in 1..Len(Keep(a)) : Keep(a)[i] = a[Len(a) - Len(Keep(a)) + i]
  BY <1>2, KeepIs
<1>4. /\ Keep(b) \in Seq(Nat) /\ Len(Keep(b)) = Lesser(Len(b), KeepTimes)
      /\ \A i \in 1..Len(Keep(b)) : Keep(b)[i] = b[Len(b) - Len(Keep(b)) + i]
  BY <1>2, KeepIs
<1>5. Len(s) \in Nat /\ Len(k) \in Nat
  BY <1>1
<1>6. Len(Keep(a)) = Len(Keep(b))
  BY <1>1, <1>2, <1>3, <1>4, <1>5, SamplesAndTimes DEF Lesser
<1>7. ASSUME NEW i \in 1..Len(Keep(a))  PROVE Keep(a)[i] = Keep(b)[i]
  <2> DEFINE x == Len(a) - Len(Keep(a)) + i
             y == Len(b) - Len(Keep(b)) + i
  <2>1. x \in 1..Len(a) /\ y \in 1..Len(b) /\ Len(b) - y = Len(a) - x
    <3>1. PICK m \in Nat : m = Len(Keep(a)) /\ m = Len(Keep(b)) /\ m <= Len(a) /\ m <= Len(b)
      <4>1. Len(a) \in Nat /\ Len(b) \in Nat
        BY <1>2
      <4>2. Lesser(Len(a), KeepTimes) \in Nat /\ Lesser(Len(a), KeepTimes) <= Len(a)
        BY <4>1, SamplesAndTimes DEF Lesser
      <4>3. Lesser(Len(b), KeepTimes) <= Len(b)
        BY <4>1, SamplesAndTimes DEF Lesser
      <4> QED  BY <1>3, <1>4, <1>6, <4>2, <4>3
    <3>2. i \in 1..m
      BY <3>1
    <3>3. x = Len(a) - m + i /\ y = Len(b) - m + i
      BY <3>1
    <3> HIDE DEF x, y
    <3> QED  BY <1>2, <1>5, <3>1, <3>2, <3>3, SMTT(20)
  <2>2. Keep(a)[i] = a[x] /\ Keep(b)[i] = b[y]
    BY <1>3, <1>4, <1>6
  <2> HIDE DEF x, y
  <2>3. CASE x = Len(k) + 1
    BY <1>1, <1>2, <1>5, <2>1, <2>2, <2>3, SMTT(30)
  <2>4. CASE x # Len(k) + 1
    <3>1. x \in 1..Len(k) /\ Len(s) - Len(k) + x = y /\ y # Len(s) + 1
      <4>1. PICK m \in Nat, n \in Nat : m = Len(k) /\ n = Len(s)
        BY <1>5
      <4>2. x \in 1..(m + 1) /\ y \in 1..(n + 1) /\ n + 1 - y = m + 1 - x /\ x # m + 1
        BY <1>2, <2>1, <2>4, <4>1
      <4>3. x \in 1..m /\ n - m + x = y /\ y # n + 1
        BY <4>2
      <4> QED  BY <4>1, <4>3
    <3>2. a[x] = k[x] /\ b[y] = s[y] /\ k[x] = s[y]
      BY <1>1, <1>2, <2>1, <2>4, <3>1
    <3> QED  BY <2>2, <3>2
  <2> QED  BY <2>3, <2>4
<1>8. Keep(a) = Keep(b)
  BY <1>3, <1>4, <1>6, <1>7, SeqEqual
<1> QED  BY <1>8 DEF a, b, k

HistoryInv ==
  /\ clock \in Nat
  /\ flows_processed \in Nat
  /\ contacts \in [Dests -> Seq(Nat)]
  /\ dest_history = [d \in Dests |-> Keep(contacts[d])]

LEMMA AssessKeepsHistoryInv ==
  ASSUME LoopInv, HistoryInv, NEW ioc \in Indicators, Assess(ioc)
  PROVE  HistoryInv' /\ dest_history' = Seen(batch[Len(events) + 1])
<1> DEFINE flow == batch[Len(events) + 1]
           d    == flow.dest
           times == contacts[d]
<1>1. flow \in Flow
  BY DEF LoopInv, Assess
<1>2. d \in Dests
  BY <1>1 DEF Dests
<1>3. times \in Seq(Nat) /\ Append(times, clock) \in Seq(Nat) /\ clock \in Nat
  BY <1>2 DEF HistoryInv
<1>4. /\ dest_history' = Seen(flow)
      /\ contacts' = [contacts EXCEPT ![d] = Append(@, clock)]
      /\ flows_processed' = flows_processed + 1
      /\ clock' = clock
  BY DEF Assess
<1> HIDE DEF flow
<1>5. Seen(flow) = [dest_history EXCEPT ![d] = Keep(Append(dest_history[d], clock))]
  BY DEF Seen
<1>6. Keep(Append(dest_history[d], clock)) = Keep(Append(times, clock))
  BY <1>2, <1>3, KeepAppend DEF HistoryInv
<1> HIDE DEF d
<1>7. contacts' \in [Dests -> Seq(Nat)]
  BY <1>2, <1>3, <1>4 DEF HistoryInv
<1>8. dest_history' = [c \in Dests |-> Keep(contacts'[c])]
  BY <1>2, <1>4, <1>5, <1>6 DEF HistoryInv
<1> QED  BY <1>4, <1>7, <1>8 DEF HistoryInv, flow

LEMMA NextKeepsHistoryInv == PipelineInv /\ HistoryInv /\ [Next]_vars => HistoryInv'
<1> SUFFICES ASSUME PipelineInv, HistoryInv, [Next]_vars  PROVE HistoryInv'
  OBVIOUS
<1>1. ASSUME NEW b \in Batches, Complete(b)  PROVE HistoryInv'
  BY <1>1 DEF HistoryInv, Complete
<1>2. ASSUME NEW ioc \in Indicators, Assess(ioc)  PROVE HistoryInv'
  BY <1>2, AssessKeepsHistoryInv DEF PipelineInv
<1>3. CASE Ingest
  BY <1>3 DEF HistoryInv, Ingest, agentVars
<1>4. ASSUME NEW s \in Steps, Tick(s)  PROVE HistoryInv'
  BY <1>4, AssessmentAssumption DEF HistoryInv, Tick, agentVars
<1>5. CASE UNCHANGED vars
  BY <1>5 DEF HistoryInv, vars, agentVars
<1> QED  BY <1>1, <1>2, <1>3, <1>4, <1>5 DEF Next

LEMMA HistoryHolds == Spec => []HistoryInv
<1>1. Init => HistoryInv
  <2> SUFFICES ASSUME Init  PROVE HistoryInv
    OBVIOUS
  <2>1. Keep(<<>>) = <<>>
    BY SamplesAndTimes DEF Keep, Greater
  <2> QED  BY <2>1 DEF Init, HistoryInv
<1> QED  BY <1>1, NextKeepsHistoryInv, PipelineHolds, PTL DEF Spec

(* What a turn of the loop has just made.                                  *)
LEMMA LatestIsEmitted ==
  ASSUME LoopInv, uploads \in Seq(Seq(Event)), NEW event, Emit(event)
  PROVE  Latest' = event
<1>1. Append(events, event) # <<>> /\ Append(events, event)[Len(Append(events, event))] = event
  <2> DEFINE S == Event \cup {event}
  <2>1. events \in Seq(S)
    BY SeqMonotonic DEF LoopInv
  <2>2. event \in S
    OBVIOUS
  <2> HIDE DEF S
  <2> QED  BY <2>1, <2>2, AppendProperties
<1> DEFINE payload == Append(events, event)
<1> HIDE DEF payload
<1>2. CASE Len(events) + 1 = Len(batch)
  <2>1. events' = <<>> /\ uploads' = Append(uploads, payload)
    BY <1>2 DEF Emit, payload
  <2>2. uploads'[Len(uploads')] = payload
    BY <2>1
  <2> QED  BY <1>1, <2>1, <2>2 DEF Latest, payload
<1>3. CASE Len(events) + 1 # Len(batch)
  <2>1. events' = payload
    BY <1>3 DEF Emit, payload
  <2> QED  BY <1>1, <2>1 DEF Latest, payload
<1> QED  BY <1>2, <1>3

(* The agent blocks a destination for nothing but an indicator above 1,    *)
(* for every model, batch, indicator and analysis.                         *)
THEOREM BlocksTheOverrated == Spec => OnlyOverratedIsBlocked
<1>1. ASSUME PipelineInv, [Next]_vars, blocked' # blocked  PROVE Latest'.ioc > 100
  <2>1. PICK ioc \in Indicators : Assess(ioc)
    BY <1>1 DEF Next, Complete, Ingest, Tick, vars, agentVars
  <2>2. PICK event \in Event : Emit(event) /\ event.ioc > 100
    BY <1>1, <2>1, AssessMakesEvent DEF PipelineInv
  <2>3. Latest' = event
    BY <1>1, <2>2, LatestIsEmitted DEF PipelineInv, StoreInv
  <2> QED  BY <2>2, <2>3
<1>2. PipelineInv /\ [Next]_vars => [blocked' # blocked => Latest'.ioc > 100]_vars
  BY <1>1
<1> QED  BY <1>2, PipelineHolds, PTL DEF Spec, OnlyOverratedIsBlocked

(* A destination outside that is contacted at equal gaps is reported,      *)
(* whatever came before the times that are kept.                           *)
THEOREM RegularContactIsFound == Spec => RegularIsFound
<1> DEFINE Found == flows_processed' > flows_processed /\ Foreign(Latest'.flow)
       => LET times == contacts'[Latest'.flow.dest]
          IN Len(times) >= KeepTimes /\ EquallySpaced(From(times, Len(times) - KeepTimes + 1))
               => Latest'.callback = 100
<1>1. ASSUME PipelineInv, HistoryInv, HistoryInv', [Next]_vars  PROVE Found
  <2>1. CASE \E ioc \in Indicators : Assess(ioc)
    <3> PICK ioc \in Indicators : Assess(ioc)
      BY <2>1
    <3> DEFINE flow  == batch[Len(events) + 1]
               times == contacts'[flow.dest]
    <3>a. PICK callback \in CallbackSignals(flow) :
            \E event : Emit(event) /\ event.flow = flow /\ event.callback = callback
      BY DEF Assess, Analysis
    <3>1. PICK event : Emit(event) /\ event.flow = flow /\ event.callback = callback
      BY <3>a
    <3>2. Latest' = event
      BY <1>1, <3>1, LatestIsEmitted DEF PipelineInv, StoreInv
    <3>3. flow \in Flow /\ flow.dest \in Dests
      BY <1>1 DEF PipelineInv, LoopInv, Assess, Dests
    <3>4. times \in Seq(Nat) /\ Seen(flow)[flow.dest] = Keep(times)
      <4>1. dest_history' = Seen(flow)
        BY <1>1, AssessKeepsHistoryInv DEF PipelineInv
      <4> QED  BY <1>1, <3>3, <4>1 DEF HistoryInv
    <3>5. ASSUME Foreign(flow), Len(times) >= KeepTimes,
                 EquallySpaced(From(times, Len(times) - KeepTimes + 1))
          PROVE  callback = 100
      <4>1. Keep(times) = From(times, Len(times) - KeepTimes + 1)
        <5>1. Greater(1, Len(times) - KeepTimes + 1) = Len(times) - KeepTimes + 1
          <6>1. Len(times) \in Nat
            BY <3>4
          <6> HIDE DEF times
          <6> QED  BY <3>5, <6>1, SamplesAndTimes DEF Greater
        <5> QED  BY <5>1 DEF Keep, From
      <4>2. Keep(times) \in Seq(Nat) /\ Len(Keep(times)) >= MinSamples
        BY <3>4, <3>5, KeepIs, SamplesAndTimes, SMTT(20) DEF Lesser
      <4>3. Periods(Keep(times), 25, 600, 65) = {100}
        BY <3>5, <4>1, <4>2, RegularIsPeriod
      <4>4. CallbackSignals(flow) = Periods(Keep(times), 25, 600, 65)
        BY <3>4, <3>5 DEF CallbackSignals, detect_periodic_callbacks
      <4> QED  BY <3>1, <4>3, <4>4
    <3> QED  BY <3>1, <3>2, <3>5
  <2>2. CASE ~ \E ioc \in Indicators : Assess(ioc)
    <3>1. flows_processed' = flows_processed /\ flows_processed \in Nat
      BY <1>1, <2>2 DEF Next, Complete, Ingest, Tick, vars, agentVars, HistoryInv
    <3> QED  BY <3>1
  <2> QED  BY <2>1, <2>2
<1>2. PipelineInv /\ HistoryInv /\ HistoryInv' /\ [Next]_vars => [Found]_vars
  BY <1>1
<1> QED  BY <1>2, PipelineHolds, HistoryHolds, PTL DEF Spec, RegularIsFound

-----------------------------------------------------------------------------
(***************************************************************************)
(* Sums over sequences.                                                    *)
(***************************************************************************)
(* Whichever element is taken out, the rest adds up to the rest.           *)
LEMMA AddsInts ==
  ASSUME NEW f, NEW g, NEW S, IsFiniteSet(S), Adds(f, g, S), \A i \in S : f[i] \in Int, NEW s \in SUBSET S
  PROVE  g[s] \in Int
<1> DEFINE T == {t \in SUBSET S : g[t] \notin Int}
<1> SUFFICES ASSUME T # {} PROVE FALSE
  OBVIOUS
<1>0. T \in SUBSET (SUBSET S)
  OBVIOUS
<1> HIDE DEF T
<1>1. PICK t \in T : \A u \in T : u \subseteq t => u = t
  BY <1>0, SmallestSet
<1> USE DEF T
<1>2. g[t] = AddedUp(f, g, t)
  BY <1>1, AddsAt
<1>3. t # {}
  BY <1>1, <1>2 DEF AddedUp
<1>4. Chosen(t) \in S /\ t \ {Chosen(t)} \subseteq t /\ t \ {Chosen(t)} # t
  BY <1>3, ChosenIs
<1>5. g[t \ {Chosen(t)}] \in Int
  BY <1>1, <1>4
<1>6. g[t] = f[Chosen(t)] + g[t \ {Chosen(t)}]
  BY <1>2, <1>3 DEF AddedUp
<1> QED BY <1>1, <1>4, <1>5, <1>6

LEMMA AddsAnyOrder ==
  ASSUME NEW f, NEW g, NEW S, IsFiniteSet(S), Adds(f, g, S), \A i \in S : f[i] \in Int,
         NEW s \in SUBSET S, NEW x \in s
  PROVE  g[s] = f[x] + g[s \ {x}]
<1> DEFINE T == {t \in SUBSET S : \E y \in t : g[t] # f[y] + g[t \ {y}]}
<1> SUFFICES ASSUME T # {} PROVE FALSE
  OBVIOUS
<1>0. T \in SUBSET (SUBSET S)
  OBVIOUS
<1> HIDE DEF T
<1>1. PICK t \in T : \A u \in T : u \subseteq t => u = t
  BY <1>0, SmallestSet
<1> USE DEF T
<1>2. PICK y \in t : g[t] # f[y] + g[t \ {y}]
  BY <1>1
<1> DEFINE c == Chosen(t)
           rest == (t \ {c}) \ {y}
<1>3. t \in SUBSET S /\ c \in t /\ y \in S /\ c \in S
  BY <1>1, <1>2, ChosenIs
<1>4. g[t] = f[c] + g[t \ {c}]
  <2>1. g[t] = AddedUp(f, g, t)
    BY <1>3, AddsAt
  <2> QED BY <1>3, <2>1 DEF AddedUp
<1>5. c # y
  BY <1>2, <1>4
<1> HIDE DEF c
<1>6. /\ y \in t \ {c} /\ t \ {c} \subseteq t /\ t \ {c} # t
      /\ c \in t \ {y} /\ t \ {y} \subseteq t /\ t \ {y} # t
      /\ (t \ {y}) \ {c} = rest /\ rest \in SUBSET S
  BY <1>3, <1>5
<1>7. g[t \ {c}] = f[y] + g[rest] /\ g[t \ {y}] = f[c] + g[rest]
  BY <1>1, <1>3, <1>6
<1>8. f[c] \in Int /\ f[y] \in Int /\ g[rest] \in Int
  BY <1>3, <1>6, AddsInts
<1> HIDE DEF rest
<1> QED BY <1>2, <1>4, <1>7, <1>8

LEMMA SumWithout ==
  ASSUME NEW f, IsFiniteSet(DOMAIN f), \A i \in DOMAIN f : f[i] \in Int, NEW x \in DOMAIN f
  PROVE  LET rest == [i \in DOMAIN f \ {x} |-> f[i]]
         IN SumOf(rest) \in Int /\ SumOf(f) = f[x] + SumOf(rest)
<1> DEFINE S    == DOMAIN f
           U    == S \ {x}
           rest == [i \in U |-> f[i]]
<1>1. PICK g : Adds(f, g, S) /\ SumOf(f) = g[S]
  BY SumAdds
<1>2. IsFiniteSet(U) /\ DOMAIN rest = U
  BY FS_Subset
<1>3. PICK h : Adds(rest, h, U) /\ SumOf(rest) = h[U]
  <2> HIDE DEF rest, U
  <2> QED BY <1>2, SumAdds
<1>4. Adds(f, h, U)
  <2>1. ASSUME NEW s \in SUBSET U PROVE AddedUp(rest, h, s) = AddedUp(f, h, s)
    BY ChosenIs DEF AddedUp
  <2>2. [s \in SUBSET U |-> AddedUp(rest, h, s)] = [s \in SUBSET U |-> AddedUp(f, h, s)]
    BY <2>1
  <2> HIDE DEF rest, U
  <2> QED BY <1>3, <2>2 DEF Adds
<1>5. g[U] = h[U]
  <2>1. U \in SUBSET S /\ S \in SUBSET S /\ U \in SUBSET U
    OBVIOUS
  <2> HIDE DEF U, S
  <2> QED BY <1>1, <1>4, <2>1, AddsOnce DEF S
<1>6. g[S] = f[x] + g[U]
  BY <1>1, AddsAnyOrder
<1>7. g[U] \in Int
  BY <1>1, AddsInts
<1> QED BY <1>1, <1>3, <1>5, <1>6, <1>7

(* Sums of sequences of numbers.                                           *)
LEMMA SumEmpty == SumOf(<<>>) = 0
<1>1. DOMAIN <<>> = {} /\ IsFiniteSet(DOMAIN <<>>)
  BY FS_EmptySet
<1>2. PICK g : Adds(<<>>, g, DOMAIN <<>>) /\ SumOf(<<>>) = g[DOMAIN <<>>]
  BY <1>1, SumAdds
<1> QED BY <1>1, <1>2, AddsAt DEF AddedUp

LEMMA SumAppend ==
  ASSUME NEW s \in Seq(Int), NEW x \in Int
  PROVE  SumOf(s) \in Int /\ SumOf(Append(s, x)) = SumOf(s) + x
<1> DEFINE a == Append(s, x)
           n == Len(s) + 1
<1>1. /\ a \in Seq(Int) /\ DOMAIN a = 1..n /\ n \in Nat /\ n \in DOMAIN a /\ a[n] = x
      /\ DOMAIN a \ {n} = 1..Len(s) /\ \A i \in DOMAIN a : a[i] \in Int
  OBVIOUS
<1>2. [i \in DOMAIN a \ {n} |-> a[i]] = s
  <2>1. \A i \in 1..Len(s) : a[i] = s[i]
    OBVIOUS
  <2>2. s = [i \in 1..Len(s) |-> s[i]]
    BY LenProperties
  <2> HIDE DEF a
  <2> QED BY <1>1, <2>1, <2>2
<1>3. IsFiniteSet(DOMAIN a)
  BY <1>1, FS_Interval
<1> HIDE DEF a, n
<1>4. SumOf(s) \in Int /\ SumOf(a) = a[n] + SumOf(s)
  BY <1>1, <1>2, <1>3, SumWithout
<1> QED BY <1>1, <1>4 DEF a

LEMMA SumConcat ==
  ASSUME NEW s \in Seq(Int), NEW t \in Seq(Int)
  PROVE  SumOf(s \o t) = SumOf(s) + SumOf(t)
<1> DEFINE Front(k) == SubSeq(t, 1, k)
           T == {k \in 1..Len(t) : SumOf(s \o Front(k)) # SumOf(s) + SumOf(Front(k))}
<1>1. Len(t) \in Nat /\ SumOf(s) \in Int
  BY SumAppend
<1>2. \A k \in 0..Len(t) : Front(k) \in Seq(Int)
  OBVIOUS
<1>3. SumOf(s \o Front(0)) = SumOf(s) + SumOf(Front(0))
  <2>1. Front(0) = <<>> /\ s \o Front(0) = s
    OBVIOUS
  <2> HIDE DEF Front
  <2>2. SumOf(Front(0)) = 0
    BY <2>1, SumEmpty
  <2>3. SumOf(s \o Front(0)) = SumOf(s)
    BY <2>1
  <2>4. SumOf(s) + SumOf(Front(0)) = SumOf(s)
    BY <1>1, <2>2
  <2> QED BY <2>3, <2>4
<1>4. T = {}
  <2> SUFFICES ASSUME T # {} PROVE FALSE
    OBVIOUS
  <2>1. T \in SUBSET (1..Len(t))
    OBVIOUS
  <2> HIDE DEF T
  <2>2. PICK m \in T : \A k \in T : m <= k
    BY <1>1, <2>1, SmallestNumber
  <2>3. m \in 1..Len(t) /\ SumOf(s \o Front(m)) # SumOf(s) + SumOf(Front(m))
    BY <2>2 DEF T
  <2>4. SumOf(s \o Front(m - 1)) = SumOf(s) + SumOf(Front(m - 1))
    <3>1. CASE m = 1
      BY <1>3, <3>1
    <3>2. CASE m # 1
      BY <2>2, <2>3, <3>2 DEF T
    <3> QED BY <3>1, <3>2
  <2>5. Front(m) = Append(Front(m - 1), t[m]) /\ t[m] \in Int /\ Front(m - 1) \in Seq(Int)
    BY <2>3
  <2> HIDE DEF Front
  <2>6. s \o Front(m) = Append(s \o Front(m - 1), t[m]) /\ s \o Front(m - 1) \in Seq(Int)
    BY <2>5, SMTT(20)
  <2>7. /\ SumOf(Front(m)) = SumOf(Front(m - 1)) + t[m] /\ SumOf(Front(m - 1)) \in Int
        /\ SumOf(s \o Front(m)) = SumOf(s \o Front(m - 1)) + t[m]
    BY <2>5, <2>6, SumAppend
  <2> QED BY <1>1, <2>3, <2>4, <2>5, <2>7
<1>5. CASE Len(t) = 0
  <2>1. t = <<>> /\ s \o <<>> = s
    BY <1>5
  <2> QED BY <1>1, <2>1, SumEmpty
<1>6. CASE Len(t) # 0
  <2>1. Front(Len(t)) = t /\ Len(t) \in 1..Len(t)
    BY <1>1, <1>6
  <2> QED BY <1>4, <2>1
<1> QED BY <1>5, <1>6

LEMMA SumTail ==
  ASSUME NEW s \in Seq(Int), s # <<>>
  PROVE  SumOf(Tail(s)) \in Int /\ SumOf(s) = Head(s) + SumOf(Tail(s))
<1>1. s = <<Head(s)>> \o Tail(s) /\ <<Head(s)>> \in Seq(Int) /\ Tail(s) \in Seq(Int) /\ Head(s) \in Int
  OBVIOUS
<1>2. <<Head(s)>> = Append(<<>>, Head(s)) /\ <<>> \in Seq(Int)
  OBVIOUS
<1>3. SumOf(<<Head(s)>>) = SumOf(<<>>) + Head(s)
  BY <1>1, <1>2, SumAppend
<1>4. SumOf(Tail(s)) \in Int /\ SumOf(<<Head(s)>> \o Tail(s)) = SumOf(<<Head(s)>>) + SumOf(Tail(s))
  <2>1. SumOf(Tail(s)) \in Int
    BY <1>1, SumAppend
  <2>2. SumOf(<<Head(s)>> \o Tail(s)) = SumOf(<<Head(s)>>) + SumOf(Tail(s))
    BY <1>1, SumConcat
  <2> QED BY <2>1, <2>2
<1>5. SumOf(<<Head(s)>>) = Head(s)
  BY <1>1, <1>3, SumEmpty
<1>6. SumOf(s) = SumOf(<<Head(s)>>) + SumOf(Tail(s))
  BY <1>1, <1>4
<1> QED BY <1>4, <1>5, <1>6

-----------------------------------------------------------------------------
(***************************************************************************)
(* Threats and alerts.                                                     *)
(***************************************************************************)
Marks(payload) == [i \in DOMAIN payload |-> Count(IsThreat(payload[i].risk))]
Serious(some)  == [i \in DOMAIN some |-> Count(some[i] >= 2)]
Waiting(queue) == [j \in DOMAIN queue |-> Threats(queue[j])]

LEMMA ThreatsAreMarks == \A payload : Threats(payload) = SumOf(Marks(payload))
  BY DEF Threats, Marks

LEMMA CountIsInt == \A p : Count(p) \in Int
  BY DEF Count

LEMMA ThreatsOfPayload ==
  ASSUME NEW payload \in Seq(Event)
  PROVE  Marks(payload) \in Seq(Int) /\ Threats(payload) \in Int
<1>1. Marks(payload) \in Seq(Int)
  <2>1. DOMAIN payload = 1..Len(payload) /\ Len(payload) \in Nat
    OBVIOUS
  <2>2. \A i \in DOMAIN payload : Count(IsThreat(payload[i].risk)) \in Int
    BY CountIsInt
  <2> QED  BY <2>1, <2>2 DEF Marks
<1> QED  BY <1>1, SumAppend, ThreatsAreMarks

LEMMA ThreatsGrow ==
  ASSUME NEW payload \in Seq(Event), NEW event \in Event
  PROVE  Threats(Append(payload, event)) = Threats(payload) + Count(IsThreat(event.risk))
<1> DEFINE more == Append(payload, event)
           mark == Count(IsThreat(event.risk))
<1>1. mark \in Int
  BY CountIsInt
<1>2. Marks(more) = Append(Marks(payload), mark)
  <2>1. /\ DOMAIN more = 1..(Len(payload) + 1) /\ DOMAIN payload = 1..Len(payload) /\ Len(payload) \in Nat
        /\ more[Len(payload) + 1] = event
        /\ \A i \in 1..Len(payload) : more[i] = payload[i]
    OBVIOUS
  <2> HIDE DEF more
  <2>2. /\ Marks(more) \in [1..(Len(payload) + 1) -> Int]
        /\ Marks(more)[Len(payload) + 1] = mark
        /\ \A i \in 1..Len(payload) : Marks(more)[i] = Marks(payload)[i]
    BY <2>1, CountIsInt DEF Marks
  <2>3. Marks(payload) \in Seq(Int) /\ Len(Marks(payload)) = Len(payload)
    <3>1. DOMAIN Marks(payload) = 1..Len(payload)
      BY <2>1 DEF Marks
    <3> QED  BY <2>1, <3>1, ThreatsOfPayload
  <2>4. Marks(more) \in Seq(Int) /\ Len(Marks(more)) = Len(payload) + 1
    BY <2>1, <2>2
  <2> HIDE DEF mark
  <2>5. /\ Append(Marks(payload), mark) \in Seq(Int) /\ Len(Append(Marks(payload), mark)) = Len(payload) + 1
        /\ Append(Marks(payload), mark)[Len(payload) + 1] = mark
        /\ \A i \in 1..Len(payload) : Append(Marks(payload), mark)[i] = Marks(payload)[i]
    BY <1>1, <2>3
  <2> QED  BY <2>1, <2>2, <2>4, <2>5, SeqEqual
<1> HIDE DEF mark, more
<1>3. SumOf(Append(Marks(payload), mark)) = SumOf(Marks(payload)) + mark
  BY <1>1, ThreatsOfPayload, SumAppend
<1> QED  BY <1>2, <1>3, ThreatsAreMarks DEF mark, more

LEMMA NoThreats == Threats(<<>>) = 0
<1>1. Marks(<<>>) = <<>>
  BY DEF Marks
<1> QED  BY <1>1, ThreatsAreMarks, SumEmpty

(* Payloads that wait.                                                     *)
LEMMA WaitingPayloads ==
  ASSUME NEW queue \in Seq(Seq(Event))
  PROVE  /\ Waiting(queue) \in Seq(Int) /\ SumOf(Waiting(queue)) \in Int
         /\ Len(Waiting(queue)) = Len(queue)
<1>1. DOMAIN queue = 1..Len(queue) /\ Len(queue) \in Nat
  OBVIOUS
<1>2. \A j \in DOMAIN queue : Threats(queue[j]) \in Int
  BY ThreatsOfPayload
<1>3. Waiting(queue) \in Seq(Int) /\ Len(Waiting(queue)) = Len(queue)
  BY <1>1, <1>2 DEF Waiting
<1> QED  BY <1>3, SumAppend

LEMMA WaitingGrows ==
  ASSUME NEW queue \in Seq(Seq(Event)), NEW payload \in Seq(Event)
  PROVE  SumOf(Waiting(Append(queue, payload))) = SumOf(Waiting(queue)) + Threats(payload)
<1> DEFINE more == Append(queue, payload)
           w    == Waiting(queue)
           x    == Append(w, Threats(payload))
           n    == Len(queue)
<1>1. Threats(payload) \in Int /\ w \in Seq(Int) /\ Len(w) = n /\ n \in Nat
  BY ThreatsOfPayload, WaitingPayloads
<1>2. more \in Seq(Seq(Event)) /\ Len(more) = n + 1 /\ more[n + 1] = payload /\ \A j \in 1..n : more[j] = queue[j]
  OBVIOUS
<1>3. Waiting(more) \in Seq(Int) /\ Len(Waiting(more)) = n + 1
  <2> HIDE DEF more, n
  <2> QED  BY <1>2, WaitingPayloads
<1>4. \A j \in 1..(n + 1) : Waiting(more)[j] = IF j = n + 1 THEN Threats(payload) ELSE w[j]
  <2>1. DOMAIN more = 1..(n + 1) /\ DOMAIN queue = 1..n
    OBVIOUS
  <2> HIDE DEF more
  <2>2. \A j \in 1..(n + 1) : Waiting(more)[j] = Threats(more[j])
    BY <2>1 DEF Waiting
  <2>3. \A j \in 1..n : w[j] = Threats(queue[j])
    BY <2>1 DEF Waiting
  <2> HIDE DEF w, n
  <2>4. \A j \in 1..(n + 1) : j # n + 1 => j \in 1..n
    BY <1>1
  <2> QED  BY <1>1, <1>2, <2>2, <2>3, <2>4
<1> HIDE DEF more, w, n
<1>5. x \in Seq(Int) /\ Len(x) = n + 1 /\ \A j \in 1..(n + 1) : x[j] = IF j = n + 1 THEN Threats(payload) ELSE w[j]
  BY <1>1
<1>6. Waiting(more) = x
  BY <1>3, <1>4, <1>5, SeqEqual
<1>7. SumOf(x) = SumOf(w) + Threats(payload)
  BY <1>1, SumAppend
<1> QED  BY <1>6, <1>7 DEF more, w

LEMMA WaitingShrinks ==
  ASSUME NEW queue \in Seq(Seq(Event)), queue # <<>>
  PROVE  SumOf(Waiting(queue)) = Threats(Head(queue)) + SumOf(Waiting(Tail(queue)))
<1> DEFINE rest == Tail(queue)
           w    == Waiting(queue)
           n    == Len(queue)
<1>1. w \in Seq(Int) /\ Len(w) = n /\ n \in Nat /\ n >= 1
  BY WaitingPayloads
<1>2. rest \in Seq(Seq(Event)) /\ Len(rest) = n - 1 /\ \A j \in 1..(n - 1) : rest[j] = queue[j + 1]
  OBVIOUS
<1>3. Waiting(rest) \in Seq(Int) /\ Len(Waiting(rest)) = n - 1
  <2> HIDE DEF rest, n
  <2> QED  BY <1>2, WaitingPayloads
<1>4. \A j \in 1..n : w[j] = Threats(queue[j])
  BY DEF Waiting
<1>5. \A j \in 1..(n - 1) : Waiting(rest)[j] = Threats(queue[j + 1])
  <2> HIDE DEF rest
  <2> QED  BY <1>2 DEF Waiting
<1>6. Head(queue) = queue[1]
  OBVIOUS
<1> HIDE DEF rest, w, n
<1>7. Tail(w) \in Seq(Int) /\ Len(Tail(w)) = n - 1 /\ Head(w) = w[1] /\ w # <<>>
      /\ \A j \in 1..(n - 1) : Tail(w)[j] = w[j + 1]
  BY <1>1
<1>8. Waiting(rest) = Tail(w)
  <2>1. \A j \in 1..(n - 1) : Waiting(rest)[j] = Tail(w)[j]
    BY <1>1, <1>4, <1>5, <1>7
  <2> QED  BY <1>3, <1>7, <2>1, SeqEqual
<1>9. SumOf(w) = Head(w) + SumOf(Tail(w))
  BY <1>1, <1>7, SumTail
<1>10. Head(w) = Threats(Head(queue))
  <2>1. 1 \in 1..n
    BY <1>1
  <2> QED  BY <1>4, <1>6, <1>7, <2>1
<1> QED  BY <1>8, <1>9, <1>10 DEF rest, w

(* The alerts of a payload: the serious ones are its threats.              *)
Severities == {-1, 1, 2, 3}

LEMMA AlertsOfPayload ==
  ASSUME NEW payload \in Seq(Event)
  PROVE  /\ AlertsOf(payload) \in Seq(Severities)
         /\ Serious(AlertsOf(payload)) = Marks(payload)
<1>1. DOMAIN payload = 1..Len(payload) /\ Len(payload) \in Nat
  OBVIOUS
<1>2. ASSUME NEW i \in DOMAIN payload
      PROVE  /\ AlertsOf(payload)[i] \in Severities
             /\ Count(AlertsOf(payload)[i] >= 2) = Count(IsThreat(payload[i].risk))
  <2>1. payload[i].risk \in Percent
    BY DEF Event
  <2>2. PICK r \in 0..100 : r = payload[i].risk
    BY <2>1 DEF Percent
  <2>3. AlertsOf(payload)[i] = IF RaisesAlert(r) THEN severity(r) ELSE -1
    BY <2>2 DEF AlertsOf
  <2> DEFINE a == IF RaisesAlert(r) THEN severity(r) ELSE -1
  <2>4. a \in Severities /\ (a >= 2 <=> IsThreat(r))
    BY DEF RaisesAlert, severity, Level, Severities, IsThreat
  <2> HIDE DEF a
  <2>5. Count(a >= 2) = Count(IsThreat(r))
    BY <2>4, Zenon DEF Count
  <2> QED  BY <2>2, <2>3, <2>4, <2>5, Zenon DEF a
<1>3. DOMAIN AlertsOf(payload) = DOMAIN payload
  BY DEF AlertsOf
<1>4. AlertsOf(payload) \in Seq(Severities)
  <2>1. AlertsOf(payload) = [i \in 1..Len(payload) |-> AlertsOf(payload)[i]]
    BY <1>1 DEF AlertsOf
  <2> QED  BY <1>1, <1>2, <2>1
<1> QED  BY <1>2, <1>3, <1>4, Zenon DEF Serious, Marks

LEMMA SeriousIsSeq ==
  ASSUME NEW some \in Seq(Severities)
  PROVE  Serious(some) \in Seq(Int) /\ Len(Serious(some)) = Len(some) /\ SumOf(Serious(some)) \in Int
<1>1. DOMAIN some = 1..Len(some) /\ Len(some) \in Nat
  OBVIOUS
<1>2. \A i \in DOMAIN some : Count(some[i] >= 2) \in Int
  BY CountIsInt
<1>3. Serious(some) \in Seq(Int) /\ Len(Serious(some)) = Len(some)
  BY <1>1, <1>2 DEF Serious
<1> QED  BY <1>3, SumAppend

LEMMA SeriousConcat ==
  ASSUME NEW some \in Seq(Severities), NEW more \in Seq(Severities)
  PROVE  SumOf(Serious(some \o more)) = SumOf(Serious(some)) + SumOf(Serious(more))
<1> DEFINE all == some \o more
           x   == Serious(some) \o Serious(more)
<1>1. /\ all \in Seq(Severities) /\ Len(all) = Len(some) + Len(more) /\ Len(some) \in Nat /\ Len(more) \in Nat
      /\ \A i \in 1..Len(all) : all[i] = IF i <= Len(some) THEN some[i] ELSE more[i - Len(some)]
  OBVIOUS
<1>2. /\ Serious(some) \in Seq(Int) /\ Len(Serious(some)) = Len(some)
      /\ Serious(more) \in Seq(Int) /\ Len(Serious(more)) = Len(more)
  BY SeriousIsSeq
<1>3. /\ x \in Seq(Int) /\ Len(x) = Len(some) + Len(more)
      /\ \A i \in 1..Len(x) : x[i] = IF i <= Len(some) THEN Serious(some)[i] ELSE Serious(more)[i - Len(some)]
  <2> DEFINE a == Serious(some)
             b == Serious(more)
  <2>1. a \in Seq(Int) /\ b \in Seq(Int) /\ Len(a) = Len(some) /\ Len(b) = Len(more)
    BY <1>2
  <2> HIDE DEF a, b
  <2>2. /\ a \o b \in Seq(Int) /\ Len(a \o b) = Len(a) + Len(b)
        /\ \A i \in 1..(Len(a) + Len(b)) : (a \o b)[i] = IF i <= Len(a) THEN a[i] ELSE b[i - Len(a)]
    BY <2>1, ConcatProperties, Zenon
  <2>3. \A i \in 1..Len(a \o b) : (a \o b)[i] = IF i <= Len(a) THEN a[i] ELSE b[i - Len(a)]
    BY <2>2, Zenon
  <2> QED  BY <2>1, <2>2, <2>3, Zenon DEF a, b, x
<1> HIDE DEF all, x
<1>4. Serious(all) \in Seq(Int) /\ Len(Serious(all)) = Len(all)
  BY <1>1, SeriousIsSeq
<1>5. ASSUME NEW i \in 1..Len(all)  PROVE Serious(all)[i] = x[i]
  <2>1. Serious(all)[i] = Count(all[i] >= 2)
    BY <1>1 DEF Serious
  <2>2. CASE i <= Len(some)
    <3>1. i \in DOMAIN some /\ all[i] = some[i] /\ x[i] = Serious(some)[i]
      BY <1>1, <1>3, <2>2
    <3>2. Serious(some)[i] = Count(some[i] >= 2)
      BY <3>1 DEF Serious
    <3> QED  BY <2>1, <3>1, <3>2
  <2>3. CASE ~(i <= Len(some))
    <3> DEFINE k == i - Len(some)
    <3>1. k \in DOMAIN more /\ all[i] = more[k] /\ x[i] = Serious(more)[k]
      BY <1>1, <1>3, <2>3
    <3> HIDE DEF k
    <3>2. Serious(more)[k] = Count(more[k] >= 2)
      BY <3>1 DEF Serious
    <3> QED  BY <2>1, <3>1, <3>2
  <2> QED  BY <2>2, <2>3
<1>6. Serious(all) = x
  BY <1>1, <1>3, <1>4, <1>5, SeqEqual
<1>7. SumOf(x) = SumOf(Serious(some)) + SumOf(Serious(more))
  BY <1>2, SumConcat DEF x
<1> QED  BY <1>6, <1>7 DEF all

(***************************************************************************)
(* The invariant: what was counted is in an alert, under way, or in the    *)
(* payload that is being built.                                            *)
(***************************************************************************)
AlertInv ==
  /\ threats \in Nat
  /\ alerts \in Seq(Severities)
  /\ threats <= SumOf(Serious(alerts)) + SumOf(Waiting(uploads)) + Threats(events)

LEMMA AssessKeepsAlertInv ==
  ASSUME PipelineInv, AlertInv, NEW ioc \in Indicators, Assess(ioc)
  PROVE  AlertInv'
<1>1. LoopInv /\ events \in Seq(Event) /\ uploads \in Seq(Seq(Event))
  BY DEF PipelineInv, LoopInv, StoreInv
<1>2. PICK event \in Event :
        /\ Emit(event)
        /\ \E n \in 0..Count(IsThreat(event.risk)) : threats' = threats + n
  BY <1>1, AssessMakesEvent
<1> DEFINE payload == Append(events, event)
<1>3. PICK mark \in Int : mark = Count(IsThreat(event.risk))
  BY CountIsInt
<1>4. PICK n \in 0..mark : threats' = threats + n
  BY <1>2, <1>3
<1>5. payload \in Seq(Event)
  BY <1>1
<1>6. PICK built \in Int : built = Threats(events)
  BY <1>1, ThreatsOfPayload
<1>7. Threats(payload) = built + mark
  BY <1>1, <1>3, <1>6, ThreatsGrow
<1>8. PICK waits \in Int : waits = SumOf(Waiting(uploads))
  BY <1>1, WaitingPayloads
<1>9. alerts' = alerts
  BY DEF Assess, serverVars
<1>10. PICK told \in Int : told = SumOf(Serious(alerts))
  BY SeriousIsSeq DEF AlertInv
<1>11. threats \in Nat /\ threats <= told + waits + built
  BY <1>6, <1>8, <1>10 DEF AlertInv
<1>12. SumOf(Waiting(uploads')) + Threats(events') = waits + built + mark
  <2>1. SumOf(Waiting(Append(uploads, payload))) = waits + (built + mark)
    BY <1>1, <1>5, <1>7, <1>8, WaitingGrows
  <2> HIDE DEF payload
  <2>2. CASE Len(events) + 1 = Len(batch)
    <3>1. uploads' = Append(uploads, payload) /\ events' = <<>>
      BY <1>2, <2>2 DEF Emit, payload
    <3> QED  BY <2>1, <3>1, NoThreats
  <2>3. CASE Len(events) + 1 # Len(batch)
    <3>1. uploads' = uploads /\ events' = payload
      BY <1>2, <2>3 DEF Emit, payload
    <3> QED  BY <1>7, <1>8, <3>1
  <2> QED  BY <2>2, <2>3
<1>13. /\ SumOf(Waiting(uploads')) \in Int /\ Threats(events') \in Int
  <2>1. PipelineInv'
    BY AssessKeepsPipelineInv
  <2>2. uploads' \in Seq(Seq(Event)) /\ events' \in Seq(Event)
    BY <2>1 DEF PipelineInv, LoopInv, StoreInv
  <2> QED  BY <2>2, WaitingPayloads, ThreatsOfPayload
<1>14. PICK waits2 \in Int : waits2 = SumOf(Waiting(uploads'))
  BY <1>13
<1>15. PICK built2 \in Int : built2 = Threats(events')
  BY <1>13
<1>16. threats' \in Nat /\ threats' <= told + waits2 + built2
  BY <1>4, <1>11, <1>12, <1>14, <1>15
<1> QED  BY <1>9, <1>10, <1>14, <1>15, <1>16 DEF AlertInv

LEMMA IngestKeepsAlertInv == PipelineInv /\ AlertInv /\ Ingest => AlertInv'
<1> SUFFICES ASSUME PipelineInv, AlertInv, Ingest  PROVE AlertInv'
  OBVIOUS
<1> DEFINE payload == Head(uploads)
<1>1. /\ uploads \in Seq(Seq(Event)) /\ uploads # <<>> /\ payload \in Seq(Event)
      /\ Tail(uploads) \in Seq(Seq(Event)) /\ events \in Seq(Event)
  BY DEF PipelineInv, LoopInv, StoreInv, Ingest
<1>2. /\ uploads' = Tail(uploads) /\ alerts' = alerts \o AlertsOf(payload)
      /\ threats' = threats /\ events' = events
  BY DEF Ingest, agentVars
<1> HIDE DEF payload
<1>3. AlertsOf(payload) \in Seq(Severities) /\ Serious(AlertsOf(payload)) = Marks(payload)
  BY <1>1, AlertsOfPayload
<1>4. PICK found \in Int : found = Threats(payload)
  BY <1>1, ThreatsOfPayload
<1>5. SumOf(Serious(AlertsOf(payload))) = found
  BY <1>3, <1>4, ThreatsAreMarks
<1>6. PICK told \in Int : told = SumOf(Serious(alerts))
  BY SeriousIsSeq DEF AlertInv
<1>7. SumOf(Serious(alerts')) = told + found
  BY <1>2, <1>3, <1>5, <1>6, SeriousConcat DEF AlertInv
<1>8. PICK waits \in Int : waits = SumOf(Waiting(Tail(uploads)))
  BY <1>1, WaitingPayloads
<1>9. SumOf(Waiting(uploads)) = found + waits
  BY <1>1, <1>4, <1>8, WaitingShrinks DEF payload
<1>10. PICK built \in Int : built = Threats(events)
  BY <1>1, ThreatsOfPayload
<1>11. threats \in Nat /\ threats <= told + (found + waits) + built
  BY <1>6, <1>9, <1>10 DEF AlertInv
<1>12. threats <= (told + found) + waits + built
  BY <1>11
<1>13. alerts' \in Seq(Severities)
  BY <1>2, <1>3 DEF AlertInv
<1> QED  BY <1>2, <1>7, <1>8, <1>10, <1>11, <1>12, <1>13 DEF AlertInv

LEMMA NextKeepsAlertInv == PipelineInv /\ AlertInv /\ [Next]_vars => AlertInv'
<1> SUFFICES ASSUME PipelineInv, AlertInv, [Next]_vars  PROVE AlertInv'
  OBVIOUS
<1>1. ASSUME NEW b \in Batches, Complete(b)  PROVE AlertInv'
  BY <1>1 DEF AlertInv, Complete, serverVars
<1>2. ASSUME NEW ioc \in Indicators, Assess(ioc)  PROVE AlertInv'
  BY <1>2, AssessKeepsAlertInv
<1>3. CASE Ingest
  BY <1>3, IngestKeepsAlertInv
<1>4. ASSUME NEW s \in Steps, Tick(s)  PROVE AlertInv'
  BY <1>4 DEF AlertInv, Tick, agentVars, serverVars
<1>5. CASE UNCHANGED vars
  BY <1>5 DEF AlertInv, vars, agentVars, serverVars
<1> QED  BY <1>1, <1>2, <1>3, <1>4, <1>5 DEF Next

(* Every threat the agent counted reaches the dashboards: it is an alert   *)
(* of at least high severity or still in a payload (main.py's             *)
(* threats_detected against telemetry_service.py's alerts).                *)
THEOREM ThreatsAreTold == Spec => []ThreatsBecomeAlerts
<1>1. Init => AlertInv
  <2>1. Serious(<<>>) = <<>> /\ Waiting(<<>>) = <<>>
    BY DEF Serious, Waiting
  <2>2. SumOf(<<>>) = 0 /\ Threats(<<>>) = 0
    BY SumEmpty, NoThreats
  <2> QED  BY <2>1, <2>2 DEF Init, AlertInv
<1>2. AlertInv => ThreatsBecomeAlerts
  <2> SUFFICES ASSUME AlertInv  PROVE ThreatsBecomeAlerts
    OBVIOUS
  <2>1. \A i \in DOMAIN alerts : alerts[i] # 0
    BY DEF AlertInv, Severities
  <2> QED  BY <2>1 DEF AlertInv, ThreatsBecomeAlerts, Serious, Waiting
<1> QED  BY <1>1, <1>2, NextKeepsAlertInv, PipelineHolds, PTL DEF Spec
===============================================================================
