----------------------------- MODULE BackendProofs -----------------------------
(***************************************************************************)
(* Theorems about five services of the backend that share no state: the    *)
(* reports (ReportJobs), the desk of the alerts (AlertDesk), the accounts  *)
(* (AuthAccounts), the rate limiter (RateLimit), and the broadcasts        *)
(* and the alerts of the forest (LiveFeed), for every set of reports,      *)
(* workers, alerts, clerks, viewers, accounts, passwords, requests,        *)
(* addresses, dashboards and batches, and every setting of the limiter.    *)
(***************************************************************************)
EXTENDS AuthAccounts, ReportJobs, AlertDesk, RateLimit, LiveFeed, TLAPS, SequenceTheorems,
        FiniteSetTheorems, WellFoundedInduction

-----------------------------------------------------------------------------
(* Reports.                                                                *)
Task == [at : {"compile", "complete", "fail"}, report : Report,
         seen : {"none", "pending", "completed", "failed"}]

JobsTypes ==
  /\ row \in [Report -> {"none", "pending", "completed", "failed"}]
  /\ content \subseteq Report
  /\ asked \in [Report -> 0..Over]
  /\ queue \in [Report -> Nat]
  /\ worker \in [Worker -> {Free} \cup Task]
  /\ hindered \subseteq Report /\ redelivered \subseteq Report /\ discarded \subseteq Report
  /\ known \subseteq Worker /\ \A w \in Worker : worker[w] # Free => w \in known

Has(w, r) == worker[w] # Free /\ worker[w].report = r

(* Before its task is published a report has none, and its row is there    *)
(* before that.                                                            *)
StagesInv(r) ==
  /\ asked[r] < 2 => row[r] = "none"
  /\ asked[r] = 2 => row[r] = "pending"
  /\ asked[r] < Over => queue[r] = 0 /\ ~(\E w \in Worker : Has(w, r)) /\ r \notin content
  /\ row[r] = "none" => /\ queue[r] = 0 /\ ~(\E w \in Worker : Has(w, r)) /\ r \notin content
                        /\ asked[r] = Over => r \in hindered

(* What a worker has read of a row is a stage the row has been through.    *)
SeenInv(w) ==
  worker[w].at \in {"complete", "fail"} =>
    /\ worker[w].seen # "none"
    /\ worker[w].seen # "pending" => row[worker[w].report] \in {"completed", "failed"}

(* A task that is not disturbed is in one place, and its report undecided. *)
OnceInv(r) ==
  r \notin redelivered \cup hindered =>
    /\ queue[r] <= 1
    /\ \A w \in Worker : Has(w, r) => queue[r] = 0 /\ \A v \in Worker : Has(v, r) => v = w
    /\ queue[r] = 1 \/ (\E w \in Worker : Has(w, r)) => row[r] = "pending" /\ r \notin content

JobsInv == /\ JobsTypes /\ ReportsAreAccountedFor
           /\ \A r \in Report : StagesInv(r) /\ OnceInv(r)
           /\ \A w \in Worker : SeenInv(w)

Underway(r) == asked[r] \in 1..2 \/ queue[r] > 0 \/ \E w \in Worker : Has(w, r)

Accounted(r) ==
  /\ row[r] = "pending" /\ ~Underway(r) => r \in hindered \cup discarded
  /\ row[r] = "completed" => r \in content
  /\ row[r] # "completed" /\ r \in content => r \in redelivered \cup hindered
  /\ asked[r] = Over /\ row[r] = "none" => r \in hindered
  /\ known = {} => row[r] \in {"none", "pending"} /\ r \notin content

LEMMA TwoSteps == DOMAIN Steps = 1..2 /\ Steps[1] = "commit" /\ Steps[2] = "delay"
  BY DEF Steps

LEMMA AccountedFor == ReportsAreAccountedFor <=> \A r \in Report : Accounted(r)
  BY TwoSteps DEF ReportsAreAccountedFor, Accounted, Underway, Has, Downloadable

LEMMA AccountedLater == (\A r \in Report : Accounted(r)') => ReportsAreAccountedFor'
  BY TwoSteps DEF ReportsAreAccountedFor, Accounted, Underway, Has, Downloadable

LEMMA ReachedSteps ==
  ASSUME JobsTypes, NEW r \in Report
  PROVE  /\ Reaches(r, "commit") <=> asked[r] = 1
         /\ Reaches(r, "delay") <=> asked[r] = 2
  <1>1. asked[r] \in 0..3
    BY DEF JobsTypes, Over
  <1>2. asked[r] \in DOMAIN Steps <=> asked[r] \in 1..2
    BY TwoSteps
  <1> QED BY <1>1, <1>2, TwoSteps DEF Reaches

(* The steps of the request and of the broker move one report.             *)
LEMMA RequestStep ==
  ASSUME JobsInv, NEW r \in Report,
         generate_report(r) \/ Commit(r) \/ Delay(r) \/ RequestFails(r) \/ Redeliver(r)
  PROVE  JobsInv'
  <1> USE DEF Over
  <1>1. /\ asked[r] \in 0..3 /\ queue[r] \in Nat
        /\ asked \in [Report -> 0..3] /\ queue \in [Report -> Nat]
        /\ row \in [Report -> {"none", "pending", "completed", "failed"}]
    BY DEF JobsInv, JobsTypes
  <1>2. UNCHANGED <<worker, content, known, discarded>>
    BY DEF generate_report, Commit, Delay, RequestFails, Redeliver
  <1>3. \A s \in Report : s # r => /\ asked'[s] = asked[s] /\ queue'[s] = queue[s] /\ row'[s] = row[s]
                                   /\ s \in hindered' <=> s \in hindered
                                   /\ s \in redelivered' <=> s \in redelivered
    BY <1>1 DEF generate_report, Commit, Delay, RequestFails, Redeliver
  <1>4. \/ /\ asked[r] = 0 /\ asked'[r] = 1
           /\ queue'[r] = queue[r] /\ row'[r] = row[r]
           /\ UNCHANGED <<hindered, redelivered>>
        \/ /\ asked[r] = 1 /\ asked'[r] = 2 /\ row'[r] = "pending"
           /\ queue'[r] = queue[r] /\ UNCHANGED <<hindered, redelivered>>
        \/ /\ asked[r] = 2 /\ asked'[r] = 3 /\ row'[r] = row[r]
           /\ queue'[r] = queue[r] + 1 /\ UNCHANGED <<hindered, redelivered>>
        \/ /\ asked[r] \in 1..2 /\ asked'[r] = 3 /\ row'[r] = row[r]
           /\ hindered' = hindered \cup {r} /\ redelivered' = redelivered
           /\ queue'[r] = queue[r] \/ (asked[r] = 2 /\ queue'[r] = queue[r] + 1)
        \/ /\ queue[r] > 0 /\ queue'[r] = queue[r] + 1
           /\ redelivered' = redelivered \cup {r} /\ hindered' = hindered
           /\ asked'[r] = asked[r] /\ row'[r] = row[r]
    <2>1. asked[r] \in DOMAIN Steps => asked[r] \in 1..2
      BY TwoSteps
    <2>2. CASE generate_report(r)
      BY <1>1, <2>2 DEF generate_report
    <2>3. CASE Commit(r)
      BY <1>1, <2>3, ReachedSteps DEF Commit, JobsInv
    <2>4. CASE Delay(r)
      BY <1>1, <2>4, ReachedSteps DEF Delay, JobsInv
    <2>5. CASE RequestFails(r)
      BY <1>1, <2>1, <2>5, ReachedSteps DEF RequestFails, JobsInv
    <2>6. CASE Redeliver(r)
      <3>1. queue[r] > 0
        BY <1>1, <2>6 DEF Redeliver
      <3> QED BY <1>1, <2>6, <3>1 DEF Redeliver
    <2> QED BY <2>2, <2>3, <2>4, <2>5, <2>6
  <1>5. JobsTypes'
    <2>1. /\ asked' \in [Report -> 0..3] /\ queue' \in [Report -> Nat]
          /\ row' \in [Report -> {"none", "pending", "completed", "failed"}]
      <3>1. asked'[r] \in 0..3 /\ queue'[r] \in Nat /\ row'[r] \in {"none", "pending", "completed", "failed"}
        BY <1>1, <1>4
      <3>2. /\ asked' = asked \/ \E x : asked' = [asked EXCEPT ![r] = x]
            /\ queue' = queue \/ \E x : queue' = [queue EXCEPT ![r] = x]
            /\ row' = row \/ \E x : row' = [row EXCEPT ![r] = x]
        BY Zenon DEF generate_report, Commit, Delay, RequestFails, Redeliver
      <3>3. asked' \in [Report -> 0..3]
        BY <1>1, <3>1, <3>2
      <3>4. queue' \in [Report -> Nat]
        BY <1>1, <3>1, <3>2
      <3>5. row' \in [Report -> {"none", "pending", "completed", "failed"}]
        BY <1>1, <3>1, <3>2
      <3> QED BY <3>3, <3>4, <3>5
    <2>2. hindered' \subseteq Report /\ redelivered' \subseteq Report
      BY <1>4 DEF JobsInv, JobsTypes
    <2> QED BY <1>2, <2>1, <2>2 DEF JobsInv, JobsTypes
  <1>6. \A s \in Report, w \in Worker : Has(w, s)' <=> Has(w, s)
    BY <1>2 DEF Has
  <1>7. \A s \in Report \ {r} : StagesInv(s)' /\ OnceInv(s)' /\ Accounted(s)'
    BY <1>2, <1>3, <1>6, AccountedFor DEF JobsInv, StagesInv, OnceInv, Accounted, Underway
  <1>8. StagesInv(r) /\ OnceInv(r) /\ Accounted(r)
    BY AccountedFor DEF JobsInv
  <1>9. StagesInv(r)'
    BY <1>1, <1>2, <1>4, <1>6, <1>8 DEF StagesInv
  <1>10. OnceInv(r)'
    BY <1>1, <1>2, <1>4, <1>6, <1>8 DEF StagesInv, OnceInv
  <1>11. Accounted(r)'
    BY <1>1, <1>2, <1>4, <1>6, <1>8 DEF StagesInv, Accounted, Underway
  <1>12. \A w \in Worker : SeenInv(w)'
    <2> TAKE w \in Worker
    <2>1. SeenInv(w) /\ worker[w] \in {Free} \cup Task
      BY DEF JobsInv, JobsTypes
    <2>2. worker[w].at \in {"complete", "fail"} => worker[w].report \in Report /\ Has(w, worker[w].report)
      BY <2>1 DEF Free, Task, Has
    <2>3. row[r] \in {"completed", "failed"} => row'[r] = row[r]
      BY <1>4, <1>8 DEF StagesInv
    <2> QED BY <1>2, <1>3, <2>1, <2>2, <2>3 DEF SeenInv
  <1>13. ReportsAreAccountedFor'
    BY <1>7, <1>11, AccountedLater
  <1> QED BY <1>5, <1>7, <1>9, <1>10, <1>12, <1>13 DEF JobsInv

LEMMA WorkerFields ==
  ASSUME JobsTypes, NEW w \in Worker
  PROVE  /\ worker[w] # Free <=> worker[w] \in Task
         /\ worker[w] # Free <=> worker[w].at # "idle"
         /\ worker[w] # Free => /\ worker[w].report \in Report /\ Has(w, worker[w].report)
                                /\ worker[w].at \in {"compile", "complete", "fail"}
  <1>1. worker[w] \in {Free} \cup Task
    BY DEF JobsTypes
  <1>2. Free.at = "idle" /\ Free \notin Task
    BY DEF Free, Task
  <1> QED BY <1>1, <1>2 DEF Task, Has

(* A worker takes a copy: the task is in one place as before.              *)
LEMMA TakeStep ==
  ASSUME JobsInv, NEW w \in Worker, NEW r \in Report, Take(w, r)
  PROVE  JobsInv'
  <1> DEFINE q == [at |-> "compile", report |-> r, seen |-> "none"]
  <1>1. q \in Task /\ q # Free /\ q.report = r /\ q.at = "compile"
    BY DEF Task, Free
  <1>2. /\ worker' = [worker EXCEPT ![w] = q] /\ queue' = [queue EXCEPT ![r] = @ - 1]
        /\ worker[w] = Free /\ queue[r] > 0 /\ queue[r] \in Nat
        /\ UNCHANGED <<row, content, asked, known, discarded, hindered, redelivered>> /\ w \in known
    BY DEF Take, JobsInv, JobsTypes
  <1> HIDE DEF q
  <1>3. /\ worker'[w] = q /\ \A v \in Worker : v # w => worker'[v] = worker[v]
        /\ queue'[r] = queue[r] - 1 /\ \A s \in Report : s # r => queue'[s] = queue[s]
    BY <1>2 DEF JobsInv, JobsTypes
  <1>4. JobsTypes'
    <2>1. queue' \in [Report -> Nat]
      BY <1>2 DEF JobsInv, JobsTypes
    <2>2. worker' \in [Worker -> {Free} \cup Task]
      BY <1>1, <1>2 DEF JobsInv, JobsTypes
    <2>3. \A v \in Worker : worker'[v] # Free => v \in known
      BY <1>2, <1>3 DEF JobsInv, JobsTypes
    <2> QED BY <1>2, <2>1, <2>2, <2>3 DEF JobsInv, JobsTypes
  <1>5. \A s \in Report, v \in Worker : Has(v, s)' <=> Has(v, s) \/ (v = w /\ s = r)
    BY <1>1, <1>2, <1>3 DEF Has
  <1>6. \A s \in Report : StagesInv(s) /\ OnceInv(s) /\ Accounted(s)
    BY AccountedFor DEF JobsInv
  <1>7. \A s \in Report \ {r} : StagesInv(s)' /\ OnceInv(s)' /\ Accounted(s)'
    BY <1>2, <1>3, <1>5, <1>6 DEF StagesInv, OnceInv, Accounted, Underway
  <1>8. StagesInv(r)' /\ Accounted(r)'
    BY <1>2, <1>3, <1>5, <1>6 DEF StagesInv, Accounted, Underway
  <1>9. OnceInv(r)'
    BY <1>2, <1>3, <1>5, <1>6 DEF OnceInv
  <1>10. \A v \in Worker : SeenInv(v)'
    BY <1>1, <1>2, <1>3 DEF JobsInv, SeenInv
  <1>11. ReportsAreAccountedFor'
    BY <1>7, <1>8, AccountedLater
  <1> QED BY <1>4, <1>7, <1>8, <1>9, <1>10, <1>11 DEF JobsInv

(* A worker discards a copy: the report is marked.                         *)
LEMMA DiscardStep ==
  ASSUME JobsInv, NEW w \in Worker, NEW r \in Report, Discard(w, r)
  PROVE  JobsInv'
  <1>1. /\ queue \in [Report -> Nat] /\ queue' = [queue EXCEPT ![r] = @ - 1] /\ queue[r] > 0
        /\ discarded' = discarded \cup {r} /\ discarded \subseteq Report
        /\ UNCHANGED <<row, content, asked, worker, known, hindered, redelivered>>
    BY DEF Discard, JobsInv, JobsTypes
  <1>2. queue'[r] = queue[r] - 1 /\ queue[r] \in Nat /\ \A s \in Report : s # r => queue'[s] = queue[s]
    BY <1>1
  <1>3. JobsTypes'
    <2>1. queue' \in [Report -> Nat]
      BY <1>1
    <2> QED BY <1>1, <2>1 DEF JobsInv, JobsTypes
  <1>4. \A s \in Report, v \in Worker : Has(v, s)' <=> Has(v, s)
    BY <1>1 DEF Has
  <1>5. \A s \in Report : StagesInv(s) /\ OnceInv(s) /\ Accounted(s)
    BY AccountedFor DEF JobsInv
  <1>6. \A s \in Report \ {r} : StagesInv(s)' /\ OnceInv(s)' /\ Accounted(s)'
    BY <1>1, <1>2, <1>4, <1>5 DEF StagesInv, OnceInv, Accounted, Underway
  <1>7. StagesInv(r)'
    BY <1>1, <1>2, <1>4, <1>5 DEF StagesInv
  <1>8. OnceInv(r)'
    BY <1>1, <1>2, <1>4, <1>5 DEF OnceInv
  <1>9. Accounted(r)'
    BY <1>1, <1>2, <1>4, <1>5 DEF Accounted, Underway
  <1>10. \A v \in Worker : SeenInv(v)'
    BY <1>1 DEF JobsInv, SeenInv
  <1>11. ReportsAreAccountedFor'
    BY <1>6, <1>9, AccountedLater
  <1> QED BY <1>3, <1>6, <1>7, <1>8, <1>10, <1>11 DEF JobsInv

(* A worker that goes on with its report has read the row.                 *)
LEMMA GoesOnStep ==
  ASSUME JobsInv, NEW w \in Worker, worker[w] # Free, NEW to \in {"complete", "fail"},
         worker' = [worker EXCEPT ![w].at = to, ![w].seen = row'[worker[w].report]],
         UNCHANGED <<row, content, asked, queue, known, discarded, hindered, redelivered>>
  PROVE  JobsInv'
  <1> DEFINE r == worker[w].report
             q == [worker[w] EXCEPT !.at = to, !.seen = row[r]]
  <1>1. worker[w] \in Task /\ r \in Report /\ Has(w, r)
    BY WorkerFields DEF JobsInv
  <1>2. row[r] \in {"none", "pending", "completed", "failed"}
    BY <1>1 DEF JobsInv, JobsTypes
  <1>3. q \in Task /\ q.at = to /\ q.seen = row[r] /\ q.report = r /\ q # Free
    BY <1>1, <1>2 DEF Task, Free
  <1>4. worker' = [worker EXCEPT ![w] = q]
    BY DEF JobsInv, JobsTypes
  <1> HIDE DEF q
  <1>5. worker'[w] = q /\ \A v \in Worker : v # w => worker'[v] = worker[v]
    BY <1>4 DEF JobsInv, JobsTypes
  <1>6. JobsTypes'
    <2>1. worker \in [Worker -> {Free} \cup Task]
      BY DEF JobsInv, JobsTypes
    <2>2. worker' \in [Worker -> {Free} \cup Task]
      BY <1>3, <1>4, <2>1
    <2>3. \A v \in Worker : worker'[v] # Free => v \in known
      BY <1>5 DEF JobsInv, JobsTypes
    <2> QED BY <2>2, <2>3 DEF JobsInv, JobsTypes
  <1>7. \A s \in Report, v \in Worker : Has(v, s)' <=> Has(v, s)
    BY <1>1, <1>3, <1>5 DEF Has
  <1>8. \A s \in Report : StagesInv(s)' /\ OnceInv(s)' /\ Accounted(s)'
    <2>1. \A s \in Report : StagesInv(s) /\ OnceInv(s) /\ Accounted(s)
      BY AccountedFor DEF JobsInv
    <2> QED BY <1>7, <2>1 DEF StagesInv, OnceInv, Accounted, Underway
  <1>9. row[r] # "none"
    BY <1>1 DEF JobsInv, StagesInv
  <1>10. \A v \in Worker : SeenInv(v)'
    <2>1. ASSUME NEW v \in Worker, v # w PROVE SeenInv(v)'
      BY <1>5, <2>1 DEF JobsInv, SeenInv
    <2>2. SeenInv(w)'
      BY <1>2, <1>3, <1>5, <1>9 DEF SeenInv
    <2> QED BY <2>1, <2>2
  <1>11. ReportsAreAccountedFor'
    BY <1>8, AccountedLater
  <1> QED BY <1>6, <1>8, <1>10, <1>11 DEF JobsInv

(* What a write does to the row of a report that is being worked on.       *)
LEMMA StoresFields ==
  ASSUME JobsInv, NEW w \in Worker, NEW outcome \in {"completed", "failed"},
         worker[w].at = IF outcome = "completed" THEN "complete" ELSE "fail",
         Stores(w, outcome)
  PROVE  LET r == worker[w].report
         IN  /\ r \in Report /\ Has(w, r)
             /\ row' \in [Report -> {"none", "pending", "completed", "failed"}]
             /\ \A s \in Report : s # r => row'[s] = row[s]
             /\ row'[r] \in {"completed", "failed"}
             /\ row'[r] = outcome \/ (row'[r] = row[r] /\ row[r] # "pending")
             /\ content' = IF outcome = "completed" THEN content \cup {r} ELSE content
  <1> DEFINE r == worker[w].report
  <1>1. worker[w] # Free /\ worker[w] \in Task /\ r \in Report /\ Has(w, r)
    BY WorkerFields DEF JobsInv
  <1>2. /\ worker[w].seen # "none"
        /\ worker[w].seen # "pending" => row[r] \in {"completed", "failed"}
    BY DEF JobsInv, SeenInv
  <1>3. worker[w].seen \in {"pending", "completed", "failed"}
    BY <1>1, <1>2 DEF Task
  <1>4. row' = [row EXCEPT ![r] = IF worker[w].seen = outcome THEN @ ELSE outcome]
    BY <1>2, Zenon DEF Stores
  <1>5. row \in [Report -> {"none", "pending", "completed", "failed"}]
    BY DEF JobsInv, JobsTypes
  <1>6. /\ row' \in [Report -> {"none", "pending", "completed", "failed"}]
        /\ \A s \in Report : s # r => row'[s] = row[s]
        /\ row'[r] = IF worker[w].seen = outcome THEN row[r] ELSE outcome
    BY <1>1, <1>4, <1>5
  <1>7. content' = IF outcome = "completed" THEN content \cup {r} ELSE content
    BY <1>2 DEF Stores
  <1> QED BY <1>1, <1>2, <1>3, <1>6, <1>7

(* A worker that was at work on a report leaves it, or, hindered, tries to *)
(* record that.                                                            *)
LEMMA LeavesStep ==
  ASSUME JobsInv, NEW w \in Worker, worker[w] # Free,
         NEW q \in {Free} \cup Task, worker' = [worker EXCEPT ![w] = q],
         UNCHANGED <<asked, queue, known, discarded, redelivered>>,
         hindered' \in {hindered, hindered \cup {worker[w].report}},
         q # Free => /\ q.report = worker[w].report /\ q.seen = row'[q.report]
                     /\ q.report \in hindered',
         \/ UNCHANGED <<row, content>> /\ worker[w].report \in hindered'
         \/ \E outcome \in {"completed", "failed"} :
              /\ worker[w].at = IF outcome = "completed" THEN "complete" ELSE "fail"
              /\ Stores(w, outcome)
  PROVE  JobsInv'
  <1>1. PICK r \in Report : r = worker[w].report /\ Has(w, r)
    BY WorkerFields DEF JobsInv
  <1>2. worker'[w] = q /\ \A v \in Worker : v # w => worker'[v] = worker[v]
    BY DEF JobsInv, JobsTypes
  <1>3. \/ UNCHANGED <<row, content>> /\ r \in hindered'
        \/ \E outcome \in {"completed", "failed"} :
             /\ row' \in [Report -> {"none", "pending", "completed", "failed"}]
             /\ \A s \in Report : s # r => row'[s] = row[s]
             /\ row'[r] \in {"completed", "failed"}
             /\ row'[r] = outcome \/ (row'[r] = row[r] /\ row[r] # "pending")
             /\ content' = IF outcome = "completed" THEN content \cup {r} ELSE content
    BY <1>1, StoresFields
  <1>4. JobsTypes'
    <2>1. worker' \in [Worker -> {Free} \cup Task]
      BY DEF JobsInv, JobsTypes
    <2>2. row' \in [Report -> {"none", "pending", "completed", "failed"}] /\ content' \subseteq Report
      BY <1>1, <1>3 DEF JobsInv, JobsTypes
    <2>3. hindered' \subseteq Report
      BY <1>1 DEF JobsInv, JobsTypes
    <2>4. \A v \in Worker : worker'[v] # Free => v \in known
      BY <1>2 DEF JobsInv, JobsTypes
    <2> QED BY <2>1, <2>2, <2>3, <2>4 DEF JobsInv, JobsTypes
  <1>5. \A s \in Report, v \in Worker : v # w => (Has(v, s)' <=> Has(v, s))
    BY <1>2 DEF Has
  <1>6. \A s \in Report : (Has(w, s) => s = r) /\ (Has(w, s)' => s = r /\ q # Free)
    BY <1>1, <1>2 DEF Has
  <1>7. \A s \in Report : StagesInv(s) /\ OnceInv(s) /\ Accounted(s)
    BY AccountedFor DEF JobsInv
  <1>8. \A s \in Report \ {r} : StagesInv(s)' /\ OnceInv(s)' /\ Accounted(s)'
    <2> TAKE s \in Report \ {r}
    <2>1. row'[s] = row[s] /\ (s \in content' <=> s \in content) /\ (s \in hindered' <=> s \in hindered)
      BY <1>1, <1>3
    <2>2. \A v \in Worker : Has(v, s)' <=> Has(v, s)
      BY <1>5, <1>6
    <2> QED BY <1>7, <2>1, <2>2 DEF StagesInv, OnceInv, Accounted, Underway
  <1>9. row[r] # "none" /\ asked[r] = Over
    <2>1. asked[r] \in 0..3
      BY <1>1 DEF JobsInv, JobsTypes, Over
    <2> QED BY <1>1, <1>7, <2>1 DEF StagesInv, Over
  <1>10. StagesInv(r)'
    <2>1. row'[r] # "none" /\ asked'[r] = Over
      BY <1>3, <1>9
    <2> QED BY <2>1 DEF StagesInv, Over
  <1>11. OnceInv(r)'
    <2> SUFFICES ASSUME r \notin redelivered' \cup hindered' PROVE OnceInv(r)'
      BY DEF OnceInv
    <2>1. q = Free
      BY <1>1
    <2>2. \A v \in Worker : ~Has(v, r)'
      BY <1>1, <1>5, <1>6, <1>7, <2>1 DEF OnceInv
    <2>3. queue'[r] = 0
      BY <1>1, <1>7 DEF OnceInv
    <2> QED BY <2>2, <2>3 DEF OnceInv
  <1>12. Accounted(r)'
    <2>1. CASE UNCHANGED <<row, content>> /\ r \in hindered'
      BY <1>1, <1>7, <1>9, <2>1 DEF Accounted
    <2>2. ASSUME NEW outcome \in {"completed", "failed"},
                 row'[r] \in {"completed", "failed"},
                 row'[r] = outcome \/ (row'[r] = row[r] /\ row[r] # "pending"),
                 content' = IF outcome = "completed" THEN content \cup {r} ELSE content
          PROVE  Accounted(r)'
      <3>1. row'[r] = "completed" => r \in content'
        BY <1>1, <1>7, <2>2 DEF Accounted
      <3>2. ASSUME r \notin redelivered' \cup hindered', r \in content' PROVE row'[r] = "completed"
        <4>1. row[r] = "pending" /\ r \notin content
          BY <1>1, <1>7, <3>2 DEF OnceInv
        <4> QED BY <2>2, <3>2, <4>1
      <3>3. known' # {}
        BY DEF JobsInv, JobsTypes
      <3> QED BY <2>2, <3>1, <3>2, <3>3 DEF Accounted
    <2> QED BY <1>3, <2>1, <2>2
  <1>13. \A v \in Worker : SeenInv(v)'
    <2>1. ASSUME NEW v \in Worker, v # w PROVE SeenInv(v)'
      <3>1. SeenInv(v) /\ worker'[v] = worker[v]
        BY <1>2, <2>1 DEF JobsInv
      <3>2. worker[v].at \in {"complete", "fail"} => worker[v].report \in Report
        BY WorkerFields DEF JobsInv
      <3> QED BY <1>3, <3>1, <3>2 DEF SeenInv
    <2>2. SeenInv(w)'
      <3>1. CASE q = Free
        BY <1>2, <3>1 DEF SeenInv, Free
      <3>2. CASE q # Free
        <4>1. q.report = r /\ q.seen = row'[r] /\ row'[r] # "none"
          BY <1>1, <1>3, <1>9, <3>2
        <4>2. row'[r] \in {"none", "pending", "completed", "failed"}
          BY <1>1, <1>4 DEF JobsTypes
        <4> QED BY <1>2, <4>1, <4>2 DEF SeenInv
      <3> QED BY <3>1, <3>2
    <2> QED BY <2>1, <2>2
  <1>14. ReportsAreAccountedFor'
    BY <1>8, <1>12, AccountedLater
  <1> QED BY <1>4, <1>8, <1>10, <1>11, <1>13, <1>14 DEF JobsInv

LEMMA WorkerStep ==
  ASSUME JobsInv, NEW w \in Worker,
         \/ \E r \in Report : Take(w, r) \/ Discard(w, r)
         \/ Compiled(w) \/ CompileFails(w) \/ Complete(w) \/ MarkFailed(w)
         \/ CompleteFails(w) \/ TaskLost(w)
  PROVE  JobsInv'
  <1>1. ASSUME NEW r \in Report, Take(w, r) PROVE JobsInv'
    BY <1>1, TakeStep
  <1>6. ASSUME NEW r \in Report, Discard(w, r) PROVE JobsInv'
    BY <1>6, DiscardStep
  <1>2. CASE Compiled(w) \/ CompileFails(w)
    <2>1. worker[w] # Free
      BY <1>2 DEF Compiled, CompileFails, Moves, Free
    <2> QED BY <1>2, <2>1, GoesOnStep DEF Compiled, CompileFails, Moves
  <1>3. CASE Complete(w) \/ MarkFailed(w)
    <2>1. worker[w] # Free
      BY <1>3 DEF Complete, MarkFailed, Free
    <2>2. PICK outcome \in {"completed", "failed"} :
            /\ worker[w].at = IF outcome = "completed" THEN "complete" ELSE "fail"
            /\ update_status(w, outcome)
      BY <1>3 DEF Complete, MarkFailed
    <2>3. Stores(w, outcome) /\ worker' = [worker EXCEPT ![w] = Free]
      BY <2>2 DEF update_status
    <2> QED BY <2>1, <2>2, <2>3, LeavesStep DEF update_status
  <1>4. CASE CompleteFails(w)
    <2> DEFINE r == worker[w].report
               q == [worker[w] EXCEPT !.at = "fail", !.seen = row'[r]]
    <2>1. worker[w].at = "complete" /\ worker[w] # Free /\ worker[w] \in Task /\ r \in Report
      <3>1. worker[w].at = "complete" /\ worker[w] # Free
        BY <1>4 DEF CompleteFails, Free
      <3> QED BY <3>1, WorkerFields DEF JobsInv
    <2>2. Stores(w, "completed") \/ UNCHANGED <<row, content>>
      BY <1>4 DEF CompleteFails
    <2>3. row'[r] \in {"none", "pending", "completed", "failed"}
      <3>1. CASE Stores(w, "completed")
        BY <2>1, <3>1, StoresFields
      <3>2. CASE UNCHANGED row
        BY <2>1, <3>2 DEF JobsInv, JobsTypes
      <3> QED BY <2>2, <3>1, <3>2
    <2>4. q \in Task /\ q.report = r /\ q.seen = row'[r]
      BY <2>1, <2>3 DEF Task
    <2>5. worker' = [worker EXCEPT ![w] = q]
      BY <1>4 DEF CompleteFails, Moves, JobsInv, JobsTypes
    <2> HIDE DEF q
    <2>6. /\ UNCHANGED <<asked, queue, known, discarded, redelivered>>
          /\ hindered' = hindered \cup {worker[w].report}
      BY <1>4 DEF CompleteFails
    <2> QED BY <2>1, <2>2, <2>4, <2>5, <2>6, LeavesStep
  <1>5. CASE TaskLost(w)
    BY <1>5, LeavesStep DEF TaskLost
  <1> QED BY <1>1, <1>2, <1>3, <1>4, <1>5, <1>6

LEMMA JobsInitInv == JobsInit => JobsInv
  <1> SUFFICES ASSUME JobsInit PROVE JobsInv
    OBVIOUS
  <1>1. JobsTypes
    BY DEF JobsInit, JobsTypes, Over
  <1>2. \A r \in Report : Accounted(r)
    BY DEF JobsInit, Accounted, Over
  <1>3. \A r \in Report : StagesInv(r) /\ OnceInv(r)
    BY DEF JobsInit, StagesInv, OnceInv, Has, Over
  <1>4. \A w \in Worker : SeenInv(w)
    BY DEF JobsInit, SeenInv, Free
  <1> QED BY <1>1, <1>2, <1>3, <1>4, AccountedFor DEF JobsInv

LEMMA JobsNextInv == JobsInv /\ [JobsNext]_reports => JobsInv'
  <1> SUFFICES ASSUME JobsInv, [JobsNext]_reports PROVE JobsInv'
    OBVIOUS
  <1>1. ASSUME UNCHANGED reports PROVE JobsInv'
    BY <1>1 DEF reports, JobsInv, JobsTypes, StagesInv, OnceInv, SeenInv, Has,
                ReportsAreAccountedFor, Downloadable
  <1> QED BY <1>1, RequestStep, WorkerStep DEF JobsNext

(* Every report that was asked for is on its way, finished, or one of      *)
(* those that the broker, the database or a process failed or a worker     *)
(* without the task discarded, whatever the workers and the broker do at   *)
(* the same time; without a worker that knows the task none is compiled.   *)
THEOREM NoReportIsLost == JobsSpec => []ReportsAreAccountedFor
  <1>1. JobsInv => ReportsAreAccountedFor
    BY DEF JobsInv
  <1> QED BY <1>1, JobsInitInv, JobsNextInv, PTL DEF JobsSpec

-----------------------------------------------------------------------------
(* The desk of the alerts.                                                 *)
Job == [on : Alert, saw : AlertStatus, wish : AlertStatus \ {"new"}]

Between == [at : {"decided"}, total : Nat, crossed : SUBSET Alert]
Counted == [at : {"counted"}, total : Nat, crossed : SUBSET Alert, positives : Nat]

DeskTypes ==
  /\ status \in [Alert -> {"absent"} \cup AlertStatus]
  /\ clerk \in [Clerk -> {NoRequest} \cup Job]
  /\ viewer \in [Viewer -> {NoSummary} \cup Between \cup Counted]

(* The first count of a summary is the size of a set of alerts that were   *)
(* decided then; between the counts the decided ones differ from it by     *)
(* those that changed since.                                               *)
BetweenInv(v) ==
  viewer[v].at = "decided" =>
    \E D \in SUBSET Alert :
      /\ Cardinality(D) = viewer[v].total
      /\ \A a \in Alert \ viewer[v].crossed : status[a] \in Decided <=> a \in D

ShareInv(v) ==
  viewer[v].at = "counted" =>
    /\ viewer[v].positives <= viewer[v].total + Cardinality(viewer[v].crossed)
    /\ viewer[v].crossed = {} => detection_accuracy(viewer[v]) <= 100

DeskInv == /\ DeskTypes
           /\ \A v \in Viewer : BetweenInv(v) /\ ShareInv(v)

LEMMA ViewerFields ==
  ASSUME DeskTypes, NEW v \in Viewer
  PROVE  /\ viewer[v].at = "decided" => viewer[v] \in Between
         /\ viewer[v].at = "counted" => viewer[v] \in Counted
         /\ viewer[v] \in {NoSummary} \cup Between \cup Counted
  BY DEF DeskTypes, NoSummary, Between, Counted

(* A part of a sum is a share of it. *)
LEMMA ShareOfWhole ==
  ASSUME NEW s, s.total \in Nat, s.positives \in Nat, s.positives <= s.total
  PROVE  detection_accuracy(s) <= 100
  <1>1. CASE s.total = 0
    BY <1>1 DEF detection_accuracy
  <1>2. CASE s.total # 0
    <2> DEFINE p == s.positives
               t == s.total
               q == (100 * p) \div t
    <2>1. p \in Nat /\ t \in Nat /\ t > 0 /\ p <= t
      BY <1>2
    <2> HIDE DEF p, t
    <2>2. 100 * p \in Nat /\ 100 * p <= 100 * t
      BY <2>1
    <2>3. q \in Int /\ t * q <= 100 * p
      BY <2>1, <2>2
    <2> HIDE DEF q
    <2>4. t * q <= t * 100
      BY <2>1, <2>2, <2>3
    <2>5. q <= 100
      BY <2>1, <2>3, <2>4
    <2> QED BY <1>2, <2>5 DEF detection_accuracy, p, t, q
  <1> QED BY <1>1, <1>2

(* An alert whose row is written takes note of it in the summaries.        *)
LEMMA AnswerStep ==
  ASSUME DeskInv, NEW c \in Clerk, Answer(c)
  PROVE  DeskInv'
  <1> DEFINE a == clerk[c].on
  <1>1. /\ clerk[c] \in Job /\ a \in Alert
        /\ Written(clerk[c]) \in {"absent"} \cup AlertStatus
    <2>1. clerk[c] \in Job
      BY DEF Answer, DeskInv, DeskTypes
    <2>2. a \in Alert /\ clerk[c].wish \in AlertStatus
      BY <2>1 DEF Job
    <2>3. Written(clerk[c]) \in {"absent"} \cup AlertStatus
      BY <2>2 DEF Written, DeskInv, DeskTypes
    <2> QED BY <2>1, <2>2, <2>3
  <1>2. /\ status' = [status EXCEPT ![a] = Written(clerk[c])]
        /\ clerk' = [clerk EXCEPT ![c] = NoRequest]
        /\ viewer' = Noting(a)
    BY DEF Answer
  <1>3. /\ status' \in [Alert -> {"absent"} \cup AlertStatus]
        /\ clerk' \in [Clerk -> {NoRequest} \cup Job]
        /\ \A b \in Alert : b # a => status'[b] = status[b]
    BY <1>1, <1>2 DEF DeskInv, DeskTypes
  <1>4. \A v \in Viewer :
          viewer'[v] = IF viewer[v].at = "decided" /\ status'[a] # status[a]
                       THEN [viewer[v] EXCEPT !.crossed = @ \cup {a}] ELSE viewer[v]
    BY <1>2 DEF Noting
  <1>5. ASSUME NEW v \in Viewer
        PROVE  viewer'[v] \in {NoSummary} \cup Between \cup Counted /\ BetweenInv(v)' /\ ShareInv(v)'
    <2>1. CASE viewer[v].at = "decided"
      <3>1. viewer[v] \in Between
        BY <2>1, ViewerFields DEF DeskInv
      <3>2. /\ viewer'[v] \in Between
            /\ viewer'[v].total = viewer[v].total
            /\ viewer'[v].crossed = IF status'[a] # status[a] THEN viewer[v].crossed \cup {a}
                                    ELSE viewer[v].crossed
        <4>1. CASE status'[a] # status[a]
          <5>1. viewer'[v] = [viewer[v] EXCEPT !.crossed = @ \cup {a}]
            BY <1>4, <2>1, <4>1
          <5> QED BY <1>1, <3>1, <4>1, <5>1 DEF Between
        <4>2. CASE status'[a] = status[a]
          BY <1>4, <3>1, <4>2 DEF Between
        <4> QED BY <4>1, <4>2
      <3>3. PICK D \in SUBSET Alert :
              /\ Cardinality(D) = viewer[v].total
              /\ \A b \in Alert \ viewer[v].crossed : status[b] \in Decided <=> b \in D
        BY <2>1 DEF DeskInv, BetweenInv
      <3>4. \A b \in Alert \ viewer'[v].crossed : status'[b] \in Decided <=> b \in D
        BY <1>3, <3>2, <3>3
      <3>5. viewer'[v].at = "decided"
        BY <3>2 DEF Between
      <3> QED BY <3>2, <3>3, <3>4, <3>5 DEF BetweenInv, ShareInv
    <2>2. CASE viewer[v].at # "decided"
      <3>1. viewer'[v] = viewer[v]
        BY <1>4, <2>2
      <3> QED BY <2>2, <3>1, ViewerFields DEF DeskInv, BetweenInv, ShareInv
    <2> QED BY <2>1, <2>2
  <1>6. DeskTypes'
    BY <1>2, <1>3, <1>5 DEF DeskTypes, Noting
  <1> QED BY <1>5, <1>6 DEF DeskInv

(* The steps that write no row a summary has counted. *)
LEMMA DeskSteps ==
  ASSUME DeskInv,
         \/ \E a \in Alert : create(a)
         \/ \E c \in Clerk, a \in Alert : update_alert(c, a) \/ assign_alert(c, a)
         \/ UNCHANGED desk
  PROVE  DeskInv'
  <1>1. viewer' = viewer
    BY DEF create, update_alert, assign_alert, Load, desk
  <1>2. DeskTypes'
    <2>1. ASSUME NEW a \in Alert, create(a) PROVE DeskTypes'
      BY <2>1 DEF create, AlertStatus, DeskInv, DeskTypes
    <2>2. ASSUME NEW c \in Clerk, NEW a \in Alert, NEW wish \in AlertStatus \ {"new"}, Load(c, a, wish)
          PROVE  DeskTypes'
      <3> DEFINE q == [on |-> a, saw |-> status[a], wish |-> wish]
      <3>1. q \in Job
        BY <2>2 DEF Load, Job, DeskInv, DeskTypes
      <3>2. clerk' = [clerk EXCEPT ![c] = q] /\ UNCHANGED <<status, viewer>>
        BY <2>2 DEF Load
      <3> HIDE DEF q
      <3> QED BY <3>1, <3>2 DEF DeskInv, DeskTypes
    <2>3. ASSUME UNCHANGED desk PROVE DeskTypes'
      BY <2>3 DEF desk, DeskInv, DeskTypes
    <2>4. "investigating" \in AlertStatus \ {"new"}
      BY DEF AlertStatus
    <2> QED BY <2>1, <2>2, <2>3, <2>4 DEF update_alert, assign_alert
  <1>3. \A a \in Alert : status'[a] \in Decided <=> status[a] \in Decided
    BY DEF create, update_alert, assign_alert, Load, desk, Decided, DeskInv, DeskTypes
  <1>4. \A v \in Viewer : BetweenInv(v)' /\ ShareInv(v)'
    BY <1>1, <1>3 DEF DeskInv, BetweenInv, ShareInv
  <1> QED BY <1>2, <1>4 DEF DeskInv

(* The counts of a summary. *)
LEMMA SummaryStep ==
  ASSUME DeskInv, NEW v \in Viewer, CountDecided(v) \/ CountConfirmed(v) \/ Show(v)
  PROVE  DeskInv'
  <1>1. status' = status /\ clerk' = clerk
    BY DEF CountDecided, CountConfirmed, Show
  <1>2. viewer \in [Viewer -> {NoSummary} \cup Between \cup Counted]
    BY DEF DeskInv, DeskTypes
  <1>3. \A S \in SUBSET Alert : IsFiniteSet(S) /\ Cardinality(S) \in Nat
    BY DeskAssumption, FS_Subset, FS_CardinalityType
  <1>4. SUFFICES ASSUME NEW s \in {NoSummary} \cup Between \cup Counted,
                        viewer' = [viewer EXCEPT ![v] = s]
                 PROVE  BetweenInv(v)' /\ ShareInv(v)'
    <2>1. \E s : viewer' = [viewer EXCEPT ![v] = s] /\ s \in {NoSummary} \cup Between \cup Counted
      <3>1. CASE CountDecided(v)
        <4>1. {a \in Alert : status[a] \in Decided} \in SUBSET Alert
          OBVIOUS
        <4>2. [at |-> "decided", total |-> TotalResolved, crossed |-> {}] \in Between
          BY <1>3, <4>1 DEF Between, TotalResolved, Count
        <4> QED BY <3>1, <4>2 DEF CountDecided
      <3>2. CASE CountConfirmed(v)
        <4>1. {a \in Alert : status[a] \in {"resolved"}} \in SUBSET Alert
          OBVIOUS
        <4>2. viewer[v] \in Between
          BY <3>2, ViewerFields DEF CountConfirmed, DeskInv
        <4>3. [at |-> "counted", total |-> viewer[v].total, crossed |-> viewer[v].crossed,
               positives |-> TruePositives] \in Counted
          BY <1>3, <4>1, <4>2 DEF Between, Counted, TruePositives, Count
        <4> QED BY <1>2, <3>2, <4>3 DEF CountConfirmed
      <3>3. CASE Show(v)
        BY <3>3 DEF Show
      <3> QED BY <3>1, <3>2, <3>3
    <2>2. PICK s \in {NoSummary} \cup Between \cup Counted : viewer' = [viewer EXCEPT ![v] = s]
      BY <2>1
    <2>3. DeskTypes'
      BY <1>1, <1>2, <2>2 DEF DeskInv, DeskTypes
    <2>4. \A u \in Viewer : u # v => BetweenInv(u)' /\ ShareInv(u)'
      BY <1>1, <1>2, <2>2 DEF DeskInv, BetweenInv, ShareInv
    <2>5. BetweenInv(v)' /\ ShareInv(v)'
      BY <1>4, <2>2
    <2> QED BY <2>3, <2>4, <2>5 DEF DeskInv
  <1>5. viewer'[v] = s
    BY <1>2, <1>4
  <1>6. CASE CountDecided(v)
    <2> DEFINE D == {a \in Alert : status[a] \in Decided}
    <2>1. viewer'[v] = [at |-> "decided", total |-> Cardinality(D), crossed |-> {}]
      BY <1>2, <1>6 DEF CountDecided, TotalResolved, Count
    <2>2. D \in SUBSET Alert /\ \A a \in Alert : status'[a] \in Decided <=> a \in D
      BY <1>1
    <2>3. /\ viewer'[v].at = "decided" /\ viewer'[v].total = Cardinality(D)
          /\ viewer'[v].crossed = {}
      BY <2>1
    <2> QED BY <2>2, <2>3 DEF BetweenInv, ShareInv
  <1>7. CASE CountConfirmed(v)
    <2> DEFINE R == {a \in Alert : status[a] \in {"resolved"}}
               C == viewer[v].crossed
    <2>1. viewer[v] \in Between /\ viewer[v].at = "decided"
      BY <1>7, ViewerFields DEF CountConfirmed, DeskInv
    <2>2. viewer'[v] = [at |-> "counted", total |-> viewer[v].total, crossed |-> C,
                        positives |-> Cardinality(R)]
      BY <1>2, <1>7 DEF CountConfirmed, TruePositives, Count
    <2>3. /\ viewer'[v].at = "counted" /\ viewer'[v].total = viewer[v].total
          /\ viewer'[v].crossed = C /\ viewer'[v].positives = Cardinality(R)
      BY <2>2
    <2>4. PICK D \in SUBSET Alert :
            /\ Cardinality(D) = viewer[v].total
            /\ \A a \in Alert \ C : status[a] \in Decided <=> a \in D
      BY <2>1 DEF DeskInv, BetweenInv
    <2>5. R \in SUBSET Alert /\ C \in SUBSET Alert /\ R \subseteq D \cup C
      BY <2>1, <2>4 DEF Between, Decided
    <2>6. /\ IsFiniteSet(D) /\ IsFiniteSet(C) /\ IsFiniteSet(R)
          /\ Cardinality(D) \in Nat /\ Cardinality(C) \in Nat /\ Cardinality(R) \in Nat
      BY <1>3, <2>5
    <2> HIDE DEF R, C
    <2>7. Cardinality(R) <= Cardinality(D) + Cardinality(C)
      <3>1. IsFiniteSet(D \cup C) /\ Cardinality(D \cup C) = Cardinality(D) + Cardinality(C) - Cardinality(D \cap C)
        BY <2>6, FS_Union
      <3>2. Cardinality(R) <= Cardinality(D \cup C)
        BY <2>5, <3>1, FS_Subset
      <3>3. Cardinality(D \cap C) \in Nat
        BY <2>5, <1>3
      <3> QED BY <2>6, <3>1, <3>2, <3>3
    <2>8. C = {} => Cardinality(R) <= Cardinality(D)
      BY <2>5, <2>6, FS_Subset
    <2>9. C = {} => detection_accuracy(viewer'[v]) <= 100
      BY <2>3, <2>4, <2>6, <2>8, ShareOfWhole
    <2> QED BY <2>3, <2>4, <2>7, <2>9 DEF BetweenInv, ShareInv
  <1>8. CASE Show(v)
    <2>1. viewer'[v] = NoSummary
      BY <1>2, <1>8 DEF Show
    <2> QED BY <2>1 DEF BetweenInv, ShareInv, NoSummary
  <1> QED BY <1>6, <1>7, <1>8

LEMMA DeskInitInv == DeskInit => DeskInv
  BY DEF DeskInit, DeskInv, DeskTypes, BetweenInv, ShareInv, NoSummary, NoRequest

LEMMA DeskNextInv == DeskInv /\ [DeskNext]_desk => DeskInv'
  BY DeskSteps, AnswerStep, SummaryStep DEF DeskNext

(* The accuracy on the overview is a share, however the requests of the    *)
(* analysts fall between its two counts.                                   *)
THEOREM AccuracyIsBounded == DeskSpec => []AccuracyIsAShare
  <1>1. DeskInv => AccuracyIsAShare
    BY DEF DeskInv, ShareInv, AccuracyIsAShare
  <1> QED BY <1>1, DeskInitInv, DeskNextInv, PTL DEF DeskSpec

Reopens(a) ==
  status[a] \in Decided /\ status'[a] \notin Decided =>
    \E c \in Clerk : /\ clerk[c] # NoRequest /\ clerk'[c] = NoRequest
                     /\ clerk[c].on = a
                     /\ clerk[c].saw # "investigating"

LEMMA OnlyAnswersReopen == DeskInv /\ [DeskNext]_desk => \A a \in Alert : Reopens(a)
  <1> SUFFICES ASSUME DeskInv, [DeskNext]_desk, NEW a \in Alert,
                      status[a] \in Decided, status'[a] \notin Decided
               PROVE  \E c \in Clerk : /\ clerk[c] # NoRequest /\ clerk'[c] = NoRequest
                                       /\ clerk[c].on = a
                                       /\ clerk[c].saw # "investigating"
    BY DEF Reopens
  <1>1. status \in [Alert -> {"absent"} \cup AlertStatus]
    BY DEF DeskInv, DeskTypes
  <1>2. PICK c \in Clerk : Answer(c)
    BY <1>1 DEF DeskNext, create, update_alert, assign_alert, Load, CountDecided, CountConfirmed,
                Show, desk, Decided
  <1>3. clerk[c] \in Job /\ clerk[c] # NoRequest /\ clerk'[c] = NoRequest
    BY <1>2 DEF Answer, DeskInv, DeskTypes
  <1>4. clerk[c].on = a /\ Written(clerk[c]) = status'[a] /\ status'[a] # status[a]
    BY <1>1, <1>2 DEF Answer
  <1>5. clerk[c].wish \notin Decided /\ clerk[c].wish # clerk[c].saw
    BY <1>4 DEF Written
  <1>6. clerk[c].wish = "investigating"
    BY <1>3, <1>5 DEF Job, AlertStatus, Decided
  <1> QED BY <1>3, <1>4, <1>5, <1>6

(* A decision is undone by none but a request that had found the alert new *)
(* or decided.                                                             *)
THEOREM DecisionsStand == DeskSpec => DecisionStands
  <1> DEFINE Stands == \A a \in Alert :
               status[a] \in Decided /\ status'[a] \notin Decided =>
                 \E c \in Clerk : /\ clerk[c] # NoRequest /\ clerk'[c] = NoRequest
                                  /\ clerk[c].on = a
                                  /\ clerk[c].saw # "investigating"
  <1>1. DeskInv /\ [DeskNext]_desk => [Stands]_desk
    BY OnlyAnswersReopen DEF Reopens
  <1> QED BY <1>1, DeskInitInv, DeskNextInv, PTL DEF DeskSpec, DecisionStands

-----------------------------------------------------------------------------
(* Accounts.                                                               *)
Columns   == {"state", "failed", "lock", "password", "legacy"}
Counters  == [failed : Nat, lock : {"free", "held"}]
Zero      == Counter(NoRow)

(* The columns a handler will write, and of which types. *)
SetTypes(set) ==
  /\ DOMAIN set \subseteq Columns
  /\ "state" \in DOMAIN set => set["state"] \in {"active", "disabled"}
  /\ "failed" \in DOMAIN set => set["failed"] \in Nat
  /\ "lock" \in DOMAIN set => set["lock"] \in {"free", "held"}
  /\ "password" \in DOMAIN set => set["password"] \in Password
  /\ "legacy" \in DOMAIN set => set["legacy"] = FALSE

LocalTypes(q) ==
  /\ DOMAIN q = {"op", "user", "clear", "seen", "set"}
  /\ q.op \in Op /\ q.user \in User /\ q.clear \in BOOLEAN /\ q.seen \in Counters
  /\ SetTypes(q.set)

(* The counter a login computed its columns from. *)
Base(q) == IF q.clear THEN Zero ELSE q.seen

FailInv(q) ==
  q.op = "fail" =>
    /\ DOMAIN q.set \subseteq {"failed", "lock"} /\ Base(q).lock = "free"
    /\ "failed" \in DOMAIN q.set /\ q.set["failed"] = Base(q).failed + 1
    /\ "lock" \in DOMAIN q.set <=> Base(q).failed + 1 >= MaxFailures
    /\ "lock" \in DOMAIN q.set => q.set["lock"] = "held"

EnterInv(q) ==
  q.op = "enter" =>
    /\ DOMAIN q.set \subseteq {"failed", "password", "legacy"} /\ Base(q).lock = "free"
    /\ "failed" \in DOMAIN q.set <=> Base(q).failed # 0
    /\ "failed" \in DOMAIN q.set => q.set["failed"] = 0

UnlockInv(q) ==
  q.op = "unlock" =>
    /\ DOMAIN q.set \subseteq {"failed", "lock"}
    /\ "failed" \in DOMAIN q.set <=> q.seen.failed # 0
    /\ "lock" \in DOMAIN q.set <=> q.seen.lock # "free"
    /\ "failed" \in DOMAIN q.set => q.set["failed"] = 0
    /\ "lock" \in DOMAIN q.set => q.set["lock"] = "free"

PlainInv(q) ==
  /\ q.op = "create" => /\ DOMAIN q.set = Columns
                        /\ q.set["failed"] = 0 /\ q.set["lock"] = "free"
  /\ q.op \in {"change", "password"} => DOMAIN q.set = {"password", "legacy"}
  /\ q.op = "edit" => DOMAIN q.set \subseteq {"state"}
  /\ q.clear => q.op \in {"clear", "enter", "fail"}

(* What the handler of q may count on: its account is there, and while the *)
(* row still holds the hash of an older release nobody has changed it.     *)
RowInv(q) ==
  /\ q.op \notin {"idle", "create"} => account[q.user].state # "none"
  /\ q.op = "enter" /\ "password" \in DOMAIN q.set /\ account[q.user].legacy =>
       q.set["password"] = account[q.user].password

HandlerInv(q) ==
  LocalTypes(q) /\ FailInv(q) /\ EnterInv(q) /\ UnlockInv(q) /\ PlainInv(q) /\ RowInv(q)

NoneInv(u) == account[u].state = "none" => account[u].failed = 0 /\ account[u].lock = "free"

AccountsInv == /\ TypeOK /\ CounterIsExact /\ PasswordIsRecorded
               /\ request = [r \in Request |-> request[r]]
               /\ \A r \in Request : HandlerInv(request[r])
               /\ \A u \in User : NoneInv(u)

(* What an UPDATE leaves of the row it finds. *)
LEMMA FlushedRow ==
  ASSUME NEW old \in Row, NEW set, SetTypes(set)
  PROVE  LET new == Flushed(old, set)
         IN  /\ new \in Row
             /\ new.state = IF "state" \in DOMAIN set THEN set["state"] ELSE old.state
             /\ new.failed = IF "failed" \in DOMAIN set THEN set["failed"] ELSE old.failed
             /\ new.lock = IF "lock" \in DOMAIN set THEN set["lock"] ELSE old.lock
             /\ new.password = IF "password" \in DOMAIN set THEN set["password"] ELSE old.password
             /\ new.legacy = IF "legacy" \in DOMAIN set THEN FALSE ELSE old.legacy
  <1> DEFINE new == Flushed(old, set)
  <1>1. DOMAIN old = Columns
    BY DEF Row, Columns
  <1>2. new = [f \in Columns |-> IF f \in DOMAIN set THEN set[f] ELSE old[f]]
    BY <1>1 DEF Flushed
  <1>3. /\ new["state"] = IF "state" \in DOMAIN set THEN set["state"] ELSE old.state
        /\ new["failed"] = IF "failed" \in DOMAIN set THEN set["failed"] ELSE old.failed
        /\ new["lock"] = IF "lock" \in DOMAIN set THEN set["lock"] ELSE old.lock
        /\ new["password"] = IF "password" \in DOMAIN set THEN set["password"] ELSE old.password
        /\ new["legacy"] = IF "legacy" \in DOMAIN set THEN set["legacy"] ELSE old.legacy
    BY <1>2 DEF Columns
  <1>4. /\ new["state"] \in {"none", "active", "disabled"}
        /\ new["failed"] \in Nat /\ new["lock"] \in {"free", "held"}
        /\ new["password"] \in Password /\ new["legacy"] \in BOOLEAN
    BY <1>3 DEF SetTypes, Row
  <1>5. new \in Row
    <2>1. new = [f \in Columns |-> new[f]]
      BY <1>2
    <2> HIDE DEF new
    <2> QED BY <1>4, <2>1 DEF Columns, Row
  <1> QED BY <1>3, <1>5 DEF SetTypes

LEMMA AccountTypes ==
  ASSUME AccountsInv
  PROVE  /\ account \in [User -> Row] /\ lapsed \in [User -> BOOLEAN]
         /\ history \in [User -> Seq(Password)] /\ strikes \in [User -> Nat]
         /\ tangled \in [User -> BOOLEAN] /\ crossed \in [User -> BOOLEAN]
         /\ \A r \in Request : HandlerInv(request[r])
         /\ \A u \in User : account[u] \in Row /\ Counter(account[u]) \in Counters
         /\ Zero \in Counters /\ Zero.failed = 0 /\ Zero.lock = "free"
         /\ NoRow \in Row /\ MaxFailures \in Nat \ {0} /\ HistoryDepth \in Nat \ {0}
  <1>1. \A u \in User : account[u] \in Row /\ Counter(account[u]) \in Counters
    BY DEF AccountsInv, TypeOK, Row, Counter, Counters
  <1>2. NoRow \in Row /\ NoRow.failed = 0 /\ NoRow.lock = "free"
    BY AuthAssumption DEF NoRow, Row
  <1>3. Zero \in Counters /\ Zero.failed = 0 /\ Zero.lock = "free"
    BY <1>2 DEF Zero, Counter, Counters
  <1> QED BY <1>1, <1>2, <1>3, AuthAssumption DEF AccountsInv, TypeOK

(* A handler begins, or goes on, and the rows stay. *)
LEMMA HandlerChange ==
  ASSUME AccountsInv, NEW r \in Request, NEW q, HandlerInv(q),
         request' = [request EXCEPT ![r] = q], UNCHANGED <<rowVars, historyVars>>
  PROVE  AccountsInv'
  <1>1. /\ \A s \in Request : request'[s] = IF s = r THEN q ELSE request[s]
        /\ request' = [s \in Request |-> request'[s]]
    BY DEF AccountsInv
  <1>2. \A s \in Request : HandlerInv(request'[s])
    BY <1>1 DEF AccountsInv
  <1>3. account' = account /\ UNCHANGED <<lapsed, history, strikes, tangled, crossed>>
    BY DEF rowVars, historyVars
  <1>4. \A s \in Request : HandlerInv(request[s])'
    BY <1>2, <1>3 DEF HandlerInv, LocalTypes, SetTypes, FailInv, EnterInv, UnlockInv, PlainInv,
                      RowInv, Base
  <1>5. \A s \in Request : request'[s].op \in Op /\ request'[s].user \in User
    BY <1>2 DEF HandlerInv, LocalTypes
  <1>6. TypeOK' /\ CounterIsExact' /\ PasswordIsRecorded' /\ \A u \in User : NoneInv(u)'
    BY <1>3, <1>5 DEF AccountsInv, TypeOK, CounterIsExact, PasswordIsRecorded, NoneInv
  <1> QED BY <1>1, <1>4, <1>6 DEF AccountsInv

LEMMA IdleFields ==
  /\ DOMAIN Idle = {"op", "user", "clear", "seen", "set"}
  /\ Idle.op = "idle" /\ Idle.user = Admin /\ Idle.clear = FALSE
  /\ Idle.seen = Zero /\ DOMAIN Idle.set = {}
  <1>1. DOMAIN <<>> = {}
    BY EmptySeq
  <1> QED BY <1>1 DEF Idle, Zero

LEMMA IdleHandler == ASSUME AccountsInv PROVE HandlerInv(Idle)
  BY IdleFields, AccountTypes, AuthAssumption
  DEF HandlerInv, LocalTypes, SetTypes, FailInv, EnterInv, UnlockInv, PlainInv, RowInv, Op

(* The rows handlers compute. *)
LEMMA RowFields ==
  ASSUME NEW old \in Row
  PROVE  /\ Unlocked(old) \in Row /\ Unlocked(old) = [old EXCEPT !.failed = 0, !.lock = "free"]
         /\ Unlocked(old).failed = 0 /\ Unlocked(old).lock = "free"
         /\ Unlocked(old).state = old.state /\ Unlocked(old).password = old.password
         /\ Unlocked(old).legacy = old.legacy
         /\ Entered(old) \in Row
         /\ Entered(old).failed = 0 /\ Entered(old).lock = "free"
         /\ Entered(old).state = old.state /\ Entered(old).password = old.password
         /\ Entered(old).legacy = FALSE
         /\ Failed(old) \in Row /\ Failed(old).failed = old.failed + 1
         /\ Failed(old).lock = IF old.failed + 1 >= MaxFailures THEN "held" ELSE old.lock
         /\ Failed(old).state = old.state /\ Failed(old).password = old.password
         /\ Failed(old).legacy = old.legacy
         /\ DOMAIN old = Columns
  <1>1. /\ Unlocked(old) \in Row
        /\ Unlocked(old).failed = 0 /\ Unlocked(old).lock = "free"
        /\ Unlocked(old).state = old.state /\ Unlocked(old).password = old.password
        /\ Unlocked(old).legacy = old.legacy
    BY DEF Unlocked, Row
  <1>2. /\ Entered(old) \in Row
        /\ Entered(old).failed = 0 /\ Entered(old).lock = "free"
        /\ Entered(old).state = old.state /\ Entered(old).password = old.password
        /\ Entered(old).legacy = FALSE
    <2>1. ASSUME NEW mid \in Row
          PROVE  LET e == [mid EXCEPT !.legacy = FALSE]
                 IN  /\ e \in Row /\ e.failed = mid.failed /\ e.lock = mid.lock
                     /\ e.state = mid.state /\ e.password = mid.password /\ e.legacy = FALSE
      BY DEF Row
    <2> HIDE DEF Unlocked
    <2> QED BY <1>1, <2>1 DEF Entered
  <1>3. /\ Failed(old) \in Row /\ Failed(old).failed = old.failed + 1
        /\ Failed(old).lock = IF old.failed + 1 >= MaxFailures THEN "held" ELSE old.lock
        /\ Failed(old).state = old.state /\ Failed(old).password = old.password
        /\ Failed(old).legacy = old.legacy
    <2> DEFINE next == Failed(old)
               n    == old.failed + 1
               l    == IF old.failed + 1 >= MaxFailures THEN "held" ELSE old.lock
    <2>1. next = [f \in Columns |-> CASE f = "failed" -> n [] f = "lock" -> l [] OTHER -> old[f]]
      BY DEF Failed, Row, Columns
    <2>2. /\ next["failed"] = n /\ next["lock"] = l /\ next["state"] = old.state
          /\ next["password"] = old.password /\ next["legacy"] = old.legacy
      BY <2>1 DEF Columns
    <2>3. n \in Nat /\ l \in {"free", "held"}
      BY DEF Row
    <2>4. next = [f \in Columns |-> next[f]]
      BY <2>1
    <2>5. next \in Row
      <3> HIDE DEF next
      <3> QED BY <2>2, <2>3, <2>4 DEF Row, Columns
    <2> QED BY <2>2, <2>5
  <1>4. DOMAIN old = Columns
    BY DEF Row, Columns
  <1> QED BY <1>1, <1>2, <1>3, <1>4 DEF Unlocked

LEMMA NewRowFields ==
  ASSUME NEW p \in Password
  PROVE  /\ NewRow(p) \in Row /\ NewRow(p).state = "active" /\ NewRow(p).failed = 0
         /\ NewRow(p).lock = "free" /\ NewRow(p).password = p /\ NewRow(p).legacy = FALSE
         /\ NoRow \in Row /\ NoRow.state = "none" /\ NoRow.failed = 0 /\ NoRow.lock = "free"
         /\ NoRow.legacy = FALSE /\ DOMAIN NoRow = Columns
  <1>1. /\ NoRow \in Row /\ NoRow.state = "none" /\ NoRow.failed = 0 /\ NoRow.lock = "free"
        /\ NoRow.legacy = FALSE /\ DOMAIN NoRow = Columns
    BY AuthAssumption DEF NoRow, Row, Columns
  <1>2. ASSUME NEW mid \in Row
        PROVE  LET e == [mid EXCEPT !.state = "active", !.password = p]
               IN  /\ e \in Row /\ e.failed = mid.failed /\ e.lock = mid.lock
                   /\ e.state = "active" /\ e.password = p /\ e.legacy = mid.legacy
    BY DEF Row
  <1> HIDE DEF NoRow
  <1> QED BY <1>1, <1>2 DEF NewRow

(* A login leaves an account unlocked before it counts or resets. *)
LEMMA LoginBegins ==
  ASSUME AccountsInv, NEW r \in Request, NEW u \in User, NEW p \in Password,
         BeginLogin(r, u, p)
  PROVE  AccountsInv'
  <1> DEFINE old     == account[u]
             base    == IF old.lock = "held" THEN Unlocked(old) ELSE old
             right   == p = old.password
             new     == IF right THEN Entered(base) ELSE Failed(base)
             rehash  == IF right /\ base.legacy THEN {"password"} ELSE {}
             op      == IF old.state = "disabled" THEN "clear"
                        ELSE IF right THEN "enter" ELSE "fail"
             columns == IF op = "clear" THEN {} ELSE Changed(base, new) \cup rehash
             locals  == Writing(op, u, old, new, columns)
             q       == [locals EXCEPT !.clear = old.lock = "held"]
  <1>1. /\ old.state # "none" /\ Begin(r, q)
    BY DEF BeginLogin
  <1>2. old \in Row /\ Counter(old) \in Counters
    BY AccountTypes
  <1>3. /\ base \in Row /\ base.lock = "free" /\ base.legacy = old.legacy
        /\ base.password = old.password /\ base.state = old.state
        /\ old.lock = "held" => base.failed = 0
        /\ old.lock # "held" => base.failed = old.failed
        /\ DOMAIN base = Columns
    <2>1. CASE old.lock = "held"
      <3>1. base = Unlocked(old)
        BY <2>1
      <3> HIDE DEF base
      <3> QED BY <1>2, <2>1, <3>1, RowFields
    <2>2. CASE old.lock # "held"
      <3>1. base = old
        BY <2>2
      <3>2. old.lock \in {"free", "held"}
        BY <1>2 DEF Row
      <3> HIDE DEF base, old
      <3> QED BY <1>2, <2>2, <3>1, <3>2, RowFields
    <2> QED BY <2>1, <2>2
  <1>4. /\ right => /\ new \in Row /\ new.failed = 0 /\ new.lock = "free" /\ new.legacy = FALSE
        /\ ~right => /\ new \in Row /\ new.failed = base.failed + 1
                     /\ new.lock = IF base.failed + 1 >= MaxFailures THEN "held" ELSE "free"
                     /\ new.legacy = base.legacy
        /\ new.password = base.password /\ new.state = base.state
    <2> HIDE DEF base
    <2> QED BY <1>3, RowFields
  <1>5. /\ DOMAIN q = {"op", "user", "clear", "seen", "set"}
        /\ q.op = op /\ q.user = u /\ q.clear = (old.lock = "held") /\ q.seen = Counter(old)
        /\ DOMAIN q.set = columns /\ \A f \in columns : q.set[f] = new[f]
    <2>1. /\ DOMAIN locals = {"op", "user", "clear", "seen", "set"}
          /\ locals.op = op /\ locals.user = u /\ locals.seen = Counter(old)
          /\ DOMAIN locals.set = columns /\ \A f \in columns : locals.set[f] = new[f]
      <3>1. locals = Writing(op, u, old, new, columns)
        OBVIOUS
      <3> HIDE DEF old, op, new, columns, locals
      <3>2. /\ DOMAIN locals = {"op", "user", "clear", "seen", "set"}
            /\ locals.op = op /\ locals.user = u /\ locals.seen = Counter(old)
            /\ locals.set = [f \in columns |-> new[f]]
        BY <3>1, IdleFields DEF Writing
      <3> QED BY <3>2
    <2> HIDE DEF old, op, new, columns, locals
    <2> QED BY <2>1
  <1>6. \A f : f \in Changed(base, new) <=> f \in Columns /\ new[f] # base[f]
    BY <1>3 DEF Changed
  <1>7. /\ "state" \notin columns
        /\ "failed" \in columns <=> op # "clear" /\ new.failed # base.failed
        /\ "lock" \in columns <=> op # "clear" /\ new.lock # base.lock
        /\ "password" \in columns <=> op # "clear" /\ right /\ base.legacy
        /\ "legacy" \in columns <=> op # "clear" /\ new.legacy # base.legacy
        /\ columns \subseteq Columns
    <2>1. "state" \in Columns /\ "failed" \in Columns /\ "lock" \in Columns
          /\ "password" \in Columns /\ "legacy" \in Columns
      BY DEF Columns
    <2> HIDE DEF old, base, new, op, right
    <2> QED BY <1>4, <1>6, <2>1
  <1>8. Base(q).failed = base.failed /\ Base(q).lock = "free"
    <2>1. Zero.failed = 0 /\ Zero.lock = "free"
      BY AccountTypes
    <2>2. Counter(old).failed = old.failed /\ Counter(old).lock = old.lock
      BY DEF Counter
    <2>3. old.lock # "held" => old.lock = "free"
      BY <1>2 DEF Row
    <2> HIDE DEF old, base, q
    <2> QED BY <1>3, <1>5, <2>1, <2>2, <2>3 DEF Base
  <1>9. op \in {"clear", "enter", "fail"} /\ (op = "enter" => right) /\ (op = "fail" => ~right)
    OBVIOUS
  <1>10. base.failed \in Nat /\ new.failed \in Nat /\ new.lock \in {"free", "held"}
         /\ new.password \in Password /\ new.legacy \in BOOLEAN /\ base.legacy \in BOOLEAN
    BY <1>3, <1>4 DEF Row
  <1>11. SetTypes(q.set)
    <2>1. "legacy" \in columns => new.legacy = FALSE
      <3> HIDE DEF old, base, right, new, op, columns
      <3> QED BY <1>4, <1>7, <1>10
    <2> HIDE DEF old, base, new, op, columns, q
    <2> QED BY <1>5, <1>7, <1>10, <2>1 DEF SetTypes
  <1>12. LocalTypes(q)
    <2> HIDE DEF old, base, new, op, columns, q
    <2> QED BY <1>2, <1>5, <1>9, <1>11 DEF LocalTypes, Op
  <1>13. FailInv(q)
    <2> HIDE DEF old, base, right, new, op, columns, q
    <2> QED BY <1>4, <1>5, <1>7, <1>8, <1>9, <1>10, <1>3 DEF FailInv, Columns
  <1>14. EnterInv(q)
    <2> HIDE DEF old, base, right, new, op, columns, q
    <2> QED BY <1>4, <1>5, <1>7, <1>8, <1>9, <1>10, <1>3 DEF EnterInv, Columns
  <1>15. UnlockInv(q) /\ PlainInv(q)
    <2> HIDE DEF old, base, right, new, op, columns, q
    <2> QED BY <1>5, <1>9 DEF UnlockInv, PlainInv
  <1>16. RowInv(q)
    <2>1. old = account[u]
      OBVIOUS
    <2> HIDE DEF old, base, right, new, op, columns, q
    <2> QED BY <1>1, <1>3, <1>4, <1>5, <2>1 DEF RowInv
  <1>17. HandlerInv(q)
    BY <1>12, <1>13, <1>14, <1>15, <1>16 DEF HandlerInv
  <1> HIDE DEF q
  <1> QED BY <1>1, <1>17, HandlerChange DEF Begin

LEMMA CreateBegins ==
  ASSUME AccountsInv, NEW r \in Request, NEW u \in User, NEW p \in Password,
         BeginCreate(r, u, p)
  PROVE  AccountsInv'
  <1> DEFINE q == Writing("create", u, NoRow, NewRow(p), DOMAIN NoRow)
  <1>1. Begin(r, q)
    BY DEF BeginCreate
  <1>2. /\ DOMAIN q = {"op", "user", "clear", "seen", "set"}
        /\ q.op = "create" /\ q.user = u /\ q.clear = FALSE /\ q.seen = Zero
        /\ DOMAIN q.set = Columns /\ \A f \in Columns : q.set[f] = NewRow(p)[f]
    BY IdleFields, NewRowFields DEF Writing, Zero
  <1> HIDE DEF q
  <1>3. /\ q.set["state"] = "active" /\ q.set["failed"] = 0 /\ q.set["lock"] = "free"
        /\ q.set["password"] = p /\ q.set["legacy"] = FALSE
    BY <1>2, NewRowFields DEF Columns
  <1>4. HandlerInv(q)
    <2>1. SetTypes(q.set)
      BY <1>2, <1>3 DEF SetTypes, Columns
    <2>2. LocalTypes(q)
      BY <1>2, <1>3, <2>1, AccountTypes DEF LocalTypes, Op
    <2>3. FailInv(q) /\ EnterInv(q) /\ UnlockInv(q)
      BY <1>2, <1>3 DEF FailInv, EnterInv, UnlockInv
    <2>4. PlainInv(q) /\ RowInv(q)
      BY <1>2, <1>3 DEF PlainInv, RowInv
    <2> QED BY <2>1, <2>2, <2>3, <2>4 DEF HandlerInv
  <1> QED BY <1>1, <1>4, HandlerChange DEF Begin

LEMMA PasswordBegins ==
  ASSUME AccountsInv, NEW r \in Request, NEW u \in User, NEW p \in Password,
         NEW op \in {"change", "password"}, account[u].state # "none",
         Begin(r, NewPassword(op, u, p))
  PROVE  AccountsInv'
  <1> DEFINE q == NewPassword(op, u, p)
  <1>1. /\ DOMAIN q = {"op", "user", "clear", "seen", "set"}
        /\ q.op = op /\ q.user = u /\ q.clear = FALSE /\ q.seen = Zero
        /\ DOMAIN q.set = {"password", "legacy"}
        /\ q.set["password"] = p /\ q.set["legacy"] = FALSE
    BY IdleFields, NewRowFields DEF Writing, NewPassword, Zero
  <1>2. Begin(r, q)
    OBVIOUS
  <1> HIDE DEF q
  <1>3. HandlerInv(q)
    BY <1>1, AccountTypes
    DEF HandlerInv, LocalTypes, SetTypes, FailInv, EnterInv, UnlockInv, PlainInv, RowInv, Op,
        Columns
  <1> QED BY <1>2, <1>3, HandlerChange DEF Begin

LEMMA HistoryIsRead ==
  ASSUME AccountsInv, NEW r \in Request, CheckHistory(r)
  PROVE  AccountsInv'
  <1> DEFINE q == request[r]
             go == [q EXCEPT !.op = "password"]
  <1>1. HandlerInv(q) /\ q.op = "change" /\ HandlerInv(Idle)
    BY AccountTypes, IdleHandler DEF CheckHistory
  <1>2. /\ DOMAIN go = {"op", "user", "clear", "seen", "set"}
        /\ go.op = "password" /\ go.user = q.user /\ go.clear = q.clear /\ go.seen = q.seen
        /\ go.set = q.set
    <2> HIDE DEF q
    <2> QED BY <1>1 DEF HandlerInv, LocalTypes
  <1>3. HandlerInv(go)
    <2> HIDE DEF q, go
    <2> QED BY <1>1, <1>2
        DEF HandlerInv, LocalTypes, FailInv, EnterInv, UnlockInv, PlainInv, RowInv, Op
  <1>4. /\ request' = [request EXCEPT ![r] = Idle] \/ request' = [request EXCEPT ![r] = go]
        /\ UNCHANGED <<rowVars, historyVars>>
    BY DEF CheckHistory
  <1> HIDE DEF go
  <1> QED BY <1>1, <1>3, <1>4, HandlerChange

LEMMA UnlockBegins ==
  ASSUME AccountsInv, NEW r \in Request, NEW u \in User, admin_unlock_user(r, u)
  PROVE  AccountsInv'
  <1> DEFINE seen == Counter(account[u])
             set  == Changed(seen, Zero)
             q    == Writing("unlock", u, account[u], NoRow, set)
  <1>1. account[u].state # "none" /\ Begin(r, q)
    BY DEF admin_unlock_user, Zero
  <1>2. /\ DOMAIN q = {"op", "user", "clear", "seen", "set"}
        /\ q.op = "unlock" /\ q.user = u /\ q.clear = FALSE /\ q.seen = seen
        /\ DOMAIN q.set = set /\ \A f \in set : q.set[f] = NoRow[f]
    <2> HIDE DEF set
    <2> QED BY IdleFields DEF Writing
  <1>3. /\ seen \in Counters /\ Zero.failed = 0 /\ Zero.lock = "free"
        /\ NoRow.failed = 0 /\ NoRow.lock = "free"
    BY AccountTypes, NewRowFields, AuthAssumption
  <1> HIDE DEF q, seen
  <1>4. DOMAIN seen = {"failed", "lock"}
    BY <1>3 DEF Counters
  <1>5. /\ set \subseteq {"failed", "lock"}
        /\ "failed" \in set <=> seen.failed # 0
        /\ "lock" \in set <=> seen.lock # "free"
    BY <1>3, <1>4 DEF Changed
  <1> HIDE DEF set
  <1>6. HandlerInv(q)
    <2>1. SetTypes(q.set)
      BY <1>1, <1>2, <1>3, <1>5 DEF SetTypes, Columns
    <2>2. LocalTypes(q)
      BY <1>1, <1>2, <1>3, <1>5, <2>1, AccountTypes DEF LocalTypes, Op
    <2>3. FailInv(q) /\ EnterInv(q) /\ UnlockInv(q)
      BY <1>1, <1>2, <1>3, <1>5 DEF FailInv, EnterInv, UnlockInv
    <2>4. PlainInv(q) /\ RowInv(q)
      BY <1>1, <1>2, <1>3, <1>5 DEF PlainInv, RowInv
    <2> QED BY <2>1, <2>2, <2>3, <2>4 DEF HandlerInv
  <1> QED BY <1>1, <1>6, HandlerChange DEF Begin

LEMMA EditBegins ==
  ASSUME AccountsInv, NEW r \in Request, NEW u \in User, admin_edit_user(r, u)
  PROVE  AccountsInv'
  <1>1. PICK s \in {"active", "disabled"} :
          Begin(r, [Idle EXCEPT !.op = "edit", !.user = u,
                                !.set = IF s = account[u].state THEN <<>> ELSE [state |-> s]])
    BY DEF admin_edit_user
  <1> DEFINE set == IF s = account[u].state THEN <<>> ELSE [state |-> s]
             q   == [Idle EXCEPT !.op = "edit", !.user = u, !.set = set]
  <1>2. DOMAIN set \subseteq {"state"} /\ ("state" \in DOMAIN set => set["state"] = s)
    <2>1. DOMAIN <<>> = {}
      BY EmptySeq
    <2>2. DOMAIN [state |-> s] = {"state"} /\ [state |-> s]["state"] = s
      OBVIOUS
    <2> QED BY <2>1, <2>2
  <1>3. Begin(r, q) /\ account[u].state # "none"
    BY <1>1 DEF admin_edit_user
  <1>4. /\ DOMAIN q = {"op", "user", "clear", "seen", "set"}
        /\ q.op = "edit" /\ q.user = u /\ q.clear = FALSE /\ q.seen = Zero /\ q.set = set
    <2> HIDE DEF set
    <2> QED BY IdleFields
  <1> HIDE DEF q, set
  <1>5. HandlerInv(q)
    <2>1. SetTypes(q.set)
      BY <1>2, <1>3, <1>4 DEF SetTypes, Columns
    <2>2. LocalTypes(q)
      BY <1>2, <1>3, <1>4, <2>1, AccountTypes DEF LocalTypes, Op
    <2>3. FailInv(q) /\ EnterInv(q) /\ UnlockInv(q)
      BY <1>2, <1>3, <1>4 DEF FailInv, EnterInv, UnlockInv
    <2>4. PlainInv(q) /\ RowInv(q)
      BY <1>2, <1>3, <1>4 DEF PlainInv, RowInv
    <2> QED BY <2>1, <2>2, <2>3, <2>4 DEF HandlerInv
  <1> QED BY <1>3, <1>5, HandlerChange DEF Begin

(* What every commit keeps of a row that other handlers have read. *)
Kept(v) ==
  /\ account[v].state # "none" => account'[v].state # "none"
  /\ account'[v].legacy => account[v].legacy /\ account'[v].password = account[v].password

LEMMA HandlersGoOn ==
  ASSUME AccountsInv, request' = [s \in Request |-> request'[s]],
         \A s \in Request : HandlerInv(request'[s]), \A v \in User : Kept(v)
  PROVE  /\ (request = [s \in Request |-> request[s]])'
         /\ \A s \in Request : HandlerInv(request[s])'
         /\ \A s \in Request : request'[s].op \in Op /\ request'[s].user \in User
  <1>1. ASSUME NEW s \in Request
        PROVE  HandlerInv(request[s])' /\ request'[s].op \in Op /\ request'[s].user \in User
    <2>1. HandlerInv(request'[s]) /\ request'[s].user \in User /\ request'[s].op \in Op
      BY DEF HandlerInv, LocalTypes
    <2>2. RowInv(request[s])'
      BY <2>1 DEF HandlerInv, RowInv, Kept
    <2>3. LocalTypes(request[s])'
      BY <2>1 DEF HandlerInv, LocalTypes, SetTypes
    <2>4. FailInv(request[s])' /\ EnterInv(request[s])'
      BY <2>1 DEF HandlerInv, FailInv, EnterInv, Base
    <2>5. UnlockInv(request[s])' /\ PlainInv(request[s])'
      BY <2>1 DEF HandlerInv, UnlockInv, PlainInv
    <2> QED BY <2>1, <2>2, <2>3, <2>4, <2>5 DEF HandlerInv
  <1> QED BY <1>1

(* What the commit of the handler q leaves. *)
Updated(u, q, f) == IF f \in DOMAIN q.set THEN q.set[f] ELSE account[u][f]

Committed(u, q) ==
  /\ u \in User /\ HandlerInv(q) /\ account[u] \in Row /\ account'[u] \in Row
  /\ account' \in [User -> Row] /\ lapsed' \in [User -> BOOLEAN]
  /\ \A v \in User \ {u} : account'[v] = account[v]
  /\ account'[u].failed = Updated(u, q, "failed") /\ account'[u].lock = Updated(u, q, "lock")
  /\ account'[u].password = Updated(u, q, "password")
  /\ \A v \in User : NoneInv(v)'
  /\ (request = [s \in Request |-> request[s]])'
  /\ \A s \in Request : HandlerInv(request[s])'
  /\ \A s \in Request : request'[s].op \in Op /\ request'[s].user \in User

LEMMA CommitStep ==
  ASSUME AccountsInv, NEW r \in Request, CommitRow(r),
         request[r].op \notin {"idle", "clear", "change"}
  PROVE  Committed(request[r].user, request[r])
  <1> DEFINE u   == request[r].user
             q   == request[r]
             old == account[u]
             new == Flushed(old, q.set)
  <1>1. HandlerInv(q) /\ SetTypes(q.set) /\ u \in User
    BY AccountTypes DEF HandlerInv, LocalTypes
  <1>2. old \in Row /\ account \in [User -> Row] /\ lapsed \in [User -> BOOLEAN]
    BY <1>1, AccountTypes
  <1>3. /\ new \in Row
        /\ new.state = IF "state" \in DOMAIN q.set THEN q.set["state"] ELSE old.state
        /\ new.failed = IF "failed" \in DOMAIN q.set THEN q.set["failed"] ELSE old.failed
        /\ new.lock = IF "lock" \in DOMAIN q.set THEN q.set["lock"] ELSE old.lock
        /\ new.password = IF "password" \in DOMAIN q.set THEN q.set["password"] ELSE old.password
        /\ new.legacy = IF "legacy" \in DOMAIN q.set THEN FALSE ELSE old.legacy
    <2> HIDE DEF q, old
    <2> QED BY <1>1, <1>2, FlushedRow
  <1>4. /\ account' = [account EXCEPT ![u] = new]
        /\ lapsed' = [lapsed EXCEPT ![u] = @ /\ "lock" \notin DOMAIN q.set]
        /\ request' = [request EXCEPT ![r] = Idle]
    BY DEF CommitRow
  <1> DEFINE held == lapsed[u] /\ "lock" \notin DOMAIN q.set
  <1>5. account' \in [User -> Row] /\ account'[u] = new /\ \A v \in User \ {u} : account'[v] = account[v]
    <2> HIDE DEF new, u
    <2> QED BY <1>1, <1>2, <1>3, <1>4
  <1>6. lapsed' \in [User -> BOOLEAN]
    <2>1. held \in BOOLEAN /\ lapsed' = [lapsed EXCEPT ![u] = held]
      BY <1>4
    <2> HIDE DEF held, u
    <2> QED BY <1>1, <1>2, <2>1
  <1>7. /\ request' = [s \in Request |-> request'[s]]
        /\ \A s \in Request : request'[s] = IF s = r THEN Idle ELSE request[s]
    BY <1>4 DEF AccountsInv
  <1>8. \A s \in Request : HandlerInv(request'[s])
    BY <1>7, IdleHandler, AccountTypes
  <1>9. q.op \notin {"idle", "clear", "change"} /\ q.op \in Op
    BY <1>1 DEF HandlerInv, LocalTypes
  <1>10. new.state # "none"
    <2> HIDE DEF new, old
    <2> QED BY <1>1, <1>3, <1>9 DEF HandlerInv, RowInv, PlainInv, SetTypes, Columns, old
  <1>11. new.legacy => old.legacy /\ new.password = old.password
    <2>1. "password" \in DOMAIN q.set /\ "legacy" \notin DOMAIN q.set => q.op = "enter"
      BY <1>1, <1>9 DEF HandlerInv, FailInv, EnterInv, UnlockInv, PlainInv, Columns, Op
    <2>2. q.op = "enter" /\ "password" \in DOMAIN q.set /\ old.legacy => q.set["password"] = old.password
      BY <1>1 DEF HandlerInv, RowInv
    <2> HIDE DEF new, old, q
    <2> QED BY <1>3, <2>1, <2>2
  <1>12. \A v \in User : Kept(v)
    <2> HIDE DEF new, u
    <2> QED BY <1>5, <1>10, <1>11 DEF Kept
  <1>13. \A v \in User : NoneInv(v)'
    <2> HIDE DEF new, u
    <2> QED BY <1>5, <1>10 DEF NoneInv, AccountsInv
  <1>14. /\ (request = [s \in Request |-> request[s]])'
         /\ \A s \in Request : HandlerInv(request[s])'
         /\ \A s \in Request : request'[s].op \in Op /\ request'[s].user \in User
    BY <1>7, <1>8, <1>12, HandlersGoOn
  <1>15. account'[u].failed = Updated(u, q, "failed") /\ account'[u].lock = Updated(u, q, "lock")
         /\ account'[u].password = Updated(u, q, "password")
    <2> HIDE DEF new, u, q
    <2> QED BY <1>3, <1>5 DEF Updated
  <1> HIDE DEF new, u, q
  <1> QED BY <1>1, <1>2, <1>3, <1>5, <1>6, <1>13, <1>14, <1>15 DEF Committed, u, q

(* A row whose counter, lock and strikes stay keeps its exact counter, and *)
(* one whose password and history stay keeps its recorded password.        *)
LEMMA OthersStay ==
  ASSUME AccountsInv, NEW u \in User,
         \A v \in User \ {u} : /\ account'[v] = account[v] /\ history'[v] = history[v]
                               /\ strikes'[v] = strikes[v] /\ tangled'[v] = tangled[v]
                               /\ crossed'[v] = crossed[v],
         ~tangled'[u] => /\ account'[u].failed = strikes'[u]
                         /\ account'[u].lock = "held" <=> strikes'[u] >= MaxFailures,
         ~crossed'[u] /\ history'[u] # <<>> =>
           account'[u].password = history'[u][Len(history'[u])]
  PROVE  CounterIsExact' /\ PasswordIsRecorded'
  BY DEF AccountsInv, CounterIsExact, PasswordIsRecorded

(* The counter the handler read is still the row's. *)
LEMMA CleanReading ==
  ASSUME NEW r, CleanCount(r)
  PROVE  LET old == account[request[r].user]
         IN  request[r].seen.failed = old.failed /\ request[r].seen.lock = old.lock
  BY DEF CleanCount, Counter

(* A handler that starts the count again. *)
LEMMA ResetStep ==
  ASSUME AccountsInv, NEW r \in Request, Reset(r)
  PROVE  LET u == request[r].user
         IN  /\ strikes' \in [User -> Nat] /\ strikes'[u] = 0
             /\ tangled' \in [User -> BOOLEAN] /\ (~tangled'[u] => CleanCount(r))
             /\ \A v \in User \ {u} : strikes'[v] = strikes[v] /\ tangled'[v] = tangled[v]
  <1> DEFINE u == request[r].user
             t == ~CleanCount(r)
  <1>1. /\ strikes' = [strikes EXCEPT ![u] = 0] /\ tangled' = [tangled EXCEPT ![u] = t]
        /\ t \in BOOLEAN /\ (~t => CleanCount(r))
    BY DEF Reset
  <1>2. u \in User /\ strikes \in [User -> Nat] /\ tangled \in [User -> BOOLEAN]
    BY AccountTypes DEF HandlerInv, LocalTypes
  <1> HIDE DEF u, t
  <1>3. tangled' \in [User -> BOOLEAN] /\ tangled'[u] = t
    BY <1>1, <1>2
  <1>4. ~tangled'[u] => CleanCount(r)
    BY <1>1, <1>3, Zenon
  <1>5. /\ strikes' \in [User -> Nat] /\ strikes'[u] = 0
        /\ \A v \in User \ {u} : strikes'[v] = strikes[v] /\ tangled'[v] = tangled[v]
    BY <1>1, <1>2
  <1> QED BY <1>3, <1>4, <1>5 DEF u

LEMMA FailedLoginEnds ==
  ASSUME AccountsInv, NEW r \in Request, FinishFailedLogin(r)
  PROVE  AccountsInv'
  <1> DEFINE u == request[r].user
             q == request[r]
             t == tangled[u] \/ ~CleanCount(r)
  <1>1. /\ CommitRow(r) /\ q.op = "fail" /\ q.clear = FALSE
        /\ strikes' = [strikes EXCEPT ![u] = IF @ > MaxFailures THEN @ ELSE @ + 1]
        /\ tangled' = [tangled EXCEPT ![u] = t]
        /\ history' = history /\ crossed' = crossed
    BY AccountTypes DEF FinishFailedLogin, HandlerInv, LocalTypes
  <1>2. Committed(u, q)
    BY <1>1, CommitStep
  <1>3. /\ strikes \in [User -> Nat] /\ tangled \in [User -> BOOLEAN]
        /\ crossed \in [User -> BOOLEAN] /\ history \in [User -> Seq(Password)]
        /\ MaxFailures \in Nat \ {0}
    BY AccountTypes
  <1>4. /\ u \in User /\ account[u] \in Row /\ HandlerInv(q)
        /\ \A v \in User \ {u} : account'[v] = account[v]
    BY <1>2 DEF Committed
  <1>5. /\ strikes'[u] = IF strikes[u] > MaxFailures THEN strikes[u] ELSE strikes[u] + 1
        /\ strikes' \in [User -> Nat]
        /\ \A v \in User \ {u} : strikes'[v] = strikes[v] /\ tangled'[v] = tangled[v]
    <2> HIDE DEF u, t
    <2> QED BY <1>1, <1>3, <1>4
  <1>6. tangled' \in [User -> BOOLEAN] /\ (~tangled'[u] => ~tangled[u] /\ CleanCount(r))
    <2>1. t \in BOOLEAN /\ (~t => ~tangled[u] /\ CleanCount(r))
      OBVIOUS
    <2> HIDE DEF t, u
    <2>2. tangled' \in [User -> BOOLEAN] /\ tangled'[u] = t
      BY <1>1, <1>3, <1>4, <2>1
    <2> QED BY <2>1, <2>2, Zenon
  <1>7. ASSUME ~tangled'[u]
        PROVE  /\ account'[u].failed = strikes'[u]
               /\ account'[u].lock = "held" <=> strikes'[u] >= MaxFailures
    <2>1. ~tangled[u] /\ q.seen.failed = account[u].failed /\ q.seen.lock = account[u].lock
      BY <1>6, <1>7, CleanReading
    <2>2. /\ account[u].failed = strikes[u]
          /\ account[u].lock = "held" <=> strikes[u] >= MaxFailures
      BY <2>1, <1>4 DEF AccountsInv, CounterIsExact
    <2>3. /\ q.seen.lock = "free"
          /\ "failed" \in DOMAIN q.set /\ q.set["failed"] = q.seen.failed + 1
          /\ "lock" \in DOMAIN q.set <=> q.seen.failed + 1 >= MaxFailures
          /\ "lock" \in DOMAIN q.set => q.set["lock"] = "held"
      BY <1>1, <1>4 DEF HandlerInv, FailInv, Base
    <2>4. /\ account'[u].failed = strikes[u] + 1
          /\ account'[u].lock = IF strikes[u] + 1 >= MaxFailures THEN "held" ELSE "free"
      <3> HIDE DEF u, q
      <3> QED BY <1>2, <2>1, <2>2, <2>3 DEF Committed, Updated
    <2>5. strikes[u] \in Nat /\ strikes[u] < MaxFailures
      BY <1>3, <1>4, <2>1, <2>2, <2>3
    <2> HIDE DEF u
    <2> QED BY <1>3, <1>5, <2>4, <2>5
  <1>8. account'[u].password = account[u].password
    <2>1. "password" \notin DOMAIN q.set
      BY <1>1, <1>4 DEF HandlerInv, FailInv
    <2> HIDE DEF u, q
    <2> QED BY <1>2, <2>1 DEF Committed, Updated
  <1>9. ~crossed'[u] /\ history'[u] # <<>> => account'[u].password = history'[u][Len(history'[u])]
    BY <1>1, <1>4, <1>8 DEF AccountsInv, PasswordIsRecorded
  <1>10. CounterIsExact' /\ PasswordIsRecorded'
    BY <1>1, <1>4, <1>5, <1>7, <1>9, OthersStay
  <1>11. TypeOK'
    BY <1>1, <1>2, <1>3, <1>5, <1>6 DEF TypeOK, Committed
  <1> QED BY <1>2, <1>10, <1>11 DEF AccountsInv, Committed

LEMMA LoginEnds ==
  ASSUME AccountsInv, NEW r \in Request, FinishLogin(r)
  PROVE  AccountsInv'
  <1> DEFINE u == request[r].user
             q == request[r]
             c == crossed[u] \/ ("password" \in DOMAIN q.set /\ ~account[u].legacy)
  <1>1. /\ CommitRow(r) /\ q.op = "enter" /\ q.clear = FALSE /\ Reset(r)
        /\ crossed' = [crossed EXCEPT ![u] = c] /\ history' = history
    BY AccountTypes DEF FinishLogin, HandlerInv, LocalTypes
  <1>2. Committed(u, q)
    BY <1>1, CommitStep
  <1>3. /\ crossed \in [User -> BOOLEAN] /\ history \in [User -> Seq(Password)]
        /\ MaxFailures \in Nat \ {0}
    BY AccountTypes
  <1>4. /\ u \in User /\ account[u] \in Row /\ HandlerInv(q)
        /\ \A v \in User \ {u} : account'[v] = account[v]
    BY <1>2 DEF Committed
  <1>5. /\ strikes' \in [User -> Nat] /\ strikes'[u] = 0
        /\ tangled' \in [User -> BOOLEAN] /\ (~tangled'[u] => CleanCount(r))
        /\ \A v \in User \ {u} : strikes'[v] = strikes[v] /\ tangled'[v] = tangled[v]
    BY <1>1, ResetStep
  <1>6. /\ crossed' \in [User -> BOOLEAN] /\ \A v \in User \ {u} : crossed'[v] = crossed[v]
        /\ ~crossed'[u] => /\ ~crossed[u]
                           /\ "password" \in DOMAIN q.set => account[u].legacy
    <2>1. /\ c \in BOOLEAN
          /\ ~c => ~crossed[u] /\ ("password" \in DOMAIN q.set => account[u].legacy)
      OBVIOUS
    <2> HIDE DEF c, u, q
    <2>2. /\ crossed' \in [User -> BOOLEAN] /\ crossed'[u] = c
          /\ \A v \in User \ {u} : crossed'[v] = crossed[v]
      BY <1>1, <1>3, <1>4, <2>1
    <2> QED BY <2>1, <2>2, Zenon
  <1>7. ASSUME ~tangled'[u]
        PROVE  /\ account'[u].failed = strikes'[u]
               /\ account'[u].lock = "held" <=> strikes'[u] >= MaxFailures
    <2>1. q.seen.failed = account[u].failed /\ q.seen.lock = account[u].lock
      BY <1>5, <1>7, CleanReading
    <2>2. /\ q.seen.lock = "free" /\ "lock" \notin DOMAIN q.set
          /\ "failed" \in DOMAIN q.set <=> q.seen.failed # 0
          /\ "failed" \in DOMAIN q.set => q.set["failed"] = 0
      BY <1>1, <1>4 DEF HandlerInv, EnterInv, Base
    <2>3. account'[u].failed = 0 /\ account'[u].lock = "free"
      <3> HIDE DEF u, q
      <3> QED BY <1>2, <2>1, <2>2 DEF Committed, Updated
    <2> HIDE DEF u
    <2> QED BY <1>3, <1>5, <2>3
  <1>8. ~crossed'[u] => account'[u].password = account[u].password
    <2>1. "password" \in DOMAIN q.set /\ account[u].legacy => q.set["password"] = account[u].password
      BY <1>1, <1>4 DEF HandlerInv, RowInv
    <2> HIDE DEF u, q
    <2> QED BY <1>2, <1>6, <2>1 DEF Committed, Updated
  <1>9. ~crossed'[u] /\ history'[u] # <<>> => account'[u].password = history'[u][Len(history'[u])]
    BY <1>1, <1>4, <1>6, <1>8 DEF AccountsInv, PasswordIsRecorded
  <1>10. CounterIsExact' /\ PasswordIsRecorded'
    BY <1>1, <1>4, <1>5, <1>6, <1>7, <1>9, OthersStay
  <1>11. TypeOK'
    BY <1>1, <1>2, <1>3, <1>5, <1>6 DEF TypeOK, Committed
  <1> QED BY <1>2, <1>10, <1>11 DEF AccountsInv, Committed

LEMMA UnlockEnds ==
  ASSUME AccountsInv, NEW r \in Request, FinishUnlock(r)
  PROVE  AccountsInv'
  <1> DEFINE u == request[r].user
             q == request[r]
  <1>1. /\ CommitRow(r) /\ q.op = "unlock" /\ Reset(r) /\ history' = history /\ crossed' = crossed
    BY DEF FinishUnlock
  <1>2. Committed(u, q)
    BY <1>1, CommitStep
  <1>3. /\ crossed \in [User -> BOOLEAN] /\ history \in [User -> Seq(Password)]
        /\ MaxFailures \in Nat \ {0}
    BY AccountTypes
  <1>4. /\ u \in User /\ account[u] \in Row /\ HandlerInv(q)
        /\ \A v \in User \ {u} : account'[v] = account[v]
    BY <1>2 DEF Committed
  <1>5. /\ strikes' \in [User -> Nat] /\ strikes'[u] = 0
        /\ tangled' \in [User -> BOOLEAN] /\ (~tangled'[u] => CleanCount(r))
        /\ \A v \in User \ {u} : strikes'[v] = strikes[v] /\ tangled'[v] = tangled[v]
    BY <1>1, ResetStep
  <1>6. /\ "password" \notin DOMAIN q.set
        /\ "failed" \in DOMAIN q.set <=> q.seen.failed # 0
        /\ "lock" \in DOMAIN q.set <=> q.seen.lock # "free"
        /\ "failed" \in DOMAIN q.set => q.set["failed"] = 0
        /\ "lock" \in DOMAIN q.set => q.set["lock"] = "free"
    BY <1>1, <1>4 DEF HandlerInv, UnlockInv
  <1>7. ASSUME ~tangled'[u]
        PROVE  /\ account'[u].failed = strikes'[u]
               /\ account'[u].lock = "held" <=> strikes'[u] >= MaxFailures
    <2>1. q.seen.failed = account[u].failed /\ q.seen.lock = account[u].lock
      BY <1>5, <1>7, CleanReading
    <2>2. account'[u].failed = 0 /\ account'[u].lock = "free"
      <3> HIDE DEF u, q
      <3> QED BY <1>2, <1>6, <2>1 DEF Committed, Updated
    <2> HIDE DEF u
    <2> QED BY <1>3, <1>5, <2>2
  <1>8. account'[u].password = account[u].password
    <2> HIDE DEF u, q
    <2> QED BY <1>2, <1>6 DEF Committed, Updated
  <1>9. ~crossed'[u] /\ history'[u] # <<>> => account'[u].password = history'[u][Len(history'[u])]
    BY <1>1, <1>4, <1>8 DEF AccountsInv, PasswordIsRecorded
  <1>10. CounterIsExact' /\ PasswordIsRecorded'
    BY <1>1, <1>4, <1>5, <1>7, <1>9, OthersStay
  <1>11. TypeOK'
    BY <1>1, <1>2, <1>3, <1>5 DEF TypeOK, Committed
  <1> QED BY <1>2, <1>10, <1>11 DEF AccountsInv, Committed

LEMMA EditEnds ==
  ASSUME AccountsInv, NEW r \in Request, FinishEdit(r)
  PROVE  AccountsInv'
  <1> DEFINE u == request[r].user
             q == request[r]
  <1>1. CommitRow(r) /\ q.op = "edit" /\ UNCHANGED <<history, strikes, tangled, crossed>>
    BY DEF FinishEdit, historyVars
  <1>2. Committed(u, q)
    BY <1>1, CommitStep
  <1>3. /\ u \in User /\ HandlerInv(q) /\ \A v \in User \ {u} : account'[v] = account[v]
    BY <1>2 DEF Committed
  <1>4. "password" \notin DOMAIN q.set /\ "failed" \notin DOMAIN q.set /\ "lock" \notin DOMAIN q.set
    BY <1>1, <1>3 DEF HandlerInv, PlainInv
  <1>5. /\ account'[u].failed = account[u].failed /\ account'[u].lock = account[u].lock
        /\ account'[u].password = account[u].password
    <2> HIDE DEF u, q
    <2> QED BY <1>2, <1>4 DEF Committed, Updated
  <1>6. CounterIsExact' /\ PasswordIsRecorded'
    BY <1>1, <1>3, <1>5 DEF AccountsInv, CounterIsExact, PasswordIsRecorded
  <1>7. TypeOK'
    BY <1>1, <1>2, AccountTypes DEF TypeOK, Committed
  <1> QED BY <1>2, <1>6, <1>7 DEF AccountsInv, Committed

(* The newest entry of a history is the password recorded last. *)
LEMMA RecordedLast ==
  ASSUME NEW rows \in Seq(Password), NEW p \in Password, HistoryDepth \in Nat \ {0}
  PROVE  /\ Recorded(rows, p) \in Seq(Password)
         /\ Recorded(rows, p)[Len(Recorded(rows, p))] = p
  <1> DEFINE all == Append(rows, p)
  <1>1. /\ all \in Seq(Password) /\ Len(all) = Len(rows) + 1 /\ all[Len(all)] = p
        /\ Len(rows) \in Nat
    BY AppendProperties, LenProperties
  <1>2. CASE Len(all) > HistoryDepth
    <2>1. all # <<>> /\ Len(all) \in Nat /\ Len(all) >= 2
      BY <1>1, <1>2, EmptySeq
    <2> HIDE DEF all
    <2>2. /\ Tail(all) \in Seq(Password) /\ Len(Tail(all)) = Len(all) - 1
          /\ \A i \in 1..Len(Tail(all)) : Tail(all)[i] = all[i + 1]
      BY <1>1, <2>1, HeadTailProperties
    <2>3. Tail(all)[Len(Tail(all))] = all[Len(all)]
      BY <2>1, <2>2
    <2> QED BY <1>1, <1>2, <2>2, <2>3 DEF Recorded, all
  <1>3. CASE ~(Len(all) > HistoryDepth)
    BY <1>1, <1>3 DEF Recorded
  <1> QED BY <1>2, <1>3

LEMMA PasswordEnds ==
  ASSUME AccountsInv, NEW r \in Request, FinishPassword(r)
  PROVE  AccountsInv'
  <1> DEFINE u == request[r].user
             q == request[r]
             p == q.set["password"]
             rows == Recorded(history[u], p)
  <1>1. /\ CommitRow(r) /\ q.op = "password" /\ UNCHANGED <<strikes, tangled>>
        /\ history' = [history EXCEPT ![u] = rows] /\ crossed' = [crossed EXCEPT ![u] = FALSE]
    BY DEF FinishPassword
  <1>2. Committed(u, q)
    BY <1>1, CommitStep
  <1>3. u \in User /\ HandlerInv(q) /\ \A v \in User \ {u} : account'[v] = account[v]
    BY <1>2 DEF Committed
  <1>4. DOMAIN q.set = {"password", "legacy"} /\ p \in Password
    BY <1>1, <1>3 DEF HandlerInv, PlainInv, LocalTypes, SetTypes
  <1>5. /\ account'[u].failed = account[u].failed /\ account'[u].lock = account[u].lock
        /\ account'[u].password = p
    <2>1. /\ "failed" \notin DOMAIN q.set /\ "lock" \notin DOMAIN q.set
          /\ "password" \in DOMAIN q.set
      BY <1>4
    <2> HIDE DEF u, q
    <2> QED BY <1>2, <2>1 DEF Committed, Updated
  <1>6. /\ crossed \in [User -> BOOLEAN] /\ history \in [User -> Seq(Password)]
        /\ HistoryDepth \in Nat \ {0}
    BY AccountTypes
  <1>7. rows \in Seq(Password) /\ rows[Len(rows)] = p
    <2> HIDE DEF p, u
    <2> QED BY <1>3, <1>4, <1>6, RecordedLast
  <1>8. /\ history' \in [User -> Seq(Password)] /\ history'[u] = rows
        /\ crossed' \in [User -> BOOLEAN]
        /\ \A v \in User \ {u} : history'[v] = history[v] /\ crossed'[v] = crossed[v]
    <2> HIDE DEF rows, u
    <2> QED BY <1>1, <1>3, <1>6, <1>7
  <1>9. CounterIsExact' /\ PasswordIsRecorded'
    <2> HIDE DEF rows, p
    <2>1. ~tangled'[u] => /\ account'[u].failed = strikes'[u]
                          /\ account'[u].lock = "held" <=> strikes'[u] >= MaxFailures
      BY <1>1, <1>3, <1>5 DEF AccountsInv, CounterIsExact
    <2>2. account'[u].password = history'[u][Len(history'[u])]
      BY <1>5, <1>7, <1>8
    <2>3. \A v \in User \ {u} : /\ account'[v] = account[v] /\ history'[v] = history[v]
                                /\ strikes'[v] = strikes[v] /\ tangled'[v] = tangled[v]
                                /\ crossed'[v] = crossed[v]
      <3> HIDE DEF u, q
      <3> QED BY <1>1, <1>3, <1>8
    <2> HIDE DEF u, q
    <2> QED BY <1>3, <2>1, <2>2, <2>3, OthersStay
  <1>10. TypeOK'
    BY <1>1, <1>2, <1>8, AccountTypes DEF TypeOK, Committed
  <1> QED BY <1>2, <1>9, <1>10 DEF AccountsInv, Committed

LEMMA CreateEnds ==
  ASSUME AccountsInv, NEW r \in Request, FinishCreate(r)
  PROVE  AccountsInv'
  <1> DEFINE u == request[r].user
             q == request[r]
             p == q.set["password"]
  <1>1. q.op = "create" /\ UNCHANGED <<strikes, tangled, crossed>>
    BY DEF FinishCreate, historyVars
  <1>2. CASE account[u].state # "none"
    <2>1. request' = [request EXCEPT ![r] = Idle] /\ UNCHANGED <<rowVars, historyVars>>
      BY <1>2 DEF FinishCreate
    <2> QED BY <2>1, IdleHandler, HandlerChange
  <1>3. CASE account[u].state = "none"
    <2>1. CommitRow(r) /\ history' = [history EXCEPT ![u] = <<p>>]
      BY <1>3 DEF FinishCreate
    <2>2. Committed(u, q)
      BY <1>1, <2>1, CommitStep
    <2>3. u \in User /\ HandlerInv(q) /\ \A v \in User \ {u} : account'[v] = account[v]
      BY <2>2 DEF Committed
    <2>4. /\ DOMAIN q.set = Columns /\ p \in Password /\ q.set["failed"] = 0 /\ q.set["lock"] = "free"
      BY <1>1, <2>3 DEF HandlerInv, PlainInv, LocalTypes, SetTypes, Columns
    <2>5. account'[u].failed = 0 /\ account'[u].lock = "free" /\ account'[u].password = p
      <3>1. /\ "failed" \in DOMAIN q.set /\ "lock" \in DOMAIN q.set
            /\ "password" \in DOMAIN q.set
        BY <2>4 DEF Columns
      <3> HIDE DEF u, q
      <3> QED BY <2>2, <2>4, <3>1 DEF Committed, Updated
    <2>6. account[u].failed = 0 /\ account[u].lock = "free"
      BY <1>3, <2>3 DEF AccountsInv, NoneInv
    <2>7. history \in [User -> Seq(Password)] /\ <<p>> \in Seq(Password)
          /\ <<p>>[Len(<<p>>)] = p
      BY <2>4, AccountTypes
    <2>8. /\ history' \in [User -> Seq(Password)] /\ history'[u] = <<p>>
          /\ \A v \in User \ {u} : history'[v] = history[v]
      <3> HIDE DEF p, u
      <3> QED BY <2>1, <2>3, <2>7
    <2>9. CounterIsExact' /\ PasswordIsRecorded'
      <3>1. ~tangled'[u] => /\ account'[u].failed = strikes'[u]
                            /\ account'[u].lock = "held" <=> strikes'[u] >= MaxFailures
        BY <1>1, <2>3, <2>5, <2>6 DEF AccountsInv, CounterIsExact
      <3>2. account'[u].password = history'[u][Len(history'[u])]
        BY <2>5, <2>7, <2>8
      <3>3. \A v \in User \ {u} : /\ account'[v] = account[v] /\ history'[v] = history[v]
                                  /\ strikes'[v] = strikes[v] /\ tangled'[v] = tangled[v]
                                  /\ crossed'[v] = crossed[v]
        <4> HIDE DEF u, q, p
        <4> QED BY <1>1, <2>3, <2>8
      <3> HIDE DEF u, q, p
      <3> QED BY <2>3, <3>1, <3>2, <3>3, OthersStay
    <2>10. TypeOK'
      BY <1>1, <2>2, <2>8, AccountTypes DEF TypeOK, Committed
    <2> QED BY <2>2, <2>9, <2>10 DEF AccountsInv, Committed
  <1> QED BY <1>2, <1>3

(* A login that found an expired lock clears it before it goes on. *)
LEMMA LockIsCleared ==
  ASSUME AccountsInv, NEW r \in Request, ClearLock(r)
  PROVE  AccountsInv'
  <1> DEFINE u    == request[r].user
             q    == request[r]
             old  == account[u]
             cols == Changed(q.seen, Zero)
             set  == [f \in cols |-> NoRow[f]]
             new  == Flushed(old, set)
             on   == [q EXCEPT !.clear = FALSE, !.seen = Zero]
             next == IF q.op = "clear" THEN Idle ELSE on
  <1>1. /\ q.clear /\ Reset(r)
        /\ account' = [account EXCEPT ![u] = new] /\ lapsed' = [lapsed EXCEPT ![u] = FALSE]
        /\ request' = [request EXCEPT ![r] = next]
        /\ history' = history /\ crossed' = crossed
    BY DEF ClearLock, Zero
  <1>2. HandlerInv(q) /\ u \in User /\ q.seen \in Counters /\ q.op \in {"clear", "enter", "fail"}
    BY <1>1, AccountTypes DEF HandlerInv, LocalTypes, PlainInv
  <1>3. /\ old \in Row /\ account \in [User -> Row] /\ lapsed \in [User -> BOOLEAN]
        /\ history \in [User -> Seq(Password)] /\ crossed \in [User -> BOOLEAN]
        /\ Zero \in Counters /\ Zero.failed = 0 /\ Zero.lock = "free"
        /\ NoRow.failed = 0 /\ NoRow.lock = "free" /\ MaxFailures \in Nat \ {0}
    BY <1>2, AccountTypes, NewRowFields, AuthAssumption
  <1>4. /\ cols \subseteq {"failed", "lock"}
        /\ "failed" \in cols <=> q.seen.failed # 0
        /\ "lock" \in cols <=> q.seen.lock # "free"
    <2>1. DOMAIN q.seen = {"failed", "lock"}
      BY <1>2 DEF Counters
    <2> HIDE DEF q
    <2> QED BY <1>3, <2>1 DEF Changed
  <1>5. /\ DOMAIN set = cols
        /\ "failed" \in cols => set["failed"] = 0
        /\ "lock" \in cols => set["lock"] = "free"
    <2> HIDE DEF cols
    <2> QED BY <1>3
  <1>6. SetTypes(set)
    <2> HIDE DEF cols, set
    <2> QED BY <1>4, <1>5 DEF SetTypes, Columns
  <1>7. /\ new \in Row /\ new.state = old.state
        /\ new.failed = IF "failed" \in cols THEN 0 ELSE old.failed
        /\ new.lock = IF "lock" \in cols THEN "free" ELSE old.lock
        /\ new.password = old.password /\ new.legacy = old.legacy
    <2>1. /\ "state" \notin DOMAIN set /\ "password" \notin DOMAIN set
          /\ "legacy" \notin DOMAIN set
      BY <1>4, <1>5
    <2> HIDE DEF set, old, cols
    <2> QED BY <1>3, <1>5, <1>6, <2>1, FlushedRow
  <1>8. account' \in [User -> Row] /\ account'[u] = new /\ \A v \in User \ {u} : account'[v] = account[v]
    <2> HIDE DEF new, u
    <2> QED BY <1>1, <1>2, <1>3, <1>7
  <1>9. lapsed' \in [User -> BOOLEAN]
    <2> HIDE DEF u
    <2> QED BY <1>1, <1>2, <1>3
  <1>10. HandlerInv(next)
    <2>1. /\ DOMAIN on = {"op", "user", "clear", "seen", "set"}
          /\ on.op = q.op /\ on.user = u /\ on.clear = FALSE /\ on.seen = Zero /\ on.set = q.set
      <3>1. DOMAIN q = {"op", "user", "clear", "seen", "set"} /\ u = q.user
        BY <1>2 DEF HandlerInv, LocalTypes
      <3> HIDE DEF q, u
      <3> QED BY <3>1
    <2>2. Base(on) = Base(q)
      <3> HIDE DEF on, q
      <3> QED BY <1>1, <2>1 DEF Base
    <2>3. q.op # "clear" => HandlerInv(on)
      <3> HIDE DEF on
      <3>1. LocalTypes(on)
        BY <1>2, <1>3, <2>1 DEF HandlerInv, LocalTypes
      <3>2. FailInv(on) /\ EnterInv(on)
        BY <1>2, <2>1, <2>2 DEF HandlerInv, FailInv, EnterInv
      <3>3. UnlockInv(on) /\ PlainInv(on) /\ RowInv(on)
        BY <1>2, <2>1 DEF HandlerInv, UnlockInv, PlainInv, RowInv
      <3> QED BY <3>1, <3>2, <3>3 DEF HandlerInv
    <2> HIDE DEF on, q
    <2> QED BY <2>3, IdleHandler
  <1>11. /\ request' = [s \in Request |-> request'[s]]
         /\ \A s \in Request : request'[s] = IF s = r THEN next ELSE request[s]
    <2> HIDE DEF next
    <2> QED BY <1>1 DEF AccountsInv
  <1>12. \A s \in Request : HandlerInv(request'[s])
    <2> HIDE DEF next
    <2> QED BY <1>10, <1>11, AccountTypes
  <1>13. \A v \in User : Kept(v)
    <2> HIDE DEF new, u
    <2> QED BY <1>7, <1>8 DEF Kept, old
  <1>14. \A v \in User : NoneInv(v)'
    <2>1. new.state = "none" => new.failed = 0 /\ new.lock = "free"
      <3>1. old.state = "none" => old.failed = 0 /\ old.lock = "free"
        BY <1>2 DEF AccountsInv, NoneInv
      <3> HIDE DEF new, old, cols
      <3> QED BY <1>7, <3>1
    <2> HIDE DEF new, u
    <2> QED BY <1>8, <2>1 DEF NoneInv, AccountsInv
  <1>15. /\ (request = [s \in Request |-> request[s]])'
         /\ \A s \in Request : HandlerInv(request[s])'
         /\ \A s \in Request : request'[s].op \in Op /\ request'[s].user \in User
    BY <1>11, <1>12, <1>13, HandlersGoOn
  <1>16. /\ strikes' \in [User -> Nat] /\ strikes'[u] = 0
         /\ tangled' \in [User -> BOOLEAN] /\ (~tangled'[u] => CleanCount(r))
         /\ \A v \in User \ {u} : strikes'[v] = strikes[v] /\ tangled'[v] = tangled[v]
    BY <1>1, ResetStep
  <1>17. ASSUME ~tangled'[u]
         PROVE  /\ account'[u].failed = strikes'[u]
                /\ account'[u].lock = "held" <=> strikes'[u] >= MaxFailures
    <2>1. q.seen.failed = old.failed /\ q.seen.lock = old.lock
      BY <1>16, <1>17, CleanReading
    <2>2. account'[u].failed = 0 /\ account'[u].lock = "free"
      <3> HIDE DEF u, q, new, old, cols
      <3> QED BY <1>4, <1>7, <1>8, <2>1
    <2> HIDE DEF u
    <2> QED BY <1>3, <1>16, <2>2
  <1>18. ~crossed'[u] /\ history'[u] # <<>> => account'[u].password = history'[u][Len(history'[u])]
    <2>1. account'[u].password = account[u].password
      <3> HIDE DEF new
      <3> QED BY <1>7, <1>8
    <2> QED BY <1>1, <1>2, <2>1 DEF AccountsInv, PasswordIsRecorded
  <1>19. CounterIsExact' /\ PasswordIsRecorded'
    BY <1>1, <1>2, <1>8, <1>16, <1>17, <1>18, OthersStay
  <1>20. TypeOK'
    BY <1>1, <1>3, <1>8, <1>9, <1>15, <1>16 DEF TypeOK
  <1> QED BY <1>14, <1>15, <1>19, <1>20 DEF AccountsInv

LEMMA TimePasses ==
  ASSUME AccountsInv, NEW u \in User, LockLapses(u)
  PROVE  AccountsInv'
  <1>1. lapsed' = [lapsed EXCEPT ![u] = TRUE]
        /\ UNCHANGED <<account, history, request, strikes, tangled, crossed>>
    BY DEF LockLapses, historyVars
  <1>2. lapsed' \in [User -> BOOLEAN]
    BY <1>1, AccountTypes
  <1>3. CounterIsExact' /\ PasswordIsRecorded' /\ TypeOK' /\ \A v \in User : NoneInv(v)'
    BY <1>1, <1>2 DEF AccountsInv, TypeOK, CounterIsExact, PasswordIsRecorded, NoneInv
  <1>4. \A s \in Request : HandlerInv(request[s])'
    BY <1>1 DEF AccountsInv, HandlerInv, LocalTypes, SetTypes, FailInv, EnterInv, UnlockInv,
                PlainInv, RowInv, Base
  <1> QED BY <1>1, <1>3, <1>4 DEF AccountsInv

(* A restart ends every handler and touches only the administrator.        *)
LEMMA Restarts ==
  ASSUME AccountsInv, Restart
  PROVE  AccountsInv'
  <1> DEFINE old   == account[Admin]
             empty == \A u \in User : account[u].state = "none"
             back  == [old EXCEPT !.password = Seed, !.legacy = FALSE, !.state = "active"]
             c     == crossed[Admin] \/ old.state # "none"
  <1>1. /\ Admin \in User /\ Seed \in Password /\ old \in Row
        /\ account \in [User -> Row] /\ lapsed \in [User -> BOOLEAN]
        /\ history \in [User -> Seq(Password)] /\ strikes \in [User -> Nat]
        /\ tangled \in [User -> BOOLEAN] /\ crossed \in [User -> BOOLEAN]
    BY AccountTypes, AuthAssumption
  <1>2. request' = [r \in Request |-> Idle] /\ UNCHANGED <<lapsed, strikes, tangled>>
    BY DEF Restart
  <1>3. /\ back \in Row /\ back.failed = old.failed /\ back.lock = old.lock
        /\ back.password = Seed /\ back.legacy = FALSE /\ back.state = "active"
    <2> HIDE DEF old
    <2> QED BY <1>1 DEF Row
  <1>4. /\ NewRow(Seed) \in Row /\ NewRow(Seed).failed = 0 /\ NewRow(Seed).lock = "free"
        /\ NewRow(Seed).password = Seed /\ NewRow(Seed).legacy = FALSE
        /\ NewRow(Seed).state = "active"
    BY <1>1, NewRowFields
  <1>5. old.state = "none" => old.failed = 0 /\ old.lock = "free"
    BY <1>1 DEF AccountsInv, NoneInv
  <1>6. /\ account' \in [User -> Row] /\ \A v \in User \ {Admin} : account'[v] = account[v]
        /\ account'[Admin].failed = old.failed /\ account'[Admin].lock = old.lock
        /\ (account'[Admin] = old) \/ (account'[Admin].state = "active" /\ account'[Admin].legacy = FALSE)
        /\ history' \in [User -> Seq(Password)] /\ crossed' \in [User -> BOOLEAN]
        /\ \A v \in User \ {Admin} : history'[v] = history[v] /\ crossed'[v] = crossed[v]
        /\ ~crossed'[Admin] /\ history'[Admin] # <<>> =>
             account'[Admin].password = history'[Admin][Len(history'[Admin])]
    <2>1. CASE empty
      <3>1. /\ account' = [account EXCEPT ![Admin] = NewRow(Seed)]
            /\ history' = [history EXCEPT ![Admin] = <<Seed>>] /\ crossed' = crossed
        BY <2>1 DEF Restart
      <3>2. old.state = "none"
        BY <1>1, <2>1
      <3>3. <<Seed>> \in Seq(Password) /\ <<Seed>>[Len(<<Seed>>)] = Seed
        BY <1>1
      <3> HIDE DEF old, empty
      <3>4. account'[Admin] = NewRow(Seed) /\ history'[Admin] = <<Seed>>
        BY <1>1, <3>1
      <3> QED BY <1>1, <1>4, <1>5, <3>1, <3>2, <3>3, <3>4
    <2>2. CASE ~empty /\ old.state = "none"
      <3>1. /\ account' = account /\ history' = history
            /\ crossed' = [crossed EXCEPT ![Admin] = @ \/ old.state # "none"]
        BY <2>2 DEF Restart
      <3>2. crossed' = crossed
        BY <1>1, <2>2, <3>1
      <3>3. ~crossed[Admin] /\ history[Admin] # <<>> =>
              account[Admin].password = history[Admin][Len(history[Admin])]
        BY <1>1 DEF AccountsInv, PasswordIsRecorded
      <3> HIDE DEF empty
      <3> QED BY <1>1, <3>1, <3>2, <3>3
    <2>3. CASE ~empty /\ old.state # "none"
      <3>1. /\ account' = [account EXCEPT ![Admin].password = Seed, ![Admin].legacy = FALSE,
                                           ![Admin].state = "active"]
            /\ history' = history /\ crossed' = [crossed EXCEPT ![Admin] = c]
        BY <2>3 DEF Restart
      <3>2. account' = [account EXCEPT ![Admin] = back]
        BY <1>1, <3>1
      <3>3. crossed' = [crossed EXCEPT ![Admin] = TRUE]
        BY <2>3, <3>1
      <3> HIDE DEF back, old
      <3>4. /\ account' \in [User -> Row] /\ account'[Admin] = back
            /\ \A v \in User \ {Admin} : account'[v] = account[v]
        BY <1>1, <1>3, <3>2
      <3>5. /\ crossed' \in [User -> BOOLEAN] /\ crossed'[Admin] = TRUE
            /\ \A v \in User \ {Admin} : crossed'[v] = crossed[v]
        BY <1>1, <3>3
      <3> QED BY <1>1, <1>3, <3>1, <3>4, <3>5
    <2> QED BY <2>1, <2>2, <2>3
  <1>7. CounterIsExact' /\ PasswordIsRecorded'
    <2>1. ~tangled'[Admin] => /\ account'[Admin].failed = strikes'[Admin]
                              /\ account'[Admin].lock = "held" <=> strikes'[Admin] >= MaxFailures
      BY <1>1, <1>2, <1>6 DEF AccountsInv, CounterIsExact
    <2> QED BY <1>1, <1>2, <1>6, <2>1, OthersStay
  <1>8. \A v \in User : NoneInv(v)'
    BY <1>1, <1>5, <1>6 DEF NoneInv, AccountsInv
  <1>9. \A v \in User : Kept(v)
    BY <1>1, <1>6 DEF Kept
  <1>10. request' = [s \in Request |-> request'[s]] /\ \A s \in Request : HandlerInv(request'[s])
    BY <1>2, IdleHandler
  <1>11. /\ (request = [s \in Request |-> request[s]])'
         /\ \A s \in Request : HandlerInv(request[s])'
         /\ \A s \in Request : request'[s].op \in Op /\ request'[s].user \in User
    BY <1>9, <1>10, HandlersGoOn
  <1>12. TypeOK'
    BY <1>1, <1>2, <1>6, <1>11 DEF TypeOK
  <1> QED BY <1>7, <1>8, <1>11, <1>12 DEF AccountsInv

LEMMA AccountsInitInv == Init => AccountsInv
  <1> SUFFICES ASSUME Init PROVE AccountsInv
    OBVIOUS
  <1>1. \A u \in User : /\ account[u] \in Row /\ account[u].failed = 0
                        /\ account[u].lock = "free"
    <2>1. ASSUME NEW p \in Password
          PROVE  LET old == [NewRow(p) EXCEPT !.legacy = TRUE]
                 IN  old \in Row /\ old.failed = 0 /\ old.lock = "free"
      <3>1. ASSUME NEW mid \in Row
            PROVE  LET old == [mid EXCEPT !.legacy = TRUE]
                   IN  old \in Row /\ old.failed = mid.failed /\ old.lock = mid.lock
        BY DEF Row
      <3>2. NewRow(p) \in Row /\ NewRow(p).failed = 0 /\ NewRow(p).lock = "free"
        BY NewRowFields
      <3> DEFINE new == NewRow(p)
      <3>3. new \in Row /\ new.failed = 0 /\ new.lock = "free"
        BY <3>2
      <3> HIDE DEF new
      <3>4. LET old == [new EXCEPT !.legacy = TRUE]
            IN  old \in Row /\ old.failed = 0 /\ old.lock = "free"
        BY <3>1, <3>3
      <3> QED BY <3>4 DEF new
    <2>2. NoRow \in Row /\ NoRow.failed = 0 /\ NoRow.lock = "free"
      BY NewRowFields, AuthAssumption
    <2> DEFINE Olds == {[NewRow(p) EXCEPT !.legacy = TRUE] : p \in Password}
    <2>3. \A old \in Olds : old \in Row /\ old.failed = 0 /\ old.lock = "free"
      BY <2>1
    <2>4. account \in [User -> {NoRow} \cup Olds]
      BY DEF Init
    <2> HIDE DEF Olds
    <2> QED BY <2>2, <2>3, <2>4
  <1>2. DOMAIN account = User /\ account = [u \in User |-> account[u]]
    BY DEF Init
  <1>3. account \in [User -> Row]
    BY <1>1, <1>2
  <1>4. /\ lapsed = [u \in User |-> FALSE] /\ history = [u \in User |-> <<>>]
        /\ request = [r \in Request |-> Idle] /\ strikes = [u \in User |-> 0]
        /\ tangled = [u \in User |-> FALSE] /\ crossed = [u \in User |-> FALSE]
    BY DEF Init
  <1>5. /\ lapsed \in [User -> BOOLEAN] /\ history \in [User -> Seq(Password)]
        /\ strikes \in [User -> Nat] /\ tangled \in [User -> BOOLEAN]
        /\ crossed \in [User -> BOOLEAN]
    <2>1. <<>> \in Seq(Password)
      BY EmptySeq
    <2> QED BY <1>4, <2>1
  <1>6. TypeOK
    BY <1>3, <1>4, <1>5, IdleFields, AuthAssumption DEF TypeOK, Op
  <1>7. CounterIsExact /\ PasswordIsRecorded
    BY <1>1, <1>4, AuthAssumption DEF CounterIsExact, PasswordIsRecorded
  <1>8. HandlerInv(Idle)
    <2>1. Zero \in Counters
      <3>1. NoRow.failed = 0 /\ NoRow.lock = "free"
        BY NewRowFields, AuthAssumption
      <3> QED BY <3>1 DEF Zero, Counter, Counters
    <2> QED BY <2>1, IdleFields, AuthAssumption
        DEF HandlerInv, LocalTypes, SetTypes, FailInv, EnterInv, UnlockInv, PlainInv, RowInv, Op
  <1> QED BY <1>1, <1>4, <1>6, <1>7, <1>8 DEF AccountsInv, NoneInv

LEMMA AccountsNextInv == AccountsInv /\ [Next]_vars => AccountsInv'
  <1> SUFFICES ASSUME AccountsInv, [Next]_vars PROVE AccountsInv'
    OBVIOUS
  <1>1. CASE UNCHANGED vars
    <2>1. UNCHANGED <<account, lapsed, history, request, strikes, tangled, crossed>>
      BY <1>1 DEF vars, rowVars, historyVars
    <2>2. CounterIsExact' /\ PasswordIsRecorded' /\ TypeOK' /\ \A v \in User : NoneInv(v)'
      BY <2>1 DEF AccountsInv, TypeOK, CounterIsExact, PasswordIsRecorded, NoneInv
    <2>3. \A s \in Request : HandlerInv(request[s])'
      BY <2>1 DEF AccountsInv, HandlerInv, LocalTypes, SetTypes, FailInv, EnterInv, UnlockInv,
                  PlainInv, RowInv, Base
    <2> QED BY <2>1, <2>2, <2>3 DEF AccountsInv
  <1>2. CASE \E r \in Request : Finish(r)
    <2>1. PICK r \in Request : Finish(r)
      BY <1>2
    <2> QED BY <2>1, LockIsCleared, FailedLoginEnds, LoginEnds, CreateEnds, HistoryIsRead,
               PasswordEnds, UnlockEnds, EditEnds DEF Finish
  <1>3. ASSUME NEW r \in Request, NEW u \in User, NEW p \in Password,
               \/ BeginLogin(r, u, p) \/ register_user(r, u, p) \/ admin_create_user(r, u, p)
               \/ BeginReset(r, u, p) \/ \E c \in Password : BeginChange(r, u, c, p)
        PROVE  AccountsInv'
    <2>1. CASE BeginLogin(r, u, p)
      BY <2>1, LoginBegins
    <2>2. CASE register_user(r, u, p) \/ admin_create_user(r, u, p)
      BY <2>2, CreateBegins DEF register_user, admin_create_user
    <2>3. CASE BeginReset(r, u, p)
      BY <2>3, PasswordBegins DEF BeginReset
    <2>4. CASE \E c \in Password : BeginChange(r, u, c, p)
      BY <2>4, PasswordBegins DEF BeginChange
    <2> QED BY <1>3, <2>1, <2>2, <2>3, <2>4
  <1>4. ASSUME NEW r \in Request, NEW u \in User, admin_unlock_user(r, u) \/ admin_edit_user(r, u)
        PROVE  AccountsInv'
    BY <1>4, UnlockBegins, EditBegins
  <1> QED BY <1>1, <1>2, <1>3, <1>4, TimePasses, Restarts DEF Next

(* For every limit, the failed logins an account shows are the ones since  *)
(* it was last reset, and it is locked exactly from the limit on, unless   *)
(* two requests wrote its counter from the same reading.                   *)
THEOREM CountersAreExact == Spec => []CounterIsExact
  <1>1. AccountsInv => CounterIsExact
    BY DEF AccountsInv
  <1> QED BY <1>1, AccountsInitInv, AccountsNextInv, PTL DEF Spec

(* The password in force is the newest of the history, unless a rehash or  *)
(* a restart wrote over it.                                                *)
THEOREM PasswordsAreRecorded == Spec => []PasswordIsRecorded
  <1>1. AccountsInv => PasswordIsRecorded
    BY DEF AccountsInv
  <1> QED BY <1>1, AccountsInitInv, AccountsNextInv, PTL DEF Spec

(* The steps that can take a lock in force away. *)
LEMMA OnlyTheseRelease ==
  ASSUME AccountsInv, [Next]_vars, NEW u \in User,
         account[u].lock = "held", ~lapsed[u], account'[u].lock = "free"
  PROVE  \E r \in Request : request[r].user = u /\ (request[r].op = "unlock" \/ request[r].clear)
  <1> SUFFICES ASSUME \A r \in Request : request[r].user = u =>
                        request[r].op # "unlock" /\ ~request[r].clear
               PROVE  account'[u].lock = account[u].lock
    OBVIOUS
  <1>1. ASSUME NEW r \in Request, CommitRow(r),
               request[r].op \in {"create", "enter", "fail", "password", "unlock", "edit"},
               request[r].op = "create" => account[request[r].user].state = "none"
        PROVE  account'[u].lock = account[u].lock
    <2> DEFINE q == request[r]
    <2>1. Committed(q.user, q)
      BY <1>1, CommitStep
    <2>2. HandlerInv(q) /\ q.user \in User /\ account' \in [User -> Row]
      BY <2>1 DEF Committed
    <2>3. CASE q.user # u
      BY <2>1, <2>3 DEF Committed
    <2>4. CASE q.user = u
      <3>1. q.op # "unlock" /\ q.op # "create"
        <4>1. account[u].state = "none" => account[u].lock = "free"
          BY DEF AccountsInv, NoneInv
        <4> QED BY <1>1, <2>4, <4>1
      <3>2. "lock" \in DOMAIN q.set => q.set["lock"] = "held"
        BY <1>1, <2>2, <3>1 DEF HandlerInv, FailInv, EnterInv, PlainInv
      <3>3. account'[u].lock = Updated(u, q, "lock")
        BY <2>1, <2>4 DEF Committed
      <3> HIDE DEF q
      <3> QED BY <3>2, <3>3 DEF Updated
    <2> QED BY <2>3, <2>4
  <1>2. ASSUME NEW r \in Request, ClearLock(r)
        PROVE  account'[u].lock = account[u].lock
    <2>1. request[r].user # u
      BY <1>2 DEF ClearLock
    <2> QED BY <1>2, <2>1, AccountTypes DEF ClearLock
  <1>3. CASE Restart
    <2>1. Admin \in User /\ account \in [User -> Row]
      BY AccountTypes, AuthAssumption
    <2>2. account[u].state # "none"
      BY DEF AccountsInv, NoneInv
    <2>3. /\ account' = IF account[Admin].state = "none" THEN account
                        ELSE [account EXCEPT ![Admin].password = Seed,
                                             ![Admin].legacy = FALSE,
                                             ![Admin].state = "active"]
      BY <1>3, <2>2 DEF Restart
    <2> QED BY <2>1, <2>3
  <1>4. CASE \E r \in Request : Finish(r)
    <2>1. PICK r \in Request : Finish(r)
      BY <1>4
    <2>2. CASE ClearLock(r)
      BY <2>2, <1>2
    <2>3. CASE CheckHistory(r) \/ (FinishCreate(r) /\ account[request[r].user].state # "none")
      BY <2>3 DEF CheckHistory, FinishCreate, rowVars
    <2>4. CASE FinishCreate(r) /\ account[request[r].user].state = "none"
      BY <2>4, <1>1 DEF FinishCreate
    <2>5. CASE \/ FinishFailedLogin(r) \/ FinishLogin(r) \/ FinishPassword(r)
               \/ FinishUnlock(r) \/ FinishEdit(r)
      BY <2>5, <1>1 DEF FinishFailedLogin, FinishLogin, FinishPassword, FinishUnlock, FinishEdit
    <2> QED BY <2>1, <2>2, <2>3, <2>4, <2>5 DEF Finish
  <1>5. ASSUME NEW r \in Request, NEW v \in User,
               \/ \E p \in Password : \/ BeginLogin(r, v, p)
                                      \/ register_user(r, v, p)
                                      \/ admin_create_user(r, v, p)
                                      \/ BeginReset(r, v, p)
                                      \/ \E c \in Password : BeginChange(r, v, c, p)
               \/ admin_unlock_user(r, v)
               \/ admin_edit_user(r, v)
        PROVE  account'[u].lock = account[u].lock
    <2>1. account' = account
      BY <1>5 DEF BeginLogin, register_user, admin_create_user, BeginCreate, BeginReset,
                  BeginChange, admin_unlock_user, admin_edit_user, Begin, rowVars
    <2> QED BY <2>1
  <1>6. CASE \E v \in User : LockLapses(v)
    BY <1>6 DEF LockLapses
  <1>7. CASE UNCHANGED vars
    BY <1>7 DEF vars, rowVars
  <1> QED BY <1>3, <1>4, <1>5, <1>6, <1>7 DEF Next

(* Nothing but an administrator's unlock, or a login that had found an     *)
(* expired lock, takes a lock in force away, however the logins overlap.   *)
THEOREM LocksHold == Spec => LockHolds
  <1> DEFINE Holds == \A u \in User :
               account[u].lock = "held" /\ ~lapsed[u] /\ account'[u].lock = "free" =>
                 \E r \in Request : /\ request[r].user = u
                                    /\ request[r].op = "unlock" \/ request[r].clear
  <1>1. AccountsInv /\ [Next]_vars => [Holds]_vars
    BY OnlyTheseRelease
  <1> QED BY <1>1, AccountsInitInv, AccountsNextInv, PTL DEF Spec, LockHolds

-----------------------------------------------------------------------------
(* The rate limiter.                                                       *)
Bucket == [tokens : 0..max_tokens, last_refill : Nat]

LimitTypes ==
  /\ buckets \in [Client -> {NoBucket} \cup Bucket]
  /\ second \in Nat /\ boots \in Nat
  /\ watched \in [since : Nat, boots : Nat, admitted : [Client -> Nat]]
  /\ watched.since <= second /\ watched.boots <= boots
  /\ \A c \in Client : buckets[c].last_refill <= second

(* What an address was admitted, and what its bucket still holds, came     *)
(* from full buckets and from the refills up to the last one.              *)
Budget(c) ==
  IF buckets[c] = NoBucket
  THEN watched.admitted[c] * Window <=
         max_tokens * (boots - watched.boots) + Requests * (second - watched.since)
  ELSE \/ watched.admitted[c] = 0
       \/ /\ watched.since <= buckets[c].last_refill
          /\ watched.admitted[c] * Window + buckets[c].tokens <=
               max_tokens * (1 + boots - watched.boots)
                 + Requests * (buckets[c].last_refill - watched.since)

LimitInv == LimitTypes /\ \A c \in Client : Budget(c)

LEMMA Shares ==
  ASSUME NEW r \in Nat, NEW a \in Int, NEW b \in Int
  PROVE  r * (a + b) = r * a + r * b /\ r * a \in Int /\ r * b \in Int
  OBVIOUS

LEMMA SharesGrow ==
  ASSUME NEW r \in Nat, NEW a \in Int, NEW b \in Int, a <= b
  PROVE  r * a <= r * b /\ r * a \in Int /\ r * b \in Int
<1>1. b - a \in Nat OBVIOUS
<1>2. r * (b - a) \in Nat BY <1>1
<1>3. r * (a + (b - a)) = r * a + r * (b - a) BY Shares
<1> QED BY <1>2, <1>3, Shares

LEMMA FullBucket == max_tokens \in Nat /\ max_tokens >= Window /\ Window \in Nat /\ Requests \in Nat /\ Window > 0
  BY LimitAssumption DEF max_tokens

LEMMA LimitInitInv == LimitInit => LimitInv
<1> SUFFICES ASSUME LimitInit PROVE LimitInv
  OBVIOUS
<1>1. LimitTypes BY DEF LimitInit, LimitTypes, NoBucket
<1>2. ASSUME NEW c \in Client PROVE Budget(c)
  <2>1. /\ buckets[c] = NoBucket /\ watched.admitted[c] = 0 /\ watched.since = 0
        /\ watched.boots = 0 /\ second = 0 /\ boots = 0
    BY DEF LimitInit
  <2>2. max_tokens * (0 - 0) + Requests * (0 - 0) = 0 /\ 0 * Window = 0
    BY FullBucket
  <2> QED BY <2>1, <2>2 DEF Budget
<1> QED BY <1>1, <1>2 DEF LimitInv

(* A bucket that is refilled holds no more than before and what the time   *)
(* brought, and never more than it can.                                    *)
LEMMA RefillIsBounded ==
  ASSUME NEW b \in Bucket, second \in Nat, b.last_refill <= second
  PROVE  /\ Refilled(b) \in 0..max_tokens
         /\ Refilled(b) <= b.tokens + Requests * (second - b.last_refill)
<1>1. b.tokens \in 0..max_tokens /\ b.last_refill \in Nat BY DEF Bucket
<1> DEFINE passed == second - b.last_refill
<1>2. passed \in Nat BY <1>1
<1>3. passed * Requests = Requests * passed /\ Requests * passed \in Nat
  BY <1>2, FullBucket
<1>4. Refilled(b) = IF b.tokens + passed * Requests < max_tokens
                    THEN b.tokens + passed * Requests ELSE max_tokens
  BY DEF Refilled
<1> HIDE DEF passed
<1>5. /\ Refilled(b) \in 0..max_tokens
      /\ Refilled(b) <= b.tokens + Requests * passed
  BY <1>1, <1>3, <1>4, FullBucket
<1> QED BY <1>5 DEF passed

LEMMA DispatchStep ==
  ASSUME LimitInv, NEW c \in Client, dispatch(c)
  PROVE  LimitInv'
<1> DEFINE bucket == IF buckets[c] = NoBucket THEN NewBucket ELSE buckets[c]
           have   == Refilled(bucket)
           spent  == watched.admitted[c]
<1> USE FullBucket
<1>1. /\ second' = second /\ boots' = boots /\ second \in Nat /\ boots \in Nat
      /\ watched.since \in Nat /\ watched.boots \in Nat
      /\ watched.since <= second /\ watched.boots <= boots
      /\ watched.admitted \in [Client -> Nat] /\ spent \in Nat
  BY DEF dispatch, LimitInv, LimitTypes
<1>2. bucket \in Bucket /\ bucket.last_refill <= second
  BY <1>1 DEF LimitInv, LimitTypes, Bucket, NewBucket
<1>3. /\ have \in 0..max_tokens
      /\ have <= bucket.tokens + Requests * (second - bucket.last_refill)
  BY <1>1, <1>2, RefillIsBounded
<1> DEFINE left == Left(bucket, have)
<1>4. /\ left \in Bucket /\ left.last_refill = second /\ left # NoBucket
      /\ left.tokens = IF have >= Window THEN have - Window ELSE have
  BY <1>1, <1>3 DEF Left, Bucket, NoBucket
<1>5. /\ buckets' = [buckets EXCEPT ![c] = left]
      /\ watched' = IF have >= Window THEN [watched EXCEPT !.admitted[c] = @ + 1] ELSE watched
  BY DEF dispatch
<1> HIDE DEF left
<1>6. /\ watched' \in [since : Nat, boots : Nat, admitted : [Client -> Nat]]
      /\ watched'.since = watched.since /\ watched'.boots = watched.boots
      /\ watched'.admitted[c] = IF have >= Window THEN spent + 1 ELSE spent
      /\ \A d \in Client \ {c} : watched'.admitted[d] = watched.admitted[d]
  BY <1>1, <1>5 DEF LimitInv, LimitTypes
<1>7. LimitTypes'
  BY <1>1, <1>4, <1>5, <1>6 DEF LimitInv, LimitTypes
<1>8. \A d \in Client \ {c} : Budget(d)'
  BY <1>1, <1>5, <1>6 DEF LimitInv, LimitTypes, Budget
<1>9. Budget(c)'
  <2> DEFINE all  == max_tokens * (1 + boots - watched.boots)
             time == second - watched.since
             now  == watched'.admitted[c]
  <2>1. buckets'[c] = left
    BY <1>5 DEF LimitInv, LimitTypes
  <2>2. all \in Nat /\ all >= max_tokens /\ all = max_tokens * (boots - watched.boots) + max_tokens
    <3>1. 1 + boots - watched.boots = (boots - watched.boots) + 1 /\ boots - watched.boots \in Nat
      BY <1>1
    <3>2. max_tokens * ((boots - watched.boots) + 1)
            = max_tokens * (boots - watched.boots) + max_tokens * 1
      BY <3>1, Shares
    <3>3. max_tokens * (boots - watched.boots) \in Nat
      BY <3>1
    <3> QED BY <3>1, <3>2, <3>3
  <2>3. time \in Nat /\ Requests * time \in Nat
    BY <1>1
  <2>4. /\ now \in Nat /\ (spent + 1) * Window = spent * Window + Window /\ spent * Window \in Nat
        /\ now * Window = IF have >= Window THEN spent * Window + Window ELSE spent * Window
    <3>1. (spent + 1) * Window = spent * Window + Window /\ spent * Window \in Nat
      <4>1. Window * (spent + 1) = Window * spent + Window * 1
        BY <1>1, Shares
      <4> QED BY <4>1, <1>1
    <3> QED BY <3>1, <1>1, <1>6
  <2>5. spent = 0 \/ spent * Window + have <= all + Requests * time
    <3>1. CASE buckets[c] = NoBucket
      <4>1. spent * Window <= max_tokens * (boots - watched.boots) + Requests * time
        BY <3>1 DEF LimitInv, Budget
      <4> HIDE DEF all, time, have, spent
      <4> QED BY <4>1, <2>2, <2>3, <2>4, <1>3, <1>1
    <3>2. CASE buckets[c] # NoBucket /\ spent # 0
      <4> DEFINE before == bucket.last_refill - watched.since
                 since  == second - bucket.last_refill
      <4>1. /\ watched.since <= bucket.last_refill
            /\ spent * Window + bucket.tokens <= all + Requests * before
        BY <3>2 DEF LimitInv, Budget
      <4>2. before \in Nat /\ since \in Nat /\ time = before + since
        BY <1>1, <1>2, <4>1 DEF Bucket
      <4>3. Requests * time = Requests * before + Requests * since
        BY <4>2, Shares
      <4>4. Requests * before \in Nat /\ Requests * since \in Nat
        BY <4>2
      <4>5. have <= bucket.tokens + Requests * since /\ bucket.tokens \in Nat
        BY <1>2, <1>3 DEF Bucket
      <4> HIDE DEF all, time, have, spent, before, since, bucket
      <4> QED BY <4>1, <4>3, <4>4, <4>5, <2>2, <2>3, <2>4, <1>3
    <3> QED BY <3>1, <3>2
  <2>6. now = 0 \/ now * Window + left.tokens <= all + Requests * time
    <3>0. spent = 0 => spent * Window = 0
      BY <1>1
    <3>1. have <= max_tokens /\ have \in Nat
      BY <1>3
    <3>2. left.tokens = IF have >= Window THEN have - Window ELSE have
      BY <1>4
    <3>3. now = IF have >= Window THEN spent + 1 ELSE spent
      BY <1>6
    <3>4. spent * Window + have <= all + Requests * time
      <4> DEFINE used == spent * Window
                 sum  == Requests * time
      <4>1. used \in Nat /\ sum \in Nat /\ all \in Nat /\ all >= max_tokens
        BY <2>2, <2>3, <2>4
      <4>2. (spent = 0 => used = 0) /\ (spent = 0 \/ used + have <= all + sum)
        BY <3>0, <2>5
      <4> HIDE DEF all, time, have, spent, used, sum
      <4>3. used + have <= all + sum
        BY <4>1, <4>2, <3>1
      <4> QED BY <4>3 DEF used, sum
    <3> DEFINE used == spent * Window
               sum  == all + Requests * time
               next == now * Window
    <3>5. used \in Nat /\ sum \in Nat /\ next = IF have >= Window THEN used + Window ELSE used
      BY <2>2, <2>3, <2>4
    <3>6. used + have <= sum
      BY <3>4
    <3>7. next + left.tokens <= sum
      <4> HIDE DEF all, time, have, spent, now, used, sum, next
      <4> QED BY <3>1, <3>2, <3>5, <3>6
    <3> QED BY <3>7
  <2> QED BY <2>1, <2>6, <1>1, <1>4, <1>6 DEF Budget
<1> QED BY <1>7, <1>8, <1>9 DEF LimitInv

(* What the inductive invariant says of an address bounds what it was      *)
(* admitted: a bucket holds no less than nothing, and its last refill is   *)
(* not later than now.                                                     *)
LEMMA BudgetBounds == LimitInv => AdmissionIsBounded
<1> SUFFICES ASSUME LimitInv, NEW c \in Client
             PROVE  watched.admitted[c] * Window <=
                      max_tokens * (1 + boots - watched.boots) + Requests * (second - watched.since)
  BY DEF AdmissionIsBounded
<1> USE FullBucket
<1>0. /\ second \in Nat /\ boots \in Nat /\ watched.since \in Nat /\ watched.boots \in Nat
      /\ watched.since <= second /\ watched.boots <= boots /\ watched.admitted[c] \in Nat
  BY DEF LimitInv, LimitTypes
<1> DEFINE used == watched.admitted[c] * Window
           old  == max_tokens * (boots - watched.boots)
           all  == max_tokens * (1 + boots - watched.boots)
           time == Requests * (second - watched.since)
<1>1. used \in Nat /\ old \in Nat /\ all \in Nat /\ time \in Nat /\ old <= all
  <2>1. boots - watched.boots <= 1 + boots - watched.boots
    BY <1>0
  <2> QED BY <2>1, <1>0, SharesGrow
<1>2. CASE buckets[c] = NoBucket
  <2>1. used <= old + time
    BY <1>2 DEF LimitInv, Budget
  <2> HIDE DEF used, old, all, time
  <2>2. used <= all + time
    BY <2>1, <1>1
  <2> QED BY <2>2 DEF used, all, time
<1>3. CASE watched.admitted[c] = 0
  <2>1. used = 0
    BY <1>3
  <2> HIDE DEF used, old, all, time
  <2>2. used <= all + time
    BY <2>1, <1>1
  <2> QED BY <2>2 DEF used, all, time
<1>4. CASE buckets[c] # NoBucket /\ watched.admitted[c] # 0
  <2> DEFINE last == Requests * (buckets[c].last_refill - watched.since)
  <2>1. /\ watched.since <= buckets[c].last_refill
        /\ used + buckets[c].tokens <= all + last
    BY <1>4 DEF LimitInv, Budget
  <2>2. /\ buckets[c].last_refill \in Nat /\ buckets[c].tokens \in Nat
        /\ buckets[c].last_refill <= second
    BY <1>4 DEF LimitInv, LimitTypes, Bucket
  <2>3. buckets[c].last_refill - watched.since <= second - watched.since
    BY <2>1, <2>2, <1>0
  <2>4. last <= time /\ last \in Int
    BY <2>2, <2>3, <1>0, SharesGrow
  <2> HIDE DEF used, old, all, time, last
  <2>5. used <= all + time
    BY <2>1, <2>2, <2>4, <1>1
  <2> QED BY <2>5 DEF used, all, time
<1> QED BY <1>2, <1>3, <1>4

LEMMA LimitNextInv == LimitInv /\ [LimitNext]_limiter => LimitInv'
<1> SUFFICES ASSUME LimitInv, [LimitNext]_limiter PROVE LimitInv'
  OBVIOUS
<1> USE FullBucket
<1>0. /\ second \in Nat /\ boots \in Nat /\ watched.since \in Nat /\ watched.boots \in Nat
      /\ watched.since <= second /\ watched.boots <= boots
      /\ \A c \in Client : watched.admitted[c] \in Nat
  BY DEF LimitInv, LimitTypes
<1>1. CASE \E c \in Client : dispatch(c)
  BY <1>1, DispatchStep
<1>2. CASE Passes
  <2>1. LimitTypes'
    <3>1. \A c \in Client : buckets[c].last_refill \in Int /\ buckets[c].last_refill <= second
      BY DEF LimitInv, LimitTypes, Bucket, NoBucket
    <3>2. \A c \in Client : buckets[c].last_refill <= second + 1
      BY <3>1, <1>0
    <3> QED BY <3>2, <1>0, <1>2 DEF Passes, LimitInv, LimitTypes
  <2>2. Requests * (second - watched.since) <= Requests * (second + 1 - watched.since)
    BY <1>0, SharesGrow
  <2>3. ASSUME NEW c \in Client PROVE Budget(c)'
    <3> DEFINE used == watched.admitted[c] * Window
               all  == max_tokens * (boots - watched.boots)
               then == Requests * (second - watched.since)
               next == Requests * (second + 1 - watched.since)
    <3>1. used \in Nat /\ all \in Nat /\ then \in Nat /\ next \in Nat /\ then <= next
      BY <1>0, <2>2
    <3>2. CASE buckets[c] = NoBucket
      <4>1. used <= all + then
        BY <3>2 DEF LimitInv, Budget
      <4>2. used <= all + next
        <5> HIDE DEF used, all, then, next
        <5> QED BY <4>1, <3>1
      <4>3. /\ buckets'[c] = NoBucket /\ watched' = watched
            /\ second' - watched'.since = second + 1 - watched.since
            /\ boots' - watched'.boots = boots - watched.boots
        BY <3>2, <1>0, <1>2 DEF Passes
      <4>4. used <= max_tokens * (boots' - watched'.boots) + Requests * (second' - watched'.since)
        BY <4>2, <4>3
      <4> HIDE DEF used
      <4>5. used = (watched.admitted[c] * Window)'
        BY <4>3 DEF used
      <4> QED BY <4>3, <4>4, <4>5 DEF Budget
    <3>3. CASE buckets[c] # NoBucket
      BY <3>3, <1>2 DEF Passes, LimitInv, Budget
    <3> QED BY <3>2, <3>3
  <2> QED BY <2>1, <2>3 DEF LimitInv
<1>3. CASE Boots
  <2>1. LimitTypes'
    BY <1>3 DEF Boots, LimitInv, LimitTypes, NoBucket
  <2>2. ASSUME NEW c \in Client PROVE Budget(c)'
    <3> DEFINE used == watched.admitted[c] * Window
    <3>2. used <= max_tokens * (1 + boots - watched.boots) + Requests * (second - watched.since)
      BY BudgetBounds DEF AdmissionIsBounded
    <3>3. /\ buckets'[c] = NoBucket /\ boots' - watched'.boots = 1 + boots - watched.boots
          /\ second' = second /\ watched' = watched
      BY <1>0, <1>3 DEF Boots
    <3>4. used <= max_tokens * (boots' - watched'.boots) + Requests * (second' - watched'.since)
      BY <3>2, <3>3
    <3> HIDE DEF used
    <3>5. used = (watched.admitted[c] * Window)'
      BY <3>3 DEF used
    <3> QED BY <3>3, <3>4, <3>5 DEF Budget
  <2> QED BY <2>1, <2>2 DEF LimitInv
<1>4. CASE Watches
  <2>1. LimitTypes'
    BY <1>0, <1>4 DEF Watches, Watch, LimitInv, LimitTypes
  <2>2. ASSUME NEW c \in Client PROVE Budget(c)'
    <3>1. /\ watched'.admitted[c] = 0 /\ watched'.since = second /\ watched'.boots = boots
          /\ second' = second /\ boots' = boots
      BY <1>4 DEF Watches, Watch
    <3>2. /\ boots - boots = 0 /\ second - second = 0 /\ 0 * Window = 0
          /\ max_tokens * 0 = 0 /\ Requests * 0 = 0
      BY <1>0
    <3>3. 0 * Window <= max_tokens * (boots - boots) + Requests * (second - second)
      BY <3>2
    <3> QED BY <3>1, <3>3 DEF Budget
  <2> QED BY <2>1, <2>2 DEF LimitInv
<1>5. CASE UNCHANGED limiter
  BY <1>5 DEF limiter, LimitInv, LimitTypes, Budget
<1> QED BY <1>1, <1>2, <1>3, <1>4, <1>5 DEF LimitNext

(* Whenever one begins to count, an address is admitted no more often than *)
(* a full bucket, one more for each restart, and the refill of the time    *)
(* that passed allow: for all settings of the limiter                      *)
(* (rate_limit.py:28-36).                                                  *)
THEOREM AdmissionsAreBounded == LimitSpec => []AdmissionIsBounded
<1> QED BY LimitInitInv, LimitNextInv, BudgetBounds, PTL DEF LimitSpec

-----------------------------------------------------------------------------
(***************************************************************************)
(* The live feed.  A list that loses entries: kept is what is left of its  *)
(* first entries.                                                          *)
(***************************************************************************)
(* Among some numbers there is a smallest one: induction over numbers.     *)
LEMMA SmallestNumber ==
  ASSUME NEW T \in SUBSET Nat, T # {}
  PROVE  \E m \in T : \A k \in T : m <= k
<1>1. PICK m \in T : \A k \in T : <<k, m>> \notin OpToRel(<, Nat)
  BY NatLessThanWellFounded, WFMin
<1>2. \A k \in T : ~(k < m)
  BY <1>1 DEF OpToRel
<1> QED  BY <1>2

KeptUpTo(list, gone, kept, i) ==
  IF i = 0 THEN <<>>
  ELSE IF list[i] \in gone THEN kept[i - 1] ELSE Append(kept[i - 1], list[i])

Keeps(list, gone, kept, n) == kept = [i \in 0..n |-> KeptUpTo(list, gone, kept, i)]

LEMMA KeepsExists ==
  ASSUME NEW list, NEW gone, NEW n \in Nat
  PROVE  \E kept : Keeps(list, gone, kept, n)
<1> DEFINE T == {k \in Nat : ~ \E kept : Keeps(list, gone, kept, k)}
<1> SUFFICES ASSUME T # {}  PROVE FALSE
  OBVIOUS
<1> HIDE DEF T
<1>1. PICK m \in T : \A k \in T : m <= k
  <2>1. T \in SUBSET Nat
    BY DEF T
  <2> QED  BY <2>1, SmallestNumber
<1>2. m \in Nat /\ ~ \E kept : Keeps(list, gone, kept, m)
  BY DEF T
<1>3. CASE m = 0
  <2> DEFINE kept == [i \in 0..0 |-> <<>>]
  <2>1. Keeps(list, gone, kept, 0)
    BY DEF Keeps, KeptUpTo
  <2> QED  BY <1>2, <1>3, <2>1
<1>4. CASE m # 0
  <2>1. m - 1 \in Nat /\ m - 1 \notin T
    BY <1>1, <1>2, <1>4
  <2>2. PICK before : Keeps(list, gone, before, m - 1)
    BY <2>1 DEF T
  <2> DEFINE kept == [i \in 0..m |-> KeptUpTo(list, gone, before, i)]
  <2>3. \A i \in 0..(m - 1) : kept[i] = before[i]
    BY <1>2, <2>1, <2>2 DEF Keeps
  <2>4. \A i \in 0..m : KeptUpTo(list, gone, kept, i) = KeptUpTo(list, gone, before, i)
    <3> SUFFICES ASSUME NEW i \in 0..m  PROVE KeptUpTo(list, gone, kept, i) = KeptUpTo(list, gone, before, i)
      OBVIOUS
    <3> HIDE DEF kept
    <3>2. i # 0 => i - 1 \in 0..(m - 1)
      BY <1>2
    <3>1. i # 0 => kept[i - 1] = before[i - 1]
      BY <2>3, <3>2
    <3> QED  BY <3>1 DEF KeptUpTo
  <2>5. Keeps(list, gone, kept, m)
    <3>1. kept = [i \in 0..m |-> KeptUpTo(list, gone, before, i)]
      OBVIOUS
    <3> HIDE DEF kept
    <3> QED  BY <2>4, <3>1 DEF Keeps
  <2> QED  BY <1>2, <2>5
<1> QED  BY <1>3, <1>4

LEMMA WithoutIs ==
  ASSUME NEW gone, Len(connections) \in Nat
  PROVE  \E kept : /\ Keeps(connections, gone, kept, Len(connections))
                   /\ Without(gone) = kept[Len(connections)]
<1> DEFINE n == Len(connections)
           P(f) == f = [i \in 0..n |-> IF i = 0 THEN <<>>
                                       ELSE IF connections[i] \in gone THEN f[i - 1]
                                       ELSE Append(f[i - 1], connections[i])]
           kept == CHOOSE f : P(f)
<1>1. \E f : Keeps(connections, gone, f, n)
  BY KeepsExists
<1>2. \E f : P(f)
  BY <1>1 DEF Keeps, KeptUpTo
<1>3. P(kept)
  BY <1>2
<1>4. Without(gone) = kept[n]
  BY DEF Without
<1>5. Keeps(connections, gone, kept, n)
  BY <1>3 DEF Keeps, KeptUpTo
<1> QED  BY <1>4, <1>5

(* What is kept of the first k entries: as many as are not gone, in their  *)
(* order, each once.                                                       *)
Lost(list, gone, k) == {i \in 1..k : list[i] \in gone}

KeptInv(list, gone, kept, k, D) ==
  /\ kept[k] \in Seq(D)
  /\ Len(kept[k]) = k - Cardinality(Lost(list, gone, k))
  /\ \A m \in 1..Len(kept[k]) : \E i \in 1..k : list[i] \notin gone /\ kept[k][m] = list[i]
  /\ \A i \in 1..k : list[i] \notin gone => \E m \in 1..Len(kept[k]) : kept[k][m] = list[i]
  /\ \A m, p \in 1..Len(kept[k]) : kept[k][m] = kept[k][p] => m = p

Begins(first, all) == Len(first) <= Len(all) /\ \A m \in 1..Len(first) : all[m] = first[m]

LEMMA LostGrows ==
  ASSUME NEW list, NEW gone, NEW k \in Nat
  PROVE  /\ IsFiniteSet(Lost(list, gone, k)) /\ Cardinality(Lost(list, gone, k)) \in Nat
         /\ Cardinality(Lost(list, gone, k + 1))
              = Cardinality(Lost(list, gone, k)) + IF list[k + 1] \in gone THEN 1 ELSE 0
         /\ Lost(list, gone, 0) = {}
<1>1. IsFiniteSet(1..k)
  BY FS_Interval
<1>2. IsFiniteSet(Lost(list, gone, k)) /\ Cardinality(Lost(list, gone, k)) \in Nat
  BY <1>1, FS_Subset, FS_CardinalityType DEF Lost
<1>3. Lost(list, gone, k + 1) = IF list[k + 1] \in gone THEN Lost(list, gone, k) \cup {k + 1} ELSE Lost(list, gone, k)
  BY DEF Lost
<1>4. k + 1 \notin Lost(list, gone, k)
  BY DEF Lost
<1>5. Cardinality(Lost(list, gone, k) \cup {k + 1}) = Cardinality(Lost(list, gone, k)) + 1
  BY <1>2, <1>4, FS_AddElement
<1>6. Lost(list, gone, 0) = {}
  BY DEF Lost
<1> QED  BY <1>2, <1>3, <1>5, <1>6

LEMMA KeptStep ==
  ASSUME NEW D, NEW list \in Seq(D), NEW gone, NEW kept, Keeps(list, gone, kept, Len(list)),
         \A i, j \in 1..Len(list) : list[i] = list[j] => i = j,
         NEW k \in Nat, k < Len(list), KeptInv(list, gone, kept, k, D)
  PROVE  /\ KeptInv(list, gone, kept, k + 1, D)
         /\ Begins(kept[k], kept[k + 1])
<1>1. kept[k + 1] = IF list[k + 1] \in gone THEN kept[k] ELSE Append(kept[k], list[k + 1])
  <2>1. k + 1 \in 0..Len(list) /\ k + 1 # 0 /\ (k + 1) - 1 = k
    OBVIOUS
  <2>2. kept[k + 1] = KeptUpTo(list, gone, kept, k + 1)
    BY <2>1 DEF Keeps
  <2> QED  BY <2>1, <2>2 DEF KeptUpTo
<1>2. list[k + 1] \in D /\ Len(list) \in Nat
  OBVIOUS
<1>3. kept[k] \in Seq(D) /\ Len(kept[k]) \in Nat
  BY DEF KeptInv
<1> DEFINE old == kept[k]
<1>4. PICK c \in Nat : c = Cardinality(Lost(list, gone, k))
  BY LostGrows
<1>a. Cardinality(Lost(list, gone, k + 1)) = c + IF list[k + 1] \in gone THEN 1 ELSE 0
  <2> DEFINE n == Cardinality(Lost(list, gone, k))
             m == Cardinality(Lost(list, gone, k + 1))
  <2>1. m = n + IF list[k + 1] \in gone THEN 1 ELSE 0
    BY LostGrows, SMTT(30)
  <2> HIDE DEF n, m
  <2>2. m = c + IF list[k + 1] \in gone THEN 1 ELSE 0
    BY <1>4, <2>1 DEF n
  <2> QED  BY <2>2 DEF m
<1>5. CASE list[k + 1] \in gone
  <2>1. Cardinality(Lost(list, gone, k + 1)) = c + 1
    BY <1>5, <1>a
  <2>3. /\ old \in Seq(D) /\ Len(old) = k - c
        /\ \A m \in 1..Len(old) : \E i \in 1..k : list[i] \notin gone /\ old[m] = list[i]
        /\ \A i \in 1..k : list[i] \notin gone => \E m \in 1..Len(old) : old[m] = list[i]
        /\ \A m, p \in 1..Len(old) : old[m] = old[p] => m = p
    BY <1>4 DEF KeptInv
  <2>4. kept[k + 1] = old
    BY <1>1, <1>5
  <2> HIDE DEF old
  <2>5. Len(old) = (k + 1) - (c + 1)
    BY <2>3
  <2>6. /\ \A m \in 1..Len(old) : \E i \in 1..(k + 1) : list[i] \notin gone /\ old[m] = list[i]
        /\ \A i \in 1..(k + 1) : list[i] \notin gone => \E m \in 1..Len(old) : old[m] = list[i]
    <3>1. 1..(k + 1) = (1..k) \cup {k + 1}
      OBVIOUS
    <3> QED  BY <1>5, <2>3, <3>1
  <2>2. KeptInv(list, gone, kept, k + 1, D)
    BY <2>1, <2>3, <2>4, <2>5, <2>6, ZenonT(30) DEF KeptInv
  <2> QED  BY <1>3, <2>2, <2>4 DEF old, Begins
<1>6. CASE list[k + 1] \notin gone
  <2> DEFINE new == Append(old, list[k + 1])
             l   == Len(old)
  <2>1. Cardinality(Lost(list, gone, k + 1)) = c
    BY <1>6, <1>a
  <2>2. /\ new \in Seq(D) /\ Len(new) = l + 1 /\ l \in Nat
        /\ new[l + 1] = list[k + 1] /\ \A m \in 1..l : new[m] = old[m]
    BY <1>2, <1>3
  <2>3. kept[k + 1] = new
    BY <1>1, <1>6
  <2>4. /\ l = k - c
        /\ \A m \in 1..l : \E i \in 1..k : list[i] \notin gone /\ old[m] = list[i]
        /\ \A i \in 1..k : list[i] \notin gone => \E m \in 1..l : old[m] = list[i]
        /\ \A m, p \in 1..l : old[m] = old[p] => m = p
    BY <1>4 DEF KeptInv
  <2> HIDE DEF new, old, l
  <2>5. Len(new) = (k + 1) - c
    BY <2>2, <2>4
  <2>6. \A m \in 1..(l + 1) : \E i \in 1..(k + 1) : list[i] \notin gone /\ new[m] = list[i]
    <3> SUFFICES ASSUME NEW m \in 1..(l + 1)  PROVE \E i \in 1..(k + 1) : list[i] \notin gone /\ new[m] = list[i]
      OBVIOUS
    <3>1. CASE m = l + 1
      BY <3>1, <1>6, <2>2
    <3>2. CASE m # l + 1
      <4>1. m \in 1..l
        BY <2>2, <3>2
      <4>2. PICK i \in 1..k : list[i] \notin gone /\ old[m] = list[i]
        BY <2>4, <4>1
      <4> QED  BY <2>2, <4>1, <4>2
    <3> QED  BY <3>1, <3>2
  <2>7. \A i \in 1..(k + 1) : list[i] \notin gone => \E m \in 1..(l + 1) : new[m] = list[i]
    <3> SUFFICES ASSUME NEW i \in 1..(k + 1), list[i] \notin gone  PROVE \E m \in 1..(l + 1) : new[m] = list[i]
      OBVIOUS
    <3>1. CASE i = k + 1
      BY <3>1, <2>2
    <3>2. CASE i # k + 1
      <4>1. PICK m \in 1..l : old[m] = list[i]
        BY <2>4, <3>2
      <4> QED  BY <2>2, <4>1
    <3> QED  BY <3>1, <3>2
  <2>8. \A m \in 1..l : new[m] # new[l + 1]
    <3> SUFFICES ASSUME NEW m \in 1..l, new[m] = new[l + 1]  PROVE FALSE
      OBVIOUS
    <3>1. PICK i \in 1..k : old[m] = list[i]
      BY <2>4
    <3>2. list[i] = list[k + 1]
      BY <2>2, <3>1
    <3>3. i \in 1..Len(list) /\ k + 1 \in 1..Len(list) /\ i # k + 1
      BY <1>2
    <3> QED  BY <3>2, <3>3
  <2>9. \A m, p \in 1..(l + 1) : new[m] = new[p] => m = p
    <3> SUFFICES ASSUME NEW m \in 1..(l + 1), NEW p \in 1..(l + 1), new[m] = new[p]  PROVE m = p
      OBVIOUS
    <3>1. CASE m \in 1..l /\ p \in 1..l
      BY <2>2, <2>4, <3>1
    <3>2. CASE m = l + 1 \/ p = l + 1
      <4>1. m # p => (m \in 1..l /\ p = l + 1) \/ (p \in 1..l /\ m = l + 1)
        BY <2>2, <3>2
      <4> QED  BY <2>8, <4>1
    <3> QED  BY <2>2, <3>1, <3>2
  <2>10. KeptInv(list, gone, kept, k + 1, D)
    <3> USE <2>3
    <3>1. kept[k + 1] \in Seq(D) /\ Len(kept[k + 1]) = l + 1
      BY <2>2
    <3> QED  BY <2>1, <2>2, <2>5, <2>6, <2>7, <2>9, <3>1, ZenonT(30) DEF KeptInv
  <2> QED  BY <2>2, <2>3, <2>10 DEF old, l, Begins
<1> QED  BY <1>5, <1>6

LEMMA KeptHolds ==
  ASSUME NEW D, NEW list \in Seq(D), NEW gone, NEW kept, Keeps(list, gone, kept, Len(list)),
         \A i, j \in 1..Len(list) : list[i] = list[j] => i = j
  PROVE  \A k \in 0..Len(list) : KeptInv(list, gone, kept, k, D)
<1> DEFINE T == {k \in Nat : k <= Len(list) /\ ~KeptInv(list, gone, kept, k, D)}
<1> SUFFICES ASSUME T # {}  PROVE FALSE
  OBVIOUS
<1> HIDE DEF T
<1>1. T \in SUBSET Nat
  BY DEF T
<1>2. PICK m \in T : \A k \in T : m <= k
  BY <1>1, SmallestNumber
<1>3. m \in Nat /\ m <= Len(list) /\ ~KeptInv(list, gone, kept, m, D)
  BY DEF T
<1>4. CASE m = 0
  <2>1. 0 \in 0..Len(list)
    OBVIOUS
  <2>2. kept[0] = <<>>
    BY <2>1 DEF Keeps, KeptUpTo
  <2>3. Cardinality(Lost(list, gone, 0)) = 0
    BY LostGrows, FS_EmptySet
  <2> QED  BY <1>3, <1>4, <2>2, <2>3 DEF KeptInv
<1>5. CASE m # 0
  <2>1. m - 1 \in Nat /\ m - 1 \notin T /\ m - 1 < Len(list) /\ Len(list) \in Nat /\ (m - 1) + 1 = m
    BY <1>1, <1>2, <1>3, <1>5
  <2>2. KeptInv(list, gone, kept, m - 1, D)
    BY <2>1 DEF T
  <2>3. KeptInv(list, gone, kept, (m - 1) + 1, D)
    <3> DEFINE q == m - 1
    <3>1. q \in Nat /\ q < Len(list) /\ KeptInv(list, gone, kept, q, D)
      BY <2>1, <2>2
    <3> HIDE DEF q
    <3>2. KeptInv(list, gone, kept, q + 1, D)
      BY <3>1, KeptStep, Zenon
    <3> QED  BY <3>2 DEF q
  <2> QED  BY <1>3, <2>1, <2>3
<1> QED  BY <1>4, <1>5

(* What is kept of the first k entries comes first in what is kept of all. *)
LEMMA KeptFirst ==
  ASSUME NEW D, NEW list \in Seq(D), NEW gone, NEW kept, Keeps(list, gone, kept, Len(list)),
         \A i, j \in 1..Len(list) : list[i] = list[j] => i = j,
         NEW k \in 0..Len(list)
  PROVE  Begins(kept[k], kept[Len(list)])
<1>b. ASSUME NEW p \in Nat, p < Len(list), KeptInv(list, gone, kept, p, D)
      PROVE  Begins(kept[p], kept[p + 1])
  BY <1>b, KeptStep, Zenon
<1> DEFINE First(n) == Begins(kept[k], kept[n])
           T == {n \in Nat : k <= n /\ n <= Len(list) /\ ~First(n)}
<1>a. Len(list) \in Nat
  OBVIOUS
<1> SUFFICES ASSUME T # {}  PROVE FALSE
  BY <1>a
<1>1. T \in SUBSET Nat
  OBVIOUS
<1>2. PICK m \in T : \A n \in T : m <= n
  BY <1>1, SmallestNumber
<1>3. m \in Nat /\ k <= m /\ m <= Len(list) /\ ~First(m)
  OBVIOUS
<1>4. \A n \in 0..Len(list) : Len(kept[n]) \in Nat
  BY KeptHolds DEF KeptInv
<1>5. m # k
  BY <1>3, <1>4 DEF Begins
<1> DEFINE q == m - 1
<1>6. q \in Nat /\ k <= q /\ q < Len(list) /\ q + 1 = m /\ q < m
  BY <1>3, <1>5, <1>a
<1>7. First(q)
  <2>1. q \notin T
    BY <1>2, <1>6
  <2> QED  BY <1>6, <2>1
<1> HIDE DEF T
<1>8. KeptInv(list, gone, kept, q, D)
  BY <1>6, KeptHolds
<1> HIDE DEF q
<1>9. Begins(kept[q], kept[q + 1])
  BY <1>6, <1>8, <1>b
<1>10. First(q + 1)
  BY <1>4, <1>6, <1>7, <1>9, <1>a DEF Begins
<1> QED  BY <1>3, <1>6, <1>10

(* When entries leave, those from place n on move up by as many places as  *)
(* entries left before it, and no more than so many come to lie before it. *)
Rest(list, n) == {list[i] : i \in n..Len(list)}
Passed(gone, n) == {i \in 1..(n - 1) : i \in DOMAIN connections /\ connections[i] \in gone}
Distinct(list) == \A i, j \in 1..Len(list) : list[i] = list[j] => i = j

Slips(gone, n) == (Rest(connections, n) \ gone) \ Rest(Without(gone), n)

LEMMA WithoutShifts ==
  ASSUME connections \in Seq(Dashboard), Distinct(connections), NEW gone, NEW n \in Nat \ {0}
  PROVE  /\ Without(gone) \in Seq(Dashboard) /\ Distinct(Without(gone))
         /\ Rest(Without(gone), n) \subseteq Rest(connections, n) \ gone
         /\ IsFiniteSet(Slips(gone, n)) /\ Cardinality(Slips(gone, n)) <= Cardinality(Passed(gone, n))
<1> DEFINE l == Len(connections)
           w == Without(gone)
<1>1. l \in Nat /\ DOMAIN connections = 1..l
  OBVIOUS
<1>2. PICK kept : Keeps(connections, gone, kept, l) /\ w = kept[l]
  BY <1>1, WithoutIs
<1>3. \A k \in 0..l : KeptInv(connections, gone, kept, k, Dashboard)
  BY <1>2, KeptHolds DEF Distinct
<1>4. \A k \in 0..l : Begins(kept[k], w)
  BY <1>2, KeptFirst DEF Distinct
<1>5. l \in 0..l
  BY <1>1
<1>6. /\ w \in Seq(Dashboard) /\ Distinct(w)
      /\ \A m \in 1..Len(w) : \E i \in 1..l : connections[i] \notin gone /\ w[m] = connections[i]
      /\ \A i \in 1..l : connections[i] \notin gone => \E m \in 1..Len(w) : w[m] = connections[i]
  BY <1>2, <1>3, <1>5 DEF KeptInv, Distinct
<1> DEFINE k == IF n - 1 <= l THEN n - 1 ELSE l
           a == kept[k]
           c == Cardinality(Lost(connections, gone, k))
<1>7. k \in 0..l /\ k <= n - 1 /\ k \in Nat
  BY <1>1
<1>8. Passed(gone, n) = Lost(connections, gone, k)
  BY <1>1 DEF Passed, Lost
<1> HIDE DEF k, w, l
<1>9. /\ c \in Nat /\ Len(a) = k - c /\ a \in Seq(Dashboard) /\ Begins(a, w)
      /\ \A i \in 1..k : connections[i] \notin gone => \E m \in 1..Len(a) : a[m] = connections[i]
      /\ \A p \in 1..Len(a) : \E i \in 1..k : a[p] = connections[i]
  <2>1. KeptInv(connections, gone, kept, k, Dashboard) /\ Begins(a, w)
    BY <1>3, <1>4, <1>7
  <2>2. c \in Nat
    BY <1>7, LostGrows
  <2> QED  BY <2>1, <2>2 DEF KeptInv
<1> HIDE DEF a, c
<1>10. ASSUME NEW m \in n..Len(w)  PROVE w[m] \in Rest(connections, n) \ gone
  <2>1. m \in 1..Len(w) /\ Len(w) \in Nat
    BY <1>6
  <2>2. PICK i \in 1..l : connections[i] \notin gone /\ w[m] = connections[i]
    BY <1>6, <2>1
  <2>3. i >= n
    <3> SUFFICES ASSUME i < n  PROVE FALSE
      BY <1>1
    <3>1. i \in 1..k
      BY <1>1 DEF k
    <3>2. PICK p \in 1..Len(a) : a[p] = connections[i]
      BY <1>9, <2>2, <3>1
    <3>3. w[p] = a[p] /\ p \in 1..Len(w) /\ p < m
      BY <1>7, <1>9, <2>1, <3>2, SMTT(20) DEF Begins
    <3> QED  BY <1>6, <2>1, <2>2, <3>2, <3>3 DEF Distinct
  <2> QED  BY <1>1, <2>2, <2>3 DEF Rest, l
<1>11. Rest(w, n) \subseteq Rest(connections, n) \ gone
  BY <1>10 DEF Rest
<1> DEFINE slips  == (Rest(connections, n) \ gone) \ Rest(w, n)
           places == (n - c)..(n - 1)
<1>12. ASSUME NEW d \in slips  PROVE \E m \in places : d = w[m]
  <2>1. PICK i \in n..l : d = connections[i] /\ connections[i] \notin gone
    BY DEF Rest, l
  <2>2. i \in 1..l /\ k = n - 1
    BY <1>1, <2>1 DEF k
  <2>3. PICK m \in 1..Len(w) : w[m] = connections[i]
    BY <1>6, <2>1, <2>2
  <2>4. m < n
    <3> SUFFICES ASSUME m >= n  PROVE FALSE
      BY <1>6
    <3>1. m \in n..Len(w)
      BY <1>6
    <3> QED  BY <2>1, <2>3, <3>1 DEF Rest
  <2>5. m > Len(a)
    <3>a. m \in Nat /\ 1 <= m /\ Len(a) \in Nat
      BY <1>6, <1>9
    <3> SUFFICES ASSUME m \in 1..Len(a)  PROVE FALSE
      BY <3>a
    <3>1. PICK j \in 1..k : a[m] = connections[j]
      BY <1>9
    <3>2. w[m] = a[m]
      BY <1>9 DEF Begins
    <3>3. j # i /\ j \in 1..l
      BY <1>1, <1>7, <2>1, <2>2
    <3> QED  BY <2>2, <2>3, <3>1, <3>2, <3>3 DEF Distinct, l
  <2> QED  BY <1>6, <1>9, <2>1, <2>2, <2>3, <2>4, <2>5
<1>13. IsFiniteSet(places) /\ Cardinality(places) = c
  <2>1. n - c \in Int /\ n - 1 \in Int /\ (n - c > n - 1 <=> c = 0) /\ (n - 1) - (n - c) + 1 = c
    BY <1>9
  <2> QED  BY <2>1, FS_Interval
<1>14. IsFiniteSet(slips) /\ Cardinality(slips) <= c
  <2> DEFINE image == {w[m] : m \in places}
  <2>1. IsFiniteSet(image) /\ Cardinality(image) <= Cardinality(places)
    <3> DEFINE f == [m \in places |-> w[m]]
    <3>1. f \in Surjection(places, image)
      BY DEF Surjection
    <3> HIDE DEF f, image, places
    <3> QED  BY <1>13, <3>1, FS_Surjection
  <2>2. slips \subseteq image
    BY <1>12
  <2> HIDE DEF image, slips, places
  <2>3. IsFiniteSet(slips) /\ Cardinality(slips) <= Cardinality(image)
    BY <2>1, <2>2, FS_Subset
  <2>4. Cardinality(slips) \in Nat /\ Cardinality(image) \in Nat
    BY <2>1, <2>3, FS_CardinalityType
  <2> QED  BY <1>9, <1>13, <2>1, <2>3, <2>4
<1> HIDE DEF slips
<1> QED  BY <1>6, <1>8, <1>11, <1>14 DEF w, c, slips, Slips

(***************************************************************************)
(* The invariant: of the dashboards a broadcast owes its message, those it *)
(* has neither dealt with nor before it are as many as it counted at most. *)
(***************************************************************************)
Shape(w) ==
  w = [features |-> w.features, raised |-> w.raised, whole |-> w.whole, todo |-> w.todo,
       to |-> w.to, next |-> w.next, heard |-> w.heard, failed |-> w.failed, owed |-> w.owed,
       cut |-> w.cut]

Dealt(w) == w.heard \cup w.failed \cup w.to

Skipped(w, list) == w.owed \ (Dealt(w) \cup Rest(list, w.next))

Sends(w, list) ==
  /\ w.next \in Nat \ {0} /\ w.cut \in Nat /\ w.owed \subseteq Dashboard
  /\ w.to \cap (w.heard \cup w.failed) = {}
  /\ Rest(list, w.next) \cap Dealt(w) = {}
  /\ Cardinality(Skipped(w, list)) <= w.cut

Handles(w, list) == w # Quiet => /\ Shape(w) /\ w.todo \in Nat \ {0}
                                 /\ w.to # {} => Sends(w, list)

FeedInv ==
  /\ connections \in Seq(Dashboard) /\ Distinct(connections)
  /\ handler = [h \in Handler |-> handler[h]]
  /\ \A h \in Handler : Handles(handler[h], connections)

LEMMA SubsetCounts ==
  ASSUME NEW S \in SUBSET Dashboard
  PROVE  IsFiniteSet(S) /\ Cardinality(S) \in Nat /\ Cardinality(S) <= Cardinality(Dashboard)
         /\ Cardinality(Dashboard) \in Nat
  BY FeedAssumption, FS_Subset, FS_CardinalityType

(* A handler whose broadcast is not under way.                             *)
LEMMA WaitingHandles ==
  ASSUME NEW todo \in Nat, NEW list
  PROVE  Handles(Waiting(todo), list)
  BY DEF Waiting, Handling, Handles, Shape, Quiet

LEMMA ShiftHandles ==
  ASSUME connections \in Seq(Dashboard), Distinct(connections), NEW gone, NEW w, Handles(w, connections)
  PROVE  Handles(Shifted(w, gone), Without(gone))
<1>a. ASSUME NEW n \in Nat \ {0}
      PROVE  /\ Rest(Without(gone), n) \subseteq Rest(connections, n) \ gone
             /\ IsFiniteSet(Slips(gone, n)) /\ Cardinality(Slips(gone, n)) <= Cardinality(Passed(gone, n))
  BY WithoutShifts
<1> DEFINE new == Shifted(w, gone)
           left == Without(gone)
           cut == w.cut + Cardinality(Passed(gone, w.next))
<1>1. CASE w = Quiet
  BY <1>1 DEF Shifted, Handles
<1>2. CASE w # Quiet /\ w.to = {}
  <2>1. Shape(w) /\ w.todo \in Nat \ {0}
    BY <1>2 DEF Handles
  <2>2. Shape(new) /\ new.todo = w.todo /\ new.to = {}
    BY <1>2, <2>1 DEF Shifted, Shape
  <2> QED  BY <2>1, <2>2 DEF Handles
<1>3. CASE w # Quiet /\ w.to # {}
  <2>1. Shape(w) /\ w.todo \in Nat \ {0} /\ Sends(w, connections)
    BY <1>3 DEF Handles
  <2> DEFINE n == w.next
             slips == Slips(gone, n)
             R == w.heard \cup w.failed \cup w.to
             missed == Skipped(w, connections)
  <2>2. n \in Nat \ {0} /\ w.cut \in Nat /\ w.owed \subseteq Dashboard
    BY <2>1 DEF Sends
  <2>3. /\ Rest(left, n) \subseteq Rest(connections, n) \ gone
        /\ IsFiniteSet(slips) /\ Cardinality(slips) <= Cardinality(Passed(gone, n))
    BY <1>a, <2>2
  <2>4. Passed(gone, n) \in SUBSET (1..(n - 1)) /\ IsFiniteSet(1..(n - 1))
    <3>1. Passed(gone, n) \in SUBSET (1..(n - 1))
      BY DEF Passed
    <3> HIDE DEF n
    <3>2. 1 \in Int /\ n - 1 \in Int
      BY <2>2
    <3> QED  BY <3>1, <3>2, FS_Interval
  <2>5. Cardinality(Passed(gone, n)) \in Nat
    BY <2>4, FS_Subset, FS_CardinalityType
  <2>6. Cardinality(Dashboard) \in Nat
    BY SubsetCounts
  <2>7. PICK c \in Nat : c = w.cut + Cardinality(Passed(gone, n))
    BY <2>2, <2>5
  <2>8. /\ Shape(new) /\ new.todo = w.todo /\ new.to = w.to /\ new.next = w.next
        /\ new.heard = w.heard /\ new.failed = w.failed
        /\ new.owed = w.owed \ gone
        /\ new.cut \in Nat /\ (new.cut = c \/ new.cut >= Cardinality(Dashboard))
    <3>1. CASE gone = {}
      <4>1. Passed(gone, n) = {}
        BY <3>1 DEF Passed
      <4>2. c = w.cut
        BY <2>2, <2>7, <4>1, FS_EmptySet
      <4>3. new = w /\ w.owed \ gone = w.owed
        BY <3>1 DEF Shifted
      <4> QED  BY <2>1, <2>2, <4>2, <4>3
    <3>2. CASE gone # {}
      <4> DEFINE top == IF c < Cardinality(Dashboard) THEN c ELSE Cardinality(Dashboard)
      <4>1. new = [w EXCEPT !.owed = @ \ gone, !.cut = top]
        <5>1. Passed(gone, n) = {i \in 1..(w.next - 1) : i \in DOMAIN connections /\ connections[i] \in gone}
          BY DEF Passed
        <5> HIDE DEF n
        <5> QED  BY <1>3, <2>7, <3>2, <5>1 DEF Shifted
      <4>2. top \in Nat /\ (top = c \/ top >= Cardinality(Dashboard))
        BY <2>6, <2>7
      <4> HIDE DEF top, new
      <4> QED  BY <2>1, <4>1, <4>2 DEF Shape
    <3> QED  BY <3>1, <3>2
  <2> HIDE DEF new
  <2>9. Skipped(new, left) \subseteq missed \cup slips
    BY <2>8 DEF Skipped, Dealt, Slips
  <2>10. IsFiniteSet(missed) /\ Cardinality(missed) \in Nat /\ Cardinality(missed) <= w.cut
    <3>1. missed \in SUBSET Dashboard
      BY <2>2 DEF Skipped
    <3> HIDE DEF missed
    <3>2. IsFiniteSet(missed) /\ Cardinality(missed) \in Nat
      BY <3>1, SubsetCounts
    <3> QED  BY <2>1, <3>2 DEF Sends, missed
  <2>11. Skipped(new, left) \in SUBSET Dashboard
    BY <2>2, <2>8 DEF Skipped
  <2> HIDE DEF missed, slips
  <2>12. Cardinality(slips) \in Nat
    BY <2>3, FS_CardinalityType
  <2>13. IsFiniteSet(missed \cup slips) /\ Cardinality(missed \cup slips) <= Cardinality(missed) + Cardinality(slips)
    <3>1. IsFiniteSet(missed \cap slips) 
      BY <2>10, FS_Subset
    <3>2. Cardinality(missed \cap slips) \in Nat
      BY <3>1, FS_CardinalityType
    <3>3. Cardinality(missed \cup slips) = Cardinality(missed) + Cardinality(slips) - Cardinality(missed \cap slips)
          /\ IsFiniteSet(missed \cup slips)
      BY <2>3, <2>10, FS_Union
    <3> QED  BY <2>10, <2>12, <3>2, <3>3
  <2>14. Cardinality(missed \cup slips) \in Nat
    BY <2>13, FS_CardinalityType
  <2>15. Cardinality(Skipped(new, left)) <= Cardinality(missed \cup slips)
         /\ Cardinality(Skipped(new, left)) \in Nat
         /\ Cardinality(Skipped(new, left)) <= Cardinality(Dashboard)
    BY <2>9, <2>11, <2>13, FS_Subset, SubsetCounts
  <2>16. Cardinality(Skipped(new, left)) <= c
    BY <2>2, <2>3, <2>5, <2>7, <2>10, <2>12, <2>13, <2>14, <2>15
  <2>17. Cardinality(Skipped(new, left)) <= new.cut
    BY <2>6, <2>8, <2>15, <2>16
  <2>18. Rest(left, new.next) \cap Dealt(new) = {} /\ new.to \cap (new.heard \cup new.failed) = {}
    <3>1. Dealt(new) = Dealt(w)
      BY <2>8 DEF Dealt
    <3>2. Rest(connections, n) \cap Dealt(w) = {} /\ w.to \cap (w.heard \cup w.failed) = {}
      BY <2>1 DEF Sends
    <3>3. Rest(left, new.next) \subseteq Rest(connections, n)
      BY <2>3, <2>8
    <3> HIDE DEF n, left
    <3> QED  BY <2>8, <3>1, <3>2, <3>3
  <2>19. Sends(new, left)
    <3>1. new.next \in Nat \ {0} /\ new.cut \in Nat /\ new.owed \subseteq Dashboard
      BY <2>2, <2>8
    <3> HIDE DEF left
    <3> QED  BY <2>17, <2>18, <3>1 DEF Sends
  <2> QED  BY <2>1, <2>8, <2>19, Zenon DEF Handles, new
<1> QED  BY <1>1, <1>2, <1>3

LEMMA RaisedCounts ==
  ASSUME NEW raised \in SUBSET Models
  PROVE  Cardinality(raised) + 1 \in Nat \ {0}
<1>1. IsFiniteSet({"xgboost"} \cup {"isolation_forest"}) /\ Models = {"xgboost"} \cup {"isolation_forest"}
  BY FS_Singleton, FS_Union DEF Models
<1>2. Cardinality(raised) \in Nat
  BY <1>1, FS_Subset, FS_CardinalityType
<1> QED BY <1>2

LEMMA IngestKeepsFeedInv ==
  ASSUME FeedInv, NEW h \in Handler,
         (\E batch \in Batches : ingest_traffic(h, batch)) \/ ingest_payload(h)
  PROVE  FeedInv'
<1>1. connections' = connections
  BY DEF ingest_traffic, ingest_payload
<1>2. \E w : Handles(w, connections) /\ handler' = [handler EXCEPT ![h] = w]
  <2>1. CASE \E batch \in Batches : ingest_traffic(h, batch)
    <3>1. PICK batch \in Batches : ingest_traffic(h, batch)
      BY <2>1
    <3> DEFINE v == compute_features(batch)
               Begun(raised, whole) ==
                 handler' = [handler EXCEPT ![h] = Handling(v, raised, whole, Cardinality(raised) + 1)]
    <3>2. PICK raising \in (IF batch = <<>> THEN {{}} ELSE Verdicts(v)), whole \in BOOLEAN :
            \E raised \in SUBSET raising : Begun(raised, whole)
      BY <3>1, Zenon DEF ingest_traffic
    <3>3. PICK raised \in SUBSET raising : Begun(raised, whole)
      BY <3>2
    <3>4. raising \in SUBSET Models
      BY <3>2 DEF Verdicts
    <3>5. Cardinality(raised) + 1 \in Nat \ {0}
      BY <3>3, <3>4, RaisedCounts
    <3> HIDE DEF v
    <3>6. Handles(Handling(v, raised, whole, Cardinality(raised) + 1), connections)
      BY <3>5 DEF Handles, Handling, Shape
    <3> QED  BY <3>3, <3>6
  <2>2. CASE ingest_payload(h)
    <3>1. PICK n \in 1..(MaxAlerts + 1) : handler' = [handler EXCEPT ![h] = Waiting(n)]
      BY <2>2 DEF ingest_payload
    <3>2. n \in Nat
      BY FeedAssumption
    <3> QED  BY <3>1, <3>2, WaitingHandles, Zenon
  <2> QED  BY <2>1, <2>2
<1>3. PICK w : Handles(w, connections) /\ handler' = [handler EXCEPT ![h] = w]
  BY <1>2
<1>4. \A g \in Handler : handler'[g] = IF g = h THEN w ELSE handler[g]
  BY <1>3 DEF FeedInv
<1>5. handler' = [g \in Handler |-> handler'[g]]
  BY <1>3 DEF FeedInv
<1> QED  BY <1>1, <1>3, <1>4, <1>5 DEF FeedInv

Goes(new, w, to, next)         == new = [w EXCEPT !.to = to, !.next = next]
Starts(new, w, to, next, owed) == new = [w EXCEPT !.to = to, !.next = next, !.owed = owed]

LEMMA GoesTo ==
  ASSUME NEW w, Shape(w), NEW to, NEW next, NEW new, Goes(new, w, to, next)
  PROVE  /\ Shape(new) /\ new.to = to /\ new.next = next
         /\ new.todo = w.todo /\ new.heard = w.heard /\ new.failed = w.failed /\ new.cut = w.cut
         /\ new.owed = w.owed
<1> DEFINE x == [w EXCEPT !.to = to]
<1>1. /\ Shape(x) /\ x.to = to /\ x.todo = w.todo /\ x.heard = w.heard /\ x.failed = w.failed
      /\ x.cut = w.cut /\ x.owed = w.owed
  BY DEF Shape
<1>2. new = [x EXCEPT !.next = next]
  BY DEF Goes
<1> HIDE DEF x
<1> QED  BY <1>1, <1>2 DEF Shape

LEMMA StartsWith ==
  ASSUME NEW w, Shape(w), NEW to, NEW next, NEW owed, NEW new, Starts(new, w, to, next, owed)
  PROVE  /\ Shape(new) /\ new.to = to /\ new.next = next /\ new.owed = owed
         /\ new.todo = w.todo /\ new.heard = w.heard /\ new.failed = w.failed /\ new.cut = w.cut
<1> DEFINE x == [w EXCEPT !.to = to, !.next = next]
<1>1. /\ Shape(x) /\ x.to = to /\ x.next = next
      /\ x.todo = w.todo /\ x.heard = w.heard /\ x.failed = w.failed /\ x.cut = w.cut
  <2>1. Goes(x, w, to, next)
    BY DEF Goes
  <2> HIDE DEF x
  <2> QED  BY <2>1, GoesTo
<1>2. new = [x EXCEPT !.owed = owed]
  BY DEF Starts
<1> HIDE DEF x
<1> QED  BY <1>1, <1>2 DEF Shape

(* A broadcast begins with everybody ahead of it.                          *)
LEMMA BeginKeepsFeedInv ==
  ASSUME FeedInv, NEW h \in Handler, BeginBroadcast(h)
  PROVE  FeedInv'
<1> DEFINE w == IF connections = <<>> THEN Waiting(handler[h].todo - 1)
                ELSE [Waiting(handler[h].todo) EXCEPT !.to = {connections[1]}, !.next = 2,
                                                      !.owed = ToSet(connections)]
           todo == handler[h].todo
<1>1. /\ connections' = connections /\ handler[h] # Quiet
      /\ handler' = [handler EXCEPT ![h] = w]
  BY DEF BeginBroadcast, Busy
<1>2. todo \in Nat \ {0} /\ connections \in Seq(Dashboard)
  BY <1>1 DEF FeedInv, Handles
<1>3. Handles(w, connections)
  <2>1. CASE connections = <<>>
    <3>1. todo - 1 \in Nat
      BY <1>2
    <3> QED  BY <2>1, <3>1, WaitingHandles
  <2>2. CASE connections # <<>>
    <3> DEFINE before == Waiting(todo)
    <3>1. /\ Shape(before) /\ before.todo = todo /\ before.heard = {} /\ before.failed = {}
          /\ before.cut = 0
      <4> HIDE DEF todo
      <4>1. before = Handling(<<>>, {}, FALSE, todo)
        BY <1>2 DEF Waiting
      <4> HIDE DEF before
      <4> QED  BY <4>1, Zenon DEF Handling, Shape
    <3>a. w = [before EXCEPT !.to = {connections[1]}, !.next = 2, !.owed = ToSet(connections)]
      BY <2>2
    <3> HIDE DEF w, todo, before
    <3>2. /\ w.to = {connections[1]} /\ w.next = 2 /\ w.heard = {} /\ w.failed = {}
          /\ w.owed = ToSet(connections) /\ w.cut = 0 /\ Shape(w) /\ w.todo = todo
      <4> DEFINE owed == ToSet(connections)
                 to == {connections[1]}
      <4>1. Shape(before) /\ Starts(w, before, to, 2, owed)
        BY <3>1, <3>a DEF Starts
      <4> HIDE DEF owed, to
      <4>2. /\ Shape(w) /\ w.to = to /\ w.next = 2 /\ w.owed = owed
            /\ w.todo = before.todo /\ w.heard = before.heard /\ w.failed = before.failed
            /\ w.cut = before.cut
        BY <4>1, StartsWith
      <4> QED  BY <3>1, <4>2, Zenon DEF owed, to
    <3>3. 1 \in 1..Len(connections) /\ Len(connections) \in Nat
      BY <1>2, <2>2
    <3>4. ToSet(connections) = {connections[1]} \cup Rest(connections, 2)
      <4>1. 1..Len(connections) = {1} \cup 2..Len(connections)
        BY <3>3
      <4>2. ToSet(connections) = {connections[i] : i \in 1..Len(connections)}
        BY <1>2 DEF ToSet
      <4> QED  BY <4>1, <4>2 DEF Rest
    <3>5. connections[1] \notin Rest(connections, 2)
      BY <3>3 DEF Rest, FeedInv, Distinct
    <3>6. Skipped(w, connections) = {}
      BY <3>2, <3>4 DEF Skipped, Dealt
    <3>7. w.owed \subseteq Dashboard
      BY <1>2, <3>2 DEF ToSet
    <3>8. Sends(w, connections)
      BY <3>2, <3>5, <3>6, <3>7, FS_EmptySet DEF Sends, Dealt
    <3> QED  BY <1>2, <3>2, <3>8 DEF Handles
  <2> QED  BY <2>1, <2>2
<1> HIDE DEF w
<1>4. \A g \in Handler : handler'[g] = IF g = h THEN w ELSE handler[g]
  BY <1>1 DEF FeedInv
<1>5. handler' = [g \in Handler |-> handler'[g]]
  BY <1>1 DEF FeedInv
<1> QED  BY <1>1, <1>3, <1>4, <1>5 DEF FeedInv

(* A send moves a dashboard from ahead to dealt with; the last one removes *)
(* those that failed, and the other broadcasts shift.                      *)
LEMMA SentKeepsFeedInv ==
  ASSUME FeedInv, NEW h \in Handler, Sent(h)
  PROVE  FeedInv'
<1> DEFINE w == handler[h]
           l == Len(connections)
<1>1. w # Quiet /\ w.to # {}
  BY DEF Sent, Sending, Busy
<1>2. /\ Shape(w) /\ w.todo \in Nat \ {0} /\ Sends(w, connections)
      /\ connections \in Seq(Dashboard) /\ Distinct(connections) /\ l \in Nat
  BY <1>1 DEF FeedInv, Handles
<1> DEFINE fails == [w EXCEPT !.failed = @ \cup w.to]
           hears == [w EXCEPT !.heard = @ \cup w.to]
           Follows(done) ==
             IF w.next <= l
             THEN /\ handler' = [handler EXCEPT
                       ![h] = [done EXCEPT !.to = {connections[w.next]}, !.next = @ + 1]]
                  /\ UNCHANGED connections
             ELSE /\ handler' = [g \in Handler |->
                       IF g = h THEN Waiting(w.todo - 1) ELSE Shifted(handler[g], done.failed)]
                  /\ connections' = Without(done.failed)
<1>a. \E raised : Follows(IF raised THEN fails ELSE hears)
  BY ZenonT(30) DEF Sent
<1>3. PICK done : (done = fails \/ done = hears) /\ Follows(done)
  <2> HIDE DEF fails, hears, Follows
  <2> QED  BY <1>a, Zenon
<1>4. CASE w.next <= l
  <2> DEFINE n    == w.next
             new  == [done EXCEPT !.to = {connections[n]}, !.next = n + 1]
             next == connections[n]
  <2>1. /\ Shape(done) /\ done.heard \cup done.failed = w.heard \cup w.failed \cup w.to
        /\ done.next = n /\ done.todo = w.todo /\ done.owed = w.owed /\ done.cut = w.cut
    BY <1>2, <1>3 DEF Shape
  <2>2. handler' = [handler EXCEPT ![h] = new] /\ connections' = connections
    BY <1>3, <1>4, <2>1
  <2>3. /\ Shape(new) /\ new.to = {next} /\ new.next = n + 1 /\ new.todo = w.todo /\ new.owed = w.owed
        /\ new.cut = w.cut /\ new.heard \cup new.failed = w.heard \cup w.failed \cup w.to
    <3> DEFINE to == {next}
    <3>1. Goes(new, done, to, n + 1)
      BY DEF Goes
    <3> HIDE DEF n, w, to, new
    <3>3. /\ Shape(new) /\ new.to = to /\ new.next = n + 1 /\ new.todo = done.todo /\ new.owed = done.owed
          /\ new.cut = done.cut /\ new.heard = done.heard /\ new.failed = done.failed
      BY <2>1, <3>1, GoesTo
    <3> QED  BY <2>1, <3>3 DEF to
  <2>4. n \in 1..l /\ n \in Nat \ {0} /\ w.cut \in Nat /\ w.owed \subseteq Dashboard
    BY <1>2, <1>4 DEF Sends
  <2> HIDE DEF new
  <2>5. Rest(connections, n) = {next} \cup Rest(connections, n + 1)
    <3> HIDE DEF n, l
    <3>1. n..l = {n} \cup (n + 1)..l
      BY <1>2, <2>4
    <3> QED  BY <3>1 DEF Rest, l
  <2>6. next \notin Rest(connections, n + 1)
    <3> SUFFICES ASSUME NEW i \in (n + 1)..l, connections[i] = next  PROVE FALSE
      BY DEF Rest
    <3> HIDE DEF n
    <3>1. i \in 1..l /\ i # n
      BY <1>2, <2>4
    <3> QED  BY <1>2, <2>4, <3>1 DEF Distinct
  <2>7. /\ w.to \cap (w.heard \cup w.failed) = {}
        /\ Rest(connections, n) \cap (w.heard \cup w.failed \cup w.to) = {}
        /\ Cardinality(Skipped(w, connections)) <= w.cut
    BY <1>2 DEF Sends, Dealt
  <2>8. Skipped(new, connections) = Skipped(w, connections)
    BY <2>3, <2>5 DEF Skipped, Dealt
  <2>9. Sends(new, connections)
    <3>1. new.next \in Nat \ {0} /\ new.cut \in Nat /\ new.owed \subseteq Dashboard
      BY <2>3, <2>4
    <3>2. new.to \cap (new.heard \cup new.failed) = {}
      BY <2>3, <2>5, <2>7
    <3>3. Rest(connections, new.next) \cap Dealt(new) = {}
      BY <2>3, <2>5, <2>6, <2>7 DEF Dealt
    <3> QED  BY <2>3, <2>7, <2>8, <3>1, <3>2, <3>3 DEF Sends
  <2>10. Handles(new, connections)
    BY <1>2, <2>3, <2>9 DEF Handles
  <2>11. \A g \in Handler : handler'[g] = IF g = h THEN new ELSE handler[g]
    BY <2>2 DEF FeedInv
  <2>12. handler' = [g \in Handler |-> handler'[g]]
    BY <2>2 DEF FeedInv
  <2> QED  BY <2>2, <2>10, <2>11, <2>12 DEF FeedInv
<1>5. CASE ~(w.next <= l)
  <2> DEFINE gone == done.failed
             left == Without(gone)
  <2>1. /\ handler' = [g \in Handler |->
              IF g = h THEN Waiting(w.todo - 1) ELSE Shifted(handler[g], gone)]
        /\ connections' = left
    BY <1>3, <1>5
  <2> HIDE DEF gone
  <2>2. left \in Seq(Dashboard) /\ Distinct(left)
    <3>1. 1 \in Nat \ {0}
      OBVIOUS
    <3> QED  BY <1>2, <3>1, WithoutShifts
  <2>3. w.todo - 1 \in Nat
    BY <1>2
  <2>4. ASSUME NEW g \in Handler  PROVE Handles(handler'[g], left)
    <3>1. Handles(handler[g], connections)
      BY DEF FeedInv
    <3>2. Handles(Waiting(w.todo - 1), left)
      BY <2>3, WaitingHandles
    <3>3. Handles(Shifted(handler[g], gone), left)
      BY <1>2, <3>1, ShiftHandles
    <3> QED  BY <2>1, <3>2, <3>3, Zenon
  <2> QED  BY <2>1, <2>2, <2>4 DEF FeedInv
<1> QED  BY <1>4, <1>5

LEMMA ConnectKeepsFeedInv ==
  ASSUME FeedInv, NEW d \in Dashboard, Connect(d)
  PROVE  FeedInv'
<1> DEFINE new == Append(connections, d)
           l   == Len(connections)
<1>1. /\ connections' = new /\ handler' = handler /\ d \notin ToSet(connections)
      /\ \A h \in Handler : handler[h] # Quiet => d \notin Dealt(handler[h])
  BY DEF Connect, Accepted, Busy, Reached, Dealt
<1>2. /\ connections \in Seq(Dashboard) /\ Distinct(connections) /\ l \in Nat
      /\ new \in Seq(Dashboard) /\ Len(new) = l + 1 /\ new[l + 1] = d
      /\ \A i \in 1..l : new[i] = connections[i]
  BY DEF FeedInv
<1>3. Distinct(new)
  <2>1. \A i \in 1..l : connections[i] # d
    BY <1>1, <1>2 DEF ToSet
  <2> HIDE DEF new, l
  <2> SUFFICES ASSUME NEW i \in 1..(l + 1), NEW j \in 1..(l + 1), new[i] = new[j]  PROVE i = j
    BY <1>2 DEF Distinct
  <2>2. (i \in 1..l \/ i = l + 1) /\ (j \in 1..l \/ j = l + 1)
    BY <1>2
  <2> QED  BY <1>2, <2>1, <2>2 DEF Distinct, l
<1> HIDE DEF new, l
<1>4. ASSUME NEW n \in Nat \ {0}
      PROVE  /\ Rest(connections, n) \subseteq Rest(new, n)
             /\ Rest(new, n) \subseteq Rest(connections, n) \cup {d}
  <2>1. \A i \in n..l : i \in n..(l + 1) /\ i \in 1..l
    BY <1>2
  <2>2. \A i \in n..(l + 1) : i \in n..l \/ i = l + 1
    BY <1>2
  <2>3. Rest(connections, n) = {connections[i] : i \in n..l} /\ Rest(new, n) = {new[i] : i \in n..(l + 1)}
    BY <1>2 DEF Rest, l
  <2> QED  BY <1>2, <2>1, <2>2, <2>3
<1>5. ASSUME NEW h \in Handler, handler[h] # Quiet, handler[h].to # {}
      PROVE  Sends(handler[h], new)
  <2> DEFINE w == handler[h]
  <2>1. Sends(w, connections)
    BY <1>5 DEF FeedInv, Handles
  <2>2. d \notin Dealt(w)
    BY <1>1, <1>5
  <2>3. w.next \in Nat \ {0} /\ w.owed \subseteq Dashboard /\ w.cut \in Nat
    BY <2>1 DEF Sends
  <2> HIDE DEF w
  <2>4. /\ Rest(connections, w.next) \subseteq Rest(new, w.next)
        /\ Rest(new, w.next) \subseteq Rest(connections, w.next) \cup {d}
    BY <1>4, <2>3
  <2>5. Rest(new, w.next) \cap Dealt(w) = {}
    BY <2>1, <2>2, <2>4 DEF Sends
  <2>6. Skipped(w, new) \subseteq Skipped(w, connections) /\ Skipped(w, connections) \in SUBSET Dashboard
    BY <2>3, <2>4 DEF Skipped
  <2>7. IsFiniteSet(Skipped(w, connections)) /\ Cardinality(Skipped(w, connections)) \in Nat
    BY <2>6, SubsetCounts
  <2>8. Skipped(w, new) \in SUBSET Dashboard
    BY <2>6
  <2>9. Cardinality(Skipped(w, new)) \in Nat
    BY <2>8, SubsetCounts
  <2>10. Cardinality(Skipped(w, new)) <= Cardinality(Skipped(w, connections))
    BY <2>6, <2>7, FS_Subset
  <2>11. Cardinality(Skipped(w, connections)) <= w.cut
    BY <2>1 DEF Sends
  <2>12. Cardinality(Skipped(w, new)) <= w.cut
    BY <2>3, <2>7, <2>9, <2>10, <2>11
  <2> QED  BY <2>1, <2>5, <2>12 DEF Sends, w
<1>6. \A h \in Handler : Handles(handler[h], new)
  BY <1>5 DEF FeedInv, Handles
<1> QED  BY <1>1, <1>2, <1>3, <1>6 DEF FeedInv

LEMMA FeedNextInv == FeedInv /\ [FeedNext]_feed => FeedInv'
<1> SUFFICES ASSUME FeedInv, [FeedNext]_feed  PROVE FeedInv'
  OBVIOUS
<1>1. ASSUME NEW h \in Handler, (\E batch \in Batches : ingest_traffic(h, batch)) \/ ingest_payload(h)
      PROVE  FeedInv'
  BY <1>1, IngestKeepsFeedInv
<1>2. ASSUME NEW h \in Handler, BeginBroadcast(h)  PROVE FeedInv'
  BY <1>2, BeginKeepsFeedInv
<1>3. ASSUME NEW h \in Handler, Sent(h)  PROVE FeedInv'
  BY <1>3, SentKeepsFeedInv
<1>4. ASSUME NEW d \in Dashboard, Connect(d)  PROVE FeedInv'
  BY <1>4, ConnectKeepsFeedInv
<1>5. ASSUME NEW d \in Dashboard, Breaks(d)  PROVE FeedInv'
  BY <1>5 DEF Breaks, FeedInv
<1>6. ASSUME NEW d \in Dashboard, Leaves(d)  PROVE FeedInv'
  <2> DEFINE left == Without({d})
  <2>1. connections' = left /\ handler' = [h \in Handler |-> Shifted(handler[h], {d})]
    BY <1>6 DEF Leaves
  <2>2. connections \in Seq(Dashboard) /\ Distinct(connections)
    BY DEF FeedInv
  <2>3. left \in Seq(Dashboard) /\ Distinct(left)
    <3>1. 1 \in Nat \ {0}
      OBVIOUS
    <3> QED  BY <2>2, <3>1, WithoutShifts
  <2>4. ASSUME NEW h \in Handler  PROVE Handles(handler'[h], left)
    <3>1. Handles(handler[h], connections)
      BY DEF FeedInv
    <3>2. Handles(Shifted(handler[h], {d}), left)
      BY <2>2, <3>1, ShiftHandles
    <3> QED  BY <2>1, <3>2, Zenon
  <2> QED  BY <2>1, <2>3, <2>4 DEF FeedInv
<1>7. CASE UNCHANGED feed
  BY <1>7 DEF feed, FeedInv
<1> QED  BY <1>1, <1>2, <1>3, <1>4, <1>5, <1>6, <1>7 DEF FeedNext

(* While connections come and go and broadcasts overlap, a broadcast sends *)
(* to nobody twice and passes over no more of the dashboards that stay     *)
(* than connections left from behind it (websocket/manager.py:55-64), for  *)
(* any number of dashboards and ingestions.                                *)
THEOREM BroadcastsSkipForACause == FeedSpec => []SkipsHaveCauses
<1>1. FeedInit => FeedInv
  BY DEF FeedInit, FeedInv, Distinct, Handles
<1>2. FeedInv => SkipsHaveCauses
  <2> SUFFICES ASSUME FeedInv, NEW h \in Handler, Sending(h)
               PROVE  LET w == handler[h]
                      IN /\ w.to \cap Reached(h) = {}
                         /\ Ahead(h) \cap (Reached(h) \cup w.to) = {}
                         /\ Cardinality(w.owed \ (Reached(h) \cup w.to \cup Ahead(h))) <= w.cut
    BY DEF SkipsHaveCauses, Missed
  <2>1. Sends(handler[h], connections)
    BY DEF FeedInv, Handles, Sending, Busy
  <2>2. Ahead(h) = Rest(connections, handler[h].next) /\ Dealt(handler[h]) = Reached(h) \cup handler[h].to
    BY DEF Ahead, Rest, Dealt, Reached
  <2> QED  BY <2>1, <2>2 DEF Sends, Skipped, Reached, Dealt
<1> QED  BY <1>1, <1>2, FeedNextInv, PTL DEF FeedSpec

-----------------------------------------------------------------------------
(* What the forest flags: sums over finite sets, eight numbers and their   *)
(* distances, the features of a batch, and the verdict on it.              *)
(***************************************************************************)
(* Among some subsets of a finite set there is a smallest one: induction   *)
(* over finite sets.                                                       *)
LEMMA SmallestSet ==
  ASSUME NEW S, IsFiniteSet(S), NEW T \in SUBSET (SUBSET S), T # {}
  PROVE  \E x \in T : \A y \in T : y \subseteq x => y = x
<1>1. IsWellFoundedOn(StrictSubsetOrdering(S), SUBSET S)
  BY FS_StrictSubsetOrderingWellFounded, FS_FiniteSubsetsOfFinite
<1>2. PICK x \in T : \A y \in T : <<y, x>> \notin StrictSubsetOrdering(S)
  BY <1>1, WFMin
<1> QED BY <1>2 DEF StrictSubsetOrdering

(* The sum over a set, one element after another.                          *)
Chosen(s)         == CHOOSE x \in s : TRUE
AddedUp(f, g, s)  == IF s = {} THEN 0 ELSE f[Chosen(s)] + g[s \ {Chosen(s)}]
Adds(f, g, S)     == g = [s \in SUBSET S |-> AddedUp(f, g, s)]

LEMMA TotalChoice ==
  ASSUME NEW f, NEW S, S = DOMAIN f
  PROVE  Total(f) = (CHOOSE g : Adds(f, g, S))[S]
  BY Zenon DEF Total, FoldFunction, FoldFunctionOnSet, MapThenFoldSet, Adds, AddedUp, Chosen

LEMMA ChosenIs ==
  ASSUME NEW s, s # {}
  PROVE  Chosen(s) \in s
  BY DEF Chosen

LEMMA AddsAt ==
  ASSUME NEW f, NEW g, NEW S, Adds(f, g, S), NEW s \in SUBSET S
  PROVE  g[s] = AddedUp(f, g, s)
  BY DEF Adds

(* Two ways to add agree on what both add. *)
LEMMA AddsOnce ==
  ASSUME NEW f, NEW S, IsFiniteSet(S), NEW g, NEW U \in SUBSET S, Adds(f, g, U),
         NEW h, NEW V \in SUBSET S, Adds(f, h, V), NEW s \in SUBSET U, s \in SUBSET V
  PROVE  g[s] = h[s]
<1> DEFINE T == {t \in SUBSET S : t \subseteq U /\ t \subseteq V /\ g[t] # h[t]}
<1> SUFFICES ASSUME T # {} PROVE FALSE
  OBVIOUS
<1>0. T \in SUBSET (SUBSET S)
  OBVIOUS
<1> HIDE DEF T
<1>1. PICK t \in T : \A u \in T : u \subseteq t => u = t
  BY <1>0, SmallestSet
<1> USE DEF T
<1>2. g[t] = AddedUp(f, g, t) /\ h[t] = AddedUp(f, h, t)
  BY <1>1, AddsAt
<1>3. t # {}
  BY <1>1, <1>2 DEF AddedUp
<1>4. t \ {Chosen(t)} \subseteq t /\ t \ {Chosen(t)} # t
  BY <1>3, ChosenIs
<1>5. g[t \ {Chosen(t)}] = h[t \ {Chosen(t)}]
  BY <1>1, <1>4
<1> QED BY <1>1, <1>2, <1>3, <1>5 DEF AddedUp

LEMMA AddsExists ==
  ASSUME NEW f, NEW S, IsFiniteSet(S)
  PROVE  \E g : Adds(f, g, S)
<1> DEFINE T == {t \in SUBSET S : ~ \E g : Adds(f, g, t)}
<1> SUFFICES ASSUME T # {} PROVE FALSE
  OBVIOUS
<1>0. T \in SUBSET (SUBSET S)
  OBVIOUS
<1> HIDE DEF T
<1>1. PICK t \in T : \A u \in T : u \subseteq t => u = t
  BY <1>0, SmallestSet
<1> USE DEF T
<1> DEFINE sol(u) == CHOOSE g : Adds(f, g, u)
<1>2. ASSUME NEW u \in SUBSET t, u # t PROVE Adds(f, sol(u), u)
  <2>1. \E g : Adds(f, g, u)
    BY <1>1, <1>2
  <2> QED BY <2>1
<1> HIDE DEF sol
<1> DEFINE val(s) == IF s = {} THEN 0 ELSE f[Chosen(s)] + sol(s \ {Chosen(s)})[s \ {Chosen(s)}]
           g      == [s \in SUBSET t |-> val(s)]
<1>3. ASSUME NEW s \in SUBSET t PROVE g[s] = AddedUp(f, g, s)
  <2>1. CASE s = {}
    BY <2>1 DEF AddedUp
  <2>2. CASE s # {}
    <3> DEFINE r == s \ {Chosen(s)}
    <3>1. r \in SUBSET t /\ r # t /\ r # s
      BY <2>2, ChosenIs
    <3>2. g[s] = f[Chosen(s)] + sol(r)[r]
      BY <2>2
    <3>3. sol(r)[r] = val(r)
      <4>1. sol(r)[r] = AddedUp(f, sol(r), r)
        BY <3>1, <1>2, AddsAt
      <4>2. CASE r = {}
        BY <4>1, <4>2 DEF AddedUp
      <4>3. CASE r # {}
        <5> DEFINE q == r \ {Chosen(r)}
        <5>1. q \in SUBSET t /\ q # t /\ q \subseteq r
          BY <3>1, <4>3, ChosenIs
        <5>2. Adds(f, sol(r), r) /\ Adds(f, sol(q), q)
          BY <3>1, <5>1, <1>2
        <5>3. sol(r)[q] = sol(q)[q]
          <6>1. q \in SUBSET S /\ r \in SUBSET S
            BY <1>1, <3>1, <5>1
          <6> HIDE DEF q, r
          <6> QED BY <5>1, <5>2, <6>1, AddsOnce
        <5> QED BY <4>1, <4>3, <5>3 DEF AddedUp
      <4> QED BY <4>2, <4>3
    <3>4. g[r] = val(r)
      BY <3>1
    <3> HIDE DEF val, g, sol
    <3> QED BY <2>2, <3>2, <3>3, <3>4 DEF AddedUp
  <2> QED BY <2>1, <2>2
<1>4. Adds(f, g, t)
  BY <1>3 DEF Adds
<1> QED BY <1>1, <1>4

(* Total is what adding the elements one after another gives.              *)
LEMMA TotalAdds ==
  ASSUME NEW f, IsFiniteSet(DOMAIN f)
  PROVE  \E g : Adds(f, g, DOMAIN f) /\ Total(f) = g[DOMAIN f]
<1>1. \E g : Adds(f, g, DOMAIN f)
  BY AddsExists
<1> DEFINE g == CHOOSE h : Adds(f, h, DOMAIN f)
<1>2. Adds(f, g, DOMAIN f)
  BY <1>1
<1>3. Total(f) = g[DOMAIN f]
  BY TotalChoice
<1> QED BY <1>2, <1>3

(* Whichever element is taken out, the rest adds up to the rest.           *)
LEMMA AddsInts ==
  ASSUME NEW f, NEW g, NEW S, IsFiniteSet(S), Adds(f, g, S), \A i \in S : f[i] \in Int, NEW s \in SUBSET S
  PROVE  g[s] \in Int
<1> DEFINE T == {t \in SUBSET S : g[t] \notin Int}
<1> SUFFICES ASSUME T # {} PROVE FALSE
  OBVIOUS
<1>0. T \in SUBSET (SUBSET S)
  OBVIOUS
<1> HIDE DEF T
<1>1. PICK t \in T : \A u \in T : u \subseteq t => u = t
  BY <1>0, SmallestSet
<1> USE DEF T
<1>2. g[t] = AddedUp(f, g, t)
  BY <1>1, AddsAt
<1>3. t # {}
  BY <1>1, <1>2 DEF AddedUp
<1>4. Chosen(t) \in S /\ t \ {Chosen(t)} \subseteq t /\ t \ {Chosen(t)} # t
  BY <1>3, ChosenIs
<1>5. g[t \ {Chosen(t)}] \in Int
  BY <1>1, <1>4
<1>6. g[t] = f[Chosen(t)] + g[t \ {Chosen(t)}]
  BY <1>2, <1>3 DEF AddedUp
<1> QED BY <1>1, <1>4, <1>5, <1>6

LEMMA AddsAnyOrder ==
  ASSUME NEW f, NEW g, NEW S, IsFiniteSet(S), Adds(f, g, S), \A i \in S : f[i] \in Int,
         NEW s \in SUBSET S, NEW x \in s
  PROVE  g[s] = f[x] + g[s \ {x}]
<1> DEFINE T == {t \in SUBSET S : \E y \in t : g[t] # f[y] + g[t \ {y}]}
<1> SUFFICES ASSUME T # {} PROVE FALSE
  OBVIOUS
<1>0. T \in SUBSET (SUBSET S)
  OBVIOUS
<1> HIDE DEF T
<1>1. PICK t \in T : \A u \in T : u \subseteq t => u = t
  BY <1>0, SmallestSet
<1> USE DEF T
<1>2. PICK y \in t : g[t] # f[y] + g[t \ {y}]
  BY <1>1
<1> DEFINE c == Chosen(t)
           rest == (t \ {c}) \ {y}
<1>3. t \in SUBSET S /\ c \in t /\ y \in S /\ c \in S
  BY <1>1, <1>2, ChosenIs
<1>4. g[t] = f[c] + g[t \ {c}]
  <2>1. g[t] = AddedUp(f, g, t)
    BY <1>3, AddsAt
  <2> QED BY <1>3, <2>1 DEF AddedUp
<1>5. c # y
  BY <1>2, <1>4
<1> HIDE DEF c
<1>6. /\ y \in t \ {c} /\ t \ {c} \subseteq t /\ t \ {c} # t
      /\ c \in t \ {y} /\ t \ {y} \subseteq t /\ t \ {y} # t
      /\ (t \ {y}) \ {c} = rest /\ rest \in SUBSET S
  BY <1>3, <1>5
<1>7. g[t \ {c}] = f[y] + g[rest] /\ g[t \ {y}] = f[c] + g[rest]
  BY <1>1, <1>3, <1>6
<1>8. f[c] \in Int /\ f[y] \in Int /\ g[rest] \in Int
  BY <1>3, <1>6, AddsInts
<1> HIDE DEF rest
<1> QED BY <1>2, <1>4, <1>7, <1>8

LEMMA TotalIsInt ==
  ASSUME NEW f, IsFiniteSet(DOMAIN f), \A i \in DOMAIN f : f[i] \in Int
  PROVE  Total(f) \in Int
<1>1. PICK g : Adds(f, g, DOMAIN f) /\ Total(f) = g[DOMAIN f]
  BY TotalAdds
<1> QED BY <1>1, AddsInts

Sum8(v) == v[1] + v[2] + v[3] + v[4] + v[5] + v[6] + v[7] + v[8]

LEMMA TotalOfEight ==
  ASSUME NEW v \in [1..8 -> Int]
  PROVE  Total(v) = Sum8(v)
<1> DEFINE S == 1..8
<1>1. IsFiniteSet(S) /\ DOMAIN v = S
  <2>1. 1 \in Int /\ 8 \in Int
    OBVIOUS
  <2>2. IsFiniteSet(1..8)
    BY <2>1, FS_Interval, Zenon
  <2> QED BY <2>2
<1>2. PICK g : Adds(v, g, S) /\ Total(v) = g[S]
  BY <1>1, TotalAdds
<1>3. ASSUME NEW s \in SUBSET S, NEW x \in s  PROVE g[s] = v[x] + g[s \ {x}]
  <2>1. \A i \in S : v[i] \in Int
    OBVIOUS
  <2> HIDE DEF S
  <2> QED BY <1>1, <1>2, <1>3, <2>1, AddsAnyOrder
<1>4. g[{}] = 0
  BY <1>2, AddsAt DEF AddedUp
<1>5. /\ S \ {8} = 1..7 /\ (1..7) \ {7} = 1..6 /\ (1..6) \ {6} = 1..5 /\ (1..5) \ {5} = 1..4
      /\ (1..4) \ {4} = 1..3 /\ (1..3) \ {3} = 1..2 /\ (1..2) \ {2} = {1} /\ {1} \ {1} = {}
  OBVIOUS
<1>6. /\ 1..8 \subseteq S /\ 1..7 \subseteq S /\ 1..6 \subseteq S /\ 1..5 \subseteq S
      /\ 1..4 \subseteq S /\ 1..3 \subseteq S /\ 1..2 \subseteq S /\ {1} \subseteq S
  OBVIOUS
<1>7. /\ g[S] = v[8] + g[1..7] /\ g[1..7] = v[7] + g[1..6] /\ g[1..6] = v[6] + g[1..5]
      /\ g[1..5] = v[5] + g[1..4] /\ g[1..4] = v[4] + g[1..3] /\ g[1..3] = v[3] + g[1..2]
      /\ g[1..2] = v[2] + g[{1}] /\ g[{1}] = v[1] + g[{}]
  <2>1. 8 \in S /\ 7 \in 1..7 /\ 6 \in 1..6 /\ 5 \in 1..5 /\ 4 \in 1..4 /\ 3 \in 1..3 /\ 2 \in 1..2
    OBVIOUS
  <2>2. g[S] = v[8] + g[S \ {8}]
    BY <1>3, <2>1
  <2>3. g[1..7] = v[7] + g[(1..7) \ {7}]
    BY <1>3, <1>6, <2>1
  <2>4. g[1..6] = v[6] + g[(1..6) \ {6}]
    BY <1>3, <1>6, <2>1
  <2>5. g[1..5] = v[5] + g[(1..5) \ {5}]
    BY <1>3, <1>6, <2>1
  <2>6. g[1..4] = v[4] + g[(1..4) \ {4}]
    BY <1>3, <1>6, <2>1
  <2>7. g[1..3] = v[3] + g[(1..3) \ {3}]
    BY <1>3, <1>6, <2>1
  <2>8. g[1..2] = v[2] + g[(1..2) \ {2}]
    BY <1>3, <1>6, <2>1
  <2>9. g[{1}] = v[1] + g[{1} \ {1}]
    BY <1>3, <1>6
  <2> QED BY <1>5, <2>2, <2>3, <2>4, <2>5, <2>6, <2>7, <2>8, <2>9
<1>8. \A i \in 1..8 : v[i] \in Int
  OBVIOUS
<1>9. /\ v[1] \in Int /\ v[2] \in Int /\ v[3] \in Int /\ v[4] \in Int
      /\ v[5] \in Int /\ v[6] \in Int /\ v[7] \in Int /\ v[8] \in Int
  BY <1>8
<1> HIDE DEF S
<1> QED BY <1>2, <1>4, <1>7, <1>9 DEF Sum8

LEMMA AddsNats ==
  ASSUME NEW f, NEW g, NEW S, IsFiniteSet(S), Adds(f, g, S), \A i \in S : f[i] \in Nat, NEW s \in SUBSET S
  PROVE  g[s] \in Nat
<1> DEFINE T == {t \in SUBSET S : g[t] \notin Nat}
<1> SUFFICES ASSUME T # {} PROVE FALSE
  OBVIOUS
<1>0. T \in SUBSET (SUBSET S)
  OBVIOUS
<1> HIDE DEF T
<1>1. PICK t \in T : \A u \in T : u \subseteq t => u = t
  BY <1>0, SmallestSet
<1> USE DEF T
<1>2. g[t] = AddedUp(f, g, t)
  BY <1>1, AddsAt
<1>3. t # {}
  BY <1>1, <1>2 DEF AddedUp
<1>4. Chosen(t) \in S /\ t \ {Chosen(t)} \subseteq t /\ t \ {Chosen(t)} # t
  BY <1>3, ChosenIs
<1>5. g[t \ {Chosen(t)}] \in Nat
  BY <1>1, <1>4
<1>6. g[t] = f[Chosen(t)] + g[t \ {Chosen(t)}]
  BY <1>2, <1>3 DEF AddedUp
<1> QED BY <1>1, <1>4, <1>5, <1>6

(* A sum of natural numbers is at least what two of them come to.          *)
LEMMA TotalOfMore ==
  ASSUME NEW f, IsFiniteSet(DOMAIN f), \A x \in DOMAIN f : f[x] \in Nat,
         NEW i \in DOMAIN f, NEW j \in DOMAIN f \ {i}
  PROVE  f[i] + f[j] <= Total(f)
<1> DEFINE S == DOMAIN f
           U == S \ {i}
           V == U \ {j}
<1>1. PICK g : Adds(f, g, S) /\ Total(f) = g[S]
  BY TotalAdds
<1>2. S \in SUBSET S /\ U \in SUBSET S /\ V \in SUBSET S /\ i \in S /\ j \in U
  OBVIOUS
<1>3. \A x \in S : f[x] \in Int
  OBVIOUS
<1>4. f[i] \in Nat /\ f[j] \in Nat /\ IsFiniteSet(S) /\ \A x \in S : f[x] \in Nat
  OBVIOUS
<1> HIDE DEF S
<1>5. g[S] = f[i] + g[U]
  BY <1>1, <1>2, <1>3, <1>4, AddsAnyOrder
<1> HIDE DEF U
<1>6. g[U] = f[j] + g[V]
  BY <1>1, <1>2, <1>3, <1>4, AddsAnyOrder
<1> HIDE DEF V
<1>7. g[V] \in Nat
  BY <1>1, <1>2, <1>4, AddsNats
<1> QED BY <1>1, <1>4, <1>5, <1>6, <1>7

-----------------------------------------------------------------------------
(* Eight numbers.                                                          *)
LEMMA SquareIsNat == \A x \in Int : x * x \in Nat
<1> TAKE x \in Int
<1>1. CASE x >= 0
  BY <1>1
<1>2. CASE x < 0
  <2>1. PICK y \in Nat : x = -y
    BY <1>2
  <2>2. x * x = y * y /\ y * y \in Nat
    BY <2>1
  <2> QED BY <2>2
<1> QED BY <1>1, <1>2

LEMMA LargerByItsSquare ==
  ASSUME NEW a \in Nat, NEW b \in Nat, a * a < b * b
  PROVE  a < b
<1> SUFFICES ASSUME b <= a PROVE FALSE
  OBVIOUS
<1>1. PICK c \in Nat : a = b + c
  BY SMT
<1>2. (b + c) * (b + c) = b * b + 2 * (b * c) + c * c /\ b * c \in Nat /\ c * c \in Nat /\ b * b \in Nat
  OBVIOUS
<1> QED BY <1>1, <1>2

(* Two numbers below 2.6 are closer to each other than either is to 8.     *)
LEMMA FartherThan ==
  ASSUME NEW d \in Int, NEW x \in Int, NEW y \in Int,
         25 * (x * x) < 169 * (d * d), 25 * (y * y) < 169 * (d * d)
  PROVE  Gap(8 * d, x) > Gap(x, y)
<1> DEFINE abs(z) == IF z < 0 THEN -z ELSE z
<1>1. ASSUME NEW z \in Int PROVE abs(z) \in Nat /\ abs(z) * abs(z) = z * z
  <2>1. CASE z < 0
    <3>1. PICK n \in Nat : z = -n
      BY <1>1, <2>1
    <3> QED BY <2>1, <3>1
  <2>2. CASE z >= 0
    BY <2>2
  <2> QED BY <1>1, <2>1, <2>2
<1>2. PICK a \in Nat, p \in Nat, q \in Nat : a = abs(d) /\ p = abs(x) /\ q = abs(y)
  BY <1>1
<1>3. a * a = d * d /\ p * p = x * x /\ q * q = y * y
  BY <1>1, <1>2
<1>4. /\ (5 * p) * (5 * p) = 25 * (p * p) /\ (5 * q) * (5 * q) = 25 * (q * q)
      /\ (13 * a) * (13 * a) = 169 * (a * a)
      /\ p * p \in Nat /\ q * q \in Nat /\ a * a \in Nat
  OBVIOUS
<1>5. (5 * p) * (5 * p) < (13 * a) * (13 * a) /\ (5 * q) * (5 * q) < (13 * a) * (13 * a)
  BY <1>3, <1>4
<1>6. 5 * p \in Nat /\ 5 * q \in Nat /\ 13 * a \in Nat
  OBVIOUS
<1>7. 5 * p < 13 * a /\ 5 * q < 13 * a
  BY <1>5, <1>6, LargerByItsSquare
<1> QED BY <1>2, <1>7 DEF Gap

LEMMA ShiftedSquare ==
  \A x, c \in Int : (56 * x + c) * (56 * x + c) = 3136 * (x * x) + 112 * (c * x) + c * c
  OBVIOUS

LEMMA Distributes ==
  \A c, x1, x2, x3, x4, x5, x6, x7, x8 \in Int :
    c * (x1 + x2 + x3 + x4 + x5 + x6 + x7 + x8)
      = c * x1 + c * x2 + c * x3 + c * x4 + c * x5 + c * x6 + c * x7 + c * x8
  OBVIOUS

LEMMA SquaresOfShifted ==
  ASSUME NEW v \in [1..8 -> Int], NEW c \in Int
  PROVE  Squares([j \in 1..8 |-> 56 * v[j] + c])
           = 3136 * Squares(v) + 112 * (c * Total(v)) + 8 * (c * c)
<1> DEFINE e == [j \in 1..8 |-> 56 * v[j] + c]
           p == [j \in 1..8 |-> e[j] * e[j]]
           q == [j \in 1..8 |-> v[j] * v[j]]
<1>1. p \in [1..8 -> Int] /\ q \in [1..8 -> Int]
  OBVIOUS
<1>2. Squares(e) = Total(p) /\ Squares(v) = Total(q)
  BY DEF Squares
<1>3. Total(p) = Sum8(p) /\ Total(q) = Sum8(q) /\ Total(v) = Sum8(v)
  BY <1>1, TotalOfEight
<1>4. ASSUME NEW j \in 1..8
      PROVE  /\ v[j] \in Int /\ q[j] = v[j] * v[j] /\ q[j] \in Int /\ c * v[j] \in Int
             /\ p[j] = 3136 * q[j] + 112 * (c * v[j]) + c * c
  <2>1. v[j] \in Int /\ p[j] = (56 * v[j] + c) * (56 * v[j] + c) /\ q[j] = v[j] * v[j]
    OBVIOUS
  <2> QED BY <2>1, ShiftedSquare
<1> HIDE DEF p, q, e
<1>5. c * Sum8(v) = c * v[1] + c * v[2] + c * v[3] + c * v[4] + c * v[5] + c * v[6] + c * v[7] + c * v[8]
  BY Distributes, <1>4 DEF Sum8
<1>6. c * c \in Int
  OBVIOUS
<1>7. Sum8(p) = 3136 * Sum8(q) + 112 * (c * Sum8(v)) + 8 * (c * c)
  <2> DEFINE t(j) == c * v[j]
             Is(j) == p[j] = 3136 * q[j] + 112 * t(j) + c * c /\ q[j] \in Int /\ t(j) \in Int
  <2>1. \A j \in 1..8 : Is(j)
    BY <1>4
  <2> HIDE DEF Is
  <2>2. Is(1) /\ Is(2) /\ Is(3) /\ Is(4) /\ Is(5) /\ Is(6) /\ Is(7) /\ Is(8)
    BY <2>1
  <2>3. c * Sum8(v) = t(1) + t(2) + t(3) + t(4) + t(5) + t(6) + t(7) + t(8)
    BY <1>5
  <2> HIDE DEF t
  <2> DEFINE w == c * Sum8(v)
             u == c * c
  <2>4. w = t(1) + t(2) + t(3) + t(4) + t(5) + t(6) + t(7) + t(8)
    BY <2>3
  <2>5. /\ p[1] = 3136 * q[1] + 112 * t(1) + u /\ p[2] = 3136 * q[2] + 112 * t(2) + u
        /\ p[3] = 3136 * q[3] + 112 * t(3) + u /\ p[4] = 3136 * q[4] + 112 * t(4) + u
        /\ p[5] = 3136 * q[5] + 112 * t(5) + u /\ p[6] = 3136 * q[6] + 112 * t(6) + u
        /\ p[7] = 3136 * q[7] + 112 * t(7) + u /\ p[8] = 3136 * q[8] + 112 * t(8) + u
        /\ q[1] \in Int /\ q[2] \in Int /\ q[3] \in Int /\ q[4] \in Int
        /\ q[5] \in Int /\ q[6] \in Int /\ q[7] \in Int /\ q[8] \in Int
        /\ t(1) \in Int /\ t(2) \in Int /\ t(3) \in Int /\ t(4) \in Int
        /\ t(5) \in Int /\ t(6) \in Int /\ t(7) \in Int /\ t(8) \in Int
    BY <2>2 DEF Is
  <2>6. u \in Int
    BY <1>6
  <2> HIDE DEF w, u
  <2>7. Sum8(p) = 3136 * Sum8(q) + 112 * w + 8 * u
    BY <2>4, <2>5, <2>6 DEF Sum8
  <2> QED BY <2>7 DEF w, u
<1> QED BY <1>2, <1>3, <1>7 DEF e

(* What a z-score of 2.5 among eight numbers says of their distances.      *)
LEMMA StandsOut ==
  ASSUME NEW v \in [1..8 -> Int], ForestHeuristic(v)
  PROVE  \E i \in 1..8 : \A j, k \in 1..8 \ {i} : Gap(v[i], v[j]) > Gap(v[j], v[k])
<1> DEFINE s == Total(v)
           Q == Squares(v)
           q == [j \in 1..8 |-> v[j] * v[j]]
<1>1. s \in Int /\ Q \in Int
  <2>1. v \in [1..8 -> Int] /\ q \in [1..8 -> Int] /\ Q = Total(q)
    BY DEF Squares
  <2>2. s = Sum8(v) /\ Q = Sum8(q)
    BY <2>1, TotalOfEight
  <2>3. \A j \in 1..8 : v[j] \in Int /\ q[j] \in Int
    OBVIOUS
  <2> HIDE DEF q, s, Q
  <2> QED BY <2>2, <2>3 DEF Sum8
<1>2. PICK i \in 1..8 : 4 * (8 * v[i] - s) * (8 * v[i] - s) >= 25 * (8 * Q - s * s) /\ 8 * Q - s * s > 0
  BY DEF ForestHeuristic
<1> HIDE DEF s, Q
<1> DEFINE D == 8 * v[i] - s
           c == D - 7 * s
           e == [j \in 1..8 |-> 56 * v[j] + c]
           f == [j \in 1..8 |-> e[j] * e[j]]
<1>3. v[i] \in Int /\ D \in Int /\ c \in Int
  BY <1>1
<1>4. Squares(e) = 3136 * Q + 112 * (c * s) + 8 * (c * c)
  <2> HIDE DEF c
  <2> QED BY <1>3, SquaresOfShifted DEF s, Q
<1>5. 3136 * Q + 112 * (c * s) + 8 * (c * c) = 392 * (8 * Q - s * s) + 8 * (D * D)
  <2> HIDE DEF D
  <2> QED BY <1>1, <1>3
<1>6. 25 * (8 * Q - s * s) <= 4 * (D * D) /\ 8 * Q - s * s >= 1 /\ D * D \in Int /\ 8 * Q - s * s \in Int
  <2>1. 25 * (8 * Q - s * s) <= 4 * D * D /\ 8 * Q - s * s > 0
    BY <1>2
  <2> HIDE DEF D
  <2> QED BY <2>1, <1>1, <1>3
<1>7. /\ e \in [1..8 -> Int] /\ e[i] = 8 * D
      /\ \A j \in 1..8 : e[j] \in Int /\ e[j] = 56 * v[j] + c /\ v[j] \in Int
  BY <1>1, <1>3
<1>8. /\ DOMAIN f = 1..8 /\ IsFiniteSet(1..8) /\ Squares(e) = Total(f)
      /\ \A j \in 1..8 : f[j] = e[j] * e[j] /\ f[j] \in Nat
  <2>1. IsFiniteSet(1..8)
    <3>1. 1 \in Int /\ 8 \in Int
      OBVIOUS
    <3> QED BY <3>1, FS_Interval, Zenon
  <2> HIDE DEF e
  <2>2. \A j \in 1..8 : f[j] = e[j] * e[j] /\ f[j] \in Nat
    BY <1>7, SquareIsNat
  <2>3. DOMAIN e = 1..8
    BY <1>7
  <2> QED BY <2>1, <2>2, <2>3 DEF Squares
<1>9. f[i] = 64 * (D * D)
  <2>1. f[i] = (8 * D) * (8 * D)
    BY <1>7, <1>8
  <2> HIDE DEF D, f
  <2> QED BY <2>1, <1>3
<1> HIDE DEF D, c, e, f
<1> SUFFICES ASSUME NEW j \in 1..8 \ {i}, NEW k \in 1..8 \ {i}
             PROVE  Gap(v[i], v[j]) > Gap(v[j], v[k])
  OBVIOUS
<1>a. ASSUME NEW m \in 1..8 \ {i} PROVE 25 * (e[m] * e[m]) < 169 * (D * D)
  <2>1. f[i] + f[m] <= 392 * (8 * Q - s * s) + 8 * (D * D)
    BY <1>4, <1>5, <1>8, TotalOfMore
  <2>2. f[m] = e[m] * e[m] /\ f[m] \in Nat
    BY <1>8
  <2> QED BY <2>1, <2>2, <1>6, <1>9
<1>10. Gap(8 * D, e[j]) > Gap(e[j], e[k])
  BY <1>3, <1>7, <1>a, FartherThan
<1>11. /\ e[i] = 56 * v[i] + c /\ e[j] = 56 * v[j] + c /\ e[k] = 56 * v[k] + c
       /\ v[i] \in Int /\ v[j] \in Int /\ v[k] \in Int /\ e[i] = 8 * D
  BY <1>7
<1> QED BY <1>3, <1>10, <1>11 DEF Gap

-----------------------------------------------------------------------------
(* The features of a batch are numbers.                                    *)
LEMMA MeanIsInt ==
  ASSUME NEW f, IsFiniteSet(DOMAIN f), \A x \in DOMAIN f : f[x] \in Int
  PROVE  Mean(f) \in Int
<1>1. Total(f) \in Int
  BY TotalIsInt
<1>2. Cardinality(DOMAIN f) \in Nat /\ (DOMAIN f # {} => Cardinality(DOMAIN f) # 0)
  <2> DEFINE S == DOMAIN f
  <2>1. IsFiniteSet(S)
    OBVIOUS
  <2> HIDE DEF S
  <2>2. Cardinality(S) \in Nat /\ (S # {} => Cardinality(S) # 0)
    BY <2>1, FS_CardinalityType, FS_EmptySet
  <2> QED BY <2>2 DEF S
<1>3. ASSUME NEW t \in Int, NEW n \in Nat, n # 0 PROVE t \div n \in Int
  BY <1>3
<1>4. DOMAIN f # {} => Total(f) \div Cardinality(DOMAIN f) \in Int
  BY <1>1, <1>2, <1>3
<1>5. 0 \in Int
  OBVIOUS
<1> QED BY <1>4, <1>5, Zenon DEF Mean

LEMMA RootIsInt ==
  ASSUME NEW x \in Int
  PROVE  Root(x) \in Int
<1>1. IsFiniteSet(1..x)
  <2>1. 1 \in Int
    OBVIOUS
  <2> QED BY <2>1, FS_Interval
<1>2. {r \in 1..x : r * r <= x} \in SUBSET (1..x)
  OBVIOUS
<1>3. Cardinality({r \in 1..x : r * r <= x}) \in Nat
  BY <1>1, <1>2, FS_Subset, FS_CardinalityType
<1> QED BY <1>3 DEF Root

LEMMA ColumnIs ==
  ASSUME NEW flows, NEW rows, NEW field
  PROVE  /\ DOMAIN Column(flows, rows, field) = rows
         /\ \A i \in rows : Column(flows, rows, field)[i] = flows[i][field]
  BY DEF Column

LEMMA FlowsAre ==
  ASSUME NEW flows \in Seq(NetworkFlow)
  PROVE  /\ IsFiniteSet(DOMAIN flows)
         /\ \A i \in DOMAIN flows :
              /\ flows[i].packets \in Int /\ flows[i].bytes \in Int /\ flows[i].duration \in Int
              /\ flows[i].start \in Int /\ flows[i].entropy \in Int
              /\ flows[i]["bytes"] \in Int /\ flows[i]["packets"] \in Int
              /\ flows[i]["entropy"] \in Int
<1>1. DOMAIN flows = 1..Len(flows) /\ Len(flows) \in Nat
  OBVIOUS
<1>2. IsFiniteSet(1..Len(flows))
  <2>1. 1 \in Int /\ Len(flows) \in Int
    BY <1>1
  <2> QED BY <2>1, FS_Interval
<1>3. \A i \in DOMAIN flows : flows[i] \in NetworkFlow
  OBVIOUS
<1>4. \A x \in NetworkFlow :
        /\ x.packets \in Int /\ x.bytes \in Int /\ x.duration \in Int
        /\ x.start \in Int /\ x.entropy \in Int
  BY DEF NetworkFlow, NoQuery
<1> QED BY <1>1, <1>2, <1>3, <1>4

LEMMA BeaconIsInt ==
  ASSUME NEW flows \in Seq(NetworkFlow)
  PROVE  BeaconInterval(flows) \in Int
<1> DEFINE Later(i) == {j \in DOMAIN flows : \/ flows[j].start > flows[i].start
                                             \/ flows[j].start = flows[i].start /\ j > i}
           followed == {i \in DOMAIN flows : Later(i) # {}}
           waits(i) == {flows[j].start - flows[i].start : j \in Later(i)}
           gaps     == [i \in followed |-> Min(waits(i))]
           n        == Cardinality(followed)
           spread   == n * Squares(gaps) - Total(gaps) * Total(gaps)
<1>1. BeaconInterval(flows) = IF n = 0 THEN 0 ELSE Root(100 * spread) \div n
  BY Zenon DEF BeaconInterval
<1>2. IsFiniteSet(followed)
  <2>1. followed \in SUBSET (DOMAIN flows)
    OBVIOUS
  <2> HIDE DEF followed
  <2> QED BY <2>1, FlowsAre, FS_Subset
<1>3. n \in Nat
  BY <1>2, FS_CardinalityType
<1>4. ASSUME NEW i \in followed PROVE Min(waits(i)) \in Int
  <2>1. waits(i) \in SUBSET Nat /\ waits(i) # {}
    <3>1. \A j \in Later(i) : flows[j].start - flows[i].start \in Nat
      BY FlowsAre
    <3>2. Later(i) # {}
      OBVIOUS
    <3> HIDE DEF Later
    <3> QED BY <3>1, <3>2
  <2> HIDE DEF waits
  <2>2. \E m \in waits(i) : \A k \in waits(i) : m <= k
    BY <2>1, SmallestNumber
  <2>3. Min(waits(i)) \in waits(i)
    BY <2>2 DEF Min
  <2> QED BY <2>1, <2>3
<1> HIDE DEF waits, followed
<1>5. DOMAIN gaps = followed /\ \A i \in followed : gaps[i] \in Int
  BY <1>4
<1> HIDE DEF gaps, n
<1>6. Total(gaps) \in Int /\ Squares(gaps) \in Int
  <2>1. Total(gaps) \in Int
    BY <1>2, <1>5, TotalIsInt
  <2> DEFINE q == [i \in DOMAIN gaps |-> gaps[i] * gaps[i]]
  <2>2. DOMAIN q = followed /\ \A i \in followed : q[i] \in Int
    BY <1>5
  <2>3. Squares(gaps) = Total(q)
    BY DEF Squares
  <2> HIDE DEF q
  <2> QED BY <1>2, <2>1, <2>2, <2>3, TotalIsInt
<1>7. 100 * spread \in Int
  BY <1>3, <1>6
<1> HIDE DEF spread
<1>8. Root(100 * spread) \in Int
  BY <1>7, RootIsInt
<1> QED BY <1>1, <1>3, <1>8

LEMMA FlagsAreInt ==
  ASSUME NEW flows
  PROVE  TcpFlags(flows) \in Int
<1> DEFINE names == (UNION {flows[i].flags : i \in DOMAIN flows}) \cap DOMAIN FlagBit
           f == [name \in names |-> FlagBit[name]]
<1>1. TcpFlags(flows) = Total(f)
  BY DEF TcpFlags
<1>2. DOMAIN FlagBit = {"SYN", "ACK", "FIN", "RST", "PSH", "URG"}
  BY DEF FlagBit
<1>a. \A name \in {"SYN", "ACK", "FIN", "RST", "PSH", "URG"} : FlagBit[name] \in Int
  <2>1. /\ FlagBit["SYN"] \in Int /\ FlagBit["ACK"] \in Int /\ FlagBit["FIN"] \in Int
        /\ FlagBit["RST"] \in Int /\ FlagBit["PSH"] \in Int /\ FlagBit["URG"] \in Int
    BY DEF FlagBit
  <2> QED BY <2>1, Zenon
<1>3. names \subseteq DOMAIN FlagBit
  OBVIOUS
<1> HIDE DEF names
<1>4. IsFiniteSet(names)
  <2>1. IsFiniteSet({"SYN"} \cup {"ACK"} \cup {"FIN"} \cup {"RST"} \cup {"PSH"} \cup {"URG"})
    BY FS_Singleton, FS_Union
  <2>2. {"SYN", "ACK", "FIN", "RST", "PSH", "URG"}
          = {"SYN"} \cup {"ACK"} \cup {"FIN"} \cup {"RST"} \cup {"PSH"} \cup {"URG"}
    OBVIOUS
  <2>3. IsFiniteSet(DOMAIN FlagBit)
    BY <1>2, <2>1, <2>2
  <2> QED BY <1>3, <2>3, FS_Subset
<1>5. DOMAIN f = names /\ \A name \in names : f[name] \in Int
  BY <1>2, <1>a, <1>3
<1> HIDE DEF f
<1> QED BY <1>1, <1>4, <1>5, TotalIsInt

LEMMA FeaturesAreNumbers ==
  ASSUME NEW flows \in Seq(NetworkFlow)
  PROVE  compute_features(flows) \in [1..8 -> Int]
<1> DEFINE rows    == DOMAIN flows
           queries == {i \in rows : flows[i].entropy # NoQuery}
           lasting == {i \in rows : flows[i].duration # 0}
           abroad  == {i \in rows : flows[i].outbound}
           resets  == {i \in rows : "RST" \in flows[i].flags}
           bytes   == Total(Column(flows, rows, "bytes"))
           packets == Total(Column(flows, rows, "packets"))
           PerSecond(f) == (10 * f.packets) \div (IF f.duration > 0 THEN f.duration ELSE 1)
           rate    == [i \in rows |-> PerSecond(flows[i])]
           lasts   == [i \in lasting |-> 10 * flows[i].duration]
           ratio   == IF packets > 0 THEN (10 * bytes) \div packets ELSE 0
           share   == IF bytes > 0 THEN (10 * Total(Column(flows, abroad, "bytes"))) \div bytes ELSE 0
<1>1. compute_features(flows)
        = << Mean(rate), BeaconInterval(flows), Mean(Column(flows, queries, "entropy")), Mean(lasts),
             10 * TcpFlags(flows), ratio, 10 * Cardinality(resets), share >>
  BY Zenon DEF compute_features
<1>2. IsFiniteSet(rows)
  BY FlowsAre
<1>3. /\ queries \in SUBSET rows /\ lasting \in SUBSET rows /\ abroad \in SUBSET rows
      /\ resets \in SUBSET rows
  OBVIOUS
<1> HIDE DEF queries, lasting, abroad, resets
<1>4. ASSUME NEW chosen \in SUBSET rows PROVE IsFiniteSet(chosen) /\ Cardinality(chosen) \in Int
  BY <1>2, FS_Subset, FS_CardinalityType
<1>5. ASSUME NEW chosen \in SUBSET rows
      PROVE  /\ Total(Column(flows, chosen, "bytes")) \in Int
             /\ Total(Column(flows, chosen, "packets")) \in Int
             /\ Mean(Column(flows, chosen, "entropy")) \in Int
  <2> DEFINE b == Column(flows, chosen, "bytes")
             p == Column(flows, chosen, "packets")
             q == Column(flows, chosen, "entropy")
  <2>1. DOMAIN b = chosen /\ DOMAIN p = chosen /\ DOMAIN q = chosen
    BY ColumnIs
  <2>2. \A i \in chosen : b[i] = flows[i]["bytes"] /\ p[i] = flows[i]["packets"] /\ q[i] = flows[i]["entropy"]
    BY ColumnIs
  <2>3. \A i \in chosen : b[i] \in Int /\ p[i] \in Int /\ q[i] \in Int
    BY <2>2, FlowsAre
  <2> HIDE DEF b, p, q
  <2>4. IsFiniteSet(chosen)
    BY <1>4
  <2>5. Total(b) \in Int /\ Total(p) \in Int
    BY <2>1, <2>3, <2>4, TotalIsInt
  <2>6. Mean(q) \in Int
    BY <2>1, <2>3, <2>4, MeanIsInt
  <2> QED BY <2>5, <2>6 DEF b, p, q
<1>6. bytes \in Int /\ packets \in Int
  BY <1>5
<1>7. ratio \in Int
  <2> HIDE DEF bytes, packets
  <2> QED BY <1>6
<1>8. share \in Int
  <2>1. Total(Column(flows, abroad, "bytes")) \in Int
    BY <1>3, <1>5
  <2> HIDE DEF bytes
  <2> QED BY <1>6, <2>1
<1>9. Mean(rate) \in Int
  <2>1. ASSUME NEW i \in rows PROVE PerSecond(flows[i]) \in Int
    <3>1. flows[i].packets \in Int /\ flows[i].duration \in Int
      BY FlowsAre
    <3> QED BY <3>1
  <2> HIDE DEF PerSecond
  <2>2. DOMAIN rate = rows /\ \A i \in rows : rate[i] \in Int
    BY <2>1
  <2> HIDE DEF rate, rows
  <2> QED BY <1>2, <2>2, MeanIsInt
<1>10. Mean(lasts) \in Int
  <2>1. DOMAIN lasts = lasting /\ \A i \in lasting : lasts[i] \in Int
    <3>1. \A i \in lasting : flows[i].duration \in Int
      BY <1>3, FlowsAre
    <3> QED BY <3>1
  <2>2. IsFiniteSet(lasting)
    BY <1>3, <1>4
  <2> HIDE DEF lasts
  <2> QED BY <2>1, <2>2, MeanIsInt
<1>11. BeaconInterval(flows) \in Int /\ TcpFlags(flows) \in Int
  BY BeaconIsInt, FlagsAreInt
<1>12. Mean(Column(flows, queries, "entropy")) \in Int /\ Cardinality(resets) \in Int
  BY <1>3, <1>4, <1>5
<1> HIDE DEF rate, lasts, ratio, share
<1>13. 10 * TcpFlags(flows) \in Int /\ 10 * Cardinality(resets) \in Int
  BY <1>11, <1>12
<1> DEFINE r == Mean(rate)
           b == BeaconInterval(flows)
           q == Mean(Column(flows, queries, "entropy"))
           d == Mean(lasts)
           t == 10 * TcpFlags(flows)
           c == 10 * Cardinality(resets)
<1>14. /\ r \in Int /\ b \in Int /\ q \in Int /\ d \in Int /\ t \in Int /\ ratio \in Int
       /\ c \in Int /\ share \in Int
  BY <1>7, <1>8, <1>9, <1>10, <1>11, <1>12, <1>13
<1>15. compute_features(flows) = <<r, b, q, d, t, ratio, c, share>>
  BY <1>1
<1> HIDE DEF r, b, q, d, t, c
<1>16. <<r, b, q, d, t, ratio, c, share>> \in [1..8 -> Int]
  BY <1>14
<1> QED BY <1>15, <1>16

-----------------------------------------------------------------------------
(***************************************************************************)
(* What an ingestion keeps of its verdict, from the features of the batch  *)
(* to the end of the request.                                              *)
(***************************************************************************)
Justified(v, raised, whole) ==
  /\ whole /\ v # NoFeatures /\ "isolation_forest" \in loaded => "isolation_forest" \in raised
  /\ "isolation_forest" \in raised \ loaded
       => \E i \in 1..8 : \A j, k \in 1..8 \ {i} : Gap(v[i], v[j]) > Gap(v[j], v[k])

Decides(w) == w # Quiet /\ w.features # <<>> => Justified(w.features, w.raised, w.whole)

LEMMA DecidedByFeatures == OneFeatureDecides <=> \A h \in Handler : Decides(handler[h])
  BY Zenon DEF OneFeatureDecides, Decides, Justified, Busy

(* A loaded forest flags whatever it sees, an absent one what stands out.  *)
LEMMA BatchIsDecided ==
  ASSUME NEW batch \in Batches, NEW v, v = compute_features(batch),
         NEW raising \in (IF batch = <<>> THEN {{}} ELSE Verdicts(v)), NEW whole \in BOOLEAN,
         NEW raised \in SUBSET raising, whole \/ "isolation_forest" \in raised => raised = raising
  PROVE  Justified(v, raised, whole)
<1>1. CASE batch = <<>>
  <2>1. v = NoFeatures /\ raised = {}
    BY <1>1 DEF NoFeatures
  <2> QED BY <2>1 DEF Justified
<1>2. CASE batch # <<>>
  <2>1. ("isolation_forest" \in raising) \in Raises("isolation_forest", v)
    BY <1>2 DEF Verdicts, Models
  <2>2. ASSUME "isolation_forest" \in loaded PROVE "isolation_forest" \in raising
    <3>1. ("isolation_forest" \in raising) \in {forest_confidence(r) >= 50 : r \in RawScore}
      BY <2>1, <2>2 DEF Raises
    <3>2. \A r \in RawScore : forest_confidence(r) >= 50
      <4>1. \A r \in RawScore : r \in Int /\ r < 0
        BY FeedAssumption
      <4> QED BY <4>1 DEF forest_confidence
    <3> QED BY <3>1, <3>2
  <2>3. ASSUME "isolation_forest" \in raised, "isolation_forest" \notin loaded
        PROVE  \E i \in 1..8 : \A j, k \in 1..8 \ {i} : Gap(v[i], v[j]) > Gap(v[j], v[k])
    <3>1. ("isolation_forest" \in raising) \in {ForestHeuristic(v)}
      BY <2>1, <2>3 DEF Raises
    <3>2. ForestHeuristic(v)
      BY <2>3, <3>1
    <3>3. v \in [1..8 -> Int]
      BY FeedAssumption, FeaturesAreNumbers
    <3> QED BY <3>2, <3>3, StandsOut
  <2> QED BY <2>2, <2>3, Zenon DEF Justified
<1> QED BY <1>1, <1>2

(* The rest of the request has nothing to do with the verdict.             *)
LEMMA NothingToDecide ==
  ASSUME NEW todo
  PROVE  Decides(Waiting(todo))
<1>1. Waiting(todo) = Quiet \/ Waiting(todo).features = <<>>
  BY DEF Waiting, Handling
<1> QED BY <1>1 DEF Decides

LEMMA SameVerdict ==
  ASSUME NEW w, Decides(w), w # Quiet, NEW new,
         new.features = w.features, new.raised = w.raised, new.whole = w.whole
  PROVE  Decides(new)
  BY DEF Decides

LEMMA ShiftDecides ==
  ASSUME NEW w, NEW gone, Decides(w), w # Quiet => Shape(w)
  PROVE  Decides(Shifted(w, gone))
<1>1. CASE w = Quiet \/ gone = {}
  BY <1>1 DEF Shifted
<1>2. CASE w # Quiet /\ gone # {}
  <2>1. PICK cut : Shifted(w, gone) = [w EXCEPT !.owed = @ \ gone, !.cut = cut]
    BY <1>2, Zenon DEF Shifted
  <2> DEFINE x == [w EXCEPT !.owed = @ \ gone]
  <2>2. Shape(w)
    BY <1>2
  <2>3. Shape(x) /\ x.features = w.features /\ x.raised = w.raised /\ x.whole = w.whole
    BY <2>2 DEF Shape
  <2>4. Shifted(w, gone) = [x EXCEPT !.cut = cut]
    BY <2>1
  <2> HIDE DEF x
  <2>5. /\ Shifted(w, gone).features = x.features /\ Shifted(w, gone).raised = x.raised
        /\ Shifted(w, gone).whole = x.whole
    BY <2>3, <2>4 DEF Shape
  <2> QED BY <1>2, <2>3, <2>5, SameVerdict
<1> QED BY <1>1, <1>2

LEMMA OthersDecide ==
  ASSUME FeedInv, OneFeatureDecides, loaded' = loaded, NEW h \in Handler, NEW w, Decides(w),
         handler' = [handler EXCEPT ![h] = w]
  PROVE  OneFeatureDecides'
<1>1. \A g \in Handler : handler'[g] = IF g = h THEN w ELSE handler[g]
  BY DEF FeedInv
<1>2. \A g \in Handler : Decides(handler'[g])
  BY <1>1, DecidedByFeatures
<1> QED BY <1>2 DEF OneFeatureDecides, Decides, Justified, Busy

LEMMA IngestDecides ==
  ASSUME FeedInv, OneFeatureDecides, NEW h \in Handler,
         (\E batch \in Batches : ingest_traffic(h, batch)) \/ ingest_payload(h)
  PROVE  OneFeatureDecides'
<1>1. \E w : Decides(w) /\ handler' = [handler EXCEPT ![h] = w]
  <2>1. CASE \E batch \in Batches : ingest_traffic(h, batch)
    <3>1. PICK batch \in Batches : ingest_traffic(h, batch)
      BY <2>1
    <3> DEFINE v == compute_features(batch)
               Begun(raised, whole) ==
                 handler' = [handler EXCEPT ![h] = Handling(v, raised, whole, Cardinality(raised) + 1)]
    <3>2. PICK raising \in (IF batch = <<>> THEN {{}} ELSE Verdicts(v)), whole \in BOOLEAN :
            \E raised \in SUBSET raising :
              (whole \/ "isolation_forest" \in raised => raised = raising) /\ Begun(raised, whole)
      BY <3>1, Zenon DEF ingest_traffic
    <3>3. PICK raised \in SUBSET raising :
            (whole \/ "isolation_forest" \in raised => raised = raising) /\ Begun(raised, whole)
      BY <3>2
    <3> DEFINE w == Handling(v, raised, whole, Cardinality(raised) + 1)
    <3>4. Justified(v, raised, whole)
      BY <3>3, BatchIsDecided
    <3>5. w.features = v /\ w.raised = raised /\ w.whole = whole
      BY DEF Handling
    <3>6. handler' = [handler EXCEPT ![h] = w]
      BY <3>3
    <3> HIDE DEF v, w
    <3> QED BY <3>4, <3>5, <3>6 DEF Decides
  <2>2. CASE ingest_payload(h)
    <3>1. PICK n \in 1..(MaxAlerts + 1) : handler' = [handler EXCEPT ![h] = Waiting(n)]
      BY <2>2 DEF ingest_payload
    <3> QED BY <3>1, NothingToDecide
  <2> QED BY <2>1, <2>2
<1>2. PICK w : Decides(w) /\ handler' = [handler EXCEPT ![h] = w]
  BY <1>1
<1>3. loaded' = loaded
  BY DEF ingest_traffic, ingest_payload
<1> QED BY <1>2, <1>3, OthersDecide

LEMMA BeginDecides ==
  ASSUME FeedInv, OneFeatureDecides, NEW h \in Handler, BeginBroadcast(h)
  PROVE  OneFeatureDecides'
<1> DEFINE todo == handler[h].todo
           w == IF connections = <<>> THEN Waiting(todo - 1)
                ELSE [Waiting(todo) EXCEPT !.to = {connections[1]}, !.next = 2, !.owed = ToSet(connections)]
<1>1. loaded' = loaded /\ handler' = [handler EXCEPT ![h] = w]
  BY DEF BeginBroadcast
<1>2. Decides(w)
  <2>1. CASE connections = <<>>
    BY <2>1, NothingToDecide
  <2>2. CASE connections # <<>>
    <3>1. todo # 0
      BY DEF BeginBroadcast, Busy, FeedInv, Handles
    <3> DEFINE before == Waiting(todo)
               to     == {connections[1]}
               owed   == ToSet(connections)
    <3>2. Shape(before) /\ before.features = <<>>
      <4> HIDE DEF todo
      <4>1. before = Handling(<<>>, {}, FALSE, todo)
        BY <3>1 DEF Waiting
      <4> HIDE DEF before
      <4> QED BY <4>1, Zenon DEF Handling, Shape
    <3>3. w = [before EXCEPT !.to = to, !.next = 2, !.owed = owed]
      BY <2>2
    <3> HIDE DEF before, to, owed, w
    <3>4. w.features = before.features
      BY <3>2, <3>3 DEF Shape
    <3> QED BY <3>2, <3>4 DEF Decides
  <2> QED BY <2>1, <2>2
<1> HIDE DEF w
<1> QED BY <1>1, <1>2, OthersDecide

LEMMA SentDecides ==
  ASSUME FeedInv, OneFeatureDecides, NEW h \in Handler, Sent(h)
  PROVE  OneFeatureDecides'
<1> DEFINE w == handler[h]
           l == Len(connections)
           fails == [w EXCEPT !.failed = @ \cup w.to]
           hears == [w EXCEPT !.heard = @ \cup w.to]
           Follows(done) ==
             IF w.next <= l
             THEN /\ handler' = [handler EXCEPT
                       ![h] = [done EXCEPT !.to = {connections[w.next]}, !.next = @ + 1]]
                  /\ UNCHANGED connections
             ELSE /\ handler' = [g \in Handler |->
                       IF g = h THEN Waiting(w.todo - 1) ELSE Shifted(handler[g], done.failed)]
                  /\ connections' = Without(done.failed)
<1>1. w # Quiet /\ Shape(w) /\ Decides(w) /\ loaded' = loaded
  BY DecidedByFeatures DEF Sent, Sending, Busy, FeedInv, Handles
<1>2. \E raised : Follows(IF raised THEN fails ELSE hears)
  BY ZenonT(30) DEF Sent
<1>3. PICK done : (done = fails \/ done = hears) /\ Follows(done)
  <2> HIDE DEF fails, hears, Follows
  <2> QED BY <1>2, Zenon
<1>4. CASE w.next <= l
  <2> DEFINE to   == {connections[w.next]}
             next == done.next + 1
             new  == [done EXCEPT !.to = to, !.next = next]
  <2>1. Shape(done) /\ done.features = w.features /\ done.raised = w.raised /\ done.whole = w.whole
    BY <1>1, <1>3 DEF Shape
  <2>2. handler' = [handler EXCEPT ![h] = new]
    BY <1>3, <1>4
  <2> HIDE DEF to, next
  <2>3. new.features = done.features /\ new.raised = done.raised /\ new.whole = done.whole
    BY <2>1 DEF Shape
  <2> HIDE DEF new, w
  <2>4. Decides(new)
    BY <1>1, <2>1, <2>3, SameVerdict
  <2> QED BY <1>1, <2>2, <2>4, OthersDecide
<1>5. CASE ~(w.next <= l)
  <2> DEFINE gone == done.failed
  <2>1. handler' = [g \in Handler |->
              IF g = h THEN Waiting(w.todo - 1) ELSE Shifted(handler[g], gone)]
    BY <1>3, <1>5
  <2> HIDE DEF gone, w
  <2>2. ASSUME NEW g \in Handler PROVE Decides(handler'[g])
    <3>1. Decides(Waiting(w.todo - 1))
      BY NothingToDecide
    <3>2. Decides(Shifted(handler[g], gone))
      BY DecidedByFeatures, ShiftDecides DEF FeedInv, Handles
    <3> QED BY <2>1, <3>1, <3>2
  <2> QED BY <1>1, <2>2 DEF OneFeatureDecides, Decides, Justified, Busy
<1> QED BY <1>4, <1>5

(* A forest that is loaded flags every batch with features of its own, and *)
(* one that is not flags a batch only for a feature that stands apart from *)
(* the seven others (ml/models/isolation_forest.py:52-85), for any flows a *)
(* client may send, any scores below zero, and whatever else is under way. *)
THEOREM OneFeatureStandsOut == FeedSpec => []OneFeatureDecides
<1>1. FeedInit => FeedInv /\ OneFeatureDecides
  BY DEF FeedInit, FeedInv, Distinct, Handles, OneFeatureDecides, Busy
<1>2. ASSUME FeedInv, OneFeatureDecides, [FeedNext]_feed PROVE OneFeatureDecides'
  <2>1. ASSUME NEW h \in Handler, (\E batch \in Batches : ingest_traffic(h, batch)) \/ ingest_payload(h)
        PROVE  OneFeatureDecides'
    BY <1>2, <2>1, IngestDecides
  <2>2. ASSUME NEW h \in Handler, BeginBroadcast(h) PROVE OneFeatureDecides'
    BY <1>2, <2>2, BeginDecides
  <2>3. ASSUME NEW h \in Handler, Sent(h) PROVE OneFeatureDecides'
    BY <1>2, <2>3, SentDecides
  <2>4. ASSUME NEW d \in Dashboard, Connect(d) \/ Breaks(d) PROVE OneFeatureDecides'
    <3>1. loaded' = loaded /\ handler' = handler
      BY <2>4 DEF Connect, Breaks
    <3> QED BY <1>2, <3>1 DEF OneFeatureDecides, Busy
  <2>5. ASSUME NEW d \in Dashboard, Leaves(d) PROVE OneFeatureDecides'
    <3>1. loaded' = loaded /\ handler' = [h \in Handler |-> Shifted(handler[h], {d})]
      BY <2>5 DEF Leaves
    <3>2. ASSUME NEW h \in Handler PROVE Decides(handler'[h])
      <4>1. Decides(Shifted(handler[h], {d}))
        BY <1>2, DecidedByFeatures, ShiftDecides DEF FeedInv, Handles
      <4> QED BY <3>1, <4>1
    <3> QED BY <3>1, <3>2 DEF OneFeatureDecides, Decides, Justified, Busy
  <2>6. CASE UNCHANGED feed
    BY <1>2, <2>6 DEF feed, OneFeatureDecides, Busy
  <2> QED BY <1>2, <2>1, <2>2, <2>3, <2>4, <2>5, <2>6 DEF FeedNext
<1> QED BY <1>1, <1>2, FeedNextInv, PTL DEF FeedSpec
===============================================================================
