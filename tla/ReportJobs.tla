------------------------------ MODULE ReportJobs -------------------------------
(***************************************************************************)
(* Reports: a request stores a pending row and publishes a task; a Celery  *)
(* worker compiles the report and stores it, or records why it could not   *)
(* (services/report_service.py, database/repositories/report.py).          *)
(*                                                                         *)
(* The broker is external: it may refuse a task, take it and yet report an *)
(* error, and deliver a task twice; it is told that a task is done before  *)
(* the task begins (Celery's default), so a worker that dies loses it.     *)
(*                                                                         *)
(* A worker knows the task if its process has imported report_service.py.  *)
(* The one that docker-compose.yml starts has not: it imports              *)
(* core/celery_app.py, which looks for tasks in a module                   *)
(* backend.services.tasks that is not there.  Celery discards the message  *)
(* of a task that the worker does not know.                                *)
(***************************************************************************)
EXTENDS Naturals

CONSTANTS Report, Worker,
          MaxCopies  \* bound: copies of a task in the queue

VARIABLES row,        \* the status in the database, "none" before it is there
          content,    \* reports with content
          asked,      \* the step generate_report is at, 0 before the request
          queue,      \* copies of the task in the broker
          worker,     \* the task of each worker
          known,      \* the workers that know the task: none, as deployed
          discarded,  \* history: its task was discarded
          hindered,   \* history: the broker, the database or a process failed it
          redelivered \* history: its task was delivered twice

reports == <<row, content, asked, queue, worker, known, discarded, hindered, redelivered>>

Free == [at |-> "idle"]
Over == 3   \* of generate_report

JobsInit ==
  /\ row = [r \in Report |-> "none"]
  /\ content = {}
  /\ asked = [r \in Report |-> 0]
  /\ queue = [r \in Report |-> 0]
  /\ worker = [w \in Worker |-> Free]
  /\ known \in SUBSET Worker
  /\ discarded = {} /\ hindered = {} /\ redelivered = {}

-----------------------------------------------------------------------------
(* A fault put in on purpose: the task is published before the row is      *)
(* there.  The specification never uses it.                                *)
MutantSteps == <<"delay", "commit">>

Steps == <<"commit", "delay">>

Reaches(r, step) == asked[r] \in DOMAIN Steps /\ Steps[asked[r]] = step

generate_report(r) ==
  /\ asked[r] = 0
  /\ asked' = [asked EXCEPT ![r] = 1]
  /\ UNCHANGED <<row, content, queue, worker, known, discarded, hindered, redelivered>>

Commit(r) ==
  /\ Reaches(r, "commit")
  /\ row' = [row EXCEPT ![r] = "pending"]
  /\ asked' = [asked EXCEPT ![r] = @ + 1]
  /\ UNCHANGED <<content, queue, worker, known, discarded, hindered, redelivered>>

Delay(r) ==
  /\ Reaches(r, "delay")
  /\ queue[r] < MaxCopies
  /\ queue' = [queue EXCEPT ![r] = @ + 1]
  /\ asked' = [asked EXCEPT ![r] = @ + 1]
  /\ UNCHANGED <<row, content, worker, known, discarded, hindered, redelivered>>

(* The database fails, the broker refuses or seems to, or the backend      *)
(* stops: the row of a commit before stays.                                *)
RequestFails(r) ==
  /\ asked[r] \in DOMAIN Steps
  /\ asked' = [asked EXCEPT ![r] = Over]
  /\ hindered' = hindered \cup {r}
  /\ \/ UNCHANGED queue
     \/ Reaches(r, "delay") /\ queue[r] < MaxCopies /\ queue' = [queue EXCEPT ![r] = @ + 1]
  /\ UNCHANGED <<row, content, worker, known, discarded, redelivered>>

(* The broker delivers again what a worker holds but has not begun. *)
Redeliver(r) ==
  /\ queue[r] \in 1..(MaxCopies - 1)
  /\ queue' = [queue EXCEPT ![r] = @ + 1]
  /\ redelivered' = redelivered \cup {r}
  /\ UNCHANGED <<row, content, asked, worker, known, discarded, hindered>>

-----------------------------------------------------------------------------
(* The worker gets a message of a task it does not know.                   *)
Discard(w, r) ==
  /\ w \notin known /\ queue[r] > 0
  /\ queue' = [queue EXCEPT ![r] = @ - 1]
  /\ discarded' = discarded \cup {r}
  /\ UNCHANGED <<row, content, asked, worker, known, hindered, redelivered>>

(* async_compile_report.  update_status reads the row and then writes what *)
(* differs from what it read; the write and the commit are one step, for   *)
(* the row is locked in between.                                           *)
Take(w, r) ==
  /\ w \in known /\ worker[w] = Free /\ queue[r] > 0
  /\ queue' = [queue EXCEPT ![r] = @ - 1]
  /\ worker' = [worker EXCEPT ![w] = [at |-> "compile", report |-> r, seen |-> "none"]]
  /\ UNCHANGED <<row, content, asked, known, discarded, hindered, redelivered>>

Moves(w, from, to) ==
  /\ worker[w].at = from
  /\ worker' = [worker EXCEPT ![w].at = to, ![w].seen = row'[worker[w].report]]

Compiled(w) ==
  /\ UNCHANGED <<row, content, asked, queue, known, discarded, hindered, redelivered>>
  /\ Moves(w, "compile", "complete")

(* A query or the formatting raises. *)
CompileFails(w) ==
  /\ UNCHANGED <<row, content, asked, queue, known, discarded, hindered, redelivered>>
  /\ Moves(w, "compile", "fail")

Stores(w, status) ==
  LET r == worker[w].report IN
  /\ row' = [row EXCEPT ![r] = IF worker[w].seen \in {"none", status} THEN @ ELSE status]
  /\ content' = IF status = "completed" /\ worker[w].seen # "none" THEN content \cup {r} ELSE content

update_status(w, status) ==
  /\ Stores(w, status)
  /\ worker' = [worker EXCEPT ![w] = Free]
  /\ UNCHANGED <<asked, queue, known, discarded, hindered, redelivered>>

Complete(w)   == worker[w].at = "complete" /\ update_status(w, "completed")
MarkFailed(w) == worker[w].at = "fail" /\ update_status(w, "failed")

(* The commit raises, done or not, and the row is read again to record it. *)
CompleteFails(w) ==
  /\ worker[w].at = "complete"
  /\ Stores(w, "completed") \/ UNCHANGED <<row, content>>
  /\ Moves(w, "complete", "fail")
  /\ hindered' = hindered \cup {worker[w].report}
  /\ UNCHANGED <<asked, queue, known, discarded, redelivered>>

(* The task ends here: the session is unusable after an error of the       *)
(* database, or the process dies.                                          *)
TaskLost(w) ==
  /\ worker[w] # Free
  /\ hindered' = hindered \cup {worker[w].report}
  /\ worker' = [worker EXCEPT ![w] = Free]
  /\ UNCHANGED <<row, content, asked, queue, known, discarded, redelivered>>

(* download_report looks at the content alone. *)
Downloadable(r) == r \in content

JobsNext ==
  \/ \E r \in Report : generate_report(r) \/ Commit(r) \/ Delay(r) \/ RequestFails(r) \/ Redeliver(r)
  \/ \E w \in Worker : \/ \E r \in Report : Take(w, r) \/ Discard(w, r)
                       \/ Compiled(w) \/ CompileFails(w) \/ Complete(w) \/ MarkFailed(w)
                       \/ CompleteFails(w) \/ TaskLost(w)

JobsSpec == JobsInit /\ [][JobsNext]_reports

-----------------------------------------------------------------------------
(* A report that is pending is on its way, unless the broker, the database *)
(* or a process failed it or a worker discarded its task; one that is      *)
(* completed can be downloaded; only a task that ran twice, or whose       *)
(* commit was reported to fail, leaves a report that can be downloaded and *)
(* is said to have failed; and where no worker knows the task, which is    *)
(* how the program is deployed, every report stays pending for ever.       *)
ReportsAreAccountedFor ==
  \A r \in Report :
    LET underway == \/ asked[r] \in DOMAIN Steps \/ queue[r] > 0
                    \/ \E w \in Worker : worker[w] # Free /\ worker[w].report = r
    IN  /\ row[r] = "pending" /\ ~underway => r \in hindered \cup discarded
        /\ row[r] = "completed" => Downloadable(r)
        /\ row[r] # "completed" /\ Downloadable(r) => r \in redelivered \cup hindered
        /\ asked[r] = Over /\ row[r] = "none" => r \in hindered
        /\ known = {} => row[r] \in {"none", "pending"} /\ ~Downloadable(r)

-----------------------------------------------------------------------------
(* What the repository says and the code does not do.                      *)

(* README.md:95: "Celery worker executing background report jobs" *)
JobsAreExecuted == discarded = {}
=============================================================================
