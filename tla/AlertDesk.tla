------------------------------- MODULE AlertDesk -------------------------------
(***************************************************************************)
(* The life of an alert and the share of confirmed alerts on the overview  *)
(* (services/alert_service.py, services/dashboard_service.py, Incidents    *)
(* page).                                                                  *)
(*                                                                         *)
(* A request loads the row and then writes its status if that differs from *)
(* the one it loaded; the write and the commit are one step, for the row   *)
(* is locked in between.  Each count of a summary is a statement of its    *)
(* own and sees what is committed by then.  A request that is refused or   *)
(* rolled back changes nothing and is left out, as is a summary that Redis *)
(* still holds and that is shown as it is.                                 *)
(***************************************************************************)
EXTENDS Naturals, FiniteSets

CONSTANTS Alert, Clerk, Viewer

ASSUME DeskAssumption == IsFiniteSet(Alert)

VARIABLES status,  \* of each alert's row, "absent" before it is there
          clerk,   \* the request each clerk waits for
          viewer   \* the step of each viewer's summary, and its counts

desk == <<status, clerk, viewer>>

AlertStatus == {"new", "investigating", "resolved", "false_positive"}
Decided     == {"resolved", "false_positive"}

NoRequest == [on |-> "idle"]
NoSummary == [at |-> "idle"]

DeskInit ==
  /\ status = [a \in Alert |-> "absent"]
  /\ clerk = [c \in Clerk |-> NoRequest]
  /\ viewer = [v \in Viewer |-> NoSummary]

-----------------------------------------------------------------------------
(* The pipeline stores a new alert. *)
create(a) ==
  /\ status[a] = "absent"
  /\ status' = [status EXCEPT ![a] = "new"]
  /\ UNCHANGED <<clerk, viewer>>

Load(c, a, wish) ==
  /\ clerk[c] = NoRequest
  /\ status[a] # "absent"
  /\ clerk' = [clerk EXCEPT ![c] = [on |-> a, saw |-> status[a], wish |-> wish]]
  /\ UNCHANGED <<status, viewer>>

(* The requests of the page.  An assignment puts the alert under           *)
(* investigation, whatever it was; to whom is left out.                    *)
update_alert(c, a) == \E wish \in AlertStatus \ {"new"} : Load(c, a, wish)
assign_alert(c, a) == Load(c, a, "investigating")

(* A fault put in on purpose: the status is written whatever it was.  The  *)
(* specification never uses it.                                            *)
MutantWritten(job) == job.wish

(* The row after the flush, which writes what differs from what was loaded.*)
Written(job) == IF job.wish = job.saw THEN status[job.on] ELSE job.wish

(* A summary between its counts takes note of the alerts that change.      *)
Noting(a) ==
  [v \in Viewer |-> IF viewer[v].at = "decided" /\ status'[a] # status[a]
                    THEN [viewer[v] EXCEPT !.crossed = @ \cup {a}] ELSE viewer[v]]

Answer(c) ==
  LET job == clerk[c] IN
  /\ job # NoRequest
  /\ status' = [status EXCEPT ![job.on] = Written(job)]
  /\ viewer' = Noting(job.on)
  /\ clerk' = [clerk EXCEPT ![c] = NoRequest]

-----------------------------------------------------------------------------
Count(statuses) == Cardinality({a \in Alert : status[a] \in statuses})

(* A fault put in on purpose: resolved alerts are not counted as decided.  *)
(* The specification never uses it.                                        *)
MutantTotalResolved == Count({"false_positive"})

TotalResolved == Count(Decided)
TruePositives == Count({"resolved"})

(* get_dashboard_summary: two counts, an await apart. *)
CountDecided(v) ==
  /\ viewer[v] = NoSummary
  /\ viewer' = [viewer EXCEPT ![v] = [at |-> "decided", total |-> TotalResolved, crossed |-> {}]]
  /\ UNCHANGED <<status, clerk>>

CountConfirmed(v) ==
  /\ viewer[v].at = "decided"
  /\ viewer' = [viewer EXCEPT ![v] = [at |-> "counted", total |-> @.total, crossed |-> @.crossed,
                                      positives |-> TruePositives]]
  /\ UNCHANGED <<status, clerk>>

(* The summary is shown, and stored for the next viewers. *)
Show(v) ==
  /\ viewer[v].at = "counted"
  /\ viewer' = [viewer EXCEPT ![v] = NoSummary]
  /\ UNCHANGED <<status, clerk>>

(* In percent, rounded down; without a decision the page shows 98.         *)
detection_accuracy(s) == IF s.total = 0 THEN 98 ELSE (100 * s.positives) \div s.total

DeskNext ==
  \/ \E a \in Alert : create(a)
  \/ \E c \in Clerk : (\E a \in Alert : update_alert(c, a) \/ assign_alert(c, a)) \/ Answer(c)
  \/ \E v \in Viewer : CountDecided(v) \/ CountConfirmed(v) \/ Show(v)

DeskSpec == DeskInit /\ [][DeskNext]_desk

-----------------------------------------------------------------------------
(* A decision of an analyst is undone only by a request that found the     *)
(* alert new, or decided already: reassigning an alert that is under       *)
(* investigation never reopens it, though the decision came in between     *)
(* (alert_service.py:90-118, repositories/alert.py:51-57).                 *)
DecisionStands ==
  [][\A a \in Alert :
       status[a] \in Decided /\ status'[a] \notin Decided =>
         \E c \in Clerk : /\ clerk[c] # NoRequest /\ clerk'[c] = NoRequest
                          /\ clerk[c].on = a
                          /\ clerk[c].saw # "investigating"]_desk

(* The accuracy that is shown is a share: the second count of a summary    *)
(* exceeds the first by no more than the alerts that changed between the   *)
(* two, and with none it is at most 100 (dashboard_service.py:63-70).      *)
AccuracyIsAShare ==
  \A v \in Viewer :
    viewer[v].at = "counted" =>
      /\ viewer[v].positives <= viewer[v].total + Cardinality(viewer[v].crossed)
      /\ viewer[v].crossed = {} => detection_accuracy(viewer[v]) <= 100
=============================================================================
