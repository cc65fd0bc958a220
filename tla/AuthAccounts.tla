------------------------------ MODULE AuthAccounts -----------------------------
(***************************************************************************)
(* Accounts of the backend (services/auth_service.py behind                *)
(* api/v1/auth.py): lockout after failed logins, passwords and their       *)
(* history.  The refresh tokens are in AuthSessions.                       *)
(*                                                                         *)
(* Every request has a database session of its own under READ COMMITTED.   *)
(* A handler loads rows, computes without awaiting, and its commit writes  *)
(* the columns it changed; other requests run between the load and the     *)
(* commit.  A refusal changes nothing and is no step.                      *)
(***************************************************************************)
EXTENDS Naturals, Sequences, Functions

CONSTANTS User,         \* e-mail addresses
          Admin,        \* admin@kovirx.com
          Password,     \* plaintexts
          Weak,         \* passwords that break the policy
          Seed,         \* the password startup gives the administrator
          Request,      \* requests that may be in flight together
          MaxFailures,  \* 5 in the code
          HistoryDepth  \* 5 in the code

ASSUME AuthAssumption ==
         /\ Admin \in User /\ Seed \in Password /\ Weak \subseteq Password
         /\ MaxFailures \in Nat \ {0} /\ HistoryDepth \in Nat \ {0}

VARIABLES account,  \* the users table
          lapsed,   \* whether locked_until of a locked account has passed
          history,  \* the newest HistoryDepth rows of user_password_histories
          request,  \* the locals of the handlers in flight
          strikes,  \* history: failed logins committed since the last reset
          tangled,  \* history: a counter was written by overlapping requests
          crossed   \* history: a login or a restart wrote over a password

rowVars     == <<account, lapsed, history>>
historyVars == <<strikes, tangled, crossed>>
vars == <<rowVars, request, historyVars>>

Row == [state : {"none", "active", "disabled"}, failed : Nat,
        lock : {"free", "held"}, password : Password, legacy : BOOLEAN]

NoRow  == [state |-> "none", failed |-> 0, lock |-> "free",
           password |-> Seed, legacy |-> FALSE]
NewRow(p) == [NoRow EXCEPT !.state = "active", !.password = p]
Unlocked(row) == [row EXCEPT !.failed = 0, !.lock = "free"]

Op == {"idle", "create", "clear", "enter", "fail", "password", "change",
       "unlock", "edit"}
Counter(row) == [failed |-> row.failed, lock |-> row.lock]
Idle == [op |-> "idle", user |-> Admin, clear |-> FALSE, seen |-> Counter(NoRow),
         set |-> <<>>]

Strong(p)   == p \notin Weak

(* Definitions named Mutant... are faults put in on purpose, to see that   *)
(* the properties find them; the specification never uses them.            *)
MutantRecorded(rows, p) == rows

(* The rows a password is compared with; older ones are never read.        *)
Recorded(rows, p) ==
  LET all == Append(rows, p)
  IN  IF Len(all) > HistoryDepth THEN Tail(all) ELSE all

MutantChanged(seen, new) == DOMAIN seen

(* The columns an UPDATE sends: the ones whose value is not the loaded one. *)
Changed(seen, new) == {f \in DOMAIN seen : new[f] # seen[f]}
Flushed(row, set) == [f \in DOMAIN row |-> IF f \in DOMAIN set THEN set[f] ELSE row[f]]

-----------------------------------------------------------------------------
(* A database of an older release may hold accounts with bcrypt hashes.    *)
Init ==
  /\ account \in [User -> {NoRow} \cup
                          {[NewRow(p) EXCEPT !.legacy = TRUE] : p \in Password}]
  /\ lapsed = [u \in User |-> FALSE]
  /\ history = [u \in User |-> <<>>]
  /\ request = [r \in Request |-> Idle]
  /\ strikes = [u \in User |-> 0]
  /\ tangled = [u \in User |-> FALSE] /\ crossed = [u \in User |-> FALSE]

Begin(r, locals) ==
  /\ request[r].op = "idle"
  /\ request' = [request EXCEPT ![r] = locals]
  /\ UNCHANGED <<rowVars, historyVars>>

(* A handler that loaded `row' and will write the given columns of new.   *)
Writing(op, u, row, new, columns) ==
  [Idle EXCEPT !.op = op, !.user = u, !.seen = Counter(row),
               !.set = [f \in columns |-> new[f]]]

-----------------------------------------------------------------------------
MutantFailed(row) ==
  [row EXCEPT !.failed = @ + 1,
              !.lock = IF row.failed >= MaxFailures THEN "held" ELSE @]

(* authenticate_user *)
Failed(row) ==
  [row EXCEPT !.failed = @ + 1,
              !.lock = IF row.failed + 1 >= MaxFailures THEN "held" ELSE @]

Entered(row) == [Unlocked(row) EXCEPT !.legacy = FALSE]

MutantAdmits(u) == account[u].lock = "free"

(* check_account_lock: in force it refuses; past it is cleared first.      *)
Admits(u) == account[u].lock = "free" \/ lapsed[u]

(* Loads the account and verifies the password against the loaded hash.    *)
(* An expired lock is cleared in a commit of its own, even for an account  *)
(* that is then refused because it is disabled.                            *)
BeginLogin(r, u, p) ==
  LET row   == account[u]
      base  == IF row.lock = "held" THEN Unlocked(row) ELSE row
      right == p = row.password
      new   == IF right THEN Entered(base) ELSE Failed(base)
      rehash == IF right /\ base.legacy THEN {"password"} ELSE {}
      op    == IF row.state = "disabled" THEN "clear"
               ELSE IF right THEN "enter" ELSE "fail"
  IN  /\ row.state # "none"
      /\ Admits(u)
      /\ row.state = "disabled" => row.lock = "held"
      /\ Begin(r, [Writing(op, u, row, new,
                           IF op = "clear" THEN {} ELSE Changed(base, new) \cup rehash)
                   EXCEPT !.clear = row.lock = "held"])

(* No other request wrote the counter since it was loaded. *)
CleanCount(r) == request[r].seen = Counter(account[request[r].user])

Reset(r) ==
  LET u == request[r].user
  IN  /\ strikes' = [strikes EXCEPT ![u] = 0]
      /\ tangled' = [tangled EXCEPT ![u] = ~CleanCount(r)]

ClearLock(r) ==
  LET u == request[r].user
      s == request[r].seen
  IN  /\ request[r].clear
      /\ account' = [account EXCEPT ![u] =
                       Flushed(@, [f \in Changed(s, Counter(NoRow)) |-> NoRow[f]])]
      /\ lapsed' = [lapsed EXCEPT ![u] = FALSE]
      /\ request' = [request EXCEPT ![r] =
                       IF @.op = "clear" THEN Idle
                       ELSE [@ EXCEPT !.clear = FALSE, !.seen = Counter(NoRow)]]
      /\ Reset(r)
      /\ UNCHANGED <<history, crossed>>

(* The commit of a handler: its columns reach the row, it is done. *)
CommitRow(r) ==
  LET u == request[r].user
      q == request[r]
  IN  /\ account' = [account EXCEPT ![u] = Flushed(@, q.set)]
      /\ lapsed' = [lapsed EXCEPT ![u] = @ /\ "lock" \notin DOMAIN q.set]
      /\ request' = [request EXCEPT ![r] = Idle]

FinishFailedLogin(r) ==
  LET u == request[r].user
  IN  /\ request[r].op = "fail" /\ ~request[r].clear
      /\ CommitRow(r)
      /\ strikes' = [strikes EXCEPT ![u] = IF @ > MaxFailures THEN @ ELSE @ + 1]
      /\ tangled' = [tangled EXCEPT ![u] = @ \/ ~CleanCount(r)]
      /\ UNCHANGED <<history, crossed>>

(* The counter, the rehash of a legacy hash and the refresh token of the   *)
(* session (AuthSessions) are one transaction.                             *)
FinishLogin(r) ==
  LET u == request[r].user
  IN  /\ request[r].op = "enter" /\ ~request[r].clear
      /\ CommitRow(r)
      /\ Reset(r)
      /\ crossed' = [crossed EXCEPT ![u] =
                       @ \/ ("password" \in DOMAIN request[r].set /\ ~account[u].legacy)]
      /\ UNCHANGED history

-----------------------------------------------------------------------------
(* Accounts and passwords *)

(* Two requests may both find the address free; the unique index lets one  *)
(* of them insert, and the other ends in an error.                         *)
BeginCreate(r, u, p) ==
  /\ account[u].state = "none" /\ Strong(p)
  /\ Begin(r, Writing("create", u, NoRow, NewRow(p), DOMAIN NoRow))

register_user(r, u, p)     == BeginCreate(r, u, p)
admin_create_user(r, u, p) == BeginCreate(r, u, p)

FinishCreate(r) ==
  LET u == request[r].user
  IN  /\ request[r].op = "create"
      /\ IF account[u].state = "none"
         THEN /\ CommitRow(r)
              /\ history' = [history EXCEPT ![u] = <<request[r].set.password>>]
         ELSE /\ request' = [request EXCEPT ![r] = Idle]
              /\ UNCHANGED rowVars
      /\ UNCHANGED historyVars

NewPassword(op, u, p) ==
  Writing(op, u, NoRow, NewRow(p), {"password", "legacy"})

(* The caller's access token outlives everything but a disabled account.   *)
BeginChange(r, u, current, p) ==
  /\ account[u].state = "active"
  /\ current = account[u].password
  /\ Strong(p)
  /\ Begin(r, NewPassword("change", u, p))

(* The history is read after the account. *)
CheckHistory(r) ==
  /\ request[r].op = "change"
  /\ request' = [request EXCEPT ![r] =
                   IF request[r].set.password \in Range(history[request[r].user])
                   THEN Idle ELSE [@ EXCEPT !.op = "password"]]
  /\ UNCHANGED <<rowVars, historyVars>>

(* reset_user_password does not look at the history. *)
BeginReset(r, u, p) ==
  /\ account[u].state # "none"
  /\ Strong(p)
  /\ Begin(r, NewPassword("password", u, p))

FinishPassword(r) ==
  LET u == request[r].user
  IN  /\ request[r].op = "password"
      /\ CommitRow(r)
      /\ history' = [history EXCEPT ![u] = Recorded(@, request[r].set.password)]
      /\ crossed' = [crossed EXCEPT ![u] = FALSE]
      /\ UNCHANGED <<strikes, tangled>>

admin_unlock_user(r, u) ==
  /\ account[u].state # "none"
  /\ Begin(r, Writing("unlock", u, account[u], NoRow,
                      Changed(Counter(account[u]), Counter(NoRow))))

FinishUnlock(r) ==
  /\ request[r].op = "unlock"
  /\ CommitRow(r)
  /\ Reset(r)
  /\ UNCHANGED <<history, crossed>>

(* Only is_active matters here of what an administrator may edit.          *)
admin_edit_user(r, u) ==
  /\ account[u].state # "none"
  /\ \E s \in {"active", "disabled"} :
       Begin(r, [Idle EXCEPT !.op = "edit", !.user = u,
                             !.set = IF s = account[u].state THEN <<>> ELSE [state |-> s]])

FinishEdit(r) ==
  /\ request[r].op = "edit"
  /\ CommitRow(r)
  /\ UNCHANGED <<history, historyVars>>

-----------------------------------------------------------------------------
(* The 15 minutes of a lock. *)
LockLapses(u) ==
  /\ account[u].lock = "held" /\ ~lapsed[u]
  /\ lapsed' = [lapsed EXCEPT ![u] = TRUE]
  /\ UNCHANGED <<account, history, request, historyVars>>

(* The backend restarts.  Without any user it seeds the administrator;     *)
(* with one it sets the administrator's password back, if there is one;    *)
(* otherwise seed_superadmin finds users and does nothing.                 *)
Restart ==
  /\ request' = [r \in Request |-> Idle]
  /\ IF \A u \in User : account[u].state = "none"
     THEN /\ account' = [account EXCEPT ![Admin] = NewRow(Seed)]
          /\ history' = [history EXCEPT ![Admin] = <<Seed>>]
          /\ UNCHANGED crossed
     ELSE /\ account' = IF account[Admin].state = "none" THEN account
                        ELSE [account EXCEPT ![Admin].password = Seed,
                                             ![Admin].legacy = FALSE,
                                             ![Admin].state = "active"]
          /\ crossed' = [crossed EXCEPT ![Admin] = @ \/ account[Admin].state # "none"]
          /\ UNCHANGED history
  /\ UNCHANGED <<lapsed, strikes, tangled>>

Finish(r) ==
  \/ ClearLock(r) \/ FinishFailedLogin(r) \/ FinishLogin(r)
  \/ FinishCreate(r) \/ CheckHistory(r) \/ FinishPassword(r)
  \/ FinishUnlock(r) \/ FinishEdit(r)

Next ==
  \/ \E r \in Request : Finish(r)
  \/ \E r \in Request, u \in User :
       \/ \E p \in Password : \/ BeginLogin(r, u, p)
                              \/ register_user(r, u, p)
                              \/ admin_create_user(r, u, p)
                              \/ BeginReset(r, u, p)
                              \/ \E c \in Password : BeginChange(r, u, c, p)
       \/ admin_unlock_user(r, u)
       \/ admin_edit_user(r, u)
  \/ \E u \in User : LockLapses(u)
  \/ Restart

Spec == Init /\ [][Next]_vars

(* Handlers end, time passes, the owner of an account keeps trying, and    *)
(* restarts do not cut off every attempt.                                  *)
FairSpec ==
  /\ Spec
  /\ \A r \in Request : WF_vars(Finish(r)) /\ SF_vars(ClearLock(r))
  /\ \A u \in User :
       /\ WF_vars(LockLapses(u))
       /\ SF_vars(\E r \in Request, p \in Password : BeginLogin(r, u, p))

-----------------------------------------------------------------------------

TypeOK ==
  /\ account \in [User -> Row]
  /\ lapsed \in [User -> BOOLEAN]
  /\ history \in [User -> Seq(Password)]
  /\ \A r \in Request : /\ request[r].op \in Op
                         /\ request[r].user \in User
  /\ strikes \in [User -> Nat]
  /\ tangled \in [User -> BOOLEAN] /\ crossed \in [User -> BOOLEAN]

(* The lockout counter is exact, and an account is locked exactly from the *)
(* MaxFailures-th failed login since the last success, unlock or expiry,   *)
(* as long as no two requests wrote the counter from the same reading.     *)
CounterIsExact ==
  \A u \in User : ~tangled[u] =>
    /\ account[u].failed = strikes[u]
    /\ account[u].lock = "held" <=> strikes[u] >= MaxFailures

(* The password in force is the last one recorded in the history, unless   *)
(* a login rehashed an older one over it or a restart set it back.         *)
PasswordIsRecorded ==
  \A u \in User : ~crossed[u] /\ history[u] # <<>> =>
    account[u].password = history[u][Len(history[u])]

(* A lock in force is released by an administrator, or by a login that had *)
(* read an earlier lock which had expired: never by a right or a wrong     *)
(* password, however the logins overlap.                                   *)
LockHolds ==
  [][\A u \in User :
       account[u].lock = "held" /\ ~lapsed[u] /\ account'[u].lock = "free" =>
         \E r \in Request : /\ request[r].user = u
                            /\ request[r].op = "unlock" \/ request[r].clear]_vars

(* A locked account does not stay locked: the lock lapses, and the next    *)
(* login clears it.                                                        *)
LockEnds ==
  \A u \in User : (account[u].lock = "held") ~> (account[u].lock = "free")
=============================================================================
