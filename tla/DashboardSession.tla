---------------------------- MODULE DashboardSession ---------------------------
(***************************************************************************)
(* The dashboard in a browser (frontend/src/services/api.js, App.jsx and   *)
(* components/layout/AppLayout.jsx) against the sessions of AuthSessions.  *)
(*                                                                         *)
(* An access token lasts 30 minutes, so any call may be answered 401 but   *)
(* the one that follows a refresh; the caller then refreshes with the      *)
(* token in localStorage, and so does the live stream whenever it closes.  *)
(* Nothing keeps two of them apart.  All tabs share the localStorage.      *)
(***************************************************************************)
EXTENDS AuthSessions

CONSTANTS Me,       \* the account of the browser
          Fetch,    \* calls of fetchWithAuth and login that may overlap
          Socket    \* live streams, one per mounted layout

Browser   == Fetch \cup Socket
Elsewhere == Request \ Browser   \* other clients of the account

ASSUME DashboardAssumption == Me \in User /\ Browser \subseteq Request

VARIABLES stored,   \* the refresh token in localStorage, 0 for none
          step,     \* how far each call or stream is: "signin" or "refresh"
                    \* sent, "signed", "granted" or "refused" answered, "retry"
          held,     \* the token an answer brings to it, 0 for none
          disturbed \* history: the session may end without a logout here

browser   == <<stored, step, held, disturbed>>
dashboard == <<vars, browser>>

Moves(p, s) ==
  /\ step' = [step EXCEPT ![p] = s]
  /\ held' = [held EXCEPT ![p] = 0]

Renewing == {p \in Browser : step[p] \in {"refresh", "granted"}}

(* A server step that answers p brings it to s, unless p no longer waits.  *)
Answers(p, s, waiting) ==
  /\ step' = IF step[p] = waiting THEN [step EXCEPT ![p] = s] ELSE step
  /\ held' = IF step[p] = waiting /\ s # "refused"
             THEN [held EXCEPT ![p] = Len(token')] ELSE held
  /\ UNCHANGED <<stored, disturbed>>

DashInit ==
  /\ Init
  /\ stored = 0
  /\ step = [p \in Browser |-> "idle"]
  /\ held = [p \in Browser |-> 0]
  /\ disturbed = FALSE

-----------------------------------------------------------------------------
(* A fault put in on purpose; the specification never uses it.             *)
MutantSetTokens(t) == stored' = IF stored = 0 THEN t ELSE stored

(* The access token comes and goes with the refresh token. *)
setTokens(t) == stored' = t
logout       == stored' = 0

(* login: the form, and what its answer stores.  A sign-in that finds      *)
(* nothing stored and nothing on its way starts afresh.                    *)
SignIn(f) ==
  /\ step[f] = "idle"
  /\ BeginLogin(f, Me)
  /\ Moves(f, "signin")
  /\ disturbed' = (disturbed /\ \/ stored # 0
                                \/ \E p \in Browser : step[p] # "idle"
                                \/ \E r \in Request : request[r] # Idle)
  /\ UNCHANGED stored

Signed(f) ==
  /\ step[f] = "signed"
  /\ setTokens(held[f])
  /\ Moves(f, "idle")
  /\ UNCHANGED <<vars, disturbed>>

(* A 401, or the close of a stream: the stored token is sent at once, and  *)
(* refused at once if the account is disabled.                             *)
Renew(p) ==
  /\ step[p] = "idle" /\ stored # 0
  /\ \/ BeginRefresh(p, stored) /\ Moves(p, "refresh")
     \/ ~active[Me] /\ Moves(p, "refused") /\ UNCHANGED vars
  /\ disturbed' = (disturbed \/ Renewing # {})
  /\ UNCHANGED stored

(* A call is repeated with the new access token; a stream reconnects.      *)
Granted(p) ==
  /\ step[p] = "granted"
  /\ setTokens(held[p])
  /\ Moves(p, IF p \in Fetch THEN "retry" ELSE "idle")
  /\ UNCHANGED <<vars, disturbed>>

(* A call that fails from here on logs out, whatever the reason; a stream  *)
(* keeps what is stored and tries again.                                   *)
Fails(p) ==
  /\ IF p \in Fetch THEN logout ELSE stored' = stored
  /\ Moves(p, "idle")
  /\ UNCHANGED vars

Refused(p) == step[p] = "refused" /\ Fails(p) /\ UNCHANGED disturbed

RetryAnswered(f) ==
  /\ step[f] = "retry"
  /\ \/ Moves(f, "idle") /\ UNCHANGED <<vars, stored>>
     \/ Fails(f)
  /\ UNCHANGED disturbed

(* The answer to a refresh or a sign-in is lost.                           *)
Lost(p) ==
  \/ step[p] \in {"refresh", "granted"} /\ Fails(p) /\ disturbed' = TRUE
  \/ /\ step[p] \in {"signin", "signed"}
     /\ Moves(p, "idle")
     /\ UNCHANGED <<vars, stored, disturbed>>

(* The page is loaded again: nothing waits for an answer any more.         *)
Reload ==
  /\ step' = [p \in Browser |-> "idle"]
  /\ held' = [p \in Browser |-> 0]
  /\ disturbed' = (disturbed \/ Renewing # {})
  /\ UNCHANGED <<vars, stored>>

(* handleLogout: the backend is not told. *)
LogOut == logout /\ UNCHANGED <<vars, step, held, disturbed>>

-----------------------------------------------------------------------------
(* The steps of the backend, and what they answer.                         *)
Serve(p) ==
  \/ FinishLogin(p) /\ Answers(p, "signed", "signin")
  \/ Rotate(p) /\ Answers(p, "granted", "refresh")
  \/ FinishRevoke(p) /\ Answers(p, "refused", "refresh")
  \/ (FindToken(p) \/ LoadSessions(p)) /\ UNCHANGED browser

(* A session of the account is ended from the page of active sessions or   *)
(* by another client.                                                      *)
EndedElsewhere(r) ==
  /\ \/ revoke_all_sessions(r, Me)
     \/ \E t \in DOMAIN token : revoke_session(r, Me, t)
  /\ disturbed' = TRUE
  /\ UNCHANGED <<stored, step, held>>

BackendRestarts ==
  /\ Restart
  /\ step' = [p \in Browser |-> CASE step[p] = "refresh" -> "refused"
                                  [] step[p] = "signin"  -> "idle"
                                  [] OTHER               -> step[p]]
  /\ UNCHANGED <<stored, held, disturbed>>

DashNext ==
  \/ \E f \in Fetch : SignIn(f) \/ Signed(f) \/ RetryAnswered(f)
  \/ \E p \in Browser : Renew(p) \/ Granted(p) \/ Refused(p) \/ Lost(p) \/ Serve(p)
  \/ Reload \/ LogOut \/ BackendRestarts
  \/ \E r \in Elsewhere : EndedElsewhere(r) \/ (FinishRevoke(r) /\ UNCHANGED browser)
  \/ SetActive(Me) /\ UNCHANGED browser

DashSpec == DashInit /\ [][DashNext]_dashboard

-----------------------------------------------------------------------------
(* A browser that is signed in can go on: the token it stores is live, or  *)
(* the answer that brings its successor is on its way; and it never        *)
(* presents a token a second time, which would end every session of the    *)
(* account.  What can end the session: two refreshes that overlap, an      *)
(* answer to a refresh that is lost or abandoned by a reload, and a        *)
(* revocation elsewhere.                                                   *)
SessionGoesOn ==
  ~disturbed =>
    /\ stored # 0 => \/ ~token[stored].revoked
                     \/ \E p \in Browser : step[p] = "granted" /\ ~token[held[p]].revoked
    /\ \A p \in Browser : request[p].op \notin {"load", "revoke"}
=============================================================================
