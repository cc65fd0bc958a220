------------------------------ MODULE AuthSessions -----------------------------
(***************************************************************************)
(* Login sessions of the backend (services/auth_service.py): every login   *)
(* opens a session with a refresh token, every refresh replaces the token, *)
(* a logout or a token used twice ends the sessions of its user.           *)
(*                                                                         *)
(* Every request has a database session of its own under READ COMMITTED:   *)
(* it loads rows, and other requests commit before it writes.  A refusal   *)
(* changes nothing and is no step, and so does a token past its 7 days.    *)
(***************************************************************************)
EXTENDS Naturals, Sequences

CONSTANTS User,      \* accounts
          Request,   \* requests that may be in flight together
          MaxTokens  \* bound: refresh tokens issued

ASSUME SessionsAssumption == MaxTokens \in Nat

VARIABLES active,   \* users.is_active
          token,    \* refresh_tokens, in the order of their commits
          request,  \* the locals of the handlers in flight
          swept     \* history: tokens a finished revocation had to revoke

vars == <<active, token, request, swept>>

(* parent and root are history: the token a refresh consumed (0: a login)  *)
(* and the login of the chain; forked: its parent had been revoked between *)
(* the look and the commit; replayed: it was revoked before the request.   *)
Token == [user : User, revoked : BOOLEAN, parent : Nat, root : Nat,
          forked : BOOLEAN, replayed : BOOLEAN]

Op == {"idle", "enter", "find", "rotate", "load", "revoke"}

(* upto and replayed are history: the tokens there were at the load, and   *)
(* whether the presented token had been revoked before the request began.  *)
Idle == [op |-> "idle", ids |-> {}, upto |-> 0, replayed |-> FALSE]

Locals == [op : Op \ {"idle"}, user : User, ids : SUBSET (1..MaxTokens),
           upto : 0..MaxTokens, replayed : BOOLEAN]

Working(op, u, ids) ==
  [op |-> op, user |-> u, ids |-> ids, upto |-> Len(token), replayed |-> FALSE]

TokensOf(u) == {t \in DOMAIN token : token[t].user = u}
Live(u)     == {t \in TokensOf(u) : ~token[t].revoked}

Init ==
  /\ active \in [User -> BOOLEAN]
  /\ token = <<>>
  /\ request = [r \in Request |-> Idle]
  /\ swept = {}

Begin(r, locals) ==
  /\ request[r].op = "idle"
  /\ request' = [request EXCEPT ![r] = locals]
  /\ UNCHANGED <<active, token, swept>>

GoesOn(r, op, ids) ==
  /\ request' = [request EXCEPT ![r].op = op, ![r].ids = ids, ![r].upto = Len(token)]
  /\ UNCHANGED <<active, token, swept>>

Ends(r) == request' = [request EXCEPT ![r] = Idle]

(* Definitions named Mutant... are faults put in on purpose, to see that   *)
(* the properties find them; the specification never uses them.            *)
MutantRevoked(ids) == token

Revoked(ids) == [t \in DOMAIN token |->
                   [token[t] EXCEPT !.revoked = @ \/ t \in ids]]

-----------------------------------------------------------------------------
(* The part of authenticate_user that AuthAccounts leaves out.             *)
BeginLogin(r, u) == active[u] /\ Begin(r, Working("enter", u, {}))

FinishLogin(r) ==
  /\ request[r].op = "enter"
  /\ Len(token) < MaxTokens
  /\ token' = Append(token, [user |-> request[r].user, revoked |-> FALSE,
                             parent |-> 0, root |-> Len(token) + 1,
                             forked |-> FALSE, replayed |-> FALSE])
  /\ Ends(r)
  /\ UNCHANGED <<active, swept>>

(* refresh_access_token: the account is loaded first, then the token.      *)
BeginRefresh(r, t) ==
  /\ active[token[t].user]
  /\ Begin(r, [Working("find", token[t].user, {t}) EXCEPT
                 !.replayed = token[t].revoked])

FindToken(r) ==
  /\ request[r].op = "find"
  /\ GoesOn(r, IF \E t \in request[r].ids : ~token[t].revoked
               THEN "rotate" ELSE "load", request[r].ids)

MutantLoadSessions(r) ==
  /\ request[r].op = "load"
  /\ GoesOn(r, "revoke", request[r].ids)

(* A token that is not found unrevoked ends every session of its user.     *)
LoadSessions(r) ==
  /\ request[r].op = "load"
  /\ GoesOn(r, "revoke", TokensOf(request[r].user))

(* Writes revoked = TRUE without looking again. *)
Rotate(r) ==
  /\ request[r].op = "rotate"
  /\ Len(token) < MaxTokens
  /\ \E t \in request[r].ids :
       token' = Append(Revoked({t}),
                       [user |-> request[r].user, revoked |-> FALSE,
                        parent |-> t, root |-> token[t].root,
                        forked |-> token[t].revoked,
                        replayed |-> request[r].replayed])
  /\ Ends(r)
  /\ UNCHANGED <<active, swept>>

(* DELETE /sessions and logout *)
revoke_all_sessions(r, u) ==
  /\ active[u]
  /\ Begin(r, Working("revoke", u, Live(u)))

(* DELETE /sessions/{id} finds only a session of the caller. *)
revoke_session(r, u, t) ==
  /\ active[u]
  /\ t \in TokensOf(u)
  /\ Begin(r, [Working("revoke", u, {t}) EXCEPT !.upto = 0])

FinishRevoke(r) ==
  LET q == request[r]
  IN  /\ q.op = "revoke"
      /\ token' = Revoked(q.ids)
      /\ swept' = swept \cup q.ids \cup {t \in TokensOf(q.user) : t <= q.upto}
      /\ Ends(r)
      /\ UNCHANGED active

-----------------------------------------------------------------------------
(* The commit of admin_edit_user, or of the startup for the administrator. *)
SetActive(u) ==
  /\ active' = [active EXCEPT ![u] = ~@]
  /\ UNCHANGED <<token, request, swept>>

(* The backend stops: nothing a handler had not committed remains.         *)
Restart ==
  /\ request' = [r \in Request |-> Idle]
  /\ UNCHANGED <<active, token, swept>>

Next ==
  \/ \E r \in Request : \/ FinishLogin(r) \/ FindToken(r) \/ LoadSessions(r)
                        \/ Rotate(r) \/ FinishRevoke(r)
  \/ \E r \in Request, u \in User : BeginLogin(r, u) \/ revoke_all_sessions(r, u)
  \/ \E r \in Request, t \in DOMAIN token :
       BeginRefresh(r, t) \/ \E u \in User : revoke_session(r, u, t)
  \/ \E u \in User : SetActive(u)
  \/ Restart

Spec == Init /\ [][Next]_vars

-----------------------------------------------------------------------------
TypeOK ==
  /\ active \in [User -> BOOLEAN]
  /\ token \in Seq(Token) /\ Len(token) <= MaxTokens
  /\ request \in [Request -> {Idle} \cup Locals]
  /\ swept \subseteq 1..MaxTokens

(* refresh_access_token: one login has one live token, however often it    *)
(* was refreshed, unless two refreshes of one token overlapped: both find  *)
(* it unrevoked and both commit, and the session forks.                    *)
OneLivePerLogin ==
  \A s, t \in DOMAIN token :
    /\ s # t /\ ~token[s].revoked /\ ~token[t].revoked
    /\ token[s].root = token[t].root
    => \E x \in DOMAIN token : token[x].root = token[s].root /\ token[x].forked

(* A token revoked before a refresh began buys no new one; and what a      *)
(* logout, a revocation or a detected second use had to end stays ended,   *)
(* though only the rows it had loaded as live were written.                *)
RevokedForGood ==
  /\ \A t \in DOMAIN token : ~token[t].replayed
  /\ \A t \in swept : token[t].revoked
=============================================================================
