----------------------------- MODULE SessionProofs -----------------------------
(***************************************************************************)
(* Theorems about AuthSessions and DashboardSession, for every set of      *)
(* accounts, requests, calls and streams.  The inductive invariant of the  *)
(* backend says what a handler in flight still knows of the tokens it has  *)
(* loaded; the one of the browser adds where each token it was given is.   *)
(***************************************************************************)
EXTENDS DashboardSession, TLAPS, SequenceTheorems

-----------------------------------------------------------------------------
(* The chain of a token begins with a token of the table. *)
RootsInv == \A t \in DOMAIN token : token[t].root \in DOMAIN token

(* What a handler in flight knows: it presents one token; one that was     *)
(* revoked before it began is not found; and when it revokes, whatever its *)
(* user had when it looked is in its hand or revoked by now.               *)
KnowsInv(r) ==
  LET q == request[r] IN
  /\ q.ids \subseteq DOMAIN token /\ q.upto <= Len(token)
  /\ q.op \in {"find", "rotate"} => \E t \in DOMAIN token : q.ids = {t}
  /\ q.replayed => q.op # "rotate"
  /\ q.replayed /\ q.op = "find" => \A t \in q.ids : token[t].revoked
  /\ q.op = "revoke" =>
       \A t \in TokensOf(q.user) : t <= q.upto => t \in q.ids \/ token[t].revoked

SweptInv == swept \subseteq DOMAIN token

IInv == /\ TypeOK /\ RootsInv /\ SweptInv
        /\ \A r \in Request : KnowsInv(r)
        /\ OneLivePerLogin /\ RevokedForGood

-----------------------------------------------------------------------------
(* Rows are marked where they are: nothing else of the table changes.      *)
LEMMA RevokedFields ==
  ASSUME token \in Seq(Token), NEW ids
  PROVE  /\ Revoked(ids) \in Seq(Token)
         /\ Len(Revoked(ids)) = Len(token) /\ DOMAIN Revoked(ids) = DOMAIN token
         /\ \A t \in DOMAIN token :
              Revoked(ids)[t] = [token[t] EXCEPT !.revoked = @ \/ t \in ids]
  <1> DEFINE new == Revoked(ids)
  <1>1. DOMAIN token = 1..Len(token) /\ Len(token) \in Nat
    BY LenProperties
  <1>2. \A t \in DOMAIN token : token[t] \in Token
    BY <1>1, ElementOfSeq
  <1>3. \A t \in DOMAIN token : [token[t] EXCEPT !.revoked = @ \/ t \in ids] \in Token
    BY <1>2 DEF Token
  <1>4. new \in [1..Len(token) -> Token]
    BY <1>1, <1>3 DEF Revoked
  <1>5. new \in Seq(Token)
    BY <1>1, <1>4
  <1>6. DOMAIN new = 1..Len(new)
    BY <1>5, LenProperties
  <1>7. Len(new) = Len(token)
    BY <1>1, <1>4, <1>5
  <1> QED BY <1>1, <1>5, <1>7 DEF Revoked

(* How the table changes: rows are added at its end and marked, no more.   *)
Grows ==
  /\ Len(token) <= Len(token')
  /\ \A t \in DOMAIN token :
       /\ t \in DOMAIN token'
       /\ token'[t].user = token[t].user /\ token'[t].root = token[t].root
       /\ token'[t].forked = token[t].forked /\ token'[t].replayed = token[t].replayed
       /\ token[t].revoked => token'[t].revoked

(* Len and DOMAIN of the table, and the type of a row and of the locals.   *)
LEMMA Types ==
  ASSUME TypeOK
  PROVE  /\ token \in Seq(Token) /\ Len(token) \in Nat /\ Len(token) <= MaxTokens
         /\ MaxTokens \in Nat /\ DOMAIN token = 1..Len(token)
         /\ DOMAIN token \subseteq 1..MaxTokens
         /\ \A t \in DOMAIN token : token[t] \in Token
         /\ \A r \in Request : request[r] \in {Idle} \cup Locals
         /\ \A r \in Request : request[r].op # "idle" => request[r] \in Locals
  <1>1. token \in Seq(Token) /\ Len(token) <= MaxTokens
    BY DEF TypeOK
  <1>2. Len(token) \in Nat /\ DOMAIN token = 1..Len(token)
    BY <1>1, LenProperties
  <1>3. \A t \in DOMAIN token : token[t] \in Token
    BY <1>1, <1>2, ElementOfSeq
  <1>4. \A r \in Request : request[r] \in {Idle} \cup Locals
    BY DEF TypeOK
  <1>5. \A r \in Request : request[r].op # "idle" => request[r] \in Locals
    BY <1>4 DEF Idle
  <1>6. DOMAIN token \subseteq 1..MaxTokens
    BY <1>1, <1>2, SessionsAssumption
  <1> QED BY <1>1, <1>2, <1>3, <1>4, <1>5, <1>6, SessionsAssumption

(* A handler that did nothing in a step still knows what it knew.          *)
LEMMA StillKnows ==
  ASSUME TypeOK, TypeOK', Grows, NEW r \in Request, KnowsInv(r), request'[r] = request[r]
  PROVE  KnowsInv(r)'
  <1> DEFINE q == request[r]
  <1>1. DOMAIN token \subseteq DOMAIN token' /\ Len(token) <= Len(token')
    BY DEF Grows
  <1>2. q.ids \subseteq DOMAIN token' /\ q.upto <= Len(token')
    <2>1. Len(token) \in Nat /\ Len(token') \in Nat
      BY Types, LenProperties DEF TypeOK
    <2>2. q.upto \in Nat
      BY Types DEF Idle, Locals
    <2> QED BY <1>1, <2>1, <2>2 DEF KnowsInv
  <1>3. q.op \in {"find", "rotate"} => \E t \in DOMAIN token' : q.ids = {t}
    BY <1>1 DEF KnowsInv
  <1>4. q.replayed => q.op # "rotate"
    BY DEF KnowsInv
  <1>5. q.replayed /\ q.op = "find" => \A t \in q.ids : token'[t].revoked
    BY DEF KnowsInv, Grows
  <1>6. ASSUME q.op = "revoke", NEW t \in DOMAIN token', token'[t].user = q.user, t <= q.upto
        PROVE  t \in q.ids \/ token'[t].revoked
    <2>1. t \in DOMAIN token
      <3>1. DOMAIN token' = 1..Len(token')
        BY LenProperties DEF TypeOK
      <3>2. q.upto \in Nat
        BY Types DEF Idle, Locals
      <3> QED BY <1>6, <3>1, <3>2, Types DEF KnowsInv
    <2> QED BY <1>6, <2>1 DEF KnowsInv, Grows, TokensOf
  <1> QED BY <1>2, <1>3, <1>4, <1>5, <1>6 DEF KnowsInv, TokensOf

(* A handler begins, goes on or is set back, and the table stays.          *)
LEMMA LocalsChange ==
  ASSUME IInv, UNCHANGED <<token, swept>>, active' \in [User -> BOOLEAN],
         request' \in [Request -> {Idle} \cup Locals],
         \A r \in Request : request'[r] = request[r] \/ KnowsInv(r)'
  PROVE  IInv' /\ Grows
  <1>1. TypeOK'
    BY DEF IInv, TypeOK
  <1>2. Grows
    BY Types DEF IInv, Grows
  <1>3. \A r \in Request : KnowsInv(r)'
    BY <1>1, <1>2, StillKnows DEF IInv
  <1>4. RootsInv' /\ SweptInv' /\ OneLivePerLogin' /\ RevokedForGood'
    BY DEF IInv, RootsInv, SweptInv, OneLivePerLogin, RevokedForGood
  <1> QED BY <1>1, <1>2, <1>3, <1>4 DEF IInv

(* The same for one handler. *)
LEMMA OneBegins ==
  ASSUME IInv, NEW r \in Request, NEW q \in {Idle} \cup Locals,
         request' = [request EXCEPT ![r] = q],
         active' \in [User -> BOOLEAN], UNCHANGED <<token, swept>>,
         KnowsInv(r)'
  PROVE  IInv' /\ Grows
  <1>1. request \in [Request -> {Idle} \cup Locals]
    BY DEF IInv, TypeOK
  <1>2. request' \in [Request -> {Idle} \cup Locals]
    BY <1>1
  <1>3. \A s \in Request : request'[s] = request[s] \/ KnowsInv(s)'
    BY <1>1
  <1> QED BY <1>2, <1>3, LocalsChange

(* What a handler that begins with loaded rows knows. *)
LEMMA BeginKnows ==
  ASSUME IInv, NEW r \in Request, NEW q \in Locals, Begin(r, q),
         q.ids \subseteq DOMAIN token, q.upto <= Len(token),
         q.op \in {"find", "rotate"} => \E t \in DOMAIN token : q.ids = {t},
         q.replayed => q.op = "find" /\ \A t \in q.ids : token[t].revoked,
         q.op = "revoke" => \A t \in TokensOf(q.user) : t <= q.upto => t \in q.ids \/ token[t].revoked
  PROVE  IInv' /\ Grows
  <1>1. request' = [request EXCEPT ![r] = q] /\ request'[r] = q /\ token' = token
    BY DEF Begin, IInv, TypeOK
  <1>2. KnowsInv(r)'
    BY <1>1 DEF KnowsInv, TokensOf
  <1> QED BY <1>1, <1>2, OneBegins DEF Begin, IInv, TypeOK

LEMMA WorkingFields ==
  ASSUME IInv, NEW op \in Op \ {"idle"}, NEW u \in User, NEW ids \in SUBSET DOMAIN token
  PROVE  LET w == Working(op, u, ids)
         IN  /\ w \in Locals
             /\ w.op = op /\ w.user = u /\ w.ids = ids /\ w.upto = Len(token) /\ ~w.replayed
  BY Types DEF Working, Locals, IInv

LEMMA RequestsBegin ==
  ASSUME IInv, NEW r \in Request
  PROVE  /\ \A u \in User : BeginLogin(r, u) \/ revoke_all_sessions(r, u) => IInv' /\ Grows
         /\ \A t \in DOMAIN token : BeginRefresh(r, t) => IInv' /\ Grows
         /\ \A u \in User, t \in DOMAIN token : revoke_session(r, u, t) => IInv' /\ Grows
  <1>1. Len(token) \in Nat
    BY Types DEF IInv
  <1>2. ASSUME NEW u \in User, BeginLogin(r, u) PROVE IInv' /\ Grows
    <2> DEFINE q == Working("enter", u, {})
    <2>1. "enter" \in Op \ {"idle"}
      BY DEF Op
    <2>2. q \in Locals /\ q.op = "enter" /\ q.ids = {} /\ q.upto = Len(token) /\ ~q.replayed
      BY <2>1, WorkingFields
    <2>3. Begin(r, q)
      BY <1>2 DEF BeginLogin
    <2> HIDE DEF q
    <2> QED BY <1>1, <2>2, <2>3, BeginKnows
  <1>3. ASSUME NEW u \in User, revoke_all_sessions(r, u) PROVE IInv' /\ Grows
    <2> DEFINE q == Working("revoke", u, Live(u))
    <2>1. "revoke" \in Op \ {"idle"} /\ Live(u) \in SUBSET DOMAIN token
      BY DEF Op, Live, TokensOf
    <2>2. /\ q \in Locals /\ q.op = "revoke" /\ q.user = u /\ q.ids = Live(u)
          /\ q.upto = Len(token) /\ ~q.replayed
      BY <2>1, WorkingFields
    <2>3. Begin(r, q)
      BY <1>3 DEF revoke_all_sessions
    <2>4. \A t \in TokensOf(u) : t \in Live(u) \/ token[t].revoked
      BY DEF Live
    <2> HIDE DEF q
    <2> QED BY <1>1, <2>1, <2>2, <2>3, <2>4, BeginKnows
  <1>4. ASSUME NEW t \in DOMAIN token, BeginRefresh(r, t) PROVE IInv' /\ Grows
    <2> DEFINE w == Working("find", token[t].user, {t})
               q == [w EXCEPT !.replayed = token[t].revoked]
    <2>1. "find" \in Op \ {"idle"} /\ token[t].user \in User /\ token[t].revoked \in BOOLEAN
      BY Types DEF Op, Token, IInv
    <2>2. w \in Locals /\ w.op = "find" /\ w.ids = {t} /\ w.upto = Len(token)
      BY <2>1, WorkingFields
    <2>3. Begin(r, q)
      BY <1>4 DEF BeginRefresh
    <2> HIDE DEF w
    <2>4. /\ q \in Locals /\ q.op = "find" /\ q.ids = {t} /\ q.upto = Len(token)
          /\ q.replayed = token[t].revoked
      BY <2>1, <2>2 DEF Locals
    <2> HIDE DEF q
    <2> QED BY <1>1, <2>3, <2>4, BeginKnows
  <1>5. ASSUME NEW u \in User, NEW t \in DOMAIN token, revoke_session(r, u, t)
        PROVE  IInv' /\ Grows
    <2> DEFINE w == Working("revoke", u, {t})
               q == [w EXCEPT !.upto = 0]
    <2>1. "revoke" \in Op \ {"idle"}
      BY DEF Op
    <2>2. w \in Locals /\ w.op = "revoke" /\ w.ids = {t} /\ ~w.replayed
      BY <2>1, WorkingFields
    <2>3. Begin(r, q)
      BY <1>5 DEF revoke_session
    <2> HIDE DEF w
    <2>4. q \in Locals /\ q.op = "revoke" /\ q.ids = {t} /\ q.upto = 0 /\ ~q.replayed
      BY <2>2, SessionsAssumption DEF Locals
    <2>5. \A x \in TokensOf(q.user) : ~(x <= 0)
      BY Types DEF TokensOf, IInv
    <2> HIDE DEF q
    <2> QED BY <1>1, <2>3, <2>4, <2>5, BeginKnows
  <1> QED BY <1>2, <1>3, <1>4, <1>5

(* A request that goes on has loaded rows again; it is what it was besides. *)
LEMMA GoesOnKnows ==
  ASSUME IInv, NEW r \in Request, request[r].op # "idle",
         NEW op \in Op \ {"idle"}, NEW ids \in SUBSET DOMAIN token, GoesOn(r, op, ids),
         op \in {"find", "rotate"} => \E t \in DOMAIN token : ids = {t},
         request[r].replayed => op \in {"load", "revoke"},
         op = "revoke" => TokensOf(request[r].user) \subseteq ids
  PROVE  IInv' /\ Grows
  <1> DEFINE q == [request[r] EXCEPT !.op = op, !.ids = ids, !.upto = Len(token)]
  <1>1. request[r] \in Locals
    BY Types DEF IInv
  <1>2. /\ q.op = op /\ q.ids = ids /\ q.upto = Len(token)
        /\ q.user = request[r].user /\ q.replayed = request[r].replayed
    BY <1>1 DEF Locals
  <1>3. ids \in SUBSET (1..MaxTokens) /\ Len(token) \in 0..MaxTokens
    BY Types DEF IInv
  <1>4. q \in Locals
    BY <1>1, <1>3 DEF Locals
  <1>5. request' = [request EXCEPT ![r] = q] /\ request'[r] = q /\ token' = token
    BY DEF GoesOn, IInv, TypeOK
  <1> HIDE DEF q
  <1>6. Len(token) <= Len(token)
    BY Types DEF IInv
  <1>7. KnowsInv(r)'
    BY <1>2, <1>5, <1>6 DEF KnowsInv, TokensOf
  <1> QED BY <1>4, <1>5, <1>7, OneBegins DEF GoesOn, IInv, TypeOK

LEMMA RequestsGoOn ==
  ASSUME IInv, NEW r \in Request, FindToken(r) \/ LoadSessions(r)
  PROVE  IInv' /\ Grows
  <1>1. CASE FindToken(r)
    <2> DEFINE op == IF \E t \in request[r].ids : ~token[t].revoked THEN "rotate" ELSE "load"
    <2>1. request[r].op = "find" /\ GoesOn(r, op, request[r].ids)
      BY <1>1 DEF FindToken
    <2>2. op \in Op \ {"idle"} /\ request[r].ids \in SUBSET DOMAIN token
      BY DEF Op, IInv, KnowsInv
    <2>3. \E t \in DOMAIN token : request[r].ids = {t}
      BY <2>1 DEF IInv, KnowsInv
    <2>4. request[r].replayed => op = "load"
      BY <2>1 DEF IInv, KnowsInv
    <2>5. op \in {"rotate", "load"}
      OBVIOUS
    <2> HIDE DEF op
    <2> QED BY <2>1, <2>2, <2>3, <2>4, <2>5, GoesOnKnows
  <1>2. CASE LoadSessions(r)
    <2>1. request[r].op = "load" /\ GoesOn(r, "revoke", TokensOf(request[r].user))
      BY <1>2 DEF LoadSessions
    <2>2. "revoke" \in Op \ {"idle"} /\ TokensOf(request[r].user) \in SUBSET DOMAIN token
      BY DEF Op, TokensOf
    <2> QED BY <2>1, <2>2, GoesOnKnows
  <1> QED BY <1>1, <1>2

(* A handler that is done: the table changed, and nobody else's locals.    *)
LEMMA OneEnds ==
  ASSUME IInv, NEW r \in Request, Ends(r), active' = active,
         token' \in Seq(Token), Len(token') <= MaxTokens, Grows,
         swept' \subseteq DOMAIN token'
  PROVE  /\ TypeOK' /\ SweptInv'
         /\ \A s \in Request : KnowsInv(s)'
  <1>1. /\ request \in [Request -> {Idle} \cup Locals]
        /\ request' = [request EXCEPT ![r] = Idle]
    BY DEF Ends, IInv, TypeOK
  <1>2. request' \in [Request -> {Idle} \cup Locals] /\ request'[r] = Idle
    BY <1>1
  <1>3. Len(token') \in Nat /\ DOMAIN token' = 1..Len(token')
    BY LenProperties
  <1>4. swept' \subseteq 1..MaxTokens
    BY <1>3, SessionsAssumption
  <1>5. TypeOK'
    BY <1>2, <1>4 DEF IInv, TypeOK
  <1>6. KnowsInv(r)'
    BY <1>2, <1>3 DEF KnowsInv, Idle
  <1>7. ASSUME NEW s \in Request, s # r PROVE KnowsInv(s)'
    BY <1>1, <1>5, <1>7, StillKnows DEF IInv
  <1> QED BY <1>5, <1>6, <1>7 DEF SweptInv

(* A row is added to a table of the length and with the roots of this one. *)
LEMMA RowAdded ==
  ASSUME TypeOK, NEW rows \in Seq(Token), Len(rows) = Len(token), NEW e \in Token,
         token' = Append(rows, e)
  PROVE  /\ token' \in Seq(Token) /\ Len(token') = Len(token) + 1
         /\ DOMAIN token' = DOMAIN token \cup {Len(token) + 1}
         /\ Len(token) + 1 \notin DOMAIN token
         /\ \A t \in DOMAIN token : token'[t] = rows[t]
         /\ token'[Len(token) + 1] = e
  <1>1. Len(token) \in Nat /\ DOMAIN token = 1..Len(token)
    BY Types
  <1>2. token' \in Seq(Token) /\ Len(token') = Len(token) + 1
    BY AppendProperties
  <1>3. DOMAIN token' = 1..(Len(token) + 1)
    BY <1>2, LenProperties
  <1>4. /\ \A t \in 1..Len(rows) : token'[t] = rows[t]
        /\ token'[Len(rows) + 1] = e
    BY AppendProperties
  <1> QED BY <1>1, <1>2, <1>3, <1>4

(* The table after a login: a new chain. *)
LEMMA LoginTable ==
  ASSUME IInv, NEW r \in Request, FinishLogin(r)
  PROVE  LET n == Len(token) + 1
         IN  /\ token' \in Seq(Token) /\ Len(token') = n /\ n <= MaxTokens /\ Len(token) <= n
             /\ DOMAIN token' = DOMAIN token \cup {n} /\ n \notin DOMAIN token
             /\ \A t \in DOMAIN token : token'[t] = token[t]
             /\ token'[n].root = n /\ ~token'[n].revoked /\ ~token'[n].replayed
  <1> DEFINE n == Len(token) + 1
             e == [user |-> request[r].user, revoked |-> FALSE, parent |-> 0, root |-> n,
                   forked |-> FALSE, replayed |-> FALSE]
  <1>1. request[r].op = "enter" /\ token' = Append(token, e) /\ Len(token) < MaxTokens
    BY DEF FinishLogin
  <1>2. request[r].user \in User /\ Len(token) \in Nat /\ token \in Seq(Token)
    BY <1>1, Types DEF IInv, Locals
  <1>3. e \in Token
    BY <1>2 DEF Token
  <1>4. e.root = n /\ ~e.revoked /\ ~e.replayed
    OBVIOUS
  <1> HIDE DEF e
  <1>5. /\ token' \in Seq(Token) /\ Len(token') = n
        /\ DOMAIN token' = DOMAIN token \cup {n} /\ n \notin DOMAIN token
        /\ \A t \in DOMAIN token : token'[t] = token[t]
        /\ token'[n] = e
    BY <1>1, <1>2, <1>3, RowAdded DEF IInv
  <1>6. n <= MaxTokens /\ Len(token) <= n
    BY <1>1, <1>2, SessionsAssumption
  <1> QED BY <1>4, <1>5, <1>6

LEMMA LoginStep ==
  ASSUME IInv, NEW r \in Request, FinishLogin(r)
  PROVE  IInv' /\ Grows
  <1> DEFINE n == Len(token) + 1
  <1>1. /\ token' \in Seq(Token) /\ Len(token') = n /\ n <= MaxTokens /\ Len(token) <= n
        /\ DOMAIN token' = DOMAIN token \cup {n} /\ n \notin DOMAIN token
        /\ \A t \in DOMAIN token : token'[t] = token[t]
        /\ token'[n].root = n /\ ~token'[n].revoked /\ ~token'[n].replayed
    BY LoginTable
  <1> HIDE DEF n
  <1>2. Grows
    BY <1>1 DEF Grows
  <1>3. TypeOK' /\ SweptInv' /\ \A s \in Request : KnowsInv(s)'
    BY <1>1, <1>2, OneEnds DEF FinishLogin, IInv, SweptInv
  <1>4. RootsInv'
    BY <1>1 DEF IInv, RootsInv
  <1>5. OneLivePerLogin'
    <2> SUFFICES ASSUME NEW s \in DOMAIN token', NEW t \in DOMAIN token', s # t,
                        ~token'[s].revoked, ~token'[t].revoked, token'[s].root = token'[t].root
                 PROVE  \E x \in DOMAIN token' : token'[x].root = token'[s].root /\ token'[x].forked
      BY DEF OneLivePerLogin
    <2>1. s \in DOMAIN token /\ t \in DOMAIN token
      BY <1>1 DEF IInv, RootsInv
    <2> QED BY <1>1, <2>1 DEF IInv, OneLivePerLogin
  <1>6. RevokedForGood'
    BY <1>1 DEF IInv, RevokedForGood, SweptInv, FinishLogin
  <1> QED BY <1>2, <1>3, <1>4, <1>5, <1>6 DEF IInv

(* The table after a refresh: the token it found is revoked, and has a     *)
(* successor that says whether somebody else had revoked it in between.    *)
LEMMA RotateTable ==
  ASSUME IInv, NEW r \in Request, Rotate(r)
  PROVE  LET n == Len(token) + 1
         IN  /\ token' \in Seq(Token) /\ Len(token') = n /\ n <= MaxTokens /\ Len(token) <= n
             /\ DOMAIN token' = DOMAIN token \cup {n} /\ n \notin DOMAIN token
             /\ ~token'[n].revoked /\ ~token'[n].replayed
             /\ \E p \in DOMAIN token :
                  /\ request[r].ids = {p}
                  /\ token'[n].root = token[p].root /\ token'[n].forked = token[p].revoked
                  /\ \A t \in DOMAIN token :
                       /\ token'[t].user = token[t].user /\ token'[t].root = token[t].root
                       /\ token'[t].forked = token[t].forked
                       /\ token'[t].replayed = token[t].replayed
                       /\ token'[t].revoked <=> token[t].revoked \/ t = p
  <1>1. PICK p \in request[r].ids :
          token' = Append(Revoked({p}),
                          [user |-> request[r].user, revoked |-> FALSE, parent |-> p,
                           root |-> token[p].root, forked |-> token[p].revoked,
                           replayed |-> request[r].replayed])
    BY DEF Rotate
  <1> DEFINE n == Len(token) + 1
             rows == Revoked({p})
             e == [user |-> request[r].user, revoked |-> FALSE, parent |-> p,
                   root |-> token[p].root, forked |-> token[p].revoked,
                   replayed |-> request[r].replayed]
  <1>2. request[r].op = "rotate" /\ Len(token) < MaxTokens
    BY DEF Rotate
  <1>3. /\ request[r] \in Locals /\ ~request[r].replayed
        /\ request[r].user \in User /\ request[r].replayed \in BOOLEAN
        /\ request[r].ids = {p} /\ p \in DOMAIN token /\ token[p] \in Token /\ p \in Nat
        /\ Len(token) \in Nat /\ token \in Seq(Token)
    BY <1>2, Types DEF IInv, KnowsInv, Locals
  <1>4. e \in Token
    BY <1>3 DEF Token
  <1>5. /\ e.root = token[p].root /\ e.revoked = FALSE /\ e.replayed = request[r].replayed
        /\ e.forked = token[p].revoked
    OBVIOUS
  <1> HIDE DEF e
  <1>6. /\ rows \in Seq(Token) /\ Len(rows) = Len(token)
        /\ \A t \in DOMAIN token : rows[t] = [token[t] EXCEPT !.revoked = @ \/ t \in {p}]
    BY <1>3, RevokedFields
  <1> HIDE DEF rows
  <1>7. /\ token' \in Seq(Token) /\ Len(token') = n
        /\ DOMAIN token' = DOMAIN token \cup {n} /\ n \notin DOMAIN token
        /\ \A t \in DOMAIN token : token'[t] = rows[t]
        /\ token'[n] = e
    BY <1>1, <1>4, <1>6, RowAdded DEF IInv, e, rows
  <1>8. n <= MaxTokens /\ Len(token) <= n
    BY <1>2, <1>3, SessionsAssumption
  <1>9. \A t \in DOMAIN token :
          /\ token'[t].user = token[t].user /\ token'[t].root = token[t].root
          /\ token'[t].forked = token[t].forked /\ token'[t].replayed = token[t].replayed
          /\ token'[t].revoked <=> token[t].revoked \/ t = p
    <2> TAKE t \in DOMAIN token
    <2>1. token[t] \in Token
      BY Types DEF IInv
    <2>2. token'[t] = [token[t] EXCEPT !.revoked = @ \/ t \in {p}]
      BY <1>6, <1>7
    <2> QED BY <2>1, <2>2 DEF Token
  <1> HIDE DEF n
  <1>10. ~token'[n].revoked /\ ~token'[n].replayed
    BY <1>3, <1>5, <1>7
  <1>11. token'[n].root = token[p].root /\ token'[n].forked = token[p].revoked
    BY <1>5, <1>7
  <1> QED BY <1>3, <1>7, <1>8, <1>9, <1>10, <1>11 DEF n

LEMMA RotateStep ==
  ASSUME IInv, NEW r \in Request, Rotate(r)
  PROVE  IInv' /\ Grows
  <1> DEFINE n == Len(token) + 1
  <1>1. /\ token' \in Seq(Token) /\ Len(token') = n /\ n <= MaxTokens /\ Len(token) <= n
        /\ DOMAIN token' = DOMAIN token \cup {n} /\ n \notin DOMAIN token
        /\ ~token'[n].revoked /\ ~token'[n].replayed
    BY RotateTable
  <1>2. PICK p \in DOMAIN token :
          /\ token'[n].root = token[p].root /\ token'[n].forked = token[p].revoked
          /\ \A t \in DOMAIN token :
               /\ token'[t].user = token[t].user /\ token'[t].root = token[t].root
               /\ token'[t].forked = token[t].forked /\ token'[t].replayed = token[t].replayed
               /\ token'[t].revoked <=> token[t].revoked \/ t = p
    BY RotateTable
  <1> HIDE DEF n
  <1>3. Grows
    BY <1>1, <1>2 DEF Grows
  <1>4. TypeOK' /\ SweptInv' /\ \A s \in Request : KnowsInv(s)'
    BY <1>1, <1>3, OneEnds DEF Rotate, IInv, SweptInv
  <1>5. RootsInv'
    BY <1>1, <1>2 DEF IInv, RootsInv
  <1>6. OneLivePerLogin'
    <2> SUFFICES ASSUME NEW s \in DOMAIN token', NEW t \in DOMAIN token', s # t,
                        ~token'[s].revoked, ~token'[t].revoked, token'[s].root = token'[t].root
                 PROVE  \E x \in DOMAIN token' : token'[x].root = token'[s].root /\ token'[x].forked
      BY DEF OneLivePerLogin
    <2>1. CASE s \in DOMAIN token /\ t \in DOMAIN token
      <3>1. \E x \in DOMAIN token : token[x].root = token[s].root /\ token[x].forked
        BY <1>2, <2>1 DEF IInv, OneLivePerLogin
      <3> QED BY <1>1, <1>2, <2>1, <3>1
    <2>2. ASSUME NEW y \in DOMAIN token, ~token'[y].revoked, token'[y].root = token[p].root
          PROVE  \E x \in DOMAIN token' : token'[x].root = token[p].root /\ token'[x].forked
      <3>1. CASE token[p].revoked
        BY <1>1, <1>2, <3>1
      <3>2. CASE ~token[p].revoked
        <4>1. y # p /\ ~token[y].revoked /\ token[y].root = token[p].root
          BY <1>2, <2>2
        <4>2. \E x \in DOMAIN token : token[x].root = token[p].root /\ token[x].forked
          BY <3>2, <4>1 DEF IInv, OneLivePerLogin
        <4> QED BY <1>1, <1>2, <4>2
      <3> QED BY <3>1, <3>2
    <2>3. CASE s = n \/ t = n
      BY <1>1, <1>2, <2>2, <2>3
    <2> QED BY <1>1, <2>1, <2>3
  <1>7. RevokedForGood'
    BY <1>1, <1>2 DEF IInv, RevokedForGood, SweptInv, Rotate
  <1> QED BY <1>3, <1>4, <1>5, <1>6, <1>7 DEF IInv

(* A revocation marks what it has in hand; what its user had when it looked *)
(* was in its hand or had been marked by others.                           *)
LEMMA RevokeStep ==
  ASSUME IInv, NEW r \in Request, FinishRevoke(r)
  PROVE  IInv' /\ Grows
  <1> DEFINE q == request[r]
  <1>1. q.op = "revoke" /\ token' = Revoked(q.ids)
    BY DEF FinishRevoke
  <1>2. token \in Seq(Token) /\ Len(token) \in Nat /\ Len(token) <= MaxTokens
    BY Types DEF IInv
  <1>3. /\ token' \in Seq(Token) /\ Len(token') = Len(token) /\ DOMAIN token' = DOMAIN token
        /\ \A t \in DOMAIN token : token'[t] = [token[t] EXCEPT !.revoked = @ \/ t \in q.ids]
    BY <1>1, <1>2, RevokedFields
  <1>4. \A t \in DOMAIN token :
          /\ token'[t].user = token[t].user /\ token'[t].root = token[t].root
          /\ token'[t].forked = token[t].forked /\ token'[t].replayed = token[t].replayed
          /\ token'[t].revoked <=> token[t].revoked \/ t \in q.ids
    <2> TAKE t \in DOMAIN token
    <2>1. token[t] \in Token
      BY Types DEF IInv
    <2> QED BY <1>3, <2>1 DEF Token
  <1>5. Grows
    BY <1>2, <1>3, <1>4 DEF Grows
  <1>6. swept' = swept \cup q.ids \cup {t \in TokensOf(q.user) : t <= q.upto}
    BY DEF FinishRevoke
  <1>7. swept' \subseteq DOMAIN token'
    BY <1>3, <1>6 DEF IInv, SweptInv, KnowsInv, TokensOf
  <1>8. TypeOK' /\ SweptInv' /\ \A s \in Request : KnowsInv(s)'
    BY <1>2, <1>3, <1>5, <1>7, OneEnds DEF FinishRevoke
  <1>9. RootsInv' /\ OneLivePerLogin'
    BY <1>3, <1>4 DEF IInv, RootsInv, OneLivePerLogin
  <1>10. RevokedForGood'
    <2>1. \A t \in DOMAIN token' : ~token'[t].replayed
      BY <1>3, <1>4 DEF IInv, RevokedForGood
    <2>2. ASSUME NEW t \in swept' PROVE token'[t].revoked
      <3>1. t \in DOMAIN token
        BY <1>3, <1>7
      <3>2. token[t].revoked \/ t \in q.ids
        BY <1>1, <1>6, <2>2 DEF IInv, KnowsInv, RevokedForGood
      <3> QED BY <1>4, <3>1, <3>2
    <2> QED BY <2>1, <2>2 DEF RevokedForGood
  <1> QED BY <1>5, <1>8, <1>9, <1>10 DEF IInv

LEMMA InitInv == Init => IInv
  <1> SUFFICES ASSUME Init PROVE IInv
    OBVIOUS
  <1>1. token \in Seq(Token) /\ Len(token) = 0 /\ DOMAIN token = {} /\ 0 <= MaxTokens
    <2>1. token \in Seq(Token) /\ Len(token) = 0
      BY EmptySeq DEF Init
    <2> QED BY <2>1, LenProperties, SessionsAssumption
  <1>2. TypeOK
    BY <1>1, SessionsAssumption DEF Init, TypeOK
  <1>3. \A r \in Request : KnowsInv(r)
    BY <1>1 DEF Init, KnowsInv, Idle
  <1>4. RootsInv /\ SweptInv /\ OneLivePerLogin /\ RevokedForGood
    BY <1>1 DEF Init, RootsInv, SweptInv, OneLivePerLogin, RevokedForGood
  <1> QED BY <1>2, <1>3, <1>4 DEF IInv

LEMMA NextInv == IInv /\ [Next]_vars => IInv' /\ Grows
  <1> SUFFICES ASSUME IInv, [Next]_vars PROVE IInv' /\ Grows
    OBVIOUS
  <1>1. ASSUME NEW r \in Request, FinishLogin(r) PROVE IInv' /\ Grows
    BY <1>1, LoginStep
  <1>2. ASSUME NEW r \in Request, FindToken(r) \/ LoadSessions(r) PROVE IInv' /\ Grows
    BY <1>2, RequestsGoOn
  <1>3. ASSUME NEW r \in Request, Rotate(r) PROVE IInv' /\ Grows
    BY <1>3, RotateStep
  <1>4. ASSUME NEW r \in Request, FinishRevoke(r) PROVE IInv' /\ Grows
    BY <1>4, RevokeStep
  <1>5. ASSUME NEW r \in Request, NEW u \in User, BeginLogin(r, u) \/ revoke_all_sessions(r, u)
        PROVE  IInv' /\ Grows
    BY <1>5, RequestsBegin
  <1>6. ASSUME NEW r \in Request, NEW t \in DOMAIN token,
               BeginRefresh(r, t) \/ \E u \in User : revoke_session(r, u, t)
        PROVE  IInv' /\ Grows
    BY <1>6, RequestsBegin
  <1>7. ASSUME NEW u \in User, SetActive(u) PROVE IInv' /\ Grows
    <2>1. active' \in [User -> BOOLEAN]
      BY <1>7 DEF SetActive, IInv, TypeOK
    <2> QED BY <1>7, <2>1, LocalsChange DEF SetActive, IInv, TypeOK
  <1>8. ASSUME Restart PROVE IInv' /\ Grows
    <2>1. /\ request' \in [Request -> {Idle} \cup Locals]
          /\ \A r \in Request : request'[r] = Idle
      BY <1>8 DEF Restart
    <2>2. 0 <= Len(token)
      BY Types DEF IInv
    <2>3. \A r \in Request : KnowsInv(r)'
      BY <1>8, <2>1, <2>2 DEF KnowsInv, Idle, Restart
    <2> QED BY <1>8, <2>1, <2>3, LocalsChange DEF Restart, IInv, TypeOK
  <1>9. ASSUME UNCHANGED vars PROVE IInv' /\ Grows
    BY <1>9, LocalsChange DEF vars, IInv, TypeOK
  <1> QED BY <1>1, <1>2, <1>3, <1>4, <1>5, <1>6, <1>7, <1>8, <1>9 DEF Next

(* What the handlers know holds in every state of the backend. *)
THEOREM SessionsInvariant == Spec => []IInv
  <1>1. Init => IInv
    BY InitInv
  <1>2. IInv /\ [Next]_vars => IInv'
    BY NextInv
  <1> QED BY <1>1, <1>2, PTL DEF Spec

(* The table and the locals of the handlers are what the code writes.      *)
THEOREM SessionTypes == Spec => []TypeOK
  <1>1. IInv => TypeOK
    BY DEF IInv
  <1> QED BY <1>1, SessionsInvariant, PTL

(* However many requests of an account overlap, a login has one live token *)
(* unless two refreshes of one token did.                                  *)
THEOREM SessionsDoNotMultiply == Spec => []OneLivePerLogin
  <1>1. IInv => OneLivePerLogin
    BY DEF IInv
  <1> QED BY <1>1, SessionsInvariant, PTL

(* A token that was revoked buys no new one, and what a revocation had to  *)
(* end stays ended.                                                        *)
THEOREM RevocationIsFinal == Spec => []RevokedForGood
  <1>1. IInv => RevokedForGood
    BY DEF IInv
  <1> QED BY <1>1, SessionsInvariant, PTL

(* No step removes a row, changes whose it is, or makes a revoked token    *)
(* live again.                                                             *)
THEOREM NothingIsUnrevoked == Spec => [][Grows]_vars
  <1>1. IInv /\ [Next]_vars => [Grows]_vars
    BY NextInv
  <1> QED BY <1>1, SessionsInvariant, PTL DEF Spec

-----------------------------------------------------------------------------
(* The browser.  A token is in one place at a time; while nothing can have *)
(* ended the session, one renewal at most is under way, it presents a live *)
(* token nobody else holds, and nobody revokes.                            *)
Progress == {"idle", "signin", "signed", "refresh", "granted", "refused", "retry"}

BrowserTypes ==
  /\ stored \in 0..Len(token)
  /\ step \in [Browser -> Progress]
  /\ held \in [Browser -> 0..Len(token)]
  /\ disturbed \in BOOLEAN

HeldInv ==
  \A p \in Browser :
    /\ held[p] # 0 <=> step[p] \in {"signed", "granted"}
    /\ held[p] # 0 => held[p] # stored /\ \A q \in Browser : q # p => held[q] # held[p]

Presents(r) == request[r].op \in {"find", "rotate"}

Undisturbed ==
  /\ \A r \in Request : request[r].op \notin {"load", "revoke"}
  /\ \A r \in Request : Presents(r) =>
       /\ r \in Browser /\ step[r] = "refresh"
       /\ \A t \in request[r].ids : ~token[t].revoked /\ \A p \in Browser : held[p] # t
  /\ \A p \in Browser : held[p] # 0 => ~token[held[p]].revoked
  /\ \A p, q \in Renewing : p = q
  /\ stored # 0 /\ token[stored].revoked => \E p \in Browser : step[p] = "granted"

BrowserInv == BrowserTypes /\ HeldInv /\ (~disturbed => Undisturbed)

LEMMA SessionGoesOnHolds == BrowserInv => SessionGoesOn
  <1> SUFFICES ASSUME BrowserInv, ~disturbed
               PROVE  /\ stored # 0 =>
                           \/ ~token[stored].revoked
                           \/ \E p \in Browser : step[p] = "granted" /\ ~token[held[p]].revoked
                      /\ \A p \in Browser : request[p].op \notin {"load", "revoke"}
    BY DEF SessionGoesOn
  <1>1. \A p \in Browser : step[p] = "granted" => held[p] # 0
    BY DEF BrowserInv, HeldInv
  <1> QED BY <1>1, DashboardAssumption DEF BrowserInv, Undisturbed

LEMMA Browsers ==
  /\ Browser \subseteq Request /\ Fetch \subseteq Browser /\ Elsewhere \subseteq Request
  /\ Elsewhere \cap Browser = {} /\ Me \in User
  BY DashboardAssumption DEF Browser, Elsewhere

(* A call or stream that goes on gives up the token it was brought, and     *)
(* that token may be stored.                                               *)
LEMMA MovesOn ==
  ASSUME BrowserTypes, HeldInv, NEW p \in Browser, NEW s \in Progress \ {"signed", "granted"},
         Moves(p, s), stored' \in {0, stored, held[p]}, disturbed' \in BOOLEAN,
         Len(token) \in Nat, Len(token') \in Nat, Len(token) <= Len(token')
  PROVE  /\ BrowserTypes' /\ HeldInv'
         /\ step'[p] = s /\ held'[p] = 0
         /\ \A q \in Browser : q # p => step'[q] = step[q] /\ held'[q] = held[q]
  <1>1. /\ step' = [step EXCEPT ![p] = s] /\ held' = [held EXCEPT ![p] = 0]
        /\ step \in [Browser -> Progress] /\ held \in [Browser -> 0..Len(token)]
    BY DEF Moves, BrowserTypes
  <1>2. /\ step'[p] = s /\ held'[p] = 0
        /\ \A q \in Browser : q # p => step'[q] = step[q] /\ held'[q] = held[q]
    BY <1>1
  <1>3. BrowserTypes'
    <2>1. step' \in [Browser -> Progress]
      BY <1>1
    <2>2. held' \in [Browser -> 0..Len(token')] /\ stored' \in 0..Len(token')
      BY <1>1 DEF BrowserTypes
    <2> QED BY <2>1, <2>2 DEF BrowserTypes
  <1>4. HeldInv'
    BY <1>2 DEF HeldInv
  <1> QED BY <1>2, <1>3, <1>4

(* Steps of the browser that the backend does not see.                     *)
LEMMA BrowserMoves ==
  ASSUME IInv, BrowserInv, UNCHANGED vars, NEW p \in Browser,
         NEW s \in Progress \ {"signed", "granted", "refresh"}, Moves(p, s),
         stored' \in {0, stored, held[p]}, disturbed' \in BOOLEAN,
         ~disturbed' => ~disturbed,
         step[p] = "refresh" => disturbed',
         step[p] = "granted" /\ stored' = stored => disturbed'
  PROVE  BrowserInv'
  <1>1. Len(token) \in Nat /\ token' = token /\ request' = request
    BY Types DEF IInv, vars
  <1>2. /\ BrowserTypes' /\ HeldInv'
        /\ step'[p] = s /\ held'[p] = 0
        /\ \A q \in Browser : q # p => step'[q] = step[q] /\ held'[q] = held[q]
    BY <1>1, MovesOn DEF BrowserInv
  <1>3. ASSUME ~disturbed' PROVE Undisturbed'
    <2>1. Undisturbed /\ step[p] # "refresh"
      BY <1>3 DEF BrowserInv
    <2>2. \A r \in Request : Presents(r)' => Presents(r) /\ r # p
      BY <1>1, <2>1 DEF Presents, Undisturbed
    <2>3. \A r \in Request : Presents(r)' =>
            /\ r \in Browser /\ step'[r] = "refresh"
            /\ \A t \in request'[r].ids :
                 ~token'[t].revoked /\ \A q \in Browser : held'[q] # t
      <3> SUFFICES ASSUME NEW r \in Request, Presents(r), r # p
                   PROVE  /\ r \in Browser /\ step'[r] = "refresh"
                          /\ \A t \in request[r].ids :
                               ~token[t].revoked /\ \A q \in Browser : held'[q] # t
        BY <1>1, <2>2
      <3>1. /\ r \in Browser /\ step[r] = "refresh"
            /\ \A t \in request[r].ids : ~token[t].revoked /\ \A q \in Browser : held[q] # t
        BY <2>1 DEF Undisturbed
      <3>2. 0 \notin request[r].ids
        BY Types DEF IInv, KnowsInv
      <3> QED BY <1>2, <3>1, <3>2
    <2>4. \A q \in Browser : held'[q] # 0 => ~token[held'[q]].revoked
      BY <1>2, <2>1 DEF Undisturbed
    <2>5. Renewing' \subseteq Renewing
      BY <1>2 DEF Renewing
    <2>6. stored' # 0 /\ token[stored'].revoked => \E q \in Browser : step'[q] = "granted"
      <3>1. CASE stored' = held[p]
        BY <2>1, <3>1 DEF Undisturbed
      <3>2. CASE stored' = stored
        BY <1>2, <1>3, <2>1, <3>2 DEF Undisturbed
      <3> QED BY <3>1, <3>2
    <2> QED BY <1>1, <2>1, <2>3, <2>4, <2>5, <2>6 DEF Undisturbed
  <1> QED BY <1>2, <1>3 DEF BrowserInv

LEMMA BrowserSteps ==
  ASSUME IInv, BrowserInv, NEW p \in Browser,
         Signed(p) \/ Granted(p) \/ Refused(p) \/ RetryAnswered(p) \/ Lost(p)
  PROVE  BrowserInv'
  <1> USE DEF Fails, Moves
  <1>1. disturbed \in BOOLEAN
    BY DEF BrowserInv, BrowserTypes
  <1>2. CASE Signed(p)
    BY <1>1, <1>2, BrowserMoves DEF Signed, setTokens, Progress
  <1>3. CASE Granted(p)
    <2>1. held[p] # stored
      BY <1>3 DEF Granted, BrowserInv, HeldInv
    <2>2. (IF p \in Fetch THEN "retry" ELSE "idle") \in Progress \ {"signed", "granted", "refresh"}
      BY DEF Progress
    <2> QED BY <1>1, <1>3, <2>1, <2>2, BrowserMoves DEF Granted, setTokens
  <1>4. CASE Refused(p)
    BY <1>1, <1>4, BrowserMoves DEF Refused, logout, Progress
  <1>5. CASE RetryAnswered(p)
    BY <1>1, <1>5, BrowserMoves DEF RetryAnswered, logout, Progress
  <1>6. CASE Lost(p)
    <2>1. "idle" \in Progress \ {"signed", "granted", "refresh"}
      BY DEF Progress
    <2>2. CASE /\ step[p] \in {"signin", "signed"} /\ Moves(p, "idle")
               /\ UNCHANGED <<vars, stored, disturbed>>
      BY <1>1, <2>1, <2>2, BrowserMoves
    <2>3. CASE Fails(p) /\ disturbed' = TRUE
      <3>1. Moves(p, "idle") /\ stored' \in {0, stored} /\ UNCHANGED vars
        BY <2>3 DEF logout
      <3> QED BY <2>1, <2>3, <3>1, BrowserMoves
    <2> QED BY <1>6, <2>2, <2>3 DEF Lost
  <1> QED BY <1>2, <1>3, <1>4, <1>5, <1>6

LEMMA PageSteps ==
  ASSUME IInv, BrowserInv, Reload \/ LogOut
  PROVE  BrowserInv'
  <1>1. Len(token) \in Nat
    BY Types DEF IInv
  <1>2. CASE Reload
    <2>1. BrowserTypes' /\ HeldInv'
      BY <1>1, <1>2 DEF Reload, vars, BrowserInv, BrowserTypes, HeldInv, Progress
    <2>2. ASSUME ~disturbed' PROVE Undisturbed'
      <3>1. Undisturbed /\ Renewing = {}
        BY <1>2, <2>2 DEF Reload, BrowserInv
      <3>2. \A r \in Request : ~Presents(r)
        BY <3>1 DEF Undisturbed, Renewing
      <3>3. ~\E q \in Browser : step[q] = "granted"
        BY <3>1 DEF Renewing
      <3> QED BY <1>2, <3>1, <3>2, <3>3 DEF Reload, vars, Undisturbed, Renewing, Presents
    <2> QED BY <2>1, <2>2 DEF BrowserInv
  <1>3. CASE LogOut
    <2>1. BrowserTypes' /\ HeldInv'
      BY <1>1, <1>3 DEF LogOut, logout, vars, BrowserInv, BrowserTypes, HeldInv
    <2>2. ASSUME ~disturbed' PROVE Undisturbed'
      BY <1>3, <2>2 DEF LogOut, logout, vars, BrowserInv, Undisturbed, Renewing, Presents
    <2> QED BY <2>1, <2>2 DEF BrowserInv
  <1> QED BY <1>2, <1>3

(* The steps that send the backend a request.  A sign-in that finds nothing *)
(* under way is where the session begins to count.                         *)
LEMMA SignInStep ==
  ASSUME IInv, BrowserInv, NEW f \in Fetch, SignIn(f)
  PROVE  BrowserInv'
  <1> DEFINE q == Working("enter", Me, {})
  <1>1. f \in Browser /\ f \in Request /\ Len(token) \in Nat /\ 0 <= Len(token)
    BY Browsers, Types DEF IInv
  <1>2. /\ step[f] = "idle" /\ Moves(f, "signin") /\ stored' = stored /\ token' = token
        /\ request' = [request EXCEPT ![f] = q] /\ q.op = "enter"
        /\ disturbed' = (disturbed /\ \/ stored # 0
                                      \/ \E p \in Browser : step[p] # "idle"
                                      \/ \E r \in Request : request[r] # Idle)
    BY DEF SignIn, BeginLogin, Begin, Working
  <1> HIDE DEF q
  <1>3. request'[f] = q /\ \A r \in Request : r # f => request'[r] = request[r]
    BY <1>1, <1>2 DEF IInv, TypeOK
  <1>4. /\ BrowserTypes' /\ HeldInv'
        /\ step'[f] = "signin" /\ held'[f] = 0
        /\ \A p \in Browser : p # f => step'[p] = step[p] /\ held'[p] = held[p]
    BY <1>1, <1>2, MovesOn DEF BrowserInv, BrowserTypes, Progress
  <1>5. held[f] = 0
    BY <1>1, <1>2 DEF BrowserInv, HeldInv
  <1>6. \A p \in Browser : held'[p] = held[p]
    BY <1>4, <1>5
  <1>7. Renewing' = Renewing
    BY <1>2, <1>4 DEF Renewing
  <1>8. ASSUME ~disturbed' PROVE Undisturbed'
    <2>1. CASE ~disturbed
      <3>1. Undisturbed
        BY <2>1 DEF BrowserInv
      <3>2. \A r \in Request : Presents(r)' => Presents(r) /\ r # f
        BY <1>2, <1>3 DEF Presents
      <3> QED BY <1>2, <1>3, <1>4, <1>6, <1>7, <3>1, <3>2 DEF Undisturbed
    <2>2. CASE /\ stored = 0
               /\ \A p \in Browser : step[p] = "idle"
               /\ \A r \in Request : request[r] = Idle
      <3>1. \A p \in Browser : held'[p] = 0
        BY <1>6, <2>2 DEF BrowserInv, HeldInv
      <3>2. Renewing' = {}
        BY <1>7, <2>2 DEF Renewing
      <3>3. \A r \in Request : request'[r].op \in {"idle", "enter"}
        BY <1>2, <1>3, <2>2 DEF Idle
      <3> QED BY <1>2, <2>2, <3>1, <3>2, <3>3 DEF Undisturbed, Presents
    <2> QED BY <1>2, <1>8, <2>1, <2>2
  <1> QED BY <1>4, <1>8 DEF BrowserInv

(* A renewal presents what is stored; the only one under way, it presents  *)
(* a live token that nobody holds.                                         *)
LEMMA RenewStep ==
  ASSUME IInv, BrowserInv, NEW p \in Browser, Renew(p)
  PROVE  BrowserInv'
  <1>1. p \in Request /\ Len(token) \in Nat /\ DOMAIN token = 1..Len(token)
    BY Browsers, Types DEF IInv
  <1>2. /\ step[p] = "idle" /\ stored # 0 /\ stored' = stored
        /\ disturbed' = (disturbed \/ Renewing # {})
        /\ disturbed' \in BOOLEAN
    BY DEF Renew, BrowserInv, BrowserTypes
  <1>3. CASE ~active[Me] /\ Moves(p, "refused") /\ UNCHANGED vars
    BY <1>2, <1>3, BrowserMoves DEF Progress
  <1>4. CASE BeginRefresh(p, stored) /\ Moves(p, "refresh")
    <2> DEFINE w == Working("find", token[stored].user, {stored})
               q == [w EXCEPT !.replayed = token[stored].revoked]
    <2>1. q.op = "find" /\ q.ids = {stored}
      BY DEF Working
    <2>2. request' = [request EXCEPT ![p] = q] /\ token' = token
      BY <1>4 DEF BeginRefresh, Begin
    <2> HIDE DEF q
    <2>3. request'[p] = q /\ \A r \in Request : r # p => request'[r] = request[r]
      BY <1>1, <2>2 DEF IInv, TypeOK
    <2>4. /\ BrowserTypes' /\ HeldInv'
          /\ step'[p] = "refresh" /\ held'[p] = 0
          /\ \A s \in Browser : s # p => step'[s] = step[s] /\ held'[s] = held[s]
      BY <1>1, <1>2, <1>4, <2>2, MovesOn DEF BrowserInv, BrowserTypes, Progress
    <2>5. ASSUME ~disturbed' PROVE Undisturbed'
      <3>1. Undisturbed /\ Renewing = {}
        BY <1>2, <2>5 DEF BrowserInv
      <3>2. \A r \in Request : ~Presents(r)
        BY <3>1 DEF Undisturbed, Renewing
      <3>3. \A r \in Request : Presents(r)' => r = p
        BY <2>3, <3>2 DEF Presents
      <3>4. ~token[stored].revoked
        BY <1>2, <3>1 DEF Undisturbed, Renewing
      <3>5. \A s \in Browser : held'[s] # stored
        BY <1>2, <2>4 DEF HeldInv
      <3>6. \A s \in Browser : held'[s] # 0 => ~token'[held'[s]].revoked
        BY <2>2, <2>4, <3>1 DEF Undisturbed
      <3>7. \A s \in Renewing' : s = p
        BY <2>4, <3>1 DEF Renewing
      <3>8. \A r \in Request : request'[r].op \notin {"load", "revoke"}
        BY <2>1, <2>3, <3>1 DEF Undisturbed
      <3> QED BY <1>2, <2>1, <2>2, <2>3, <2>4, <3>3, <3>4, <3>5, <3>6, <3>7, <3>8 DEF Undisturbed
    <2> QED BY <2>4, <2>5 DEF BrowserInv
  <1> QED BY <1>3, <1>4 DEF Renew

(* A handler looks again; what it presents is what it presented.           *)
LEMMA LooksAgain ==
  ASSUME IInv, BrowserInv, NEW p \in Request, FindToken(p) \/ LoadSessions(p), UNCHANGED browser
  PROVE  BrowserInv'
  <1>1. token' = token /\ UNCHANGED <<stored, step, held, disturbed>>
    BY DEF FindToken, LoadSessions, GoesOn, browser
  <1>2. BrowserTypes' /\ HeldInv'
    BY <1>1 DEF BrowserInv, BrowserTypes, HeldInv
  <1>3. ASSUME ~disturbed' PROVE Undisturbed'
    <2>1. Undisturbed
      BY <1>1, <1>3 DEF BrowserInv
    <2>2. FindToken(p) /\ request[p].op = "find"
      BY <2>1 DEF Undisturbed, LoadSessions, FindToken
    <2>3. request[p] \in Locals /\ request \in [Request -> {Idle} \cup Locals]
      BY <2>2, Types DEF IInv, TypeOK
    <2>4. PICK t \in DOMAIN token : request[p].ids = {t}
      BY <2>2 DEF IInv, KnowsInv
    <2>5. ~token[t].revoked
      BY <2>1, <2>2, <2>4 DEF Undisturbed, Presents
    <2>6. request' = [request EXCEPT ![p] = [@ EXCEPT !.op = "rotate", !.ids = request[p].ids,
                                                      !.upto = Len(token)]]
      BY <2>2, <2>4, <2>5 DEF FindToken, GoesOn
    <2>7. request'[p].op = "rotate" /\ request'[p].ids = request[p].ids
      BY <2>3, <2>6 DEF Locals
    <2>8. \A r \in Request : r # p => request'[r] = request[r]
      BY <2>3, <2>6
    <2>9. \A r \in Request : /\ Presents(r)' <=> Presents(r)
                             /\ request'[r].ids = request[r].ids
                             /\ request'[r].op \notin {"load", "revoke"}
      BY <2>1, <2>2, <2>7, <2>8 DEF Presents, Undisturbed
    <2>10. Renewing' = Renewing
      BY <1>1 DEF Renewing
    <2> QED BY <1>1, <2>1, <2>9, <2>10 DEF Undisturbed
  <1> QED BY <1>2, <1>3 DEF BrowserInv

(* A token is issued and answers the one that waits for it: nobody else    *)
(* holds it yet.                                                           *)
LEMMA IssueAnswers ==
  ASSUME IInv, BrowserInv, NEW p \in Browser, NEW s \in {"signed", "granted"},
         NEW waiting \in {"signin", "refresh"}, Answers(p, s, waiting),
         Len(token') = Len(token) + 1
  PROVE  /\ BrowserTypes' /\ HeldInv' /\ UNCHANGED <<stored, disturbed>>
         /\ IF step[p] = waiting
            THEN /\ step'[p] = s /\ held'[p] = Len(token')
                 /\ \A q \in Browser : q # p => step'[q] = step[q] /\ held'[q] = held[q]
            ELSE UNCHANGED <<step, held>>
  <1>1. Len(token) \in Nat /\ Len(token') \in Nat /\ Len(token) <= Len(token') /\ Len(token') # 0
    BY Types DEF IInv
  <1>2. /\ UNCHANGED <<stored, disturbed>>
        /\ step \in [Browser -> Progress] /\ held \in [Browser -> 0..Len(token)]
    BY DEF Answers, BrowserInv, BrowserTypes
  <1>3. CASE step[p] = waiting
    <2>1. step' = [step EXCEPT ![p] = s] /\ held' = [held EXCEPT ![p] = Len(token')]
      BY <1>3 DEF Answers
    <2>2. /\ step'[p] = s /\ held'[p] = Len(token')
          /\ \A q \in Browser : q # p => step'[q] = step[q] /\ held'[q] = held[q]
      BY <1>2, <2>1
    <2>3. step' \in [Browser -> Progress]
      BY <1>2, <2>1 DEF Progress
    <2>4. held' \in [Browser -> 0..Len(token')]
      BY <1>1, <1>2, <2>1
    <2>5. BrowserTypes'
      BY <1>1, <1>2, <2>3, <2>4 DEF BrowserInv, BrowserTypes
    <2>6. Len(token') # stored /\ \A q \in Browser : held[q] # Len(token')
      BY <1>1, <1>2 DEF BrowserInv, BrowserTypes
    <2>7. HeldInv'
      BY <1>1, <1>2, <2>2, <2>6 DEF BrowserInv, HeldInv
    <2> QED BY <1>2, <1>3, <2>2, <2>5, <2>7
  <1>4. CASE step[p] # waiting
    <2>1. UNCHANGED <<step, held>>
      BY <1>4 DEF Answers
    <2>2. BrowserTypes' /\ HeldInv'
      BY <1>1, <1>2, <2>1 DEF BrowserInv, BrowserTypes, HeldInv
    <2> QED BY <1>2, <1>4, <2>1, <2>2
  <1> QED BY <1>3, <1>4

LEMMA SignInAnswered ==
  ASSUME IInv, BrowserInv, NEW p \in Browser, FinishLogin(p), Answers(p, "signed", "signin")
  PROVE  BrowserInv'
  <1> DEFINE n == Len(token) + 1
  <1>1. /\ Len(token') = n
        /\ DOMAIN token' = DOMAIN token \cup {n} /\ n \notin DOMAIN token
        /\ \A t \in DOMAIN token : token'[t] = token[t]
        /\ ~token'[n].revoked
    BY Browsers, LoginTable
  <1>2. /\ BrowserTypes' /\ HeldInv' /\ UNCHANGED <<stored, disturbed>>
        /\ IF step[p] = "signin"
           THEN /\ step'[p] = "signed" /\ held'[p] = n
                /\ \A q \in Browser : q # p => step'[q] = step[q] /\ held'[q] = held[q]
           ELSE UNCHANGED <<step, held>>
    BY <1>1, IssueAnswers
  <1>3. DOMAIN token = 1..Len(token) /\ Len(token) \in Nat
    BY Types DEF IInv
  <1>4. stored \in 0..Len(token) /\ \A q \in Browser : held[q] \in 0..Len(token)
    BY DEF BrowserInv, BrowserTypes
  <1> HIDE DEF n
  <1>5. /\ request'[p] = Idle
        /\ \A r \in Request : r # p => request'[r] = request[r]
    BY Browsers DEF FinishLogin, Ends, IInv, TypeOK
  <1>6. Renewing' = Renewing
    BY <1>2 DEF Renewing
  <1>7. ASSUME ~disturbed' PROVE Undisturbed'
    <2>1. Undisturbed
      BY <1>2, <1>7 DEF BrowserInv
    <2>2. \A r \in Request : request'[r].op \notin {"load", "revoke"}
      BY <1>5, <2>1 DEF Undisturbed, Idle
    <2>3. ASSUME NEW r \in Request, Presents(r)'
          PROVE  /\ r \in Browser /\ step'[r] = "refresh"
                 /\ \A t \in request'[r].ids :
                      ~token'[t].revoked /\ \A q \in Browser : held'[q] # t
      <3>1. r # p /\ Presents(r) /\ request'[r] = request[r]
        BY <1>5, <2>3 DEF Presents, Idle
      <3>2. /\ r \in Browser /\ step[r] = "refresh"
            /\ \A t \in request[r].ids : ~token[t].revoked /\ \A q \in Browser : held[q] # t
        BY <2>1, <3>1 DEF Undisturbed
      <3>3. request[r].ids \subseteq DOMAIN token
        BY DEF IInv, KnowsInv
      <3> QED BY <1>1, <1>2, <3>1, <3>2, <3>3
    <2>4. \A q \in Browser : held'[q] # 0 => ~token'[held'[q]].revoked
      BY <1>1, <1>2, <1>3, <1>4, <2>1 DEF Undisturbed
    <2>5. stored' # 0 /\ token'[stored'].revoked => \E q \in Browser : step'[q] = "granted"
      <3>1. \A q \in Browser : step[q] = "granted" => step'[q] = "granted"
        BY <1>2
      <3> QED BY <1>1, <1>2, <1>3, <1>4, <2>1, <3>1 DEF Undisturbed
    <2> QED BY <1>6, <2>1, <2>2, <2>3, <2>4, <2>5 DEF Undisturbed
  <1> QED BY <1>2, <1>7 DEF BrowserInv

(* The answer to the only renewal brings the successor of what it revokes. *)
LEMMA RefreshAnswered ==
  ASSUME IInv, BrowserInv, NEW p \in Browser, Rotate(p), Answers(p, "granted", "refresh")
  PROVE  BrowserInv'
  <1> DEFINE n == Len(token) + 1
  <1>1. /\ Len(token') = n
        /\ DOMAIN token' = DOMAIN token \cup {n} /\ n \notin DOMAIN token
        /\ ~token'[n].revoked
    BY Browsers, RotateTable
  <1>2. PICK x \in DOMAIN token :
          /\ request[p].ids = {x}
          /\ \A t \in DOMAIN token : token'[t].revoked <=> token[t].revoked \/ t = x
    BY Browsers, RotateTable
  <1>3. /\ BrowserTypes' /\ HeldInv' /\ UNCHANGED <<stored, disturbed>>
        /\ IF step[p] = "refresh"
           THEN /\ step'[p] = "granted" /\ held'[p] = n
                /\ \A q \in Browser : q # p => step'[q] = step[q] /\ held'[q] = held[q]
           ELSE UNCHANGED <<step, held>>
    BY <1>1, IssueAnswers
  <1>4. DOMAIN token = 1..Len(token) /\ Len(token) \in Nat
    BY Types DEF IInv
  <1>5. stored \in 0..Len(token) /\ \A q \in Browser : held[q] \in 0..Len(token)
    BY DEF BrowserInv, BrowserTypes
  <1> HIDE DEF n
  <1>6. /\ request[p].op = "rotate" /\ request'[p] = Idle
        /\ \A r \in Request : r # p => request'[r] = request[r]
    BY Browsers DEF Rotate, Ends, IInv, TypeOK
  <1>7. ASSUME ~disturbed' PROVE Undisturbed'
    <2>1. Undisturbed
      BY <1>3, <1>7 DEF BrowserInv
    <2>2. step[p] = "refresh" /\ \A q \in Browser : held[q] # x
      BY <1>2, <1>6, <2>1, Browsers DEF Undisturbed, Presents
    <2>3. Renewing' = Renewing /\ p \in Renewing
      BY <1>3, <2>2 DEF Renewing
    <2>4. \A r \in Request : ~Presents(r)'
      BY <1>6, <2>1, <2>3 DEF Undisturbed, Presents, Renewing, Idle
    <2>5. \A r \in Request : request'[r].op \notin {"load", "revoke"}
      BY <1>6, <2>1 DEF Undisturbed, Idle
    <2>6. \A q \in Browser : held'[q] # 0 => ~token'[held'[q]].revoked
      BY <1>1, <1>2, <1>3, <1>4, <1>5, <2>1, <2>2 DEF Undisturbed
    <2>7. step'[p] = "granted"
      BY <1>3, <2>2
    <2> QED BY <2>1, <2>3, <2>4, <2>5, <2>6, <2>7 DEF Undisturbed
  <1> QED BY <1>3, <1>7 DEF BrowserInv

(* A revocation is under way only when the session has been disturbed.     *)
LEMMA RevocationEnds ==
  ASSUME IInv, BrowserInv, NEW r \in Request, FinishRevoke(r),
         \/ r \in Browser /\ Answers(r, "refused", "refresh")
         \/ UNCHANGED browser
  PROVE  BrowserInv'
  <1>1. disturbed /\ disturbed'
    BY DEF FinishRevoke, BrowserInv, BrowserTypes, Undisturbed, Answers, browser
  <1>2. Len(token') = Len(token)
    BY RevokedFields, Types DEF FinishRevoke, IInv
  <1>3. stored' = stored /\ held' = held /\ disturbed' = disturbed
    BY DEF Answers, browser, BrowserInv, BrowserTypes
  <1>4. CASE r \in Browser /\ Answers(r, "refused", "refresh")
    <2>1. /\ step \in [Browser -> Progress]
          /\ step' = IF step[r] = "refresh" THEN [step EXCEPT ![r] = "refused"] ELSE step
      BY <1>4 DEF Answers, BrowserInv, BrowserTypes
    <2>2. \A p \in Browser :
            \/ step'[p] = step[p]
            \/ step[p] = "refresh" /\ step'[p] = "refused"
      BY <2>1
    <2>3. step' \in [Browser -> Progress]
      BY <2>1 DEF Progress
    <2>4. BrowserTypes'
      BY <1>2, <1>3, <2>3 DEF BrowserInv, BrowserTypes
    <2>5. HeldInv'
      BY <1>3, <2>2 DEF BrowserInv, HeldInv
    <2> QED BY <1>1, <2>4, <2>5 DEF BrowserInv
  <1>5. CASE UNCHANGED browser
    BY <1>1, <1>2, <1>5 DEF browser, BrowserInv, BrowserTypes, HeldInv
  <1> QED BY <1>4, <1>5

(* The steps that others take. *)
LEMMA OthersStep ==
  ASSUME IInv, BrowserInv,
         \/ \E r \in Elsewhere : EndedElsewhere(r)
         \/ BackendRestarts
         \/ SetActive(Me) /\ UNCHANGED browser
  PROVE  BrowserInv'
  <1>1. ASSUME NEW r \in Elsewhere, EndedElsewhere(r) PROVE BrowserInv'
    <2>1. token' = token /\ disturbed' /\ disturbed' \in BOOLEAN /\ UNCHANGED <<stored, step, held>>
      BY <1>1 DEF EndedElsewhere, revoke_all_sessions, revoke_session, Begin
    <2> QED BY <2>1 DEF BrowserInv, BrowserTypes, HeldInv
  <1>2. ASSUME BackendRestarts PROVE BrowserInv'
    <2>1. /\ UNCHANGED <<token, stored, held, disturbed>>
          /\ \A r \in Request : request'[r] = Idle
      BY <1>2 DEF BackendRestarts, Restart
    <2>2. \A p \in Browser :
            step'[p] = CASE step[p] = "refresh" -> "refused"
                         [] step[p] = "signin"  -> "idle"
                         [] OTHER               -> step[p]
      BY <1>2 DEF BackendRestarts
    <2>3. \A p \in Browser : /\ step'[p] \in Progress
                             /\ step'[p] = step[p] \/ step[p] \in {"refresh", "signin"}
                             /\ step'[p] = step[p] \/ step'[p] \in {"refused", "idle"}
      BY <2>2 DEF BrowserInv, BrowserTypes, Progress
    <2>4. step' \in [Browser -> Progress]
      BY <1>2, <2>3 DEF BackendRestarts
    <2>5. BrowserTypes' /\ HeldInv'
      BY <2>1, <2>3, <2>4 DEF BrowserInv, BrowserTypes, HeldInv
    <2>6. ASSUME ~disturbed' PROVE Undisturbed'
      <3>1. Undisturbed
        BY <2>1, <2>6 DEF BrowserInv
      <3>2. Renewing' \subseteq Renewing
        BY <2>3 DEF Renewing
      <3> QED BY <2>1, <2>3, <3>1, <3>2 DEF Undisturbed, Presents, Idle
    <2> QED BY <2>5, <2>6 DEF BrowserInv
  <1>3. ASSUME SetActive(Me), UNCHANGED browser PROVE BrowserInv'
    <2>1. UNCHANGED <<token, request, stored, step, held, disturbed>>
      BY <1>3 DEF SetActive, browser
    <2>2. BrowserTypes' /\ HeldInv'
      BY <2>1 DEF BrowserInv, BrowserTypes, HeldInv
    <2>3. Undisturbed' = Undisturbed
      BY <2>1 DEF Undisturbed, Presents, Renewing
    <2> QED BY <2>1, <2>2, <2>3 DEF BrowserInv
  <1> QED BY <1>1, <1>2, <1>3

LEMMA DashInitInv == DashInit => IInv /\ BrowserInv
  <1> SUFFICES ASSUME DashInit PROVE IInv /\ BrowserInv
    OBVIOUS
  <1>1. IInv /\ Len(token) \in Nat
    BY InitInv, Types DEF DashInit, IInv
  <1>2. BrowserTypes
    <2>1. step \in [Browser -> Progress]
      BY DEF DashInit, Progress
    <2>2. 0 \in 0..Len(token)
      BY <1>1
    <2>3. held \in [Browser -> 0..Len(token)]
      BY <2>2 DEF DashInit
    <2> QED BY <2>1, <2>2, <2>3 DEF DashInit, BrowserTypes
  <1>3. HeldInv
    BY DEF DashInit, HeldInv
  <1>4. Undisturbed
    BY DEF DashInit, Init, Undisturbed, Presents, Renewing, Idle
  <1> QED BY <1>1, <1>2, <1>3, <1>4 DEF BrowserInv

(* Every step of the composition is one of AuthSessions or leaves it alone. *)
LEMMA DashNextInv ==
  IInv /\ BrowserInv /\ [DashNext]_dashboard => BrowserInv' /\ [Next]_vars
  <1> SUFFICES ASSUME IInv, BrowserInv, [DashNext]_dashboard PROVE BrowserInv' /\ [Next]_vars
    OBVIOUS
  <1>1. ASSUME NEW f \in Fetch, SignIn(f) PROVE BrowserInv' /\ [Next]_vars
    <2>1. BeginLogin(f, Me)
      BY <1>1 DEF SignIn
    <2> QED BY <1>1, <2>1, SignInStep, Browsers DEF Next
  <1>2. ASSUME NEW p \in Browser,
               Signed(p) \/ Granted(p) \/ Refused(p) \/ RetryAnswered(p) \/ Lost(p)
        PROVE  BrowserInv' /\ [Next]_vars
    <2>1. UNCHANGED vars
      BY <1>2 DEF Signed, Granted, Refused, RetryAnswered, Lost, Fails
    <2> QED BY <1>2, <2>1, BrowserSteps
  <1>3. ASSUME NEW p \in Browser, Renew(p) PROVE BrowserInv' /\ [Next]_vars
    <2>1. stored \in DOMAIN token
      BY <1>3, Types DEF Renew, BrowserInv, BrowserTypes, IInv
    <2>2. UNCHANGED vars \/ BeginRefresh(p, stored)
      BY <1>3 DEF Renew
    <2> QED BY <1>3, <2>1, <2>2, RenewStep, Browsers DEF Next
  <1>4. ASSUME NEW p \in Browser, Serve(p) PROVE BrowserInv' /\ [Next]_vars
    <2>1. BrowserInv'
      BY <1>4, Browsers, SignInAnswered, RefreshAnswered, RevocationEnds, LooksAgain DEF Serve
    <2> QED BY <1>4, <2>1, Browsers DEF Serve, Next
  <1>5. ASSUME Reload \/ LogOut PROVE BrowserInv' /\ [Next]_vars
    BY <1>5, PageSteps DEF Reload, LogOut
  <1>6. ASSUME BackendRestarts PROVE BrowserInv' /\ [Next]_vars
    BY <1>6, OthersStep DEF BackendRestarts, Next
  <1>7. ASSUME NEW r \in Elsewhere, EndedElsewhere(r) PROVE BrowserInv' /\ [Next]_vars
    <2>1. revoke_all_sessions(r, Me) \/ \E t \in DOMAIN token : revoke_session(r, Me, t)
      BY <1>7 DEF EndedElsewhere
    <2> QED BY <1>7, <2>1, OthersStep, Browsers DEF Next
  <1>8. ASSUME NEW r \in Elsewhere, FinishRevoke(r), UNCHANGED browser
        PROVE  BrowserInv' /\ [Next]_vars
    BY <1>8, RevocationEnds, Browsers DEF Next
  <1>9. ASSUME SetActive(Me), UNCHANGED browser PROVE BrowserInv' /\ [Next]_vars
    BY <1>9, OthersStep, Browsers DEF Next
  <1>10. ASSUME UNCHANGED dashboard PROVE BrowserInv' /\ [Next]_vars
    <2>1. UNCHANGED vars /\ UNCHANGED browser
      BY <1>10 DEF dashboard
    <2>2. BrowserTypes' /\ HeldInv'
      BY <2>1 DEF vars, browser, BrowserInv, BrowserTypes, HeldInv
    <2>3. Undisturbed' = Undisturbed
      BY <2>1 DEF vars, browser, Undisturbed, Presents, Renewing
    <2>4. BrowserInv'
      BY <2>1, <2>2, <2>3 DEF browser, BrowserInv
    <2> QED BY <2>1, <2>4
  <1> QED BY <1>1, <1>2, <1>3, <1>4, <1>5, <1>6, <1>7, <1>8, <1>9, <1>10, Browsers DEF DashNext

LEMMA DashInvariant == DashSpec => [](IInv /\ BrowserInv)
  <1>1. IInv /\ BrowserInv /\ [DashNext]_dashboard => (IInv /\ BrowserInv)'
    BY DashNextInv, NextInv
  <1> QED BY <1>1, DashInitInv, PTL DEF DashSpec

(* The dashboard's composition is an implementation of AuthSessions: what  *)
(* holds of the backend alone holds with the browser in front of it.       *)
THEOREM DashboardRefinesSessions == DashSpec => Spec
  <1>1. DashInit => Init
    BY DEF DashInit
  <1>2. IInv /\ BrowserInv /\ [DashNext]_dashboard => [Next]_vars
    BY DashNextInv
  <1> QED BY <1>1, <1>2, DashInvariant, PTL DEF DashSpec, Spec

(* A signed-in browser goes on, however its calls and streams overlap with *)
(* sign-ins, logouts and restarts, unless two renewals overlap, an answer  *)
(* to one is lost, or somebody ends the session.                           *)
THEOREM SessionsGoOn == DashSpec => []SessionGoesOn
  <1> QED BY DashInvariant, SessionGoesOnHolds, PTL
=============================================================================
