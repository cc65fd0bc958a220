-------------------------- MODULE AgentDefenceProofs ---------------------------
(***************************************************************************)
(* Theorems about AgentDefence, for every operating system, every set of   *)
(* addresses and indicators and every bound.  The inductive invariant says *)
(* which rules the agent counts on: both of an address it remembers, less  *)
(* those the unblock under way has deleted, or those the block under way   *)
(* has added.  It counts on nothing for an address whose unblock was cut   *)
(* short.  Every rule counted on is there, and an address that is no stray *)
(* has exactly one of each and no other.                                   *)
(***************************************************************************)
EXTENDS AgentDefence, TLAPS

Held(ip) ==
  IF WorkingOn(ip) /\ job.op = "add" THEN job.done
  ELSE IF ip \in blocked \ cut
       THEN IF WorkingOn(ip) THEN Everywhere \ job.done ELSE Everywhere
       ELSE {}

(* What has been run of a block or unblock, and what is left to run. *)
JobInv ==
  job # Idle =>
    /\ os # "other"
    /\ job.todo # <<"in">> => os # "Darwin"
    /\ job.todo = <<"in">> => os = "Darwin"
    /\ job.done \subseteq Everywhere
    /\ Head(job.todo) \notin job.done
    /\ job.todo = <<"in", "out">> => job.done = {}
    /\ job.todo = <<"in">> => job.done = {}
    /\ job.op = "add" => job.ip \notin blocked

HeldIsThere == \A ip \in Ip : \A d \in Held(ip) : rules[ip][d] > 0

Tidy == \A ip \in Ip \ strays : \A d \in Direction :
          rules[ip][d] = IF d \in Held(ip) THEN 1 ELSE 0

MemoryInv == cut \subseteq blocked /\ strays \subseteq Ruled(rules)

FirewallTypes ==
  /\ os \in Systems
  /\ rules \in [Ip -> Counts]
  /\ blocked \subseteq Ip /\ cut \subseteq Ip /\ strays \subseteq Ip
  /\ job \in {Idle} \cup Job

IInv == FirewallTypes /\ JobInv /\ HeldIsThere /\ Tidy /\ MemoryInv

LEMMA EverywhereFact == Everywhere \subseteq Direction /\ "in" \in Everywhere
  BY DEF Everywhere, Direction

(* The invariant has the two properties of the firewall in it. *)
LEMMA InvImplies == IInv => BlockedIsEnforced /\ ForgottenIsOpen
  <1> SUFFICES ASSUME IInv PROVE BlockedIsEnforced /\ ForgottenIsOpen
    OBVIOUS
  <1>1. BlockedIsEnforced
    <2> SUFFICES ASSUME NEW ip \in blocked \ cut, ~WorkingOn(ip)
                 PROVE  Dropped(ip) = Everywhere
      BY DEF BlockedIsEnforced
    <2>1. Held(ip) = Everywhere /\ ip \in Ip
      BY DEF Held, IInv, FirewallTypes
    <2> QED BY <2>1 DEF IInv, HeldIsThere, Dropped
  <1>2. ForgottenIsOpen
    <2> SUFFICES ASSUME NEW ip \in Ip \ (blocked \cup strays), ~WorkingOn(ip)
                 PROVE  Dropped(ip) = {}
      BY DEF ForgottenIsOpen
    <2>1. Held(ip) = {}
      BY DEF Held
    <2>2. \A d \in Direction : rules[ip][d] = 0
      BY <2>1 DEF IInv, Tidy
    <2> QED BY <2>2, EverywhereFact DEF Dropped
  <1> QED BY <1>1, <1>2

LEMMA InitInv == Init => IInv
  <1> SUFFICES ASSUME Init PROVE IInv
    OBVIOUS
  <1>1. FirewallTypes /\ JobInv /\ MemoryInv
    BY DefenceAssumption DEF Init, FirewallTypes, JobInv, MemoryInv, NoRules, Counts,
       Systems
  <1>2. \A ip \in Ip : Held(ip) = {}
    BY DEF Init, Held, WorkingOn
  <1>3. \A ip \in Ip, d \in Direction : rules[ip][d] = 0
    BY DEF Init, NoRules
  <1> QED BY <1>1, <1>2, <1>3 DEF IInv, HeldIsThere, Tidy

-----------------------------------------------------------------------------
(* Nothing but the handler and a restart touches the firewall. *)
LEMMA Untouched ==
  ASSUME IInv, UNCHANGED <<os, firewall>> PROVE IInv'
  <1>1. \A ip : Held(ip)' = Held(ip)
    BY DEF Held, WorkingOn, Everywhere, firewall
  <1>2. Ruled(rules)' = Ruled(rules)
    BY DEF Ruled, firewall
  <1>3. FirewallTypes' /\ JobInv'
    BY DEF IInv, FirewallTypes, JobInv, firewall, Everywhere
  <1>4. HeldIsThere' /\ Tidy' /\ MemoryInv'
    BY <1>1, <1>2 DEF IInv, HeldIsThere, Tidy, MemoryInv, firewall
  <1> QED BY <1>3, <1>4 DEF IInv

(* A block of an address that is not remembered, or an unblock, begins. *)
LEMMA Begins ==
  ASSUME IInv, job = Idle, os # "other", NEW ip \in Ip, NEW op \in {"add", "delete"},
         op = "add" => ip \notin blocked,
         job' = Begun(op, ip), UNCHANGED <<os, rules, blocked, cut, strays>>
  PROVE  IInv'
  <1>1. Begun(op, ip) \in Job /\ Begun(op, ip) # Idle
    BY DEF Begun, Job, Directions, Idle
  <1>2. FirewallTypes'
    BY <1>1 DEF IInv, FirewallTypes
  <1>3. JobInv'
    BY DEF IInv, JobInv, Begun, Directions, Everywhere
  <1>4. Everywhere' = Everywhere
    BY DEF Everywhere
  <1>5. \A i \in Ip : Held(i)' = Held(i)
    <2> SUFFICES ASSUME NEW i \in Ip PROVE Held(i)' = Held(i)
      OBVIOUS
    <2>1. Held(i) = IF i \in blocked \ cut THEN Everywhere ELSE {}
      BY DEF Held, WorkingOn
    <2>2. CASE i # ip
      BY <2>1, <2>2, <1>4 DEF Held, WorkingOn, Begun
    <2>3. CASE i = ip
      BY <2>1, <2>3, <1>1, <1>4 DEF Held, WorkingOn, Begun
    <2> QED BY <2>2, <2>3
  <1>6. HeldIsThere' /\ Tidy'
    BY <1>5 DEF IInv, HeldIsThere, Tidy
  <1>7. MemoryInv'
    BY DEF IInv, MemoryInv, Ruled
  <1> QED BY <1>2, <1>3, <1>6, <1>7 DEF IInv

(* The address worked on, the direction that is next, and what is held.    *)
LEMMA AtWork ==
  ASSUME IInv, job # Idle
  PROVE  /\ job \in Job /\ job.ip \in Ip /\ WorkingOn(job.ip)
         /\ Head(job.todo) \in Everywhere \ job.done
         /\ Len(job.todo) # 1 => job.todo = <<"in", "out">>
         /\ \A i \in Ip : i # job.ip => ~WorkingOn(i)
  <1>1. job \in Job
    BY DEF IInv, FirewallTypes
  <1>2. job.todo \in {<<"in", "out">>, <<"out">>, <<"in">>} /\ job.ip \in Ip
    BY <1>1 DEF Job
  <1>3. Head(job.todo) \in Everywhere
    BY <1>2 DEF IInv, JobInv, Everywhere, Direction
  <1>4. Head(job.todo) \notin job.done
    BY DEF IInv, JobInv
  <1>5. Len(job.todo) # 1 => job.todo = <<"in", "out">>
    BY <1>2
  <1> QED BY <1>1, <1>2, <1>3, <1>4, <1>5, EverywhereFact DEF WorkingOn

(* What a step does that changes the rules of one direction of the address *)
(* worked on, or leaves them: the other addresses keep what they had.      *)
LEMMA OthersKept ==
  ASSUME IInv, job # Idle, os' = os, NEW ip \in Ip, job.ip = ip,
         job' = Idle \/ (job'.ip = ip),
         rules' \in [Ip -> Counts],
         \A i \in Ip : i # ip => rules'[i] = rules[i],
         blocked' \ {ip} = blocked \ {ip},
         cut' \ {ip} = cut \ {ip},
         strays' \ {ip} = strays \ {ip}
  PROVE  \A i \in Ip : i # ip =>
           /\ Held(i)' = Held(i)
           /\ \A d \in Held(i)' : rules'[i][d] > 0
           /\ i \notin strays' => \A d \in Direction :
                                    rules'[i][d] = IF d \in Held(i)' THEN 1 ELSE 0
           /\ i \in cut' => i \in blocked'
           /\ i \in strays' => rules'[i] # NoRules
  <1> SUFFICES ASSUME NEW i \in Ip, i # ip
               PROVE  /\ Held(i)' = Held(i)
                      /\ \A d \in Held(i)' : rules'[i][d] > 0
                      /\ i \notin strays' => \A d \in Direction :
                                    rules'[i][d] = IF d \in Held(i)' THEN 1 ELSE 0
                      /\ i \in cut' => i \in blocked'
                      /\ i \in strays' => rules'[i] # NoRules
    OBVIOUS
  <1>1. ~WorkingOn(i) /\ ~WorkingOn(i)'
    BY DEF WorkingOn
  <1>2. Everywhere' = Everywhere
    BY DEF Everywhere
  <1>3. (i \in blocked' <=> i \in blocked) /\ (i \in cut' <=> i \in cut)
        /\ (i \in strays' <=> i \in strays)
    OBVIOUS
  <1>4. Held(i)' = Held(i)
    BY <1>1, <1>2, <1>3 DEF Held
  <1>5. rules'[i] = rules[i]
    OBVIOUS
  <1>6. \A d \in Held(i)' : rules'[i][d] > 0
    BY <1>4, <1>5 DEF IInv, HeldIsThere
  <1>7. i \notin strays' => \A d \in Direction :
                              rules'[i][d] = IF d \in Held(i)' THEN 1 ELSE 0
    BY <1>3, <1>4, <1>5 DEF IInv, Tidy
  <1>8. (i \in cut' => i \in blocked') /\ (i \in strays' => rules'[i] # NoRules)
    BY <1>3, <1>5 DEF IInv, MemoryInv, Ruled
  <1> QED BY <1>4, <1>6, <1>7, <1>8

(* It is enough to look at the address worked on. *)
LEMMA OneIsEnough ==
  ASSUME IInv, job # Idle, os' = os, NEW ip \in Ip, job.ip = ip,
         job' = Idle \/ (job'.ip = ip),
         FirewallTypes', JobInv',
         \A i \in Ip : i # ip => rules'[i] = rules[i],
         blocked' \ {ip} = blocked \ {ip},
         cut' \ {ip} = cut \ {ip},
         strays' \ {ip} = strays \ {ip},
         \A d \in Held(ip)' : rules'[ip][d] > 0,
         ip \notin strays' => \A d \in Direction :
            rules'[ip][d] = IF d \in Held(ip)' THEN 1 ELSE 0,
         ip \in cut' => ip \in blocked',
         ip \in strays' => rules'[ip] # NoRules
  PROVE  IInv'
  <1>0. rules' \in [Ip -> Counts] /\ cut' \subseteq Ip /\ strays' \subseteq Ip
    BY DEF FirewallTypes
  <1>1. HeldIsThere'
    <2> SUFFICES ASSUME NEW i \in Ip PROVE \A d \in Held(i)' : rules'[i][d] > 0
      BY DEF HeldIsThere
    <2>1. CASE i = ip
      BY <2>1
    <2>2. CASE i # ip
      BY <2>2, <1>0, OthersKept
    <2> QED BY <2>1, <2>2
  <1>2. Tidy'
    <2> SUFFICES ASSUME NEW i \in Ip, i \notin strays'
                 PROVE  \A d \in Direction : rules'[i][d] = IF d \in Held(i)' THEN 1 ELSE 0
      BY DEF Tidy
    <2>1. CASE i = ip
      BY <2>1
    <2>2. CASE i # ip
      BY <2>2, <1>0, OthersKept
    <2> QED BY <2>1, <2>2
  <1>3. MemoryInv'
    <2>1. \A i \in Ip : i \in cut' => i \in blocked'
      BY <1>0, OthersKept
    <2>2. \A i \in Ip : i \in strays' => rules'[i] # NoRules
      BY <1>0, OthersKept
    <2> QED BY <2>1, <2>2, <1>0 DEF MemoryInv, Ruled
  <1> QED BY <1>1, <1>2, <1>3 DEF IInv

(* What the agent will hold of ip, with the commands for done carried out. *)
Left(ip, done) ==
  IF job.op = "add" THEN done
  ELSE IF ip \in blocked \ cut THEN Everywhere \ done ELSE {}

(* One command, carried out or not, keeps the promises about its address.  *)
LEMMA CommandKeeps ==
  ASSUME IInv, job # Idle, NEW ip \in Ip, job.ip = ip,
         NEW d \in Direction, d = Head(job.todo), NEW ok \in BOOLEAN,
         Applied(ip, d) <= MaxRules,
         rules' = IF ok THEN [rules EXCEPT ![ip][d] = Applied(ip, d)] ELSE rules,
         NEW done, done = IF ok THEN job.done \cup {d} ELSE job.done
  PROVE  /\ rules' \in [Ip -> Counts]
         /\ \A i \in Ip : i # ip => rules'[i] = rules[i]
         /\ \A e \in Left(ip, done) : rules'[ip][e] > 0
         /\ ip \notin strays => \A e \in Direction :
                rules'[ip][e] = IF e \in Left(ip, done) THEN 1 ELSE 0
  <1>1. /\ rules \in [Ip -> Counts] /\ job \in Job
        /\ \A e \in Direction : rules[ip][e] \in Nat
    BY DEF IInv, FirewallTypes, Counts
  <1>2. Applied(ip, d) \in Nat /\ MaxRules \in Nat
    BY <1>1, DefenceAssumption DEF Applied
  <1>3. rules' \in [Ip -> Counts] /\ \A i \in Ip : i # ip => rules'[i] = rules[i]
    BY <1>1, <1>2 DEF Counts
  <1>4. \A e \in Direction :
          rules'[ip][e] = IF ok /\ e = d THEN Applied(ip, d) ELSE rules[ip][e]
    BY <1>1, <1>2 DEF Counts
  <1>5. job.op \in {"add", "delete"} /\ Left(ip, job.done) = Held(ip)
    BY <1>1 DEF Held, WorkingOn, Left, Job
  <1>6. /\ \A e \in Left(ip, job.done) : rules[ip][e] > 0
        /\ ip \notin strays => \A e \in Direction :
             rules[ip][e] = IF e \in Left(ip, job.done) THEN 1 ELSE 0
    BY <1>5 DEF IInv, HeldIsThere, Tidy
  <1>7. d \notin job.done /\ job.done \subseteq Direction /\ Everywhere \subseteq Direction
    BY EverywhereFact DEF IInv, JobInv
  <1>8. CASE ~ok
    BY <1>3, <1>4, <1>6, <1>7, <1>8 DEF Left
  <1>9. CASE ok /\ job.op = "add"
    <2>1. Left(ip, done) = job.done \cup {d} /\ Left(ip, job.done) = job.done
      BY <1>9 DEF Left
    <2>2. Applied(ip, d) > 0 /\ (rules[ip][d] = 0 => Applied(ip, d) = 1)
      BY <1>1, <1>9 DEF Applied
    <2> QED BY <1>3, <1>4, <1>6, <1>7, <1>9, <2>1, <2>2, SMTT(20)
  <1>10. CASE ok /\ job.op = "delete"
    <2>1. Left(ip, done) = Left(ip, job.done) \ {d}
      BY <1>10 DEF Left
    <2>2. rules[ip][d] \in {0, 1} => Applied(ip, d) = 0
      BY <1>10 DEF Applied
    <2>3. Left(ip, job.done) \subseteq Direction
      BY <1>7, <1>10 DEF Left
    <2>4. \A e \in Left(ip, done) : rules'[ip][e] > 0
      BY <1>4, <1>6, <2>1, <2>3
    <2>5. ip \notin strays => \A e \in Direction :
                rules'[ip][e] = IF e \in Left(ip, done) THEN 1 ELSE 0
      BY <1>4, <1>6, <1>10, <2>1, <2>2
    <2> QED BY <1>3, <2>4, <2>5
  <1> QED BY <1>5, <1>8, <1>9, <1>10

-----------------------------------------------------------------------------
(* The first of two commands has run. *)
LEMMA GoesOnInv ==
  ASSUME IInv, job # Idle, os' = os, NEW ip \in Ip, job.ip = ip,
         NEW d \in Direction, d = Head(job.todo), NEW ok \in BOOLEAN,
         Applied(ip, d) <= MaxRules, Len(job.todo) # 1,
         rules' = IF ok THEN [rules EXCEPT ![ip][d] = Applied(ip, d)] ELSE rules,
         NEW done, done = IF ok THEN job.done \cup {d} ELSE job.done,
         GoesOn(done)
  PROVE  IInv'
  <1>1. /\ rules' \in [Ip -> Counts]
        /\ \A i \in Ip : i # ip => rules'[i] = rules[i]
        /\ \A e \in Left(ip, done) : rules'[ip][e] > 0
        /\ ip \notin strays => \A e \in Direction :
               rules'[ip][e] = IF e \in Left(ip, done) THEN 1 ELSE 0
    BY CommandKeeps, SMTT(20)
  <1>2. job \in Job /\ job.todo = <<"in", "out">> /\ d = "in" /\ job.done = {}
    BY AtWork DEF IInv, JobInv
  <1>3. job' = [job EXCEPT !.todo = <<"out">>, !.done = done] /\ done \in {{}, {"in"}}
    BY <1>2 DEF GoesOn
  <1>4. job' \in Job /\ job' # Idle /\ job'.ip = ip /\ job'.op = job.op
        /\ job'.todo = <<"out">> /\ job'.done = done
    BY <1>2, <1>3 DEF Job, Idle, Direction
  <1>5. blocked' = blocked /\ cut' = cut /\ strays' = strays \cap Ruled(rules')
    BY DEF GoesOn
  <1>6. FirewallTypes'
    BY <1>1, <1>4, <1>5 DEF IInv, FirewallTypes
  <1>7. os # "Darwin" /\ os # "other"
    BY <1>2 DEF IInv, JobInv
  <1>8. JobInv'
    BY <1>2, <1>3, <1>4, <1>5, <1>7 DEF IInv, JobInv, Everywhere, Direction
  <1>9. Held(ip)' = Left(ip, done)
    BY <1>4, <1>5 DEF Held, Left, WorkingOn, Everywhere
  <1>10. Held(ip)' \subseteq Direction
    BY <1>3, <1>9, EverywhereFact DEF Left, Direction
  <1>11. ip \notin strays' => \A e \in Direction :
            rules'[ip][e] = IF e \in Held(ip)' THEN 1 ELSE 0
    <2>1. CASE ip \notin strays
      BY <2>1, <1>1, <1>9
    <2>2. CASE ip \in strays /\ ip \notin strays'
      <3>1. rules'[ip] = NoRules
        BY <2>2, <1>5 DEF Ruled
      <3> QED BY <3>1, <1>1, <1>9, <1>10 DEF NoRules
    <2> QED BY <2>1, <2>2
  <1>12. strays' \ {ip} = strays \ {ip}
    <2> SUFFICES ASSUME NEW i, i \in strays, i # ip PROVE i \in Ruled(rules')
      BY <1>5
    <2> QED BY <1>1 DEF IInv, MemoryInv, Ruled
  <1>13. (ip \in cut' => ip \in blocked') /\ (ip \in strays' => rules'[ip] # NoRules)
    BY <1>5 DEF IInv, MemoryInv, Ruled
  <1> QED BY <1>1, <1>4, <1>5, <1>6, <1>8, <1>9, <1>11, <1>12, <1>13, OneIsEnough

(* The last command has run, and the operation returns. *)
LEMMA ReturnsInv ==
  ASSUME IInv, job # Idle, os' = os, NEW ip \in Ip, job.ip = ip,
         NEW d \in Direction, d = Head(job.todo), NEW ok \in BOOLEAN,
         Applied(ip, d) <= MaxRules,
         rules' = IF ok THEN [rules EXCEPT ![ip][d] = Applied(ip, d)] ELSE rules,
         NEW done, done = IF ok THEN job.done \cup {d} ELSE job.done,
         Returns(done)
  PROVE  IInv'
  <1>1. /\ rules' \in [Ip -> Counts]
        /\ \A i \in Ip : i # ip => rules'[i] = rules[i]
        /\ \A e \in Left(ip, done) : rules'[ip][e] > 0
        /\ ip \notin strays => \A e \in Direction :
               rules'[ip][e] = IF e \in Left(ip, done) THEN 1 ELSE 0
    BY CommandKeeps
  <1>2. /\ job' = Idle /\ cut' = cut \cap blocked'
        /\ blocked' = IF ~Success(done) THEN blocked
                      ELSE IF job.op = "add" THEN blocked \cup {ip} ELSE blocked \ {ip}
        /\ strays' = IF done # Everywhere THEN (strays \cup {ip}) \cap Ruled(rules')
                     ELSE strays \cap Ruled(rules')
    BY DEF Returns
  <1>3. FirewallTypes' /\ JobInv'
    BY <1>1, <1>2 DEF IInv, FirewallTypes, JobInv, Ruled
  <1>4. job.op \in {"add", "delete"} /\ cut \subseteq blocked
    BY AtWork DEF Job, IInv, MemoryInv
  <1>5. Held(ip)' = IF ip \in blocked' \ cut' THEN Everywhere ELSE {}
    BY <1>2 DEF Held, WorkingOn, Everywhere
  <1>6. ip \notin strays' => (rules'[ip] = NoRules \/ (ip \notin strays /\ done = Everywhere))
    BY <1>2 DEF Ruled
  <1>7. ASSUME job.op = "add"
        PROVE  /\ \A e \in Held(ip)' : rules'[ip][e] > 0
               /\ ip \notin strays' => \A e \in Direction :
                    rules'[ip][e] = IF e \in Held(ip)' THEN 1 ELSE 0
    <2>1. ip \notin blocked /\ ip \notin cut /\ Left(ip, done) = done
      BY <1>4, <1>7 DEF IInv, JobInv, Left
    <2>2. Held(ip)' = IF done = Everywhere THEN done ELSE {}
      BY <1>2, <1>5, <1>7, <2>1 DEF Success
    <2>3. \A e \in Held(ip)' : rules'[ip][e] > 0
      BY <1>1, <2>1, <2>2
    <2>4. ip \notin strays' => \A e \in Direction :
             rules'[ip][e] = IF e \in Held(ip)' THEN 1 ELSE 0
      <3>1. CASE rules'[ip] = NoRules
        BY <3>1, <2>2, <2>3, EverywhereFact DEF NoRules
      <3>2. CASE ip \notin strays /\ done = Everywhere
        BY <3>2, <1>1, <2>1, <2>2
      <3> QED BY <1>6, <3>1, <3>2
    <2> QED BY <2>3, <2>4
  <1>8. ASSUME job.op = "delete"
        PROVE  /\ \A e \in Held(ip)' : rules'[ip][e] > 0
               /\ ip \notin strays' => \A e \in Direction :
                    rules'[ip][e] = IF e \in Held(ip)' THEN 1 ELSE 0
    <2>1. Left(ip, done) = IF ip \in blocked \ cut THEN Everywhere \ done ELSE {}
      BY <1>8 DEF Left
    <2>2. Held(ip)' = IF done = {} /\ ip \in blocked \ cut THEN Everywhere ELSE {}
      BY <1>2, <1>5, <1>8 DEF Success
    <2>3. \A e \in Held(ip)' : rules'[ip][e] > 0
      BY <1>1, <2>1, <2>2
    <2>4. ip \notin strays' => \A e \in Direction :
             rules'[ip][e] = IF e \in Held(ip)' THEN 1 ELSE 0
      <3>1. CASE rules'[ip] = NoRules
        BY <3>1, <2>2, <2>3, EverywhereFact DEF NoRules
      <3>2. CASE ip \notin strays /\ done = Everywhere
        BY <3>2, <1>1, <2>1, <2>2, EverywhereFact
      <3> QED BY <1>6, <3>1, <3>2
    <2> QED BY <2>3, <2>4
  <1>9. /\ \A e \in Held(ip)' : rules'[ip][e] > 0
        /\ ip \notin strays' => \A e \in Direction :
             rules'[ip][e] = IF e \in Held(ip)' THEN 1 ELSE 0
    BY <1>4, <1>7, <1>8
  <1>10. strays' \ {ip} = strays \ {ip}
    <2> SUFFICES ASSUME NEW i, i \in strays, i # ip PROVE i \in Ruled(rules')
      BY <1>2
    <2> QED BY <1>1 DEF IInv, MemoryInv, Ruled
  <1>11. blocked' \ {ip} = blocked \ {ip} /\ cut' \ {ip} = cut \ {ip}
    BY <1>2, <1>4
  <1>12. (ip \in cut' => ip \in blocked') /\ (ip \in strays' => rules'[ip] # NoRules)
    BY <1>2 DEF Ruled
  <1> QED BY <1>1, <1>2, <1>3, <1>9, <1>10, <1>11, <1>12, OneIsEnough

LEMMA RunNextInv == ASSUME IInv, RunNext PROVE IInv'
  <1>1. job # Idle /\ os' = os
    BY DEF RunNext
  <1>2. PICK ip \in Ip, d \in Direction : ip = job.ip /\ d = Head(job.todo)
    BY <1>1, AtWork, EverywhereFact
  <1>3. PICK ok \in BOOLEAN :
          /\ Applied(ip, d) <= MaxRules
          /\ rules' = IF ok THEN [rules EXCEPT ![ip][d] = Applied(ip, d)] ELSE rules
          /\ LET done == IF ok THEN job.done \cup {d} ELSE job.done
             IN  IF Len(job.todo) = 1 THEN Returns(done) ELSE GoesOn(done)
    BY <1>2 DEF RunNext, Apply, Finds
  <1> DEFINE done == IF ok THEN job.done \cup {d} ELSE job.done
  <1>4. CASE Len(job.todo) = 1
    BY <1>1, <1>2, <1>3, <1>4, ReturnsInv
  <1>5. CASE Len(job.todo) # 1
    BY <1>1, <1>2, <1>3, <1>5, GoesOnInv
  <1> QED BY <1>4, <1>5

LEMMA RunRaisesInv == ASSUME IInv, RunRaises PROVE IInv'
  <1>1. job # Idle /\ os' = os /\ job' = Idle /\ blocked' = blocked
    BY DEF RunRaises
  <1>2. PICK ip \in Ip, d \in Direction : ip = job.ip /\ d = Head(job.todo)
    BY <1>1, AtWork, EverywhereFact
  <1>3. PICK ok \in BOOLEAN :
          rules' = IF ok THEN [rules EXCEPT ![ip][d] = Applied(ip, d)] ELSE rules
    BY <1>2 DEF RunRaises, Apply
  <1>4. /\ Applied(ip, d) <= MaxRules
        /\ cut' = IF ip \in blocked THEN cut \cup {ip} ELSE cut
        /\ strays' = Ruled(rules') \cap (strays \cup {ip})
    BY <1>2 DEF RunRaises
  <1> DEFINE done == IF ok THEN job.done \cup {d} ELSE job.done
  <1>5. done = IF ok THEN job.done \cup {d} ELSE job.done
    OBVIOUS
  <1> HIDE DEF done
  <1>6. rules' \in [Ip -> Counts] /\ \A i \in Ip : i # ip => rules'[i] = rules[i]
    BY <1>1, <1>2, <1>3, <1>4, <1>5, CommandKeeps
  <1>7. FirewallTypes' /\ JobInv'
    BY <1>1, <1>4, <1>6 DEF IInv, FirewallTypes, JobInv, Ruled
  <1>8. Held(ip)' = {}
    BY <1>1, <1>4 DEF Held, WorkingOn
  <1>9. ip \notin strays' => \A e \in Direction :
           rules'[ip][e] = IF e \in Held(ip)' THEN 1 ELSE 0
    BY <1>4, <1>8 DEF Ruled, NoRules
  <1>10. strays' \ {ip} = strays \ {ip}
    <2> SUFFICES ASSUME NEW i, i \in strays, i # ip PROVE i \in Ruled(rules')
      BY <1>4
    <2> QED BY <1>6 DEF IInv, MemoryInv, Ruled
  <1>11. (ip \in cut' => ip \in blocked') /\ (ip \in strays' => rules'[ip] # NoRules)
         /\ cut' \ {ip} = cut \ {ip}
    BY <1>1, <1>4 DEF IInv, MemoryInv, Ruled
  <1> QED BY <1>1, <1>2, <1>6, <1>7, <1>8, <1>9, <1>10, <1>11, OneIsEnough

LEMMA RestartInv == ASSUME IInv, Restart PROVE IInv'
  <1>1. /\ blocked' = {} /\ job' = Idle /\ cut' = {} /\ strays' = Ruled(rules') /\ os' = os
        /\ rules' \in [Ip -> Counts]
    BY DefenceAssumption, SMTT(20) DEF Restart, IInv, FirewallTypes, NoRules, Counts
  <1>2. FirewallTypes' /\ JobInv' /\ MemoryInv'
    BY <1>1 DEF IInv, FirewallTypes, JobInv, MemoryInv, Ruled
  <1>3. \A i \in Ip : Held(i)' = {}
    BY <1>1 DEF Held, WorkingOn
  <1>4. HeldIsThere' /\ Tidy'
    BY <1>1, <1>3 DEF HeldIsThere, Tidy, Ruled, NoRules
  <1> QED BY <1>2, <1>4 DEF IInv

-----------------------------------------------------------------------------
(* What is on the wire is a command, and the cache holds reputations.      *)
OtherTypes ==
  /\ cache \in Feeds /\ told \in Feeds
  /\ feed \in {<<>>} \cup {<<f>> : f \in Feeds}
  /\ response \in Seq(Command) /\ wire \in Seq(Command)

LEMMA ResponsesAreCommands ==
  /\ \A risk \in {95, 80, 60}, ip \in Ip : ResponseTo(risk, ip) \in Seq(Command)
  /\ \A risk \in {95, 80, 60} : ResponseWithoutAddress(risk) \in Seq(Command)
  BY DEF ResponseTo, ResponseWithoutAddress, Command

LEMMA OverTypes == \A a, b \in Feeds : Over(a, b) \in Feeds
  BY DEF Over, Feeds

LEMMA OtherInit == Init => OtherTypes
  <1> SUFFICES ASSUME Init PROVE OtherTypes
    OBVIOUS
  <1>1. [i \in Ioc |-> NoScore] \in Feeds /\ SeedOf \in Feeds
    BY DefenceAssumption DEF Feeds
  <1> QED BY <1>1, OverTypes DEF Init, OtherTypes, Seeded

LEMMA OtherStep == ASSUME OtherTypes, [Next]_vars PROVE OtherTypes'
  <1>1. CASE \E risk \in {95, 80, 60} : evaluate_and_respond(risk)
    BY <1>1, ResponsesAreCommands DEF OtherTypes, evaluate_and_respond, iocs
  <1>2. CASE SendNext
    BY <1>2, SMTT(20) DEF OtherTypes, SendNext, iocs
  <1>3. CASE (\E c \in Command : Order(c)) \/ Lost
    <2>1. wire' \in Seq(Command)
      <3>1. wire \in Seq(Command)
        BY DEF OtherTypes
      <3>2. CASE Lost
        BY <3>2 DEF Lost
      <3>3. CASE \E c \in Command : Order(c)
        <4>1. PICK c \in Command : wire' = Append(wire, c)
          BY <3>3 DEF Order
        <4> QED BY <3>1, <4>1
      <3> QED BY <1>3, <3>2, <3>3
    <2>2. UNCHANGED <<cache, feed, told, response>>
      BY <1>3 DEF Order, Lost, iocs
    <2> QED BY <2>1, <2>2 DEF OtherTypes
  <1>4. CASE Block \/ Unblock \/ Unknown \/ AddIocFails
    <2>1. wire' = Tail(wire) /\ wire # <<>> /\ UNCHANGED <<cache, feed, told, response>>
      BY <1>4 DEF Block, Unblock, Unknown, AddIocFails, Take, iocs
    <2>2. wire' \in Seq(Command)
      BY <2>1 DEF OtherTypes
    <2> QED BY <2>1, <2>2 DEF OtherTypes
  <1>5. CASE RunNext \/ RunRaises
    BY <1>5 DEF OtherTypes, RunNext, RunRaises, iocs, orders
  <1>6. CASE AddIoc
    <2>1. Head(wire) \in Command /\ Head(wire).name = "sync_ioc" /\ wire' \in Seq(Command)
      BY <1>6 DEF OtherTypes, AddIoc, Take
    <2>2. Head(wire).ioc \in Ioc /\ Head(wire).score \in Score
      BY <2>1 DEF Command
    <2>3. cache' \in Feeds /\ told' \in Feeds
      BY <1>6, <2>2 DEF OtherTypes, AddIoc, Feeds
    <2> QED BY <1>6, <2>1, <2>3 DEF OtherTypes, AddIoc, Take
  <1>7. CASE Sync
    BY <1>7, OverTypes DEF OtherTypes, Sync, FetchFeed, WriteFeed, WriteFeedFails, orders
  <1>8. CASE Restart
    <2>1. SeedOf \in Feeds
      BY DefenceAssumption DEF Feeds
    <2> QED BY <1>8, <2>1, OverTypes DEF OtherTypes, Restart, Seeded
  <1>9. CASE UNCHANGED vars
    BY <1>9 DEF OtherTypes, vars, iocs, orders
  <1> QED BY <1>1, <1>2, <1>3, <1>4, <1>5, <1>6, <1>7, <1>8, <1>9 DEF Next, Handle

(* Each command is taken by one action, and only a block or an unblock of  *)
(* an address begins a job.                                                *)
LEMMA NextInv == ASSUME IInv, OtherTypes, [Next]_vars PROVE IInv'
  <1>1. CASE Block
    <2>1. Head(wire) \in Command /\ Head(wire).name = "block_ip"
      BY <1>1 DEF Block, Take, OtherTypes
    <2>2. Head(wire).ip \in Ip
      BY <2>1 DEF Command
    <2>3. CASE job' = Idle
      BY <1>1, <2>3, Untouched DEF Block, Take, firewall
    <2>4. CASE job' # Idle
      BY <1>1, <2>2, <2>4, Begins DEF Block, Take
    <2> QED BY <2>3, <2>4
  <1>2. CASE Unblock
    <2>1. Head(wire) \in Command /\ Head(wire).name = "unblock_ip"
      BY <1>2 DEF Unblock, Take, OtherTypes
    <2>2. Head(wire).ip \in Ip
      BY <2>1 DEF Command
    <2>3. CASE job' = Idle
      BY <1>2, <2>3, Untouched DEF Unblock, Take, firewall
    <2>4. CASE job' # Idle
      BY <1>2, <2>2, <2>4, Begins DEF Unblock, Take
    <2> QED BY <2>3, <2>4
  <1>3. CASE RunNext
    BY <1>3, RunNextInv
  <1>4. CASE RunRaises
    BY <1>4, RunRaisesInv
  <1>5. CASE Restart
    BY <1>5, RestartInv
  <1>6. CASE Unknown \/ AddIoc \/ AddIocFails
    BY <1>6, Untouched DEF Unknown, AddIoc, AddIocFails, Take
  <1>7. CASE Sync
    BY <1>7, Untouched DEF Sync, FetchFeed, WriteFeed, WriteFeedFails
  <1>8. CASE SendNext \/ Lost \/ (\E c \in Command : Order(c))
             \/ (\E risk \in {95, 80, 60} : evaluate_and_respond(risk))
    BY <1>8, Untouched DEF SendNext, Lost, Order, evaluate_and_respond
  <1>9. CASE UNCHANGED vars
    BY <1>9, Untouched DEF vars
  <1> QED BY <1>1, <1>2, <1>3, <1>4, <1>5, <1>6, <1>7, <1>8, <1>9 DEF Next, Handle

LEMMA InvAlways == Spec => [](IInv /\ OtherTypes)
  <1>1. IInv /\ OtherTypes /\ [Next]_vars => (IInv /\ OtherTypes)'
    BY NextInv, OtherStep
  <1> QED BY <1>1, InitInv, OtherInit, PTL DEF Spec

(* Type correctness, whatever the system, the commands and their outcomes. *)
THEOREM TypeCorrect == Spec => []TypeOK
  <1>1. IInv /\ OtherTypes => TypeOK
    BY DEF IInv, FirewallTypes, OtherTypes, TypeOK
  <1> QED BY <1>1, InvAlways, PTL

(* An address that firewall.py reports as blocked is dropped in every      *)
(* direction, unless an exception cut an unblock of it short.              *)
THEOREM Enforced == Spec => []BlockedIsEnforced
  BY InvImplies, InvAlways, PTL

(* Blocks and unblocks that are not disturbed leave no rule behind.        *)
THEOREM Opened == Spec => []ForgottenIsOpen
  BY InvImplies, InvAlways, PTL

(* The seeds that every start inserts never replace a reputation that was  *)
(* pushed or synchronised.                                                 *)
THEOREM Reputations == Spec => []ReputationStands
  <1>1. Init => ReputationStands
    BY DefenceAssumption DEF Init, ReputationStands, Seeded, Over
  <1>2. OtherTypes /\ ReputationStands /\ [Next]_vars => ReputationStands'
    <2> SUFFICES ASSUME OtherTypes, ReputationStands, [Next]_vars
                 PROVE  ReputationStands'
      OBVIOUS
    <2>1. CASE UNCHANGED <<cache, told>>
      BY <2>1 DEF ReputationStands, Over
    <2>2. CASE AddIoc
      <3>1. Head(wire) \in Command /\ Head(wire).name = "sync_ioc"
        BY <2>2 DEF OtherTypes, AddIoc, Take
      <3>2. Head(wire).ioc \in Ioc /\ Head(wire).score # NoScore
        BY <3>1, DefenceAssumption DEF Command
      <3> QED BY <2>2, <3>2 DEF AddIoc, ReputationStands, Over, OtherTypes, Feeds
    <2>3. CASE WriteFeed
      BY <2>3 DEF WriteFeed, ReputationStands, Over
    <2>4. CASE Restart
      BY <2>4 DEF Restart, Seeded, ReputationStands, Over
    <2> QED BY <2>1, <2>2, <2>3, <2>4 DEF Next, Handle, Sync, evaluate_and_respond, SendNext,
         Order, Lost, Block, Unblock, Unknown, RunNext, RunRaises, AddIocFails, FetchFeed,
         WriteFeedFails, iocs, vars
  <1> QED BY <1>1, <1>2, InvAlways, PTL DEF Spec
=============================================================================
