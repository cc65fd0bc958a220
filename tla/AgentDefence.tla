----------------------------- MODULE AgentDefence ------------------------------
(***************************************************************************)
(* How the platform acts on an address: the response orchestrator of the   *)
(* backend (response_engine/orchestrator.py) and its operators send        *)
(* commands; the agent's WebSocket thread carries them out one by one      *)
(* (main.py:_handle_ws_command) with the rules of the operating system     *)
(* (services/firewall.py) and a cache of indicators (threat_intel.py).     *)
(*                                                                         *)
(* A block is one netsh or iptables command per direction, or one pfctl    *)
(* command; each is a step, may be refused, and may time out, which raises *)
(* out of the whole operation with the command carried out or not.         *)
(***************************************************************************)
EXTENDS Naturals, Sequences

CONSTANTS Ip,       \* addresses that are blocked
          Ioc,      \* addresses and domains that may be known as indicators
          Score,    \* reputations
          NoScore,  \* that of an indicator the cache does not hold
          SeedOf,   \* the reputations of the built-in indicators, else NoScore
          MaxRules, \* bound: equal rules in the system for one direction
          MaxWire   \* bound: commands on their way to the agent

ASSUME DefenceAssumption ==
  /\ NoScore \notin Score
  /\ SeedOf \in [Ioc -> Score \cup {NoScore}]
  /\ MaxRules \in Nat \ {0} /\ MaxWire \in Nat \ {0}

VARIABLES os,       \* platform.system()
          rules,    \* rules in the system that drop an address, per direction
          blocked,  \* _blocked_ips
          job,      \* the block or unblock under way
          cache,    \* ioc_cache
          feed,     \* a feed fetched and not yet written, <<>> for none
          response, \* commands a response has yet to send
          wire,     \* commands sent and not handled
          told,     \* history: what was last written to the cache but by the seeds
          cut,      \* history: remembered addresses whose unblock was cut short
          strays    \* history: addresses forgotten with rules that may stay

firewall == <<rules, blocked, job, cut, strays>>
iocs     == <<cache, feed, told>>
orders   == <<response, wire>>
vars     == <<os, firewall, iocs, orders>>

Systems   == {"Windows", "Linux", "Darwin", "other"}
Direction == {"in", "out"}
Counts    == [Direction -> 0..MaxRules]
NoRules   == [d \in Direction |-> 0]
Ruled(rs) == {ip \in Ip : rs[ip] # NoRules}

(* One command per direction; pfctl keeps one table, filed under "in".     *)
Directions == IF os = "Darwin" THEN <<"in">> ELSE <<"in", "out">>
Everywhere == IF os = "Darwin" THEN {"in"} ELSE Direction

Command == [name : {"block_ip", "unblock_ip", "terminate_connection"}, ip : Ip]
           \cup [name : {"sync_ioc"}, ioc : Ioc, score : Score]
           \cup [name : {"quarantine"}]

Idle == [op |-> "idle"]
Job  == [op : {"add", "delete"}, ip : Ip, todo : {<<"in", "out">>, <<"out">>, <<"in">>},
         done : SUBSET Direction]

Begun(op, ip)   == [op |-> op, ip |-> ip, todo |-> Directions, done |-> {}]
WorkingOn(ip)   == job # Idle /\ job.ip = ip
Dropped(ip)     == {d \in Everywhere : rules[ip][d] > 0}

Feeds == [Ioc -> Score \cup {NoScore}]
Over(base, top) == [i \in Ioc |-> IF top[i] = NoScore THEN base[i] ELSE top[i]]

-----------------------------------------------------------------------------
(* Definitions named Mutant... are faults put in on purpose, to see that   *)
(* the properties find them; the specification never uses them.            *)

(* _load_seed_iocs: INSERT OR IGNORE *)
Seeded(c) == Over(SeedOf, c)

Init ==
  /\ os \in Systems
  /\ rules = [ip \in Ip |-> NoRules]
  /\ blocked = {} /\ job = Idle /\ cut = {} /\ strays = {}
  /\ cache = Seeded([i \in Ioc |-> NoScore])
  /\ feed = <<>>
  /\ told = [i \in Ioc |-> NoScore]
  /\ response = <<>> /\ wire = <<>>

-----------------------------------------------------------------------------
(* evaluate_and_respond: what a risk makes the backend send, in order.     *)
ResponseTo(risk, ip) ==
  IF risk >= 95 THEN <<[name |-> "block_ip", ip |-> ip],
                       [name |-> "terminate_connection", ip |-> ip],
                       [name |-> "quarantine"]>>
  ELSE IF risk >= 80 THEN <<[name |-> "block_ip", ip |-> ip]>> ELSE <<>>

ResponseWithoutAddress(risk) ==
  IF risk >= 95 THEN <<[name |-> "quarantine"]>> ELSE <<>>

evaluate_and_respond(risk) ==
  /\ response = <<>>
  /\ \/ \E ip \in Ip : response' = ResponseTo(risk, ip)
     \/ response' = ResponseWithoutAddress(risk)
  /\ UNCHANGED <<os, firewall, iocs, wire>>

(* _block_ip, _terminate_connection, _quarantine_device: send_to_device    *)
(* reaches the agent, or nobody; the chain goes on after a failed send.    *)
SendNext ==
  /\ response # <<>>
  /\ response' = Tail(response)
  /\ \/ wire' = wire
     \/ Len(wire) < MaxWire /\ wire' = Append(wire, Head(response))
  /\ UNCHANGED <<os, firewall, iocs>>

(* POST /agent/command *)
Order(c) ==
  /\ Len(wire) < MaxWire
  /\ wire' = Append(wire, c)
  /\ UNCHANGED <<os, firewall, iocs, response>>

Lost ==
  /\ wire # <<>>
  /\ wire' = <<>>
  /\ UNCHANGED <<os, firewall, iocs, response>>

-----------------------------------------------------------------------------
(* _handle_ws_command takes the next command when the last has returned.   *)
Take(names) ==
  /\ job = Idle
  /\ wire # <<>>
  /\ Head(wire).name \in names
  /\ wire' = Tail(wire)
  /\ UNCHANGED <<os, response>>

MutantBlock ==
  /\ Take({"block_ip"})
  /\ job' = IF os = "other" THEN Idle ELSE Begun("add", Head(wire).ip)
  /\ UNCHANGED <<rules, blocked, cut, strays, iocs>>

(* block_ip: an address that is remembered is not blocked again. *)
Block ==
  /\ Take({"block_ip"})
  /\ job' = IF Head(wire).ip \in blocked \/ os = "other"
            THEN Idle ELSE Begun("add", Head(wire).ip)
  /\ UNCHANGED <<rules, blocked, cut, strays, iocs>>

Unblock ==
  /\ Take({"unblock_ip"})
  /\ job' = IF os = "other" THEN Idle ELSE Begun("delete", Head(wire).ip)
  /\ UNCHANGED <<rules, blocked, cut, strays, iocs>>

(* The agent knows no terminate_connection and no quarantine. *)
Unknown ==
  /\ Take({"terminate_connection", "quarantine"})
  /\ UNCHANGED <<firewall, iocs>>

(* The rules of ip after the command for direction d. iptables deletes one *)
(* of equal rules, netsh all of one name, and pfctl keeps a set.           *)
Applied(ip, d) ==
  LET n == rules[ip][d]
  IN  IF job.op = "add" THEN IF os = "Darwin" THEN 1 ELSE n + 1
      ELSE IF os = "Linux" /\ n > 0 THEN n - 1 ELSE 0

(* netsh and iptables fail when there is nothing to delete. *)
Finds(ip, d) == job.op = "add" \/ os = "Darwin" \/ rules[ip][d] > 0

MutantSuccess(done) == done # {}

(* Both rules must be added; one deleted rule will do. *)
Success(done) == IF job.op = "add" THEN done = Everywhere ELSE done # {}

Apply(ip, d) == rules' = [rules EXCEPT ![ip][d] = Applied(ip, d)]

(* A refusal, or a direction that had nothing to delete, may leave a rule  *)
(* behind, of which the agent will know nothing.                           *)
Returns(done) ==
  LET ip == job.ip
  IN  /\ job' = Idle
      /\ blocked' = IF ~Success(done) THEN blocked
                    ELSE IF job.op = "add" THEN blocked \cup {ip} ELSE blocked \ {ip}
      /\ cut' = cut \cap blocked'
      /\ strays' = Ruled(rules') \cap (IF done = Everywhere THEN strays ELSE strays \cup {ip})

GoesOn(done) ==
  /\ job' = [job EXCEPT !.todo = Tail(@), !.done = done]
  /\ strays' = strays \cap Ruled(rules')
  /\ UNCHANGED <<blocked, cut>>

(* subprocess.run returns: the command did its work, or was refused. *)
RunNext ==
  /\ job # Idle
  /\ LET ip == job.ip
         d  == Head(job.todo)
     IN  /\ Applied(ip, d) <= MaxRules
         /\ \E ok \in {Finds(ip, d), FALSE} :
              LET done == IF ok THEN job.done \cup {d} ELSE job.done
              IN  /\ IF ok THEN Apply(ip, d) ELSE rules' = rules
                  /\ IF Len(job.todo) = 1 THEN Returns(done) ELSE GoesOn(done)
  /\ UNCHANGED <<os, iocs, orders>>

(* subprocess.run raises: after its 10 seconds the command has worked or   *)
(* not, and the rest is given up with the memory as it was.                *)
RunRaises ==
  /\ job # Idle
  /\ LET ip == job.ip
         d  == Head(job.todo)
     IN  /\ Applied(ip, d) <= MaxRules
         /\ Apply(ip, d) \/ rules' = rules
         /\ cut' = IF ip \in blocked THEN cut \cup {ip} ELSE cut
         /\ strays' = Ruled(rules') \cap (strays \cup {ip})
  /\ job' = Idle
  /\ UNCHANGED <<os, blocked, iocs, orders>>

-----------------------------------------------------------------------------
(* sync_ioc: add_ioc under the lock, INSERT OR REPLACE, or it fails *)
AddIoc ==
  /\ Take({"sync_ioc"})
  /\ LET c == Head(wire)
     IN  /\ cache' = [cache EXCEPT ![c.ioc] = c.score]
         /\ told' = [told EXCEPT ![c.ioc] = c.score]
  /\ UNCHANGED <<feed, firewall>>

AddIocFails ==
  /\ Take({"sync_ioc"})
  /\ UNCHANGED <<iocs, firewall>>

(* sync_from_backend: the feed is fetched before the lock is taken, from a *)
(* backend that serves one.                                                *)
FetchFeed ==
  /\ feed = <<>>
  /\ \E answer \in Feeds : feed' = <<answer>>
  /\ UNCHANGED <<os, cache, told, firewall, orders>>

WriteFeed ==
  /\ feed # <<>>
  /\ cache' = Over(cache, feed[1])
  /\ told' = Over(told, feed[1])
  /\ feed' = <<>>
  /\ UNCHANGED <<os, firewall, orders>>

(* An entry without ioc_value, a full disk: nothing is committed. *)
WriteFeedFails ==
  /\ feed # <<>>
  /\ feed' = <<>>
  /\ UNCHANGED <<os, cache, told, firewall, orders>>

-----------------------------------------------------------------------------
(* The agent starts again: the rules and the cache are still there, unless *)
(* the computer was booted, which only the rules of Windows outlive.       *)
Restart ==
  /\ \/ rules' = rules
     \/ os # "Windows" /\ rules' = [ip \in Ip |-> NoRules]
  /\ blocked' = {} /\ job' = Idle /\ cut' = {}
  /\ strays' = Ruled(rules')
  /\ cache' = Seeded(cache)
  /\ feed' = <<>> /\ wire' = <<>>
  /\ UNCHANGED <<os, told, response>>

Handle == Block \/ Unblock \/ Unknown \/ RunNext \/ RunRaises \/ AddIoc \/ AddIocFails
Sync   == FetchFeed \/ WriteFeed \/ WriteFeedFails

Next ==
  \/ \E risk \in {95, 80, 60} : evaluate_and_respond(risk)
  \/ SendNext
  \/ \E c \in Command : Order(c)
  \/ Lost \/ Handle \/ Sync \/ Restart

Spec == Init /\ [][Next]_vars

-----------------------------------------------------------------------------
TypeOK ==
  /\ os \in Systems
  /\ rules \in [Ip -> Counts]
  /\ blocked \subseteq Ip /\ cut \subseteq Ip /\ strays \subseteq Ip
  /\ job \in {Idle} \cup Job
  /\ cache \in Feeds /\ told \in Feeds
  /\ feed \in {<<>>} \cup {<<f>> : f \in Feeds}
  /\ response \in Seq(Command) /\ wire \in Seq(Command)

(* An address the agent reports as blocked, and would therefore not block  *)
(* again, is dropped in both directions; only an unblock that an exception *)
(* cut short between its two commands leaves it reported and half open.    *)
BlockedIsEnforced ==
  \A ip \in blocked \ cut : ~WorkingOn(ip) => Dropped(ip) = Everywhere

(* An address the agent has forgotten is not dropped by rules nobody will  *)
(* remove, unless a command was refused or raised, or the agent restarted  *)
(* while it was blocked: no sequence of blocks and unblocks alone, however *)
(* often one is repeated, leaves a rule behind.                            *)
ForgottenIsOpen ==
  \A ip \in Ip \ (blocked \cup strays) : ~WorkingOn(ip) => Dropped(ip) = {}

(* A reputation that was pushed or synchronised stands until the next push *)
(* or feed, over every restart with its seeds and every write that failed. *)
ReputationStands == cache = Over(SeedOf, told)
=============================================================================
