------------------------------ MODULE AgentChannel ------------------------------
(***************************************************************************)
(* The command channel between the backend and its agents: the WebSocket   *)
(* endpoint /ws/agent with its registry of connections                     *)
(* (backend/main.py, backend/api/agent_ws), and the client thread of each  *)
(* agent that connects, reconnects and stops                               *)
(* (endpoint-agent/client/websocket_client.py).                            *)
(*                                                                         *)
(* The handlers of the connections and the requests that send commands are *)
(* coroutines of one process; each runs alone from one await to the next.  *)
(* The registry is a dict of CPython: insertion order, a replaced value    *)
(* keeps its place, a deleted entry leaves a hole, and an insertion that   *)
(* finds no place left rebuilds the table without its holes.  An iteration *)
(* keeps its place, whatever is there now; it raises an error when it      *)
(* finds that the number of entries has changed, or an entry more than it  *)
(* began with.                                                             *)
(***************************************************************************)
EXTENDS Integers, FiniteSets, Sequences

CONSTANTS Agent,    \* agents with a WebSocket client
          Key,      \* ids connections are filed under
          KeyOf,    \* the id of an agent: device_id, or the sub of its token
          Room(_),  \* places of a table that is rebuilt for n entries
          MaxConn   \* bound: connections opened

Waiting == 0
Hole    == "hole"

(* CPython has 5 places for up to 2 entries, 10 for up to 5, and so on. *)
ASSUME ChannelAssumption ==
  /\ IsFiniteSet(Key) /\ Hole \notin Key /\ KeyOf \in [Agent -> Key]
  /\ \A n \in 0..Cardinality(Key) : Room(n) \in Nat /\ Room(n) > n
  /\ MaxConn \in Nat

VARIABLES conn,   \* the connections opened so far, in order
          link,   \* the connection of each agent's client, 0 while it has none
          filed,  \* _agents: the connection filed under each id, 0 for none
          order,  \* the ids in the order of the dict, with its holes
          room,   \* the places of its table
          post,   \* a send_to_device under way
          cast    \* a broadcast_to_agents under way

vars == <<conn, link, filed, order, room, post, cast>>

Conn     == [agent : Agent, open : BOOLEAN, handler : {"accepting", "serving", "ended"}]
KeyIn(c) == KeyOf[conn[c].agent]

Post   == [key : Key, to : DOMAIN conn]
NoPost == [key |-> Hole, to |-> 0]

(* ix is the place of the iteration, size the number of entries it began   *)
(* with and more the number it may still return.  For a property, due      *)
(* records the connections that have been filed since then and that the    *)
(* broadcast has not dealt with, and shifted that the table was rebuilt    *)
(* with a hole in the part the iteration had passed.                       *)
Cast   == [on : {TRUE}, ix : Nat, size : Nat, more : Nat, key : Key, to : DOMAIN conn,
           failed : SUBSET Key, due : SUBSET DOMAIN conn, shifted : BOOLEAN]
NoCast == [on |-> FALSE, ix |-> 0, size |-> 0, more |-> 0, key |-> Hole, to |-> 0,
           failed |-> {}, due |-> {}, shifted |-> FALSE]

Init ==
  /\ conn = <<>>
  /\ link = [a \in Agent |-> Waiting]
  /\ filed = [k \in Key |-> 0]
  /\ order = <<>>
  /\ room = Room(0)
  /\ post = NoPost
  /\ cast = NoCast

Taken   == {i \in DOMAIN order : order[i] # Hole}
Entries == {k \in Key : filed[k] # 0}

(* disconnect(device_id), for each of keys: whatever is filed there goes. *)
Drop(keys) ==
  /\ filed' = [k \in Key |-> IF k \in keys THEN 0 ELSE filed[k]]
  /\ order' = [i \in DOMAIN order |-> IF order[i] \in keys THEN Hole ELSE order[i]]
  /\ UNCHANGED room

StillDue == cast.due \cap {filed'[k] : k \in Key}

-----------------------------------------------------------------------------
(* The client thread opens a connection, which the server begins to accept. *)
Connect(a) ==
  /\ link[a] = Waiting
  /\ Len(conn) < MaxConn
  /\ conn' = Append(conn, [agent |-> a, open |-> TRUE, handler |-> "accepting"])
  /\ link' = [link EXCEPT ![a] = Len(conn')]
  /\ UNCHANGED <<filed, order, room, post, cast>>

(* The connection breaks, times out or is closed by the agent, which tries *)
(* again after its backoff, or never if it was stopped; the server has yet *)
(* to notice.                                                              *)
Breaks(a) ==
  /\ link[a] > 0
  /\ conn' = [conn EXCEPT ![link[a]].open = FALSE]
  /\ link' = [link EXCEPT ![a] = Waiting]
  /\ UNCHANGED <<filed, order, room, post, cast>>

(* The holes an iteration has passed when the table is rebuilt. *)
Shifts == {i \in DOMAIN order : order[i] = Hole /\ i <= cast.ix}

(* A new entry takes the next place, or the first behind the entries of a  *)
(* table that is rebuilt: the i-th of them was at place f[i].              *)
Insert(k) ==
  \/ /\ Len(order) < room
     /\ order' = Append(order, k)
     /\ cast' = [cast EXCEPT !.due = StillDue]
     /\ UNCHANGED room
  \/ /\ Len(order) >= room
     /\ \E f \in [1..Cardinality(Taken) -> Taken] :
          /\ \A i, j \in DOMAIN f : i < j => f[i] < f[j]
          /\ order' = Append([i \in DOMAIN f |-> order[f[i]]], k)
     /\ room' = Room(Cardinality(Taken))
     /\ cast' = [cast EXCEPT !.due = StillDue, !.shifted = cast.on /\ (@ \/ Shifts # {})]

(* connect, after accept() has returned *)
Accepted(c) ==
  /\ conn[c].handler = "accepting"
  /\ conn' = [conn EXCEPT ![c].handler = "serving"]
  /\ filed' = [filed EXCEPT ![KeyIn(c)] = c]
  /\ \/ filed[KeyIn(c)] = 0 /\ Insert(KeyIn(c))
     \/ /\ filed[KeyIn(c)] # 0
        /\ cast' = [cast EXCEPT !.due = StillDue]
        /\ UNCHANGED <<order, room>>
  /\ UNCHANGED <<link, post>>

(* accept() raises, the client is gone *)
AcceptFails(c) ==
  /\ conn[c].handler = "accepting"
  /\ ~conn[c].open
  /\ conn' = [conn EXCEPT ![c].handler = "ended"]
  /\ UNCHANGED <<link, filed, order, room, post, cast>>

MutantEnded(c) ==
  /\ conn[c].handler = "serving"
  /\ ~conn[c].open
  /\ conn' = [conn EXCEPT ![c].handler = "ended"]
  /\ UNCHANGED <<link, filed, order, room, post, cast>>

(* receive_text raises: the handler gives up the id it was given. *)
Ended(c) ==
  /\ conn[c].handler = "serving"
  /\ ~conn[c].open
  /\ conn' = [conn EXCEPT ![c].handler = "ended"]
  /\ Drop({KeyIn(c)})
  /\ cast' = [cast EXCEPT !.due = StillDue]
  /\ UNCHANGED <<link, post>>

-----------------------------------------------------------------------------
MutantMayFail(c) == TRUE

(* Sending succeeds on a connection whose handler lives, also when the     *)
(* client is gone and the server has not noticed.                          *)
MayFail(c) == ~conn[c].open
MayPass(c) == conn[c].handler = "serving"

(* send_to_device, up to the await; an id that is not filed is answered 0. *)
Send(k) ==
  /\ post = NoPost
  /\ k \in Entries
  /\ post' = [key |-> k, to |-> filed[k]]
  /\ UNCHANGED <<conn, link, filed, order, room, cast>>

Sent ==
  /\ post # NoPost
  /\ MayPass(post.to)
  /\ post' = NoPost
  /\ UNCHANGED <<conn, link, filed, order, room, cast>>

SendFails ==
  /\ post # NoPost
  /\ MayFail(post.to)
  /\ post' = NoPost
  /\ Drop({post.key})
  /\ cast' = [cast EXCEPT !.due = StillDue]
  /\ UNCHANGED <<conn, link>>

MutantLeft(i) ==
  {j \in DOMAIN order : /\ order[j] # Hole
                        /\ Cardinality({h \in 1..j : order[h] # Hole}) > i}

(* The places that are left to an iteration that has come to place i. *)
Left(i) == {j \in DOMAIN order : j > i /\ order[j] # Hole}

(* "dictionary changed size" and "dictionary keys changed during iteration" *)
Raises(state) ==
  \/ Cardinality(Entries) # state.size
  \/ state.more = 0 /\ Left(state.ix) # {}

(* The loop goes on to the next entry, ends, or raises an error. *)
GoesOn(state) ==
  \/ /\ ~Raises(state)
     /\ \E i \in Left(state.ix) :
          /\ \A j \in Left(state.ix) : i <= j
          /\ cast' = [state EXCEPT !.ix = i, !.more = @ - 1,
                                   !.key = order[i], !.to = filed[order[i]]]
     /\ UNCHANGED <<filed, order, room>>
  \/ /\ ~Raises(state)
     /\ Left(state.ix) = {}
     /\ Drop(state.failed)
     /\ cast' = NoCast
  \/ /\ Raises(state)
     /\ cast' = NoCast
     /\ UNCHANGED <<filed, order, room>>

Broadcast ==
  /\ ~cast.on
  /\ GoesOn([NoCast EXCEPT !.on = TRUE, !.size = Cardinality(Entries),
                           !.more = Cardinality(Entries), !.due = {filed[k] : k \in Entries}])
  /\ UNCHANGED <<conn, link, post>>

CastSent ==
  /\ cast.on
  /\ MayPass(cast.to)
  /\ GoesOn([cast EXCEPT !.due = @ \ {cast.to}])
  /\ UNCHANGED <<conn, link, post>>

CastFails ==
  /\ cast.on
  /\ MayFail(cast.to)
  /\ GoesOn([cast EXCEPT !.due = @ \ {cast.to}, !.failed = @ \cup {cast.key}])
  /\ UNCHANGED <<conn, link, post>>

-----------------------------------------------------------------------------
Next ==
  \/ \E a \in Agent : Connect(a) \/ Breaks(a)
  \/ \E c \in DOMAIN conn : Accepted(c) \/ AcceptFails(c) \/ Ended(c)
  \/ \E k \in Key : Send(k)
  \/ Sent \/ SendFails
  \/ Broadcast \/ CastSent \/ CastFails

Spec == Init /\ [][Next]_vars

(* The server pings every connection and closes one that does not answer,  *)
(* so receive_text raises sooner or later once the client is gone.         *)
FairSpec ==
  Spec /\ \A c \in 1..MaxConn : WF_vars(c \in DOMAIN conn /\ (Accepted(c) \/ Ended(c)))

-----------------------------------------------------------------------------
(* Type invariant; the entries of the dict are the ids with a connection,  *)
(* each in one place.                                                      *)
TypeOK ==
  /\ conn \in Seq(Conn) /\ Len(conn) <= MaxConn
  /\ link \in [Agent -> {Waiting} \cup DOMAIN conn]
  /\ filed \in [Key -> {0} \cup DOMAIN conn]
  /\ order \in Seq(Key \cup {Hole}) /\ room \in Nat
  /\ \A k \in Key : filed[k] # 0 <=> \E i \in DOMAIN order : order[i] = k
  /\ \A i, j \in DOMAIN order : (order[i] = order[j] /\ order[i] # Hole) => i = j
  /\ post = NoPost \/ post \in Post
  /\ cast = NoCast \/ cast \in Cast

(* A command is never sent to a connection whose handler has ended: what   *)
(* is filed under an id is a connection of that id that is being served,   *)
(* whichever of the handlers, the sends and the broadcast took entries     *)
(* away in the meantime (handler.py:33-49, main.py:196-207).               *)
FiledIsServed ==
  \A k \in Entries : conn[filed[k]].handler = "serving" /\ KeyIn(filed[k]) = k

(* An agent that is connected and whose id never had another connection    *)
(* can be reached: only the end of an earlier connection, or a later one   *)
(* that takes its place, ever removes a living one (handler.py:42-80).     *)
OnlyRivalsUnfile ==
  \A c \in DOMAIN conn :
    (conn[c].handler = "serving" /\ conn[c].open /\ filed[KeyIn(c)] # c) =>
      \E e \in DOMAIN conn : e # c /\ KeyIn(e) = KeyIn(c)

(* A broadcast that ends without an error has dealt with every connection  *)
(* that was filed all along, although it awaits each send and entries come *)
(* and go meanwhile; unless the table was rebuilt behind its back without  *)
(* an entry it had passed, the one way to skip anybody (handler.py:66-83). *)
BroadcastReachesAll ==
  [][(cast.on /\ ~cast'.on /\ ~Raises(cast) /\ ~cast.shifted) =>
       cast.due \subseteq {cast.to}]_vars

(* A connection whose client is gone is, in the end, not in the registry   *)
(* and stays out of it (main.py:198-207).                                  *)
GoneIsForgotten ==
  \A c \in 1..MaxConn :
    <>[]((c \in DOMAIN conn /\ ~conn[c].open) => \A k \in Key : filed[k] # c)

-----------------------------------------------------------------------------
(* What the repository says and the code does not do. *)

(* handler.py:67: "Broadcast a command to all connected agents"            *)
NobodyIsMissed ==
  [][(cast.on /\ ~cast'.on) => cast.due \subseteq {cast.to}]_vars

(* handler.py:25: "Each agent registers with its device_id. Commands can   *)
(* be sent to individual agents": an agent on the latest connection of its *)
(* id is the one filed there, once the server has accepted it.             *)
ConnectedIsReachable ==
  \A c \in DOMAIN conn :
    (/\ conn[c].handler = "serving" /\ conn[c].open
     /\ \A e \in DOMAIN conn : (KeyIn(e) = KeyIn(c) /\ e # c) => conn[e].handler = "ended")
      => filed[KeyIn(c)] = c
=============================================================================
