--------------------------- MODULE AgentChannelProofs ---------------------------
(***************************************************************************)
(* Theorems about AgentChannel, for every set of agents and of ids, every  *)
(* size of the dict's table and every bound on the connections.  The       *)
(* inductive invariant adds to the properties what a send and a broadcast  *)
(* know of the connections they hold, and where in the dict a broadcast    *)
(* will find each connection it has not dealt with.                        *)
(***************************************************************************)
EXTENDS AgentChannel, TLAPS, SequenceTheorems, FiniteSetTheorems, FunctionTheorems

PostInv == post # NoPost => KeyIn(post.to) = post.key

(* A connection that is due is filed under its id still, and the broadcast *)
(* has it in hand or its entry ahead, unless the table was shifted.        *)
DueInv(c) ==
  /\ filed[KeyIn(c)] = c
  /\ \/ cast.shifted \/ c = cast.to
     \/ \E i \in DOMAIN order : i > cast.ix /\ order[i] = KeyIn(c)

CastInv ==
  cast.on =>
    /\ KeyIn(cast.to) = cast.key
    /\ \A k \in cast.failed : \E e \in DOMAIN conn : KeyIn(e) = k /\ ~conn[e].open
    /\ \A c \in cast.due : DueInv(c)

IInv == TypeOK /\ FiledIsServed /\ OnlyRivalsUnfile /\ PostInv /\ CastInv

(* Every connection's id is one of Key. *)
LEMMA KeyType == TypeOK => \A c \in DOMAIN conn : KeyIn(c) \in Key
  <1> SUFFICES ASSUME TypeOK, NEW c \in DOMAIN conn PROVE KeyIn(c) \in Key
    OBVIOUS
  <1>1. conn[c] \in Conn
    BY ElementOfSeq, LenProperties DEF TypeOK
  <1> QED BY <1>1, ChannelAssumption DEF Conn, KeyIn

(* The type of a broadcast under way, and what can be done with it. *)
LEMMA CastFields ==
  ASSUME TypeOK, cast.on
  PROVE  /\ cast \in Cast
         /\ cast.ix \in Nat /\ cast.to \in DOMAIN conn /\ cast.key \in Key
         /\ cast.failed \in SUBSET Key /\ cast.due \in SUBSET DOMAIN conn /\ cast.size \in Nat
         /\ cast.more \in Nat /\ cast.shifted \in BOOLEAN
  <1>1. ~NoCast.on
    BY DEF NoCast
  <1>2. cast \in Cast
    BY <1>1 DEF TypeOK
  <1> QED BY <1>2 DEF Cast

LEMMA CastShrinks ==
  ASSUME TypeOK, NEW S \in SUBSET cast.due, NEW b \in BOOLEAN, b => cast.on,
         cast' = [cast EXCEPT !.due = S, !.shifted = b]
  PROVE  /\ cast' = NoCast \/ cast' \in Cast
         /\ cast'.on = cast.on /\ cast'.to = cast.to /\ cast'.ix = cast.ix
         /\ cast'.key = cast.key /\ cast'.failed = cast.failed
         /\ cast'.due = S /\ cast'.shifted = b
  <1>1. CASE cast = NoCast
    <2>1. S = {} /\ NoCast.due = {} /\ b = FALSE /\ NoCast.shifted = FALSE
      BY <1>1 DEF NoCast
    <2>2. cast' = NoCast
      BY <1>1, <2>1 DEF NoCast
    <2> QED BY <1>1, <2>1, <2>2
  <1>2. CASE cast \in Cast
    <2>1. S \in SUBSET DOMAIN conn
      BY <1>2 DEF Cast
    <2> QED BY <1>2, <2>1 DEF Cast
  <1> QED BY <1>1, <1>2 DEF TypeOK

(* A change of due alone leaves shifted as it was. *)
LEMMA DueAlone ==
  ASSUME TypeOK, NEW S
  PROVE  /\ [cast EXCEPT !.due = S] = [cast EXCEPT !.due = S, !.shifted = cast.shifted]
         /\ cast.shifted \in BOOLEAN /\ (cast.shifted => cast.on)
  <1>1. CASE cast = NoCast
    BY <1>1 DEF NoCast
  <1>2. CASE cast \in Cast
    BY <1>2 DEF Cast
  <1> QED BY <1>1, <1>2 DEF TypeOK

LEMMA InitInv == Init => IInv
  <1> SUFFICES ASSUME Init PROVE IInv
    OBVIOUS
  <1>1. TypeOK
    <2>1. conn \in Seq(Conn) /\ Len(conn) = 0 /\ order \in Seq(Key \cup {Hole})
      BY EmptySeq DEF Init
    <2>2. DOMAIN order = {}
      BY <2>1, LenProperties, EmptySeq DEF Init
    <2>3. Len(conn) <= MaxConn /\ room \in Nat
      <3>1. Cardinality(Key) \in Nat
        BY ChannelAssumption, FS_CardinalityType
      <3> QED BY <2>1, <3>1, ChannelAssumption DEF Init
    <2>4. /\ link \in [Agent -> {Waiting} \cup DOMAIN conn]
          /\ filed \in [Key -> {0} \cup DOMAIN conn]
      BY DEF Init
    <2>5. \A k \in Key : filed[k] # 0 <=> \E i \in DOMAIN order : order[i] = k
      BY <2>2 DEF Init
    <2> QED BY <2>1, <2>2, <2>3, <2>4, <2>5 DEF Init, TypeOK
  <1>2. FiledIsServed /\ OnlyRivalsUnfile /\ PostInv /\ CastInv
    BY DEF Init, FiledIsServed, OnlyRivalsUnfile, PostInv, CastInv, Entries, NoCast
  <1> QED BY <1>1, <1>2 DEF IInv

(* Connections come, break or fail to be accepted: the registry and those  *)
(* who use it do not notice.                                               *)
LEMMA ConnChanges ==
  ASSUME IInv, conn' \in Seq(Conn), Len(conn') <= MaxConn,
         DOMAIN conn \subseteq DOMAIN conn',
         link' \in [Agent -> {Waiting} \cup DOMAIN conn'],
         \A c \in DOMAIN conn :
           /\ conn'[c].agent = conn[c].agent
           /\ conn'[c].open => conn[c].open
           /\ conn'[c].handler = "serving" <=> conn[c].handler = "serving",
         \A c \in DOMAIN conn' \ DOMAIN conn : conn'[c].handler # "serving",
         UNCHANGED <<filed, order, room, post, cast>>
  PROVE  IInv'
  <1>1. \A c \in DOMAIN conn : KeyIn(c)' = KeyIn(c)
    BY DEF KeyIn
  <1>2. TypeOK'
    <2>1. filed' \in [Key -> {0} \cup DOMAIN conn']
      BY DEF IInv, TypeOK
    <2>2. post' = NoPost \/ post' \in Post'
      BY DEF IInv, TypeOK, Post
    <2>3. cast' = NoCast \/ cast' \in Cast'
      BY DEF IInv, TypeOK, Cast
    <2> QED BY <2>1, <2>2, <2>3 DEF IInv, TypeOK
  <1>3. FiledIsServed'
    <2>1. filed \in [Key -> {0} \cup DOMAIN conn] /\ FiledIsServed
      BY DEF IInv, TypeOK
    <2> QED BY <1>1, <2>1 DEF FiledIsServed, Entries
  <1>4. OnlyRivalsUnfile'
    <2>1. OnlyRivalsUnfile
      BY DEF IInv
    <2> QED BY <1>1, <2>1 DEF OnlyRivalsUnfile
  <1>5. PostInv'
    BY <1>1 DEF IInv, TypeOK, PostInv, Post
  <1>6. CastInv'
    <2> SUFFICES ASSUME cast.on PROVE CastInv'
      BY DEF CastInv
    <2>1. cast.to \in DOMAIN conn /\ cast.due \subseteq DOMAIN conn
      BY CastFields DEF IInv
    <2>2. \A c \in cast.due : DueInv(c)'
      BY <1>1, <2>1 DEF IInv, CastInv, DueInv
    <2> QED BY <1>1, <2>1, <2>2 DEF IInv, CastInv
  <1> QED BY <1>2, <1>3, <1>4, <1>5, <1>6 DEF IInv

(* Entries are dropped because a connection of their id is gone. *)
LEMMA Dropped ==
  ASSUME IInv, NEW keys \in SUBSET Key, Drop(keys), link' = link,
         conn' \in Seq(Conn), Len(conn') <= MaxConn, DOMAIN conn' = DOMAIN conn,
         \A c \in DOMAIN conn :
           /\ conn'[c].agent = conn[c].agent
           /\ conn'[c].open = conn[c].open
           /\ \/ conn'[c].handler = conn[c].handler
              \/ conn'[c].handler = "ended" /\ KeyIn(c) \in keys,
         \A k \in keys : \E e \in DOMAIN conn : KeyIn(e) = k /\ ~conn[e].open,
         post' = post \/ post' = NoPost,
         cast' = [cast EXCEPT !.due = StillDue] \/ cast' = NoCast
  PROVE  IInv'
  <1>1. \A c \in DOMAIN conn : KeyIn(c)' = KeyIn(c) /\ KeyIn(c) \in Key
    BY KeyType DEF KeyIn, IInv
  <1>2. /\ filed' = [k \in Key |-> IF k \in keys THEN 0 ELSE filed[k]]
        /\ order' = [i \in DOMAIN order |-> IF order[i] \in keys THEN Hole ELSE order[i]]
    BY DEF Drop
  <1>3. order \in Seq(Key \cup {Hole}) /\ order' \in Seq(Key \cup {Hole}) /\ DOMAIN order' = DOMAIN order
    <2>1. order \in Seq(Key \cup {Hole}) /\ DOMAIN order = 1..Len(order) /\ Len(order) \in Nat
      BY LenProperties DEF IInv, TypeOK
    <2>2. \A i \in 1..Len(order) : order[i] \in Key \cup {Hole}
      BY <2>1, ElementOfSeq
    <2> QED BY <2>1, <2>2, <1>2
  <1>4. TypeOK'
    <2>1. filed' \in [Key -> {0} \cup DOMAIN conn']
      BY <1>2 DEF IInv, TypeOK
    <2>2. post' = NoPost \/ post' \in Post'
      BY DEF IInv, TypeOK, Post
    <2>3. cast' = NoCast \/ cast' \in Cast'
      <3>1. StillDue \in SUBSET cast.due
        BY DEF StillDue
      <3>2. ASSUME cast' = [cast EXCEPT !.due = StillDue] PROVE cast' = NoCast \/ cast' \in Cast
        <4>1. cast' = [cast EXCEPT !.due = StillDue, !.shifted = cast.shifted]
              /\ cast.shifted \in BOOLEAN /\ (cast.shifted => cast.on) /\ TypeOK
          BY <3>2, DueAlone DEF IInv
        <4> QED BY <3>1, <4>1, CastShrinks
      <3>3. cast' = NoCast \/ cast' \in Cast
        BY <3>2
      <3> QED BY <3>3 DEF Cast
    <2>4. \A k \in Key : filed'[k] # 0 <=> \E i \in DOMAIN order' : order'[i] = k
      BY <1>2, ChannelAssumption DEF IInv, TypeOK
    <2>5. \A i, j \in DOMAIN order' : (order'[i] = order'[j] /\ order'[i] # Hole) => i = j
      BY <1>2 DEF IInv, TypeOK
    <2>6. room' \in Nat
      BY DEF Drop, IInv, TypeOK
    <2> QED BY <1>3, <2>1, <2>2, <2>3, <2>4, <2>5, <2>6 DEF IInv, TypeOK
  <1>5. FiledIsServed'
    BY <1>1, <1>2 DEF IInv, TypeOK, FiledIsServed, Entries
  <1>6. OnlyRivalsUnfile'
    <2> SUFFICES ASSUME NEW c \in DOMAIN conn, conn'[c].handler = "serving", conn'[c].open,
                        filed'[KeyIn(c)] # c
                 PROVE  \E e \in DOMAIN conn : e # c /\ KeyIn(e) = KeyIn(c)
      BY <1>1 DEF OnlyRivalsUnfile
    <2>1. conn[c].handler = "serving" /\ conn[c].open /\ KeyIn(c) \in Key
      BY <1>1
    <2>2. CASE KeyIn(c) \in keys
      BY <2>1, <2>2
    <2>3. CASE KeyIn(c) \notin keys
      BY <2>1, <2>3, <1>2 DEF IInv, OnlyRivalsUnfile
    <2> QED BY <2>2, <2>3
  <1>7. PostInv'
    BY <1>1 DEF IInv, TypeOK, PostInv, Post
  <1>8. CastInv'
    <2> SUFFICES ASSUME cast'.on PROVE CastInv'
      BY DEF CastInv
    <2>1. /\ cast' = [cast EXCEPT !.due = StillDue] /\ cast.on
          /\ cast.to \in DOMAIN conn /\ cast.due \subseteq DOMAIN conn
          /\ cast'.to = cast.to /\ cast'.ix = cast.ix /\ cast'.key = cast.key
          /\ cast'.failed = cast.failed /\ cast'.due = StillDue /\ cast'.shifted = cast.shifted
      <3>1. StillDue \in SUBSET cast.due
        BY DEF StillDue
      <3>2. ~NoCast.on
        BY DEF NoCast
      <3>3. cast' = [cast EXCEPT !.due = StillDue]
        BY <3>2
      <3>4. cast' = [cast EXCEPT !.due = StillDue, !.shifted = cast.shifted]
            /\ cast.shifted \in BOOLEAN /\ (cast.shifted => cast.on) /\ TypeOK
        BY <3>3, DueAlone DEF IInv
      <3>5. /\ cast'.on = cast.on /\ cast'.to = cast.to /\ cast'.ix = cast.ix /\ cast'.key = cast.key
            /\ cast'.failed = cast.failed /\ cast'.due = StillDue /\ cast'.shifted = cast.shifted
        BY <3>1, <3>4, CastShrinks
      <3> QED BY <3>3, <3>4, <3>5, CastFields
    <2>2. ASSUME NEW c \in StillDue PROVE DueInv(c)'
      <3>1. c \in cast.due /\ c \in DOMAIN conn /\ DueInv(c)
        BY <2>1 DEF StillDue, IInv, CastInv
      <3>2. PICK k \in Key : filed'[k] = c
        BY DEF StillDue
      <3>3. k \notin keys /\ filed[k] = c /\ c # 0
        BY <3>1, <3>2, <1>2, LenProperties DEF IInv, TypeOK
      <3>4. KeyIn(c) = k
        BY <3>3 DEF IInv, FiledIsServed, Entries
      <3> QED BY <3>1, <3>2, <3>3, <3>4, <1>1, <1>2, <1>3, <2>1 DEF DueInv
    <2> QED BY <1>1, <2>1, <2>2 DEF IInv, CastInv
  <1> QED BY <1>4, <1>5, <1>6, <1>7, <1>8 DEF IInv

(* A strictly increasing f from 1..n onto a set that has all of 1..x:      *)
(* whatever it takes from behind x is behind x still.                      *)
LEMMA StaysAhead ==
  ASSUME NEW T, NEW n \in Nat, NEW f \in [1..n -> T], T \subseteq Nat,
         \A i, j \in 1..n : i < j => f[i] < f[j],
         \A t \in T : \E i \in 1..n : f[i] = t,
         NEW x \in Nat, 1..x \subseteq T,
         NEW i \in 1..n, f[i] > x
  PROVE  i > x
  <1> SUFFICES ASSUME i <= x PROVE FALSE
    OBVIOUS
  <1> DEFINE g == [q \in 1..x |-> CHOOSE j \in 1..n : f[j] = q]
  <1>1. ASSUME NEW q \in 1..x PROVE g[q] \in 1..(i - 1) /\ f[g[q]] = q
    <2>1. g[q] \in 1..n /\ f[g[q]] = q
      OBVIOUS
    <2> HIDE DEF g
    <2>2. g[q] # i
      BY <2>1
    <2>3. ~(i < g[q])
      <3> SUFFICES ASSUME i < g[q] PROVE FALSE
        OBVIOUS
      <3>1. f[i] < f[g[q]]
        BY <2>1
      <3>2. f[i] > x /\ q <= x /\ q \in Nat
        OBVIOUS
      <3>3. f[i] \in T /\ T \subseteq Nat
        OBVIOUS
      <3>4. f[i] \in Nat /\ x \in Nat
        BY <3>3
      <3> QED BY <2>1, <3>1, <3>2, <3>4
    <2> QED BY <2>1, <2>2, <2>3
  <1>2. g \in [1..x -> 1..(i - 1)]
    BY <1>1
  <1> HIDE DEF g
  <1>3. /\ IsFiniteSet(1..x) /\ Cardinality(1..x) = x
        /\ IsFiniteSet(1..(i - 1)) /\ Cardinality(1..(i - 1)) = i - 1
    BY FS_Interval
  <1>5. Cardinality(1..(i - 1)) < Cardinality(1..x)
    BY <1>3
  <1>4. PICK p, q \in 1..x : p # q /\ g[p] = g[q]
    <2> DEFINE S == 1..x
               P == 1..(i - 1)
    <2>1. IsFiniteSet(S) /\ IsFiniteSet(P) /\ Cardinality(P) < Cardinality(S) /\ g \in [S -> P]
      BY <1>2, <1>3, <1>5
    <2> HIDE DEF S, P
    <2>2. \E p, q \in S : p # q /\ g[p] = g[q]
      BY <2>1, FS_PigeonHole
    <2> QED BY <2>2 DEF S
  <1> QED BY <1>1, <1>4

(* A new id in the dict: the entries are those there were and the new one, *)
(* each in one place, and unless holes behind an iteration were closed,    *)
(* what was ahead of it is ahead still.                                    *)
LEMMA InsertStep ==
  ASSUME TypeOK, NEW k \in Key, filed[k] = 0, Insert(k)
  PROVE  /\ order' \in Seq(Key \cup {Hole}) /\ room' \in Nat
         /\ \A h \in Key : (\E i \in DOMAIN order' : order'[i] = h)
                           <=> (h = k \/ \E i \in DOMAIN order : order[i] = h)
         /\ \A i, j \in DOMAIN order' : (order'[i] = order'[j] /\ order'[i] # Hole) => i = j
         /\ \E b \in BOOLEAN :
              /\ b => cast.on
              /\ cast.shifted => b
              /\ cast' = [cast EXCEPT !.due = StillDue, !.shifted = b]
              /\ b \/ \A i \in DOMAIN order :
                       (i > cast.ix /\ order[i] # Hole /\ cast.on)
                         => \E j \in DOMAIN order' : j > cast.ix /\ order'[j] = order[i]
  <1>0. /\ order \in Seq(Key \cup {Hole}) /\ DOMAIN order = 1..Len(order) /\ Len(order) \in Nat
        /\ k \in Key \cup {Hole} /\ k # Hole /\ room \in Nat
        /\ \A i \in DOMAIN order : order[i] \in Key \cup {Hole} /\ order[i] # k
        /\ \A i, j \in DOMAIN order : (order[i] = order[j] /\ order[i] # Hole) => i = j
    BY ElementOfSeq, LenProperties, ChannelAssumption DEF TypeOK
  <1>1. CASE Len(order) < room
    <2>1. order' = Append(order, k) /\ cast' = [cast EXCEPT !.due = StillDue] /\ room' = room
      BY <1>0, <1>1 DEF Insert
    <2>2. /\ order' \in Seq(Key \cup {Hole}) /\ Len(order') = Len(order) + 1
          /\ \A i \in 1..Len(order) : order'[i] = order[i]
          /\ order'[Len(order) + 1] = k
      BY <1>0, <2>1, AppendProperties
    <2>3. DOMAIN order' = 1..(Len(order) + 1)
      BY <2>2, LenProperties
    <2>4. cast.shifted \in BOOLEAN /\ (cast.shifted => cast.on)
          /\ cast' = [cast EXCEPT !.due = StillDue, !.shifted = cast.shifted]
      BY <2>1, DueAlone
    <2>5. \A h \in Key : (\E i \in DOMAIN order' : order'[i] = h)
                           <=> (h = k \/ \E i \in DOMAIN order : order[i] = h)
      BY <1>0, <2>2, <2>3
    <2>6. \A i, j \in DOMAIN order' : (order'[i] = order'[j] /\ order'[i] # Hole) => i = j
      BY <1>0, <2>2, <2>3
    <2>7. \A i \in DOMAIN order : i \in DOMAIN order' /\ order'[i] = order[i]
      BY <1>0, <2>2, <2>3
    <2> QED BY <1>0, <2>1, <2>2, <2>4, <2>5, <2>6, <2>7
  <1>2. CASE Len(order) >= room
    <2> DEFINE n == Cardinality(Taken)
    <2>0. ~(Len(order) < room)
      BY <1>0, <1>2
    <2>1. PICK f \in [1..n -> Taken] :
            /\ \A i, j \in DOMAIN f : i < j => f[i] < f[j]
            /\ order' = Append([i \in DOMAIN f |-> order[f[i]]], k)
      BY <2>0, Zenon DEF Insert
    <2>2. /\ room' = Room(n)
          /\ cast' = [cast EXCEPT !.due = StillDue,
                                  !.shifted = cast.on /\ (cast.shifted \/ Shifts # {})]
      BY <2>0 DEF Insert
    <2>3. Taken \in SUBSET (1..Len(order)) /\ IsFiniteSet(Taken) /\ n \in Nat
      <3>1. Taken \in SUBSET (1..Len(order))
        BY <1>0 DEF Taken
      <3>2. IsFiniteSet(1..Len(order))
        <4>1. 1 \in Int /\ Len(order) \in Int
          BY <1>0
        <4> QED BY <4>1, FS_Interval
      <3>3. IsFiniteSet(Taken)
        BY <3>1, <3>2, FS_Subset
      <3> QED BY <3>1, <3>3, FS_CardinalityType
    <2>4. n <= Cardinality(Key) /\ Cardinality(Key) \in Nat
      <3> DEFINE e == [i \in Taken |-> order[i]]
      <3>1. e \in [Taken -> Key] /\ \A i, j \in Taken : e[i] = e[j] => i = j
        BY <1>0 DEF Taken
      <3>2. e \in Injection(Taken, Key)
        BY <3>1, Fun_IsInj
      <3> QED BY <3>2, ChannelAssumption, FS_Injection, FS_CardinalityType
    <2>5. room' \in Nat
      BY <2>2, <2>3, <2>4, ChannelAssumption
    <2> HIDE DEF n
    <2>6. DOMAIN f = 1..n /\ \A i \in 1..n : f[i] \in Taken
      BY <2>1
    <2>7. \A i, j \in 1..n : f[i] = f[j] => i = j
      <3> SUFFICES ASSUME NEW i \in 1..n, NEW j \in 1..n, f[i] = f[j], i # j PROVE FALSE
        OBVIOUS
      <3>1. f[i] \in Nat /\ f[j] \in Nat
        <4>1. f[i] \in Taken /\ f[j] \in Taken
          BY <2>6
        <4>2. \A t \in Taken : t \in Nat
          BY <2>3
        <4> QED BY <4>1, <4>2, Zenon
      <3>2. CASE i < j
        BY <2>1, <2>6, <3>1, <3>2
      <3>3. CASE j < i
        BY <2>1, <2>6, <3>1, <3>3
      <3> QED BY <2>3, <3>2, <3>3
    <2>8. \A t \in Taken : \E i \in 1..n : f[i] = t
      <3>1. f \in Injection(1..n, Taken)
        BY <2>1, <2>7, Fun_IsInj
      <3>2. Cardinality(1..n) = Cardinality(Taken)
        BY <2>3, FS_Interval DEF n
      <3>4. IsFiniteSet(1..n)
        BY <2>3, FS_Interval
      <3>3. f \in Surjection(1..n, Taken)
        BY <2>3, <3>1, <3>2, <3>4, FS_Injection
      <3> QED BY <3>3 DEF Surjection
    <2> DEFINE c == [i \in 1..n |-> order[f[i]]]
    <2>9. /\ c \in Seq(Key \cup {Hole}) /\ Len(c) = n
          /\ \A i \in 1..n : c[i] = order[f[i]] /\ c[i] # Hole /\ c[i] # k
      <3>1. \A i \in 1..n : order[f[i]] \in Key \cup {Hole} /\ order[f[i]] # Hole /\ order[f[i]] # k
        BY <1>0, <2>6 DEF Taken
      <3>2. c \in [1..n -> Key \cup {Hole}]
        BY <3>1
      <3>3. c \in Seq(Key \cup {Hole})
        BY <2>3, <3>2, IsASeq
      <3>4. Len(c) = n
        BY <2>3, <3>2, <3>3, LenProperties
      <3> QED BY <3>1, <3>3, <3>4
    <2>10. order' = Append(c, k)
      BY <2>1, <2>6
    <2> HIDE DEF c
    <2>11. /\ order' \in Seq(Key \cup {Hole}) /\ Len(order') = n + 1
           /\ \A i \in 1..n : order'[i] = order[f[i]] /\ order'[i] # Hole /\ order'[i] # k
           /\ order'[n + 1] = k
      BY <1>0, <2>9, <2>10, AppendProperties
    <2>12. DOMAIN order' = 1..(n + 1)
      BY <2>11, LenProperties
    <2>13. \A h \in Key : (\E i \in DOMAIN order' : order'[i] = h)
                           <=> (h = k \/ \E i \in DOMAIN order : order[i] = h)
      <3> SUFFICES ASSUME NEW h \in Key, h # k
                   PROVE  (\E i \in DOMAIN order' : order'[i] = h)
                           <=> (\E i \in DOMAIN order : order[i] = h)
        BY <2>3, <2>11, <2>12
      <3>1. ASSUME NEW i \in DOMAIN order', order'[i] = h PROVE \E j \in DOMAIN order : order[j] = h
        <4>1. i \in 1..n
          BY <3>1, <2>3, <2>11, <2>12
        <4> QED BY <4>1, <3>1, <2>6, <2>11 DEF Taken
      <3>2. ASSUME NEW j \in DOMAIN order, order[j] = h PROVE \E i \in DOMAIN order' : order'[i] = h
        <4>1. j \in Taken
          BY <3>2, ChannelAssumption DEF Taken
        <4>2. PICK i \in 1..n : f[i] = j
          BY <4>1, <2>8
        <4> QED BY <3>2, <4>2, <2>3, <2>11, <2>12
      <3> QED BY <3>1, <3>2
    <2>14. \A i, j \in DOMAIN order' : (order'[i] = order'[j] /\ order'[i] # Hole) => i = j
      <3> SUFFICES ASSUME NEW i \in DOMAIN order', NEW j \in DOMAIN order', order'[i] = order'[j]
                   PROVE  i = j
        OBVIOUS
      <3>1. CASE i \in 1..n /\ j \in 1..n
        <4>1. order[f[i]] = order[f[j]] /\ f[i] \in DOMAIN order /\ f[j] \in DOMAIN order
              /\ order[f[i]] # Hole
          BY <3>1, <2>6, <2>11 DEF Taken
        <4>2. f[i] = f[j]
          BY <4>1, <1>0
        <4> QED BY <3>1, <4>2, <2>7
      <3>2. CASE ~(i \in 1..n /\ j \in 1..n)
        BY <3>2, <2>3, <2>11, <2>12
      <3> QED BY <3>1, <3>2
    <2> DEFINE closed == cast.on /\ (cast.shifted \/ Shifts # {})
    <2>15. closed \in BOOLEAN /\ (closed => cast.on) /\ (cast.shifted => closed)
      <3>1. cast.shifted => cast.on
        BY DueAlone
      <3>2. cast.on \in BOOLEAN
        <4>1. NoCast.on \in BOOLEAN
          BY DEF NoCast
        <4>2. ASSUME cast \in Cast PROVE cast.on \in BOOLEAN
          BY <4>2 DEF Cast
        <4> QED BY <4>1, <4>2 DEF TypeOK
      <3> QED BY <3>1, <3>2, Zenon
    <2>16. ASSUME ~closed, NEW i \in DOMAIN order, i > cast.ix, order[i] # Hole, cast.on
           PROVE  \E j \in DOMAIN order' : j > cast.ix /\ order'[j] = order[i]
      <3>1. Shifts = {} /\ cast.ix \in Nat
        BY <2>16, CastFields
      <3>2. 1..cast.ix \subseteq Taken
        BY <1>0, <2>16, <3>1 DEF Shifts, Taken
      <3>3. i \in Taken
        BY <2>16 DEF Taken
      <3>4. PICK j \in 1..n : f[j] = i
        BY <3>3, <2>8
      <3>5. Taken \subseteq Nat /\ \A p, q \in 1..n : p < q => f[p] < f[q]
        BY <2>1, <2>3, <2>6
      <3>6. f[j] > cast.ix
        BY <3>4, <2>16
      <3>7. f \in [1..n -> Taken] /\ n \in Nat /\ \A t \in Taken : \E p \in 1..n : f[p] = t
        BY <2>1, <2>3, <2>8
      <3>8. Taken \subseteq Nat /\ j \in 1..n /\ cast.ix \in Nat
        BY <3>1, <3>4, <3>5
      <3>9. j > cast.ix
        BY <3>2, <3>5, <3>6, <3>7, <3>8, StaysAhead
      <3> QED BY <3>4, <3>9, <2>3, <2>11, <2>12
    <2>17. cast' = [cast EXCEPT !.due = StillDue, !.shifted = closed]
      BY <2>2
    <2> HIDE DEF closed
    <2>18. closed \/ \A i \in DOMAIN order :
                  (i > cast.ix /\ order[i] # Hole /\ cast.on)
                    => \E j \in DOMAIN order' : j > cast.ix /\ order'[j] = order[i]
      BY <2>16
    <2>19. \E b \in BOOLEAN :
              /\ b => cast.on
              /\ cast.shifted => b
              /\ cast' = [cast EXCEPT !.due = StillDue, !.shifted = b]
              /\ b \/ \A i \in DOMAIN order :
                       (i > cast.ix /\ order[i] # Hole /\ cast.on)
                         => \E j \in DOMAIN order' : j > cast.ix /\ order'[j] = order[i]
      BY <2>15, <2>17, <2>18, Zenon
    <2>20. order' \in Seq(Key \cup {Hole})
      BY <2>11
    <2> QED BY <2>5, <2>13, <2>14, <2>19, <2>20, Zenon
  <1>3. Len(order) < room \/ Len(order) >= room
    BY <1>0
  <1> QED BY <1>1, <1>2, <1>3, Zenon

(* A connection is filed once the server has accepted it. *)
LEMMA AcceptedStep ==
  ASSUME IInv, NEW c \in DOMAIN conn, Accepted(c)
  PROVE  IInv'
  <1> DEFINE k == KeyIn(c)
  <1>0. conn \in Seq(Conn) /\ DOMAIN conn = 1..Len(conn) /\ Len(conn) \in Nat /\ k \in Key
    BY KeyType, LenProperties DEF IInv, TypeOK
  <1>1. /\ conn' \in Seq(Conn) /\ Len(conn') = Len(conn) /\ DOMAIN conn' = DOMAIN conn
        /\ \A e \in DOMAIN conn : /\ conn'[e].agent = conn[e].agent
                                  /\ conn'[e].open = conn[e].open
                                  /\ e # c => conn'[e] = conn[e]
        /\ conn[c].handler = "accepting" /\ conn'[c].handler = "serving"
    <2>1. conn' = [conn EXCEPT ![c].handler = "serving"] /\ conn[c].handler = "accepting"
      BY DEF Accepted
    <2>2. conn[c] \in Conn
      BY <1>0, ElementOfSeq
    <2>3. conn' = [conn EXCEPT ![c] = [conn[c] EXCEPT !.handler = "serving"]]
          /\ [conn[c] EXCEPT !.handler = "serving"] \in Conn
      BY <2>1, <2>2 DEF Conn
    <2>4. conn' \in Seq(Conn) /\ Len(conn') = Len(conn)
      BY <1>0, <2>3, ExceptSeq
    <2> QED BY <1>0, <2>1, <2>2, <2>3, <2>4, LenProperties DEF Conn
  <1>2. \A e \in DOMAIN conn : KeyIn(e)' = KeyIn(e) /\ KeyIn(e) \in Key
    BY <1>1, KeyType DEF KeyIn, IInv
  <1>3. filed' = [filed EXCEPT ![k] = c] /\ filed \in [Key -> {0} \cup DOMAIN conn]
    BY DEF Accepted, IInv, TypeOK
  <1>4. /\ order' \in Seq(Key \cup {Hole}) /\ room' \in Nat
        /\ \A h \in Key : filed'[h] # 0 <=> \E i \in DOMAIN order' : order'[i] = h
        /\ \A i, j \in DOMAIN order' : (order'[i] = order'[j] /\ order'[i] # Hole) => i = j
        /\ \E b \in BOOLEAN :
             /\ b => cast.on
             /\ cast.shifted => b
             /\ cast' = [cast EXCEPT !.due = StillDue, !.shifted = b]
             /\ b \/ \A i \in DOMAIN order :
                      (i > cast.ix /\ order[i] # Hole /\ cast.on)
                        => \E j \in DOMAIN order' : j > cast.ix /\ order'[j] = order[i]
    <2>0. c # 0 /\ \A h \in Key : filed[h] # 0 <=> \E i \in DOMAIN order : order[i] = h
      BY <1>0 DEF IInv, TypeOK
    <2>1. \A h \in Key : filed'[h] # 0 <=> (h = k \/ filed[h] # 0)
      BY <1>0, <1>3, <2>0
    <2>2. CASE filed[k] = 0
      <3>1. Insert(k)
        BY <2>2 DEF Accepted
      <3>2. TypeOK
        BY DEF IInv
      <3> HIDE DEF k
      <3>3. \A h \in Key : (\E i \in DOMAIN order' : order'[i] = h)
                           <=> (h = k \/ \E i \in DOMAIN order : order[i] = h)
        BY <1>0, <2>2, <3>1, <3>2, InsertStep
      <3>4. \A h \in Key : filed'[h] # 0 <=> \E i \in DOMAIN order' : order'[i] = h
        BY <2>0, <2>1, <3>3
      <3> QED BY <1>0, <2>2, <3>1, <3>2, <3>4, InsertStep
    <2>3. CASE filed[k] # 0
      <3>1. order' = order /\ room' = room /\ cast' = [cast EXCEPT !.due = StillDue]
        BY <2>3 DEF Accepted
      <3>2. cast' = [cast EXCEPT !.due = StillDue, !.shifted = cast.shifted]
            /\ cast.shifted \in BOOLEAN /\ (cast.shifted => cast.on)
        BY <3>1, DueAlone DEF IInv
      <3>3. \A h \in Key : filed'[h] # 0 <=> \E i \in DOMAIN order' : order'[i] = h
        BY <2>0, <2>1, <2>3, <3>1
      <3>4. /\ order' \in Seq(Key \cup {Hole}) /\ room' \in Nat
            /\ \A i, j \in DOMAIN order' : (order'[i] = order'[j] /\ order'[i] # Hole) => i = j
        BY <3>1 DEF IInv, TypeOK
      <3> QED BY <3>1, <3>2, <3>3, <3>4
    <2> QED BY <2>2, <2>3
  <1>5. PICK b \in BOOLEAN :
          /\ b => cast.on
          /\ cast.shifted => b
          /\ cast' = [cast EXCEPT !.due = StillDue, !.shifted = b]
          /\ b \/ \A i \in DOMAIN order :
                   (i > cast.ix /\ order[i] # Hole /\ cast.on)
                     => \E j \in DOMAIN order' : j > cast.ix /\ order'[j] = order[i]
    BY <1>4
  <1>11. StillDue \in SUBSET cast.due /\ link' = link /\ post' = post
    BY DEF Accepted, StillDue
  <1> HIDE DEF k
  <1>6. TypeOK'
    <2>1. filed' \in [Key -> {0} \cup DOMAIN conn'] /\ link' \in [Agent -> {Waiting} \cup DOMAIN conn']
      BY <1>0, <1>1, <1>3, <1>11 DEF IInv, TypeOK
    <2>2. post' = NoPost \/ post' \in Post'
      BY <1>1, <1>11 DEF IInv, TypeOK, Post
    <2>3. cast' = NoCast \/ cast' \in Cast'
      <3>1. cast' = NoCast \/ cast' \in Cast
        BY <1>5, <1>11, CastShrinks DEF IInv, TypeOK
      <3> QED BY <3>1, <1>1 DEF Cast
    <2>4. Len(conn') <= MaxConn
      BY <1>1 DEF IInv, TypeOK
    <2> QED BY <1>1, <1>4, <2>1, <2>2, <2>3, <2>4 DEF TypeOK
  <1>7. FiledIsServed'
    BY <1>0, <1>1, <1>2, <1>3 DEF IInv, FiledIsServed, Entries, k
  <1>8. OnlyRivalsUnfile'
    BY <1>0, <1>1, <1>2, <1>3 DEF IInv, OnlyRivalsUnfile, k
  <1>9. PostInv'
    BY <1>2, <1>11 DEF IInv, TypeOK, PostInv, Post
  <1>10. CastInv'
    <2> SUFFICES ASSUME cast'.on PROVE CastInv'
      BY DEF CastInv
    <2>1. /\ cast.on /\ cast.to \in DOMAIN conn /\ cast.due \subseteq DOMAIN conn
          /\ cast'.to = cast.to /\ cast'.ix = cast.ix /\ cast'.key = cast.key
          /\ cast'.failed = cast.failed /\ cast'.due = StillDue /\ cast'.shifted = b
      <3>1. TypeOK
        BY DEF IInv
      <3>2. /\ cast'.on = cast.on /\ cast'.to = cast.to /\ cast'.ix = cast.ix /\ cast'.key = cast.key
            /\ cast'.failed = cast.failed /\ cast'.due = StillDue /\ cast'.shifted = b
        BY <3>1, <1>5, <1>11, CastShrinks
      <3> QED BY <3>1, <3>2, CastFields
    <2>2. ASSUME NEW d \in StillDue PROVE DueInv(d)'
      <3>1. d \in cast.due /\ d \in DOMAIN conn /\ DueInv(d)
        BY <2>1 DEF StillDue, IInv, CastInv
      <3>2. filed[KeyIn(d)] = d /\ d # 0
        BY <3>1, <1>0 DEF DueInv
      <3>3. d # c
        BY <3>2, <1>1, <1>2, <3>1 DEF IInv, FiledIsServed, Entries
      <3>4. KeyIn(d) # k
        <4>1. PICK h \in Key : filed'[h] = d
          BY DEF StillDue
        <4>2. h # k /\ filed[h] = d
          BY <4>1, <3>3, <1>3
        <4> QED BY <4>2, <3>2 DEF IInv, FiledIsServed, Entries
      <3>5. filed'[KeyIn(d)] = d
        BY <3>2, <3>4, <1>3
      <3>6. b \/ d = cast.to \/ \E i \in DOMAIN order' : i > cast.ix /\ order'[i] = KeyIn(d)
        <4> SUFFICES ASSUME ~b, d # cast.to
                     PROVE  \E i \in DOMAIN order' : i > cast.ix /\ order'[i] = KeyIn(d)
          OBVIOUS
        <4>1. PICK i \in DOMAIN order : i > cast.ix /\ order[i] = KeyIn(d)
          BY <3>1, <1>5 DEF DueInv
        <4>2. order[i] # Hole
          BY <4>1, <3>1, <1>2, ChannelAssumption
        <4> QED BY <4>1, <4>2, <1>5, <2>1
      <3> QED BY <3>1, <3>5, <3>6, <1>2, <2>1 DEF DueInv
    <2> QED BY <1>1, <1>2, <2>1, <2>2 DEF IInv, CastInv
  <1> QED BY <1>6, <1>7, <1>8, <1>9, <1>10 DEF IInv

State == [on : {TRUE}, ix : Nat, size : Nat, more : Nat, key : Key \cup {Hole},
          to : {0} \cup DOMAIN conn, failed : SUBSET Key, due : SUBSET DOMAIN conn,
          shifted : BOOLEAN]

(* A broadcast goes on from a state that is like the one it is in, or that *)
(* it begins with: what is due is ahead, or is taken in hand.              *)
LEMMA GoesOnStep ==
  ASSUME IInv, NEW state, GoesOn(state), UNCHANGED <<conn, link, post>>,
         state \in State,
         \A k \in state.failed : \E e \in DOMAIN conn : KeyIn(e) = k /\ ~conn[e].open,
         \A c \in state.due :
           /\ filed[KeyIn(c)] = c
           /\ state.shifted \/ \E i \in DOMAIN order : i > state.ix /\ order[i] = KeyIn(c)
  PROVE  IInv'
  <1>0. /\ conn \in Seq(Conn) /\ DOMAIN conn = 1..Len(conn) /\ Len(conn) \in Nat
        /\ order \in Seq(Key \cup {Hole}) /\ DOMAIN order = 1..Len(order) /\ Len(order) \in Nat
    BY LenProperties DEF IInv, TypeOK
  <1>1. ASSUME NEW i \in Left(state.ix), \A j \in Left(state.ix) : i <= j,
               ~Raises(state),
               cast' = [state EXCEPT !.ix = i, !.more = @ - 1,
                                     !.key = order[i], !.to = filed[order[i]]],
               UNCHANGED <<filed, order, room>>
        PROVE  IInv'
    <2>1. i \in DOMAIN order /\ order[i] \in Key /\ filed[order[i]] \in DOMAIN conn
          /\ filed[order[i]] # 0
      <3>1. i \in DOMAIN order /\ order[i] # Hole
        BY <1>1 DEF Left
      <3>2. order[i] \in Key
        BY <3>1, <1>0, ElementOfSeq
      <3> QED BY <3>1, <3>2 DEF IInv, TypeOK
    <2>2. /\ cast' \in Cast /\ cast'.ix = i /\ cast'.key = order[i] /\ cast'.to = filed[order[i]]
          /\ cast'.failed = state.failed /\ cast'.due = state.due /\ cast'.shifted = state.shifted
      <3>1. state.more # 0 /\ state.more \in Nat /\ i \in Nat
        BY <1>0, <1>1, <2>1 DEF Raises, State
      <3>2. state.more - 1 \in Nat
        BY <3>1
      <3> QED BY <1>1, <2>1, <3>1, <3>2 DEF Cast, State
    <2>3. TypeOK'
      <3>1. Cast' = Cast /\ Post' = Post
        BY <1>1 DEF Cast, Post
      <3> QED BY <1>1, <2>2, <3>1, SMTT(20) DEF IInv, TypeOK
    <2>4. FiledIsServed' /\ OnlyRivalsUnfile' /\ PostInv'
      BY <1>1 DEF IInv, FiledIsServed, OnlyRivalsUnfile, PostInv, Entries, KeyIn
    <2>5. CastInv'
      <3>1. KeyIn(cast'.to) = order[i]
        BY <2>1, <2>2 DEF IInv, FiledIsServed, Entries
      <3>2. ASSUME NEW c \in state.due, ~state.shifted PROVE DueInv(c)'
        <4>1. PICK j \in DOMAIN order : j > state.ix /\ order[j] = KeyIn(c)
          BY <3>2
        <4>2. c \in DOMAIN conn /\ KeyIn(c) \in Key /\ filed[KeyIn(c)] = c
          BY KeyType DEF IInv, State
        <4>3. j \in Left(state.ix) /\ i <= j /\ j \in Int /\ i \in Int
          BY <4>1, <4>2, <1>0, <1>1, <2>1, ChannelAssumption DEF Left
        <4>4. j = i => c = cast'.to
          BY <4>1, <4>2, <2>2
        <4>5. j # i => j > cast'.ix
          BY <4>3, <2>2
        <4> QED BY <1>1, <4>1, <4>2, <4>4, <4>5 DEF DueInv, KeyIn
      <3>3. ASSUME NEW c \in state.due, state.shifted PROVE DueInv(c)'
        BY <3>3, <1>1, <2>2 DEF DueInv, KeyIn
      <3> QED BY <3>1, <3>2, <3>3, <2>2, <1>1 DEF CastInv, KeyIn
    <2> QED BY <2>3, <2>4, <2>5 DEF IInv
  <1>2. ASSUME Drop(state.failed), cast' = NoCast PROVE IInv'
    BY <1>0, <1>2, Dropped DEF IInv, TypeOK, State
  <1>3. ASSUME cast' = NoCast, UNCHANGED <<filed, order, room>> PROVE IInv'
    <2>1. ~NoCast.on
      BY DEF NoCast
    <2> QED BY <1>3, <2>1 DEF IInv, TypeOK, Post, FiledIsServed, OnlyRivalsUnfile, PostInv, CastInv,
                              Entries, KeyIn
  <1> QED BY <1>1, <1>2, <1>3 DEF GoesOn

(* Every step keeps the invariant. *)
LEMMA StepInv == IInv /\ [Next]_vars => IInv'
  <1> SUFFICES ASSUME IInv, [Next]_vars PROVE IInv'
    OBVIOUS
  <1>0. conn \in Seq(Conn) /\ DOMAIN conn = 1..Len(conn) /\ Len(conn) \in Nat /\ Len(conn) <= MaxConn
    BY LenProperties DEF IInv, TypeOK
  <1>1. CASE UNCHANGED vars
    <2>1. IInv' <=> IInv
      BY <1>1 DEF vars, IInv, TypeOK, Post, Cast, FiledIsServed, OnlyRivalsUnfile, PostInv, CastInv,
                  DueInv, Entries, KeyIn
    <2> QED BY <2>1
  <1>2. ASSUME NEW a \in Agent, Connect(a) PROVE IInv'
    <2> DEFINE n == [agent |-> a, open |-> TRUE, handler |-> "accepting"]
    <2>1. n \in Conn /\ conn' = Append(conn, n) /\ Len(conn) < MaxConn
      BY <1>2 DEF Connect, Conn
    <2>2. /\ conn' \in Seq(Conn) /\ Len(conn') = Len(conn) + 1
          /\ \A c \in 1..Len(conn) : conn'[c] = conn[c]
          /\ conn'[Len(conn) + 1] = n
      BY <1>0, <2>1, AppendProperties
    <2>3. DOMAIN conn' = 1..(Len(conn) + 1) /\ n.handler = "accepting"
      BY <2>2, LenProperties
    <2> HIDE DEF n
    <2>4. link' \in [Agent -> {Waiting} \cup DOMAIN conn'] /\ UNCHANGED <<filed, order, room, post, cast>>
      BY <1>0, <1>2, <2>2, <2>3 DEF Connect, IInv, TypeOK
    <2>5. Len(conn') <= MaxConn
      BY <1>0, <2>1, <2>2, ChannelAssumption
    <2> QED BY <1>0, <2>2, <2>3, <2>4, <2>5, ConnChanges
  <1>3. ASSUME NEW c \in DOMAIN conn, NEW new \in Conn, conn' = [conn EXCEPT ![c] = new],
               new.agent = conn[c].agent, new.open => conn[c].open,
               new.handler = "serving" <=> conn[c].handler = "serving",
               link' \in [Agent -> {Waiting} \cup DOMAIN conn], UNCHANGED <<filed, order, room, post, cast>>
        PROVE  IInv'
    <2>1. /\ conn' \in Seq(Conn) /\ Len(conn') = Len(conn)
          /\ \A e \in 1..Len(conn) : conn'[e] = IF e = c THEN new ELSE conn[e]
      BY <1>0, <1>3, ExceptSeq
    <2>2. DOMAIN conn' = DOMAIN conn
      BY <1>0, <2>1, LenProperties
    <2> QED BY <1>0, <1>3, <2>1, <2>2, ConnChanges
  <1>4. ASSUME NEW a \in Agent, Breaks(a) PROVE IInv'
    <2> DEFINE c == link[a]
               new == [conn[c] EXCEPT !.open = FALSE]
    <2>1. c \in DOMAIN conn
      BY <1>4 DEF Breaks, IInv, TypeOK, Waiting
    <2>2. conn[c] \in Conn
      BY <1>0, <2>1, ElementOfSeq
    <2>3. new \in Conn /\ new.agent = conn[c].agent /\ ~new.open /\ new.handler = conn[c].handler
      BY <2>2 DEF Conn
    <2>4. conn' = [conn EXCEPT ![c] = new] /\ UNCHANGED <<filed, order, room, post, cast>>
      BY <1>4 DEF Breaks
    <2>5. link' \in [Agent -> {Waiting} \cup DOMAIN conn]
      BY <1>4 DEF Breaks, IInv, TypeOK
    <2> HIDE DEF c, new
    <2> QED BY <2>1, <2>3, <2>4, <2>5, <1>3
  <1>5. ASSUME NEW c \in DOMAIN conn, AcceptFails(c) PROVE IInv'
    <2> DEFINE new == [conn[c] EXCEPT !.handler = "ended"]
    <2>1. conn[c] \in Conn /\ conn[c].handler = "accepting"
      BY <1>0, <1>5, ElementOfSeq DEF AcceptFails
    <2>2. new \in Conn /\ new.agent = conn[c].agent /\ new.open = conn[c].open /\ new.handler = "ended"
      BY <2>1 DEF Conn
    <2>3. conn' = [conn EXCEPT ![c] = new] /\ UNCHANGED <<filed, order, room, post, cast>>
      BY <1>5 DEF AcceptFails
    <2>4. link' \in [Agent -> {Waiting} \cup DOMAIN conn]
      BY <1>5 DEF AcceptFails, IInv, TypeOK
    <2> HIDE DEF new
    <2> QED BY <2>1, <2>2, <2>3, <2>4, <1>3
  <1>6. ASSUME NEW c \in DOMAIN conn, Accepted(c) PROVE IInv'
    BY <1>6, AcceptedStep
  <1>7. ASSUME NEW c \in DOMAIN conn, Ended(c) PROVE IInv'
    <2> DEFINE new == [conn[c] EXCEPT !.handler = "ended"]
               keys == {KeyIn(c)}
    <2>1. conn[c] \in Conn /\ ~conn[c].open /\ keys \in SUBSET Key
      BY <1>0, <1>7, ElementOfSeq, KeyType DEF Ended, IInv
    <2>2. new \in Conn /\ new.agent = conn[c].agent /\ new.open = conn[c].open /\ new.handler = "ended"
      BY <2>1 DEF Conn
    <2>3. /\ conn' = [conn EXCEPT ![c] = new] /\ Drop(keys) /\ UNCHANGED <<link, post>>
          /\ cast' = [cast EXCEPT !.due = StillDue]
      BY <1>7 DEF Ended
    <2>4. \A k \in keys : \E e \in DOMAIN conn : KeyIn(e) = k /\ ~conn[e].open
      BY <2>1
    <2>5. KeyIn(c) \in keys
      OBVIOUS
    <2> HIDE DEF new, keys
    <2>6. /\ conn' \in Seq(Conn) /\ Len(conn') = Len(conn)
          /\ \A e \in 1..Len(conn) : conn'[e] = IF e = c THEN new ELSE conn[e]
      BY <1>0, <2>2, <2>3, ExceptSeq
    <2>7. DOMAIN conn' = DOMAIN conn
      BY <1>0, <2>6, LenProperties
    <2> QED BY <1>0, <2>1, <2>2, <2>3, <2>4, <2>5, <2>6, <2>7, Dropped
  <1>8. ASSUME NEW k \in Key, Send(k) PROVE IInv'
    <2>1. filed[k] \in DOMAIN conn /\ KeyIn(filed[k]) = k
      BY <1>8 DEF Send, Entries, IInv, TypeOK, FiledIsServed
    <2>2. /\ post' = [key |-> k, to |-> filed[k]] /\ UNCHANGED <<conn, link, filed, order, room, cast>>
          /\ post' \in Post /\ post'.key = k /\ post'.to = filed[k]
      BY <1>8, <2>1 DEF Send, Post
    <2>3. TypeOK'
      BY <2>2 DEF IInv, TypeOK, Post, Cast
    <2> QED BY <2>1, <2>2, <2>3 DEF IInv, FiledIsServed, OnlyRivalsUnfile, PostInv, CastInv, DueInv,
                                    Entries, KeyIn
  <1>9. CASE Sent
    <2>1. post' = NoPost /\ UNCHANGED <<conn, link, filed, order, room, cast>>
      BY <1>9 DEF Sent
    <2>2. TypeOK'
      BY <2>1 DEF IInv, TypeOK, Cast
    <2> QED BY <2>1, <2>2 DEF IInv, FiledIsServed, OnlyRivalsUnfile, PostInv, CastInv, DueInv,
                              Entries, KeyIn
  <1>10. CASE SendFails
    <2>1. post \in Post /\ ~conn[post.to].open /\ KeyIn(post.to) = post.key
      BY <1>10 DEF SendFails, MayFail, IInv, TypeOK, PostInv
    <2>2. post.to \in DOMAIN conn /\ post.key \in Key
      BY <2>1 DEF Post
    <2>3. /\ Drop({post.key}) /\ post' = NoPost /\ UNCHANGED <<conn, link>>
          /\ cast' = [cast EXCEPT !.due = StillDue]
      BY <1>10 DEF SendFails
    <2> QED BY <1>0, <2>1, <2>2, <2>3, Dropped
  <1>11. CASE Broadcast
    <2> DEFINE state == [NoCast EXCEPT !.on = TRUE, !.size = Cardinality(Entries),
                                       !.more = Cardinality(Entries), !.due = {filed[k] : k \in Entries}]
    <2>1. Cardinality(Entries) \in Nat
      BY ChannelAssumption, FS_Subset, FS_CardinalityType DEF Entries
    <2>2. {filed[k] : k \in Entries} \in SUBSET DOMAIN conn
      BY DEF Entries, IInv, TypeOK
    <2>3. /\ state \in State
          /\ state.failed = {} /\ state.ix = 0 /\ state.due = {filed[k] : k \in Entries}
      BY <2>1, <2>2 DEF NoCast, State
    <2>4. \A c \in {filed[k] : k \in Entries} :
            filed[KeyIn(c)] = c /\ \E i \in DOMAIN order : i > 0 /\ order[i] = KeyIn(c)
      BY LenProperties DEF IInv, TypeOK, FiledIsServed, Entries
    <2>5. GoesOn(state) /\ UNCHANGED <<conn, link, post>>
      BY <1>11 DEF Broadcast
    <2> HIDE DEF state
    <2> QED BY <2>3, <2>4, <2>5, GoesOnStep
  <1>12. ASSUME cast.on, NEW more \in SUBSET Key, UNCHANGED <<conn, link, post>>,
                \A k \in more : \E e \in DOMAIN conn : KeyIn(e) = k /\ ~conn[e].open,
                GoesOn([cast EXCEPT !.due = @ \ {cast.to}, !.failed = @ \cup more])
         PROVE  IInv'
    <2> DEFINE state == [cast EXCEPT !.due = @ \ {cast.to}, !.failed = @ \cup more]
    <2>1. cast \in Cast
      BY <1>12, CastFields DEF IInv
    <2>2. /\ state \in State
          /\ state.failed = cast.failed \cup more /\ state.ix = cast.ix
          /\ state.due = cast.due \ {cast.to} /\ state.shifted = cast.shifted
      BY <2>1 DEF Cast, State
    <2>3. GoesOn(state)
      BY <1>12
    <2> HIDE DEF state
    <2>4. \A c \in state.due :
            /\ filed[KeyIn(c)] = c
            /\ state.shifted \/ \E i \in DOMAIN order : i > state.ix /\ order[i] = KeyIn(c)
      BY <1>12, <2>2 DEF IInv, CastInv, DueInv
    <2>5. \A k \in state.failed : \E e \in DOMAIN conn : KeyIn(e) = k /\ ~conn[e].open
      BY <1>12, <2>2 DEF IInv, CastInv
    <2> QED BY <1>12, <2>2, <2>3, <2>4, <2>5, GoesOnStep
  <1>13. CASE CastSent
    <2>1. cast.on /\ cast \in Cast
      BY <1>13, CastFields DEF CastSent, IInv
    <2>2. [cast EXCEPT !.due = @ \ {cast.to}] = [cast EXCEPT !.due = @ \ {cast.to}, !.failed = @ \cup {}]
      BY <2>1 DEF Cast
    <2>3. GoesOn([cast EXCEPT !.due = @ \ {cast.to}, !.failed = @ \cup {}])
      BY <1>13, <2>2 DEF CastSent
    <2> DEFINE none == {}
    <2>4. none \in SUBSET Key /\ \A k \in none : \E e \in DOMAIN conn : KeyIn(e) = k /\ ~conn[e].open
      OBVIOUS
    <2>5. GoesOn([cast EXCEPT !.due = @ \ {cast.to}, !.failed = @ \cup none])
      BY <2>3
    <2>6. UNCHANGED <<conn, link, post>>
      BY <1>13 DEF CastSent
    <2> HIDE DEF none
    <2> QED BY <2>1, <2>4, <2>5, <2>6, <1>12
  <1>14. CASE CastFails
    <2>1. cast.on /\ cast.key \in Key /\ cast.to \in DOMAIN conn
      BY <1>14, CastFields DEF CastFails, IInv
    <2>2. KeyIn(cast.to) = cast.key /\ ~conn[cast.to].open
      BY <1>14, <2>1 DEF CastFails, MayFail, IInv, CastInv
    <2> DEFINE one == {cast.key}
    <2>3. UNCHANGED <<conn, link, post>> /\ GoesOn([cast EXCEPT !.due = @ \ {cast.to}, !.failed = @ \cup one])
      BY <1>14 DEF CastFails
    <2>4. one \in SUBSET Key /\ \A k \in one : \E e \in DOMAIN conn : KeyIn(e) = k /\ ~conn[e].open
      BY <2>1, <2>2
    <2> HIDE DEF one
    <2> QED BY <2>1, <2>3, <2>4, <1>12
  <1> QED BY <1>1, <1>2, <1>4, <1>5, <1>6, <1>7, <1>8, <1>9, <1>10, <1>11, <1>13, <1>14 DEF Next

-----------------------------------------------------------------------------
(* The inductive invariant holds in every reachable state. *)
THEOREM Invariance == Spec => []IInv
  BY InitInv, StepInv, PTL DEF Spec

(* The registry, the dict and their users keep their types (handler.py).   *)
THEOREM TypeCorrect == Spec => []TypeOK
  BY Invariance, PTL DEF IInv

(* What is filed under an id is a connection of that id that is being      *)
(* served, so no command goes to a handler that has ended or to another    *)
(* device (handler.py:33-64).                                              *)
THEOREM RegistryIsServed == Spec => []FiledIsServed
  BY Invariance, PTL DEF IInv

(* A connected agent loses its entry only to another connection of its id  *)
(* (handler.py:33-80, main.py:203-207).                                    *)
THEOREM OnlyRivals == Spec => []OnlyRivalsUnfile
  BY Invariance, PTL DEF IInv

(* A broadcast that ends without an error has missed no connection that    *)
(* was filed all along, unless the dict closed a hole in the part it had   *)
(* passed (handler.py:66-83).                                              *)
THEOREM BroadcastIsComplete == Spec => BroadcastReachesAll
  <1> DEFINE Ends == cast.on /\ ~cast'.on /\ ~Raises(cast) /\ ~cast.shifted
             Reached == Ends => cast.due \subseteq {cast.to}
  <1>1. IInv /\ [Next]_vars => Reached
    <2> SUFFICES ASSUME IInv, [Next]_vars, Ends, NEW c \in cast.due PROVE c = cast.to
      BY DEF Ends
    <2>1. cast \in Cast
      BY CastFields DEF IInv
    <2>2. PICK state : /\ state.ix = cast.ix /\ state.size = cast.size /\ state.more = cast.more
                       /\ \A i, m, k, c2 :
                            [state EXCEPT !.ix = i, !.more = m, !.key = k, !.to = c2].on
                       /\ GoesOn(state)
      <3>1. CASE CastSent
        BY <3>1, <2>1 DEF CastSent, Cast
      <3>2. CASE CastFails
        BY <3>2, <2>1 DEF CastFails, Cast
      <3>0. cast.on /\ ~cast'.on
        BY DEF Ends
      <3>3. \A S : [cast EXCEPT !.due = S].on = cast.on
        BY <2>1 DEF Cast
      <3>4. \A S, b : [cast EXCEPT !.due = S, !.shifted = b].on = cast.on
        BY <2>1 DEF Cast
      <3>5. /\ cast' # cast /\ cast' # [cast EXCEPT !.due = StillDue]
            /\ \A b : cast' # [cast EXCEPT !.due = StillDue, !.shifted = b]
        <4>1. cast' # cast
          BY <3>0, Zenon
        <4>2. cast' # [cast EXCEPT !.due = StillDue]
          BY <3>0, <3>3, Zenon
        <4>3. ASSUME NEW b, cast' = [cast EXCEPT !.due = StillDue, !.shifted = b] PROVE FALSE
          <5>1. cast'.on = cast.on
            BY <3>4, <4>3, Zenon
          <5> QED BY <3>0, <5>1, Zenon
        <4> QED BY <4>1, <4>2, <4>3, Zenon
      <3>6. ASSUME NEW e \in DOMAIN conn, Accepted(e) PROVE FALSE
        BY <3>5, <3>6 DEF Accepted, Insert
      <3> QED
        BY <3>1, <3>2, <3>5, <3>6
        DEF Next, vars, Connect, Breaks, AcceptFails, Ended, Send, Sent, SendFails, Broadcast
    <2>3. ~Raises(state)
      BY <2>2 DEF Raises
    <2>4. Left(cast.ix) = {}
      BY <2>2, <2>3 DEF GoesOn
    <2>5. KeyIn(c) # Hole /\ DueInv(c)
      BY <2>1, KeyType, ChannelAssumption DEF IInv, CastInv, Cast
    <2> QED BY <2>4, <2>5 DEF DueInv, Left
  <1>2. IInv /\ [Next]_vars => [Reached]_vars
    BY <1>1
  <1> QED BY <1>2, Invariance, PTL DEF Spec, BroadcastReachesAll
=============================================================================
