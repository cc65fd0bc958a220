SPECIFICATION FairSpec
CONSTANTS
  a1 = a1
  a2 = a2
  a3 = a3
  k1 = k1
  k2 = k2
  k3 = k3
  Agent <- MCAgent
  Key <- MCKey
  KeyOf <- MCKeyOf
  Room <- MCRoom
  MaxConn = 3
CHECK_DEADLOCK FALSE
INVARIANTS FiledIsServed OnlyRivalsUnfile
PROPERTIES BroadcastReachesAll GoneIsForgotten
