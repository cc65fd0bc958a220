CONSTANTS
  call = call
  stream = stream
  other = other
  Me = Me
  User = {Me}
  Request <- MCRequest
  Fetch <- MCFetch
  Socket <- MCSocket
  MaxTokens = 3
SPECIFICATION DashSpec
INVARIANTS SessionGoesOn
CHECK_DEADLOCK FALSE
