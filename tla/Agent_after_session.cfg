SPECIFICATION Spec
CONSTANTS
  c1 = c1  c2 = c2  r1 = r1  r2 = r2
  NoRequest = NoRequest
  Computers = {c1}
  Requests = {r1}
  TokenTtl = 2
  CommandTtl = 1
  Take = 1
  MaxClock = 2
  MaxTokens = 2
  MaxStarts = 2
  MaxCommands = 2
  MaxSessions = 1
  MaxLosses = 1
CHECK_DEADLOCK FALSE
INVARIANT WaitsForSessionEnd
