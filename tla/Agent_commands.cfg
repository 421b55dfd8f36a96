SPECIFICATION FairSpec
CONSTANTS
  c1 = c1  c2 = c2  r1 = r1  r2 = r2
  NoRequest = NoRequest
  Computers = {c1}
  Requests = {r1, r2}
  TokenTtl = 1
  CommandTtl = 0
  Take = 1
  MaxClock = 1
  MaxTokens = 1
  MaxStarts = 2
  MaxCommands = 2
  MaxSessions = 1
  MaxLosses = 1
CHECK_DEADLOCK FALSE
INVARIANTS FirstHandledInOrder RepeatedOnlyAfterFailure
PROPERTIES EveryCommandAnswered
