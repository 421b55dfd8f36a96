SPECIFICATION Spec
CONSTANTS
  e1 = e1   h1 = h1   c1 = c1  c2 = c2  t1 = t1  t2 = t2
  n1 = n1  n2 = n2  g1 = g1  s1 = s1
  k1 = k1  k2 = k2  p1 = p1  p2 = p2  m1 = m1  m2 = m2  a1 = a1  a2 = a2
  q1 = q1  q2 = q2  r1 = r1  r2 = r2  good1 = good1  good2 = good2
  Staff = {e1}
  Handlers = {h1}
  TabsOverlap = FALSE
  RefreshTtl = 1
  MaxTokens = 3
  MaxSecrets = 2
  MaxTime = 2
  Registers = {t1, t2}
  Clerks = {c1, c2}
  OneTill = TRUE
  Sums = {2}
  MaxShifts = 2
  MaxEntries = 3
  Writers = {n1, n2}
  JoinsOverlap = FALSE
  MaxNumber = 3
  MaxAborts = 1
  Guests = {g1}
  Stations = {s1}
  Editors = {e1}
  EditsOverlap = FALSE
  Nobody = Nobody
  MaxProfiles = 3
  MaxFailures = 1
  Prices = {0, 7, 20, 150}
  Ratios = {50, 100, 133, 200}
  MinCharges = {0, 90, 500}
  MinMinutes = {0, 3}
  Step = 13
  MaxSeconds = 650
  Kiosks = {k1, k2}
  Phones = {p1, p2}
  CodeTtl = 0
  SignInTtl = 1
  MaxCodes = 2
  MaxSignIns = 2
  MaxDeeds = 1
  MaxClock = 1
  MaxRestarts = 1
  Goods = {good1, good2}
  MaxSales = 2
  MaxCharges = 2
  Managers = {m1, m2}
  Fields = {"minutes", "code"}
  Minutes = "minutes"
  Typable <- TypableInto
  MaxSaves = 2
  Programs = {q1, q2}
  MaxRuns = 3
  Askers = {a1, a2}
  LeavesEarly = FALSE
  MaxMail = 3
  Requests = {r1, r2}
  MaxVersions = 3
  MaxSignatures = 2
  Desks = {m1, m2}
  Calls = {r1, r2}
  MaxPresses = 4
  Branches = {a1, a2}
  Takings = {1}
  MaxRows = 2
  MaxMoment = 3
CHECK_DEADLOCK FALSE
INVARIANTS
  TypeOK
  CredentialsSound
  ClosedShiftSettled
  NumberedInOrder
  ProfilesInForce
  BillIsExact
  SignInsAreEarned ShownIsSignedIn
  ChargedAgainOnlyAfterGivingUp
  OwnerComesLast
  ReadIsShown
