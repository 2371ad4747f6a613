\* Three calls of one user, two of them for one prompt, the day turning among
\* them; no database errors and no admin.
CONSTANTS
  u1 = u1
  u2 = u2
  r1 = r1
  r2 = r2
  r3 = r3
  a1 = a1
  p1 = p1
  NoPrompt = NoPrompt
  Users = {u1}
  Requests = {r1, r2, r3}
  Admins = {}
  Endpoints = {}
  UserOf <- OneUser
  PromptOf <- TwoOfThree
  Statuses = {200}
  Costs = {1, 2}
  Deltas <- TopUp
  AllowanceInputs <- Allowances
  MaxAllowance = 2
  DefaultAllowance = 2
  InitialRows <- HalfSpent
  LastDay = 1
  DbMayFail = FALSE
SPECIFICATION Spec
INVARIANTS
  DebitsCompose
  UsageIsTodaysSpending
  ChargesAreRecorded
PROPERTIES
  LateFanOutIsFree
