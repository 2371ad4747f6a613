\* A block on the day after the user's last call.
CONSTANTS
  u1 = u1
  u2 = u2
  r1 = r1
  r2 = r2
  r3 = r3
  a1 = a1
  p1 = p1
  NoPrompt = NoPrompt
  Users = {u1}
  Requests = {r1}
  Admins = {a1}
  Endpoints = {"block"}
  UserOf <- OneUser
  PromptOf <- SamePromptId
  Statuses = {200}
  Costs = {1}
  Deltas <- TopUp
  AllowanceInputs <- Allowances
  MaxAllowance = 2
  DefaultAllowance = 2
  InitialRows <- Spent
  LastDay = 1
  DbMayFail = FALSE
SPECIFICATION Spec
INVARIANTS
  UsageIsTodaysSpending
