\* A fan-out, another user's call and one admin call of any kind, with database
\* errors and crashes.
CONSTANTS
  u1 = u1
  u2 = u2
  r1 = r1
  r2 = r2
  r3 = r3
  a1 = a1
  p1 = p1
  NoPrompt = NoPrompt
  Users = {u1, u2}
  Requests = {r1, r2, r3}
  Admins = {a1}
  Endpoints = {"grant", "block", "unblock", "config"}
  UserOf <- TwoUsers
  PromptOf <- SamePromptId
  Statuses = {200}
  Costs = {2}
  Deltas <- OneOff
  AllowanceInputs <- Allowances
  MaxAllowance = 2
  DefaultAllowance = 2
  InitialRows <- HalfSpent
  LastDay = 0
  DbMayFail = TRUE
SPECIFICATION Spec
INVARIANTS
  TypeOK
  BalanceInBounds
  ServedIsPaidFor
  LedgerDebitsAreCharges
PROPERTIES
  BlockedIsNotCharged
  BillingSpec
