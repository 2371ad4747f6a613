\* A call whose chain has a disabled target.
CONSTANTS
  q1 = q1
  tank = tank
  apoc = apoc
  morpheus = morpheus
  t1 = t1
  t2 = t2
  t3 = t3
  lenient = lenient
  strict = strict
  Unset = Unset
  Requests = {q1}
  Operators = {tank, apoc, morpheus}
  Targets = {t1, t2, t3}
  Upstreams = {lenient, strict}
  DefaultOperator = tank
  Lenient = {lenient}
  Entries <- MCEntries
  Chains <- MCChains
  TargetRows <- MCTargetRows
  UpstreamRows <- MCUpstreamRows
  StartEntry <- MCEntry
  StartRoutes <- MCRoutes
  StartTargets <- MCTargetsOneOff
  StartUpstreams <- MCUpstreams
  Bodies <- MCBodies
  DbMayFail = FALSE
  MaxEdits = 0
SPECIFICATION Spec
INVARIANTS
  DisabledTargetsAreRouted
