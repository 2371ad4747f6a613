\* One call against two edits of the routing tables.
CONSTANTS
  q1 = q1
  tank = tank
  apoc = apoc
  morpheus = morpheus
  t1 = t1
  t2 = t2
  t3 = t3
  lenient = lenient
  strict = strict
  Unset = Unset
  Requests = {q1}
  Operators = {tank, apoc, morpheus}
  Targets = {t1, t2, t3}
  Upstreams = {lenient, strict}
  DefaultOperator = tank
  Lenient = {lenient}
  Entries <- MCEntries
  Chains <- MCChains
  TargetRows <- MCTargetRows
  UpstreamRows <- MCUpstreamRows
  StartEntry <- MCEntry
  StartRoutes <- MCRoutes
  StartTargets <- MCTargets
  StartUpstreams <- MCUpstreams
  Bodies <- MCBodies
  DbMayFail = TRUE
  MaxEdits = 2
SPECIFICATION FairSpec
INVARIANTS
  TypeOK
  OneRouteReachesTheCaller
  ChainIsOneSave
  AttemptsAreIndependent
  CallsAreLogged
  AllRoutesWereTried
PROPERTIES
  EveryCallEnds
