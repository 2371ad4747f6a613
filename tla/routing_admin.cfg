SPECIFICATION MCSpec
CONSTANTS
  t1 = t1
  t2 = t2
  UPSTREAMS = {u1}
  TARGETS = {t1, t2}
  OPERATORS = {"tank"}
  Blank = Blank
  BODIES <- MCBodies
  ENTRIES = {e1}
  NAMES = {"tank", "neo"}
  READERS = {c1, c2}
  CHANGES = 2
  ADMINS = {a1, a2}
  EDITS = 3
  FAULTS = 1
INVARIANTS TypeOK DanglingWasRaced SavesAreWhole LastSaveIsShown ListingTypeOK OffListsNothing
PROPERTIES RoutingIsAnnounced ListingsConverge
CHECK_DEADLOCK FALSE
