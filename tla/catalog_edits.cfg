SPECIFICATION Spec
CONSTANTS
  PROVIDERS = {p1}
  MODELS = {m1}
  DATA = {d1, d2}
  CLIENTS = {c1}
  OTHERS = {}
  ADMINS = {a1, a2}
  EDITS = 3
  FAULTS = 0
INVARIANTS TunedDataStands LegacySavesReadBack
PROPERTIES ClientsConverge
