SPECIFICATION Spec
CONSTANTS
  PROVIDERS = {p1}
  MODELS = {m1}
  DATA = {d1}
  CLIENTS = {c1}
  OTHERS = {c2}
  ADMINS = {a1, a2}
  EDITS = 2
  FAULTS = 1
INVARIANTS TypeOK CurrentVersionIsCurrent
PROPERTIES FreshCatalogSpec
SYMMETRY AdminSymmetry
