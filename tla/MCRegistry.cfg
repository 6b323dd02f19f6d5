SPECIFICATION MCSpec
CONSTANTS
  None = None
  small = small
  capital = capital
  Patrons = {p1, p2}
  Blocks = {b1, b2}
  Rows = {i1, i2}
  Requests = {r1, r2}
  Values = {small, capital}
  Upper <- MCUpper
SYMMETRY Symmetry
INVARIANT RegistryTypeOK
INVARIANT NeverClearedMeansBlocked
PROPERTY NoReactivation
