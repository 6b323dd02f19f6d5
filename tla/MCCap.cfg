SPECIFICATION IssueSpec
CONSTANTS
  None = None
  Patrons = {p1}
  PatronTypes = {t1, t2}
  Catalogs = {c1}
  Holdings = {h1, h2, h3}
  CatalogOf <- OneCatalog
  Circulating <- AllHoldings
  LoanIds = {l1, l2, l3}
  Keys = {k1}
  Sessions = {s1, s2}
  Limits = {0, 1}
  MaxLimit = 1
SYMMETRY Symmetry
INVARIANT LoanCapBound
