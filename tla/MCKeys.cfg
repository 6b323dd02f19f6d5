SPECIFICATION SuspendSpec
CONSTANTS
  None = None
  Patrons = {p1, p2}
  PatronTypes = {t1}
  Catalogs = {c1}
  Holdings = {h1}
  CatalogOf <- OneCatalog
  Circulating <- AllHoldings
  LoanIds = {l1, l2}
  Keys = {k1}
  Sessions = {s1, s2}
  Limits = {1}
  MaxLimit = 1
SYMMETRY Symmetry
INVARIANT OneLoanPerKey
INVARIANT AnswerFitsRequest
PROPERTY ImplementsLedger
