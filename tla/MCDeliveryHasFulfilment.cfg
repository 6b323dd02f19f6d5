SPECIFICATION DeliverSpec
CONSTANTS
  None = None
  Patrons = {p1}
  PatronTypes = {t1}
  Catalogs = {c1}
  Holdings = {h1}
  CatalogOf <- OneCatalog
  Circulating <- AllHoldings
  LoanIds = {l1, l2}
  Keys = {k1}
  Sessions = {s1, s2}
  Limits = {2}
  MaxLimit = 2
  FulfilIds = {f1, f2}
SYMMETRY Symmetry
INVARIANT DeliveryHasFulfilment
