CONSTANTS
  t1 = t1
  t2 = t2
  orders = orders
  audit = audit
  stock = stock
  auditRepo = auditRepo
  stockRepo = stockRepo
  Tasks = {t1, t2}
  Services = {orders, audit, stock}
  Repos = {auditRepo, stockRepo}
  RepoOf <- MCRepoOf
  Holds <- MCHolds
  MaxSessions = 2
  MaxDepth = 2
SPECIFICATION Spec
INVARIANTS ActiveIsOwn SoloIsAtomic
SYMMETRY TasksAlike
VIEW Followed
