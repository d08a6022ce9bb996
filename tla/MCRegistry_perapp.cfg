SPECIFICATION Spec
CONSTANTS
  shop = shop
  crm = crm
  sharedLock = sharedLock
  shopLock = shopLock
  crmLock = crmLock
  p1 = p1
  p2 = p2
  NoProc = NoProc
  Apps = {shop, crm}
  Services = {"api", "web"}
  Procs = {p1, p2}
  Locks = {shopLock, crmLock}
  LockOf <- PerAppLocks
  BandStart = 20
  BandWidth = 2
  MaxPort = 9
  BandRequests <- Seeds
  SharedRequests <- Canonicals
  BandLimit = 5
  MaxCalls = 2
SYMMETRY ProcSymmetry
CHECK_DEADLOCK FALSE
INVARIANTS TypeOK FileUnique BandRangesDisjoint
