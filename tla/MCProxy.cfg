SPECIFICATION FairSpec
CONSTANTS
  shop = shop
  proxyApp = proxyApp
  shopMain = shopMain
  shopAdmin = shopAdmin
  proxyMain = proxyMain
  Cli = Cli
  Nobody = Nobody
  Apps = {shop, proxyApp}
  Worktrees = {shopMain, shopAdmin, proxyMain}
  AppOf <- Owner
  Services <- Names
  both = both
  one = one
  Configs = {both, one}
  Says <- SmallSays
  Label <- Words
  Slug <- Slugs
  AppLabel <- AppNames
  Locks = {"shop", "proxy"}
  RegistryLock <- LockFiles
  ProxyLock = "proxy"
  HTTPPorts = {80, 81}
  MaxCommands = 3
  MaxEvents = 2
CHECK_DEADLOCK FALSE
INVARIANTS TypeOK Attached NetworksReady RoutesApart
PROPERTY CommandsEnd
