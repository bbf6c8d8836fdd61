CONSTANTS
  alice = alice
  guest = guest
  home = home
  shop = shop
  Null = Null
  Urls = {home}
  Users = {alice, guest}
  Demo = {guest}
  Tokens = {t1, t2}
  Workers = {w1, w2}
  SeedRows <- Legacy
  Expiries <- NeverExpires
  Ttl = 1
  CacheSize = 1
  MaxRetries = 2
  Faults = {}
  MaxTime = 1
  MaxRedirects = 2
SPECIFICATION CalmSpec
INVARIANTS MintsAreDistinct CacheCoherent ScanLedger
PROPERTIES OnlyItsOwnerChangesALink RequestsComplete
