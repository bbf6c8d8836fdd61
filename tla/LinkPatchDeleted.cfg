CONSTANTS
  alice = alice
  guest = guest
  home = home
  shop = shop
  Null = Null
  Urls = {home,shop}
  Users = {alice}
  Demo = {}
  Tokens = {t1}
  Workers = {w1, w2}
  SeedRows <- OneOwned
  Expiries <- NeverExpires
  Ttl = 1
  CacheSize = 1
  MaxRetries = 1
  Faults = {}
  MaxTime = 1
  MaxRedirects = 0
SPECIFICATION Spec
PROPERTIES DeletedLinkIsNotPatched
