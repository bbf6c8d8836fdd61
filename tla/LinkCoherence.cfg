CONSTANTS
  alice = alice
  home = home
  Null = Null
  Urls = {home}
  Users = {alice}
  Demo = {}
  Tokens = {t1}
  Workers = {w1, w2, w3}
  SeedRows <- OneOwned
  Expiries <- AtOnceOrNever
  Ttl = 1
  CacheSize = 1
  MaxRetries = 1
  Faults = {"crash", "database"}
  MaxTime = 3
  MaxRedirects = 2
  Span = 1
  Crowd = 2
SYMMETRY WorkerSymmetry
SPECIFICATION CrowdSpec
INVARIANTS TypeOK CacheCoherent HeldRowsAgree KnownTokensOnly ScanLedger StalenessBounded
PROPERTIES ImplementsRegistry
