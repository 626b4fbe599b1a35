CONSTANTS
  Machines = {"gateway"}
  Call = {"c1"}
  Requests <- MCRequests
  Settings <- MCSettings
  Shown <- MCShown
  MaxComing = 2
  Dossier = {"d1", "d2", "d3"}
  KeyOf <- MCKeyOf
  Limit = 2
  MaxLine = 1
  PqSeal = TRUE
  TsaRequired = TRUE
  MaxExpiries = 0
  MaxStops = 0
  Bearer = {1, 2, 3}
  Presents <- MCPresents
  KeySet = {{"k1"}, {"k1", "k2"}}
  Ttl = 2
  Cooldown = 1
  MaxEntries = 1
  MaxClock = 3
  MaxFetches = 2
  Inserter = {"t1", "t2"}
  Content <- MCContent
  Isolation = {"committed", "repeatable"}
  Legacy = 1
  PageSize = 2
  Caps = {1, 2}
  MaxTampers = 1
  MaxExports = 2
SPECIFICATION MCSpec
INVARIANT CertificateKept
CHECK_DEADLOCK FALSE
