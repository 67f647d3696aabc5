CONSTANTS
  s1 = s1
  s2 = s2
  b1 = b1
  b2 = b2
  NoSerial = NoSerial
  NoFile = NoFile
  Torn = Torn
  NoOne = NoOne
  Serials = {s1, s2}
  Paths <- OneFile
  PathOf <- SharedFile
  Obscure = {s2}
  Backfills = {b1, b2}
  Clients = {b1}
  Limit = 1
  Timeout = 1
  Margin = 2
  Lifetime = 3
SPECIFICATION FairSpec
INVARIANTS TypeOK CoverWhole TokenAlive CoversInv
PROPERTIES BackfillsEnd Backfilled
