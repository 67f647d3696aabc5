CONSTANTS
  c1 = c1
  c2 = c2
  c3 = c3
  w1 = w1
  w2 = w2
  NoCard = NoCard
  Torn = Torn
  Contents = {c1, c2}
  Workers = {w1, w2}
  BackupsKept = 1
  MaxPuts = 4
  Faults = TRUE
  Crashes = TRUE
SYMMETRY SaveSymmetry
SPECIFICATION Spec
INVARIANTS SavesInv TypeOK CardWhole AckedStands DeleteClears BackupsBounded
PROPERTIES PreviousKept PruneKeepsLast
