CONSTANTS
  c1 = c1
  c2 = c2
  c3 = c3
  w1 = w1
  w2 = w2
  NoCard = NoCard
  Torn = Torn
  Contents = {c1, c2, c3}
  Workers = {w1, w2}
  BackupsKept = 3
  MaxPuts = 3
  Faults = FALSE
  Crashes = FALSE
SYMMETRY SaveSymmetry
SPECIFICATION Spec
PROPERTY NoVersionLost
