CONSTANTS
  c1 = c1
  c2 = c2
  r1 = r1
  r2 = r2
  Main = Main
  NoFile = NoFile
  Torn = Torn
  NoHash = NoHash
  NoRow = NoRow
  NoName = NoName
  Names <- TwoForms
  Order <- Place
  Isos <- IsoNames
  SerialOf <- Serial
  Contents = {c1, c2}
  SizeOf <- EmptyAndLong
  BootBytes = 2
  Requests = {r1, r2}
  Faults = TRUE
SYMMETRY Interchangeable
SPECIFICATION Spec
INVARIANTS TypeOK ScanRepairs UploadStands LibraryInv ManifestFits ScanInv
PROPERTY HandsOff
