CONSTANTS
  idA = idA
  idB = idB
  idC = idC
  w1 = w1
  w2 = w2
  w3 = w3
  NoId = NoId
  NoMutex = NoMutex
  Ids = {idA, idB, idC}
  Workers = {w1, w2}
  SerialOf <- OneSerial
  SizeOf <- DifferSize
  Chunks <- OneChunk
  Mutexes <- SomeMutexes
  Ageing = {idA, idB}
  DiskFaults = TRUE
  Restarts = FALSE
SYMMETRY TwinSymmetry
SPECIFICATION Spec
CONSTRAINT Pair
INVARIANTS UploadInv CleanInv PublishedClean
PROPERTY KeepsPromise
CHECK_DEADLOCK FALSE
