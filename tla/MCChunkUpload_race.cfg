CONSTANTS
  idA = idA
  idB = idB
  idC = idC
  w1 = w1
  w2 = w2
  w3 = w3
  NoId = NoId
  NoMutex = NoMutex
  Ids = {idA}
  Workers = {w1, w2}
  SerialOf <- OneSerial
  SizeOf <- SameSize
  Chunks <- AllChunks
  Mutexes <- SomeMutexes
  Ageing = {idA}
  DiskFaults = TRUE
  Restarts = TRUE
SPECIFICATION FairSpec
INVARIANTS TypeOK SoleWriter AckedRecorded PublishedWhole
PROPERTIES KeepsPromise RequestsFinish
