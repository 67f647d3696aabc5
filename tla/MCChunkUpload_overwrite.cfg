CONSTANTS
  idA = idA
  idB = idB
  idC = idC
  w1 = w1
  w2 = w2
  w3 = w3
  NoId = NoId
  NoMutex = NoMutex
  Ids = {idA, idB}
  Workers = {w1, w2}
  SerialOf <- OneSerial
  SizeOf <- OneBlock
  Chunks <- OneChunk
  Mutexes <- SomeMutexes
  Ageing = {idA, idB}
  DiskFaults = FALSE
  Restarts = FALSE
SYMMETRY WorkerSymmetry
SPECIFICATION Spec
PROPERTY NeverReplaced
