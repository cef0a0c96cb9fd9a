SPECIFICATION ServerSpec
CONSTANTS
  Instances = {i1, i2}
  Managed = {i1}
  NoInstance = NoInstance
  Dead = Dead
  Stage1Named = TRUE
  MaxFaults = 2
INVARIANT ServerTypeOK
PROPERTIES
  SocketTakenOnlyByShutdown
  SignalEnds
  ComesBack
