SPECIFICATION ServerSpec
CONSTANTS
  Instances = {i1}
  Managed = {i1}
  NoInstance = NoInstance
  Dead = Dead
  Stage1Named = TRUE
  MaxFaults = 1
PROPERTY RestartServes
