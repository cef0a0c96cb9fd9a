SPECIFICATION HelpersSpec
CONSTANTS
  ContainerRequests <- MCContainerRequests
  SandboxRequests <- MCSandboxRequests
  NetLists <- MCNetLists
  AllCaps = {"CHOWN", "KILL", "SYS_ADMIN"}
  DefaultCaps = {"CHOWN", "KILL"}
  RktCaps = {"CHOWN"}
  NetworkPlugin = "cni"
  Milli = 10
  MaxInt = 127
INVARIANTS
  StatusRoundTrip
  PreferredIP
  CpuLimitKept
  SeccompAsAsked
  CapsAsAsked
  ArgsKept
  PortsForwarded
