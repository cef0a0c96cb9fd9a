SPECIFICATION ExecSpec
CONSTANTS
  Sessions = {s1}
  MaxOut = 2
  Cap = 1
INVARIANTS
  ExecTypeOK
  OutputComplete
  ExitStatusReported
PROPERTIES
  SilentAfterReturn
  WaitEnds
  GoroutinesEnd
