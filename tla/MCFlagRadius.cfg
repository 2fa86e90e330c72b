SPECIFICATION FairSpec
CONSTANTS
  MaxClients = 2
  Flags = {"f"}
  KeyValues <- HillFlag
  Styles = {1, 2}
  Inputs = {"Enable", "Disable", "Toggle", "ForceCap"}
  IdlePeriod = 2
  MaxTouches = 2
INVARIANTS
  TypeOK
  OverloadersGuard
PROPERTIES
  IsACapturePoint
  ContestedFlagHolds
  HeldByTheLiving
  SiegeSucceeds
