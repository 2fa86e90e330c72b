SPECIFICATION Spec
CONSTANTS
  MaxClients = 2
  Flags = {"red", "blue"}
  ForTeam <- TwoFlags
  Stand <- TwoStands
  Places = {"fort", "village", "camp"}
  Zones <- HomeZones
  Camp <- Camps
  Centre = "nowhere"
  CaptureStyles = {2}
  ReturnStyles = {2}
  ReturnTime = 1
  Inputs = {"Enable", "Disable", "Toggle", "Reset"}
  IdlePeriod = 2
INVARIANTS
  TypeOK
  CarriedByTheLiving
  NothingLost
  OneFlagAway
PROPERTIES
  TouchReturns
