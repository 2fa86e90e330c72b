SPECIFICATION Spec
CONSTANTS
  MaxClients = 2
  Flags = {"flag"}
  ForTeam <- OneFlag
  Stand <- OneStand
  Places = {"fort", "village", "camp"}
  Zones <- OneZone
  Camp <- Camps
  Centre = "nowhere"
  CaptureStyles = {1}
  ReturnStyles = {1}
  ReturnTime = 1
  Inputs = {"Reset"}
  IdlePeriod = 2
INVARIANTS
  OnlyCarriersAreSlow
