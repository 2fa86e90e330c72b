SPECIFICATION FairSpec
CONSTANTS
  MaxClients = 2
  Flags = {"flag"}
  ForTeam <- OneFlag
  Stand <- OneStand
  Places = {"fort", "village", "camp"}
  Zones <- OneZone
  Camp <- Camps
  Centre = "nowhere"
  CaptureStyles = {1, 2}
  ReturnStyles = {1, 2}
  ReturnTime = 1
  Inputs = {}
  IdlePeriod = 2
INVARIANTS
  OnlyCarriersAreSlow
PROPERTIES
  DroppedComesHome
