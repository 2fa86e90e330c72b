SPECIFICATION Spec
CONSTANTS
  MaxClients = 2
  Flags = {"f"}
  KeyValues <- ReservedFlag
  Styles = {1}
  Inputs = {"ForceCap"}
  IdlePeriod = 1
  MaxTouches = 2
INVARIANTS
  TriggerListsMatch
PROPERTIES
  BonusIsPaced
