SPECIFICATION Spec
CONSTANTS
  MaxClients = 2
  Flags = {"f"}
  KeyValues <- TriggerFlag
  Styles = {1}
  Inputs = {}
  IdlePeriod = 1
  MaxTouches = 2
PROPERTIES
  CapturersAreListed
