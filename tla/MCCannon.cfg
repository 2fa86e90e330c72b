SPECIFICATION FairSpec
CONSTANTS
  MaxClients = 2
  Maps <- SomeMaps
  FireInterval = 2
  SightDelay = 1
INVARIANTS
  CrewIsArmed
PROPERTIES
  RateIsKept
  NobodyHangsOn
