SPECIFICATION Spec
CONSTANTS
  p1 = p1
  p2 = p2
  Clients <- TwoClients
  AmericanPoints = {"west"}
  BritishPoints = {"east"}
  MultiPoints = {"road", "bridge"}
  StartDisabled = {"bridge"}
  StartingTeam <- BothBritish
  MapControls = {"bridge"}
  Classes = {"infantry", "officer"}
  Limit <- OneOfficer
  MapSizeLow = 1
  MapSizeHigh = 32
  RespawnStyle = 4
  AutoBalance = TRUE
  Tolerance = 2
SYMMETRY Exchangeable
INVARIANTS
  ArmedByOwnSide
PROPERTIES
  SpotsAreKept
  SpawnedApart
  NobodyIsLost
