SPECIFICATION Spec
CONSTANTS
  MaxClients <- Sizes
  Styles = {3}
  RespawnTime = 1
  TicketRounds = 2
  TicketRoundTime = 2
  StartTickets <- OneTicket
  Drain <- NoDrain
  Parts = 1
  WinBonus = 0
  FragLimit = 0
  TimeLimit <- Limits
  AutoBalance = FALSE
  Tolerance = 3
  Commands <- AnyCommand
  MapInputs <- NoInputs
  MapFlags <- NoFlagsAtAll
  FullCap <- NoKeys
  ForTeam <- NoKeys
  Starting <- NoKeys
  DecideDelay = 1
  DrainPeriod = 1
  ZeroedMemory = TRUE
  MaxScore = 0
PROPERTIES
  DecidedRoundsOnly
