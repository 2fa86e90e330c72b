SPECIFICATION Spec
CONSTANTS
  MaxClients <- Sizes
  Styles = {3, 4}
  RespawnTime = 1
  TicketRounds = 2
  TicketRoundTime = 2
  StartTickets <- MoreForTheBritish
  Drain <- OtherDrain
  Parts = 2
  WinBonus = 0
  FragLimit = 0
  TimeLimit <- Limits
  AutoBalance = FALSE
  Tolerance = 3
  Commands <- AnyCommand
  MapInputs <- JustDraws
  MapFlags <- Battlefields
  FullCap <- Plain
  ForTeam <- Plain
  Starting <- AllUnassigned
  DecideDelay = 1
  DrainPeriod = 1
  ZeroedMemory = FALSE
  MaxScore = 0
INVARIANTS
  TypeOK
  OnePointPerRound
  AllowanceIsUsed
PROPERTIES
  ScoresFollowPlayers
  ReinforcementsArePaid
  DrainIsExact
