SPECIFICATION FairSpec
CONSTANTS
  MaxClients <- Sizes
  Styles = {1, 2, 3}
  RespawnTime = 1
  TicketRounds = 2
  TicketRoundTime = 2
  StartTickets <- OneTicket
  Drain <- NoDrain
  Parts = 1
  WinBonus = 1
  FragLimit = 2
  TimeLimit <- Limits
  AutoBalance = TRUE
  Tolerance = 2
  Commands <- NoCommand
  MapInputs <- OneSide
  MapFlags <- Battlefields
  FullCap <- FordUncounted
  ForTeam <- Plain
  Starting <- AllUnassigned
  DecideDelay = 1
  DrainPeriod = 1
  ZeroedMemory = TRUE
  MaxScore = 1
INVARIANTS
  Rosters
PROPERTIES
  DecidedRoundsOnly
  MatchEnds
  NobodyWaitsForever
  WipeoutRestarts
  BalanceSettles
  FullcapIsFull
  FullcapIsFound
