SPECIFICATION FairSpec
CONSTANTS
  Kits <- Equipment
  Balls = 2
  FlintlockDelay = 1
  HolsterLock = 2
  HolsterTime = 2
  AttackRate = 3
  RetraceTime = 1
  DrawTime = 2
  ReloadTime = 4
  SightsDelay = 1
  WetPause = 1
  EmptyPause = 1
  Longest = 4
INVARIANTS
  RightAttack
PROPERTIES
  NoFreeBalls
  SlowToLoad
  NothingHangs
