CONSTANTS
  Clients = {a, b, c}
  Few = {a, b}
  Main = Main
  None = None
  NFds = 2
  SpawnFails = TRUE
SPECIFICATION FairSpec
INVARIANT RepliesToSender
INVARIANT ZombieHasSignal
PROPERTY LeaversReleased
PROPERTY EveryoneRead
CHECK_DEADLOCK FALSE
