CONSTANTS
  len = 8
  CapCS = 4
  CapSC = 3
  BufSize = 3
  Commands <- AllCommands
SPECIFICATION FairSpec
INVARIANT TypeOK
INVARIANT BytesConserved
INVARIANT NoMutualBlock
PROPERTY EchoesService
PROPERTY ClientEnds
PROPERTY ServerThreadEnds
CHECK_DEADLOCK FALSE
