CONSTANTS
  Fds = {f1, f2, f3}
  ListenFd = ListenFd
  NoFd = NoFd
  MAX_EVENTS = 2
  Backlog = 2
SPECIFICATION FairSpec
INVARIANT SlotsMatchEpoll
INVARIANT BatchFresh
PROPERTY ForgottenOnlyWhenFull
PROPERTY ClientsServed
