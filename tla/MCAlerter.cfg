CONSTANTS
  p1 = p1
  p2 = p2
  f1 = f1
  f2 = f2
  Procs <- MCProcs
  Fps <- MCFps
  Length <- MCLength
  Width = 64
  NChats = 2
  Cooldown = 2
  MaxBusy = 1
  Crashes = TRUE
SPECIFICATION FairSpec
INVARIANTS
  TypeOK
  SpacedSends
  OneDispatcher
  ChatKeyLag
PROPERTIES
  DispatchEnds
