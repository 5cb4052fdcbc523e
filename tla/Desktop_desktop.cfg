CONSTANTS
  r1 = r1
  r2 = r2
  None = None
  menu = menu
  settings = settings
  Main = Main
  Update = Update
  Me = Me
  Rival = Rival
  Network = Network
  Scenes <- MCScenes
  Runs <- MCRuns
  Actors <- MCActors
SPECIFICATION FairSpec
INVARIANTS
  TypeOK
  RunsAreClean
  
  ExeRecoverable
PROPERTY
  StopHeard
CHECK_DEADLOCK FALSE
