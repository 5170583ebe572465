SPECIFICATION FairSpec
CONSTANTS
  Table <- MCTable
  Managers = {"walker", "getter", "empty", "stranger", "setter"}
  Job <- MCJob
  Community = "public"
  Settings <- MCSettings
INVARIANT
  TypeOK
PROPERTIES
  ImplementsMibWalk
  ServesAll
CHECK_DEADLOCK FALSE
