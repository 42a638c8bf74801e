\* The whole program as one LLVM module.
SPECIFICATION ModSpec
CONSTANTS
  Modules <- MCModuleNames
  Program = "app"
  NotFound = NotFound
  Unparsable = Unparsable
  NoCall = ""
  Worlds <- MCWorlds
  Separate = FALSE
INVARIANTS
  PrivateStaysPrivate
CHECK_DEADLOCK FALSE
