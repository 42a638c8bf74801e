\* The debugger, the language server, objects of classes, modules, packages, builds.
SPECIFICATION TSpec
CONSTANTS
  Programs <- MCPrograms
  BreakpointSets <- MCBreakpointSets
  Watches <- MCWatches
  MaxSets = 2
  MaxResumes = 4
  MaxNested = 1
  MaxRefs = 2
  Uris <- MCUris
  Texts <- MCTexts
  Asks <- MCAsks
  Ids = {i1, i2}
  NoId = NoId
  NoText = NoText
  MaxNotes = 2
  MaxAsks = 2
  MaxCancels = 1
  MaxInbox = 2
  Hierarchies <- MCHierarchies
  Fresh = 0
  Contents = {1, 2}
  MaxCalls = 3
  Modules <- MCModuleNames
  Program = "app"
  NotFound = NotFound
  Unparsable = Unparsable
  NoCall = ""
  Worlds <- MCWorlds
  Separate = TRUE
  Packages <- MCPackageNames
  Releases <- MCReleases
  Requires <- MCRequires
  Manifests <- MCManifests
  Requests <- MCRequests
  NoVersion = NoVersion
  MaxCommands = 4
  MaxFaults = 2
  main = main
  lib = lib
  util = util
  w1 = w1
  w2 = w2
  nobody = nobody
  File <- MCFile
  Entry = main
  FileTexts <- IfaceTexts
  Config = {"debug"}
  Worker <- MCWorker
  NoWorker = nobody
  MaxBuilds = 2
  MaxEdits = 1
  Env = {"interface", "editInBuild", "linkFails"}
INVARIANTS
  ResumeSound
  
  AnswersSound
  DiagnosticsShown
  FieldsHaveOnePlace
  ObjectDecides
  LoaderDecides
  CallsReachTheirFunction
  BuildResolves
  RefusedForAReason
  WarmCache
PROPERTIES
  ResumeProgresses
  ServesRequests
  BuildTerminates
CHECK_DEADLOCK FALSE
