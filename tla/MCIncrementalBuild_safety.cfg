SPECIFICATION Spec
CONSTANTS
  main = main
  lib = lib
  util = util
  w1 = w1
  w2 = w2
  nobody = nobody
  File <- MCFile
  Entry = main
  FileTexts <- ProjectTexts
  Config = {"debug", "release"}
  Worker <- MCWorker
  NoWorker = nobody
  MaxBuilds = 3
  MaxEdits = 2
  Env = {"linkFails"}
SYMMETRY Symmetric
CHECK_DEADLOCK FALSE
INVARIANTS
  FreshBuild
  CacheSound
PROPERTIES
  NoNeedlessRecompile
  CleanBuildSpec
