SPECIFICATION Spec
CONSTANTS
  main = main
  lib = lib
  util = util
  w1 = w1
  w2 = w2
  nobody = nobody
  File <- MCFile
  Entry = main
  FileTexts <- ProjectTexts
  Config = {"debug", "release"}
  Worker <- MCWorker
  NoWorker = nobody
  MaxBuilds = 2
  MaxEdits = 1
  Env = {"editInBuild"}
CHECK_DEADLOCK FALSE
INVARIANTS
  LinkedTexts
