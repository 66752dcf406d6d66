SPECIFICATION Spec
CONSTANTS
  NoId = NoId
  FirstVersion <- Numbered
  root = root
  a = a
  b = b
  d = d
  e = e
  Top <- root
  Places <- Folders
  Names <- OneName
  Kept <- KeepAll
  MinStorm = 10
  MaxDelete = 50
  MaxEdits = 2
  MaxQueue = 2
  UserOps = {"write","restore","rename","renamedir"}
  Outcomes = {"ok","lost","refused"}
  Faults = {"restart","crash","lockout","unsaved"}
INVARIANT FilesCurrent
