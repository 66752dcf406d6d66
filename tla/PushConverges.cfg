SPECIFICATION LiveSpec
CONSTANTS
  NoId = NoId
  FirstVersion <- Numbered
  root = root
  a = a
  b = b
  d = d
  e = e
  Top <- root
  Places <- Folders
  Names <- OneName
  Kept <- KeepAll
  MinStorm = 10
  MaxDelete = 50
  MaxEdits = 2
  MaxQueue = 2
  UserOps = {"rename","renamedir","unpaired","delete"}
  Outcomes = {"ok","busy"}
  Faults = {}
INVARIANT TypeOK FilesAccounted
PROPERTIES MovesNeverOverwrite Converges
