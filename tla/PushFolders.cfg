SPECIFICATION Spec
CONSTANTS
  NoId = NoId
  FirstVersion <- Numbered
  root = root
  a = a
  b = b
  d = d
  e = e
  Top <- root
  Places <- Tree3
  Names <- OneName
  Kept <- KeepNotEA
  MinStorm = 10
  MaxDelete = 50
  MaxEdits = 3
  MaxQueue = 2
  UserOps = {"write","delete","removedir","rename"}
  Outcomes = {"ok"}
  Faults = {}
INVARIANT RemoteTracked FilesAccounted FoldersAccounted
PROPERTY ExcludedUntouched
