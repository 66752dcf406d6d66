SPECIFICATION Spec
CONSTANTS
  NoId = NoId
  FirstVersion <- Numbered
  root = root
  a = a
  b = b
  d = d
  e = e
  Top <- root
  Places <- Flat
  Names <- TwoFiles
  Kept <- KeepAll
  MinStorm = 10
  MaxDelete = 50
  MaxEdits = 2
  MaxQueue = 2
  UserOps = {"write","delete"}
  Outcomes = {"ok"}
  Faults = {}
PROPERTY PullUndoesNothing
