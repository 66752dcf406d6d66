SPECIFICATION Spec
CONSTANTS
  root = root
  a = a
  b = b
  c = c
  d = d
  e = e
  Top <- root
  Places <- Flat
  Names <- TwoFiles
  Kept <- Everything
  NoFile = 0
  FirstText <- Numbered
  SyncDeletions = TRUE
  TrackMoves = TRUE
  MinStorm = 2
  MaxDelete = 50
  MaxEdits = 3
  UserOps = {"write","drive-write"}
  BusyOps = {"write","drive-write"}
  Faults = {"missed","half","waits","pull","resync","convert","stop","late"}
INVARIANTS NothingLost
CHECK_DEADLOCK FALSE
