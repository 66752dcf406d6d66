SPECIFICATION LiveSpec
CONSTANTS
  c1 = c1
  c2 = c2
  Timer = Timer
  Clients <- One
  Channel = 1
  Mirrored = FALSE
  Settles = TRUE
  Expiring = TRUE
  ByHand = TRUE
PROPERTY EveryCallAnswered AbandonedLockGoes
