SPECIFICATION Spec
CONSTANTS
  c1 = c1
  c2 = c2
  Timer = Timer
  Clients <- Two
  Channel = 1
  Mirrored = TRUE
  Settles = FALSE
  Expiring = TRUE
  ByHand = FALSE
SYMMETRY AnyClient
INVARIANT TypeOK OneRunAtATime IdleIsSynced AnswersAreSettled
PROPERTIES ResyncOnlyIfAsked KeepsItsPromise
