SPECIFICATION Spec
CONSTANTS
  a = a
  b = b
  web = web
  Loop = loop
  Inverters = {a, b}
  Cmds = {c1, c2}
  Tasks = {loop, web}
  MaySend <- PowerByUser
  TxCompletes = FALSE
  MaxResend <- Resends
  MaxRetransmit = 1
  NoCmd = NoCmd
CHECK_DEADLOCK FALSE
INVARIANTS TypeOK InFlightIsFront PendingHasCommand
PROPERTIES OkOnlyAfterSend PendingResolves
