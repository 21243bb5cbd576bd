SPECIFICATION Spec
CONSTANTS
  a = a
  b = b
  web = web
  Loop = loop
  Inverters = {a}
  Cmds = {c1, c2, c3, c4}
  Tasks = {loop, web}
  MaySend <- PowerByBoth
  TxCompletes = TRUE
  MaxResend <- Resends
  MaxRetransmit = 1
  NoCmd = NoCmd
CHECK_DEADLOCK FALSE
INVARIANTS SentCommandIsQueued PendingHasCommand
