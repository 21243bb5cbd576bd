SPECIFICATION Spec
CONSTANTS
  a = a
  b = b
  web = web
  Loop = loop
  Inverters = {a}
  Cmds = {c1, c2, c3}
  Tasks = {loop, web}
  MaySend <- LimitByBoth
  TxCompletes = TRUE
  MaxResend <- Resends
  MaxRetransmit = 1
  NoCmd = NoCmd
CHECK_DEADLOCK FALSE
INVARIANTS FrontExists
