SPECIFICATION Spec
CONSTANTS
  a = a
  b = b
  web = web
  Loop = loop
  Inverters = {a, b}
  Cmds = {c1, c2, c3}
  Tasks = {loop, web}
  MaySend <- LimitByUser
  TxCompletes = FALSE
  MaxResend <- Resends
  MaxRetransmit = 1
  NoCmd = NoCmd
CHECK_DEADLOCK FALSE
PROPERTIES OkOnlyAfterSend
