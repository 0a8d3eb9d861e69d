SPECIFICATION FairSpec
CONSTANTS
  w1 = w1
  w2 = w2
  w3 = w3
  ws = ws
  r1 = r1
  r2 = r2
  r3 = r3
  rs = rs
  Writes = {w1, w2, w3, ws}
  Reads = {r1, r2, r3, rs}
  ToSlave = {ws, rs}
  Beats <- MCBeats
  Loads <- MCLoads
  QueueSize = 2
  MaxLost = 1
INVARIANT TypeOK
PROPERTIES LedgerKept PortSpec Served
