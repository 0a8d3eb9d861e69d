SPECIFICATION Spec
CONSTANTS
  c1 = c1
  c2 = c2
  s1 = s1
  r1 = r1
  r2 = r2
  d1 = d1
  d2 = d2
  w1 = w1
  w2 = w2
  NoData = NoData
  Clients = {c1}
  Slaves = {s1}
  Regs = {r1, r2}
  SlaveOf <- OneSlave
  Data = {d1, d2}
  Writers = {}
  Readers = {w2}
  MaxiResets = {}
  Kinds = {"saxi"}
  SlaveResets = {}
INVARIANT ReadReturnsOwn
