CONSTANTS
  Tasks = {i1, i2}
  Hands = {w1, w2}
  Conns = {c1}
  Upsets = {"badpool", "expire", "down"}
  None = none
  Users = {u1, u2, u3}
  Modules = {m1, m2}
  Unfit = {m2}
  Windows = {}
  MaxUses = 3
  NoUser = nouser
SPECIFICATION ServerSpec
CHECK_DEADLOCK FALSE
INVARIANTS WaitSafe DmSafe
PROPERTIES OneThread ParkedServed UnloadEnds
