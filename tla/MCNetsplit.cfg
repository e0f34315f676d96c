SPECIFICATION SplitSpec
SYMMETRY Symmetry
CONSTANTS
  u1 = u1
  u2 = u2
  u3 = u3
  c1 = c1
  c2 = c2
  Nicks = {u1, u2, u3}
  Chans = {c1, c2}
  Modes = {"o"}
  Nobody = Nobody
  Share = 1
  MaxQuits = 2
INVARIANT ModesKept
INVARIANT HeldBackOnly
CHECK_DEADLOCK FALSE
