SPECIFICATION ViewSpec
CONSTANTS
  u1 = u1
  u2 = u2
  u3 = u3
  c1 = c1
  c2 = c2
  Nicks = {u1, u2, u3}
  Chans = {c1, c2}
  Modes = {"o"}
  Nobody = Nobody
  MaxWire = 2
SYMMETRY Symmetry
INVARIANTS TwoWay LinesAllowed Converged
PROPERTY LeaversForgotten
