SPECIFICATION BufferSpec
SYMMETRY Symmetry
CONSTANTS
  Queries = {1,2}
  Chans = {3}
  Names = {"x","y"}
  Channel = "chan"
  c1=c1
  c2=c2
  Clients = {c1,c2}
  MaxMsg = 2
  MaxActs = 3
  Table0 <- Table0Value
INVARIANT UnsavedIsDirty
INVARIANT Agreed
INVARIANT GhostsPurged
PROPERTY SeenNeverBack
CHECK_DEADLOCK FALSE
