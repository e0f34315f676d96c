SPECIFICATION MCSpec
CONSTANTS
  Clients = {c1, c2}
  Sockets = {1, 2, 3}
  Networks = {"m", "n"}
  Nets0 = {"m"}
  MaxBeats = 1
  MaxActs = 3
  Messages = {"gone", "lunch"}
  None = ""
  Quit = "QUIT"
  DetachReason = "lunch"
  AwayReason = "gone"
  MaxPeers = 2
  MaxLines = 3
INVARIANTS StaysDetached NetworksAgree 
PROPERTIES Reattaches PeersGo
CHECK_DEADLOCK FALSE
