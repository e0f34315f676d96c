SPECIFICATION FairSpec
CONSTANTS
  NServers = 2
  MaxRetries = 2
  MaxPing = 1
  MaxQueued = 2
  MaxEdits = 2
  Random = FALSE
  Configs <- FixedConfigs
  EnvEvents = {"restart", "silence", "settings", "pingtoggle", "identity"}
INVARIANTS SocketAgrees CloseTimerOwned QuitIsFinal RestoreMatches
PROPERTIES DialsRight QuitCompletes ReconnectProgress DeadServerDropped
