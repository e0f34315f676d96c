SPECIFICATION Spec
CONSTANTS
  NServers = 1
  MaxRetries = 2
  MaxPing = 1
  MaxQueued = 1
  MaxEdits = 0
  Random = FALSE
  Configs <- LiveConfigs
  EnvEvents = {}
INVARIANT DisconnectProhibitsReconnect
