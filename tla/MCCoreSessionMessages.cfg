SPECIFICATION FairMessageSpec
CONSTANTS
  Registered <- RegisteredValue
  Keys <- KeysValue
  Sends <- SendsValue
  Stoppers <- StoppersValue
  External = {"incoming"}
  MaxEvents = 3
  Targets = {"chan", "nick"}
  Status = "status"
  Known0 = {"chan"}
  MaxMessages = 2
INVARIANTS InOrder StateBeforeText PlainInPlace FlushedWhenIdle
PROPERTY EventuallyDispatched
CHECK_DEADLOCK FALSE
