SPECIFICATION MessageSpec
CONSTANTS
  Registered <- RegisteredValue
  Keys <- KeysValue
  Sends <- SendsValue
  Stoppers <- StoppersValue
  External = {"incoming"}
  MaxEvents = 1
  Targets = {"chan", "nick"}
  Status = "status"
  Known0 = {"chan"}
  MaxMessages = 2
INVARIANT EachStoredOnce
CHECK_DEADLOCK FALSE
