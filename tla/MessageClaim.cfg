CONSTANTS
  MaxMessages = 1
  Senders = {proc}
  AnySender = AnySender
  SenderOf <- Alternating
  Labelled = {proc}
  Quantum = q
  Hosts = {}
  NoHolder = NoHolder
  HostSignals = {}
  Calls <- ToolCall
  MaxCalls = 1
  MaxIdle = 1
  MaxFaults = 2
SPECIFICATION Spec
INVARIANT NoClaimLeftBehind
CHECK_DEADLOCK FALSE
