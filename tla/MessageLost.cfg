CONSTANTS
  MaxMessages = 2
  Senders = {host, proc}
  AnySender = AnySender
  SenderOf <- Alternating
  Labelled = {proc}
  Quantum = q
  Hosts = {}
  NoHolder = NoHolder
  HostSignals = {}
  Calls <- JitCall
  MaxCalls = 1
  MaxIdle = 1
  MaxFaults = 0
SPECIFICATION Spec
INVARIANT ConsumedIsCarried
CHECK_DEADLOCK FALSE
