CONSTANTS
  MaxMessages = 2
  Senders = {host, proc}
  AnySender = AnySender
  SenderOf <- Alternating
  Labelled = {proc}
  Quantum = q
  Hosts = {h}
  NoHolder = NoHolder
  HostSignals = {"pause"}
  Calls <- SomeCalls
  MaxCalls = 1
  MaxIdle = 1
  MaxFaults = 2
SPECIFICATION FairSpec
CHECK_DEADLOCK FALSE
INVARIANTS ParkedHasNoMail MailInv
PROPERTIES SupersededStaysOut ParkedReaderServed
