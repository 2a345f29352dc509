SPECIFICATION FairSpec
CONSTANTS
  Period = 1
  Latency = 1
  Delay = 1
  Packets <- MCPackets
  MaxWire = 2
  MaxDropped = 1
CHECK_DEADLOCK FALSE
INVARIANTS
  InStep
  NothingStranded
  HeartbeatKeeps
  SilentExpires
  TypeOK
PROPERTIES
  PacketHandled
