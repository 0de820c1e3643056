SPECIFICATION FairSpec
CONSTANTS
  Kinds = {"sync", "async"}
  Ops = {"run", "read"}
  Strategies = {"direct", "gateway", "tunnel"}
  MaxRetries = 1
  MaxSends = 2
  MaxTunnels = 2
  MaxPods = 2
  MaxInterrupts = 1
INVARIANTS
  TypeOK
  AcknowledgedWriteStays
  AstrayOnlyWhenStale
  NoOrphanTunnel
PROPERTIES
  EverySendReturns
CHECK_DEADLOCK FALSE
