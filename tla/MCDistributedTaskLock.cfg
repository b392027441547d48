SPECIFICATION Spec
CONSTANTS
  a1 = a1
  a2 = a2
  b1 = b1
  hostA = hostA
  hostB = hostB
  NoExec = NoExec
  NoValue = NoValue
  Exec <- MCExec
  Hosts <- MCHosts
  HostOf <- MCHostOf
  Expiration = 3
  MaxTime = 7
INVARIANTS
  TypeOK
  RenewedLockHeld
  OverlapOnlyIfDisturbed
PROPERTIES
  ImplementsLease
CHECK_DEADLOCK FALSE
