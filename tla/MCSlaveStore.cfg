SPECIFICATION Spec
CONSTANTS
  Tasks = {s, t}
  Requests <- MCRequests
  Preloads <- MCPreloads
  AddrCount = 4
  Bits = {0, 1}
  ByteBits = 2
  DEFAULT_REG_COUNT = 2
INVARIANT
  TypeOK
PROPERTY
  ImplementsMemory
