SPECIFICATION Spec
CONSTANTS
  Ptrs = {1, 2}
  NoPtr = 0
  Pages = {0, 1}
  SizeOf <- MCSizeOf
  Address <- MCAddress
  PAGE_SIZE = 2
  CSVLength = 2
  MaxObjectRows = 0
  Windows = 3
  SetSize = 2
  PtrHash <- MCPtrHash
  MaxAge = 1
  MaxTold = 2
  MaxAllocated = 11
INVARIANTS
  LiveObjectsExact
