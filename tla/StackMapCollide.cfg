SPECIFICATION Spec
CONSTANTS
  Size = 3
  Keys <- MCKeys
  Values = {zero, a, b}
  Zero = zero
  Hash <- MCColliding
  Free = Free
  None = None
  Removable <- MCKeys
INVARIANTS
  EntriesExact
  ProbeComplete
