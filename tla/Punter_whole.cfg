SPECIFICATION Spec
CONSTANTS
  FileSizes = {52, 248, 300}
  PayloadMax = 248
  Retries = 10
  MaxFaults = 0
  Faults = {}
INVARIANT WholeFileIsStored
