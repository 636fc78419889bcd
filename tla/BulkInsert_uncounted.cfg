SPECIFICATION Spec
CONSTANTS
  MaxRows = 5
  MaxBatch = 3
  MaxFaults = 1
INVARIANT WholeCall
