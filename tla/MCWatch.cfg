CONSTANTS
  Files = {f1}
  Outputs = {f1}
  OutputOf <- OwnOutput
  DataOf <- BothData
  a = a
  b = b
  Foreign = Foreign
  None = None
  MaxWrites = 3
  Retries = {TRUE}
SPECIFICATION Spec
INVARIANTS Reopenable CompletedIsRendered
PROPERTIES StableSinceScan ReplacesOnlyRecorded CompletedStays
CHECK_DEADLOCK FALSE
