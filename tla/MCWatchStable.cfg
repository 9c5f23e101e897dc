CONSTANTS
  Files = {f1}
  Outputs = {f1}
  OutputOf <- OwnOutput
  DataOf <- OwnData
  a = a
  b = b
  Foreign = Foreign
  None = None
  MaxWrites = 2
  Retries = {}
SPECIFICATION Spec
PROPERTY OnlyStableInputs
CHECK_DEADLOCK FALSE
