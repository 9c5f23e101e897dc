CONSTANTS
  Files = {f1}
  Outputs = {f1}
  OutputOf <- OwnOutput
  DataOf <- OwnData
  a = a
  b = b
  Foreign = Foreign
  None = None
  MaxWrites = 3
  Retries = {}
SPECIFICATION Spec
PROPERTY ForeignOutputsKept
CHECK_DEADLOCK FALSE
