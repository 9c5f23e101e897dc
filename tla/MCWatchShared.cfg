CONSTANTS
  Files = {f1, f2}
  Outputs = {o1}
  OutputOf <- OneOutput
  DataOf <- OwnData
  a = a
  b = b
  Foreign = Foreign
  None = None
  MaxWrites = 1
  Retries = {}
SPECIFICATION FairSpec
PROPERTIES Serves
CHECK_DEADLOCK FALSE
