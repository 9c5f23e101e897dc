SPECIFICATION Spec
CONSTANTS
  c1 = c1
  c2 = c2
  c3 = c3
  p1 = p1
  p2 = p2
  s1 = s1
  s2 = s2
  None = None
  Calls = {c1, c2, c3}
  Procs = {p1, p2}
  Sources = {s1, s2}
  Contents = {1, 2, 3}
  MaxBytes <- MCMaxBytes
  Policies <- MCPolicies
  Damaged = {2}
  MaxWrites = 1
  ProcOf <- MCProcOf
  SourceOf <- MCSourceOf
  DataOf <- MCDataOf
  SizeOf <- MCSizeOf
CHECK_DEADLOCK FALSE
INVARIANTS
  LimitIsRestored
  RacesNeedTwoProcesses
PROPERTIES
  AnswersAreOfTheSource
