SPECIFICATION Spec
CONSTANTS
  s1 = s1
  s2 = s2
  n1 = n1
  n2 = n2
  n3 = n3
  Single <- MCSingle
  Nested <- MCNested
  MaxSize = 3
INVARIANTS
  TypeOK
  ConnectionsConserved
  StallOnlyByNestedCalls
PROPERTIES
  CallsAnsweredUnlessStalled
\* Three nested calls may stall the server for good.
CHECK_DEADLOCK FALSE
