SPECIFICATION Spec
CONSTANTS
  Types = {"REGISTER", "COMPLETE"}
  AnyType = "ANY"
  Payloads <- MCPayloads
  FaultMenu <- MCMenu
  Header = 12
  MaxFaults = 2
  MaxSent <- MCLongStream
  MaxBoth = 1
  MaxConns = 1
INVARIANTS
  TransportTypeOK
  SentAsPrescribed
  StaysInStep
  UnrelatedUntouched
  StatsNotExaggerated
CHECK_DEADLOCK FALSE
