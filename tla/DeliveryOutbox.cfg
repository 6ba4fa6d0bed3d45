\* Two workers, two authorizations, repeated and divergent requests, two failures.
SPECIFICATION OutboxSpec
CONSTANTS
  a1 = a1
  a2 = a2
  Authorizations = {a1, a2}
  RouteVersion <- RouteVersionDef
  MaxRoute = 4
  Nothing = Nothing
  Ackers = {k1, k2}
  Bodies = {b1, b2}
  MaxRequests = 3
  MaxFaults = 2
CHECK_DEADLOCK FALSE
INVARIANTS OneReceipt CompletedTruly
PROPERTY AcceptedIsPermanent
