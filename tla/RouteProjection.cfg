\* Two appliers of genuine and stray facts over a history that is trimmed while they work.
SPECIFICATION Spec
CONSTANTS
  a1 = a1
  a2 = a2
  Authorizations = {a1, a2}
  RouteVersion <- RouteVersionDef
  MaxRoute = 3
  Nothing = Nothing
  Ackers = {k1}
  Bodies = {b1}
  MaxRequests = 1
  MaxFaults = 0
  Appliers = {p1, p2}
  Tokens = {t1, t2, t3}
  Strays <- StraysDef
CHECK_DEADLOCK FALSE
INVARIANTS TypeOK VisibleIsAuthorized ProjectionIsRoute NoSilentGap
PROPERTIES FactLedgerIsPermanent
