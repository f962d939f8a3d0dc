CONSTANTS
  public = public
  market = market
  e1 = e1
  e2 = e2
  e3 = e3
  e4 = e4
  NoEvent = NoEvent
  Routes = {public, market}
  Events = {e1, e2, e3, e4}
  Partitions = {1, 2, 3}
  EventTypes <- MCEventTypes
  RouteOf <- MCRouteOf
  PartitionOf <- MCPartitionOf
  EventTypeOf <- MCEventTypeOf
  Capacity = 1
  MaxRows = 2
  CancelCanHitPut = FALSE

SPECIFICATION FairSpec

INVARIANTS
  TypeOK
  ReturnedIsLossless
  CountedIsAccounted
  PassedReportIsFinal

PROPERTIES
  LosslessCapture
  CountersStableAfterGate
  ShutdownReachesAudit
