SPECIFICATION Spec

CONSTANTS
  Universe <- MCUniverse
  MaxEvents = 3
  SupplierLists <- MCSupplierLists
  MaxCalls = 2
  MaxRestarts = 1

INVARIANTS
  StoredExactly
  RewardsBelong
  OverserviceAgrees
  CountersMatchRows

PROPERTIES
  ReplayChangesNothing
