SPECIFICATION SSpec
CONSTANTS
  Sessions = {1, 2}
  Workloads <- Pairs
INVARIANTS CatalogMatchesStore PanicNeedsDrop DropReported LogReplays
PROPERTIES StatFailsOnlyInDdl
CHECK_DEADLOCK FALSE
