\* What is_sync_running promises, over two workers.
SPECIFICATION SyncSpec
CONSTANTS
  Workers = {w1, w2}
  MaxSyncs = 2
  MaxCrashes = 0
INVARIANT
  FlagCoversEverySync
