\* The hyperactive loops of two workers, with overlapping, failing and
\* orphaned syncs.
SPECIFICATION SyncFairSpec
CONSTANTS
  Workers = {w1, w2}
  MaxSyncs = 2
  MaxCrashes = 1
PROPERTIES
  
  SwitchedOnSyncs
