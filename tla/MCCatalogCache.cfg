\* Catalog answers over two workers whose syncs may overlap.
SPECIFICATION CatalogSpec
CONSTANTS
  Workers = {w1, w2}
  MaxSyncs = 1
  MaxCrashes = 1
INVARIANTS
  
  CachedIsCoherent
