CONSTANTS
  Uris = {"a", "b", "c"}
  BadUris = {"bad"}
  Bufs = {1, 2, 3}
  MAX_CACHE_SIZE = 2
  MAX_OBJECT_SIZE = 2
  Threads = {t1, t2, t3}
  Pieces <- MCPieces
  MaxRequests = 3
SPECIFICATION FairSpec
INVARIANTS SemaphoresCount ReadersExcludeWriter CacheIsSound
PROPERTIES OnlyServersDelay AcceptsAgain
