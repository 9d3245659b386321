CONSTANTS
  Uris = {"a", "b"}
  BadUris = {}
  Bufs = {1, 2, 3}
  MAX_CACHE_SIZE = 1
  MAX_OBJECT_SIZE = 1
  Threads = {t1, t2}
  Pieces <- MCShort
  MaxRequests = 3
SPECIFICATION Spec
INVARIANTS HitSendsResponse
