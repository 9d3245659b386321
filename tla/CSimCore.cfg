CONSTANTS
  s = 1
  E = 3
  b = 1
  Addresses = {0, 2, 4, 8, 12}
  TraceLength = 5
SPECIFICATION Spec
INVARIANTS CountersOrderSet TagsUnique
PROPERTIES IsLruCache
