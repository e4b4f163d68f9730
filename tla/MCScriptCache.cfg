CONSTANTS
  t1 = t1
  t2 = t2
  s1 = s1
  s2 = s2
  k1 = k1
  w1 = w1
  None = None
  Threads <- MCThreads
  Sigs = {s1}
  PubKeys = {k1}
  Witnesses <- MCWitnesses
  Flags = {0}
  Hash64 <- MCHash64
  CAPACITY = 1
  x1 = x1
  x2 = x2
  HashInputs = {x1, x2}
  HASH_CAPACITY = 2
  POOL_LIMIT = 10
SPECIFICATION Spec
INVARIANTS TypeOK CacheTransparent HashCacheTransparent
