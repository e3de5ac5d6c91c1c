SPECIFICATION Spec
CONSTANTS
  k1 = k1
  b1 = b1
  b2 = b2
  p1 = p1
  p2 = p2
  p3 = p3
  NoBucket = NoBucket
  Keys <- MCKeys
  Buckets <- MCBuckets
  Procs <- MCProcs
  Limit = 3
  Window = 2
  IdleLimit = 6
  MaxLag = 1
  MaxNow = 9
SYMMETRY MCSymmetry
INVARIANTS
  TypeOK
  BucketConforms
  KeyConforms
