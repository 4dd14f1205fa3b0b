SPECIFICATION Spec
CONSTANTS
  Sentinel = {s1, s2, s3}
  Cut = {s1, s2}
  Quorum = 2
  MaxEpoch = 2
  MaxEvents = 0
  Kinds = {}
  Nil = Nil
INVARIANT
  MajorityForTheSameEpoch
CHECK_DEADLOCK FALSE
