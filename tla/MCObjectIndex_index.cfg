CONSTANTS
  Leaf = 2
  Fan = 2
  MaxDepth = 3
  Batches = {2, 3}
  Body <- OneInThree
  Limits = {3}
  Readers = {r1}
  MaxMade = 9
  MaxRev = 3
  None = None
SPECIFICATION Spec
INVARIANTS TypeOK ReadsBack ListingJoinsUp
PROPERTIES OnlySpineRewritten
