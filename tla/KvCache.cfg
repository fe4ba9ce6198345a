SPECIFICATION Spec
CONSTANTS
  s1 = s1
  s2 = s2
  s3 = s3
  h1 = h1
  h2 = h2
  h3 = h3
  Seqs = {s1, s2, s3}
  Blocks = {b1, b2, b3, b4, b5}
  NoBlock = NoBlock
  Hashes = {h1, h2, h3}
  NoHash = NoHash
  Chain <- MCChain
SYMMETRY BlockSymmetry
CHECK_DEADLOCK FALSE
INVARIANTS
  BlocksAccounted
  IndexSound
PROPERTIES
  SharingSpec
