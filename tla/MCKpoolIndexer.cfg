SPECIFICATION KpoolSpec
CONSTANTS
  NumSlots = 2
  KPool = 2
  TopK = 4
  MaxVerify = 3
  MaxBatched = 5
  MaxLen = 6
INVARIANTS
  PoolsAreOwn
  AttendsOwnPast
  ProfileCoversLogits
