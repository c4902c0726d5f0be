SPECIFICATION Spec
CONSTANTS
  t0 = t0
  t1 = t1
  t2 = t2
  s0 = s0
  s1 = s1
  Slot <- MCSlot
  MaxReqs = 2
  NumSteps = 2
  Token <- MCToken
  TopK = 2
  Candidates <- MCCandidates
  Draws <- MCDraws
  ZeroId = t0
  Anchor = Anchor
  NoSlot = NoSlot
  NegInf = NegInf
INVARIANTS
  ScoresFollowTheWalk
PROPERTIES
  ImplementsFreshRows
