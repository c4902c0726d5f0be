SPECIFICATION Spec
CONSTANTS
  Proc = {server, worker}
  Root = server
  Registry <- MCRegistry
  Value = {"0", "1"}
  Bad = bad
  Unset = unset
  Nothing = nothing
  MaxSets = 1
  MaxNames = 2
INVARIANTS
  FrozenAfterEnable
  DisabledReadsLive
  NameAgrees
  FactorsAligned
CHECK_DEADLOCK FALSE
