SPECIFICATION ModelSpec
CONSTANTS
  Model = {g1, g2}
  Known = {g1, g2}
  Sees = {g2}
  Changer = {a1}
  TurnId = {b1}
  NoModel = none
  MaxChanges = 1
  MaxSetbacks = 0
CHECK_DEADLOCK FALSE
INVARIANT SnapshotIsOneModel
