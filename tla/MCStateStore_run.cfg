SPECIFICATION Spec
CONSTANTS
  s1 = s1
  s2 = s2
  NoValue = NoValue
  Commands <- MCCommands
  Subscribers <- MCSubscribers
  MaxRevision = 4
INVARIANTS
  FieldsAgree
  EveryChangeOnce
SYMMETRY MCSymmetry
CHECK_DEADLOCK FALSE
