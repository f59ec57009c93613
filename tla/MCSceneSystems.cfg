CONSTANTS
  Types = {a, b, c}
  Stages = {early, late}
  MaxDepth = 2
SPECIFICATION Spec
INVARIANTS HeldEntryStays AttachDetachPaired
