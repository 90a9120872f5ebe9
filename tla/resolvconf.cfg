SPECIFICATION Spec
CONSTANTS
  Owners <- MCOwners
  NameChars = {"a", "b", "c"}
  NameLimit = 2
  Configs = {c1, c2}
  NoRecord = NoRecord
  NoInput = NoInput
  NoChild = NoChild
  MaxStrays = 1
  Faults = {"spawn", "status", "pipe", "cancel", "crash"}
SYMMETRY ConfigSymmetry
INVARIANTS TypeOK SetOkInPlace ResetUndoesSet
PROPERTY RecordsAreSeparate
