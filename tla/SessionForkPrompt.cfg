\* A fork late enough in its source for the ids to meet.
CONSTANTS
  Names = {a, b}
  Absent = Absent
  MaxSeq = 12
SPECIFICATION Spec
INVARIANTS
  ForksTakePrompts
CHECK_DEADLOCK FALSE
