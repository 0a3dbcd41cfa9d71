CONSTANTS
  Endpoints = {"a", "b", "c"}
  Connectable = {"a", "b"}
  Colors <- TwoColors
  Texts = {"connected"}
  MaxQueue = 2
  MaxLate = 1
  MaxRestarts = 1
SPECIFICATION SafeSpec
INVARIANTS TypeOK NoDuplicates SessionIsActive FocusFollowsActive  ColorsSharedLast PreviousUndoesNext QuietWhenPaused NoNullPaint
CHECK_DEADLOCK FALSE
