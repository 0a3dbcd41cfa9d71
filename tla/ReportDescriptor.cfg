SPECIFICATION Spec
INVARIANT ItemPerLine
CHECK_DEADLOCK FALSE
