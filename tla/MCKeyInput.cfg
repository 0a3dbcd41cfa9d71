CONSTANTS
  Boxes = {"a", "b", "c"}
  Connectable = {"a", "b"}
  ClickKeys = {"ok"}
  TouchKeys = {"up"}
  SpecialKeys = {"vol"}
  ReportOf <- ReportTable
  Macros <- TwoMacros
SPECIFICATION Spec
INVARIANTS OneCallback MacroOnOneBox MacroUninterrupted NoStuckKey
PROPERTY MacroEnds
