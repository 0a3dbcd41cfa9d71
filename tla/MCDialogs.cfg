CONSTANTS
  Networks = {"wifi", "FreeWifi", "mobile"}
  Usable = {"wifi"}
  Keys = {"tv", "guide", "select"}
  Code <- HomeCode
  MaxClicks = 6
SPECIFICATION Spec
INVARIANTS AlertCurrent AlertOutOfTheWay NoDialogWhenPaused CodeExact
