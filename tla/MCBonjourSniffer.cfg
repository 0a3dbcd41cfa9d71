CONSTANTS
  Types <- HomeTypes
  Services = {"player", "printer"}
  MaxSniffers = 2
  MaxFound <- ThreeAndOne
SPECIFICATION Spec
INVARIANTS InOrder RefusedByOther StopIsComplete
PROPERTIES StopComesToRest
CHECK_DEADLOCK FALSE
