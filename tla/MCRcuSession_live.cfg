CONSTANTS
  ReportIds = {1}
  KeyCodes = {42}
  Notifications = {"FOILS_HID_CONNECTED", "FOILS_HID_DROPPED"}
  Addresses = {"numeric"}
  PipeCapacity = 1
  MaxCommands = 2
  MaxStatus = 2
  MaxBacklog = 1
SPECIFICATION Spec
PROPERTIES ImplementsSession DisconnectReturns PressReleased IndicatorClears
