CONSTANTS
  ReportIds = {1}
  KeyCodes = {42}
  Notifications = {"FOILS_HID_CONNECTING", "FOILS_HID_CONNECTED", "FOILS_HID_DROPPED"}
  Addresses = {"numeric"}
  PipeCapacity = 2
  MaxCommands = 1
  MaxStatus = 3
  MaxBacklog = 3
SPECIFICATION SafeSpec
INVARIANTS IndicatorSettles IndicatorCurrent
