CONSTANTS
  ReportIds = {1}
  KeyCodes = {42}
  Notifications = {"FOILS_HID_CONNECTED"}
  Addresses = {"numeric", "unparsable"}
  PipeCapacity = 1
  MaxCommands = 1
  MaxStatus = 1
  MaxBacklog = 1
SPECIFICATION SafeSpec
INVARIANT SessionInv
CHECK_DEADLOCK FALSE
