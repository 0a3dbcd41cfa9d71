CONSTANTS
  ReportIds = {1, 2}
  KeyCodes = {42}
  Notifications = {"FOILS_HID_CONNECTED"}
  Addresses = {"numeric"}
  PipeCapacity = 2
  MaxCommands = 3
  MaxStatus = 1
  MaxBacklog = 0
SPECIFICATION SafeSpec
INVARIANTS TypeOK NoFault KeysInOrder NoKeyLeftPressed
PROPERTY NothingLost
