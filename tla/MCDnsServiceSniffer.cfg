CONSTANTS
  Addresses = {"wlan0", "eth0"}
  MaxSniffers = 2
SPECIFICATION Spec
INVARIANTS MulticastWhileListening NoLeak
PROPERTY StopEnds
CHECK_DEADLOCK FALSE
