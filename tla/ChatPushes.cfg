SPECIFICATION PushSpec
CONSTANTS
  Calls = {1, 2, 3}
  Limit = 1
  Messages = 1
  Devices = {d1}
  NoDevice = NoDevice
  Marks = {m1, m2}
  Syncs = {s1}
  MaxReads = 2
  MaxFaults = 1
INVARIANTS
  NoLostSlot
  ShadeIsUnread
CHECK_DEADLOCK FALSE
PROPERTIES ParkedCallRuns
