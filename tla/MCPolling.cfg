\* Polling under every interleaving with the line, the slave and the user.
SPECIFICATION Spec
CONSTANTS
  AddrSpace = 8
  MaxMergeGap = 2
  MaxReadLength = 4
  MaxReadRequests = 9
  QueueSlots = 2
  MaxAddrList = 4
  Pages <- MCPages
  AlarmPage = "alarms"
  Alarm <- MCAlarm
  Items <- MCItems
  Monitors <- MCMonitors
  UserWords = {}
  DeviceValues <- MCDevices
  SlaveChanges <- MCChanges
INVARIANTS
  TypeOK
  LoggedOnce
PROPERTIES
  RoundsComplete
  ReportsFollowDevice
  AlarmFollowsDevice
