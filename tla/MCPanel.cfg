\* Interrupt and main loop; a panel that is off stays off.
SPECIFICATION Spec
CONSTANTS
  Keys <- MCKeys
  Filter = 1
  Debounce = 4
  LongPress = 4
  RepeatDelay = 2
  RepeatInterval = 1
  QueueSize = 2
  SuspendPeriod = 1
  ShutdownPeriod = 2
  ChordPeriod = 1
  PmPeriod = 2
CHECK_DEADLOCK FALSE
INVARIANTS
  TypeOK
PROPERTIES
  NoEventFromOneBounce
  SleepsForAReason
  KeyWakes
  IdleEnds
  ImplementsKeyStream
