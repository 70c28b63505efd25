SPECIFICATION Spec
CONSTANTS
  Children <- MCChildren
  Kind <- MCKind
  Target <- MCTarget
  Root = 0
  AlarmMenu = 500
  NoItem = 0
  Height <- MCHeight
  Area = 48
  HistorySlots = 8
  Low <- MCLow
  High <- MCHigh
  Options <- MCOptions
  Steps <- MCSteps
  Registers <- MCRegisters
  Inputs = 1
  Outputs = 3
  PageSize = 2
  Alarms <- MCAlarms
  AlarmHeight <- MCAlarmHeight
  AlarmArea = 32
  LogSize = 3
INVARIANTS
  TypeOK
  HistoryIsPath
  CursorShown
  AlarmRowShown
  LogMatchesAlarm
  EditedIsShown
  MomentaryPaired
  ScreenPolled
PROPERTIES
  RedrawAfterChange
  WritesAreSound
