\* The master under any sequence of received bytes.
SPECIFICATION Spec
CONSTANTS
  RspTicks = 2
  Commands <- MCCommands
  Frames <- MCFrames
INVARIANTS
  TypeOK
  NeverStuck
PROPERTIES
  CommandsEnd
