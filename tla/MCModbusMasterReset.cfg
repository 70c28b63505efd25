\* An interrupt that hits vResetMasterState.
SPECIFICATION Spec
CONSTANTS
  RspTicks = 2
  Commands <- MCCommands
  Frames <- MCFrames
PROPERTIES
  OnlyWholeAnswers
