\* What the scheduler relies on, with reads.
SPECIFICATION Spec
CONSTANTS
  QueueSlots = 3
  RetryLimit = 1
  CounterMod = 4
  AddrSpace = 2
  Word <- MCWord
  Commands <- MCReads
  Answers <- MCAnswers
  MaxRequests = 1
  RspTicks = 1
  Damages <- MCDamages
  MaxPending = 2
PROPERTIES
  ImplementsController
CHECK_DEADLOCK FALSE
