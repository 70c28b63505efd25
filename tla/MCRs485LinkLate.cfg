\* A late answer.
SPECIFICATION Spec
CONSTANTS
  QueueSlots = 3
  RetryLimit = 1
  CounterMod = 4
  AddrSpace = 2
  Word <- MCWord
  Commands <- MCReads
  Answers <- MCAnswers
  MaxRequests = 2
  RspTicks = 1
  Damages <- MCNoDamage
  MaxPending = 2
PROPERTIES
  AnswerMatchesCommand
CHECK_DEADLOCK FALSE
