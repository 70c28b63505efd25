\* The scheduler over a Modbus master that may return anything.
SPECIFICATION Spec
CONSTANTS
  QueueSlots = 3
  RetryLimit = 2
  CounterMod = 5
  AddrSpace = 2
  Word <- MCWord
  Commands <- MCCommands
  Answers <- MCAnswers
  MaxRequests = 3
INVARIANTS
  TypeOK
  ServedInOrder
  AcceptedReadsKept
  AttemptsBounded
  GivenUpAfterFailures
  ErrorShown
PROPERTIES
  QueuesDrain
CHECK_DEADLOCK FALSE
