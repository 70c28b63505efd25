\* Is a momentary coil off when its key is up?
SPECIFICATION Spec
CONSTANTS
  QueueSlots = 3
  RetryLimit = 1
  CounterMod = 4
  AddrSpace = 2
  Word <- MCWord
  Answers <- MCAnswers
  Others <- MCOthers
  MaxRequests = 5
INVARIANTS
  CoilFollowsKey
CHECK_DEADLOCK FALSE
