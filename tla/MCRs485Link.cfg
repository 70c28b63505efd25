\* The link with two writes.
SPECIFICATION Spec
CONSTANTS
  QueueSlots = 3
  RetryLimit = 1
  CounterMod = 4
  AddrSpace = 2
  Word <- MCWord
  Commands <- MCWrites
  Answers <- MCAnswers
  MaxRequests = 2
  RspTicks = 1
  Damages <- MCDamages
  MaxPending = 2
INVARIANTS
  DoneSinglesExecuted
PROPERTIES
  MatchesUnlessLate
CHECK_DEADLOCK FALSE
