SPECIFICATION Spec
CONSTANTS
  Sessions = {s1, s2}
  Answers = {a1, a2}
  NoAnswer = NoAnswer
  MaxSessions = 1
  MaxWaiting = 1
SYMMETRY Interchangeable
INVARIANTS TypeOK CancelWakes StatusAgrees UnusedLeavesNothing
PROPERTIES AnswerStands ExpirySparesWork
CHECK_DEADLOCK FALSE
