SPECIFICATION Spec
CONSTANTS
  Orders = {o1}
  Workers = {w1, w2}
  Methods = {"COD", "BANK_TRANSFER"}
  RetryLimit = 2
  MaxResumes = 1
  MaxCommands = 7
SYMMETRY WorkerSymmetry
CONSTRAINT FewCommands
CHECK_DEADLOCK FALSE
INVARIANTS
  ProgressConsistent
  TerminalSettled
  CommandOutstanding
  InterventionDeserved
  RetryBudget
  NoBacklog
PROPERTIES
  NoPrematureResend
