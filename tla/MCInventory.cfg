SPECIFICATION Spec
CONSTANTS
  Sessions = {t1, t2}
  Commands <- MCCommands
  Products <- MCProducts
  ActiveProducts <- MCActiveProducts
  InitialStock <- MCStock
INVARIANTS
  TypeOK
  StockConserved
  OneAnswerPerCommand
  NeverOversold
  NoWaitCycle
PROPERTIES
  ImplementsParticipant
