SPECIFICATION Spec
CONSTANTS
  Sessions = {t1, t2}
  Commands <- CodCommands
INVARIANTS
  CodRefundIsNoop
