SPECIFICATION FairSpec
CONSTANTS
  Orders = {o1}
  Connections = {c1, c2, c3}
  Methods = {"COD", "BANK_TRANSFER"}
CHECK_DEADLOCK FALSE
INVARIANTS
  OneWriter
  EndingsTrue
PROPERTIES
  ImplementsSaga
  RetriesEnd
