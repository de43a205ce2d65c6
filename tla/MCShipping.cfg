SPECIFICATION Spec
CONSTANTS
  Sessions = {t1, t2}
  Commands <- OrderCommands
INVARIANTS
  OneFinalAnswer
  ShipmentRecordTrue
PROPERTIES
  ImplementsParticipant
