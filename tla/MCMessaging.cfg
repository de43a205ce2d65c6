SPECIFICATION FairSpec
CONSTANTS
  m1 = m1
  bad = bad
  Messages <- Sent
  KeyOf <- SentKeys
  Invalid = {bad}
  Reversals = {"refund"}
  Relays = {r1}
  Handlers = {h1, h2}
  RetryLimit = 1
  DeliveryLimit = 1
  MaxPublishes = 1
CHECK_DEADLOCK FALSE
INVARIANTS
  NothingLost
  OneTrueResult
  EffectOnce
PROPERTIES
  Handled
