SPECIFICATION FairSpec
CONSTANTS
  cod = cod
  transfer = transfer
  odd = odd
  Tabs = {t1}
  Keys = {k1, k2}
  Contents = {cod, transfer, odd}
  Transfers = {transfer}
  Rejected = {odd}
  MaxRequests = 2
PROPERTIES
  TransferSettles
