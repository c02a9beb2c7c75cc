SPECIFICATION MCSpec
CONSTANTS
  client1 = client1 client2 = client2 reader1 = reader1
  Client = {client1, client2}
  Reader = {reader1}
  Nobody = Nobody
  Setting <- Settings
  MaxEffects = 2
INVARIANT EveryLedgerAgrees
PROPERTIES KeepsPromise UnsafeIsNotRepeated FairClaimEnds
