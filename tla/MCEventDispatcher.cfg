SPECIFICATION FairServiceSpec
CONSTANTS
  Conns = {c1, c2}
  NoConn = none
  MaxEvents = 3
  Pool = 2
  Requests = {r1, r2}
  SigThread = sigThread
  NoHolder = noHolder
INVARIANTS
  TypeOK
  FreshDelivery
  NoLostWakeup
PROPERTIES
  DeliveredInOrder
  ServedUnlessOvertaken
  RequestServed
  EndsAnnounced
