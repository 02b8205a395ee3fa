SPECIFICATION FairSpec
CONSTANTS
  Subs = {c1}
  MaxEvents = 5
  BusCapacity = 2
  SockCapacity = 2
CHECK_DEADLOCK FALSE
INVARIANTS OrderKept NothingMissed
PROPERTIES Delivers GoneForgotten QueueDrains UnsubscribeWorks
