SPECIFICATION Spec
CONSTANTS
  a = a
  b = b
  callback = callback
  stopper = stopper
  Capacity = 3
  Values <- MCValues
  Producers <- OneProducer
  NoValue = NoValue
  Torn = Torn
INVARIANTS
  TypeOK
  NoSlotRace
  CachesLag
PROPERTIES
  ImplementsFifo
