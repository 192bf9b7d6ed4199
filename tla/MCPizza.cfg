CONSTANTS
  NumPizzas <- MCNumPizzas
  QChunk = 2
  MaxSpurious = 2
SPECIFICATION FairSpec
INVARIANTS TypeOK PizzasRight Counts NoLostWakeup AllDone FreeIsSafe
PROPERTY Terminates
CHECK_DEADLOCK FALSE
