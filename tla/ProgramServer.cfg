SPECIFICATION ServerSpec
CHECK_DEADLOCK FALSE
CONSTANTS
  Contents = {1, 2, 3, 4, 5}
  Starting = {1, 5}
  ListSize = 2
  Viewers = {viewer}
INVARIANTS PlaysWhatWasListed
PROPERTIES BothServersOrNone NotFoundOnlyBehind
