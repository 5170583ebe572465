SPECIFICATION Spec
CONSTANT
  Sessions <- MCSessions
INVARIANTS
  TypeOK
  MeasuresTrue
  RatingsTrue
  StatusTrue
  ChargeOrDischarge
  TornOnlyOnExchange
CHECK_DEADLOCK FALSE
