SPECIFICATION Spec
CONSTANTS
  NoValue = NoValue
  NoProfile = NoProfile
  NoContext = NoContext
  NotEvaluated = NotEvaluated
  TicksPerDay = 4
  HistoricalCycles = 4
  StressHorizonDays = 3
  Checkpoints = {}
  Households <- MCOneHousehold
  LastDate <- MCLastDate
  Movements <- MCNothing
  Classes <- MCClasses
  Semantics <- MCNothing
  CashAmounts <- MCNothing
  PurseCounts <- MCNothing
  Plans <- MCNothing
  Savings <- MCNothing
  Reservations <- MCNothing
  Thresholds <- MCNothing
  OwnerEstimates <- MCNothing
  BoundaryDates <- MCNothing
  Openings <- MCNothing
  SampledDates <- MCDates
  SampledDecisions <- MCDecisions
PROPERTIES
  CorrectionsAreRecomputed
CHECK_DEADLOCK FALSE
