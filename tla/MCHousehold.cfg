SPECIFICATION Spec
CONSTANTS
  NoValue = NoValue
  NoProfile = NoProfile
  NoContext = NoContext
  NotEvaluated = NotEvaluated
  TicksPerDay = 4
  HistoricalCycles = 4
  StressHorizonDays = 3
  Checkpoints = {}
  Households <- MCHouseholds
  LastDate <- MCLastDate
  Movements <- MCMovements
  Classes <- MCClasses
  Semantics <- MCSemantics
  CashAmounts <- MCCashAmounts
  PurseCounts <- MCCounts
  Plans <- MCPlans
  Savings <- MCSavings
  Reservations <- MCReservations
  Thresholds <- MCThresholds
  OwnerEstimates <- MCEstimates
  BoundaryDates <- MCBoundaryDates
  Openings <- MCOpenings
  SampledDates <- MCDates
  SampledDecisions <- MCDecisions
INVARIANTS
  TypeOK
  
  SafeAmountIsEvidenced
  CapitalExplainsTheLedger
  NoNeedCountsTwice
  LastCycleAsksForTheRest
  CalendarCountsDays
  StepDownGivesUpTheLeast
PROPERTIES
  
  CashFollowsMoney
CHECK_DEADLOCK FALSE
