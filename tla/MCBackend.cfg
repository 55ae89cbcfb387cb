SPECIFICATION BackendSpec
CONSTANTS
  Programs <- Every
  MaxTests = 3
INVARIANTS
  SchedulerAssertionsHold
  DominatorsAreExact
  NestingCountsLoops
  CodeIsComplete
  OnlyCyclesAreMisplaced
  ScheduleKeepsMeaning
CHECK_DEADLOCK FALSE
