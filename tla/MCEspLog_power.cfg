SPECIFICATION Spec
CONSTANTS
  MonthsPerYear = 2
  DaysPerMonth = 1
  SlotsPerDay = 2
  DaysIn <- MCDaysIn
  Summer <- MCWinter
  HourMarks = 1
  WhPerKwh = 4
  ImpulseProKwh = 3
  Blank = 9
  NoBuffer = NoBuffer
  Images <- MCFactory
  NoFile = NoFile
  Partial = Partial
  Garbage = Garbage
  BootMoments <- AllMoments
  Events = {"missed", "crash", "outage", "flash"}
  MaxPulses = 1
INVARIANTS
  PulseBalance
  NoEnergyInvented
  OnlyClearedCellsDiffer
