SPECIFICATION FairSpec
CONSTANTS
  MonthsPerYear = 2
  DaysPerMonth = 2
  SlotsPerDay = 4
  DaysIn <- MCDaysIn
  Summer <- MCSummer
  HourMarks = 2
  WhPerKwh = 1
  ImpulseProKwh = 1
  Blank = 9
  NoBuffer = NoBuffer
  Images <- MCCleared
  NoFile = NoFile
  Partial = Partial
  Garbage = Garbage
  BootMoments <- DateAgrees
  Events = {"restart", "web"}
  MaxPulses = 2
INVARIANTS
  TypeOK
  TableStored
  MonthIsSumOfDays
  DayMatchesTable
  PeakOfCurve
  LastFiveMinutes
PROPERTIES
  DeletedYearIsBackedUp
  PulsesGetBooked
