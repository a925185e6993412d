CONSTANTS
    SecsPerMin = 3
    MinsPerHour = 2
    HoursPerDay = 2
    IntMax = 16383
    LongMax = 1048575
    ValueSize = 9
    NumberSize = 4
    FracDigits = 2
    YearMax = 2441
    MicroMax = 999
    Unknown = Unknown
    Clock <- MCClock
    ClockStarts <- MCClockStarts
    Dates <- MCDates
    BusyTimes = {13128}
    Micros <- MCMicros
    Ints <- MCInts
    Units <- MCUnits
    Texts <- MCTexts
    Lines <- MCLines
    SomeLines <- MCSomeLines
SPECIFICATION Spec
INVARIANTS TypeOK ReadsWhatWasPut StringEnds StampIsTrue ComesBack
PROPERTY CalendarSpec
