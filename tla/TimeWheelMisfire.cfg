SPECIFICATION Spec
CONSTANTS
    MinutesPerHour = 3
    HoursPerDay = 3
    DaysPerWeek = 2
    MonthLength <- MCMonthLength
    Triggers <- SomeTriggers
    MaxCrons = 1
    MaxEarly = 0
INVARIANT FiresOnlyWhenDue
