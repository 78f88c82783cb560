----------------------------- MODULE MCTimeWheel ------------------------------
(* Instances of TimeWheel for TLC.                                          *)
EXTENDS TimeWheel, CronTriggerBits

\* Three months; only the second has a third day.
MCMonthLength == <<2, 3, 2>>

Set(bits, value) == SetField(bits, value, FALSE, 32)

\* All and some of each field, as an application sets them up.  A day of the week
\* (2 is Sunday), a day of the month, either, or none; an entry without a minute
\* is dropped.
MonthBits == {Set(Unset, 1), Set(Set(Unset, 1), 2), Set(Unset, kEvery)}
DayOfWeekBits == {Unset, Set(Unset, 2), AllEvery(32)}
DayOfMonthBits == {Unset, Set(Unset, 3), ClearField(Set(Unset, kEvery), 2)}
HourBits == {Set(Unset, 0), SetField(Set(Unset, 0), 2, kOnly, 32)}
MinuteBits == {Unset, SetField(Unset, 1, FALSE, 64), ClearField(AllEvery(64), 1)}

SomeTriggers ==
    [months : {IsSet(bits, Months) : bits \in MonthBits},
     daysOfWeek : {IsSet(bits, DaysOfWeek) : bits \in DayOfWeekBits},
     daysOfMonth : {IsSet(bits, DaysOfMonth) : bits \in DayOfMonthBits},
     hours : {IsSet(bits, Hours) : bits \in HourBits},
     minutes : {IsSet(bits, Minutes) : bits \in MinuteBits}]

=============================================================================
