------------------------------ MODULE TimeWheel -------------------------------
(****************************************************************************)
(* Cron entries in the calendar of wheels (src/Core/TimeWheel.cc), ticked   *)
(* by the main loop's timer (OnCronTimerTick in src/Core/EngineImpl.cc).    *)
(*                                                                          *)
(* An entry waits in the slot of the next month that its trigger sets, then *)
(* in that of a day of the week and in that of a day of the month (two      *)
(* copies), of an hour, of a minute, and fires.  Each wheel looks for the   *)
(* next set value from the current one on, and wraps around; no wheel looks *)
(* at the other fields again.  A tick handles all wheels, and a fired entry *)
(* goes back to the month wheel for the next tick.                          *)
(*                                                                          *)
(* A slot's list is the number of copies of each entry in it: the order of  *)
(* the list only decides the order in which the entries of a minute fire.   *)
(* The sizes of the calendar are parameters.  The clock is external: local  *)
(* time without daylight saving and leap days.                              *)
(****************************************************************************)
EXTENDS Integers, Sequences, FiniteSetsExt

CONSTANTS MinutesPerHour,   \* 60
          HoursPerDay,      \* 24
          DaysPerWeek,      \* 7
          MonthLength,      \* the number of days of each month
          Triggers,         \* the CronTriggers that entries may have
          MaxCrons,         \* entries that are registered
          MaxEarly          \* ticks of a minute that the timer brings too early

Minutes == 0 .. (MinutesPerHour - 1)
Hours == 0 .. (HoursPerDay - 1)
DaysOfWeek == 1 .. DaysPerWeek
WeekDays == 0 .. (DaysPerWeek - 1)          \* struct tm counts from Sunday, as 0
Months == 1 .. Len(MonthLength)
DaysOfMonth == UNION {1 .. MonthLength[m] : m \in Months}

\* The bits that are set in the five fields; kEvery sets a whole range.
CronTrigger ==
    [months : SUBSET Months, daysOfWeek : SUBSET DaysOfWeek,
     daysOfMonth : SUBSET DaysOfMonth, hours : SUBSET Hours, minutes : SUBSET Minutes]

ASSUME WheelAssumption ==
    /\ MinutesPerHour \in Nat \ {0}
    /\ HoursPerDay \in Nat \ {0}
    /\ DaysPerWeek \in Nat \ {0}
    /\ MonthLength \in Seq(Nat \ {0})
    /\ MonthLength # <<>>
    /\ Triggers \subseteq CronTrigger
    /\ MaxCrons \in Nat
    /\ MaxEarly \in Nat

Ids == 1 .. MaxCrons

VARIABLES
    now,             \* what localtime_r says
    phase,           \* "setup" before uv_run; then the tick is "due" or "done"
    early,           \* ticks of this minute after its first
    crons,           \* the triggers of the entries, by Id
    slotMonth, slotDayOfWeek, slotDayOfMonth, slotHour, slotMinute,
    fired            \* how often the last tick fired each entry

wheels == <<slotMonth, slotDayOfWeek, slotDayOfMonth, slotHour, slotMinute>>
vars == <<now, phase, early, crons, wheels, fired>>

Clock == [month : Months, dayOfMonth : DaysOfMonth, weekDay : WeekDays,
          hour : Hours, minute : Minutes]

\* How many copies of each entry a slot's list holds.
CopyCount == [Ids -> Nat]
Empty == [c \in Ids |-> 0]

TypeOK ==
    /\ now \in Clock
    /\ now.dayOfMonth <= MonthLength[now.month]
    /\ phase \in {"setup", "due", "done"}
    /\ early \in 0 .. MaxEarly
    /\ crons \in Seq(Triggers)
    /\ Len(crons) <= MaxCrons
    /\ slotMonth \in [Months -> CopyCount]
    /\ slotDayOfWeek \in [{0} \cup DaysOfWeek -> CopyCount]
    /\ slotDayOfMonth \in [DaysOfMonth -> CopyCount]
    /\ slotHour \in [Hours -> CopyCount]
    /\ slotMinute \in [Minutes -> CopyCount]
    /\ fired \in CopyCount

Init ==
    /\ now \in {t \in Clock : t.dayOfMonth <= MonthLength[t.month]}
    /\ phase = "setup"
    /\ early = 0
    /\ crons = <<>>
    /\ slotMonth = [s \in Months |-> Empty]
    /\ slotDayOfWeek = [s \in {0} \cup DaysOfWeek |-> Empty]
    /\ slotDayOfMonth = [s \in DaysOfMonth |-> Empty]
    /\ slotHour = [s \in Hours |-> Empty]
    /\ slotMinute = [s \in Minutes |-> Empty]
    /\ fired = Empty

-----------------------------------------------------------------------------
(* The clock.                                                               *)

EndOfHour == now.minute = MinutesPerHour - 1
EndOfDay == EndOfHour /\ now.hour = HoursPerDay - 1
EndOfMonth == EndOfDay /\ now.dayOfMonth = MonthLength[now.month]

NextMinute ==
    [minute |-> (now.minute + 1) % MinutesPerHour,
     hour |-> IF EndOfHour THEN (now.hour + 1) % HoursPerDay ELSE now.hour,
     weekDay |-> IF EndOfDay THEN (now.weekDay + 1) % DaysPerWeek ELSE now.weekDay,
     dayOfMonth |-> IF EndOfMonth THEN 1
                    ELSE IF EndOfDay THEN now.dayOfMonth + 1 ELSE now.dayOfMonth,
     month |-> IF EndOfMonth THEN (now.month % Len(MonthLength)) + 1 ELSE now.month]

SundayIsZero == now.weekDay                                        \* a mutant

\* UpdateCurrentInfo: Sunday is the last day of the week.
CurrentDayOfWeek == IF now.weekDay = 0 THEN DaysPerWeek ELSE now.weekDay

\* OnCronTimerTick has armed the timer for the start of the next minute.
MinutePasses ==
    /\ phase = "done"
    /\ now' = NextMinute
    /\ phase' = "due"
    /\ early' = 0
    /\ UNCHANGED <<crons, wheels, fired>>

\* The milliseconds to the next minute are rounded down, so the timer may fire
\* in the last millisecond of the minute that it has already ticked.
ComesEarly ==
    /\ phase = "done"
    /\ early < MaxEarly
    /\ phase' = "due"
    /\ early' = early + 1
    /\ UNCHANGED <<now, crons, wheels, fired>>

\* InitializeCron: the first tick comes immediately.  Time does not pass here
\* between registration and the start of the loop.
InitializeCron ==
    /\ phase = "setup"
    /\ phase' = "due"
    /\ UNCHANGED <<now, early, crons, wheels, fired>>

-----------------------------------------------------------------------------
(* The wheels.                                                              *)

SearchAfter(S, current) ==                                         \* a mutant
    LET later == {v \in S : v > current}
    IN  IF later # {} THEN Min(later) ELSE IF S # {} THEN Min(S) ELSE -1

\* The two loops of every wheel: the first set value from the current one on,
\* else the first from the start; -1 if there is none.
Search(S, current) ==
    LET later == {v \in S : v >= current}
    IN  IF later # {} THEN Min(later) ELSE IF S # {} THEN Min(S) ELSE -1

\* Where each entry goes next in the five wheels.
ToMonth == [c \in DOMAIN crons |-> Search(crons[c].months, now.month)]
ToDayOfWeek == [c \in DOMAIN crons |-> Search(crons[c].daysOfWeek, CurrentDayOfWeek)]
ToDayOfMonth == [c \in DOMAIN crons |-> Search(crons[c].daysOfMonth, now.dayOfMonth)]
ToHour == [c \in DOMAIN crons |-> Search(crons[c].hours, now.hour)]
ToMinute == [c \in DOMAIN crons |-> Search(crons[c].minutes, now.minute)]

\* Every element of the list goes to its target slot.  One without a target,
\* of an invalid trigger, is dropped.
Spread(wheel, list, target) ==
    [s \in DOMAIN wheel |-> [c \in Ids |->
        wheel[s][c] + IF list[c] > 0 /\ target[c] = s THEN list[c] ELSE 0]]

\* The list has been spliced away, or cleared.
Cleared(wheel, s) == [wheel EXCEPT ![s] = Empty]

AllCopies(list) == list                                            \* a mutant

\* sort and unique: one copy of each entry is left.
Unique(list) == [c \in Ids |-> IF list[c] > 0 THEN 1 ELSE 0]

NoReset(list) == Empty                                             \* a mutant

\* What goes back to the month wheel after firing.
Reset(list) == list

\* Engine::RegisterCronJob, before Run.  A trigger without a month is rejected.
AddCron(trigger) ==
    /\ phase = "setup"
    /\ Len(crons) < MaxCrons
    /\ trigger.months # {}
    /\ crons' = Append(crons, trigger)
    /\ slotMonth' = [slotMonth EXCEPT ![Search(trigger.months, now.month)][Len(crons) + 1] = 1]
    /\ UNCHANGED <<now, phase, early, slotDayOfWeek, slotDayOfMonth, slotHour, slotMinute, fired>>

\* OnCronTimerTick and TickMinute.
TickMinute ==
    /\ phase = "due"
    /\ phase' = "done"
    /\ LET month == slotMonth[now.month]
           dayOfWeek == Spread(slotDayOfWeek, month, ToDayOfWeek)
           dayOfMonth == Spread(slotDayOfMonth, month, ToDayOfMonth)
           hour == Spread(Spread(slotHour, dayOfWeek[CurrentDayOfWeek], ToHour),
                          dayOfMonth[now.dayOfMonth], ToHour)
           minute == Spread(slotMinute, hour[now.hour], ToMinute)
           due == Unique(minute[now.minute])
       IN  /\ fired' = due
           /\ slotMonth' = Spread(Cleared(slotMonth, now.month), Reset(due), ToMonth)
           /\ slotDayOfWeek' = Cleared(dayOfWeek, CurrentDayOfWeek)
           /\ slotDayOfMonth' = Cleared(dayOfMonth, now.dayOfMonth)
           /\ slotHour' = Cleared(hour, now.hour)
           /\ slotMinute' = Cleared(minute, now.minute)
    /\ UNCHANGED <<now, early, crons>>

Next ==
    \/ \E trigger \in Triggers : AddCron(trigger)
    \/ InitializeCron
    \/ MinutePasses
    \/ ComesEarly
    \/ TickMinute

Spec == Init /\ [][Next]_vars

\* The main loop runs and time passes, from registration on.
FairSpec ==
    /\ Spec
    /\ WF_vars(InitializeCron)
    /\ SF_vars(MinutePasses)
    /\ WF_vars(TickMinute)

-----------------------------------------------------------------------------
(* Properties.                                                              *)

Registered == DOMAIN crons

\* A trigger's minute: the days of the week and of the month are alternatives,
\* as in "dispatch both" (TimeWheel.cc).
Matches(c) ==
    LET t == crons[c]
    IN  /\ now.month \in t.months
        /\ CurrentDayOfWeek \in t.daysOfWeek \/ now.dayOfMonth \in t.daysOfMonth
        /\ now.hour \in t.hours
        /\ now.minute \in t.minutes

Valid(t) ==
    /\ t.months # {}
    /\ t.daysOfWeek \cup t.daysOfMonth # {}
    /\ t.hours # {}
    /\ t.minutes # {}

\* A trigger fires in the minutes that it matches and in no other (the test
\* MatchingTriggerFiresOnTick, and what a trigger is).
FiresOnlyWhenDue ==
    phase = "done" => \A c \in Registered : fired[c] > 0 => Matches(c)

\* A new month has begun under a copy that waits in the month wheel, or that
\* waits for a day of the month before, such as its 31st.
Stranded(c) ==
    \/ \E m \in Months \ {now.month} : slotMonth[m][c] > 0
    \/ \E d \in DaysOfMonth \ {ToDayOfMonth[c]} : slotDayOfMonth[d][c] > 0

\* No entry misses a minute that it matches, wherever the wheels have put its
\* copies, unless the end of a month has stranded one.
MissedOnlyStranded ==
    phase = "done" => \A c \in Registered : Matches(c) => fired[c] > 0 \/ Stranded(c)

\* Although an entry travels as two copies, a tick fires it once, and in one of
\* its minutes (of any hour).
OnceAndInItsMinute ==
    \A c \in Ids :
       /\ fired[c] <= 1
       /\ phase = "done" /\ fired[c] = 1 => c \in Registered /\ now.minute \in crons[c].minutes

Held(wheel, c) == \E s \in DOMAIN wheel : wheel[s][c] > 0

\* Copies are moved, never lost with their last one: for each of its two day
\* fields an entry has a copy in that day wheel, or in one of the other three.
EntriesKept ==
    \A c \in Registered : Valid(crons[c]) =>
       \/ Held(slotMonth, c) \/ Held(slotHour, c) \/ Held(slotMinute, c)
       \/ /\ crons[c].daysOfWeek # {} => Held(slotDayOfWeek, c)
          /\ crons[c].daysOfMonth # {} => Held(slotDayOfMonth, c)

\* Every valid entry fires again and again, whatever its trigger: "The trigger
\* will still fire eventually" (comment in TimeWheel_test.cc).
FiresAgain ==
    \A c \in Ids : []<>(c \in Registered /\ Valid(crons[c]) => fired[c] > 0)

-----------------------------------------------------------------------------
(* Why the safety properties hold: the inductive invariant.                 *)

\* A copy in one of three wheels is where a search from now would put it: until
\* its slot comes, each slot that comes first is one that the trigger leaves out.
\* (A month may end before a day of the month or a month comes.)
WhereSearched ==
    \A c \in Ids :
       /\ \A s \in DOMAIN slotDayOfWeek :
             slotDayOfWeek[s][c] > 0 => c \in Registered /\ s = ToDayOfWeek[c]
       /\ \A s \in Hours : slotHour[s][c] > 0 => c \in Registered /\ s = ToHour[c]
       /\ \A s \in Minutes : slotMinute[s][c] > 0 => c \in Registered /\ s = ToMinute[c]
       /\ Held(slotMonth, c) \/ Held(slotDayOfMonth, c) => c \in Registered

\* A tick empties the slots of its minute, hour and day of the week.
Swept ==
    phase = "done" => \A c \in Ids :
       /\ slotDayOfWeek[CurrentDayOfWeek][c] = 0
       /\ slotHour[now.hour][c] = 0
       /\ slotMinute[now.minute][c] = 0

IInv ==
    /\ TypeOK
    /\ WhereSearched
    /\ Swept
    /\ EntriesKept
    /\ OnceAndInItsMinute
    /\ MissedOnlyStranded

=============================================================================
