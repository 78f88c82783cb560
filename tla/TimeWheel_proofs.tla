--------------------------- MODULE TimeWheel_proofs ---------------------------
(****************************************************************************)
(* Proofs about TimeWheel, for every calendar, set of triggers and number   *)
(* of entries: no entry is lost, a tick fires an entry at most once and in  *)
(* one of its minutes, and an entry misses a minute that it matches only    *)
(* after the end of a month.                                                *)
(****************************************************************************)
EXTENDS TimeWheel, SequenceTheorems, WellFoundedInduction, TLAPS

-----------------------------------------------------------------------------
(* The search of a wheel.                                                   *)

LEMMA Smallest ==
    ASSUME NEW S, S \subseteq Nat, S # {}
    PROVE  Min(S) \in S /\ \A v \in S : Min(S) <= v
<1>1. PICK u \in S : \A v \in S : <<v, u>> \notin OpToRel(<, Nat)
  BY NatLessThanWellFounded, WFMin
<1>2. \A v \in S : ~(v < u)
  BY <1>1 DEF OpToRel
<1>3. u \in S /\ \A v \in S : u <= v
  BY <1>2
<1>. QED
  BY <1>3 DEF Min

\* The search finds a set value if there is one, and the current one if it is set.
LEMMA SearchFinds ==
    ASSUME NEW S, S \subseteq Nat, NEW d \in Nat
    PROVE  /\ S # {} => Search(S, d) \in S
           /\ S = {} => Search(S, d) = -1
           /\ d \in S => Search(S, d) = d
<1>. DEFINE later == {v \in S : v >= d}
<1>1. later # {} => Min(later) \in later /\ \A v \in later : Min(later) <= v
  BY Smallest
<1>2. S # {} => Min(S) \in S
  BY Smallest
<1>3. Search(S, d) = IF later # {} THEN Min(later) ELSE IF S # {} THEN Min(S) ELSE -1
  BY DEF Search
<1>4. later \subseteq S /\ \A v \in later : v >= d
  OBVIOUS
<1>5. d \in S => d \in later
  OBVIOUS
<1>. HIDE DEF later
<1>6. ASSUME d \in S PROVE Search(S, d) = d
  <2>1. Min(later) \in later /\ Min(later) <= d
    BY <1>1, <1>5, <1>6
  <2>2. Min(later) >= d /\ Min(later) \in Nat
    BY <1>4, <2>1
  <2>. QED
    BY <1>3, <1>5, <1>6, <2>1, <2>2
<1>7. S # {} => Search(S, d) \in S
  BY <1>1, <1>2, <1>3, <1>4
<1>8. S = {} => Search(S, d) = -1
  BY <1>3, <1>4
<1>. QED
  BY <1>6, <1>7, <1>8

\* When the current value moves on, around the wheel, the search finds what it
\* found before, unless that was the value that has passed.
LEMMA SearchGoesOn ==
    ASSUME NEW lo \in Nat, NEW hi \in Nat, NEW S, S \subseteq lo .. hi, NEW d \in lo .. hi,
           S # {}, Search(S, d) # d
    PROVE  Search(S, IF d = hi THEN lo ELSE d + 1) = Search(S, d)
<1>0. /\ d \in Nat /\ lo <= d /\ d <= hi
      /\ \A v \in S : v \in Nat /\ lo <= v /\ v <= hi
  OBVIOUS
<1>1. d \notin S
  <2>1. S \subseteq Nat
    BY <1>0
  <2>. QED
    BY <1>0, <2>1, SearchFinds
<1>2. CASE d = hi
  <2>1. {v \in S : v >= d} = {}
    <3>1. ASSUME NEW v \in S PROVE ~(v >= d)
      <4>1. v \in Nat /\ v <= hi /\ v # d
        BY <1>0, <1>1
      <4>. QED
        BY <4>1, <1>0, <1>2
    <3>. QED
      BY <3>1
  <2>2. {v \in S : v >= lo} = S
    BY <1>0
  <2>. QED
    BY <1>2, <2>1, <2>2 DEF Search
<1>3. CASE d # hi
  <2>1. {v \in S : v >= d + 1} = {v \in S : v >= d}
    <3>1. ASSUME NEW v \in S PROVE v >= d + 1 <=> v >= d
      <4>1. v \in Nat /\ v # d
        BY <1>0, <1>1
      <4>. QED
        BY <4>1, <1>0
    <3>. QED
      BY <3>1
  <2>. QED
    BY <1>3, <2>1 DEF Search
<1>. QED
  BY <1>2, <1>3

-----------------------------------------------------------------------------
(* Slots and lists.                                                         *)

\* A copy is in the wheel if it was, or if the list sends it there.
LEMMA Spreads ==
    ASSUME NEW D, NEW wheel \in [D -> CopyCount], NEW list \in CopyCount, NEW target
    PROVE  /\ Spread(wheel, list, target) \in [D -> CopyCount]
           /\ \A s \in D, c \in Ids : Spread(wheel, list, target)[s][c] > 0 <=>
                 wheel[s][c] > 0 \/ (list[c] > 0 /\ target[c] = s)
<1>1. \A s \in D, c \in Ids : wheel[s][c] \in Nat /\ list[c] \in Nat
  BY DEF CopyCount
<1>2. \A s \in D, c \in Ids : Spread(wheel, list, target)[s][c] =
          wheel[s][c] + IF list[c] > 0 /\ target[c] = s THEN list[c] ELSE 0
  BY DEF Spread
<1>3. \A s \in D, c \in Ids : Spread(wheel, list, target)[s][c] \in Nat
  BY <1>1, <1>2
<1>. QED
  BY <1>1, <1>2, <1>3 DEF Spread, CopyCount

LEMMA Clears ==
    ASSUME NEW D, NEW wheel \in [D -> CopyCount], NEW x \in D
    PROVE  /\ Cleared(wheel, x) \in [D -> CopyCount]
           /\ \A s \in D, c \in Ids : Cleared(wheel, x)[s][c] > 0 <=> s # x /\ wheel[s][c] > 0
           /\ \A c \in Ids : Cleared(wheel, x)[x][c] = 0
<1>1. Empty \in CopyCount /\ \A c \in Ids : Empty[c] = 0
  BY DEF Empty, CopyCount
<1>. QED
  BY <1>1 DEF Cleared

LEMMA Thins ==
    ASSUME NEW list \in CopyCount
    PROVE  /\ Unique(list) \in CopyCount
           /\ \A c \in Ids : /\ Unique(list)[c] <= 1
                             /\ Unique(list)[c] > 0 <=> list[c] > 0
BY DEF Unique, CopyCount

-----------------------------------------------------------------------------
(* The current values and the targets of an entry.                          *)

LEMMA Current ==
    ASSUME TypeOK
    PROVE  /\ now.month \in Months
           /\ CurrentDayOfWeek \in DaysOfWeek
           /\ now.dayOfMonth \in DaysOfMonth
           /\ now.hour \in Hours
           /\ now.minute \in Minutes
<1>1. now \in Clock
  BY DEF TypeOK
<1>2. CurrentDayOfWeek \in DaysOfWeek
  BY <1>1, WheelAssumption DEF CurrentDayOfWeek, DaysOfWeek, WeekDays, Clock
<1>. QED
  BY <1>1, <1>2 DEF Clock

\* Every slot has a natural number.
LEMMA SlotsAreNat ==
    /\ Months \subseteq Nat
    /\ DaysOfWeek \subseteq Nat
    /\ DaysOfMonth \subseteq Nat
    /\ Hours \subseteq Nat
    /\ Minutes \subseteq Nat
BY WheelAssumption DEF Months, DaysOfWeek, DaysOfMonth, Hours, Minutes

LEMMA Entries ==
    ASSUME TypeOK, NEW c \in Registered
    PROVE  c \in Ids /\ crons[c] \in CronTrigger
<1>1. crons \in Seq(Triggers) /\ Len(crons) <= MaxCrons /\ MaxCrons \in Nat
  BY WheelAssumption DEF TypeOK
<1>2. c \in 1 .. Len(crons) /\ Len(crons) \in Nat
  BY <1>1 DEF Registered
<1>3. crons[c] \in Triggers
  BY <1>1, <1>2
<1>. QED
  BY <1>1, <1>2, <1>3, WheelAssumption DEF Ids

\* Each search ends in the field's own values, at the current one if it is set.
LEMMA Targets ==
    ASSUME TypeOK, NEW c \in Registered
    PROVE  /\ crons[c].months # {} => ToMonth[c] \in Months
           /\ crons[c].daysOfWeek # {} => ToDayOfWeek[c] \in DaysOfWeek
           /\ crons[c].daysOfMonth # {} => ToDayOfMonth[c] \in DaysOfMonth
           /\ crons[c].hours # {} => ToHour[c] \in Hours
           /\ crons[c].minutes # {} => ToMinute[c] \in Minutes
           /\ ToMinute[c] \in Minutes => ToMinute[c] \in crons[c].minutes
           /\ CurrentDayOfWeek \in crons[c].daysOfWeek => ToDayOfWeek[c] = CurrentDayOfWeek
           /\ now.dayOfMonth \in crons[c].daysOfMonth => ToDayOfMonth[c] = now.dayOfMonth
           /\ now.hour \in crons[c].hours => ToHour[c] = now.hour
           /\ now.minute \in crons[c].minutes => ToMinute[c] = now.minute
<1>. DEFINE t == crons[c]
<1>1. /\ t.months \subseteq Months
      /\ t.daysOfWeek \subseteq DaysOfWeek
      /\ t.daysOfMonth \subseteq DaysOfMonth
      /\ t.hours \subseteq Hours
      /\ t.minutes \subseteq Minutes
  BY Entries DEF CronTrigger
<1>2. /\ now.month \in Nat
      /\ CurrentDayOfWeek \in Nat
      /\ now.dayOfMonth \in Nat
      /\ now.hour \in Nat
      /\ now.minute \in Nat
  BY Current, SlotsAreNat
<1>3. /\ ToMonth[c] = Search(t.months, now.month)
      /\ ToDayOfWeek[c] = Search(t.daysOfWeek, CurrentDayOfWeek)
      /\ ToDayOfMonth[c] = Search(t.daysOfMonth, now.dayOfMonth)
      /\ ToHour[c] = Search(t.hours, now.hour)
      /\ ToMinute[c] = Search(t.minutes, now.minute)
  BY DEF ToMonth, ToDayOfWeek, ToDayOfMonth, ToHour, ToMinute, Registered
<1>. HIDE DEF t
<1>0. /\ t.months \subseteq Nat
      /\ t.daysOfWeek \subseteq Nat
      /\ t.daysOfMonth \subseteq Nat
      /\ t.hours \subseteq Nat
      /\ t.minutes \subseteq Nat
  BY <1>1, SlotsAreNat
<1>4. t.months # {} => ToMonth[c] \in Months
  BY <1>0, <1>1, <1>2, <1>3, SearchFinds
<1>5. /\ t.daysOfWeek # {} => ToDayOfWeek[c] \in DaysOfWeek
      /\ CurrentDayOfWeek \in t.daysOfWeek => ToDayOfWeek[c] = CurrentDayOfWeek
  BY <1>0, <1>1, <1>2, <1>3, SearchFinds
<1>6. /\ t.daysOfMonth # {} => ToDayOfMonth[c] \in DaysOfMonth
      /\ now.dayOfMonth \in t.daysOfMonth => ToDayOfMonth[c] = now.dayOfMonth
  BY <1>0, <1>1, <1>2, <1>3, SearchFinds
<1>7. /\ t.hours # {} => ToHour[c] \in Hours
      /\ now.hour \in t.hours => ToHour[c] = now.hour
  BY <1>0, <1>1, <1>2, <1>3, SearchFinds
<1>8. /\ t.minutes # {} => ToMinute[c] \in t.minutes
      /\ t.minutes = {} => ToMinute[c] = -1
      /\ now.minute \in t.minutes => ToMinute[c] = now.minute
  BY <1>0, <1>1, <1>2, <1>3, SearchFinds
<1>9. -1 \notin Minutes
  BY SlotsAreNat
<1>. QED
  BY <1>1, <1>4, <1>5, <1>6, <1>7, <1>8, <1>9 DEF t

-----------------------------------------------------------------------------
(* A tick.  The wheels as it fills them, before their slots are emptied.    *)

FilledDayOfWeek == Spread(slotDayOfWeek, slotMonth[now.month], ToDayOfWeek)
FilledDayOfMonth == Spread(slotDayOfMonth, slotMonth[now.month], ToDayOfMonth)
HalfFilledHour == Spread(slotHour, FilledDayOfWeek[CurrentDayOfWeek], ToHour)
FilledHour == Spread(HalfFilledHour, FilledDayOfMonth[now.dayOfMonth], ToHour)
FilledMinute == Spread(slotMinute, FilledHour[now.hour], ToMinute)

LEMMA DayWheelsFill ==
    ASSUME TypeOK
    PROVE  /\ FilledDayOfWeek \in [{0} \cup DaysOfWeek -> CopyCount]
           /\ FilledDayOfMonth \in [DaysOfMonth -> CopyCount]
           /\ \A s \in {0} \cup DaysOfWeek, c \in Ids : FilledDayOfWeek[s][c] > 0 <=>
                 \/ slotDayOfWeek[s][c] > 0
                 \/ slotMonth[now.month][c] > 0 /\ ToDayOfWeek[c] = s
           /\ \A s \in DaysOfMonth, c \in Ids : FilledDayOfMonth[s][c] > 0 <=>
                 \/ slotDayOfMonth[s][c] > 0
                 \/ slotMonth[now.month][c] > 0 /\ ToDayOfMonth[c] = s
<1>1. slotMonth[now.month] \in CopyCount
  BY Current DEF TypeOK
<1>2. /\ slotDayOfWeek \in [{0} \cup DaysOfWeek -> CopyCount]
      /\ slotDayOfMonth \in [DaysOfMonth -> CopyCount]
  BY DEF TypeOK
<1>3. /\ FilledDayOfWeek \in [{0} \cup DaysOfWeek -> CopyCount]
      /\ \A s \in {0} \cup DaysOfWeek, c \in Ids : FilledDayOfWeek[s][c] > 0 <=>
            slotDayOfWeek[s][c] > 0 \/ (slotMonth[now.month][c] > 0 /\ ToDayOfWeek[c] = s)
  BY <1>1, <1>2, Spreads DEF FilledDayOfWeek
<1>4. /\ FilledDayOfMonth \in [DaysOfMonth -> CopyCount]
      /\ \A s \in DaysOfMonth, c \in Ids : FilledDayOfMonth[s][c] > 0 <=>
            slotDayOfMonth[s][c] > 0 \/ (slotMonth[now.month][c] > 0 /\ ToDayOfMonth[c] = s)
  BY <1>1, <1>2, Spreads DEF FilledDayOfMonth
<1>. QED
  BY <1>3, <1>4

LEMMA TimeWheelsFill ==
    ASSUME TypeOK
    PROVE  /\ FilledHour \in [Hours -> CopyCount]
           /\ FilledMinute \in [Minutes -> CopyCount]
           /\ \A s \in Hours, c \in Ids : FilledHour[s][c] > 0 <=>
                 \/ slotHour[s][c] > 0
                 \/ FilledDayOfWeek[CurrentDayOfWeek][c] > 0 /\ ToHour[c] = s
                 \/ FilledDayOfMonth[now.dayOfMonth][c] > 0 /\ ToHour[c] = s
           /\ \A s \in Minutes, c \in Ids : FilledMinute[s][c] > 0 <=>
                 \/ slotMinute[s][c] > 0
                 \/ FilledHour[now.hour][c] > 0 /\ ToMinute[c] = s
<1>1. /\ FilledDayOfWeek[CurrentDayOfWeek] \in CopyCount
      /\ FilledDayOfMonth[now.dayOfMonth] \in CopyCount
  BY Current, DayWheelsFill
<1>2. /\ slotHour \in [Hours -> CopyCount]
      /\ slotMinute \in [Minutes -> CopyCount]
  BY DEF TypeOK
<1>3. /\ HalfFilledHour \in [Hours -> CopyCount]
      /\ \A s \in Hours, c \in Ids : HalfFilledHour[s][c] > 0 <=>
            slotHour[s][c] > 0 \/ (FilledDayOfWeek[CurrentDayOfWeek][c] > 0 /\ ToHour[c] = s)
  BY <1>1, <1>2, Spreads DEF HalfFilledHour
<1>4. /\ FilledHour \in [Hours -> CopyCount]
      /\ \A s \in Hours, c \in Ids : FilledHour[s][c] > 0 <=>
            HalfFilledHour[s][c] > 0 \/ (FilledDayOfMonth[now.dayOfMonth][c] > 0 /\ ToHour[c] = s)
  BY <1>1, <1>3, Spreads DEF FilledHour
<1>5. FilledHour[now.hour] \in CopyCount
  BY <1>4, Current
<1>6. /\ FilledMinute \in [Minutes -> CopyCount]
      /\ \A s \in Minutes, c \in Ids : FilledMinute[s][c] > 0 <=>
            slotMinute[s][c] > 0 \/ (FilledHour[now.hour][c] > 0 /\ ToMinute[c] = s)
  BY <1>2, <1>5, Spreads DEF FilledMinute
<1>. QED
  BY <1>3, <1>4, <1>6

\* What a tick leaves in the wheels.
LEMMA Ticks ==
    ASSUME TypeOK, TickMinute
    PROVE  /\ slotMonth' \in [Months -> CopyCount]
           /\ slotDayOfWeek' \in [{0} \cup DaysOfWeek -> CopyCount]
           /\ slotDayOfMonth' \in [DaysOfMonth -> CopyCount]
           /\ slotHour' \in [Hours -> CopyCount]
           /\ slotMinute' \in [Minutes -> CopyCount]
           /\ fired' \in CopyCount
           /\ \A s \in Months, c \in Ids : slotMonth'[s][c] > 0 <=>
                 \/ s # now.month /\ slotMonth[s][c] > 0
                 \/ FilledMinute[now.minute][c] > 0 /\ ToMonth[c] = s
           /\ \A s \in {0} \cup DaysOfWeek, c \in Ids :
                 slotDayOfWeek'[s][c] > 0 <=> s # CurrentDayOfWeek /\ FilledDayOfWeek[s][c] > 0
           /\ \A s \in DaysOfMonth, c \in Ids :
                 slotDayOfMonth'[s][c] > 0 <=> s # now.dayOfMonth /\ FilledDayOfMonth[s][c] > 0
           /\ \A s \in Hours, c \in Ids :
                 slotHour'[s][c] > 0 <=> s # now.hour /\ FilledHour[s][c] > 0
           /\ \A s \in Minutes, c \in Ids :
                 slotMinute'[s][c] > 0 <=> s # now.minute /\ FilledMinute[s][c] > 0
           /\ \A c \in Ids : /\ slotDayOfWeek'[CurrentDayOfWeek][c] = 0
                             /\ slotHour'[now.hour][c] = 0
                             /\ slotMinute'[now.minute][c] = 0
           /\ \A c \in Ids : /\ fired'[c] <= 1
                             /\ fired'[c] > 0 <=> FilledMinute[now.minute][c] > 0
<1>. DEFINE due == Unique(FilledMinute[now.minute])
<1>1. /\ fired' = due
      /\ slotMonth' = Spread(Cleared(slotMonth, now.month), due, ToMonth)
      /\ slotDayOfWeek' = Cleared(FilledDayOfWeek, CurrentDayOfWeek)
      /\ slotDayOfMonth' = Cleared(FilledDayOfMonth, now.dayOfMonth)
      /\ slotHour' = Cleared(FilledHour, now.hour)
      /\ slotMinute' = Cleared(FilledMinute, now.minute)
  BY DEF TickMinute, Reset, FilledDayOfWeek, FilledDayOfMonth, HalfFilledHour, FilledHour, FilledMinute
<1>2. /\ due \in CopyCount
      /\ \A c \in Ids : due[c] <= 1 /\ (due[c] > 0 <=> FilledMinute[now.minute][c] > 0)
  BY TimeWheelsFill, Current, Thins
<1>. HIDE DEF due
<1>3. /\ Cleared(slotMonth, now.month) \in [Months -> CopyCount]
      /\ \A s \in Months, c \in Ids :
            Cleared(slotMonth, now.month)[s][c] > 0 <=> s # now.month /\ slotMonth[s][c] > 0
  <2>1. slotMonth \in [Months -> CopyCount]
    BY DEF TypeOK
  <2>. QED
    BY <2>1, Current, Clears
<1>4. /\ slotMonth' \in [Months -> CopyCount]
      /\ \A s \in Months, c \in Ids : slotMonth'[s][c] > 0 <=>
            \/ s # now.month /\ slotMonth[s][c] > 0
            \/ FilledMinute[now.minute][c] > 0 /\ ToMonth[c] = s
  BY <1>1, <1>2, <1>3, Spreads
<1>5. CurrentDayOfWeek \in {0} \cup DaysOfWeek
  BY Current
<1>6. /\ slotDayOfWeek' \in [{0} \cup DaysOfWeek -> CopyCount]
      /\ \A s \in {0} \cup DaysOfWeek, c \in Ids :
            slotDayOfWeek'[s][c] > 0 <=> s # CurrentDayOfWeek /\ FilledDayOfWeek[s][c] > 0
      /\ \A c \in Ids : slotDayOfWeek'[CurrentDayOfWeek][c] = 0
  <2>. DEFINE D == {0} \cup DaysOfWeek
  <2>1. FilledDayOfWeek \in [D -> CopyCount] /\ CurrentDayOfWeek \in D
    BY <1>5, DayWheelsFill
  <2>. HIDE DEF D
  <2>2. /\ slotDayOfWeek' \in [D -> CopyCount]
        /\ \A s \in D, c \in Ids :
              slotDayOfWeek'[s][c] > 0 <=> s # CurrentDayOfWeek /\ FilledDayOfWeek[s][c] > 0
        /\ \A c \in Ids : slotDayOfWeek'[CurrentDayOfWeek][c] = 0
    BY <1>1, <2>1, Clears
  <2>. QED
    BY <2>2 DEF D
<1>7. /\ slotDayOfMonth' \in [DaysOfMonth -> CopyCount]
      /\ \A s \in DaysOfMonth, c \in Ids :
            slotDayOfMonth'[s][c] > 0 <=> s # now.dayOfMonth /\ FilledDayOfMonth[s][c] > 0
  BY <1>1, Current, DayWheelsFill, Clears
<1>8. /\ slotHour' \in [Hours -> CopyCount]
      /\ \A s \in Hours, c \in Ids :
            slotHour'[s][c] > 0 <=> s # now.hour /\ FilledHour[s][c] > 0
      /\ \A c \in Ids : slotHour'[now.hour][c] = 0
  BY <1>1, Current, TimeWheelsFill, Clears
<1>9. /\ slotMinute' \in [Minutes -> CopyCount]
      /\ \A s \in Minutes, c \in Ids :
            slotMinute'[s][c] > 0 <=> s # now.minute /\ FilledMinute[s][c] > 0
      /\ \A c \in Ids : slotMinute'[now.minute][c] = 0
  BY <1>1, Current, TimeWheelsFill, Clears
<1>. QED
  BY <1>1, <1>2, <1>4, <1>6, <1>7, <1>8, <1>9

\* A copy of this hour, or of today, comes down to the minute that is ticked.
LEMMA ComesDown ==
    ASSUME TypeOK, NEW c \in Registered,
           now.hour \in crons[c].hours, now.minute \in crons[c].minutes,
           \/ slotMinute[now.minute][c] > 0
           \/ slotHour[now.hour][c] > 0
           \/ FilledDayOfWeek[CurrentDayOfWeek][c] > 0
           \/ FilledDayOfMonth[now.dayOfMonth][c] > 0
    PROVE  FilledMinute[now.minute][c] > 0
<1>1. c \in Ids /\ now.hour \in Hours /\ now.minute \in Minutes
  BY Entries, Current
<1>2. ToHour[c] = now.hour /\ ToMinute[c] = now.minute
  BY Targets
<1>3. slotMinute[now.minute][c] > 0 \/ FilledHour[now.hour][c] > 0
  BY <1>1, <1>2, TimeWheelsFill
<1>. QED
  BY <1>1, <1>2, <1>3, TimeWheelsFill

\* A copy that a tick has not fired is still in a wheel, or in the month wheel again.
LEMMA StaysOrReturns ==
    ASSUME TypeOK, TickMinute, NEW c \in Registered, Valid(crons[c]),
           \/ Held(slotMinute, c) \/ Held(slotHour, c)
           \/ \E s \in Minutes : FilledMinute[s][c] > 0
           \/ \E s \in Hours : FilledHour[s][c] > 0
    PROVE  Held(slotMonth', c) \/ Held(slotHour', c) \/ Held(slotMinute', c)
<1>1. c \in Ids /\ now.hour \in Hours /\ now.minute \in Minutes
  BY Entries, Current
<1>2. ToMonth[c] \in Months /\ ToMinute[c] \in Minutes
  BY Targets DEF Valid
<1>3. /\ DOMAIN slotHour = Hours /\ DOMAIN slotMinute = Minutes
      /\ DOMAIN slotMonth' = Months /\ DOMAIN slotHour' = Hours /\ DOMAIN slotMinute' = Minutes
  BY Ticks DEF TypeOK
<1>4. ASSUME NEW s \in Minutes, FilledMinute[s][c] > 0
      PROVE  Held(slotMonth', c) \/ Held(slotMinute', c)
  <2>1. CASE s = now.minute
    <3>1. slotMonth'[ToMonth[c]][c] > 0
      BY <1>1, <1>2, <1>4, <2>1, Ticks
    <3>. QED
      BY <1>2, <1>3, <3>1 DEF Held
  <2>2. CASE s # now.minute
    <3>1. slotMinute'[s][c] > 0
      BY <1>1, <1>4, <2>2, Ticks
    <3>. QED
      BY <1>3, <3>1 DEF Held
  <2>. QED
    BY <2>1, <2>2
<1>5. ASSUME NEW s \in Hours, FilledHour[s][c] > 0
      PROVE  Held(slotMonth', c) \/ Held(slotHour', c) \/ Held(slotMinute', c)
  <2>1. CASE s = now.hour
    <3>1. FilledMinute[ToMinute[c]][c] > 0
      BY <1>1, <1>2, <1>5, <2>1, TimeWheelsFill
    <3>. QED
      BY <1>2, <1>4, <3>1
  <2>2. CASE s # now.hour
    <3>1. slotHour'[s][c] > 0
      BY <1>1, <1>5, <2>2, Ticks
    <3>. QED
      BY <1>3, <3>1 DEF Held
  <2>. QED
    BY <2>1, <2>2
<1>6. ASSUME Held(slotMinute, c) PROVE \E s \in Minutes : FilledMinute[s][c] > 0
  BY <1>1, <1>3, <1>6, TimeWheelsFill DEF Held
<1>7. ASSUME Held(slotHour, c) PROVE \E s \in Hours : FilledHour[s][c] > 0
  BY <1>1, <1>3, <1>7, TimeWheelsFill DEF Held
<1>. QED
  BY <1>4, <1>5, <1>6, <1>7

LEMMA TickKeepsEntries ==
    ASSUME IInv, TickMinute
    PROVE  EntriesKept'
<1>. SUFFICES ASSUME NEW c \in Registered, Valid(crons[c]),
                     ~(Held(slotMonth', c) \/ Held(slotHour', c) \/ Held(slotMinute', c))
              PROVE  /\ crons[c].daysOfWeek # {} => Held(slotDayOfWeek', c)
                     /\ crons[c].daysOfMonth # {} => Held(slotDayOfMonth', c)
  BY DEF EntriesKept, TickMinute, Registered, Valid, Held
<1>1. TypeOK /\ EntriesKept
  BY DEF IInv
<1>2. /\ c \in Ids /\ now.month \in Months /\ now.hour \in Hours
      /\ CurrentDayOfWeek \in {0} \cup DaysOfWeek /\ now.dayOfMonth \in DaysOfMonth
  BY <1>1, Entries, Current
<1>3. /\ DOMAIN slotMonth = Months /\ DOMAIN slotMonth' = Months
      /\ DOMAIN slotDayOfWeek = {0} \cup DaysOfWeek /\ DOMAIN slotDayOfWeek' = {0} \cup DaysOfWeek
      /\ DOMAIN slotDayOfMonth = DaysOfMonth /\ DOMAIN slotDayOfMonth' = DaysOfMonth
  BY <1>1, Ticks DEF TypeOK
<1>4. /\ ~Held(slotMinute, c) /\ ~Held(slotHour, c)
      /\ \A s \in Hours : ~(FilledHour[s][c] > 0)
  BY <1>1, StaysOrReturns
<1>5. ToHour[c] \in Hours
  BY <1>1, Targets DEF Valid
<1>6. Held(slotMonth, c) => slotMonth[now.month][c] > 0
  <2>1. ASSUME NEW s \in Months, slotMonth[s][c] > 0, s # now.month PROVE FALSE
    BY <1>1, <1>2, <1>3, <2>1, Ticks DEF Held
  <2>. QED
    BY <1>3, <2>1 DEF Held
<1>7. ASSUME crons[c].daysOfWeek # {} PROVE Held(slotDayOfWeek', c)
  <2>1. PICK s \in {0} \cup DaysOfWeek : FilledDayOfWeek[s][c] > 0
    <3>1. CASE Held(slotMonth, c)
      <4>1. ToDayOfWeek[c] \in DaysOfWeek
        BY <1>1, <1>7, Targets
      <4>. QED
        BY <1>1, <1>2, <1>6, <3>1, <4>1, DayWheelsFill
    <3>2. CASE ~Held(slotMonth, c)
      <4>1. PICK s \in {0} \cup DaysOfWeek : slotDayOfWeek[s][c] > 0
        BY <1>1, <1>3, <1>4, <1>7, <3>2 DEF EntriesKept, Held
      <4>. QED
        BY <1>1, <1>2, <4>1, DayWheelsFill
    <3>. QED
      BY <3>1, <3>2
  <2>2. s # CurrentDayOfWeek
    BY <1>1, <1>2, <1>4, <1>5, <2>1, TimeWheelsFill
  <2>3. slotDayOfWeek'[s][c] > 0
    BY <1>1, <1>2, <2>1, <2>2, Ticks
  <2>. QED
    BY <1>3, <2>3 DEF Held
<1>8. ASSUME crons[c].daysOfMonth # {} PROVE Held(slotDayOfMonth', c)
  <2>1. PICK s \in DaysOfMonth : FilledDayOfMonth[s][c] > 0
    <3>1. CASE Held(slotMonth, c)
      <4>1. ToDayOfMonth[c] \in DaysOfMonth
        BY <1>1, <1>8, Targets
      <4>. QED
        BY <1>1, <1>2, <1>6, <3>1, <4>1, DayWheelsFill
    <3>2. CASE ~Held(slotMonth, c)
      <4>1. PICK s \in DaysOfMonth : slotDayOfMonth[s][c] > 0
        BY <1>1, <1>3, <1>4, <1>8, <3>2 DEF EntriesKept, Held
      <4>. QED
        BY <1>1, <1>2, <4>1, DayWheelsFill
    <3>. QED
      BY <3>1, <3>2
  <2>2. s # now.dayOfMonth
    BY <1>1, <1>2, <1>4, <1>5, <2>1, TimeWheelsFill
  <2>3. slotDayOfMonth'[s][c] > 0
    BY <1>1, <1>2, <2>1, <2>2, Ticks
  <2>. QED
    BY <1>3, <2>3 DEF Held
<1>. QED
  BY <1>7, <1>8

\* A tick moves copies of registered entries only, and to their targets.
LEMMA FillsWhereSearched ==
    ASSUME IInv, NEW c \in Ids
    PROVE  /\ \A s \in {0} \cup DaysOfWeek :
                 FilledDayOfWeek[s][c] > 0 => c \in Registered /\ s = ToDayOfWeek[c]
           /\ \A s \in DaysOfMonth : FilledDayOfMonth[s][c] > 0 => c \in Registered
           /\ \A s \in Hours : FilledHour[s][c] > 0 => c \in Registered /\ s = ToHour[c]
           /\ \A s \in Minutes : FilledMinute[s][c] > 0 => c \in Registered /\ s = ToMinute[c]
<1>1. TypeOK /\ WhereSearched
  BY DEF IInv
<1>2. /\ now.month \in Months /\ now.hour \in Hours
      /\ CurrentDayOfWeek \in {0} \cup DaysOfWeek /\ now.dayOfMonth \in DaysOfMonth
  BY <1>1, Current
<1>3. /\ DOMAIN slotMonth = Months /\ DOMAIN slotDayOfWeek = {0} \cup DaysOfWeek
      /\ DOMAIN slotDayOfMonth = DaysOfMonth
  BY <1>1 DEF TypeOK
<1>4. slotMonth[now.month][c] > 0 => c \in Registered
  BY <1>1, <1>2, <1>3 DEF WhereSearched, Held
<1>5. \A s \in {0} \cup DaysOfWeek :
          FilledDayOfWeek[s][c] > 0 => c \in Registered /\ s = ToDayOfWeek[c]
  BY <1>1, <1>3, <1>4, DayWheelsFill DEF WhereSearched
<1>6. \A s \in DaysOfMonth : FilledDayOfMonth[s][c] > 0 => c \in Registered
  BY <1>1, <1>3, <1>4, DayWheelsFill DEF WhereSearched, Held
<1>7. \A s \in Hours : FilledHour[s][c] > 0 => c \in Registered /\ s = ToHour[c]
  BY <1>1, <1>2, <1>5, <1>6, TimeWheelsFill DEF WhereSearched
<1>8. \A s \in Minutes : FilledMinute[s][c] > 0 => c \in Registered /\ s = ToMinute[c]
  BY <1>1, <1>2, <1>7, TimeWheelsFill DEF WhereSearched
<1>. QED
  BY <1>5, <1>6, <1>7, <1>8

LEMMA TickWhereSearched ==
    ASSUME IInv, TickMinute
    PROVE  WhereSearched'
<1>1. TypeOK /\ WhereSearched
  BY DEF IInv
<1>2. /\ DOMAIN slotMonth = Months /\ DOMAIN slotMonth' = Months
      /\ DOMAIN slotDayOfWeek' = {0} \cup DaysOfWeek
      /\ DOMAIN slotDayOfMonth' = DaysOfMonth
  BY <1>1, Ticks DEF TypeOK
<1>3. /\ Registered' = Registered
      /\ ToDayOfWeek' = ToDayOfWeek /\ ToHour' = ToHour /\ ToMinute' = ToMinute
  BY DEF TickMinute, Registered, ToDayOfWeek, ToHour, ToMinute, CurrentDayOfWeek
<1>. SUFFICES ASSUME NEW c \in Ids
              PROVE  /\ \A s \in {0} \cup DaysOfWeek :
                           slotDayOfWeek'[s][c] > 0 => c \in Registered /\ s = ToDayOfWeek[c]
                     /\ \A s \in Hours :
                           slotHour'[s][c] > 0 => c \in Registered /\ s = ToHour[c]
                     /\ \A s \in Minutes :
                           slotMinute'[s][c] > 0 => c \in Registered /\ s = ToMinute[c]
                     /\ Held(slotMonth', c) \/ Held(slotDayOfMonth', c) => c \in Registered
  BY <1>2, <1>3 DEF WhereSearched, Held
<1>4. \A s \in {0} \cup DaysOfWeek :
          slotDayOfWeek'[s][c] > 0 => c \in Registered /\ s = ToDayOfWeek[c]
  BY <1>1, FillsWhereSearched, Ticks
<1>5. /\ \A s \in Hours : slotHour'[s][c] > 0 => c \in Registered /\ s = ToHour[c]
      /\ \A s \in Minutes : slotMinute'[s][c] > 0 => c \in Registered /\ s = ToMinute[c]
  BY <1>1, FillsWhereSearched, Ticks
<1>6. Held(slotDayOfMonth', c) => c \in Registered
  BY <1>1, <1>2, FillsWhereSearched, Ticks DEF Held
<1>7. Held(slotMonth', c) => c \in Registered
  BY <1>1, <1>2, Current, FillsWhereSearched, Ticks DEF Held, WhereSearched
<1>. QED
  BY <1>4, <1>5, <1>6, <1>7

LEMMA TickFiresOnce ==
    ASSUME IInv, TickMinute
    PROVE  OnceAndInItsMinute'
<1>1. TypeOK /\ now.minute \in Minutes
  BY Current DEF IInv
<1>. SUFFICES ASSUME NEW c \in Ids
              PROVE  /\ fired'[c] <= 1
                     /\ fired'[c] = 1 => c \in Registered /\ now.minute \in crons[c].minutes
  BY DEF OnceAndInItsMinute, TickMinute, Registered
<1>2. fired'[c] <= 1 /\ (fired'[c] > 0 <=> FilledMinute[now.minute][c] > 0)
  BY <1>1, Ticks
<1>3. FilledMinute[now.minute][c] > 0 => c \in Registered /\ now.minute = ToMinute[c]
  BY <1>1, FillsWhereSearched
<1>4. c \in Registered /\ now.minute = ToMinute[c] => now.minute \in crons[c].minutes
  BY <1>1, Targets
<1>. QED
  BY <1>2, <1>3, <1>4

LEMMA TickMissesOnlyStranded ==
    ASSUME IInv, TickMinute
    PROVE  MissedOnlyStranded'
<1>1. TypeOK /\ WhereSearched /\ EntriesKept
  BY DEF IInv
<1>2. /\ now' = now /\ crons' = crons /\ Registered' = Registered
      /\ ToDayOfMonth' = ToDayOfMonth /\ CurrentDayOfWeek' = CurrentDayOfWeek
  BY DEF TickMinute, Registered, ToDayOfMonth, CurrentDayOfWeek
<1>3. /\ now.month \in Months /\ now.hour \in Hours /\ now.minute \in Minutes
      /\ CurrentDayOfWeek \in {0} \cup DaysOfWeek /\ now.dayOfMonth \in DaysOfMonth
  BY <1>1, Current
<1>4. /\ DOMAIN slotMonth = Months /\ DOMAIN slotDayOfWeek = {0} \cup DaysOfWeek
      /\ DOMAIN slotDayOfMonth = DaysOfMonth /\ DOMAIN slotHour = Hours
      /\ DOMAIN slotMinute = Minutes
  BY <1>1 DEF TypeOK
<1>. SUFFICES ASSUME NEW c \in Registered, Matches(c), ~Stranded(c)'
              PROVE  fired'[c] > 0
  BY <1>2 DEF MissedOnlyStranded, Matches
<1>5. /\ c \in Ids /\ Valid(crons[c])
      /\ now.hour \in crons[c].hours /\ now.minute \in crons[c].minutes
  BY <1>1, Entries DEF Matches, Valid
<1>6. /\ \A m \in Months \ {now.month} : ~(slotMonth'[m][c] > 0)
      /\ \A d \in DaysOfMonth \ {ToDayOfMonth[c]} : ~(slotDayOfMonth'[d][c] > 0)
  BY <1>2 DEF Stranded
<1>7. Held(slotMonth, c) => slotMonth[now.month][c] > 0
  BY <1>1, <1>4, <1>5, <1>6, Ticks DEF Held
<1>8. Held(slotHour, c) => slotHour[now.hour][c] > 0
  BY <1>1, <1>4, <1>5, Targets DEF Held, WhereSearched
<1>9. Held(slotMinute, c) => slotMinute[now.minute][c] > 0
  BY <1>1, <1>4, <1>5, Targets DEF Held, WhereSearched
<1>10. CASE CurrentDayOfWeek \in crons[c].daysOfWeek
  <2>1. ToDayOfWeek[c] = CurrentDayOfWeek
    BY <1>1, <1>10, Targets
  <2>2. Held(slotDayOfWeek, c) => slotDayOfWeek[CurrentDayOfWeek][c] > 0
    BY <1>1, <1>4, <1>5, <2>1 DEF Held, WhereSearched
  <2>3. slotMonth[now.month][c] > 0 \/ slotDayOfWeek[CurrentDayOfWeek][c] > 0
           => FilledDayOfWeek[CurrentDayOfWeek][c] > 0
    BY <1>1, <1>3, <1>5, <2>1, DayWheelsFill
  <2>. QED
    BY <1>1, <1>3, <1>5, <1>7, <1>8, <1>9, <1>10, <2>2, <2>3, ComesDown, Ticks DEF EntriesKept
<1>11. CASE now.dayOfMonth \in crons[c].daysOfMonth
  <2>1. ToDayOfMonth[c] = now.dayOfMonth
    BY <1>1, <1>11, Targets
  <2>2. Held(slotDayOfMonth, c) => slotDayOfMonth[now.dayOfMonth][c] > 0
    <3>1. ASSUME NEW d \in DaysOfMonth, slotDayOfMonth[d][c] > 0, d # now.dayOfMonth PROVE FALSE
      <4>1. FilledDayOfMonth[d][c] > 0
        BY <1>1, <1>5, <3>1, DayWheelsFill
      <4>2. slotDayOfMonth'[d][c] > 0
        BY <1>1, <1>5, <3>1, <4>1, Ticks
      <4>. QED
        BY <1>6, <2>1, <3>1, <4>2
    <3>. QED
      BY <1>4, <3>1 DEF Held
  <2>3. slotMonth[now.month][c] > 0 \/ slotDayOfMonth[now.dayOfMonth][c] > 0
           => FilledDayOfMonth[now.dayOfMonth][c] > 0
    BY <1>1, <1>3, <1>5, <2>1, DayWheelsFill
  <2>. QED
    BY <1>1, <1>3, <1>5, <1>7, <1>8, <1>9, <1>11, <2>2, <2>3, ComesDown, Ticks DEF EntriesKept
<1>. QED
  BY <1>10, <1>11 DEF Matches

LEMMA TickPreserves ==
    ASSUME IInv, TickMinute
    PROVE  IInv'
<1>1. TypeOK'
  <2>1. TypeOK
    BY DEF IInv
  <2>2. now' = now /\ crons' = crons /\ phase' = "done" /\ early' = early
    BY DEF TickMinute
  <2>. QED
    BY <2>1, <2>2, Ticks DEF TypeOK
<1>2. Swept'
  <2>1. TypeOK
    BY DEF IInv
  <2>2. now' = now /\ CurrentDayOfWeek' = CurrentDayOfWeek
    BY DEF TickMinute, CurrentDayOfWeek
  <2>. QED
    BY <2>1, <2>2, Ticks DEF Swept
<1>. QED
  BY <1>1, <1>2, TickWhereSearched, TickKeepsEntries, TickFiresOnce, TickMissesOnlyStranded DEF IInv

-----------------------------------------------------------------------------
(* The other steps.                                                         *)

\* What the clock does to the current values: each stays or moves on by one.
LEMMA ClockMoves ==
    ASSUME TypeOK, MinutePasses
    PROVE  /\ now' \in Clock
           /\ now'.dayOfMonth <= MonthLength[now'.month]
           /\ now'.minute = IF now.minute = MinutesPerHour - 1 THEN 0 ELSE now.minute + 1
           /\ now'.hour \in {now.hour, IF now.hour = HoursPerDay - 1 THEN 0 ELSE now.hour + 1}
           /\ CurrentDayOfWeek' \in
                 {CurrentDayOfWeek,
                  IF CurrentDayOfWeek = DaysPerWeek THEN 1 ELSE CurrentDayOfWeek + 1}
<1>1. /\ now \in Clock /\ now.month \in 1 .. Len(MonthLength)
      /\ now.dayOfMonth <= MonthLength[now.month]
      /\ now.hour \in 0 .. (HoursPerDay - 1) /\ now.minute \in 0 .. (MinutesPerHour - 1)
      /\ now.weekDay \in 0 .. (DaysPerWeek - 1) /\ now.dayOfMonth \in DaysOfMonth
  BY DEF TypeOK, Clock, Months, Hours, Minutes, WeekDays
<1>2. /\ Len(MonthLength) \in Nat \ {0}
      /\ \A m \in 1 .. Len(MonthLength) : MonthLength[m] \in Nat \ {0}
      /\ MinutesPerHour \in Nat \ {0} /\ HoursPerDay \in Nat \ {0} /\ DaysPerWeek \in Nat \ {0}
  BY WheelAssumption
<1>3. now' = NextMinute
  BY DEF MinutePasses
<1>4. /\ now'.minute = (now.minute + 1) % MinutesPerHour
      /\ now'.hour = IF EndOfHour THEN (now.hour + 1) % HoursPerDay ELSE now.hour
      /\ now'.weekDay = IF EndOfDay THEN (now.weekDay + 1) % DaysPerWeek ELSE now.weekDay
      /\ now'.dayOfMonth = IF EndOfMonth THEN 1
                           ELSE IF EndOfDay THEN now.dayOfMonth + 1 ELSE now.dayOfMonth
      /\ now'.month = IF EndOfMonth THEN (now.month % Len(MonthLength)) + 1 ELSE now.month
      /\ now' = [minute |-> now'.minute, hour |-> now'.hour, weekDay |-> now'.weekDay,
                 dayOfMonth |-> now'.dayOfMonth, month |-> now'.month]
  BY <1>3 DEF NextMinute
<1>5. ASSUME NEW k \in Nat \ {0}, NEW x \in 0 .. (k - 1)
      PROVE  (x + 1) % k = IF x = k - 1 THEN 0 ELSE x + 1
  OBVIOUS
<1>6. now'.minute = IF now.minute = MinutesPerHour - 1 THEN 0 ELSE now.minute + 1
  BY <1>1, <1>2, <1>4, <1>5
<1>7. now'.hour \in {now.hour, IF now.hour = HoursPerDay - 1 THEN 0 ELSE now.hour + 1}
  BY <1>1, <1>2, <1>4, <1>5
<1>8. now'.weekDay \in {now.weekDay, IF now.weekDay = DaysPerWeek - 1 THEN 0 ELSE now.weekDay + 1}
  BY <1>1, <1>2, <1>4, <1>5
<1>9. CurrentDayOfWeek' \in
         {CurrentDayOfWeek, IF CurrentDayOfWeek = DaysPerWeek THEN 1 ELSE CurrentDayOfWeek + 1}
  BY <1>1, <1>2, <1>8 DEF CurrentDayOfWeek
<1>10. now.dayOfMonth \in Nat \ {0}
  BY <1>1, <1>2 DEF DaysOfMonth, Months
<1>11. now'.month \in 1 .. Len(MonthLength)
  <2>1. CASE EndOfMonth
    <3>1. ASSUME NEW k \in Nat \ {0}, NEW x \in 1 .. k
          PROVE  (x % k) + 1 \in 1 .. k
      OBVIOUS
    <3>2. now'.month = (now.month % Len(MonthLength)) + 1
      BY <1>4, <2>1
    <3>. QED
      BY <1>1, <1>2, <3>1, <3>2
  <2>2. CASE ~EndOfMonth
    BY <1>1, <1>4, <2>2
  <2>. QED
    BY <2>1, <2>2
<1>12. now'.dayOfMonth \in 1 .. MonthLength[now'.month]
  <2>1. CASE EndOfMonth
    BY <1>2, <1>4, <1>11, <2>1
  <2>2. CASE ~EndOfMonth
    <3>1. now'.month = now.month /\ MonthLength[now.month] \in Nat
      BY <1>1, <1>2, <1>4, <2>2
    <3>2. EndOfDay => now.dayOfMonth # MonthLength[now.month]
      BY <2>2 DEF EndOfMonth
    <3>3. now'.dayOfMonth = IF EndOfDay THEN now.dayOfMonth + 1 ELSE now.dayOfMonth
      BY <1>4, <2>2
    <3>. QED
      BY <1>1, <1>10, <3>1, <3>2, <3>3
  <2>. QED
    BY <2>1, <2>2
<1>13. now' \in Clock
  <2>1. now'.dayOfMonth \in DaysOfMonth /\ now'.month \in Months
    BY <1>11, <1>12 DEF DaysOfMonth, Months
  <2>2. now'.minute \in Minutes /\ now'.hour \in Hours /\ now'.weekDay \in WeekDays
    BY <1>1, <1>2, <1>6, <1>7, <1>8 DEF Minutes, Hours, WeekDays
  <2>. QED
    BY <1>4, <2>1, <2>2 DEF Clock
<1>14. now'.dayOfMonth <= MonthLength[now'.month]
  BY <1>2, <1>11, <1>12
<1>. QED
  BY <1>6, <1>7, <1>9, <1>13, <1>14

LEMMA MinutePreserves ==
    ASSUME IInv, MinutePasses
    PROVE  IInv'
<1>1. TypeOK /\ WhereSearched /\ Swept
  BY DEF IInv
<1>2. /\ phase = "done" /\ phase' = "due" /\ crons' = crons /\ fired' = fired
      /\ slotMonth' = slotMonth /\ slotDayOfWeek' = slotDayOfWeek
      /\ slotDayOfMonth' = slotDayOfMonth /\ slotHour' = slotHour /\ slotMinute' = slotMinute
  BY DEF MinutePasses, wheels
<1>3. TypeOK'
  <2>1. early' \in 0 .. MaxEarly
    BY WheelAssumption DEF MinutePasses
  <2>. QED
    BY <1>1, <1>2, <2>1, ClockMoves DEF TypeOK
<1>4. EntriesKept' /\ OnceAndInItsMinute' /\ MissedOnlyStranded' /\ Swept'
  BY <1>2 DEF IInv, EntriesKept, OnceAndInItsMinute, MissedOnlyStranded, Swept, Registered, Valid, Held
<1>5. WhereSearched'
  <2>1. DOMAIN slotDayOfWeek = {0} \cup DaysOfWeek
    BY <1>1 DEF TypeOK
  <2>. SUFFICES ASSUME NEW c \in Registered, c \in Ids
                PROVE  /\ \A s \in {0} \cup DaysOfWeek :
                             slotDayOfWeek[s][c] > 0 => s = ToDayOfWeek'[c]
                       /\ \A s \in Hours : slotHour[s][c] > 0 => s = ToHour'[c]
                       /\ \A s \in Minutes : slotMinute[s][c] > 0 => s = ToMinute'[c]
    BY <1>1, <1>2, <2>1 DEF WhereSearched, Registered, Held
  <2>2. /\ crons[c].daysOfWeek \subseteq 1 .. DaysPerWeek
        /\ crons[c].hours \subseteq 0 .. (HoursPerDay - 1)
        /\ crons[c].minutes \subseteq 0 .. (MinutesPerHour - 1)
    BY <1>1, Entries DEF CronTrigger, DaysOfWeek, Hours, Minutes
  <2>3. /\ HoursPerDay - 1 \in Nat /\ MinutesPerHour - 1 \in Nat /\ DaysPerWeek \in Nat
    BY WheelAssumption
  <2>4. /\ CurrentDayOfWeek \in 1 .. DaysPerWeek
        /\ now.hour \in 0 .. (HoursPerDay - 1) /\ now.minute \in 0 .. (MinutesPerHour - 1)
    BY <1>1, Current DEF DaysOfWeek, Hours, Minutes
  <2>5. /\ ToDayOfWeek[c] = Search(crons[c].daysOfWeek, CurrentDayOfWeek)
        /\ ToHour[c] = Search(crons[c].hours, now.hour)
        /\ ToMinute[c] = Search(crons[c].minutes, now.minute)
        /\ ToDayOfWeek'[c] = Search(crons[c].daysOfWeek, CurrentDayOfWeek')
        /\ ToHour'[c] = Search(crons[c].hours, now'.hour)
        /\ ToMinute'[c] = Search(crons[c].minutes, now'.minute)
    BY <1>2 DEF ToDayOfWeek, ToHour, ToMinute, Registered
  <2>6. ASSUME NEW s \in Minutes, slotMinute[s][c] > 0 PROVE s = ToMinute'[c]
    <3>1. s = ToMinute[c] /\ s # now.minute
      BY <1>1, <1>2, <2>6 DEF WhereSearched, Swept
    <3>2. crons[c].minutes # {}
      BY <1>1, <2>6, <3>1, Targets
    <3>. QED
      BY <1>1, <2>2, <2>3, <2>4, <2>5, <3>1, <3>2, ClockMoves, SearchGoesOn
  <2>7. ASSUME NEW s \in Hours, slotHour[s][c] > 0 PROVE s = ToHour'[c]
    <3>1. s = ToHour[c] /\ s # now.hour
      BY <1>1, <1>2, <2>7 DEF WhereSearched, Swept
    <3>2. crons[c].hours # {}
      <4>1. ASSUME crons[c].hours = {} PROVE ToHour[c] = -1
        BY <2>4, <2>5, <4>1, SearchFinds
      <4>. QED
        BY <2>7, <3>1, <4>1, SlotsAreNat
    <3>3. Search(crons[c].hours, IF now.hour = HoursPerDay - 1 THEN 0 ELSE now.hour + 1) = s
      BY <2>2, <2>3, <2>4, <2>5, <3>1, <3>2, SearchGoesOn
    <3>4. \/ now'.hour = now.hour
          \/ now'.hour = IF now.hour = HoursPerDay - 1 THEN 0 ELSE now.hour + 1
      BY <1>1, ClockMoves
    <3>. QED
      BY <2>5, <3>1, <3>3, <3>4
  <2>8. ASSUME NEW s \in {0} \cup DaysOfWeek, slotDayOfWeek[s][c] > 0 PROVE s = ToDayOfWeek'[c]
    <3>1. s = ToDayOfWeek[c] /\ s # CurrentDayOfWeek
      BY <1>1, <1>2, <2>1, <2>8 DEF WhereSearched, Swept
    <3>2. crons[c].daysOfWeek # {}
      <4>1. ASSUME crons[c].daysOfWeek = {} PROVE ToDayOfWeek[c] = -1
        BY <2>4, <2>5, <4>1, SearchFinds
      <4>2. s \in Nat
        BY SlotsAreNat
      <4>. QED
        BY <3>1, <4>1, <4>2
    <3>3. Search(crons[c].daysOfWeek,
                 IF CurrentDayOfWeek = DaysPerWeek THEN 1 ELSE CurrentDayOfWeek + 1) = s
      BY <2>2, <2>3, <2>4, <2>5, <3>1, <3>2, SearchGoesOn
    <3>4. \/ CurrentDayOfWeek' = CurrentDayOfWeek
          \/ CurrentDayOfWeek' = IF CurrentDayOfWeek = DaysPerWeek THEN 1 ELSE CurrentDayOfWeek + 1
      BY <1>1, ClockMoves
    <3>. QED
      BY <2>5, <3>1, <3>3, <3>4
  <2>. QED
    BY <2>6, <2>7, <2>8
<1>. QED
  BY <1>3, <1>4, <1>5 DEF IInv

\* A registered entry waits in the month wheel; nothing has been ticked yet.
LEMMA AddCronPreserves ==
    ASSUME IInv, NEW trigger \in Triggers, AddCron(trigger)
    PROVE  IInv'
<1>. DEFINE n == Len(crons) + 1
            target == Search(trigger.months, now.month)
<1>1. TypeOK /\ WhereSearched
  BY DEF IInv
<1>2. /\ crons \in Seq(Triggers) /\ Len(crons) \in Nat /\ Len(crons) < MaxCrons
      /\ crons' = Append(crons, trigger) /\ MaxCrons \in Nat
      /\ slotMonth' = [slotMonth EXCEPT ![target][n] = 1]
      /\ now' = now /\ phase = "setup" /\ phase' = phase /\ fired' = fired
      /\ slotDayOfWeek' = slotDayOfWeek /\ slotDayOfMonth' = slotDayOfMonth
      /\ slotHour' = slotHour /\ slotMinute' = slotMinute
  BY <1>1, WheelAssumption DEF AddCron, TypeOK
<1>3. /\ crons' \in Seq(Triggers) /\ Len(crons') = n /\ n \in Ids
      /\ crons'[n] = trigger /\ \A c \in 1 .. Len(crons) : crons'[c] = crons[c]
  BY <1>2 DEF Ids
<1>4. target \in Months
  <2>1. trigger.months \subseteq Months /\ trigger.months # {}
    BY WheelAssumption DEF AddCron, CronTrigger
  <2>2. trigger.months \subseteq Nat /\ now.month \in Nat
    BY <1>1, <2>1, SlotsAreNat, Current
  <2>. QED
    BY <2>1, <2>2, SearchFinds
<1>. HIDE DEF n, target
<1>5. /\ slotMonth' \in [Months -> CopyCount]
      /\ slotMonth'[target][n] = 1
      /\ \A s \in Months, c \in Ids : c # n => slotMonth'[s][c] = slotMonth[s][c]
  BY <1>1, <1>2, <1>3, <1>4 DEF TypeOK, CopyCount
<1>6. Registered = 1 .. Len(crons) /\ Registered' = 1 .. n
  BY <1>2, <1>3 DEF Registered
<1>7. Registered \subseteq Registered' /\ n \in Registered' /\ Registered' \subseteq Registered \cup {n}
  BY <1>2, <1>6 DEF n
<1>8. TypeOK'
  <2>1. Len(crons') <= MaxCrons
    BY <1>2, <1>3 DEF n
  <2>2. early' = early
    BY DEF AddCron
  <2>. QED
    BY <1>1, <1>2, <1>3, <1>5, <2>1, <2>2 DEF TypeOK
<1>9. \A c \in Registered : /\ ToDayOfWeek'[c] = ToDayOfWeek[c]
                            /\ ToHour'[c] = ToHour[c]
                            /\ ToMinute'[c] = ToMinute[c]
  <2>1. CurrentDayOfWeek' = CurrentDayOfWeek
    BY <1>2 DEF CurrentDayOfWeek
  <2>. QED
    BY <1>2, <1>3, <1>6, <1>7, <2>1 DEF ToDayOfWeek, ToHour, ToMinute, Registered
<1>10. /\ DOMAIN slotMonth = Months /\ DOMAIN slotMonth' = Months
  BY <1>1, <1>5 DEF TypeOK
<1>11. WhereSearched'
  <2>. SUFFICES ASSUME NEW c \in Ids
                PROVE  /\ \A s \in DOMAIN slotDayOfWeek :
                             slotDayOfWeek[s][c] > 0 => c \in Registered' /\ s = ToDayOfWeek'[c]
                       /\ \A s \in Hours : slotHour[s][c] > 0 => c \in Registered' /\ s = ToHour'[c]
                       /\ \A s \in Minutes : slotMinute[s][c] > 0 => c \in Registered' /\ s = ToMinute'[c]
                       /\ Held(slotMonth', c) \/ Held(slotDayOfMonth, c) => c \in Registered'
    BY <1>2 DEF WhereSearched, Held
  <2>1. Held(slotMonth', c) => c \in Registered'
    BY <1>1, <1>5, <1>7, <1>10 DEF WhereSearched, Held
  <2>. QED
    BY <1>1, <1>7, <1>9, <2>1 DEF WhereSearched
<1>12. EntriesKept'
  <2>. SUFFICES ASSUME NEW c \in Registered', Valid(crons'[c])
                PROVE  \/ Held(slotMonth', c) \/ Held(slotHour, c) \/ Held(slotMinute, c)
                       \/ /\ crons'[c].daysOfWeek # {} => Held(slotDayOfWeek, c)
                          /\ crons'[c].daysOfMonth # {} => Held(slotDayOfMonth, c)
    BY <1>2 DEF EntriesKept, Valid, Held
  <2>1. CASE c = n
    BY <1>4, <1>5, <1>10, <2>1 DEF Held
  <2>2. CASE c # n
    <3>1. c \in Registered /\ c \in Ids /\ crons'[c] = crons[c]
      BY <1>1, <1>3, <1>6, <1>7, <2>2, Entries
    <3>2. Held(slotMonth, c) => Held(slotMonth', c)
      BY <1>5, <1>10, <2>2, <3>1 DEF Held
    <3>. QED
      BY <3>1, <3>2 DEF IInv, EntriesKept
  <2>. QED
    BY <2>1, <2>2
<1>13. Swept' /\ OnceAndInItsMinute' /\ MissedOnlyStranded'
  BY <1>2 DEF IInv, Swept, OnceAndInItsMinute, MissedOnlyStranded
<1>. QED
  BY <1>8, <1>11, <1>12, <1>13 DEF IInv

\* The steps that change neither the clock nor the wheels.
LEMMA TimerPreserves ==
    ASSUME IInv, InitializeCron \/ ComesEarly \/ UNCHANGED vars
    PROVE  IInv'
<1>1. /\ now' = now /\ crons' = crons /\ fired' = fired
      /\ slotMonth' = slotMonth /\ slotDayOfWeek' = slotDayOfWeek
      /\ slotDayOfMonth' = slotDayOfMonth /\ slotHour' = slotHour /\ slotMinute' = slotMinute
      /\ phase' = "due" \/ phase' = phase
  BY DEF InitializeCron, ComesEarly, vars, wheels
<1>2. TypeOK'
  <2>1. early' \in 0 .. MaxEarly
    BY WheelAssumption DEF IInv, TypeOK, InitializeCron, ComesEarly, vars
  <2>. QED
    BY <1>1, <2>1 DEF IInv, TypeOK
<1>3. /\ Registered' = Registered /\ CurrentDayOfWeek' = CurrentDayOfWeek
      /\ ToDayOfWeek' = ToDayOfWeek /\ ToDayOfMonth' = ToDayOfMonth
      /\ ToHour' = ToHour /\ ToMinute' = ToMinute
  BY <1>1 DEF Registered, ToDayOfWeek, ToDayOfMonth, ToHour, ToMinute, CurrentDayOfWeek
<1>4. WhereSearched' /\ EntriesKept'
  BY <1>1, <1>3 DEF IInv, WhereSearched, EntriesKept, Held
<1>5. Swept' /\ OnceAndInItsMinute'
  BY <1>1, <1>3 DEF IInv, Swept, OnceAndInItsMinute
<1>6. MissedOnlyStranded'
  BY <1>1, <1>3 DEF IInv, MissedOnlyStranded, Matches, Stranded
<1>. QED
  BY <1>2, <1>4, <1>5, <1>6 DEF IInv

-----------------------------------------------------------------------------
(* The theorems.                                                            *)

\* The inductive invariant holds for every calendar and set of triggers: copies
\* wait where a search from now would put them (TimeWheelImpl::TickMinute).
THEOREM WheelInvariant == Spec => []IInv
<1>1. Init => IInv
  <2>. SUFFICES ASSUME Init PROVE IInv
    OBVIOUS
  <2>1. Empty \in CopyCount /\ \A c \in Ids : Empty[c] = 0
    BY DEF Empty, CopyCount
  <2>2. Len(crons) = 0 /\ Registered = {} /\ crons \in Seq(Triggers) /\ MaxCrons \in Nat
    BY WheelAssumption DEF Init, Registered
  <2>3. TypeOK
    BY <2>1, <2>2 DEF Init, TypeOK
  <2>4. WhereSearched
    BY <2>1 DEF Init, WhereSearched, Held
  <2>5. Swept /\ OnceAndInItsMinute /\ MissedOnlyStranded
    BY <2>1 DEF Init, Swept, OnceAndInItsMinute, MissedOnlyStranded
  <2>6. EntriesKept
    BY <2>2 DEF EntriesKept
  <2>. QED
    BY <2>3, <2>4, <2>5, <2>6 DEF IInv
<1>2. IInv /\ [Next]_vars => IInv'
  BY AddCronPreserves, TimerPreserves, MinutePreserves, TickPreserves DEF Next
<1>. QED
  BY <1>1, <1>2, PTL DEF Spec

\* No entry misses a minute that it matches, unless the end of a month has
\* stranded a copy of it (the wheels' wrap-around in TickMinute).
THEOREM MissesOnlyStranded == Spec => []MissedOnlyStranded
<1>1. IInv => MissedOnlyStranded
  BY DEF IInv
<1>. QED
  BY <1>1, WheelInvariant, PTL

\* A tick fires an entry at most once and in one of its minutes (sort and unique
\* in TickMinute).
THEOREM FiresOnceInItsMinute == Spec => []OnceAndInItsMinute
<1>1. IInv => OnceAndInItsMinute
  BY DEF IInv
<1>. QED
  BY <1>1, WheelInvariant, PTL

\* No tick loses the last copy of an entry, for either of its day fields.
THEOREM KeepsEntries == Spec => []EntriesKept
<1>1. IInv => EntriesKept
  BY DEF IInv
<1>. QED
  BY <1>1, WheelInvariant, PTL

===============================================================================
