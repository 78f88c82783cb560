--------------------------- MODULE CronTriggerBits ----------------------------
(****************************************************************************)
(* How an application sets up a CronTrigger (src/Utility/CronTrigger.cc): a *)
(* field is the set of the bits that are set in an integer of some width.   *)
(****************************************************************************)
EXTENDS Integers

kEvery == -1
kOnly == TRUE

\* The constructor's value of each field.
Unset == {}

\* SetBit: kEvery sets every bit, those that no minute or day has as well.
SetBit(bits, position, width) ==
    IF position = kEvery THEN 0 .. (width - 1) ELSE bits \cup {position}

ClearBit(bits, position) == bits \ {position}

\* SetMinute to SetDayOfWeek: IsOnly clears the bit that is about to be set, and
\* no other.
SetField(bits, value, isOnly, width) ==
    SetBit(IF isOnly THEN ClearBit(bits, value) ELSE bits, value, width)

\* ClearMinute to ClearDayOfWeek.
ClearField(bits, value) == ClearBit(bits, value)

\* SetAllEvery: kEvery, converted to the type of each field.
AllEvery(width) == 0 .. (width - 1)

\* IsSetMinute to IsSetDayOfWeek, for the values that the wheels ask for.
IsSet(bits, values) == {v \in values : v \in bits}
=============================================================================
