----------------------------- MODULE TehranTime -----------------------------
(***************************************************************************)
(* Opening hours and the days of the sales statistics, by the clock of     *)
(* Tehran: lib/hours.js on the server, its counterpart in                  *)
(* public/js/script.js on the phone, and tehranBoundaries in               *)
(* data/orders.js. Times are whole minutes of UTC since 1970; all of the   *)
(* code rounds down to them.                                               *)
(***************************************************************************)
EXTENDS Integers, Sequences

DayLength == 1440

\* TEHRAN_OFFSET_MS.
Local(t) == t + 210

\* tehranDayAndMinutes: 1 January 1970 was a Thursday, day 4 of the week.
Day(t) == (Local(t) \div DayLength + 4) % 7
Minutes(t) == Local(t) % DayLength

Slots == [days : SUBSET (0..6), open : 0..DayLength, close : 0..DayLength]

\* What config.js asks of a schedule: a slot closes after it opens, and by
\* midnight, and every day of the week is in exactly one.
Schedules ==
    {h \in Seq(Slots) :
        /\ \A i \in DOMAIN h : h[i].open < h[i].close
        /\ \A d \in 0..6 : \E i \in DOMAIN h :
              d \in h[i].days /\ \A j \in DOMAIN h \ {i} : d \notin h[j].days}

OPENING_HOURS ==
    <<[days |-> {6, 0, 1, 2, 3}, open |-> 8 * 60, close |-> 23 * 60],
      [days |-> {4, 5}, open |-> 9 * 60, close |-> 24 * 60]>>

HasSlot(h, d) == \E i \in DOMAIN h : d \in h[i].days

\* slotForDay: the first one that has the day.
SlotForDay(h, d) ==
    h[CHOOSE i \in DOMAIN h : d \in h[i].days /\ \A j \in 1..(i - 1) : d \notin h[j].days]

-----------------------------------------------------------------------------
(* The server. *)

\* getOpenStatus.
IsOpen(h, t) ==
    LET slot == SlotForDay(h, Day(t)) IN
    HasSlot(h, Day(t)) /\ slot.open <= Minutes(t) /\ Minutes(t) < slot.close

Never == [when |-> "never", time |-> 0]

\* nextOpening, which is asked for when the cafe is closed.
NextOpening(h, t) ==
    LET today == SlotForDay(h, Day(t))
        next == (Day(t) + 1) % 7
        tomorrow == SlotForDay(h, next)
    IN  IF HasSlot(h, Day(t)) /\ Minutes(t) < today.open
        THEN [when |-> "today", time |-> today.open]
        ELSE IF HasSlot(h, next) THEN [when |-> "tomorrow", time |-> tomorrow.open]
        ELSE Never

\* The minute that it names.
Named(t, opening) ==
    t - Minutes(t) + opening.time + IF opening.when = "tomorrow" THEN DayLength ELSE 0

-----------------------------------------------------------------------------
(***************************************************************************)
(* The phone, whose clock is set by the server's (clockSkewMs). It turns   *)
(* that into a day and a time of day with z, the minutes by which its own  *)
(* clock is ahead of UTC at the moment: what its Intl knows of             *)
(* Asia/Tehran, which is 270 in a summer whose daylight saving the device  *)
(* knows of or has not unlearned, or, when that throws, the zone that the  *)
(* device is set to.                                                       *)
(***************************************************************************)

\* getTehranTimeParts.
Weekday(t, z) == ((t + z) \div DayLength + 4) % 7
Hour(t, z) == (((t + z) % DayLength) \div 60) % 24
Minute(t, z) == (t + z) % 60

\* getOpenState: whether it is open, and when it is not, the next opening.
OpenOnPhone(h, t, z) ==
    LET cur == Hour(t, z) * 60 + Minute(t, z)
        slot == SlotForDay(h, Weekday(t, z))
    IN  HasSlot(h, Weekday(t, z)) /\ slot.open <= cur /\ cur < slot.close

NextOnPhone(h, t, z) ==
    LET cur == Hour(t, z) * 60 + Minute(t, z)
        slot == SlotForDay(h, Weekday(t, z))
        tomorrow == (Weekday(t, z) + 1) % 7
    IN  IF ~HasSlot(h, Weekday(t, z)) THEN Never
        ELSE IF cur < slot.open THEN [when |-> "today", time |-> slot.open]
        ELSE IF HasSlot(h, tomorrow)
        THEN [when |-> "tomorrow", time |-> SlotForDay(h, tomorrow).open]
        ELSE Never

-----------------------------------------------------------------------------
(* The statistics. *)

\* tehranBoundaries, startOfDay and startOfWeek.
StartOfDay(t) == (Local(t) \div DayLength) * DayLength - 210
DaysSinceSaturday(t) == (Day(StartOfDay(t)) + 1) % 7
StartOfWeek(t) == StartOfDay(t) - DaysSinceSaturday(t) * DayLength
=============================================================================
