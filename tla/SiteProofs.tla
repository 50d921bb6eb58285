----------------------------- MODULE SiteProofs ------------------------------
(***************************************************************************)
(* Proofs about the site's settings, for any settings and values and any   *)
(* number of writers, and about its opening hours and the calendar of      *)
(* Tehran, for every schedule and minute.                                  *)
(***************************************************************************)
EXTENDS SiteSettings, TehranTime, TLAPS

-----------------------------------------------------------------------------
LEMMA SettingsAre ==
    ASSUME NEW f
    PROVE  f \in Settings <=> f \in [DOMAIN f -> Values] /\ DOMAIN f \subseteq Keys
<1>1. ASSUME f \in Settings PROVE f \in [DOMAIN f -> Values] /\ DOMAIN f \subseteq Keys
  BY <1>1 DEF Settings
<1>2. ASSUME f \in [DOMAIN f -> Values], DOMAIN f \subseteq Keys PROVE f \in Settings
  BY <1>2 DEF Settings
<1> QED  BY <1>1, <1>2

LEMMA CompletedGives ==
    ASSUME NEW f \in Settings, NEW g \in Settings
    PROVE  /\ Completed(f, g) \in Settings
           /\ DOMAIN Completed(f, g) = DOMAIN f \cup DOMAIN g
           /\ \A k \in DOMAIN f : Completed(f, g)[k] = f[k]
<1>1. f \in [DOMAIN f -> Values] /\ DOMAIN f \subseteq Keys  BY SettingsAre
<1>2. g \in [DOMAIN g -> Values] /\ DOMAIN g \subseteq Keys  BY SettingsAre
<1>3. DOMAIN Completed(f, g) = DOMAIN f \cup DOMAIN g  BY DEF Completed
<1>4. Completed(f, g) \in [DOMAIN Completed(f, g) -> Values]  BY <1>1, <1>2 DEF Completed
<1>5. Completed(f, g) \in Settings  BY <1>1, <1>2, <1>3, <1>4, SettingsAre
<1> QED  BY <1>3, <1>5 DEF Completed

LEMMA SetGives ==
    ASSUME NEW f \in Settings, NEW k \in Keys, NEW v \in Values
    PROVE  /\ Set(f, k, v) \in Settings
           /\ DOMAIN Set(f, k, v) = DOMAIN f \cup {k}
           /\ Set(f, k, v)[k] = v
           /\ \A j \in DOMAIN f : j # k => Set(f, k, v)[j] = f[j]
<1> DEFINE one == [j \in {k} |-> v]
<1>1. DOMAIN one = {k} /\ one[k] = v  OBVIOUS
<1>2. one \in [DOMAIN one -> Values] /\ DOMAIN one \subseteq Keys  OBVIOUS
<1>3. one \in Settings
  <2> HIDE DEF one
  <2> QED  BY <1>2, SettingsAre
<1>4. \A j \in DOMAIN f : j # k => Completed(one, f)[j] = f[j]  BY DEF Completed
<1> HIDE DEF one
<1>5. /\ Completed(one, f) \in Settings
      /\ DOMAIN Completed(one, f) = DOMAIN one \cup DOMAIN f
      /\ \A j \in DOMAIN one : Completed(one, f)[j] = one[j]
  BY <1>3, CompletedGives
<1>6. Set(f, k, v) = Completed(one, f)  BY DEF Set, one
<1> QED  BY <1>1, <1>4, <1>5, <1>6

-----------------------------------------------------------------------------
LEMMA Running ==
    ASSUME SettingsTypeOK, NEW h \in Handlers, ~At(h, "idle")
    PROVE  handler[h] \in [pc : {"count", "seed", "write"}, key : Keys, value : Values]
  BY DEF At, Idle, SettingsTypeOK

LEMMA GotoTyped ==
    ASSUME SettingsTypeOK, NEW h \in Handlers, ~At(h, "idle"),
           NEW pc \in {"count", "seed", "write"}, Goto(h, pc)
    PROVE  handler' \in [Handlers -> {Idle} \cup [pc : {"count", "seed", "write"},
                                                  key : Keys, value : Values]]
  BY Running DEF Goto, SettingsTypeOK

\* The types, for every value of the constants (setSiteSetting).
THEOREM SettingsTypeCorrect == Spec => []SettingsTypeOK
<1>1. Init => SettingsTypeOK  BY DEF Init, SettingsTypeOK, Contents
<1>2. SettingsTypeOK /\ [Next]_vars => SettingsTypeOK'
  <2> SUFFICES ASSUME SettingsTypeOK, [Next]_vars PROVE SettingsTypeOK'  OBVIOUS
  <2>1. ASSUME NEW h \in Handlers, NEW k \in Keys, NEW v \in Values, Begin(h, k, v)
        PROVE  SettingsTypeOK'
    BY <2>1 DEF Begin, tableVars, SettingsTypeOK
  <2>2. ASSUME NEW h \in Handlers, Count(h) \/ SeedFails(h) PROVE SettingsTypeOK'
    <3>1. ~At(h, "idle")  BY <2>2 DEF Count, SeedFails, At
    <3>2. \E pc \in {"seed", "write"} : Goto(h, pc)  BY <2>2 DEF Count, SeedFails
    <3> QED  BY <2>2, <3>1, <3>2, GotoTyped DEF Count, SeedFails, tableVars, SettingsTypeOK
  <2>3. ASSUME NEW h \in Handlers, Seed(h) PROVE SettingsTypeOK'
    <3>1. ~At(h, "idle") /\ Goto(h, "write")  BY <2>3 DEF Seed, At
    <3>2. table' \in Settings  BY <2>3, CompletedGives DEF Seed, SettingsTypeOK
    <3> QED  BY <2>3, <3>1, <3>2, GotoTyped DEF Seed, SettingsTypeOK
  <2>4. ASSUME NEW h \in Handlers, Write(h) PROVE SettingsTypeOK'
    <3>1. handler[h].key \in Keys /\ handler[h].value \in Values
      BY <2>4, Running DEF Write, At
    <3>2. table' \in Settings /\ promised' \in Settings
      BY <2>4, <3>1, SetGives DEF Write, SettingsTypeOK
    <3> QED  BY <2>4, <3>1, <3>2 DEF Write, SettingsTypeOK
  <2>5. ASSUME NEW h \in Handlers, Fail(h) PROVE SettingsTypeOK'
    BY <2>5 DEF Fail, tableVars, SettingsTypeOK
  <2>6. CASE UNCHANGED vars  BY <2>6 DEF vars, tableVars, SettingsTypeOK
  <2> QED  BY <2>1, <2>2, <2>3, <2>4, <2>5, <2>6 DEF Next
<1> QED  BY <1>1, <1>2, PTL DEF Spec

-----------------------------------------------------------------------------
(* Both promises rest on what a writer that has counted an empty table may *)
(* find when it gets to its copy: the table empty still, or the copy of    *)
(* another writer, unless a setting went into it without a copy.           *)

\* Whatever has been set has a row, which says what it was set to.
SetInTable ==
    \A k \in written : k \in DOMAIN table /\ k \in DOMAIN promised /\ table[k] = promised[k]

Seeding == \E h \in Handlers : At(h, "seed")

\* A copy that is still to be made adds nothing unless it is the first.
CopiesAgree ==
    ~unseeded => /\ Contents = promised
                 /\ Seeding /\ ~Empty => DOMAIN legacy \subseteq DOMAIN table

SeedersInherit == Seeding => DOMAIN legacy # {}

SettingsInv == SettingsTypeOK /\ SetInTable /\ CopiesAgree /\ SeedersInherit

LEMMA InitInv == Init => SettingsInv
<1> SUFFICES ASSUME Init PROVE SettingsInv  OBVIOUS
<1>1. SettingsTypeOK  BY DEF Init, SettingsTypeOK, Contents
<1>2. ~Seeding  BY DEF Init, At, Idle, Seeding
<1> QED  BY <1>1, <1>2 DEF Init, SettingsInv, SetInTable, CopiesAgree, SeedersInherit

\* The steps that leave the table alone.
LEMMA TableKept ==
    ASSUME SettingsInv, UNCHANGED tableVars, SettingsTypeOK',
           Seeding' => Seeding \/ (Empty /\ DOMAIN legacy # {})
    PROVE  SettingsInv'
<1>1. SetInTable'  BY DEF SettingsInv, SetInTable, tableVars
<1>2. Contents' = Contents /\ Empty' = Empty  BY DEF Contents, Empty, tableVars
<1>3. CopiesAgree'  BY <1>2 DEF SettingsInv, CopiesAgree, tableVars
<1>4. SeedersInherit'  BY DEF SettingsInv, SeedersInherit, tableVars
<1> QED  BY <1>1, <1>3, <1>4 DEF SettingsInv

LEMMA SeedKept ==
    ASSUME SettingsInv, NEW h \in Handlers, Seed(h), SettingsTypeOK'
    PROVE  SettingsInv'
<1>1. table \in Settings /\ legacy \in Settings  BY DEF SettingsInv, SettingsTypeOK
<1>2. /\ DOMAIN table' = DOMAIN table \cup DOMAIN legacy
      /\ \A k \in DOMAIN table : table'[k] = table[k]
  BY <1>1, CompletedGives DEF Seed
<1>3. SetInTable'  BY <1>2 DEF SettingsInv, SetInTable, Seed
<1>4. Seeding /\ DOMAIN legacy # {} /\ legacy' = legacy
  BY DEF SettingsInv, SeedersInherit, Seed, Seeding
<1>5. ~Empty' /\ Contents' = table'  BY <1>2, <1>4 DEF Empty, Contents
<1>6. ASSUME ~unseeded PROVE table' = Contents
  <2>1. CASE Empty
    <3>1. legacy \in [DOMAIN legacy -> Values]  BY <1>1, SettingsAre
    <3>2. Completed(table, legacy) = legacy  BY <2>1, <3>1 DEF Empty, Completed
    <3> QED  BY <2>1, <3>2 DEF Contents, Seed
  <2>2. CASE ~Empty
    <3>1. DOMAIN legacy \subseteq DOMAIN table  BY <1>4, <1>6, <2>2 DEF SettingsInv, CopiesAgree
    <3>2. table \in [DOMAIN table -> Values]  BY <1>1, SettingsAre
    <3>3. Completed(table, legacy) = table  BY <3>1, <3>2 DEF Completed
    <3> QED  BY <2>2, <3>3 DEF Contents, Seed
  <2> QED  BY <2>1, <2>2
<1>7. CopiesAgree'  BY <1>2, <1>4, <1>5, <1>6 DEF SettingsInv, CopiesAgree, Seed
<1>8. SeedersInherit'  BY <1>4 DEF SeedersInherit
<1> QED  BY <1>3, <1>7, <1>8 DEF SettingsInv

LEMMA WriteKept ==
    ASSUME SettingsInv, NEW h \in Handlers, Write(h), SettingsTypeOK'
    PROVE  SettingsInv'
<1>1. PICK k \in Keys, v \in Values :
        /\ table' = Set(table, k, v) /\ promised' = Set(promised, k, v)
        /\ written' = written \cup {k}
  BY Running DEF Write, At, SettingsInv
<1>2. table \in Settings /\ promised \in Settings  BY DEF SettingsInv, SettingsTypeOK
<1>3. /\ DOMAIN table' = DOMAIN table \cup {k} /\ table'[k] = v
      /\ \A j \in DOMAIN table : j # k => table'[j] = table[j]
  BY <1>1, <1>2, SetGives
<1>4. /\ DOMAIN promised' = DOMAIN promised \cup {k} /\ promised'[k] = v
      /\ \A j \in DOMAIN promised : j # k => promised'[j] = promised[j]
  BY <1>1, <1>2, SetGives
<1>5. SetInTable'  BY <1>1, <1>3, <1>4 DEF SettingsInv, SetInTable
<1>6. ~Empty' /\ legacy' = legacy  BY <1>3 DEF Empty, Write
<1>7. Seeding' => Seeding
  BY DEF Write, Seeding, At, Idle, SettingsInv, SettingsTypeOK
<1>8. ASSUME ~unseeded' PROVE Contents' = promised'
  <2>1. Contents = promised /\ (Empty => DOMAIN legacy = {})
    BY <1>8 DEF SettingsInv, CopiesAgree, Write
  <2>2. table = promised
    <3>1. CASE Empty
      <4>1. legacy \in [DOMAIN legacy -> Values] /\ table \in [DOMAIN table -> Values]
        BY SettingsAre DEF SettingsInv, SettingsTypeOK
      <4>2. legacy = table  BY <2>1, <3>1, <4>1 DEF Empty
      <4> QED  BY <2>1, <3>1, <4>2 DEF Contents
    <3> QED  BY <2>1, <3>1 DEF Contents
  <2> QED  BY <1>1, <1>6, <2>2 DEF Contents
<1>9. ASSUME ~unseeded', Seeding' PROVE DOMAIN legacy \subseteq DOMAIN table'
  <2>1. Seeding /\ DOMAIN legacy # {}  BY <1>7, <1>9 DEF SettingsInv, SeedersInherit
  <2>2. ~Empty /\ ~unseeded  BY <1>9, <2>1 DEF Write
  <2> QED  BY <1>3, <2>1, <2>2 DEF SettingsInv, CopiesAgree
<1>10. CopiesAgree'  BY <1>6, <1>8, <1>9 DEF CopiesAgree
<1>11. SeedersInherit'  BY <1>6, <1>7 DEF SettingsInv, SeedersInherit
<1> QED  BY <1>5, <1>10, <1>11 DEF SettingsInv

LEMMA SettingsInvariant == Spec => []SettingsInv
<1>1. SettingsInv /\ SettingsTypeOK' /\ [Next]_vars => SettingsInv'
  <2> SUFFICES ASSUME SettingsInv, SettingsTypeOK', [Next]_vars PROVE SettingsInv'  OBVIOUS
  <2>0. SettingsTypeOK  BY DEF SettingsInv
  <2>1. ASSUME NEW h \in Handlers, NEW k \in Keys, NEW v \in Values, Begin(h, k, v)
        PROVE  SettingsInv'
    <3>1. Seeding' => Seeding  BY <2>0, <2>1 DEF Begin, Seeding, At, SettingsTypeOK
    <3> QED  BY <2>1, <3>1, TableKept DEF Begin
  <2>2. ASSUME NEW h \in Handlers, Count(h) PROVE SettingsInv'
    <3>1. Seeding' => Seeding \/ (Empty /\ DOMAIN legacy # {})
      <4>1. CASE Empty /\ DOMAIN legacy # {}  BY <4>1
      <4>2. CASE ~(Empty /\ DOMAIN legacy # {})
        <5>1. Goto(h, "write") /\ ~At(h, "idle")  BY <2>2, <4>2 DEF Count, At
        <5>2. \A g \in Handlers : At(g, "seed")' => At(g, "seed")
          BY <2>0, <5>1, Running DEF Goto, At, SettingsTypeOK
        <5> QED  BY <5>2 DEF Seeding
      <4> QED  BY <4>1, <4>2
    <3> QED  BY <2>2, <3>1, TableKept DEF Count
  <2>3. ASSUME NEW h \in Handlers, SeedFails(h) PROVE SettingsInv'
    <3>1. Goto(h, "write") /\ ~At(h, "idle")  BY <2>3 DEF SeedFails, At
    <3>2. \A g \in Handlers : At(g, "seed")' => At(g, "seed")
      BY <2>0, <3>1, Running DEF Goto, At, SettingsTypeOK
    <3> QED  BY <2>3, <3>2, TableKept DEF SeedFails, Seeding
  <2>4. ASSUME NEW h \in Handlers, Fail(h) PROVE SettingsInv'
    <3>1. \A g \in Handlers : At(g, "seed")' => At(g, "seed")
      BY <2>0, <2>4 DEF Fail, At, Idle, SettingsTypeOK
    <3> QED  BY <2>4, <3>1, TableKept DEF Fail, Seeding
  <2>5. CASE UNCHANGED vars  BY <2>5, TableKept DEF vars, Seeding, At
  <2> QED  BY <2>1, <2>2, <2>3, <2>4, <2>5, SeedKept, WriteKept DEF Next
<1> QED  BY <1>1, InitInv, SettingsTypeCorrect, PTL DEF Spec

\* A setting that has been set reads as what it was last set to, whatever fails
\* and however many copies of site:config are under way (seedFromKvIfEmpty).
THEOREM SetValuesStayAlways == Spec => []SetValuesStay
<1>1. SettingsInv => SetValuesStay
  <2> SUFFICES ASSUME SettingsInv, NEW k \in written
      PROVE k \in DOMAIN Contents /\ k \in DOMAIN promised /\ Contents[k] = promised[k]
    BY DEF SetValuesStay
  <2>1. k \in DOMAIN table /\ k \in DOMAIN promised /\ table[k] = promised[k]
    BY DEF SettingsInv, SetInTable
  <2>2. Contents = table  BY <2>1 DEF Contents, Empty
  <2> QED  BY <2>1, <2>2
<1> QED  BY <1>1, SettingsInvariant, PTL

\* No setting changes but by being set, unless a write followed a copy that failed
\* (setSiteSetting): the rest is what it was in site:config.
THEOREM OthersStayAlways == Spec => []OthersStay
<1>1. SettingsInv => OthersStay  BY DEF SettingsInv, CopiesAgree, OthersStay
<1> QED  BY <1>1, SettingsInvariant, PTL

-----------------------------------------------------------------------------
(***************************************************************************)
(* Calendar arithmetic.                                                    *)
(***************************************************************************)

\* The minutes of a day. The number is hidden from the steps that need not count.
DayMinutes == 0..1439

\* A minute is known by its day, counted from 1970, and the minute of that day.
LEMMA Division ==
    ASSUME NEW n \in Nat
    PROVE  \E q \in Nat, m \in DayMinutes : n = 1440 * q + m
<1>1. PICK q \in Nat : q = n \div 1440  OBVIOUS
<1>2. 1440 * q <= n /\ n < 1440 * q + 1440  BY <1>1
<1>3. n - 1440 * q \in DayMinutes /\ n = 1440 * q + (n - 1440 * q)  BY <1>2 DEF DayMinutes
<1> QED  BY <1>3

LEMMA Split ==
    ASSUME NEW t \in Nat
    PROVE  \E q \in Nat :
             /\ Local(t) = 1440 * q + Minutes(t) /\ Minutes(t) \in DayMinutes
             /\ Local(t) \div 1440 = q /\ Day(t) = (q + 4) % 7 /\ Day(t) \in 0..6
<1>1. PICK n \in Nat : n = Local(t)  BY DEF Local
<1>2. PICK q \in Nat, m \in DayMinutes : n = 1440 * q + m  BY Division
<1>3. n \div 1440 = q /\ n % 1440 = m  BY <1>2 DEF DayMinutes
<1>4. (q + 4) % 7 \in 0..6  OBVIOUS
<1> QED  BY <1>1, <1>2, <1>3, <1>4 DEF Day, Minutes, DayLength

LEMMA Typed ==
    ASSUME NEW t \in Nat
    PROVE  Minutes(t) \in DayMinutes /\ Day(t) \in 0..6
BY Split

\* Minutes of the same day, and of the next one.
LEMMA SameDay ==
    ASSUME NEW t \in Nat, NEW u \in Nat, u - t + Minutes(t) \in DayMinutes
    PROVE  Day(u) = Day(t) /\ Minutes(u) = u - t + Minutes(t)
<1>1. PICK q \in Nat : Local(t) = 1440 * q + Minutes(t) /\ Minutes(t) \in DayMinutes
                        /\ Day(t) = (q + 4) % 7
  BY Split
<1>2. PICK k \in DayMinutes, m \in DayMinutes : k = Minutes(t) /\ m = u - t + k  BY <1>1
<1>3. t + 210 = 1440 * q + k  BY <1>1, <1>2 DEF Local
<1>4. PICK n \in Nat : n = Local(u) /\ n = u + 210  BY DEF Local
<1>5. n \div 1440 = q /\ n % 1440 = m
  <2>1. n = 1440 * q + m  BY <1>2, <1>3, <1>4 DEF DayMinutes
  <2> QED  BY <2>1 DEF DayMinutes
<1>6. Day(u) = (q + 4) % 7 /\ Minutes(u) = m  BY <1>4, <1>5 DEF Day, Minutes, DayLength
<1> QED  BY <1>1, <1>2, <1>6

LEMMA NextDay ==
    ASSUME NEW t \in Nat, NEW u \in Nat, u - t + Minutes(t) - 1440 \in DayMinutes
    PROVE  Day(u) = (Day(t) + 1) % 7 /\ Minutes(u) = u - t + Minutes(t) - 1440
<1>1. PICK q \in Nat : Local(t) = 1440 * q + Minutes(t) /\ Minutes(t) \in DayMinutes
                        /\ Day(t) = (q + 4) % 7
  BY Split
<1>2. PICK k \in DayMinutes, m \in DayMinutes, p \in Nat :
         k = Minutes(t) /\ m = u - t + k - 1440 /\ p = q + 1
  BY <1>1
<1>3. t + 210 = 1440 * q + k  BY <1>1, <1>2 DEF Local
<1>4. PICK n \in Nat : n = Local(u) /\ n = u + 210  BY DEF Local
<1>5. n \div 1440 = p /\ n % 1440 = m
  <2>1. n = 1440 * p + m  BY <1>2, <1>3, <1>4 DEF DayMinutes
  <2> QED  BY <2>1 DEF DayMinutes
<1>6. Day(u) = (p + 4) % 7 /\ Minutes(u) = m  BY <1>4, <1>5 DEF Day, Minutes, DayLength
<1>7. ((q + 1) + 4) % 7 = (((q + 4) % 7) + 1) % 7  OBVIOUS
<1> QED  BY <1>1, <1>2, <1>6, <1>7

(***************************************************************************)
(* Opening hours.                                                          *)
(***************************************************************************)

\* The day's slot is one of the schedule.
LEMMA SlotOfDay ==
    ASSUME NEW h \in Schedules, NEW d \in 0..6
    PROVE  /\ HasSlot(h, d)
           /\ \E s \in Slots : s = SlotForDay(h, d) /\ s.open < s.close
<1> DEFINE First(i) == d \in h[i].days /\ \A j \in 1..(i - 1) : d \notin h[j].days
<1>1. Len(h) \in Nat /\ DOMAIN h = 1..Len(h)  BY DEF Schedules
<1>2. PICK i \in DOMAIN h : d \in h[i].days /\ \A j \in DOMAIN h \ {i} : d \notin h[j].days
  BY DEF Schedules
<1>3. First(i)
  <2>1. \A j \in 1..(i - 1) : j \in DOMAIN h \ {i}  BY <1>1
  <2> QED  BY <1>2, <2>1
<1>4. PICK k \in DOMAIN h : SlotForDay(h, d) = h[k]
  <2>1. (CHOOSE k \in DOMAIN h : First(k)) \in DOMAIN h  BY <1>3
  <2> QED  BY <2>1 DEF SlotForDay
<1>5. h[k] \in Slots /\ h[k].open < h[k].close  BY DEF Schedules
<1> QED  BY <1>2, <1>4, <1>5 DEF HasSlot

\* The configured hours are such a schedule.
THEOREM ConfiguredHours == OPENING_HOURS \in Schedules
<1>1. OPENING_HOURS \in Seq(Slots)  BY DEF OPENING_HOURS, Slots, DayLength
<1>2. DOMAIN OPENING_HOURS = {1, 2}  BY DEF OPENING_HOURS
<1>3. \A i \in {1, 2} : OPENING_HOURS[i].open < OPENING_HOURS[i].close  BY DEF OPENING_HOURS
<1>4. \A d \in 0..6 : \E i \in {1, 2} :
        d \in OPENING_HOURS[i].days /\ \A j \in {1, 2} \ {i} : d \notin OPENING_HOURS[j].days
  BY DEF OPENING_HOURS
<1> QED  BY <1>1, <1>2, <1>3, <1>4 DEF Schedules

\* The weekday, hour and minute of a phone are the server's at the minute that
\* is as far off as its zone is from Tehran's.
LEMMA ClockTime ==
    ASSUME NEW t \in Nat, NEW z \in Int, NEW u \in Nat, u = t + z - 210
    PROVE  Weekday(t, z) = Day(u) /\ Hour(t, z) * 60 + Minute(t, z) = Minutes(u)
<1>1. PICK n \in Nat : n = Local(u) /\ n = t + z  BY DEF Local
<1>2. PICK q \in Nat, m \in DayMinutes : n = 1440 * q + m  BY Division
<1>3. n \div 1440 = q /\ n % 1440 = m  BY <1>2 DEF DayMinutes
<1>4. m \div 60 \in 0..23 /\ m % 60 = m - 60 * (m \div 60)  BY DEF DayMinutes
<1>5. PICK k \in 0..23 : k = m \div 60  BY <1>4
<1>6. k % 24 = k  OBVIOUS
<1>7. n % 60 = m - 60 * k
  <2>1. n = 60 * (24 * q + k) + (m - 60 * k) /\ m - 60 * k \in 0..59
    BY <1>2, <1>4, <1>5 DEF DayMinutes
  <2> QED  BY <2>1, <1>2, <1>5 DEF DayMinutes
<1>8. Hour(t, z) = k  BY <1>1, <1>3, <1>5, <1>6 DEF Hour, DayLength
<1>9. Minute(t, z) = m - 60 * k  BY <1>1, <1>7 DEF Minute
<1>10. Minutes(u) = m /\ Weekday(t, z) = Day(u)
  BY <1>1, <1>3 DEF Minutes, Day, Weekday, DayLength
<1>11. k * 60 + (m - 60 * k) = m  BY DEF DayMinutes
<1> QED  BY <1>8, <1>9, <1>10, <1>11

\* The comments at hours.js:3 and script.js:2012 ask that both sides give the
\* same answer. They do as far as the phone's clock does: for every schedule and
\* every zone that the phone takes for Tehran's it lets the customer order, and
\* announces an opening, as the server does at the minute that is as far off as
\* that zone. On a day without a slot, which config.js rules out, the phone
\* announces nothing, whatever tomorrow's slot.
THEOREM SameAnswerOnThePhone ==
    ASSUME NEW h \in Seq(Slots), NEW t \in Nat, NEW z \in Int,
           NEW u \in Nat, u = t + z - 210
    PROVE  /\ OpenOnPhone(h, t, z) <=> IsOpen(h, u)
           /\ ~IsOpen(h, u) =>
                NextOnPhone(h, t, z) = IF HasSlot(h, Day(u)) THEN NextOpening(h, u) ELSE Never
<1>1. Weekday(t, z) = Day(u) /\ Hour(t, z) * 60 + Minute(t, z) = Minutes(u)  BY ClockTime
<1>2. OpenOnPhone(h, t, z) <=> IsOpen(h, u)  BY <1>1, Zenon DEF OpenOnPhone, IsOpen
<1>3. CASE ~HasSlot(h, Day(u))  BY <1>1, <1>2, <1>3, Zenon DEF NextOnPhone
<1>4. CASE HasSlot(h, Day(u))
  <2>1. NextOnPhone(h, t, z) = NextOpening(h, u)
    BY <1>1, <1>4 DEF NextOnPhone, NextOpening
  <2> QED  BY <1>2, <1>4, <2>1, Zenon
<1> QED  BY <1>3, <1>4

LEMMA SlotBounds ==
    ASSUME NEW h \in Schedules, NEW d \in 0..6
    PROVE  /\ SlotForDay(h, d).open \in DayMinutes /\ SlotForDay(h, d).close \in 0..DayLength
           /\ SlotForDay(h, d).open < SlotForDay(h, d).close
<1>1. PICK s \in Slots : s = SlotForDay(h, d) /\ s.open < s.close  BY SlotOfDay
<1>2. PICK o \in 0..DayLength, c \in 0..DayLength : o = s.open /\ c = s.close  BY DEF Slots
<1>3. o < c  BY <1>1, <1>2
<1>4. o \in DayMinutes  BY <1>3 DEF DayMinutes, DayLength
<1> QED  BY <1>1, <1>2, <1>4

\* What nextOpening names is the next opening: a cafe that is closed opens at
\* the named minute and not before.
THEOREM NextOpeningIsFirst ==
    ASSUME NEW h \in Schedules, NEW t \in Nat, ~IsOpen(h, t),
           NEW n \in Nat, n = Named(t, NextOpening(h, t))
    PROVE  /\ t < n /\ IsOpen(h, n)
           /\ \A u \in t..(n - 1) : ~IsOpen(h, u)
<1>1. Minutes(t) \in DayMinutes /\ Day(t) \in 0..6  BY Typed, Zenon
<1>2. PICK m \in DayMinutes, d \in 0..6 : m = Minutes(t) /\ d = Day(t)  BY <1>1
<1>3. PICK e \in 0..6 : e = (d + 1) % 7  OBVIOUS
<1>4. HasSlot(h, d) /\ HasSlot(h, e)  BY SlotOfDay
<1>5. PICK o \in DayMinutes : o = SlotForDay(h, d).open  BY SlotBounds, Zenon
<1>6. PICK c \in 0..DayLength : c = SlotForDay(h, d).close  BY SlotBounds, Zenon
<1>7. PICK p \in DayMinutes : p = SlotForDay(h, e).open  BY SlotBounds, Zenon
<1>8. PICK q \in 0..DayLength : q = SlotForDay(h, e).close  BY SlotBounds, Zenon
<1>9. o < c /\ p < q
  <2>1. SlotForDay(h, d).open < SlotForDay(h, d).close  BY SlotBounds, Zenon
  <2>2. SlotForDay(h, e).open < SlotForDay(h, e).close  BY SlotBounds, Zenon
  <2> QED  BY <2>1, <2>2, <1>5, <1>6, <1>7, <1>8
<1>10. m < o \/ c <= m  BY <1>2, <1>4, <1>5, <1>6 DEF IsOpen, DayMinutes, DayLength
<1>11. ASSUME NEW u \in Nat, u - t + m \in DayMinutes
       PROVE  IsOpen(h, u) <=> o <= u - t + m /\ u - t + m < c
  <2>1. u - t + Minutes(t) \in DayMinutes  BY <1>2, <1>11
  <2>2. Day(u) = Day(t) /\ Minutes(u) = u - t + Minutes(t)  BY <2>1, SameDay
  <2> QED  BY <2>2, <1>2, <1>4, <1>5, <1>6 DEF IsOpen
<1>12. ASSUME NEW u \in Nat, u - t + m - 1440 \in DayMinutes
       PROVE  IsOpen(h, u) <=> p <= u - t + m - 1440 /\ u - t + m - 1440 < q
  <2>1. u - t + Minutes(t) - 1440 \in DayMinutes  BY <1>2, <1>12
  <2>2. Day(u) = (Day(t) + 1) % 7 /\ Minutes(u) = u - t + Minutes(t) - 1440
    BY <2>1, NextDay
  <2> QED  BY <2>2, <1>2, <1>3, <1>4, <1>7, <1>8 DEF IsOpen
<1>13. NextOpening(h, t) = IF m < o THEN [when |-> "today", time |-> o]
                                    ELSE [when |-> "tomorrow", time |-> p]
  BY <1>2, <1>3, <1>4, <1>5, <1>7 DEF NextOpening
<1>14. CASE m < o
  <2>1. n = t - m + o
    <3>1. NextOpening(h, t) = [when |-> "today", time |-> o]  BY <1>13, <1>14
    <3> QED  BY <3>1, <1>2 DEF Named, DayMinutes
  <2>2. t < n /\ n - t + m = o  BY <2>1, <1>14 DEF DayMinutes
  <2>3. IsOpen(h, n)
    <3>1. o <= n - t + m /\ n - t + m < c  BY <2>2, <1>9 DEF DayMinutes, DayLength
    <3> QED  BY <2>2, <3>1, <1>11
  <2>4. ASSUME NEW u \in t..(n - 1) PROVE ~IsOpen(h, u)
    <3>1. u \in Nat /\ u - t + m \in DayMinutes /\ ~(o <= u - t + m)
      BY <2>2 DEF DayMinutes
    <3> QED  BY <3>1, <1>11
  <2> QED  BY <2>2, <2>3, <2>4
<1>15. CASE ~(m < o)
  <2>1. n = t - m + p + 1440
    <3>1. NextOpening(h, t) = [when |-> "tomorrow", time |-> p]  BY <1>13, <1>15
    <3> QED  BY <3>1, <1>2 DEF Named, DayMinutes, DayLength
  <2>2. t < n /\ n - t + m - 1440 = p  BY <2>1 DEF DayMinutes
  <2>3. IsOpen(h, n)
    <3>1. p <= n - t + m - 1440 /\ n - t + m - 1440 < q  BY <2>2, <1>9 DEF DayMinutes, DayLength
    <3> QED  BY <2>2, <3>1, <1>12
  <2>4. ASSUME NEW u \in t..(n - 1) PROVE ~IsOpen(h, u)
    <3>1. u \in Nat /\ c <= m /\ m <= u - t + m /\ u - t + m - 1440 < p
      BY <2>2, <1>10, <1>15 DEF DayMinutes, DayLength
    <3>2. CASE u - t + m < 1440
      <4>1. u - t + m \in DayMinutes  BY <3>1, <3>2 DEF DayMinutes
      <4>2. ~(u - t + m < c)  BY <3>1 DEF DayMinutes, DayLength
      <4> QED  BY <3>1, <4>1, <4>2, <1>11
    <3>3. CASE 1440 <= u - t + m
      <4>1. u - t + m - 1440 \in DayMinutes  BY <3>1, <3>3 DEF DayMinutes
      <4>2. ~(p <= u - t + m - 1440)  BY <3>1 DEF DayMinutes
      <4> QED  BY <3>1, <4>1, <4>2, <1>12
    <3> QED  BY <3>1, <3>2, <3>3 DEF DayMinutes
  <2> QED  BY <2>2, <2>3, <2>4
<1> QED  BY <1>14, <1>15

(***************************************************************************)
(* The days of the statistics.                                             *)
(***************************************************************************)

\* tehranBoundaries: today's sales begin at the midnight before now, this
\* week's at the midnight, at most six days earlier, that begins a Saturday.
THEOREM SalesBoundaries ==
    ASSUME NEW t \in Nat
    PROVE  8 * 1440 <= t =>
             /\ StartOfDay(t) \in (t - 1439)..t /\ Minutes(StartOfDay(t)) = 0
             /\ StartOfWeek(t) \in (StartOfDay(t) - 6 * 1440)..StartOfDay(t)
             /\ Minutes(StartOfWeek(t)) = 0 /\ Day(StartOfWeek(t)) = 6
<1>0. Minutes(t) \in DayMinutes  BY Typed, Zenon
<1>1. PICK q \in Nat : Local(t) = 1440 * q + Minutes(t) /\ Minutes(t) \in DayMinutes
                        /\ Day(t) = (q + 4) % 7
  BY <1>0, Split
<1> HAVE 8 * 1440 <= t
<1>2. PICK s \in Nat : s = 1440 * q - 210 /\ s = StartOfDay(t) /\ s \in (t - 1439)..t
  <2>1. PICK l \in Nat, m \in DayMinutes : l = Local(t) /\ m = Minutes(t)  BY <1>1 DEF Local
  <2>2. l \div 1440 = q  BY <2>1, <1>1 DEF DayMinutes
  <2> QED  BY <2>1, <2>2, <1>1 DEF StartOfDay, DayLength, DayMinutes, Local
<1>3. PICK n \in Nat : n = Local(s)  BY DEF Local
<1>4. n = 1440 * q  BY <1>2, <1>3 DEF Local
<1>5. n \div 1440 = q /\ n % 1440 = 0  BY <1>4
<1>6. Minutes(s) = 0 /\ Day(s) = (q + 4) % 7  BY <1>3, <1>5 DEF Minutes, Day, DayLength
<1>7. PICK b \in 0..6 : b = (((q + 4) % 7) + 1) % 7  OBVIOUS
<1>8. DaysSinceSaturday(t) = b  BY <1>2, <1>6, <1>7 DEF DaysSinceSaturday
<1>9. PICK w \in Nat : w = s - 1440 * b /\ w = StartOfWeek(t)
  BY <1>1, <1>2, <1>8 DEF StartOfWeek, DayLength, Local
<1>10. PICK r \in Nat : r = q - b  BY <1>1, <1>2, <1>9
<1>11. PICK k \in Nat : k = Local(w)  BY DEF Local
<1>12. k = 1440 * r  BY <1>2, <1>9, <1>10, <1>11 DEF Local
<1>13. k \div 1440 = r /\ k % 1440 = 0  BY <1>12
<1>14. (r + 4) % 7 = 6  BY <1>7, <1>10
<1>15. Minutes(w) = 0 /\ Day(w) = 6  BY <1>11, <1>13, <1>14 DEF Minutes, Day, DayLength
<1>16. w \in (s - 6 * 1440)..s  BY <1>9
<1> QED  BY <1>2, <1>6, <1>9, <1>15, <1>16
=============================================================================
