------------------------------ MODULE TimeOfDay ------------------------------
(***************************************************************************)
(* The time of day of SoulOS: what timeInit makes of the registers of the  *)
(* clock chip while the chip goes on (kernel/time.cpp), how sysTime counts *)
(* from there with the ticks of the timer (kernel/clock.cpp), and the      *)
(* alarm that setAlarm programs (kernel/rtc.cpp).                          *)
(*                                                                         *)
(* A register is read at a time.  The chip's update of all of them is one  *)
(* step, as in the emulators the kernel is run on.  The weekday is read    *)
(* and not used.  Hours and days are short, so that they end often.        *)
(***************************************************************************)
EXTENDS Integers, Sequences, FiniteSets

CONSTANTS
    Minute,         \* MINUTE: seconds in a minute
    MinutesInHour,
    HoursInDay,
    Hz,             \* HZ: timer interrupts in a second
    Word,           \* one more than the largest uint32
    Years, Days,    \* bound: when the machine is switched on, at the end of
                    \* which days of the month of which years
    Delays,         \* bound: seconds until an alarm
    MaxPulses       \* bound: how long it is on, in ticks of the timer, at
                    \* most a year

Hour == MinutesInHour * Minute
Day  == HoursInDay * Hour
Year == 365 * Day

ASSUME TimeAssumption ==
    /\ Minute \in 2 .. 100             \* a register has two digits
    /\ {MinutesInHour, HoursInDay} \subseteq 1 .. 100
    /\ Years \subseteq 1970 .. 2068     \* so has a year
    /\ Hz \in Nat \ {0} /\ 1000 % Hz = 0 /\ Word \in Nat \ {0}
    /\ Days \subseteq 1 .. 31 /\ Delays \subseteq Nat
    /\ MaxPulses \in Nat /\ MaxPulses <= Hz * Year

VARIABLES
    date,       \* what the chip shows
    now,        \* the same, in seconds since 1970
    phase,      \* the ticks of this second
    pulses,
    at,         \* the register to be read next, 0 if none
    raw,        \* what has been read
    turned,     \* a second has gone by since the first register was read
    task,       \* what the reading is for
    tm, startupTime, jiffies,
    enabled,    \* the interrupt flag
    pending,    \* a tick waits for it
    lost,       \* the ticks that came while one was waiting
    alarm, due  \* the alarm's registers, and the second they mean

chipVars  == <<date, now, phase, pulses>>
readingVars == <<at, raw, turned, task>>
tickVars  == <<jiffies, enabled, pending, lost>>
alarmVars == <<alarm, due>>
timeVars == <<chipVars, readingVars, tm, startupTime, tickVars, alarmVars>>

-----------------------------------------------------------------------------
(* The calendar, by its own rules.                                         *)
IsLeap(y) == y % 4 = 0 /\ (y % 100 # 0 \/ y % 400 = 0)
MonthLength(y, m) == IF m = 2 THEN IF IsLeap(y) THEN 29 ELSE 28
                ELSE IF m \in {4, 6, 9, 11} THEN 30 ELSE 31
DaysBefore(y) ==
    LET days[m \in 1 .. 12] ==
            IF m = 1 THEN 0 ELSE days[m - 1] + MonthLength(y, m - 1)
    IN  days
DayOfYear(d) == DaysBefore(d.year)[d.mon] + d.mday
DaysSince1970(d) == 365 * (d.year - 1970)
                    + Cardinality({y \in 1970 .. d.year - 1 : IsLeap(y)})
                    + DayOfYear(d) - 1
Seconds(d) == Day * DaysSince1970(d) + Hour * d.hour + Minute * d.min + d.sec

\* The next second, as the chip counts.
Midnight(d) == [d EXCEPT !.sec = 0, !.min = 0, !.hour = 0]
After(d) ==
    IF d.sec + 1 < Minute THEN [d EXCEPT !.sec = @ + 1]
    ELSE IF d.min + 1 < MinutesInHour THEN [d EXCEPT !.sec = 0, !.min = @ + 1]
    ELSE IF d.hour + 1 < HoursInDay THEN [d EXCEPT !.sec = 0, !.min = 0, !.hour = @ + 1]
    ELSE IF d.mday < MonthLength(d.year, d.mon) THEN [Midnight(d) EXCEPT !.mday = @ + 1]
    ELSE IF d.mon < 12 THEN [Midnight(d) EXCEPT !.mday = 1, !.mon = @ + 1]
    ELSE [Midnight(d) EXCEPT !.mday = 1, !.mon = 1, !.year = @ + 1]

-----------------------------------------------------------------------------
(* The conversions of the kernel.                                          *)
bcdToBin(v) == (v % 16) + (v \div 16) * 10
binToBcd(v) == (v \div 10) * 16 + (v % 10)

\* The days before each month of a leap year.
month == <<0, 31, 60, 91, 121, 152, 182, 213, 244, 274, 305, 335>>

\* Years since 1970.
Elapsed(t) == IF t.year >= 70 THEN t.year - 70 ELSE t.year - 70 + 100
AfterFebruary(t) == t.mon > 2 /\ (Elapsed(t) + 2) % 4 # 0

getYday(t) == month[t.mon] + t.mday - IF AfterFebruary(t) THEN 1 ELSE 0

LeapDays(year) == (year + 1) \div 4

mktime(t) ==
    Year * Elapsed(t) + Day * LeapDays(Elapsed(t))
    + Day * (month[t.mon] - IF AfterFebruary(t) THEN 1 ELSE 0)
    + Day * (t.mday - 1) + Hour * t.hour + Minute * t.min + t.sec

\* Mutant: a full hour of minutes is not carried.
LaterUncarried(t, secs) ==
    LET sec  == t.sec + (secs % Minute)
        min  == t.min + ((secs \div Minute) % MinutesInHour) + (sec \div Minute)
        hour == t.hour + (secs \div Hour)
    IN [sec |-> sec % Minute, min |-> min % MinutesInHour, hour |-> hour % HoursInDay]

\* The time of day after some seconds, as setAlarm adds them.
Later(t, secs) ==
    LET sec  == t.sec + (secs % Minute)
        min  == t.min + ((secs \div Minute) % MinutesInHour) + (sec \div Minute)
        hour == t.hour + (secs \div Hour) + (min \div MinutesInHour)
    IN [sec |-> sec % Minute, min |-> min % MinutesInHour, hour |-> hour % HoursInDay]

-----------------------------------------------------------------------------
Registers == <<"sec", "min", "hour", "mday", "mon", "year", "century">>
Shown(f) == CASE f = "year"    -> date.year % 100
              [] f = "century" -> date.year \div 100
              [] OTHER         -> date[f]
Chip(f) == binToBcd(Shown(f))
Names  == {Registers[k] : k \in DOMAIN Registers}
NoTime  == [f \in Names |-> 0]
NoAlarm == [sec |-> 0, min |-> 0, hour |-> 0]
StartUp == -1
Running == at = 0

\* The dates of the clock chip.
Dates == {d \in [year : 1970 .. 2069, mon : 1 .. 12, mday : 1 .. 31,
                 hour : 0 .. HoursInDay - 1, min : 0 .. MinutesInHour - 1,
                 sec : 0 .. Minute - 1] : d.mday <= MonthLength(d.year, d.mon)}

TimeTypeOK ==
    /\ date \in Dates /\ now = Seconds(date)
    /\ phase \in 0 .. Hz - 1 /\ pulses \in 0 .. MaxPulses
    /\ at \in 0 .. Len(Registers) + 1
    /\ raw \in [Names -> 0 .. 255]
    /\ turned \in BOOLEAN /\ task \in Delays \cup {StartUp}
    /\ {startupTime, jiffies, lost, due} \subseteq Nat
    /\ enabled \in BOOLEAN /\ pending \in BOOLEAN

\* Switched on just before midnight; timeInit, with interrupts off, is about
\* to read the first register.  The timer has been running since clockInit.
TimeInit ==
    /\ \E y \in Years, m \in 1 .. 12, d \in Days :
           /\ d <= MonthLength(y, m)
           /\ date = [year |-> y, mon |-> m, mday |-> d, hour |-> HoursInDay - 1,
                      min |-> MinutesInHour - 1, sec |-> Minute - 1]
    /\ now = Seconds(date)
    /\ phase \in 0 .. Hz - 1 /\ pulses = 0
    /\ at = 1 /\ raw = NoTime /\ turned = FALSE /\ task = StartUp
    /\ tm = NoTime /\ startupTime = 0
    /\ jiffies = 0 /\ enabled = FALSE /\ pending \in BOOLEAN /\ lost = 0
    /\ alarm = NoAlarm /\ due = 0

\* The timer and the chip go on.  Bound: a second ends at most once while the
\* registers are read, which takes microseconds.
Turns == phase = Hz - 1
Pulse ==
    /\ pulses < MaxPulses /\ pulses' = pulses + 1
    /\ Turns => Running \/ ~ turned
    /\ phase' = (phase + 1) % Hz
    /\ now' = IF Turns THEN now + 1 ELSE now
    /\ date' = IF Turns THEN After(date) ELSE date
    /\ turned' = (~ Running /\ (turned \/ Turns))
    /\ jiffies' = IF enabled THEN jiffies + 1 ELSE jiffies
    /\ pending' = ~ enabled
    /\ lost' = IF pending THEN lost + 1 ELSE lost
    /\ UNCHANGED <<at, raw, task, tm, startupTime, enabled, alarmVars>>

\* Interrupts are let in, and a tick that has waited comes; or shut out.
Enable ==
    /\ Running /\ ~ enabled
    /\ enabled' = TRUE /\ pending' = FALSE
    /\ jiffies' = IF pending THEN jiffies + 1 ELSE jiffies
    /\ UNCHANGED <<chipVars, readingVars, tm, startupTime, lost, alarmVars>>

Disable ==
    /\ Running /\ enabled
    /\ enabled' = FALSE
    /\ UNCHANGED <<chipVars, readingVars, tm, startupTime>>
    /\ UNCHANGED <<jiffies, pending, lost, alarmVars>>

\* setAlarm begins with timeRead as well.  Bound: once.
SetAlarm(secs) ==
    /\ Running /\ due = 0
    /\ at' = 1 /\ turned' = FALSE /\ task' = secs
    /\ UNCHANGED <<chipVars, raw, tm, startupTime, tickVars, alarmVars>>

\* A turn of the loop of timeReadBcd reads register after register.
ReadRegister ==
    /\ at \in DOMAIN Registers
    /\ raw' = [raw EXCEPT ![Registers[at]] = Chip(Registers[at])]
    /\ at' = at + 1
    /\ UNCHANGED <<chipVars, turned, task, tm, startupTime, tickVars, alarmVars>>

\* Mutant: no second look at the seconds.
SteadyAlways == TRUE
Steady == raw["sec"] = Chip("sec")

\* The second has changed: all over again.
ReadAgain ==
    /\ at = Len(Registers) + 1 /\ ~ Steady
    /\ at' = 1 /\ turned' = FALSE
    /\ UNCHANGED <<chipVars, raw, task, tm, startupTime, tickVars, alarmVars>>

\* The rest of timeRead, and of its caller.
Finish ==
    /\ at = Len(Registers) + 1 /\ Steady
    /\ LET t == [f \in Names |-> bcdToBin(raw[f])] IN
       /\ tm' = t
       /\ IF task = StartUp
          THEN startupTime' = mktime(t) /\ UNCHANGED alarmVars
          ELSE alarm' = Later(t, task) /\ due' = now + task /\ UNCHANGED startupTime
    /\ at' = 0 /\ raw' = NoTime /\ turned' = FALSE /\ task' = StartUp
    /\ UNCHANGED <<chipVars, tickVars>>

Jiffy == 1000 \div Hz
\* Mutant: the division comes first.
sysTimeCoarse == startupTime + jiffies * (Jiffy \div 1000)

\* The product is a uint32: it starts again at 0 once Word milliseconds,
\* 49.7 days, have been counted.
sysTime == startupTime + ((jiffies * Jiffy) % Word) \div 1000

TimeNext ==
    \/ Pulse \/ Enable \/ Disable
    \/ \E secs \in Delays : SetAlarm(secs)
    \/ ReadRegister \/ ReadAgain \/ Finish

TimeSpec == TimeInit /\ [][TimeNext]_timeVars

-----------------------------------------------------------------------------
NewYear(t) == [t EXCEPT !["mon"] = 1, !["mday"] = 1]

(* Whenever the chip moves on while it is read, what timeRead returns is   *)
(* the date of one moment, the one of its return, to the second (the       *)
(* comment in timeReadBcd): day, hour, minute and second are those the     *)
(* chip shows, getYday counts the days since the first of January, and     *)
(* mktime makes of the whole tm the seconds since 1970, in every year it   *)
(* can be given; startupTime is that number.                               *)
TimeRead == [][at # 0 /\ at' = 0 =>
    /\ \A f \in {"sec", "min", "hour", "mday"} : tm'[f] = date[f]
    /\ getYday(tm') - getYday(NewYear(tm')) = DayOfYear(date) - 1
    /\ mktime(tm') = now
    /\ task = StartUp => startupTime' = now]_timeVars

(* What the header says of the tm that timeRead fills in: a month of the   *)
(* year in 0 .. 11, the years since 1900, a day of the year in 0 .. 365    *)
(* (time.h:13, 14, 16).                                                    *)
TmAsDocumented == [][at # 0 /\ at' = 0 =>
    /\ tm'["mon"] \in 0 .. 11
    /\ 1900 + tm'["year"] = date.year
    /\ getYday(tm') \in 0 .. 365]_timeVars

(* The alarm is at the time of day that is so many seconds after the       *)
(* moment it was set, through every carry (setAlarm, rtc.cpp).             *)
AlarmRight == due # 0 =>
    Hour * alarm.hour + Minute * alarm.min + alarm.sec = due % Day

(* As long as the milliseconds counted fit in 32 bits, sysTime is ahead of *)
(* the clock by no more than the tick that waited since before the         *)
(* registers were read, and behind it by less than two seconds and the     *)
(* ticks that interrupts were shut out for (clock.cpp:64).                 *)
SysTimeClose == TimeTypeOK /\ (startupTime # 0 /\ jiffies * Jiffy < Word =>
    LET ahead == sysTime * Hz - (now * Hz + phase) IN
    /\ ahead <= 1
    /\ -ahead <= 2 * (Hz - 1) + lost + IF pending THEN 1 ELSE 0)
=============================================================================
