-------------------------------- MODULE Dates -------------------------------
(***************************************************************************)
(* moment.js: calendar arithmetic, weeks, UTC offsets and durations.  A    *)
(* time is a day number (0 is 1970-01-01) and the milliseconds of the day, *)
(* since milliseconds since the epoch do not fit TLC's integers.  Months   *)
(* count from 0, days of the week from Sunday = 0, as in the code.         *)
(***************************************************************************)
EXTENDS Integers, Sequences, SequencesExt, FiniteSets

CONSTANTS LocalOffset      \* minutes that local time is ahead of UTC; there is no summer time

DayMs == 86400000
Abs(n) == IF n < 0 THEN -n ELSE n
\* absFloor(a / b) and a % b of JavaScript, for b > 0.
absFloor(a, b) == IF a < 0 THEN -((-a) \div b) ELSE a \div b
Rem(a, b) == a - b * absFloor(a, b)
-----------------------------------------------------------------------------
(* The Date object of JavaScript. *)

isLeapYear(y) == (y % 4 = 0 /\ y % 100 # 0) \/ y % 400 = 0
daysInYear(y) == IF isLeapYear(y) THEN 366 ELSE 365

\* Days before the month m of a year.
MonthStart(y, m) ==
  LET s == <<0, 31, 59, 90, 120, 151, 181, 212, 243, 273, 304, 334>>[m + 1]
  IN  IF m > 1 /\ isLeapYear(y) THEN s + 1 ELSE s

YearStart(y) == (y - 1970) * 365 + (y - 1969) \div 4 - (y - 1901) \div 100 + (y - 1601) \div 400

\* The day number for a month and a date that may be out of range.
DayNumber(y, m, d) ==
  LET year == y + m \div 12 IN YearStart(year) + MonthStart(year, m % 12) + d - 1

YearOf(day) ==
  LET guess == 1970 + (day * 400) \div 146097
  IN  CHOOSE y \in {guess, guess - 1, guess + 1} : YearStart(y) <= day /\ day < YearStart(y + 1)
MonthOf(day) ==
  LET y == YearOf(day) IN
  CHOOSE m \in 0 .. 11 : /\ MonthStart(y, m) <= day - YearStart(y)
                         /\ m = 11 \/ day - YearStart(y) < MonthStart(y, m + 1)
DateOf(day) == day - DayNumber(YearOf(day), MonthOf(day), 1) + 1
WeekdayOf(day) == (day + 4) % 7

\* Date.UTC takes a year from 0 to 99 to be of the twentieth century.
DateUTC(y, m, d) == DayNumber(IF y \in 0 .. 99 THEN 1900 + y ELSE y, m, d)

At(day, ms) == [day |-> day + ms \div DayMs, ms |-> ms % DayMs]
Plus(t, days, ms) == At(t.day + days, t.ms + ms)
PlusMinutes(t, n) == Plus(t, n \div 1440, (n % 1440) * 60000)
Before(a, b) == a.day < b.day \/ (a.day = b.day /\ a.ms < b.ms)
-----------------------------------------------------------------------------
(* Moments: d is the time of the Date object, which is shifted by the offset. *)

NewMoment(d) == [d |-> d, offset |-> 0, isUTC |-> TRUE]

\* What get_set__get reads, and get_set__set writes.
Shown(m) == IF m.isUTC THEN m.d ELSE PlusMinutes(m.d, LocalOffset)
Show(m, t) == [m EXCEPT !.d = IF m.isUTC THEN t ELSE PlusMinutes(t, -LocalOffset)]
valueOf(m) == PlusMinutes(m.d, -m.offset)

year(m) == YearOf(Shown(m).day)
month(m) == MonthOf(Shown(m).day)
date(m) == DateOf(Shown(m).day)
dayOfWeek(m) == WeekdayOf(Shown(m).day)

daysInMonth(y, mo) == DateOf(DateUTC(y, mo + 1, 0))

setMonth(m, value) ==
  LET most == daysInMonth(year(m), value)
      dayOfMonth == IF date(m) < most THEN date(m) ELSE most
  IN  Show(m, [Shown(m) EXCEPT !.day = DayNumber(year(m), value, dayOfMonth)])

\* Durations: what dateAddRemove needs.
Duration(n, unit) ==
  LET d == [milliseconds |-> 0, days |-> 0, months |-> 0] IN
  CASE unit = "year"    -> [d EXCEPT !.months = n * 12]
    [] unit = "quarter" -> [d EXCEPT !.months = n * 3]
    [] unit = "month"   -> [d EXCEPT !.months = n]
    [] unit \in {"week", "isoWeek"} -> [d EXCEPT !.days = n * 7]
    [] unit = "day"     -> [d EXCEPT !.days = n]
    [] unit = "hour"    -> [d EXCEPT !.milliseconds = n * 3600000]
    [] unit = "minute"  -> [d EXCEPT !.milliseconds = n * 60000]
    [] unit = "second"  -> [d EXCEPT !.milliseconds = n * 1000]
    [] OTHER            -> [d EXCEPT !.milliseconds = n]

addSubtract(m, dur, sign) ==
  LET a == [m EXCEPT !.d = Plus(@, 0, dur.milliseconds * sign)]
      b == Show(a, Plus(Shown(a), dur.days * sign, 0))
  IN  IF dur.months = 0 THEN b ELSE setMonth(b, month(b) + dur.months * sign)
addUnits(m, n, unit) == addSubtract(m, Duration(n, unit), 1)
subtractUnits(m, n, unit) == addSubtract(m, Duration(n, unit), -1)
-----------------------------------------------------------------------------
(* startOf and endOf. *)

Units == {"year", "quarter", "month", "week", "isoWeek", "day", "hour", "minute", "second", "millisecond"}

weekday(m) == dayOfWeek(m)     \* of the locale en, whose weeks start on Sunday
isoWeekday(m) == IF dayOfWeek(m) = 0 THEN 7 ELSE dayOfWeek(m)

\* Mutant: Sunday is the first day of the week here too.
setIsoWeekdayNoSunday(m, n) == addUnits(m, n - dayOfWeek(m), "day")

setIsoWeekday(m, n) ==
  LET input == IF dayOfWeek(m) % 7 # 0 THEN n ELSE n - 7 IN addUnits(m, input - dayOfWeek(m), "day")

TickOf(unit) ==
  CASE unit = "hour" -> 3600000 [] unit = "minute" -> 60000 [] unit = "second" -> 1000
    [] unit = "millisecond" -> 1 [] OTHER -> DayMs

\* The steps of startOf, in the order in which its switch falls through.
FirstMonth(m, unit) == IF unit = "year" THEN setMonth(m, 0) ELSE m
FirstDate(m, unit) ==
  IF unit \in {"year", "quarter", "month"} THEN Show(m, [Shown(m) EXCEPT !.day = @ - date(m) + 1]) ELSE m
FirstTick(m, unit) == Show(m, [Shown(m) EXCEPT !.ms = @ - (@ % TickOf(unit))])
FirstWeekdayOrQuarter(m, unit) ==
  CASE unit = "week"    -> addUnits(m, -weekday(m), "day")
    [] unit = "isoWeek" -> setIsoWeekday(m, 1)
    [] unit = "quarter" -> setMonth(m, (month(m) \div 3) * 3)
    [] OTHER            -> m

startOf(m, unit) == FirstWeekdayOrQuarter(FirstTick(FirstDate(FirstMonth(m, unit), unit), unit), unit)

endOf(m, unit) ==
  IF unit = "millisecond" THEN m ELSE subtractUnits(addUnits(startOf(m, unit), 1, unit), 1, "millisecond")

isSame(m, input, unit) ==
  ~Before(valueOf(input), valueOf(startOf(m, unit))) /\ ~Before(valueOf(endOf(m, unit)), valueOf(input))
-----------------------------------------------------------------------------
(* Weeks: dow is the first day of the week, doy a day that lies in week 1. *)

dayOfYear(m) == Shown(m).day - YearStart(year(m)) + 1

weekOfYear(m, dow, doy) ==
  LET end  == doy - dow
      to   == doy - dayOfWeek(m)
      less == IF to > end THEN to - 7 ELSE to
      days == IF less < end - 7 THEN less + 7 ELSE less
      adjusted == addUnits(m, days, "day")
  IN  [week |-> (dayOfYear(adjusted) + 6) \div 7, year |-> year(adjusted)]

\* The instant of an array of fields.  Before 1970 the year is set a second time, after the hour 24 went to the next day.
createUTCDate(a) ==
  LET t == Plus(At(DateUTC(a[1], a[2], a[3]), 0), 0, a[4] * 3600000 + a[5] * 60000 + a[6] * 1000 + a[7])
  IN  IF a[1] < 1970 THEN [t EXCEPT !.day = DayNumber(a[1], MonthOf(t.day), DateOf(t.day))] ELSE t

dayOfYearFromWeeks(y, week, wday, doy, dow) ==
  LET jan1 == WeekdayOf(createUTCDate(<<y, 0, 1, 0, 0, 0, 0>>).day)
      d == IF jan1 = 0 THEN 7 ELSE jan1
      daysToAdd == dow - d + (IF d > doy THEN 7 ELSE 0) - (IF d < dow THEN 7 ELSE 0)
      n == 7 * (week - 1) + (wday - dow) + daysToAdd + 1
  IN  IF n > 0 THEN [year |-> y, dayOfYear |-> n] ELSE [year |-> y - 1, dayOfYear |-> daysInYear(y - 1) + n]

setWeek(m, n) == addUnits(m, (n - weekOfYear(m, 0, 6).week) * 7, "day")
setIsoWeek(m, n) == addUnits(m, (n - weekOfYear(m, 1, 4).week) * 7, "day")
setDayOfYear(m, n) == addUnits(m, n - dayOfYear(m), "day")
quarter(m) == (month(m) + 3) \div 3
setQuarter(m, n) == setMonth(m, (n - 1) * 3 + (month(m) % 3))
-----------------------------------------------------------------------------
(* Offsets.  The hook updateOffset does nothing. *)

utcOffset(m, input, keep) ==
  LET minutes == IF Abs(input) < 16 THEN input * 60 ELSE input
      set     == [m EXCEPT !.offset = minutes, !.isUTC = TRUE]
      local   == IF ~m.isUTC /\ keep THEN [set EXCEPT !.d = PlusMinutes(@, LocalOffset)] ELSE set
  IN  IF m.offset # minutes /\ ~keep THEN [local EXCEPT !.d = PlusMinutes(@, minutes - m.offset)] ELSE local

toLocal(m, keep) ==
  LET u == [utcOffset(m, 0, keep) EXCEPT !.isUTC = FALSE]
  IN  IF ~m.isUTC THEN m
      ELSE IF keep THEN [u EXCEPT !.d = PlusMinutes(@, -LocalOffset)] ELSE u

\* cloneWithOffset(input, model)
cloneWithOffset(input, model) ==
  IF model.isUTC THEN [model EXCEPT !.d = PlusMinutes(valueOf(input), model.offset)]
  ELSE toLocal(input, FALSE)
-----------------------------------------------------------------------------
(* Differences. *)

MonthsBetween(a, b) == (year(b) - year(a)) * 12 + month(b) - month(a)

\* The rest in milliseconds is a number of days and milliseconds.
positiveMomentsDifference(base, other) ==
  LET raw    == MonthsBetween(base, other)
      months == IF Before(valueOf(other), valueOf(addUnits(base, raw, "month"))) THEN raw - 1 ELSE raw
      from   == valueOf(addUnits(base, months, "month"))
      to     == valueOf(other)
  IN  [months |-> months, rest |-> At(to.day - from.day, to.ms - from.ms)]

\* diff(b, 'months') of a: the fraction is linear between two anchors around b, of which only
\* the sign matters for the result that is rounded towards zero.
monthDiff(a, b) ==
  LET whole  == MonthsBetween(a, b)
      anchor == valueOf(addUnits(a, whole, "month"))
      t      == valueOf(b)
      below  == IF Before(t, anchor) THEN whole - 1 ELSE whole      \* below <= whole + adjust
      above  == IF Before(anchor, t) THEN whole + 1 ELSE whole
  IN  IF below >= 0 THEN -below ELSE -above

\* bubble(): the fields of a duration.
bubble(dur) ==
  LET seconds == absFloor(dur.milliseconds, 1000)
      minutes == absFloor(seconds, 60)
      hours   == absFloor(minutes, 60)
      days0   == dur.days + absFloor(hours, 24)
      years0  == absFloor(days0 * 400, 146097)
      days    == days0 - absFloor(years0 * 146097, 400)
      months  == dur.months + absFloor(days, 30)
  IN  [milliseconds |-> Rem(dur.milliseconds, 1000), seconds |-> Rem(seconds, 60),
       minutes |-> Rem(minutes, 60), hours |-> Rem(hours, 24), days |-> Rem(days, 30),
       months |-> Rem(months, 12), years |-> years0 + absFloor(months, 12)]
-----------------------------------------------------------------------------
(***************************************************************************)
(* Dates in the web page: moments on which methods are called, and the     *)
(* text of a date, which dateToString writes, the user edits and parseDate *)
(* reads.  A text is a sequence of pieces: runs of n digits with a value,  *)
(* and separators.                                                         *)
(***************************************************************************)
CONSTANTS Starts,          \* the moments to start with
          Amounts,         \* the numbers added
          MaxDateOps       \* bound: method calls and edits

VARIABLES mom, base,       \* a moment under operation, and where it started
          text, dateOps

dateVars == <<mom, base, text, dateOps>>

Number(n, v) == [n |-> n, v |-> v, s |-> ""]
Separator(s) == [n |-> 0, v |-> 0, s |-> s]
Size(p) == IF p.n = 0 THEN 1 ELSE p.n
Length(t) == FoldLeft(LAMBDA sum, p : sum + Size(p), 0, t)

Format == <<"YYYY", "-", "MM", "-", "DD", "T", "HH", ":", "mm", ":", "ss", ",", "SSS">>
\* The formats of parseDate are prefixes of the first one.
toTry == <<Format, SubSeq(Format, 1, 11), SubSeq(Format, 1, 9), SubSeq(Format, 1, 5)>>

FieldOf == [YYYY |-> 1, MM |-> 2, DD |-> 3, HH |-> 4, mm |-> 5, ss |-> 6, SSS |-> 7]
Digits(token) == CASE token = "YYYY" -> 4 [] token = "SSS" -> 3 [] token \in DOMAIN FieldOf -> 2 [] OTHER -> 0
-----------------------------------------------------------------------------
(* Writing. *)

toArray(t) ==
  <<YearOf(t.day), MonthOf(t.day), DateOf(t.day), t.ms \div 3600000, (t.ms \div 60000) % 60,
    (t.ms \div 1000) % 60, t.ms % 1000>>

\* zeroFill, for what is not negative.
zeroFill(v, n) == Number(CHOOSE k \in n .. 10 : 10^k > v /\ (k = n \/ 10^(k - 1) <= v), v)

dateToString(m) ==
  LET a == toArray(valueOf(m)) IN
  [i \in DOMAIN Format |->
    LET token == Format[i] IN
    IF Digits(token) = 0 THEN Separator(token)
    ELSE zeroFill(IF token = "MM" THEN a[2] + 1 ELSE a[FieldOf[token]], Digits(token))]
-----------------------------------------------------------------------------
(* Reading, with a format and strictly. *)

\* The first place in the rest of the text where the expression of the token matches.
Matches(token, rest) ==
  {i \in DOMAIN rest : IF Digits(token) = 0 THEN rest[i].s = token ELSE rest[i].n >= Digits(token)}

Left(p, n) == Number(n, p.v \div 10^(p.n - n))
Right(p, n) == IF p.n <= n THEN <<>> ELSE <<Number(p.n - n, p.v % 10^(p.n - n))>>

\* addTimeToArrayFromToken
SetField(a, token, v) == IF Digits(token) = 0 THEN a ELSE [a EXCEPT ![FieldOf[token]] = IF token = "MM" THEN v - 1 ELSE v]

ParseToken(c, token) ==
  LET at == Matches(token, c.rest)
      i  == Min(at)
      p  == c.rest[i]
      n  == Digits(token)
  IN  IF at = {} THEN [c EXCEPT !.unused = @ + 1]
      ELSE [c EXCEPT !.rest = Right(p, n) \o SubSeq(c.rest, i + 1, Len(c.rest)),
                     !.parsed = @ + (IF n = 0 THEN 1 ELSE n),
                     !.array = IF n = 0 THEN @ ELSE SetField(@, token, Left(p, n).v)]

\* configFromArray has the defaults; nothing else is left to the current date, as the year is given.
Defaults == <<0, 0, 1, 0, 0, 0, 0>>

checkOverflow(a) ==
  \/ a[2] < 0 \/ a[2] > 11
  \/ a[3] < 1 \/ a[3] > daysInMonth(a[1], a[2])
  \/ a[4] > 24 \/ (a[4] = 24 /\ (a[5] # 0 \/ a[6] # 0 \/ a[7] # 0))
  \/ a[5] > 59 \/ a[6] > 59 \/ a[7] > 999

NotValid == [day |-> 0, ms |-> -1]

configFromStringAndFormat(t, format) ==
  LET c == FoldLeft(ParseToken, [rest |-> t, unused |-> 0, parsed |-> 0, array |-> Defaults], format)
  IN  IF c.unused > 0 \/ c.parsed # Length(t) \/ checkOverflow(c.array) THEN NotValid
      ELSE createUTCDate(c.array)

parseDate(t) ==
  LET tried == SelectSeq([i \in DOMAIN toTry |-> configFromStringAndFormat(t, toTry[i])],
                         LAMBDA r : r # NotValid)
  IN  IF Len(t) = 1 /\ t[1].n > 0 THEN At(0, t[1].v)
      ELSE IF tried = <<>> THEN NotValid ELSE Head(tried)
-----------------------------------------------------------------------------
DatesInit == mom \in Starts /\ base = mom /\ text = <<>> /\ dateOps = 0

DateOp == dateOps < MaxDateOps /\ dateOps' = dateOps + 1

\* The methods that change a moment.
Methods(m) ==
  {addUnits(m, n, u) : n \in Amounts, u \in {"year", "month", "day", "hour", "millisecond"}}
    \cup {startOf(m, u) : u \in Units} \cup {endOf(m, u) : u \in Units}
    \cup {setWeek(m, 1), setIsoWeek(m, 53), setDayOfYear(m, 366), setQuarter(m, 1), setMonth(m, 1)}
    \cup {utcOffset(m, off, keep) : off \in {0, -5, 90}, keep \in BOOLEAN}
    \cup {toLocal(m, keep) : keep \in BOOLEAN}

Call == DateOp /\ text = <<>> /\ mom' \in Methods(mom) /\ UNCHANGED <<base, text>>

WriteDate ==
  /\ DateOp /\ text = <<>> /\ YearOf(valueOf(mom).day) >= 0
  /\ text' = dateToString(mom) /\ UNCHANGED <<mom, base>>

\* The user removes the end, or changes a number.
EditDate ==
  /\ DateOp /\ text # <<>>
  /\ \/ \E n \in 1 .. Len(text) : text' = SubSeq(text, 1, n)
     \/ \E i \in DOMAIN text, p \in {Number(1, 5), Number(2, 0), Number(2, 12), Number(2, 24), Number(2, 29),
                                     Number(2, 31), Number(2, 60), Number(4, 0), Number(3, 7), Separator("T")} :
          text' = [text EXCEPT ![i] = p]
  /\ UNCHANGED <<mom, base>>

DatesNext == Call \/ WriteDate \/ EditDate
-----------------------------------------------------------------------------
\* A moment lies between the start and the end of each of its units; both are in that unit, and
\* the millisecond after the end starts the next one.
UnitsBracket ==
  text = <<>> => \A u \in Units :
    LET s == startOf(mom, u)
        e == endOf(mom, u)
        n == addUnits(e, 1, "millisecond")
    IN  /\ ~Before(valueOf(mom), valueOf(s)) /\ ~Before(valueOf(e), valueOf(mom))
        /\ startOf(s, u) = s /\ startOf(e, u) = s /\ endOf(e, u) = e
        /\ u # "millisecond" => startOf(n, u) = n
        /\ isSame(mom, s, u)

\* The week, week year and weekday of a moment, ISO or of the locale, give back its day.
WeeksRoundTrip ==
  text = <<>> => \A iso \in BOOLEAN :
    LET dow == IF iso THEN 1 ELSE 0
        doy == IF iso THEN 4 ELSE 6
        w   == weekOfYear(mom, dow, doy)
        d   == dayOfYearFromWeeks(w.year, w.week, IF iso THEN isoWeekday(mom) ELSE weekday(mom), doy, dow)
    IN  DayNumber(d.year, 0, d.dayOfYear) = Shown(mom).day /\ w.week \in 1 .. 53

\* A change of the offset keeps the instant, or, when asked to, the time that is shown.
OffsetsKeepTime ==
  text = <<>> => \A off \in {0, -5, 90} :
    /\ valueOf(utcOffset(mom, off, FALSE)) = valueOf(mom) /\ valueOf(toLocal(mom, FALSE)) = valueOf(mom)
    /\ Shown(utcOffset(mom, off, TRUE)) = Shown(mom) /\ Shown(toLocal(mom, TRUE)) = Shown(mom)
    /\ valueOf(cloneWithOffset(base, mom)) = valueOf(base)

\* The difference of two moments in months and a rest leads from the earlier to the later, and
\* one month more leads past it; diff() counts the same months, and from the later moment,
\* as the day of a month that is too short was clipped, the same or one less.
DifferencesAddUp ==
  LET first == IF Before(valueOf(base), valueOf(mom)) THEN base ELSE mom
      last  == IF first = base THEN cloneWithOffset(mom, base) ELSE cloneWithOffset(base, mom)
      d     == positiveMomentsDifference(first, last)
  IN  text = <<>> =>
      /\ d.months >= 0 /\ d.rest.day >= 0
      /\ Plus(valueOf(addUnits(first, d.months, "month")), d.rest.day, d.rest.ms) = valueOf(last)
      /\ Before(valueOf(last), valueOf(addUnits(first, d.months + 1, "month")))
      /\ monthDiff(first, last) = -d.months /\ monthDiff(last, first) \in {d.months - 1, d.months}

\* The fields of a duration are in their ranges and add up to its time of day.
DurationsBubble ==
  LET dur == [milliseconds |-> mom.d.ms - base.d.ms, days |-> mom.d.day - base.d.day, months |-> 0]
      b   == bubble(dur)
  IN  /\ Abs(b.milliseconds) < 1000 /\ Abs(b.seconds) < 60
      /\ Abs(b.minutes) < 60 /\ Abs(b.hours) < 24
      /\ Abs(b.days) < 30 /\ Abs(b.months) < 12
      /\ b.milliseconds + 1000 * b.seconds + 60000 * b.minutes + 3600000 * b.hours = dur.milliseconds

\* What the text says, by the calendar: exactly one of the four shapes, with every field in range.
TextArray == [i \in 1 .. 7 |-> LET at == {j \in DOMAIN text : j = (2 * i) - 1} IN
               IF at = {} THEN Defaults[i] ELSE text[2 * i - 1].v - (IF i = 2 THEN 1 ELSE 0)]
TextIsDate ==
  /\ \E i \in DOMAIN toTry :
       /\ Len(text) = Len(toTry[i])
       /\ \A j \in DOMAIN text : text[j].n = Digits(toTry[i][j]) /\ (text[j].n = 0 => text[j].s = toTry[i][j])
  /\ TextArray[2] \in 0 .. 11
  /\ TextArray[3] \in 1 .. (DayNumber(TextArray[1], TextArray[2] + 1, 1) - DayNumber(TextArray[1], TextArray[2], 1))
  /\ TextArray[5] \in 0 .. 59 /\ TextArray[6] \in 0 .. 59
  /\ TextArray[4] \in 0 .. 23 \/ SubSeq(TextArray, 4, 7) = <<24, 0, 0, 0>>

\* Texts that moment reads differently: 0000-02-29 and the hour 24 of the day before (Date takes
\* the year 0 for 1900), and the hour 24 of the last day of a year before 1970.
OddText == \/ TextArray[1] = 0 /\ TextArray[2] = 1 /\ (TextArray[3] = 29 \/ TextArray[4] = 24)
           \/ TextArray[1] < 1970 /\ TextArray[2] = 11 /\ TextArray[3] = 31 /\ TextArray[4] = 24

\* parseDate reads a text that is a date as that date, a number as milliseconds, and throws for
\* everything else; in particular it reads what dateToString has written.
DatesAreReadExactly ==
  text # <<>> /\ (TextIsDate => ~OddText) =>
    LET a == TextArray IN
    parseDate(text) =
      IF TextIsDate THEN Plus(At(DayNumber(a[1], a[2], a[3]), 0), 0,
                              a[4] * 3600000 + a[5] * 60000 + a[6] * 1000 + a[7])
      ELSE IF Len(text) = 1 /\ text[1].n > 0 THEN At(0, text[1].v)
      ELSE NotValid
=============================================================================
