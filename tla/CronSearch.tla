----------------------------- MODULE CronSearch -----------------------------
(***************************************************************************)
(* nextCronOccurrence (src/utils.ts): the search for the next time at      *)
(* which a cron pattern is due, in UTC or in a zone whose offset changes.  *)
(* A pattern is a record of six fields, each a set of parsed tokens, and   *)
(* a field is expanded, checked and matched as the code does it.  The walk *)
(* over wall-clock time is the state machine: one action per branch of the *)
(* loop.  A search that has found a time may be followed by the one that   *)
(* starts there, as the scheduler does from run to run.                    *)
(*                                                                         *)
(* The calendar is scaled by the constants (seconds in a minute, hours in  *)
(* a day, months and their lengths); the week keeps its seven days.  An    *)
(* instant is a number of seconds from the start of year 0, Sunday being   *)
(* weekday 0.  The text of a token is left out.                            *)
(***************************************************************************)
EXTENDS Integers, FiniteSets, FiniteSetsExt

CONSTANTS
    Seconds, Minutes, Hours,   \* seconds in a minute, minutes in an hour, hours in a day
    MonthLength,               \* the length of each month in a leap year
    LeapMonth, LeapEvery,      \* this month is a day shorter in all but every so many years
    Years,                     \* the calendar holds the years 0 .. Years
    FirstDow,                  \* the weekday of the first day
    MaxSearchYears,            \* MAX_SEARCH_YEARS
    MaxSearchSteps,            \* MAX_SEARCH_STEPS
    Patterns, Zones, Starts,   \* what is asked: pattern, zone, and the instant to start after
    MaxRuns                    \* bound: searches chained from one start

ASSUME CalendarAssumption ==
    /\ {Seconds, Minutes, Hours, LeapEvery, MaxSearchSteps, MaxRuns} \subseteq Nat \ {0}
    /\ {FirstDow, Years, MaxSearchYears} \subseteq Nat /\ Hours > 3 /\ MaxSearchYears < Years
    /\ DOMAIN MonthLength # {} /\ IsFiniteSet(DOMAIN MonthLength)
    /\ DOMAIN MonthLength = 1 .. Cardinality(DOMAIN MonthLength)
    /\ \A m \in DOMAIN MonthLength : MonthLength[m] \in Nat /\ MonthLength[m] > 3

VARIABLES
    cron,      \* the parsed pattern
    tz,        \* the zone
    after,     \* afterMs
    wall,      \* where the walk is
    endYear,   \* the last year searched
    steps,     \* iterations of the loop
    pc,        \* the statement that comes next
    found,     \* the instant returned
    runs       \* searches that have found a time

vars == <<cron, tz, after, wall, endYear, steps, pc, found, runs>>

-----------------------------------------------------------------------------
(* The pattern *)

NoTime == -1
MinuteLength == Seconds
HourLength == Minutes * Seconds
DayLength == Hours * HourLength
DstWindow == 3 * HourLength
MonthCount == Cardinality(DOMAIN MonthLength)
MaxDay == CHOOSE n \in {MonthLength[m] : m \in DOMAIN MonthLength} :
            \A m \in DOMAIN MonthLength : MonthLength[m] <= n

CronSecond == [low |-> 0, high |-> Seconds - 1]
CronMinute == [low |-> 0, high |-> Minutes - 1]
CronHour == [low |-> 0, high |-> Hours - 1]
CronDom == [low |-> 1, high |-> MaxDay]
CronMonth == [low |-> 1, high |-> MonthCount]
CronDow == [low |-> 0, high |-> 7]

(* A token: "star" with a step, "range", "open" (N/step), "value", and the day
   modifiers "L", "LW", "W" (from), "dowL" (from) and "nth" (from#to). *)
Modifiers == {"L", "LW", "W", "dowL", "nth"}
Tokens == [kind : {"star", "range", "open", "value"} \cup Modifiers, from : Nat, to : Nat, step : Nat]
Fields == {"second", "minute", "hour", "dom", "month", "dow"}

(* Only the day fields have modifiers, and a field has a token at least. *)
ASSUME PatternAssumption ==
    /\ Starts \subseteq Nat
    /\ \A p \in Patterns : /\ \A f \in Fields : p[f] \subseteq Tokens
                            /\ p.month # {} /\ \A k \in p.month : k.kind \notin Modifiers

Last(k, spec) == IF k.kind = "range" THEN k.to ELSE spec.high
First(k, spec) == IF k.kind = "star" THEN spec.low ELSE k.from

TokenBad(k, spec) ==
    \/ k.step <= 0
    \/ First(k, spec) < spec.low \/ First(k, spec) > spec.high
    \/ k.kind = "range" /\ (k.to > spec.high \/ k.from > k.to)
CheckCronBound(n, spec) == n >= spec.low /\ n <= spec.high
ModifierBad(k, spec) ==
    \/ k.kind \in {"W", "dowL", "nth"} /\ ~CheckCronBound(k.from, spec)
    \/ k.kind = "nth" /\ ~CheckCronBound(k.to, [low |-> 1, high |-> 5])

AddRange(from, to, step) == {n \in from .. to : (n - from) % step = 0}
TokenValues(k, spec) ==
    IF k.kind = "value" THEN {k.from} ELSE AddRange(First(k, spec), Last(k, spec), k.step)
ParseCronField(field, spec) ==
    UNION {TokenValues(k, spec) : k \in {j \in field : j.kind \notin Modifiers}}
ParseDow(field) ==
    LET days == ParseCronField(field, CronDow)
    IN  IF 7 \in days THEN (days \ {7}) \cup {0} ELSE days

ParseDomModifier(field) ==
    [domLast |-> \E k \in field : k.kind = "L",
     domLastWeekday |-> \E k \in field : k.kind = "LW",
     domNearest |-> {k.from : k \in {j \in field : j.kind = "W"}}]
ParseDowModifier(field) ==
    [dowLast |-> {k.from % 7 : k \in {j \in field : j.kind = "dowL"}},
     dowNth |-> {<<k.from % 7, k.to>> : k \in {j \in field : j.kind = "nth"}}]

Malformed(p) ==
    \E f \in {<<p.second, CronSecond>>, <<p.minute, CronMinute>>, <<p.hour, CronHour>>,
              <<p.dom, CronDom>>, <<p.month, CronMonth>>, <<p.dow, CronDow>>} :
        \E k \in f[1] : IF k.kind \in Modifiers THEN ModifierBad(k, f[2]) ELSE TokenBad(k, f[2])

Starred(field) == \E k \in field : k.kind = "star"
ParseCronPattern(p) ==
    [second |-> ParseCronField(p.second, CronSecond),
     minute |-> ParseCronField(p.minute, CronMinute),
     hour |-> ParseCronField(p.hour, CronHour),
     month |-> ParseCronField(p.month, CronMonth),
     dom |-> ParseCronField(p.dom, CronDom), domMods |-> ParseDomModifier(p.dom),
     dow |-> ParseDow(p.dow), dowMods |-> ParseDowModifier(p.dow),
     hasSeconds |-> p.hasSeconds,
     wildcardTime |-> Starred(p.minute) \/ Starred(p.hour),
     domUnrestricted |-> ParseCronField(p.dom, CronDom) = 1 .. MaxDay,
     dowUnrestricted |-> ParseDow(p.dow) = 0 .. 6 /\ Starred(p.dow)]

-----------------------------------------------------------------------------
(* The calendar *)

DaysInMonth(y, m) ==
    IF m = LeapMonth /\ y % LeapEvery # 0 THEN MonthLength[m] - 1 ELSE MonthLength[m]
Calendar == {d \in (0 .. Years) \X (1 .. MonthCount) \X (1 .. MaxDay) :
               d[3] <= DaysInMonth(d[1], d[2])}
Before(d, e) == \/ d[1] < e[1]
                \/ d[1] = e[1] /\ d[2] < e[2]
                \/ d[1] = e[1] /\ d[2] = e[2] /\ d[3] < e[3]
DayNumber == [d \in Calendar |-> Cardinality({e \in Calendar : Before(e, d)})]
DateOf == [n \in 0 .. (Cardinality(Calendar) - 1) |-> CHOOSE d \in Calendar : DayNumber[d] = n]

DayOfWeek(y, m, d) == (DayNumber[<<y, m, d>>] + FirstDow) % 7
UtcToWall(t) ==
    LET d == DateOf[t \div DayLength]
    IN  [year |-> d[1], month |-> d[2], day |-> d[3], hour |-> (t % DayLength) \div HourLength,
         minute |-> (t % HourLength) \div MinuteLength, second |-> t % MinuteLength]
WallToNaiveUtc(w) ==
    DayNumber[<<w.year, w.month, w.day>>] * DayLength + w.hour * HourLength
        + w.minute * MinuteLength + w.second
WallPlusOneSecond(w) == UtcToWall(WallToNaiveUtc(w) + 1)

(* A zone has one change of offset; UTC is the zone without one. *)
ZoneOffset(t, z) == IF t >= z.at THEN z.later ELSE z.before
UtcToTzParts(t, z) == UtcToWall(t + ZoneOffset(t, z))
FloorTo(t, unit) == (t \div unit) * unit
TzOffset(t, z) == ZoneOffset(FloorTo(t, MinuteLength), z)

-----------------------------------------------------------------------------
(* The day rule *)

NearestWeekday(n, dowOfN, length) ==
    CASE dowOfN \in 1 .. 5 -> n
      [] dowOfN = 6 -> IF n > 1 THEN n - 1 ELSE n + 2
      [] dowOfN = 0 -> IF n < length THEN n + 1 ELSE n - 2

CronDomMatches(c, day, dayOfWeek, length) ==
    LET dowOf(n) == (((dayOfWeek + n - day) % 7) + 7) % 7
    IN  \/ day \in c.dom
        \/ c.domMods.domLast /\ day = length
        \/ c.domMods.domLastWeekday /\ day = NearestWeekday(length, dowOf(length), length)
        \/ \E n \in c.domMods.domNearest : n <= length /\ NearestWeekday(n, dowOf(n), length) = day

CeilWeek(day) == (day + 6) \div 7
CronDowMatches(c, day, dayOfWeek, length) ==
    \/ dayOfWeek \in c.dow
    \/ dayOfWeek \in c.dowMods.dowLast /\ day + 7 > length
    \/ <<dayOfWeek, CeilWeek(day)>> \in c.dowMods.dowNth

CronDayMatches(c, day, dayOfWeek, length) ==
    LET dom == CronDomMatches(c, day, dayOfWeek, length)
        dow == CronDowMatches(c, day, dayOfWeek, length)
    IN  IF ~c.domUnrestricted /\ ~c.dowUnrestricted THEN dom \/ dow ELSE dom /\ dow

CronWallMatches(c, w) ==
    /\ w.month \in c.month
    /\ CronDayMatches(c, w.day, DayOfWeek(w.year, w.month, w.day), DaysInMonth(w.year, w.month))
    /\ w.hour \in c.hour /\ w.minute \in c.minute /\ w.second \in c.second

-----------------------------------------------------------------------------
(* From a wall time to instants *)

TzWallToInstants(w, z) ==
    LET naive == WallToNaiveUtc(w)
        guess == TzOffset(naive, z)
        offsets == {guess, TzOffset(naive - guess - DstWindow, z), TzOffset(naive - guess, z),
                    TzOffset(naive - guess + DstWindow, z)}
    IN  {naive - o : o \in {p \in offsets : TzOffset(naive - p, z) = p}}

TzGapEnd(w, z) ==
    LET naive == FloorTo(WallToNaiveUtc(w), MinuteLength)
        guess == TzOffset(naive, z)
        offsetBefore == TzOffset(naive - guess - DstWindow, z)
        offsetAfter == TzOffset(naive - guess + DstWindow, z)
        bisect[lo \in Int, hi \in Int] ==
            IF hi - lo <= MinuteLength THEN hi
            ELSE LET mid == lo + FloorTo((hi - lo) \div 2, MinuteLength)
                 IN  IF TzOffset(mid, z) = offsetBefore THEN bisect[mid, hi] ELSE bisect[lo, mid]
    IN  bisect[naive - offsetAfter, naive - offsetBefore]

Earliest(T) == IF T = {} THEN NoTime ELSE Min(T)
MutSkipsGap(w, z, c) ==
    LET instants == TzWallToInstants(w, z)
    IN  IF instants = {} \/ c.wildcardTime THEN instants ELSE {Min(instants)}
Eligible(w, z, c) ==
    LET instants == TzWallToInstants(w, z)
    IN  CASE instants = {} -> IF c.wildcardTime THEN {} ELSE {TzGapEnd(w, z)}
          [] instants # {} -> IF c.wildcardTime THEN instants ELSE {Min(instants)}
Resolve(w) ==
    IF tz.utc THEN WallToNaiveUtc(w) ELSE Earliest({t \in Eligible(w, tz, cron) : t > after})

-----------------------------------------------------------------------------
(* The search *)

NoWall == [year |-> 0, month |-> 1, day |-> 1, hour |-> 0, minute |-> 0, second |-> 0]

Init ==
    /\ tz \in Zones /\ after \in Starts
    /\ \E p \in Patterns :
        /\ cron = IF Malformed(p) THEN [second |-> {}] ELSE ParseCronPattern(p)
        /\ pc = IF Malformed(p) THEN "malformed" ELSE "call"
    /\ wall = NoWall /\ endYear = 0 /\ steps = 0 /\ found = NoTime /\ runs = 0

(* The instants looked at one by one when the offset falls soon. *)
FallsBack == TzOffset(after + DstWindow, tz) < TzOffset(after, tz)
MutScanned ==
    LET scanEnd == after + (TzOffset(after, tz) - TzOffset(after + DstWindow, tz))
        unit == IF cron.hasSeconds THEN 1 ELSE MinuteLength
    IN  {t \in FloorTo(after, unit) + unit .. (scanEnd - 1) : t % unit = 0}
Scanned ==
    LET scanEnd == after + (TzOffset(after, tz) - TzOffset(after + DstWindow, tz))
        unit == IF cron.hasSeconds THEN 1 ELSE MinuteLength
    IN  {t \in FloorTo(after, unit) + unit .. scanEnd : t % unit = 0}
ScanHit ==
    IF tz.utc \/ ~cron.wildcardTime \/ ~FallsBack THEN NoTime
    ELSE Earliest({t \in Scanned : CronWallMatches(cron, UtcToTzParts(t, tz))})

FirstWall == IF tz.utc THEN UtcToWall(after + 1) ELSE WallPlusOneSecond(UtcToTzParts(after, tz))

NextCronOccurrence ==
    /\ pc = "call"
    /\ IF ScanHit # NoTime
       THEN pc' = "found" /\ found' = ScanHit /\ UNCHANGED <<wall, endYear>>
       ELSE /\ pc' = "walk" /\ wall' = FirstWall /\ endYear' = FirstWall.year + MaxSearchYears
            /\ UNCHANGED found
    /\ steps' = 0
    /\ UNCHANGED <<cron, tz, after, runs>>

Walking == pc = "walk" /\ wall.year <= endYear /\ steps < MaxSearchSteps
GoOn(w) ==
    /\ wall' = w /\ steps' = steps + 1
    /\ UNCHANGED <<cron, tz, after, endYear, pc, found, runs>>

InMonth == wall.month \in cron.month
Overflow == wall.day > DaysInMonth(wall.year, wall.month)
InDay == /\ ~Overflow
         /\ CronDayMatches(cron, wall.day, DayOfWeek(wall.year, wall.month, wall.day),
                           DaysInMonth(wall.year, wall.month))
Midnight(w) == [w EXCEPT !.hour = 0, !.minute = 0, !.second = 0]
Above(n, S) == Earliest({m \in S : m > n})

WalkMonth ==
    /\ Walking /\ ~InMonth
    /\ LET next == Above(wall.month, cron.month)
       IN  GoOn(Midnight(IF next # NoTime
                         THEN [wall EXCEPT !.month = next, !.day = 1]
                         ELSE [wall EXCEPT !.year = @ + 1, !.month = Min(cron.month), !.day = 1]))

WalkOverflow ==
    /\ Walking /\ InMonth /\ Overflow
    /\ GoOn(Midnight(IF wall.month = MonthCount
                     THEN [wall EXCEPT !.year = @ + 1, !.month = 1, !.day = 1]
                     ELSE [wall EXCEPT !.month = @ + 1, !.day = 1]))

NextDay(w) == Midnight([w EXCEPT !.day = @ + 1])
WalkDay == Walking /\ InMonth /\ ~Overflow /\ ~InDay /\ GoOn(NextDay(wall))

WalkHour ==
    /\ Walking /\ InMonth /\ InDay /\ wall.hour \notin cron.hour
    /\ LET next == Above(wall.hour, cron.hour)
       IN  GoOn(IF next # NoTime THEN [wall EXCEPT !.hour = next, !.minute = 0, !.second = 0]
                                 ELSE NextDay(wall))

WalkMinute ==
    /\ Walking /\ InMonth /\ InDay /\ wall.hour \in cron.hour /\ wall.minute \notin cron.minute
    /\ LET next == Above(wall.minute, cron.minute)
       IN  GoOn(IF next # NoTime THEN [wall EXCEPT !.minute = next, !.second = 0]
                                 ELSE [wall EXCEPT !.hour = @ + 1, !.minute = 0, !.second = 0])

InMinute == InMonth /\ InDay /\ wall.hour \in cron.hour /\ wall.minute \in cron.minute
NextSecond == IF wall.second \in cron.second THEN wall.second ELSE Above(wall.second, cron.second)

WalkSecond ==
    /\ Walking /\ InMinute /\ NextSecond = NoTime
    /\ GoOn([wall EXCEPT !.minute = @ + 1, !.second = 0])

Hit == [wall EXCEPT !.second = NextSecond]
WalkUnresolved ==
    /\ Walking /\ InMinute /\ NextSecond # NoTime /\ Resolve(Hit) = NoTime
    /\ GoOn(WallPlusOneSecond(Hit))

WalkResolved ==
    /\ Walking /\ InMinute /\ NextSecond # NoTime /\ Resolve(Hit) # NoTime
    /\ found' = Resolve(Hit) /\ pc' = "found"
    /\ UNCHANGED <<cron, tz, after, wall, endYear, steps, runs>>

GiveUp ==
    /\ pc = "walk" /\ ~Walking
    /\ pc' = "thrown"
    /\ UNCHANGED <<cron, tz, after, wall, endYear, steps, found, runs>>

(* The scheduler asks again from the run it has just made. *)
Follow ==
    /\ pc = "found" /\ runs < MaxRuns
    /\ runs' = runs + 1 /\ after' = found /\ pc' = "call" /\ found' = NoTime
    /\ wall' = NoWall /\ endYear' = 0 /\ steps' = 0
    /\ UNCHANGED <<cron, tz>>

Next ==
    \/ NextCronOccurrence
    \/ WalkMonth \/ WalkOverflow \/ WalkDay \/ WalkHour \/ WalkMinute \/ WalkSecond
    \/ WalkUnresolved \/ WalkResolved \/ GiveUp \/ Follow

Spec == Init /\ [][Next]_vars

-----------------------------------------------------------------------------
(* What the documentation promises, stated over instants instead of walks *)

TypeOK ==
    /\ pc \in {"malformed", "call", "walk", "found", "thrown"}
    /\ steps \in 0 .. MaxSearchSteps /\ runs \in 0 .. MaxRuns /\ found \in Int /\ after \in Nat

LocalTime(t) == IF tz.utc THEN UtcToWall(t) ELSE UtcToTzParts(t, tz)

(* A day of the month that a modifier names: the last, the working day nearest
   to the last or to the nth, and for a weekday its last or its nth. *)
Days(w) == 1 .. DaysInMonth(w.year, w.month)
Weekday(w, n) == DayOfWeek(w.year, w.month, n)
Distance(m, n) == IF m > n THEN m - n ELSE n - m
Nearest(w, n) ==
    {d \in Days(w) : /\ Weekday(w, d) \in 1 .. 5
                     /\ \A e \in Days(w) : Weekday(w, e) \in 1 .. 5 => Distance(d, n) <= Distance(e, n)}
DomNames(w) ==
    \/ w.day \in cron.dom
    \/ cron.domMods.domLast /\ w.day + 1 \notin Days(w)
    \/ cron.domMods.domLastWeekday /\ w.day \in Nearest(w, DaysInMonth(w.year, w.month))
    \/ \E n \in cron.domMods.domNearest \cap Days(w) : w.day \in Nearest(w, n)
Same(w) == {d \in Days(w) : Weekday(w, d) = Weekday(w, w.day)}
DowNames(w) ==
    LET dow == Weekday(w, w.day)
    IN  \/ dow \in cron.dow
        \/ dow \in cron.dowMods.dowLast /\ \A d \in Same(w) : d <= w.day
        \/ \E p \in cron.dowMods.dowNth :
             p[1] = dow /\ p[2] = Cardinality({d \in Same(w) : d <= w.day})
Named(w) ==
    IF cron.domUnrestricted \/ cron.dowUnrestricted THEN DomNames(w) /\ DowNames(w)
    ELSE DomNames(w) \/ DowNames(w)
Written(w) ==
    /\ w.second \in cron.second /\ w.minute \in cron.minute /\ w.hour \in cron.hour
    /\ w.month \in cron.month /\ Named(w)

(* The local times that the change of offset at this instant skips or repeats. *)
Skipped(t) == IF tz.utc \/ t # tz.at THEN {} ELSE (t + tz.before) .. (t + tz.later - 1)
Again(t) == /\ ~tz.utc /\ t >= tz.at /\ t + tz.later < tz.at + tz.before

(* A pattern with a star in its minute or hour runs at every instant whose local
   time it matches; any other runs at the first of a repeated local time, and
   once at the end of a gap that skips one. *)
Due(t) ==
    IF cron.wildcardTime THEN Written(LocalTime(t))
    ELSE \/ Written(LocalTime(t)) /\ ~Again(t)
         \/ \E n \in Skipped(t) : Written(UtcToWall(n))

(* The instant that the search returns is due, and no instant between the start
   and it is: no run is missed or made twice, whatever the walk jumps over and
   on either side of a change of offset. When the search throws, nothing is due
   in the years it covers, so a pattern that is rare but possible is found. *)
FoundIsNearest ==
    pc = "found" => found > after /\ Due(found) /\ \A t \in (after + 1) .. (found - 1) : ~Due(t)
NextIsNearest ==
    /\ FoundIsNearest
    /\ pc = "thrown" =>
         LET start == FirstWall.year
             years == {n \in DOMAIN DateOf : DateOf[n][1] \in start .. (start + MaxSearchYears)}
         IN  \A n \in years : \A s \in 0 .. (DayLength - 1) :
                LET t == n * DayLength + s - (IF tz.utc THEN 0 ELSE tz.later)
                IN  t > after => ~Due(t)

(* A pattern that names one time of day and every day runs exactly once in each
   local day, also in the day whose clock skips or repeats that time: from one
   run to the next the local date moves on by one. *)
Daily ==
    /\ cron.dom = 1 .. MaxDay /\ cron.dow = 0 .. 6 /\ cron.month = 1 .. MonthCount
    /\ ~cron.wildcardTime
    /\ \A S \in {cron.hour, cron.minute, cron.second} : Cardinality(S) = 1
LocalDay(t) == LET w == LocalTime(t) IN DayNumber[<<w.year, w.month, w.day>>]
OncePerDay ==
    (pc = "found" /\ runs > 0 /\ Daily) => LocalDay(found) = LocalDay(after) + 1
=============================================================================
