---------------------------- MODULE MCCronSearch ----------------------------
(***************************************************************************)
(* A year of two months (nine days, and ten or nine), days of eight hours  *)
(* of two minutes of two seconds, and a change of offset on the fourth     *)
(* day.                                                                    *)
(***************************************************************************)
EXTENDS CronSearch

MCMonthLength == <<9, 10>>

Token(kind, from, to, step) == [kind |-> kind, from |-> from, to |-> to, step |-> step]
Star == {Token("star", 0, 0, 1)}
StarBy(n) == {Token("star", 0, 0, n)}
At(n) == {Token("value", n, 0, 1)}
From(n, step) == {Token("open", n, 0, step)}
Span(m, n, step) == {Token("range", m, n, step)}
Mod(kind, n, m) == {Token(kind, n, m, 1)}

P(second, minute, hour, dom, month, dow) ==
    [second |-> second, minute |-> minute, hour |-> hour, dom |-> dom, month |-> month,
     dow |-> dow, hasSeconds |-> second # At(0)]

TimePatterns ==
    {P(At(0), At(1), At(h), Star, Star, Star) : h \in {0, 2, 3, 7}} \cup
    {P(At(0), At(0), Star, Star, Star, Star),
     P(At(0), At(1), StarBy(3), Star, Star, Star),
     P(At(0), Star, At(2), Star, Star, Star),
     P(At(0), Star, At(2), Star, Star, At(4)),
     P(Star, Star, Star, Star, Star, Star),
     P(At(1), At(0), Star, Star, Star, Star),
     P(At(1), At(1), At(2) \cup At(3), Star, Star, Star),
     P(Star, At(0), Span(1, 4, 2), Star, Star, Star)}

DayPatterns ==
    {P(At(0), At(1), At(2), dom, Star, Star) :
        dom \in {Mod("L", 0, 0), Mod("LW", 0, 0), Mod("W", 1, 0), Mod("W", 9, 0), Mod("W", 4, 0),
                 At(10), From(2, 3)}} \cup
    {P(At(0), At(1), At(2), Star, Star, dow) :
        dow \in {Mod("dowL", 7, 0), Mod("nth", 3, 2), Mod("nth", 1, 1), From(1, 3), At(7)}} \cup
    {P(At(0), At(0), At(5), At(6), At(2), At(3)),
     P(At(0), At(0), At(5), Span(1, 9, 4), At(2), Span(0, 6, 1)),
     P(At(0), At(0), At(5), At(10), At(1), Star),
     P(At(0), At(0), At(5), At(10), At(2), Star)}

BadPatterns ==
    {P(At(0), At(0), At(5), At(11), Star, Star),
     P(At(0), At(0), Span(5, 2, 1), Star, Star, Star),
     P(At(0), StarBy(0), At(5), Star, Star, Star),
     P(At(0), At(0), At(5), Star, Star, Mod("nth", 1, 6))}

MCPatterns == TimePatterns \cup DayPatterns \cup BadPatterns

Utc == [utc |-> TRUE, at |-> 0, before |-> 0, later |-> 0]
Zone(at, before, later) == [utc |-> FALSE, at |-> at, before |-> before, later |-> later]
Noon == 3 * DayLength + 2 * HourLength
MCZones == {Utc, Zone(Noon, 4, 8), Zone(Noon, 8, 4), Zone(Noon, 6, 4), Zone(Noon, 0, 12),
            Zone(3 * DayLength - 4, 4, 8), Zone(3 * DayLength - 8, 8, 4)}

MCStarts == {0, 40} \cup {Noon + d : d \in {-17, -12, -9, -8, -5, -4, -3, -1, 0, 1, 2, 4, 5, 9}}
                   \cup {19 * DayLength - 1}
=============================================================================
