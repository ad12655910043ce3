------------------------- MODULE MCRepeatScheduler -------------------------
(* The instances of RepeatScheduler that are checked. *)
EXTENDS RepeatScheduler

S(mode, gap, start, end, limit) == [mode |-> mode, gap |-> gap, start |-> start, end |-> end, limit |-> limit]
Profile(schedules, remove, maxEvents) == [schedules |-> schedules, remove |-> remove, tries |-> 2, events |-> maxEvents]

MCProfiles == {
  \* an interval that changes while its job runs
  Profile({S("after", 1, 0, 0, 0), S("after", 2, 0, 0, 0)}, FALSE, 2),
  \* a removal between a read and a write
  Profile({S("after", 1, 0, 0, 0)}, TRUE, 2),
  \* a switch of mode, and back
  Profile({S("every", 1, 0, 0, 0), S("after", 1, 0, 0, 0)}, FALSE, 2),
  \* limits
  Profile({S("after", 1, 0, 0, 2), S("every", 1, 2, 0, 1)}, FALSE, 2),
  \* end dates
  Profile({S("after", 1, 2, 3, 0), S("after", 1, 0, 0, 0)}, FALSE, 2),
  Profile({S("pattern", 2, 0, 3, 0)}, FALSE, 3)}
=============================================================================
