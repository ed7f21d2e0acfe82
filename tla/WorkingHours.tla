---------------------------- MODULE WorkingHours ----------------------------
(***************************************************************************)
(* The retention class of a capture: the working hours a site record       *)
(* resolves to, and whether the capture instant, in the site's own time,   *)
(* falls inside them.  retention.py, and the hours PATCH lets through.     *)
(*                                                                         *)
(* Instants are minutes since the midnight that begins a Monday, UTC.  A   *)
(* site record is [working, legacy, zone], either of the first two None.   *)
(* The API stores working_hours with both times and at least one day; the  *)
(* legacy ingest_hours, of earlier versions, have two well-formed times.   *)
(***************************************************************************)
EXTENDS Integers

CONSTANTS
    DayLength,   \* minutes of a day: 24 * 60 in the code
    DaysPerWeek, \* Len(DAYS)
    Offset,      \* [zone -> [instant -> local time minus UTC]], the zone database
    None         \* an absent attribute

ASSUME WeekAssumption == DayLength \in Nat \ {0} /\ DaysPerWeek \in Nat \ {0}

Days == 0..(DaysPerWeek - 1)
Minutes == 0..(DayLength - 1)

(* What _validate_working_hours lets through, days defaulted.  Nothing     *)
(* rejects start = end.                                                    *)
Hours == [days: (SUBSET Days) \ {{}}, start: Minutes, end: Minutes]

(* working_hours win over ingest_hours, which count for every day.         *)
ResolveWorkingHours(site) ==
    IF site.working # None THEN site.working
    ELSE IF site.legacy # None /\ site.legacy.start # site.legacy.end
    THEN [days |-> Days, start |-> site.legacy.start, end |-> site.legacy.end]
    ELSE None

Local(zone, instant) == instant + Offset[zone][instant]
Weekday(local) == (local \div DayLength) % DaysPerWeek
MinuteOfDay(local) == local % DayLength

MutantInWindow(hours, day, minute) ==
    \/ hours.start < hours.end /\ day \in hours.days
       /\ hours.start <= minute /\ minute < hours.end
    \/ hours.start > hours.end /\ day \in hours.days
       /\ (minute >= hours.start \/ minute < hours.end)

(* The second half of an overnight window belongs to the day before.       *)
InWindow(hours, day, minute) ==
    \/ hours.start < hours.end /\ day \in hours.days
       /\ hours.start <= minute /\ minute < hours.end
    \/ hours.start > hours.end
       /\ \/ minute >= hours.start /\ day \in hours.days
          \/ minute < hours.end /\ (day - 1) % DaysPerWeek \in hours.days

Classify(hours, instant, zone) ==
    IF hours = None THEN "in_hours"
    ELSE IF /\ zone \in DOMAIN Offset
            /\ LET local == Local(zone, instant)
               IN  InWindow(hours, Weekday(local), MinuteOfDay(local))
    THEN "in_hours" ELSE "out_of_hours"

-----------------------------------------------------------------------------
(* What an administrator means by the hours: work begins on each of the    *)
(* days at start and goes on to the next time the site's clock shows end,  *)
(* which is never reached on the way from start to start.                  *)
AtWork(hours, instant, zone) ==
    LET local == Local(zone, instant)
        today == local \div DayLength
    IN  \E day \in {today - 1, today} :
            /\ day % DaysPerWeek \in hours.days
            /\ day * DayLength + hours.start <= local
            /\ hours.start # hours.end
            /\ local < (IF hours.start < hours.end THEN day ELSE day + 1) * DayLength
                       + hours.end
=============================================================================
