--------------------------- MODULE FootageProofs ---------------------------
(***************************************************************************)
(* Proofs about the retention classes and the footage of a camera, for any *)
(* week, zones, sites and reads, any DELETE requests, and whatever fails.  *)
(***************************************************************************)
EXTENDS Footage, SequenceTheorems, FiniteSetTheorems, TLAPS

-----------------------------------------------------------------------------
(* Division, as the clock uses it.                                         *)

LEMMA Division ==
    ASSUME NEW n \in Int, NEW d \in Nat \ {0}
    PROVE  /\ n \div d \in Int /\ n % d \in 0..(d - 1)
           /\ n = d * (n \div d) + (n % d)
OBVIOUS

LEMMA Multiples ==
    ASSUME NEW d \in Nat \ {0}, NEW j \in Int, NEW k \in Int, j < k
    PROVE  d * j + d <= d * k
<1>1. k - j >= 1
  OBVIOUS
<1>2. d * (k - j) >= d
  BY <1>1
<1>3. d * (k - j) = d * k - d * j
  OBVIOUS
<1> QED
  BY <1>2, <1>3

LEMMA RemainderIsUnique ==
    ASSUME NEW d \in Nat \ {0}, NEW k \in Int, NEW r \in 0..(d - 1)
    PROVE  (d * k + r) % d = r
<1> DEFINE n == d * k + r
<1>1. n \in Int /\ d * k \in Int
  OBVIOUS
<1> HIDE DEF n
<1> DEFINE q == n \div d
           s == n % d
<1>2. q \in Int /\ s \in 0..(d - 1) /\ n = d * q + s /\ d * q \in Int
  BY <1>1, Division
<1> HIDE DEF q, s
<1>3. q = k
  <2>1. CASE q < k
    <3>1. d * q + d <= d * k
      BY <1>2, <2>1, Multiples
    <3> QED
      BY <1>1, <1>2, <3>1 DEF n
  <2>2. CASE k < q
    <3>1. d * k + d <= d * q
      BY <1>2, <2>2, Multiples
    <3> QED
      BY <1>1, <1>2, <3>1 DEF n
  <2> QED
    BY <1>2, <2>1, <2>2
<1> QED
  BY <1>1, <1>2, <1>3 DEF n, s

(* The weekday before today's is that of yesterday.                        *)
LEMMA DayBefore ==
    ASSUME NEW n \in Int, NEW d \in Nat \ {0}
    PROVE  ((n % d) - 1) % d = (n - 1) % d
<1> DEFINE q == (n - 1) \div d
           r == (n - 1) % d
<1>1. q \in Int /\ r \in 0..(d - 1) /\ n - 1 = d * q + r /\ d * q \in Int
  BY Division
<1> HIDE DEF q, r
<1>2. CASE r + 1 < d
  <2>1. n = d * q + (r + 1)
    BY <1>1
  <2>2. n % d = r + 1
    BY <1>1, <1>2, <2>1, RemainderIsUnique
  <2>3. (d * 0 + r) % d = r
    BY <1>1, RemainderIsUnique
  <2> QED
    BY <1>1, <2>2, <2>3 DEF r
<1>3. CASE r + 1 = d
  <2>1. n = d * (q + 1) + 0
    BY <1>1, <1>3
  <2>2. n % d = 0
    BY <1>1, <2>1, RemainderIsUnique
  <2>3. (d * (-1) + r) % d = r
    BY <1>1, RemainderIsUnique
  <2>4. d * (-1) + r = -1
    BY <1>1, <1>3
  <2> QED
    BY <1>1, <2>2, <2>3, <2>4 DEF r
<1> QED
  BY <1>1, <1>2, <1>3

-----------------------------------------------------------------------------
(* The code's InWindow looks at a weekday and a minute of the day; what an *)
(* administrator means is work that goes on from the start, on a day of    *)
(* the hours, to the next end.  They agree on every week and zone.         *)
LEMMA WindowIsWork ==
    ASSUME NEW hours \in Hours, NEW zone \in DOMAIN Offset, NEW instant,
           hours # None, Local(zone, instant) \in Int
    PROVE  Classify(hours, instant, zone) =
              IF AtWork(hours, instant, zone) THEN "in_hours" ELSE "out_of_hours"
<1> DEFINE local == Local(zone, instant)
           today == local \div DayLength
           minute == local % DayLength
           midnight == DayLength * today
<1> USE WeekAssumption
<1>1. /\ today \in Int /\ minute \in 0..(DayLength - 1) /\ local = midnight + minute
      /\ midnight \in Int
  <2>1. local \in Int
    OBVIOUS
  <2> HIDE DEF local
  <2>2. /\ today \in Int /\ minute \in 0..(DayLength - 1)
        /\ local = DayLength * today + minute
    BY <2>1, Division
  <2> HIDE DEF today, minute
  <2> QED
    BY <2>2
<1>2. /\ (today - 1) * DayLength = midnight - DayLength
      /\ today * DayLength = midnight
      /\ (today + 1) * DayLength = midnight + DayLength
      /\ ((today - 1) + 1) * DayLength = midnight
  <2> HIDE DEF today
  <2>1. \A i \in Int : (i - 1) * DayLength = DayLength * i - DayLength
                       /\ (i + 1) * DayLength = DayLength * i + DayLength
                       /\ i * DayLength = DayLength * i /\ (i - 1) + 1 = i
    OBVIOUS
  <2> QED
    BY <1>1, <2>1
<1>3. /\ Weekday(local) = today % DaysPerWeek /\ MinuteOfDay(local) = minute
      /\ (Weekday(local) - 1) % DaysPerWeek = (today - 1) % DaysPerWeek
  BY <1>1, DayBefore DEF Weekday, MinuteOfDay
<1>4. /\ hours.start \in 0..(DayLength - 1) /\ hours.end \in 0..(DayLength - 1)
  BY DEF Hours, Minutes
<1> HIDE DEF minute, midnight
<1>5. InWindow(hours, Weekday(local), MinuteOfDay(local)) <=>
         \/ /\ today % DaysPerWeek \in hours.days
            /\ hours.start # hours.end /\ hours.start <= minute
            /\ hours.start < hours.end => minute < hours.end
         \/ /\ (today - 1) % DaysPerWeek \in hours.days
            /\ hours.start > hours.end /\ minute < hours.end
  BY <1>1, <1>3, <1>4 DEF InWindow
<1>6. AtWork(hours, instant, zone) <=>
         \/ /\ today % DaysPerWeek \in hours.days
            /\ midnight + hours.start <= local
            /\ hours.start # hours.end
            /\ local < (IF hours.start < hours.end THEN midnight ELSE midnight + DayLength)
                       + hours.end
         \/ /\ (today - 1) % DaysPerWeek \in hours.days
            /\ midnight - DayLength + hours.start <= local
            /\ hours.start # hours.end
            /\ local < (IF hours.start < hours.end THEN midnight - DayLength ELSE midnight)
                       + hours.end
  <2> DEFINE On(day, from, next) ==
                /\ day % DaysPerWeek \in hours.days
                /\ from + hours.start <= local
                /\ hours.start # hours.end
                /\ local < (IF hours.start < hours.end THEN from ELSE next) + hours.end
  <2>1. AtWork(hours, instant, zone) <=>
           \E day \in {today - 1, today} :
              /\ day % DaysPerWeek \in hours.days
              /\ day * DayLength + hours.start <= local
              /\ hours.start # hours.end
              /\ local < (IF hours.start < hours.end THEN day ELSE day + 1) * DayLength
                         + hours.end
    BY DEF AtWork
  <2> HIDE DEF today, local
  <2> QED
    BY <1>2, <2>1
<1> HIDE DEF today, local
<1>7. AtWork(hours, instant, zone) <=> InWindow(hours, Weekday(local), MinuteOfDay(local))
  <2>1. midnight + hours.start <= local <=> hours.start <= minute
    BY <1>1, <1>4
  <2>2. midnight - DayLength + hours.start <= local
    BY <1>1, <1>4
  <2>3. hours.start # hours.end =>
          (local < (IF hours.start < hours.end THEN midnight ELSE midnight + DayLength) + hours.end
             <=> (hours.start < hours.end => minute < hours.end))
    BY <1>1, <1>4
  <2>4. hours.start # hours.end =>
          (local < (IF hours.start < hours.end THEN midnight - DayLength ELSE midnight) + hours.end
             <=> hours.start > hours.end /\ minute < hours.end)
    BY <1>1, <1>4
  <2> QED
    BY <1>4, <1>5, <1>6, <2>1, <2>2, <2>3, <2>4
<1>8. hours # None => Classify(hours, instant, zone) =
         IF InWindow(hours, Weekday(local), MinuteOfDay(local)) THEN "in_hours" ELSE "out_of_hours"
  BY DEF Classify, local
<1> QED
  BY <1>7, <1>8

-----------------------------------------------------------------------------
(* The hours                                                               *)

HoursInv ==
    /\ now \in 0..Horizon /\ faults \in Nat
    /\ site \in SiteRecords /\ asked \in Hours \cup {None} /\ legacyKept \in BOOLEAN
    /\ legacyKept \/ asked = ResolveWorkingHours(site)

(* What is so of a site that was created with working_hours, or with none. *)
NoLegacyInv == site.legacy = None /\ legacyKept = FALSE

(* Whatever a record holds resolves to hours, or to none at all.           *)
LEMMA ResolvedAreHours ==
    ASSUME NEW s \in SiteRecords
    PROVE  ResolveWorkingHours(s) \in Hours \cup {None}
<1>1. Days \in (SUBSET Days) \ {{}}
  BY WeekAssumption DEF Days
<1>2. CASE s.legacy # None /\ s.working = None
  <2>1. s.legacy.start \in Minutes /\ s.legacy.end \in Minutes
    BY <1>2 DEF SiteRecords
  <2> QED
    BY <1>1, <1>2, <2>1 DEF ResolveWorkingHours, Hours
<1> QED
  BY <1>2 DEF ResolveWorkingHours, SiteRecords

(* PATCH leaves a record of one version, and the hours asked for are then  *)
(* in force, unless none were and legacy ones remain.                      *)
LEMMA AnswerIsInForce ==
    ASSUME NEW updates \in SiteUpdates, site \in SiteRecords,
           asked \in Hours \cup {None}, legacyKept \in BOOLEAN,
           legacyKept \/ asked = ResolveWorkingHours(site)
    PROVE  /\ UpdateSite(updates) \in SiteRecords
           /\ Asked(updates) \in Hours \cup {None} /\ LegacyKept(updates) \in BOOLEAN
           /\ LegacyKept(updates) \/ Asked(updates) = ResolveWorkingHours(UpdateSite(updates))
           /\ NoLegacyInv => UpdateSite(updates).legacy = None /\ LegacyKept(updates) = FALSE
<1> DEFINE set == Given(updates)
<1>1. /\ site \in [working: Hours \cup {None}, zone: DOMAIN Offset,
                   legacy: [start: Minutes, end: Minutes] \cup {None}]
      /\ site.working = None \/ site.legacy = None
  BY DEF SiteRecords
<1>2. /\ set = [working |-> IF "working" \in DOMAIN updates THEN updates.working ELSE site.working,
                zone |-> IF "zone" \in DOMAIN updates THEN updates.zone ELSE site.zone,
                legacy |-> site.legacy]
      /\ "working" \in DOMAIN updates => updates.working \in Hours \cup {None}
      /\ "zone" \in DOMAIN updates => updates.zone \in DOMAIN Offset
  <2>1. /\ DOMAIN site = {"working", "zone", "legacy"}
        /\ "legacy" \notin DOMAIN updates
        /\ "working" \in DOMAIN updates => updates.working \in Hours \cup {None}
        /\ "zone" \in DOMAIN updates => updates.zone \in DOMAIN Offset
    BY <1>1 DEF SiteUpdates
  <2> QED
    BY <1>1, <2>1 DEF Given
<1> HIDE DEF set
<1>3. CASE "working" \in DOMAIN updates /\ updates.working # None
  <2>1. UpdateSite(updates) = [set EXCEPT !.legacy = None]
    BY <1>3 DEF UpdateSite, set
  <2>2. Asked(updates) = updates.working /\ LegacyKept(updates) = FALSE
    BY <1>3 DEF Asked, LegacyKept
  <2> QED
    BY <1>1, <1>2, <1>3, <2>1, <2>2 DEF SiteRecords, ResolveWorkingHours
<1>4. CASE "working" \in DOMAIN updates /\ updates.working = None
  <2>1. UpdateSite(updates) = set
    BY <1>4 DEF UpdateSite, set
  <2>2. /\ Asked(updates) = None
        /\ LegacyKept(updates) = (site.working = None /\ site.legacy # None)
    BY <1>4 DEF Asked, LegacyKept
  <2>3. set \in SiteRecords /\ set.working = None /\ set.legacy = site.legacy
    BY <1>1, <1>2, <1>4 DEF SiteRecords
  <2>4. CASE site.legacy = None
    BY <2>1, <2>2, <2>3, <2>4 DEF ResolveWorkingHours
  <2>5. CASE site.legacy # None
    BY <1>1, <2>1, <2>2, <2>3, <2>5 DEF NoLegacyInv
  <2> QED
    BY <2>4, <2>5
<1>5. CASE "working" \notin DOMAIN updates
  <2>1. /\ UpdateSite(updates) = set /\ Asked(updates) = asked
        /\ LegacyKept(updates) = legacyKept
    BY <1>5 DEF UpdateSite, set, Asked, LegacyKept
  <2> QED
    BY <1>1, <1>2, <1>5, <2>1 DEF SiteRecords, ResolveWorkingHours, NoLegacyInv
<1> QED
  BY <1>3, <1>4, <1>5

LEMMA HoursInductive == Spec => []HoursInv
<1>1. Init => HoursInv
  <2> SUFFICES ASSUME Init PROVE HoursInv
    OBVIOUS
  <2>1. site \in SiteRecords /\ now \in 0..Horizon /\ faults \in Nat
    BY FootageAssumption DEF Init
  <2>2. asked = ResolveWorkingHours(site) /\ asked \in Hours \cup {None}
    BY <2>1, ResolvedAreHours DEF Init
  <2> QED
    BY <2>1, <2>2 DEF Init, HoursInv
<1>2. HoursInv /\ [Next]_vars => HoursInv'
  <2> SUFFICES ASSUME HoursInv, [Next]_vars PROVE HoursInv'
    OBVIOUS
  <2> USE DEF HoursInv
  <2>1. CASE Capture
    <3>1. faults' \in Nat
      BY <2>1 DEF Capture, Fault
    <3>2. now' \in 0..Horizon
      BY <2>1, FootageAssumption DEF Capture
    <3> QED
      BY <2>1, <3>1, <3>2 DEF Capture, settings
  <2>2. ASSUME NEW u \in Updates, Patch(u) PROVE HoursInv'
    BY <2>2, FootageAssumption, AnswerIsInForce DEF Patch
  <2>3. CASE (\E r \in Requests : Ask(r)) \/ ListPage \/ ReviewPage \/ Latest
             \/ FetchBucket \/ FramePage
    <3>1. UNCHANGED <<now, settings, faults>>
      BY <2>3 DEF Ask, ListPage, ReviewPage, Latest, FetchBucket, FramePage, TakePage, Nothing
    <3> QED
      BY <3>1 DEF settings
  <2>4. ASSUME NEW d \in Deleters,
               DeleteBatch(d) \/ CheckRecord(d) \/ DeleteObject(d) \/ DeleteRecord(d)
        PROVE  HoursInv'
    <3>1. UNCHANGED <<now, settings>> /\ (UNCHANGED faults \/ Fault)
      BY <2>4 DEF DeleteBatch, CheckRecord, DeleteObject, DeleteRecord, Aside
    <3> QED
      BY <3>1 DEF settings, Fault
  <2>5. CASE UNCHANGED vars
    BY <2>5 DEF vars, settings
  <2> QED
    BY <2>1, <2>2, <2>3, <2>4, <2>5 DEF Next
<1> QED
  BY <1>1, <1>2, PTL DEF Spec

LEMMA NoLegacyInductive ==
    ASSUME \A s \in Sites : s.legacy = None
    PROVE  Spec => []NoLegacyInv
<1>1. Init => NoLegacyInv
  BY DEF Init, NoLegacyInv
<1>2. HoursInv /\ NoLegacyInv /\ [Next]_vars => NoLegacyInv'
  <2> SUFFICES ASSUME HoursInv, NoLegacyInv, [Next]_vars PROVE NoLegacyInv'
    OBVIOUS
  <2>1. ASSUME NEW u \in Updates, Patch(u) PROVE NoLegacyInv'
    <3>1. u \in SiteUpdates
      BY FootageAssumption
    <3>2. UpdateSite(u).legacy = None /\ LegacyKept(u) = FALSE
      BY <3>1, AnswerIsInForce DEF HoursInv
    <3> QED
      BY <2>1, <3>2 DEF Patch, NoLegacyInv
  <2>2. CASE UNCHANGED settings
    BY <2>2 DEF settings, NoLegacyInv
  <2>3. \/ UNCHANGED settings
        \/ \E u \in Updates : Patch(u)
    BY DEF Next, Capture, Ask, ListPage, ReviewPage, Latest, FetchBucket, FramePage, TakePage,
           Nothing, DeleteBatch, CheckRecord, DeleteObject, DeleteRecord, Aside, vars
  <2> QED
    BY <2>1, <2>2, <2>3
<1> QED
  BY <1>1, <1>2, HoursInductive, PTL DEF Spec

(* A step under hours that are in force files what it captures by them.    *)
LEMMA FiledByHoursInForce ==
    ASSUME HoursInv, legacyKept = FALSE, Next
    PROVE  FiledAsAsked
<1> USE DEF FiledAsAsked
<1>1. CASE Capture
  <2> DEFINE class == Classify(asked, now, site.zone)
  <2>1. asked = None => class = "in_hours"
    BY DEF Classify
  <2>2. asked # None =>
           class = IF AtWork(asked, now, site.zone) THEN "in_hours" ELSE "out_of_hours"
    <3> SUFFICES ASSUME asked # None
                 PROVE  class = IF AtWork(asked, now, site.zone)
                                THEN "in_hours" ELSE "out_of_hours"
      OBVIOUS
    <3>1. asked \in Hours /\ site.zone \in DOMAIN Offset
      BY ResolvedAreHours DEF HoursInv, SiteRecords
    <3>2. now \in Instants
      BY <1>1, FootageAssumption DEF HoursInv, Capture, Instants
    <3>3. Local(site.zone, now) \in Int
      BY <3>1, <3>2, FootageAssumption DEF Local, Instants
    <3> QED
      BY <3>1, <3>3, WindowIsWork
  <2>3. asked = ResolveWorkingHours(site) /\ faults \in Nat
    BY DEF HoursInv
  <2> HIDE DEF class
  <2>4. CASE class = "in_hours" /\ ooh' = ooh /\ faults' = faults
    BY <2>1, <2>2, <2>4
  <2>5. CASE class # "in_hours" /\ img' = img /\ faults' = faults
    BY <2>1, <2>2, <2>5
  <2>6. CASE Fault /\ ooh' = ooh
    BY <2>3, <2>6 DEF Fault
  <2> QED
    BY <1>1, <2>3, <2>4, <2>5, <2>6 DEF Capture, class
<1>2. CASE (\E u \in Updates : Patch(u)) \/ (\E r \in Requests : Ask(r)) \/ ListPage
           \/ ReviewPage \/ Latest \/ FetchBucket \/ FramePage
  <2>1. UNCHANGED <<img, ooh>>
    BY <1>2 DEF Patch, Ask, ListPage, ReviewPage, Latest, FetchBucket, FramePage,
                TakePage, Nothing, footage
  <2> QED
    BY <2>1
<1>3. ASSUME NEW d \in Deleters,
             DeleteBatch(d) \/ CheckRecord(d) \/ DeleteObject(d) \/ DeleteRecord(d)
      PROVE  FiledAsAsked
  <2>1. ooh' = ooh /\ img' \subseteq img
    BY <1>3 DEF DeleteBatch, CheckRecord, DeleteObject, DeleteRecord, Aside
  <2> QED
    BY <2>1
<1> QED
  BY <1>1, <1>2, <1>3 DEF Next

(* Captures are filed under the hours last asked for, on the site's own    *)
(* clock, whatever week, zones and hours there are -- except on a site     *)
(* whose hours were cleared while they had the legacy name.                *)
THEOREM FiledUnlessLegacyKept == Spec => ClassifiedUnlessLegacyKept
<1>1. HoursInv /\ [Next]_vars => [legacyKept \/ FiledAsAsked]_vars
  BY FiledByHoursInForce DEF HoursInv
<1> QED
  BY <1>1, HoursInductive, PTL DEF Spec, ClassifiedUnlessLegacyKept

(* Where no site has hours under the legacy name, as none does that was    *)
(* created with working_hours or without any, there is no exception.       *)
THEOREM FiledOnNewSites ==
    ASSUME \A s \in Sites : s.legacy = None
    PROVE  Spec => ClassifiedAsAsked
<1>1. HoursInv /\ NoLegacyInv /\ [Next]_vars => [FiledAsAsked]_vars
  BY FiledByHoursInForce DEF NoLegacyInv
<1> QED
  BY <1>1, HoursInductive, NoLegacyInductive, PTL DEF Spec, ClassifiedAsAsked

-----------------------------------------------------------------------------
(* Deletion                                                                *)

Steps == {"idle", "check", "object", "record", "done", "error"}

(* A batch names captures of the past, and a request that has one to do or *)
(* failed at one still holds it.                                           *)
BatchOK ==
    /\ batch \in [Deleters -> Seq(Instants)] /\ step \in [Deleters -> Steps]
    /\ \A d \in Deleters :
         /\ step[d] \in {"check", "object", "record", "error"} => batch[d] # <<>>
         /\ \A i \in DOMAIN batch[d] : batch[d][i] < now

(* What was passed is no longer there; nothing comes back, for captures    *)
(* are later than all a batch names.                                       *)
PassedAreGone ==
    /\ gone \in [Deleters -> SUBSET Instants]
    /\ \A d \in Deleters : \A t \in gone[d] : t < now /\ t \notin img

(* Half-deleted captures are in the hands of a request.                    *)
HalfIsHeld ==
    /\ objects \subseteq img
    /\ \A d \in Deleters : step[d] = "record" => Head(batch[d]) \notin objects
    /\ \A t \in img \ objects : \E d \in Deleters :
         step[d] \in {"record", "error"} /\ Head(batch[d]) = t

DeletionInv ==
    /\ now \in 0..Horizon /\ (\A t \in img : t \in Instants /\ t < now)
    /\ BatchOK /\ PassedAreGone /\ HalfIsHeld

(* The head of a batch is one of its timestamps, and so is the rest.       *)
LEMMA HeadAndTail ==
    ASSUME NEW S, NEW s \in Seq(S), s # <<>>
    PROVE  /\ Head(s) \in S /\ Head(s) = s[1] /\ 1 \in DOMAIN s
           /\ Tail(s) \in Seq(S)
           /\ \A i \in DOMAIN Tail(s) : i + 1 \in DOMAIN s /\ Tail(s)[i] = s[i + 1]
           /\ Len(s) \in Nat /\ (Tail(s) = <<>> <=> Len(s) = 1)
<1>1. Len(s) \in Nat \ {0} /\ DOMAIN s = 1..Len(s)
  BY EmptySeq, LenProperties
<1>2. /\ Tail(s) \in Seq(S) /\ Len(Tail(s)) = Len(s) - 1
      /\ \A i \in 1..Len(Tail(s)) : Tail(s)[i] = s[i + 1]
  BY HeadTailProperties
<1>3. Head(s) = s[1] /\ Head(s) \in S
  BY HeadTailProperties
<1>4. DOMAIN Tail(s) = 1..(Len(s) - 1)
  BY <1>2, LenProperties
<1>5. Tail(s) = <<>> <=> Len(s) = 1
  BY <1>1, <1>2, EmptySeq
<1> QED
  BY <1>1, <1>2, <1>3, <1>4, <1>5

(* The loop goes on to the next timestamp once this one has no record.     *)
LEMMA NextKeepsBatch ==
    ASSUME DeletionInv, NEW d \in Deleters, NextTimestamp(d),
           step[d] \in {"check", "record"}, now' = now
    PROVE  /\ BatchOK'
           /\ Head(batch[d]) \in Instants /\ Head(batch[d]) < now
           /\ step'[d] \in {"check", "done"}
           /\ \A e \in Deleters \ {d} : step'[e] = step[e] /\ batch'[e] = batch[e]
           /\ gone' = [gone EXCEPT ![d] = @ \cup {Head(batch[d])}]
<1>1. /\ batch[d] \in Seq(Instants) /\ batch[d] # <<>>
      /\ \A i \in DOMAIN batch[d] : batch[d][i] < now
  BY DEF DeletionInv, BatchOK
<1>2. /\ Head(batch[d]) \in Instants /\ Head(batch[d]) < now
      /\ Tail(batch[d]) \in Seq(Instants)
      /\ \A i \in DOMAIN Tail(batch[d]) : Tail(batch[d])[i] < now
      /\ Len(batch[d]) # 1 => Tail(batch[d]) # <<>>
  BY <1>1, HeadAndTail
<1>3. /\ batch' = [batch EXCEPT ![d] = Tail(@)]
      /\ step' = [step EXCEPT ![d] = IF Len(batch[d]) = 1 THEN "done" ELSE "check"]
  BY DEF NextTimestamp
<1>4. BatchOK'
  <2>1. batch' \in [Deleters -> Seq(Instants)] /\ step' \in [Deleters -> Steps]
    BY <1>2, <1>3 DEF DeletionInv, BatchOK, Steps
  <2>2. ASSUME NEW e \in Deleters
        PROVE  /\ step'[e] \in {"check", "object", "record", "error"} => batch'[e] # <<>>
               /\ \A i \in DOMAIN batch'[e] : batch'[e][i] < now'
    <3>1. CASE e = d
      BY <1>2, <1>3, <3>1 DEF DeletionInv, BatchOK
    <3>2. CASE e # d
      BY <1>3, <3>2 DEF DeletionInv, BatchOK
    <3> QED
      BY <3>1, <3>2
  <2> QED
    BY <2>1, <2>2 DEF BatchOK
<1> QED
  BY <1>2, <1>3, <1>4 DEF DeletionInv, BatchOK, NextTimestamp

(* A request moves to another step and keeps its batch.                    *)
LEMMA GotoKeepsBatch ==
    ASSUME DeletionInv, NEW d \in Deleters, NEW s \in Steps, Goto(d, s),
           step[d] \in {"check", "object", "record"}, now' = now
    PROVE  /\ BatchOK' /\ batch' = batch /\ gone' = gone
           /\ step' = [step EXCEPT ![d] = s]
           /\ Head(batch[d]) \in Instants
<1>1. batch[d] \in Seq(Instants) /\ batch[d] # <<>>
  BY DEF DeletionInv, BatchOK
<1>2. Head(batch[d]) \in Instants
  BY <1>1, HeadAndTail
<1> QED
  BY <1>1, <1>2 DEF DeletionInv, BatchOK, Goto

LEMMA CheckRecordKeeps ==
    ASSUME DeletionInv, NEW d \in Deleters, CheckRecord(d)
    PROVE  DeletionInv'
<1>1. UNCHANGED <<now, img, objects>> /\ step[d] = "check"
  BY DEF CheckRecord, Aside
<1>2. CASE Head(batch[d]) \in img /\ Goto(d, "object")
  <2>1. BatchOK' /\ batch' = batch /\ gone' = gone /\ step' = [step EXCEPT ![d] = "object"]
    BY <1>1, <1>2, GotoKeepsBatch DEF Steps
  <2>2. HalfIsHeld'
    BY <1>1, <2>1 DEF DeletionInv, HalfIsHeld, BatchOK
  <2> QED
    BY <1>1, <2>1, <2>2 DEF DeletionInv, PassedAreGone
<1>3. CASE Head(batch[d]) \notin img /\ NextTimestamp(d)
  <2>1. /\ BatchOK' /\ Head(batch[d]) \in Instants /\ Head(batch[d]) < now
        /\ step'[d] \in {"check", "done"}
        /\ \A e \in Deleters \ {d} : step'[e] = step[e] /\ batch'[e] = batch[e]
        /\ gone' = [gone EXCEPT ![d] = @ \cup {Head(batch[d])}]
    BY <1>1, <1>3, NextKeepsBatch
  <2>2. HalfIsHeld'
    BY <1>1, <2>1 DEF DeletionInv, HalfIsHeld
  <2>3. PassedAreGone'
    BY <1>1, <1>3, <2>1 DEF DeletionInv, PassedAreGone
  <2> QED
    BY <1>1, <2>1, <2>2, <2>3 DEF DeletionInv
<1> QED
  BY <1>2, <1>3 DEF CheckRecord

LEMMA DeleteObjectKeeps ==
    ASSUME DeletionInv, NEW d \in Deleters, DeleteObject(d)
    PROVE  DeletionInv'
<1>1. /\ UNCHANGED <<now, img>> /\ step[d] = "object"
      /\ objects' \in {objects, objects \ {Head(batch[d])}}
      /\ \/ Goto(d, "record") /\ objects' = objects \ {Head(batch[d])}
         \/ Goto(d, "error")
  BY DEF DeleteObject, Aside
<1>2. PICK s \in {"record", "error"} :
         Goto(d, s) /\ (s = "record" => objects' = objects \ {Head(batch[d])})
  BY <1>1
<1>3. /\ BatchOK' /\ batch' = batch /\ gone' = gone /\ step' = [step EXCEPT ![d] = s]
      /\ step \in [Deleters -> Steps]
  BY <1>1, <1>2, GotoKeepsBatch DEF Steps, DeletionInv, BatchOK
<1>4. HalfIsHeld'
  <2>1. objects' \subseteq img'
    BY <1>1 DEF DeletionInv, HalfIsHeld
  <2>2. ASSUME NEW e \in Deleters, step'[e] = "record"
        PROVE  Head(batch'[e]) \notin objects'
    <3>1. CASE e = d
      BY <1>2, <1>3, <2>2, <3>1
    <3>2. CASE e # d
      BY <1>1, <1>3, <2>2, <3>2 DEF DeletionInv, HalfIsHeld
    <3> QED
      BY <3>1, <3>2
  <2>3. ASSUME NEW t \in img' \ objects'
        PROVE  \E e \in Deleters : step'[e] \in {"record", "error"} /\ Head(batch'[e]) = t
    <3>1. CASE t = Head(batch[d])
      BY <1>3, <3>1
    <3>2. CASE t # Head(batch[d])
      <4>1. t \in img \ objects
        BY <1>1, <2>3, <3>2
      <4>2. PICK e \in Deleters : step[e] \in {"record", "error"} /\ Head(batch[e]) = t
        BY <4>1 DEF DeletionInv, HalfIsHeld
      <4> QED
        BY <1>1, <1>3, <4>2
    <3> QED
      BY <3>1, <3>2
  <2> QED
    BY <2>1, <2>2, <2>3 DEF HalfIsHeld
<1> QED
  BY <1>1, <1>3, <1>4 DEF DeletionInv, PassedAreGone

LEMMA DeleteRecordKeeps ==
    ASSUME DeletionInv, NEW d \in Deleters, DeleteRecord(d)
    PROVE  DeletionInv'
<1>1. UNCHANGED <<now, objects>> /\ step[d] = "record" /\ Head(batch[d]) \notin objects
  BY DEF DeleteRecord, Aside, DeletionInv, HalfIsHeld
<1>2. CASE NextTimestamp(d) /\ img' = img \ {Head(batch[d])}
  <2>1. /\ BatchOK' /\ Head(batch[d]) \in Instants /\ Head(batch[d]) < now
        /\ step'[d] \in {"check", "done"}
        /\ \A e \in Deleters \ {d} : step'[e] = step[e] /\ batch'[e] = batch[e]
        /\ gone' = [gone EXCEPT ![d] = @ \cup {Head(batch[d])}]
    BY <1>1, <1>2, NextKeepsBatch
  <2>2. HalfIsHeld'
    <3>1. objects' \subseteq img'
      BY <1>1, <1>2 DEF DeletionInv, HalfIsHeld
    <3>2. ASSUME NEW t \in img' \ objects'
          PROVE  \E e \in Deleters : step'[e] \in {"record", "error"} /\ Head(batch'[e]) = t
      <4>1. t \in img \ objects /\ t # Head(batch[d])
        BY <1>1, <1>2, <3>2
      <4>2. PICK e \in Deleters : step[e] \in {"record", "error"} /\ Head(batch[e]) = t
        BY <4>1 DEF DeletionInv, HalfIsHeld
      <4> QED
        BY <2>1, <4>1, <4>2
    <3>3. ASSUME NEW e \in Deleters, step'[e] = "record"
          PROVE  Head(batch'[e]) \notin objects'
      BY <1>1, <2>1, <3>3 DEF DeletionInv, HalfIsHeld
    <3> QED
      BY <3>1, <3>2, <3>3 DEF HalfIsHeld
  <2>3. PassedAreGone'
    BY <1>1, <1>2, <2>1 DEF DeletionInv, PassedAreGone
  <2> QED
    BY <1>1, <1>2, <2>1, <2>2, <2>3 DEF DeletionInv
<1>3. CASE Goto(d, "error") /\ img' \in {img, img \ {Head(batch[d])}}
  <2>1. /\ BatchOK' /\ batch' = batch /\ gone' = gone /\ step' = [step EXCEPT ![d] = "error"]
        /\ step \in [Deleters -> Steps]
    BY <1>1, <1>3, GotoKeepsBatch DEF Steps, DeletionInv, BatchOK
  <2>2. HalfIsHeld'
    BY <1>1, <1>3, <2>1 DEF DeletionInv, HalfIsHeld
  <2> QED
    BY <1>1, <1>3, <2>1, <2>2 DEF DeletionInv, PassedAreGone
<1> QED
  BY <1>2, <1>3 DEF DeleteRecord

LEMMA DeletionInductive == Spec => []DeletionInv
<1>1. Init => DeletionInv
  BY FootageAssumption DEF Init, DeletionInv, BatchOK, PassedAreGone, HalfIsHeld, Steps
<1>2. DeletionInv /\ [Next]_vars => DeletionInv'
  <2> SUFFICES ASSUME DeletionInv, [Next]_vars PROVE DeletionInv'
    OBVIOUS
  <2>1. CASE Capture
    <3>1. /\ now < Horizon /\ now' = now + 1 /\ now \in 0..Horizon
          /\ UNCHANGED <<batch, step, gone>>
          /\ \/ img' = img /\ objects' = objects
             \/ img' = img \cup {now} /\ objects' = objects \cup {now}
      BY <2>1 DEF Capture, deleting, DeletionInv
    <3>2. now' \in 0..Horizon /\ now \in Instants /\ now < now'
      BY <3>1, FootageAssumption DEF Instants
    <3>3. \A t \in Instants : t < now => t < now' /\ t # now
      BY <3>1, FootageAssumption DEF Instants
    <3>4. BatchOK'
      <4>1. \A d \in Deleters : \A i \in DOMAIN batch[d] : batch[d][i] \in Instants
        BY DEF DeletionInv, BatchOK
      <4> QED
        BY <3>1, <3>3, <4>1 DEF DeletionInv, BatchOK
    <3>5. PassedAreGone'
      BY <3>1, <3>3 DEF DeletionInv, PassedAreGone
    <3>6. HalfIsHeld'
      <4>1. \A d \in Deleters : step[d] = "record" => Head(batch[d]) # now
        <5> SUFFICES ASSUME NEW d \in Deleters, step[d] = "record"
                     PROVE  Head(batch[d]) # now
          OBVIOUS
        <5>1. /\ batch[d] \in Seq(Instants) /\ batch[d] # <<>>
              /\ \A i \in DOMAIN batch[d] : batch[d][i] < now
          BY DEF DeletionInv, BatchOK
        <5>2. Head(batch[d]) \in Instants /\ Head(batch[d]) < now
          BY <5>1, HeadAndTail
        <5> QED
          BY <3>3, <5>2
      <4> QED
        BY <3>1, <4>1 DEF DeletionInv, HalfIsHeld
    <3>7. \A t \in img' : t \in Instants /\ t < now'
      <4>1. \A t \in img : t \in Instants /\ t < now
        BY DEF DeletionInv
      <4>2. \A t \in img' : t \in img \/ t = now
        BY <3>1
      <4> QED
        BY <3>2, <3>3, <4>1, <4>2
    <3> QED
      BY <3>2, <3>4, <3>5, <3>6, <3>7 DEF DeletionInv
  <2>2. CASE (\E u \in Updates : Patch(u)) \/ (\E r \in Requests : Ask(r)) \/ ListPage
             \/ ReviewPage \/ Latest \/ FetchBucket \/ FramePage \/ UNCHANGED vars
    <3>1. UNCHANGED <<now, img, objects, batch, step, gone>>
      BY <2>2 DEF Patch, Ask, ListPage, ReviewPage, Latest, FetchBucket, FramePage,
                  TakePage, Nothing, footage, deleting, vars
    <3> QED
      BY <3>1 DEF DeletionInv, BatchOK, PassedAreGone, HalfIsHeld
  <2>3. ASSUME NEW d \in Deleters, DeleteBatch(d)
        PROVE  DeletionInv'
    <3>1. PICK b \in Batches : /\ \A i \in DOMAIN b : b[i] < now
                               /\ batch' = [batch EXCEPT ![d] = b]
      BY <2>3 DEF DeleteBatch
    <3>2. /\ step[d] = "idle" /\ step' = [step EXCEPT ![d] = "check"]
          /\ UNCHANGED <<now, img, objects, gone>>
          /\ b \in Seq(Instants) /\ b # <<>>
      BY <2>3, FootageAssumption DEF DeleteBatch, Aside
    <3>3. BatchOK'
      BY <3>1, <3>2 DEF DeletionInv, BatchOK, Steps
    <3>4. HalfIsHeld'
      BY <3>1, <3>2 DEF DeletionInv, HalfIsHeld, BatchOK
    <3> QED
      BY <3>2, <3>3, <3>4 DEF DeletionInv, PassedAreGone
  <2> QED
    BY <2>1, <2>2, <2>3, CheckRecordKeeps, DeleteObjectKeeps, DeleteRecordKeeps DEF Next
<1> QED
  BY <1>1, <1>2, PTL DEF Spec

(* An answered DELETE leaves nothing of its batch, and a broken link in a  *)
(* listing is one that a DELETE is at or has answered 500 for, whatever    *)
(* the requests, their batches and the calls that fail.                    *)
THEOREM AnsweredIsDeleted == Spec => []DeletedIsGone
<1>1. DeletionInv => DeletedIsGone
  BY DEF DeletionInv, PassedAreGone, HalfIsHeld, DeletedIsGone
<1> QED
  BY <1>1, DeletionInductive, PTL

-----------------------------------------------------------------------------
(* Finite sets in order                                                    *)

Sorted(s, ascending) ==
    \A i, j \in DOMAIN s : i < j => IF ascending THEN s[i] < s[j] ELSE s[j] < s[i]

Holds(s, t) == \E i \in DOMAIN s : s[i] = t

(* Every member of a finite set has a rank of its own in it, and all ranks *)
(* are taken: Ascending lists the set, in order and each member once.      *)
LEMMA AscendingIsSorted ==
    ASSUME NEW S, S \subseteq Int, IsFiniteSet(S)
    PROVE  /\ Ascending(S) \in Seq(S) /\ Len(Ascending(S)) = Cardinality(S)
           /\ Cardinality(S) \in Nat
           /\ Sorted(Ascending(S), TRUE)
           /\ \A x \in S : Holds(Ascending(S), x)
<1> DEFINE Below(x) == {y \in S : y < x}
           n == Cardinality(S)
           rank == [x \in S |-> Cardinality(Below(x)) + 1]
<1>1. n \in Nat
  BY FS_CardinalityType
<1>2. ASSUME NEW x \in S
      PROVE  /\ IsFiniteSet(Below(x)) /\ Cardinality(Below(x)) \in Nat
             /\ Cardinality(Below(x)) < n
  <2>1. Below(x) \in SUBSET S /\ x \notin Below(x)
    OBVIOUS
  <2> HIDE DEF Below
  <2> QED
    BY <1>1, <2>1, FS_Subset, FS_CardinalityType
<1>3. ASSUME NEW x \in S, NEW y \in S, x < y
      PROVE  Cardinality(Below(x)) < Cardinality(Below(y))
  <2>1. Below(x) \in SUBSET Below(y) /\ x \in Below(y) /\ x \notin Below(x)
    <3>1. x \in Int /\ y \in Int /\ \A z \in S : z < x => z < y
      BY <1>3
    <3>2. x \in Below(y) /\ x \notin Below(x)
      BY <1>3, <3>1
    <3>3. Below(x) \subseteq Below(y)
      BY <3>1
    <3> QED
      BY <3>2, <3>3
  <2>2. IsFiniteSet(Below(y))
    BY <1>2
  <2>3. Cardinality(Below(x)) \in Nat /\ Cardinality(Below(y)) \in Nat
    BY <1>2
  <2> HIDE DEF Below
  <2> QED
    BY <2>1, <2>2, <2>3, FS_Subset
<1>4. rank \in [S -> 1..n]
  BY <1>1, <1>2
<1>5. \A x, y \in S : x < y => rank[x] < rank[y]
  BY <1>2, <1>3
<1>6. \A i \in 1..n : \E x \in S : rank[x] = i
  <2>1. rank \in Injection(S, 1..n)
    <3>1. \A x, y \in S : rank[x] = rank[y] => x = y
      <4> HIDE DEF rank, n
      <4> SUFFICES ASSUME NEW x \in S, NEW y \in S, rank[x] = rank[y], x # y
                   PROVE  FALSE
        OBVIOUS
      <4>1. x < y \/ y < x
        OBVIOUS
      <4>2. rank[x] \in Int /\ rank[y] \in Int
        BY <1>4
      <4> QED
        BY <1>5, <4>1, <4>2
    <3> HIDE DEF rank, n
    <3> QED
      BY <1>4, <3>1 DEF Injection, IsInjective
  <2>2. IsFiniteSet(1..n) /\ Cardinality(1..n) = n
    BY <1>1, FS_Interval
  <2>3. rank \in Surjection(S, 1..n)
    BY <2>1, <2>2, FS_Injection
  <2> HIDE DEF rank, n
  <2> QED
    BY <2>3 DEF Surjection
<1>7. \A i \in 1..n : Ascending(S)[i] \in S /\ rank[Ascending(S)[i]] = i
  <2> SUFFICES ASSUME NEW i \in 1..n
               PROVE  Ascending(S)[i] \in S /\ rank[Ascending(S)[i]] = i
    OBVIOUS
  <2>1. PICK x \in S : rank[x] = i
    BY <1>6
  <2>2. Cardinality(Below(x)) = i - 1
    BY <1>2, <2>1
  <2>3. Ascending(S)[i] = CHOOSE z \in S : Cardinality({y \in S : y < z}) = i - 1
    BY DEF Ascending
  <2>4. Ascending(S)[i] \in S /\ Cardinality(Below(Ascending(S)[i])) = i - 1
    BY <2>2, <2>3
  <2> QED
    BY <2>4, <1>1
<1>8. Ascending(S) = [i \in 1..n |-> Ascending(S)[i]]
  BY DEF Ascending
<1> HIDE DEF rank, n
<1>9. Ascending(S) \in Seq(S) /\ Len(Ascending(S)) = n /\ DOMAIN Ascending(S) = 1..n
  BY <1>1, <1>7, <1>8
<1>10. Sorted(Ascending(S), TRUE)
  <2> SUFFICES ASSUME NEW i \in 1..n, NEW j \in 1..n, i < j
               PROVE  Ascending(S)[i] < Ascending(S)[j]
    BY <1>9 DEF Sorted
  <2> DEFINE x == Ascending(S)[i]
             y == Ascending(S)[j]
  <2>1. x \in S /\ y \in S /\ rank[x] = i /\ rank[y] = j
    BY <1>7
  <2> HIDE DEF x, y
  <2>2. x < y \/ y < x \/ x = y
    BY <2>1
  <2>3. x < y
    BY <1>1, <1>5, <2>1, <2>2
  <2> QED
    BY <2>3 DEF x, y
<1>11. \A x \in S : Holds(Ascending(S), x)
  <2> SUFFICES ASSUME NEW x \in S PROVE Holds(Ascending(S), x)
    OBVIOUS
  <2> DEFINE y == Ascending(S)[rank[x]]
  <2>1. rank[x] \in 1..n /\ y \in S /\ rank[y] = rank[x]
    BY <1>4, <1>7
  <2> HIDE DEF y
  <2>2. rank[x] \in Int /\ (x < y \/ y < x \/ x = y)
    BY <1>1, <2>1
  <2>3. x = y
    BY <1>5, <2>1, <2>2
  <2> QED
    BY <1>9, <2>1, <2>3 DEF Holds, y
<1> QED
  BY <1>1, <1>9, <1>10, <1>11 DEF n

(* A finite set has a least and a greatest member: the ends of the list.   *)
LEMMA Extremes ==
    ASSUME NEW S, S \subseteq Int, IsFiniteSet(S), S # {}
    PROVE  /\ Ascending(S)[1] \in S /\ \A x \in S : Ascending(S)[1] <= x
           /\ Last(Ascending(S)) \in S /\ \A x \in S : x <= Last(Ascending(S))
           /\ Ascending(S) # <<>>
<1> DEFINE s == Ascending(S)
           n == Len(s)
<1>1. s \in Seq(S) /\ Sorted(s, TRUE) /\ \A x \in S : Holds(s, x)
  BY AscendingIsSorted
<1> HIDE DEF s
<1>3. n \in Nat /\ DOMAIN s = 1..n
  BY <1>1, LenProperties
<1> HIDE DEF n
<1>4. \A i \in 1..n : s[i] \in S /\ s[i] \in Int
  BY <1>1, ElementOfSeq DEF n
<1>5. 1 \in 1..n /\ n \in 1..n
  <2>1. PICK x \in S : Holds(s, x)
    BY <1>1
  <2>2. PICK i \in 1..n : s[i] = x
    BY <1>3, <2>1 DEF Holds
  <2> QED
    BY <1>3, <2>2
<1>6. ASSUME NEW x \in S PROVE s[1] <= x /\ x <= s[n]
  <2>1. PICK i \in 1..n : s[i] = x
    BY <1>1, <1>3 DEF Holds
  <2>2. i = 1 \/ s[1] < s[i]
    BY <1>1, <1>3, <1>5, <2>1 DEF Sorted
  <2>3. i = n \/ s[i] < s[n]
    BY <1>1, <1>3, <1>5, <2>1 DEF Sorted
  <2> QED
    BY <1>4, <1>5, <2>1, <2>2, <2>3
<1>7. s # <<>>
  BY <1>1, <1>3, <1>5, EmptySeq DEF n
<1> QED
  BY <1>4, <1>5, <1>6, <1>7 DEF Last, s, n

LEMMA PrefixIs ==
    ASSUME NEW S, NEW s \in Seq(S), NEW m \in 0..Len(s)
    PROVE  /\ SubSeq(s, 1, m) \in Seq(S)
           /\ Len(SubSeq(s, 1, m)) = m /\ DOMAIN SubSeq(s, 1, m) = 1..m
           /\ \A i \in 1..m : i \in DOMAIN s /\ SubSeq(s, 1, m)[i] = s[i]
<1>1. Len(s) \in Nat /\ DOMAIN s = 1..Len(s)
  BY LenProperties
<1>2. \A i \in 1..m : i \in DOMAIN s /\ s[i] \in S
  BY <1>1, ElementOfSeq
<1>3. /\ SubSeq(s, 1, m) \in Seq(S) /\ Len(SubSeq(s, 1, m)) = (IF 1 <= m THEN m - 1 + 1 ELSE 0)
      /\ \A i \in 1..(m - 1 + 1) : SubSeq(s, 1, m)[i] = s[1 + i - 1]
  BY <1>1, <1>2, SubSeqProperties
<1>4. Len(SubSeq(s, 1, m)) = m /\ DOMAIN SubSeq(s, 1, m) = 1..Len(SubSeq(s, 1, m))
  BY <1>1, <1>3, LenProperties
<1> QED
  BY <1>1, <1>2, <1>3, <1>4

LEMMA ReverseIs ==
    ASSUME NEW S, NEW s \in Seq(S)
    PROVE  /\ Reverse(s) \in Seq(S) /\ Len(Reverse(s)) = Len(s) /\ Len(s) \in Nat
           /\ \A i \in 1..Len(s) : Reverse(s)[i] = s[Len(s) - i + 1]
<1>1. Len(s) \in Nat /\ DOMAIN s = 1..Len(s)
  BY LenProperties
<1>2. \A i \in 1..Len(s) : s[Len(s) - i + 1] \in S
  BY <1>1, ElementOfSeq
<1> QED
  BY <1>1, <1>2 DEF Reverse

(* What is listed forwards in one order is listed backwards in the other.  *)
LEMMA ReverseIsSorted ==
    ASSUME NEW s \in Seq(Int), NEW ascending \in BOOLEAN, Sorted(s, ascending)
    PROVE  /\ Sorted(Reverse(s), ~ascending)
           /\ \A x : Holds(s, x) => Holds(Reverse(s), x)
<1> DEFINE n == Len(s)
           r == Reverse(s)
<1>1. /\ r \in Seq(Int) /\ Len(r) = n /\ n \in Nat
      /\ \A i \in 1..n : r[i] = s[n - i + 1]
      /\ DOMAIN r = 1..n /\ DOMAIN s = 1..n
  BY ReverseIs, LenProperties
<1> HIDE DEF n, r
<1>2. Sorted(r, ~ascending)
  <2> SUFFICES ASSUME NEW i \in 1..n, NEW j \in 1..n, i < j
               PROVE  IF ~ascending THEN r[i] < r[j] ELSE r[j] < r[i]
    BY <1>1 DEF Sorted
  <2> DEFINE k == n - i + 1
             l == n - j + 1
  <2>1. r[i] = s[k] /\ r[j] = s[l]
    BY <1>1
  <2>2. k \in 1..n /\ l \in 1..n /\ l < k
    BY <1>1
  <2> HIDE DEF k, l
  <2> QED
    BY <1>1, <2>1, <2>2 DEF Sorted
<1>3. ASSUME NEW x, Holds(s, x) PROVE Holds(r, x)
  <2>1. PICK i \in 1..n : s[i] = x
    BY <1>1, <1>3 DEF Holds
  <2> DEFINE k == n - i + 1
  <2>2. k \in 1..n /\ n - k + 1 = i
    BY <1>1
  <2> HIDE DEF k
  <2> QED
    BY <1>1, <2>1, <2>2 DEF Holds
<1> QED
  BY <1>2, <1>3 DEF r

LEMMA OrderedLists ==
    ASSUME NEW S, S \subseteq Int, IsFiniteSet(S), NEW ascending
    PROVE  /\ Ordered(S, ascending) \in Seq(S)
           /\ Len(Ordered(S, ascending)) = Cardinality(S)
           /\ \A x \in S : Holds(Ordered(S, ascending), x)
<1> DEFINE s == Ascending(S)
<1>1. /\ s \in Seq(S) /\ Len(s) = Cardinality(S) /\ Sorted(s, TRUE)
      /\ \A x \in S : Holds(s, x)
  BY AscendingIsSorted
<1> HIDE DEF s
<1>2. s \in Seq(Int)
  BY <1>1, SeqMonotonic
<1>3. /\ Reverse(s) \in Seq(S) /\ Len(Reverse(s)) = Len(s)
      /\ \A x \in S : Holds(Reverse(s), x)
  BY <1>1, <1>2, ReverseIs, ReverseIsSorted
<1> QED
  BY <1>1, <1>3 DEF Ordered, s

LEMMA OrderedIsSorted ==
    ASSUME NEW S, S \subseteq Int, IsFiniteSet(S), NEW ascending \in BOOLEAN
    PROVE  Sorted(Ordered(S, ascending), ascending)
<1> DEFINE s == Ascending(S)
<1>1. s \in Seq(Int) /\ Sorted(s, TRUE)
  BY AscendingIsSorted, SeqMonotonic
<1> HIDE DEF s
<1>2. Sorted(Reverse(s), FALSE)
  BY <1>1, ReverseIsSorted
<1> QED
  BY <1>1, <1>2 DEF Ordered, s

-----------------------------------------------------------------------------
(* Pages                                                                   *)

Beyond(t, key, ascending) == key = None \/ IF ascending THEN t > key ELSE t < key

Within(t, from, to) == from <= t /\ t <= to

(* A page is of the next of the records beyond the key, in order, with a   *)
(* key to go on from unless these are all.                                 *)
IsNextPage(result, records, from, to, after, ascending) ==
    /\ result.page \in Seq(records)
    /\ Sorted(result.page, ascending)
    /\ \A i \in DOMAIN result.page :
         Within(result.page[i], from, to) /\ Beyond(result.page[i], after, ascending)
    /\ result.next # None => result.page # <<>> /\ result.next = Last(result.page)
    /\ \A t \in records :
         Within(t, from, to) /\ Beyond(t, after, ascending) =>
            Holds(result.page, t) \/ (result.next # None /\ Beyond(t, result.next, ascending))

LEMMA PageIsNext ==
    ASSUME NEW records, records \subseteq Int, IsFiniteSet(records),
           NEW from \in Int, NEW to \in Int, NEW limit \in Nat \ {0},
           NEW after \in Int \cup {None}, NEW ascending \in BOOLEAN
    PROVE  IsNextPage(ListRecords(records, from, to, limit, after, ascending),
                      records, from, to, after, ascending)
<1> DEFINE result == ListRecords(records, from, to, limit, after, ascending)
<1> DEFINE W == {t \in records : from <= t /\ t <= to /\ Beyond(t, after, ascending)}
           all == Ordered(W, ascending)
           m == IF Len(all) < limit THEN Len(all) ELSE limit
           page == SubSeq(all, 1, m)
           next == IF Len(page) = limit THEN Last(page) ELSE None
<1>1. result.page = page /\ result.next = next
  BY DEF ListRecords, Beyond
<1> HIDE DEF result
<1>2. W \in SUBSET records /\ W \subseteq Int
  OBVIOUS
<1>3. \A t \in W : Within(t, from, to) /\ Beyond(t, after, ascending)
  BY DEF Within
<1>4. \A t \in records : Within(t, from, to) /\ Beyond(t, after, ascending) => t \in W
  BY DEF Within
<1> HIDE DEF W
<1>5. /\ all \in Seq(W) /\ Sorted(all, ascending) /\ \A t \in W : Holds(all, t)
      /\ Len(all) \in Nat /\ DOMAIN all = 1..Len(all)
  <2>1. IsFiniteSet(W)
    BY <1>2, FS_Subset
  <2>2. Ordered(W, ascending) \in Seq(W) /\ \A x \in W : Holds(Ordered(W, ascending), x)
    BY <1>2, <2>1, OrderedLists
  <2>3. Sorted(Ordered(W, ascending), ascending)
    BY <1>2, <2>1, OrderedIsSorted, Zenon
  <2>4. Len(all) \in Nat /\ DOMAIN all = 1..Len(all)
    BY <2>2, LenProperties
  <2> QED
    BY <2>2, <2>3, <2>4, Zenon
<1> HIDE DEF all
<1>6. m \in 0..Len(all) /\ m <= limit /\ (m # limit => m = Len(all)) /\ m \in Int
  BY <1>5
<1>7. /\ page \in Seq(W) /\ Len(page) = m /\ DOMAIN page = 1..m
      /\ \A i \in 1..m : i \in DOMAIN all /\ page[i] = all[i]
  BY <1>5, <1>6, PrefixIs
<1> HIDE DEF m, page
<1>8. page \in Seq(records)
  BY <1>2, <1>7, SeqMonotonic
<1>9. Sorted(page, ascending)
  BY <1>5, <1>7, Zenon DEF Sorted
<1>10. \A i \in DOMAIN page : page[i] \in W
  BY <1>7, ElementOfSeq
<1>11. next # None => m = limit /\ page # <<>> /\ next = page[m] /\ next = Last(page)
  BY <1>6, <1>7 DEF Last
<1>12. m = limit => next = page[m] /\ m \in 1..m /\ next # None
  <2>1. m = limit => next = page[m] /\ m \in 1..m
    BY <1>6, <1>7 DEF Last
  <2> QED
    BY <1>2, <1>7, <1>10, <2>1, FootageAssumption
<1>13. ASSUME NEW t \in W
       PROVE  Holds(page, t) \/ (next # None /\ Beyond(t, next, ascending))
  <2>1. PICK i \in 1..Len(all) : all[i] = t
    BY <1>5 DEF Holds
  <2>2. CASE i <= m
    BY <1>6, <1>7, <2>1, <2>2 DEF Holds
  <2>3. CASE m < i
    <3>1. m = limit /\ m \in 1..Len(all)
      BY <1>6, <2>1, <2>3
    <3>2. next = all[m] /\ next # None
      BY <1>7, <1>12, <3>1
    <3>3. IF ascending THEN all[m] < all[i] ELSE all[i] < all[m]
      BY <1>5, <2>3, <3>1 DEF Sorted
    <3>4. all[m] \in Int /\ all[i] \in Int
      BY <1>2, <1>5, <3>1, ElementOfSeq
    <3> QED
      BY <2>1, <3>2, <3>3, <3>4 DEF Beyond
  <2> QED
    BY <1>6, <2>2, <2>3
<1>14. IsNextPage(result, records, from, to, after, ascending)
  BY <1>1, <1>3, <1>4, <1>8, <1>9, <1>10, <1>11, <1>13 DEF IsNextPage
<1> QED
  BY <1>14 DEF result

-----------------------------------------------------------------------------
(* The reads                                                               *)

TablesOK ==
    /\ now \in 0..Horizon /\ img \cap ooh = {}
    /\ \A t \in img \cup ooh : t \in Instants /\ t < now

ReadTypes ==
    /\ open \in BOOLEAN /\ cursor \in Instants \cup {None} /\ stable \subseteq Instants
    /\ listed \in Seq(Instants) /\ chosen \in Seq(Instants)
    /\ \A i \in DOMAIN found : found[i] \in Instants \cup {None}
    /\ query # None => query \in Reads(Int) /\ query.from <= query.to
    /\ query = None => /\ ~open /\ cursor = None /\ listed = <<>>
                       /\ found = <<>> /\ chosen = <<>>

(* What was there when the read began and is still there is in the window, *)
(* and in the table as long as the read goes on.                           *)
StableStays ==
    query # None => \A t \in stable : /\ Within(t, query.from, query.to)
                                      /\ open => t \in Table(query.kind)

(* The pages so far are in order and in the window; the cursor is the last *)
(* of them, and what they lack lies beyond it.                             *)
Paged(ascending) ==
    /\ Sorted(listed, ascending)
    /\ InRange(listed)
    /\ cursor # None => listed # <<>> /\ cursor = Last(listed)
    /\ open /\ cursor = None => listed = <<>>
    /\ \A t \in stable : Holds(listed, t) \/ (open /\ Beyond(t, cursor, ascending))

PagesOK ==
    query # None /\ query.kind \in {"list", "review"} => Paged(query.ascending)

LatestOK ==
    Answered("latest") => \A t \in stable : listed # <<>> /\ t <= listed[1]

(* A bucket that was fetched is empty of what stayed, or starts with the   *)
(* record that was found.                                                  *)
Fetched(results) ==
    LET buckets == TimeBuckets(query.from, query.to, query.count)
        in(t, i) == Within(t, buckets[i].from, buckets[i].to)
    IN  /\ DOMAIN results \subseteq DOMAIN buckets
        /\ \A i \in DOMAIN results :
             /\ results[i] # None => in(results[i], i)
             /\ \A t \in stable : in(t, i) => results[i] # None /\ results[i] <= t

SampleOK ==
    query # None /\ query.kind = "sample" => IF open THEN Fetched(found) ELSE SampleIsFaithful

(* The pages of a timelapse, and what it collected of them.                *)
Collected ==
    /\ cursor = None /\ Sorted(listed, TRUE) /\ InRange(listed)
    /\ \A t \in stable : Holds(listed, t)

FramesOK ==
    query # None /\ query.kind = "frames" =>
        IF open THEN Paged(FALSE) ELSE Collected /\ FramesSpanFootage

ReadInv ==
    /\ TablesOK /\ ReadTypes /\ StableStays
    /\ PagesOK /\ LatestOK /\ SampleOK /\ FramesOK

LEMMA InstantsAreIntegers == Instants \subseteq Int /\ None \notin Instants
BY FootageAssumption DEF Instants

(* A query among a read's own table.                                       *)
LEMMA TablesAreFinite ==
    ASSUME TablesOK
    PROVE  /\ IsFiniteSet(img) /\ IsFiniteSet(ooh)
           /\ img \subseteq Instants /\ ooh \subseteq Instants
<1>1. IsFiniteSet(Instants)
  BY FootageAssumption, FS_Interval DEF Instants
<1>2. img \in SUBSET Instants /\ ooh \in SUBSET Instants
  BY DEF TablesOK
<1> QED
  BY <1>1, <1>2, FS_Subset

LEMMA ConcatIs ==
    ASSUME NEW S, NEW s \in Seq(S), NEW u \in Seq(S)
    PROVE  /\ s \o u \in Seq(S) /\ Len(s) \in Nat /\ Len(u) \in Nat
           /\ DOMAIN s = 1..Len(s) /\ DOMAIN u = 1..Len(u)
           /\ Len(s \o u) = Len(s) + Len(u) /\ DOMAIN (s \o u) = 1..(Len(s) + Len(u))
           /\ \A i \in 1..Len(s) : (s \o u)[i] = s[i] /\ i \in DOMAIN (s \o u)
           /\ \A i \in 1..Len(u) :
                (s \o u)[Len(s) + i] = u[i] /\ Len(s) + i \in DOMAIN (s \o u)
           /\ \A i \in DOMAIN (s \o u) :
                i \in 1..Len(s) \/ (i - Len(s) \in 1..Len(u) /\ i = Len(s) + (i - Len(s)))
<1> DEFINE n == Len(s)
           m == Len(u)
           all == s \o u
<1>1. n \in Nat /\ m \in Nat /\ DOMAIN s = 1..n /\ DOMAIN u = 1..m
  BY LenProperties
<1>2. /\ all \in Seq(S) /\ Len(all) = n + m
      /\ \A i \in 1..(n + m) : all[i] = IF i <= n THEN s[i] ELSE u[i - n]
  BY ConcatProperties
<1>3. DOMAIN all = 1..(n + m)
  BY <1>2, LenProperties
<1> HIDE DEF n, m, all
<1>4. ASSUME NEW i \in 1..n PROVE all[i] = s[i] /\ i \in DOMAIN all
  <2>1. i \in 1..(n + m) /\ i <= n
    BY <1>1
  <2> QED
    BY <1>2, <1>3, <2>1
<1>5. ASSUME NEW i \in 1..m PROVE all[n + i] = u[i] /\ n + i \in DOMAIN all
  <2>1. n + i \in 1..(n + m) /\ ~(n + i <= n) /\ (n + i) - n = i
    BY <1>1
  <2> QED
    BY <1>2, <1>3, <2>1
<1>6. \A i \in 1..(n + m) : i \in 1..n \/ (i - n \in 1..m /\ i = n + (i - n))
  BY <1>1
<1> QED
  BY <1>1, <1>2, <1>3, <1>4, <1>5, <1>6 DEF n, m, all

LEMMA ConcatHolds ==
    ASSUME NEW S, NEW s \in Seq(S), NEW u \in Seq(S), NEW t, Holds(s, t) \/ Holds(u, t)
    PROVE  Holds(s \o u, t)
<1>1. CASE Holds(s, t)
  <2>1. PICK i \in DOMAIN s : s[i] = t
    BY <1>1 DEF Holds
  <2> QED
    BY <2>1, ConcatIs DEF Holds
<1>2. CASE Holds(u, t)
  <2>1. PICK i \in DOMAIN u : u[i] = t
    BY <1>2 DEF Holds
  <2>2. Len(s) + i \in DOMAIN (s \o u) /\ (s \o u)[Len(s) + i] = t
    BY <2>1, ConcatIs
  <2> QED
    BY <2>2 DEF Holds
<1> QED
  BY <1>1, <1>2

LEMMA ConcatIsSorted ==
    ASSUME NEW s \in Seq(Int), NEW u \in Seq(Int), NEW ascending \in BOOLEAN,
           Sorted(s, ascending), Sorted(u, ascending),
           s # <<>> => \A i \in DOMAIN u :
                          IF ascending THEN Last(s) < u[i] ELSE u[i] < Last(s)
    PROVE  Sorted(s \o u, ascending)
<1> DEFINE n == Len(s)
           m == Len(u)
           all == s \o u
<1>1. /\ n \in Nat /\ m \in Nat /\ DOMAIN s = 1..n /\ DOMAIN u = 1..m
      /\ \A i \in 1..n : all[i] = s[i] /\ i \in DOMAIN all
      /\ \A i \in DOMAIN all : i \in 1..n \/ (i - n \in 1..m /\ i = n + (i - n))
      /\ \A i \in 1..m : all[n + i] = u[i]
  BY ConcatIs
<1>2. (\A i \in 1..n : s[i] \in Int) /\ \A i \in 1..m : u[i] \in Int
  BY <1>1, ElementOfSeq
<1>3. /\ \A i, j \in 1..n : i < j => IF ascending THEN s[i] < s[j] ELSE s[j] < s[i]
      /\ \A i, j \in 1..m : i < j => IF ascending THEN u[i] < u[j] ELSE u[j] < u[i]
  BY <1>1, Zenon DEF Sorted
<1>4. n # 0 => \A i \in 1..m : IF ascending THEN s[n] < u[i] ELSE u[i] < s[n]
  <2>1. s = <<>> => n = 0
    BY EmptySeq
  <2> QED
    BY <1>1, <2>1 DEF Last
<1> HIDE DEF n, m, all
<1>5. ASSUME NEW i \in DOMAIN all, NEW j \in DOMAIN all, i < j
      PROVE  IF ascending THEN all[i] < all[j] ELSE all[j] < all[i]
  <2>1. CASE i \in 1..n /\ j \in 1..n
    BY <1>1, <1>3, <1>5, <2>1
  <2>2. CASE i - n \in 1..m /\ j - n \in 1..m /\ i = n + (i - n) /\ j = n + (j - n)
    <3>1. i - n < j - n
      BY <1>1, <1>5, <2>2
    <3>2. all[i] = u[i - n] /\ all[j] = u[j - n]
      BY <1>1, <2>2
    <3> QED
      BY <1>3, <2>2, <3>1, <3>2
  <2>3. CASE i \in 1..n /\ j - n \in 1..m /\ j = n + (j - n)
    <3>1. n # 0 /\ n \in 1..n /\ (i = n \/ i < n)
      BY <1>1, <2>3
    <3>2. all[i] = s[i] /\ all[j] = u[j - n]
      BY <1>1, <2>3
    <3>3. IF ascending THEN s[n] < u[j - n] ELSE u[j - n] < s[n]
      BY <1>4, <2>3, <3>1
    <3>4. i = n \/ (IF ascending THEN s[i] < s[n] ELSE s[n] < s[i])
      BY <1>3, <2>3, <3>1
    <3>5. s[i] \in Int /\ s[n] \in Int /\ u[j - n] \in Int
      BY <1>2, <2>3, <3>1
    <3> QED
      BY <3>2, <3>3, <3>4, <3>5
  <2>4. CASE j \in 1..n /\ i - n \in 1..m /\ i = n + (i - n)
    BY <1>1, <1>5, <2>4
  <2> QED
    BY <1>1, <2>1, <2>2, <2>3, <2>4
<1> QED
  BY <1>5, Zenon DEF Sorted, all

(* The next page goes after those before it.                               *)
LEMMA PageExtends ==
    ASSUME NEW records, records \subseteq Instants, IsFiniteSet(records), ReadTypes,
           query # None, open, StableStays, stable \subseteq records,
           NEW ascending \in BOOLEAN, Paged(ascending), NEW limit \in Nat \ {0},
           NEW result,
           result = ListRecords(records, query.from, query.to, limit, cursor, ascending),
           NEW all, all = listed \o result.page
    PROVE  /\ all \in Seq(Instants)
           /\ result.next \in Instants \cup {None}
           /\ Sorted(all, ascending)
           /\ InRange(all)
           /\ result.next # None => all # <<>> /\ result.next = Last(all)
           /\ \A t \in stable : \/ Holds(all, t)
                                \/ result.next # None /\ Beyond(t, result.next, ascending)
<1> DEFINE page == result.page
           next == result.next
           from == query.from
           to == query.to
<1>1. from \in Int /\ to \in Int /\ cursor \in Int \cup {None} /\ records \subseteq Int
  BY InstantsAreIntegers DEF ReadTypes, Reads
<1>2. IsNextPage(ListRecords(records, from, to, limit, cursor, ascending),
                 records, from, to, cursor, ascending)
  <2> HIDE DEF from, to
  <2> QED
    BY <1>1, PageIsNext, Zenon
<1> HIDE DEF from, to
<1>3. IsNextPage(result, records, from, to, cursor, ascending)
  BY <1>2, Zenon DEF from, to
<1>4. /\ page \in Seq(records)
      /\ Sorted(page, ascending)
      /\ \A i \in DOMAIN page :
           Within(page[i], from, to) /\ Beyond(page[i], cursor, ascending)
      /\ next # None => page # <<>> /\ next = Last(page)
      /\ \A t \in records :
           Within(t, from, to) /\ Beyond(t, cursor, ascending) =>
              Holds(page, t) \/ (next # None /\ Beyond(t, next, ascending))
  BY <1>3, Zenon DEF IsNextPage
<1> HIDE DEF page, next
<1>5. /\ listed \in Seq(Instants) /\ page \in Seq(Instants)
      /\ listed \in Seq(Int) /\ page \in Seq(Int)
  BY <1>4, SeqMonotonic, InstantsAreIntegers DEF ReadTypes
<1>6. all = listed \o page
  BY DEF page
<1>7. Sorted(all, ascending)
  <2>1. ASSUME listed # <<>>, NEW i \in DOMAIN page
        PROVE  IF ascending THEN Last(listed) < page[i] ELSE page[i] < Last(listed)
    <3>1. cursor # None /\ cursor = Last(listed)
      BY <2>1 DEF Paged
    <3>2. Beyond(page[i], cursor, ascending)
      BY <1>4, Zenon
    <3>3. IF ascending THEN page[i] > cursor ELSE page[i] < cursor
      BY <3>1, <3>2, Zenon DEF Beyond
    <3>4. page[i] \in Int /\ cursor \in Int
      BY <1>1, <1>5, <3>1, LenProperties, ElementOfSeq
    <3> QED
      BY <3>1, <3>3, <3>4
  <2>2. Sorted(listed, ascending)
    BY Zenon DEF Paged
  <2>3. Sorted(listed \o page, ascending)
    BY <1>4, <1>5, <2>1, <2>2, ConcatIsSorted, Zenon
  <2> QED
    BY <1>6, <2>3, Zenon
<1>8. /\ all \in Seq(Instants)
      /\ InRange(all)
      /\ page # <<>> => all # <<>> /\ Last(all) = Last(page) /\ Last(page) \in Instants
  <2> DEFINE n == Len(listed)
             m == Len(page)
  <2>1. /\ all \in Seq(Instants) /\ n \in Nat /\ m \in Nat
        /\ DOMAIN listed = 1..n /\ DOMAIN page = 1..m /\ Len(all) = n + m
        /\ \A i \in 1..n : all[i] = listed[i]
        /\ \A i \in DOMAIN all : i \in 1..n \/ (i - n \in 1..m /\ i = n + (i - n))
        /\ \A i \in 1..m : all[n + i] = page[i]
    BY <1>5, <1>6, ConcatIs
  <2>2. page # <<>> => m # 0
    BY <1>5, EmptySeq
  <2>3. Len(<<>>) = 0
    BY EmptySeq
  <2>4. \A i \in 1..m : page[i] \in Instants
    BY <1>5, ElementOfSeq
  <2> HIDE DEF n, m
  <2>5. InRange(all)
    <3>1. \A i \in 1..n : Within(listed[i], from, to)
      BY <2>1 DEF Paged, InRange, Within, from, to
    <3>2. \A i \in 1..m : Within(page[i], from, to)
      BY <1>4, <2>1, Zenon
    <3>3. \A i \in DOMAIN all : Within(all[i], from, to)
      BY <2>1, <3>1, <3>2
    <3> QED
      BY <3>3 DEF InRange, Within, from, to
  <2>6. page # <<>> => all # <<>> /\ Last(all) = Last(page) /\ Last(page) \in Instants
    <3> SUFFICES ASSUME page # <<>>
                 PROVE  all # <<>> /\ Last(all) = Last(page) /\ Last(page) \in Instants
      OBVIOUS
    <3>1. m \in 1..m /\ n + m # 0
      BY <2>1, <2>2
    <3>2. all[n + m] = page[m] /\ page[m] \in Instants /\ Len(all) # 0
      BY <2>1, <2>4, <3>1
    <3> QED
      BY <2>1, <2>3, <3>2 DEF Last, m
  <2> QED
    BY <2>1, <2>5, <2>6
<1>9. ASSUME NEW t \in stable
      PROVE  Holds(all, t) \/ (next # None /\ Beyond(t, next, ascending))
  <2>1. t \in records /\ Within(t, from, to)
    BY DEF StableStays, from, to
  <2>2. Holds(listed, t) \/ Beyond(t, cursor, ascending)
    BY Zenon DEF Paged
  <2>3. Holds(listed, t) \/ Holds(page, t) \/ (next # None /\ Beyond(t, next, ascending))
    BY <1>4, <2>1, <2>2, Zenon
  <2>4. Holds(listed, t) \/ Holds(page, t) => Holds(all, t)
    BY <1>5, <1>6, ConcatHolds
  <2> QED
    BY <2>3, <2>4, Zenon
<1>10. next \in Instants \cup {None}
  BY <1>4, <1>8, Zenon
<1> QED
  BY <1>4, <1>7, <1>8, <1>9, <1>10, Zenon DEF next

(* The read takes a page and goes on, or is over with what it has.         *)
LEMMA PagedStep ==
    ASSUME ReadInv, query # None, open, NEW records, records = Table(query.kind),
           NEW ascending \in BOOLEAN, Paged(ascending), NEW limit \in Nat \ {0},
           NEW result,
           result = ListRecords(records, query.from, query.to, limit, cursor, ascending),
           listed' = listed \o result.page, cursor' = result.next,
           open' = (result.next # None), UNCHANGED <<query, stable>>
    PROVE  /\ listed' \in Seq(Instants) /\ cursor' \in Instants \cup {None}
           /\ Paged(ascending)'
<1> DEFINE all == listed \o result.page
           next == result.next
<1>1. records \subseteq Instants /\ IsFiniteSet(records) /\ stable \subseteq records
  BY TablesAreFinite DEF ReadInv, Table, StableStays
<1>2. /\ all \in Seq(Instants)
      /\ next \in Instants \cup {None}
      /\ Sorted(all, ascending)
      /\ InRange(all)
      /\ next # None => all # <<>> /\ next = Last(all)
      /\ \A t \in stable : Holds(all, t) \/ (next # None /\ Beyond(t, next, ascending))
  <2>1. ReadTypes /\ StableStays
    BY DEF ReadInv
  <2> QED
    BY <1>1, <2>1, PageExtends, Zenon
<1>3. listed' = all /\ cursor' = next /\ open' = (next # None)
  OBVIOUS
<1> HIDE DEF all, next
<1>4. Sorted(listed', ascending)
  BY <1>2, <1>3, Zenon
<1>5. \A i \in DOMAIN listed' : query'.from <= listed'[i] /\ listed'[i] <= query'.to
  BY <1>2, <1>3 DEF InRange
<1>6. /\ cursor' # None => listed' # <<>> /\ cursor' = Last(listed')
      /\ open' /\ cursor' = None => listed' = <<>>
  BY <1>2, <1>3, Zenon
<1>7. \A t \in stable' : Holds(listed', t) \/ (open' /\ Beyond(t, cursor', ascending))
  BY <1>2, <1>3, Zenon
<1>8. Paged(ascending)'
  <2>1. Sorted(listed, ascending)'
    BY <1>4, Zenon
  <2>2. InRange(listed)'
    BY <1>5, Zenon DEF InRange
  <2>3. (cursor # None => listed # <<>> /\ cursor = Last(listed))'
    BY <1>6, Zenon
  <2>4. (open /\ cursor = None => listed = <<>>)'
    BY <1>6, Zenon
  <2>5. (\A t \in stable : Holds(listed, t) \/ (open /\ Beyond(t, cursor, ascending)))'
    BY <1>7, Zenon
  <2> QED
    BY <2>1, <2>2, <2>3, <2>4, <2>5, Zenon DEF Paged
<1> QED
  BY <1>2, <1>3, <1>8, Zenon

LEMMA ListPageKeeps ==
    ASSUME ReadInv, ListPage \/ ReviewPage
    PROVE  ReadInv'
<1> DEFINE asc == query.ascending
           records == Table(query.kind)
           result == ListRecords(records, query.from, query.to, query.limit, cursor, asc)
<1>1. /\ open /\ query # None /\ query.kind \in {"list", "review"}
      /\ query.ascending \in BOOLEAN /\ query.limit \in Nat \ {0}
  BY DEF ListPage, ReviewPage, Reading, ReadInv, ReadTypes, Reads
<1>2. /\ listed' = listed \o result.page /\ cursor' = result.next
      /\ open' = (result.next # None)
      /\ UNCHANGED <<found, chosen, now, footage, query, stable>>
  <2>1. query.kind = "review" => query.ascending = FALSE
    BY <1>1 DEF ReadInv, ReadTypes, Reads
  <2>2. TakePage(query.ascending)
    BY <2>1 DEF ListPage, ReviewPage, Reading
  <2> QED
    BY <2>2 DEF TakePage, Page, Nothing
<1> HIDE DEF asc
<1>3. PICK a \in BOOLEAN : a = asc
  BY <1>1 DEF asc
<1>4. PICK r : r = records
  OBVIOUS
<1>5. PICK l \in Nat \ {0} : l = query.limit
  BY <1>1
<1>6. PICK res : res = result
  OBVIOUS
<1>7. Paged(a)
  BY <1>1, <1>3, Zenon DEF ReadInv, PagesOK, asc
<1>8. res = ListRecords(r, query.from, query.to, l, cursor, a)
  BY <1>3, <1>4, <1>5, <1>6, Zenon
<1>9. r = Table(query.kind)
  BY <1>4
<1>10. /\ listed' = listed \o res.page /\ cursor' = res.next /\ open' = (res.next # None)
       /\ UNCHANGED <<query, stable>>
  BY <1>2, <1>6
<1> HIDE DEF records, result
<1>11. /\ listed' \in Seq(Instants) /\ cursor' \in Instants \cup {None}
       /\ Paged(a)'
  BY <1>1, <1>7, <1>8, <1>9, <1>10, PagedStep, Zenon
<1>12. Paged(query.ascending)'
  BY <1>2, <1>3, <1>11, Zenon DEF asc
<1>13. PagesOK'
  BY <1>12, Zenon DEF PagesOK
<1>14. TablesOK' /\ ReadTypes'
  BY <1>2, <1>11, <1>1 DEF ReadInv, TablesOK, ReadTypes, footage
<1>15. StableStays'
  BY <1>1, <1>2 DEF ReadInv, StableStays, Table, footage
<1>16. LatestOK' /\ SampleOK' /\ FramesOK'
  BY <1>1, <1>2 DEF LatestOK, SampleOK, FramesOK, Answered
<1> QED
  BY <1>13, <1>14, <1>15, <1>16 DEF ReadInv

(* The newest record is the last in order.                                 *)
LEMMA LatestKeeps ==
    ASSUME ReadInv, Latest
    PROVE  ReadInv'
<1>1. /\ open /\ query.kind = "latest" /\ query # None
      /\ listed' = LatestRecord /\ open' = FALSE
      /\ UNCHANGED <<cursor, found, chosen, now, footage, query, stable>>
  BY DEF Latest, Reading, ReadInv, ReadTypes, Nothing
<1>2. img # {} => /\ Last(Ascending(img)) \in img
                  /\ \A t \in img : t <= Last(Ascending(img))
  <2>1. img \subseteq Int /\ IsFiniteSet(img)
    BY TablesAreFinite, InstantsAreIntegers DEF ReadInv
  <2> QED
    BY <2>1, Extremes
<1>3. LatestOK'
  <2>1. stable \subseteq img
    BY <1>1 DEF ReadInv, StableStays, Table
  <2>2. \A t \in stable : LatestRecord # <<>> /\ t <= LatestRecord[1]
    BY <1>2, <2>1 DEF LatestRecord
  <2> QED
    BY <1>1, <2>2 DEF LatestOK
<1>4. listed' \in Seq(Instants)
  <2>1. img \subseteq Instants
    BY TablesAreFinite DEF ReadInv
  <2> QED
    BY <1>1, <1>2, <2>1 DEF LatestRecord
<1>5. TablesOK' /\ ReadTypes'
  BY <1>1, <1>4 DEF ReadInv, TablesOK, ReadTypes, footage
<1>6. StableStays' /\ PagesOK' /\ SampleOK' /\ FramesOK'
  BY <1>1 DEF ReadInv, StableStays, PagesOK, SampleOK, FramesOK
<1> QED
  BY <1>3, <1>5, <1>6 DEF ReadInv

(* What others do meanwhile: the clock, the tables and the settings.       *)
LEMMA OthersKeep ==
    ASSUME ReadInv, UNCHANGED <<query, open, cursor, listed, found, chosen>>,
           TablesOK', stable' \subseteq stable, ~open => stable' = stable,
           open => \A t \in stable' : t \in Table(query.kind)'
    PROVE  ReadInv'
<1>1. ReadTypes'
  BY DEF ReadInv, ReadTypes
<1>2. StableStays'
  BY DEF ReadInv, StableStays, Table
<1>3. PagesOK'
  BY Zenon DEF ReadInv, PagesOK, Paged, InRange
<1>4. LatestOK'
  BY DEF ReadInv, LatestOK, Answered
<1>5. SampleOK'
  <2>1. CASE open
    BY <2>1 DEF ReadInv, SampleOK, Fetched
  <2>2. CASE ~open
    BY <2>2 DEF ReadInv, SampleOK, SampleIsFaithful, Answered, InOrder, InRange
  <2> QED
    BY <2>1, <2>2
<1>6. FramesOK'
  <2>1. CASE open
    BY <2>1, Zenon DEF ReadInv, FramesOK, Paged, InRange
  <2>2. CASE ~open
    BY <2>2, Zenon DEF ReadInv, FramesOK, Collected, FramesSpanFootage, Answered, InRange
  <2> QED
    BY <2>1, <2>2
<1> QED
  BY <1>1, <1>2, <1>3, <1>4, <1>5, <1>6 DEF ReadInv

LEMMA AskKeeps ==
    ASSUME ReadInv, NEW request \in Requests, Ask(request)
    PROVE  ReadInv'
<1>1. /\ query = None /\ From(request.from) <= To(request.to)
      /\ query' = [request EXCEPT !.from = From(@), !.to = To(@)]
      /\ open' = TRUE
      /\ stable' = {t \in Table(request.kind) : query'.from <= t /\ t <= query'.to}
      /\ UNCHANGED <<now, footage, cursor, listed, found, chosen>>
  BY DEF Ask
<1>2. /\ query' \in Reads(Int) /\ query' # None /\ query'.from <= query'.to
      /\ query'.kind = request.kind
  <2>1. request \in Reads(Bounds)
    BY FootageAssumption
  <2>2. request.from \in Bounds /\ request.to \in Bounds
    BY <2>1 DEF Reads
  <2>3. now \in Int /\ DaysBack \in Int /\ DayLength \in Int
    BY FootageAssumption, WeekAssumption DEF ReadInv, TablesOK
  <2>4. From(request.from) \in Int
    <3>1. CASE request.from = None
      BY <2>3, <3>1 DEF From
    <3>2. CASE request.from # None
      BY <2>2, <2>3, <3>2 DEF From, Bounds
    <3> QED
      BY <3>1, <3>2
  <2>5. To(request.to) \in Int
    <3>1. CASE request.to = None
      BY <2>3, <3>1 DEF To
    <3>2. CASE request.to # None
      BY <2>2, <2>3, <3>2 DEF To, Bounds
    <3> QED
      BY <3>1, <3>2
  <2>6. /\ query' \in Reads(Int) /\ query'.kind = request.kind
        /\ query'.from = From(request.from) /\ query'.to = To(request.to)
    BY <1>1, <2>1, <2>4, <2>5 DEF Reads
  <2>7. query' # None
    BY <2>6, FootageAssumption
  <2> QED
    BY <1>1, <2>6, <2>7
<1>3. query'.kind \in {"list", "review"} => query'.ascending \in BOOLEAN
  BY <1>2 DEF Reads
<1>4. /\ cursor = None /\ listed = <<>> /\ found = <<>> /\ cursor' = None /\ listed' = <<>>
      /\ found' = <<>> /\ DOMAIN listed' = {} /\ DOMAIN found' = {}
  <2>1. cursor = None /\ listed = <<>> /\ found = <<>> /\ DOMAIN <<>> = {}
    BY <1>1 DEF ReadInv, ReadTypes
  <2> QED
    BY <1>1, <2>1
<1>5. TablesOK'
  BY <1>1 DEF ReadInv, TablesOK, footage
<1>6. \A t \in stable' : /\ Within(t, query'.from, query'.to)
                         /\ t \in Table(query.kind)' /\ t \in Instants
  BY <1>1, <1>2, TablesAreFinite DEF ReadInv, Table, footage, Within
<1>7. ReadTypes'
  BY <1>1, <1>2, <1>6 DEF ReadInv, ReadTypes
<1>8. StableStays'
  BY <1>1, <1>6 DEF StableStays
<1>9. ASSUME NEW a PROVE Paged(a)'
  <2>1. \A t \in stable' : Beyond(t, cursor', a)
    BY <1>4 DEF Beyond
  <2>2. Sorted(listed', a)
    BY <1>4, Zenon DEF Sorted
  <2>3. InRange(listed)'
    BY <1>4, Zenon DEF InRange
  <2> QED
    BY <1>1, <1>4, <2>1, <2>2, <2>3, Zenon DEF Paged
<1>10. PagesOK' /\ FramesOK' /\ LatestOK'
  <2>1. open'
    BY <1>1
  <2> QED
    BY <1>9, <2>1, Zenon DEF PagesOK, FramesOK, LatestOK, Answered
<1>11. SampleOK'
  BY <1>1, <1>4 DEF SampleOK, Fetched
<1> QED
  BY <1>5, <1>7, <1>8, <1>10, <1>11 DEF ReadInv

-----------------------------------------------------------------------------
(* The buckets of a sample                                                 *)

(* What the i-th of count parts of a width begins at.                      *)
LEMMA PartsOf ==
    ASSUME NEW w \in Nat, NEW count \in Nat \ {0}
    PROVE  /\ \A i \in Nat : (w * i) \div count \in Int
           /\ (w * 0) \div count = 0 /\ (w * count) \div count = w
           /\ \A i, j \in Nat : i < j => (w * i) \div count <= (w * j) \div count
           /\ \A i \in Nat :
                count * ((w * (i + 1)) \div count - (w * i) \div count) < w + count
<1> DEFINE q(i) == (w * i) \div count
           r(i) == (w * i) % count
<1>1. ASSUME NEW i \in Nat
      PROVE  /\ w * i \in Nat /\ q(i) \in Int /\ r(i) \in 0..(count - 1)
             /\ count * q(i) \in Int
             /\ w * i = count * q(i) + r(i)
  <2>1. w * i \in Nat
    OBVIOUS
  <2>2. \A n \in Int : /\ n \div count \in Int /\ n % count \in 0..(count - 1)
                       /\ n = count * (n \div count) + (n % count)
    BY Division
  <2>3. /\ q(i) \in Int /\ r(i) \in 0..(count - 1)
        /\ w * i = count * q(i) + r(i)
    BY <2>1, <2>2
  <2> HIDE DEF q
  <2>4. count * q(i) \in Int
    BY <2>3
  <2> QED
    BY <2>1, <2>3, <2>4
<1> HIDE DEF q, r
<1>2. ASSUME NEW i \in Nat, NEW k \in Int, NEW s \in 0..(count - 1), w * i = count * k + s
      PROVE  q(i) = k
  <2>1. CASE q(i) < k
    <3>1. count * q(i) + count <= count * k
      BY <1>1, <2>1, Multiples
    <3> QED
      BY <1>1, <1>2, <3>1
  <2>2. CASE k < q(i)
    <3>1. count * k + count <= count * q(i)
      BY <1>1, <2>2, Multiples
    <3> QED
      BY <1>1, <1>2, <3>1
  <2>3. q(i) \in Int
    BY <1>1
  <2> QED
    BY <2>1, <2>2, <2>3
<1>3. q(0) = 0
  <2>1. w * 0 = count * 0 + 0 /\ 0 \in 0..(count - 1)
    OBVIOUS
  <2> QED
    BY <1>2, <2>1
<1>4. q(count) = w
  <2>1. w * count = count * w + 0 /\ 0 \in 0..(count - 1) /\ count \in Nat
    OBVIOUS
  <2> QED
    BY <1>2, <2>1
<1>5. ASSUME NEW i \in Nat, NEW j \in Nat, i < j PROVE q(i) <= q(j)
  <2>1. w * i <= w * j
    <3>1. CASE w = 0
      BY <3>1
    <3>2. CASE w # 0
      BY <1>5, <3>2, Multiples
    <3> QED
      BY <3>1, <3>2
  <2>2. CASE q(j) < q(i)
    <3>1. count * q(j) + count <= count * q(i)
      BY <1>1, <2>2, Multiples
    <3> DEFINE A == count * q(i)
               B == count * q(j)
               X == w * i
               Y == w * j
    <3>2. /\ X \in Int /\ A \in Int /\ r(i) \in 0..(count - 1) /\ X = A + r(i)
          /\ Y \in Int /\ B \in Int /\ r(j) \in 0..(count - 1) /\ Y = B + r(j)
      BY <1>1
    <3>3. B + count <= A /\ X <= Y
      BY <2>1, <3>1
    <3> HIDE DEF A, B, X, Y
    <3> QED
      BY <3>2, <3>3
  <2>3. q(i) \in Int /\ q(j) \in Int
    BY <1>1
  <2> QED
    BY <2>2, <2>3
<1>6. ASSUME NEW i \in Nat PROVE count * (q(i + 1) - q(i)) < w + count
  <2>1. i + 1 \in Nat /\ w * (i + 1) = w * i + w
    OBVIOUS
  <2>2. \A a, b \in Int : count * (a - b) = count * a - count * b
    OBVIOUS
  <2>3. count * (q(i + 1) - q(i)) = count * q(i + 1) - count * q(i)
    BY <1>1, <2>1, <2>2
  <2>4. /\ w * (i + 1) = count * q(i + 1) + r(i + 1) /\ r(i + 1) \in 0..(count - 1)
        /\ count * q(i + 1) \in Int
    BY <1>1, <2>1
  <2> QED
    BY <1>1, <2>1, <2>3, <2>4
<1> QED
  BY <1>1, <1>3, <1>4, <1>5, <1>6 DEF q

LEMMA MaxOfTwo ==
    ASSUME NEW a \in Int, NEW b \in Int
    PROVE  Max({a, b}) = IF a < b THEN b ELSE a
BY DEF Max

(* The buckets are at most as many as asked for, one after the other, they *)
(* cover the window, and each is an Nth of it wide, rounded up.            *)
AreBuckets(b, from, to, count) ==
    /\ \E n \in 1..count : DOMAIN b = 1..n
    /\ \A i \in DOMAIN b : /\ b[i].from \in Int /\ b[i].to \in Int
                           /\ from <= b[i].from /\ b[i].to <= to
    /\ \A i, j \in DOMAIN b : i < j => b[i].to <= b[j].from
    /\ \A t \in Int : Within(t, from, to) =>
         \E i \in DOMAIN b : Within(t, b[i].from, b[i].to)
    /\ \A i \in DOMAIN b : \A t, u \in Int :
         Within(t, b[i].from, b[i].to) /\ Within(u, b[i].from, b[i].to) =>
            (t - u) * count < to - from + count

LEMMA BucketsAre ==
    ASSUME NEW from \in Int, NEW to \in Int, from <= to, NEW count \in Nat \ {0}
    PROVE  AreBuckets(TimeBuckets(from, to, count), from, to, count)
<1> DEFINE b == TimeBuckets(from, to, count)
<1> SUFFICES AreBuckets(b, from, to, count)
  OBVIOUS
<1>1. CASE count <= 1 \/ to <= from
  <2>1. b = <<[from |-> from, to |-> to]>>
    BY <1>1 DEF TimeBuckets
  <2> HIDE DEF b
  <2>2. /\ DOMAIN b = 1..1 /\ b[1].from = from /\ b[1].to = to /\ 1 \in 1..count
    BY <2>1
  <2>3. ASSUME NEW t \in Int, NEW u \in Int, Within(t, from, to), Within(u, from, to)
        PROVE  (t - u) * count < to - from + count
    <3>1. CASE count = 1
      BY <2>3, <3>1 DEF Within
    <3>2. CASE to = from
      <4>1. t - u = 0 /\ 0 * count = 0
        BY <2>3, <3>2 DEF Within
      <4> QED
        BY <3>2, <4>1
    <3> QED
      BY <1>1, <3>1, <3>2
  <2>4. \A i \in DOMAIN b : i = 1
    BY <2>2
  <2>5. \A i, j \in DOMAIN b : i < j => b[i].to <= b[j].from
    BY <2>2, <2>4
  <2> QED
    BY <2>2, <2>3, <2>4, <2>5 DEF AreBuckets
<1>2. CASE ~(count <= 1 \/ to <= from)
  <2> DEFINE w == to - from
             start(i) == from + (w * i) \div count
             q(i) == (w * i) \div count
             end(i) == IF i = count THEN to
                       ELSE IF start(i) - 1 < start(i - 1) THEN start(i - 1) ELSE start(i) - 1
  <2>1. w \in Nat
    OBVIOUS
  <2>2. /\ \A i \in Nat : q(i) \in Int
        /\ q(0) = 0 /\ q(count) = w
        /\ \A i, j \in Nat : i < j => q(i) <= q(j)
        /\ \A i \in Nat : count * (q(i + 1) - q(i)) < w + count
    <3> HIDE DEF w
    <3> QED
      BY <2>1, PartsOf
  <2>3. /\ \A i \in Nat : start(i) \in Int
        /\ start(0) = from /\ start(count) = to
        /\ \A i, j \in Nat : i < j => start(i) <= start(j)
    <3> HIDE DEF q
    <3>1. \A i \in Nat : start(i) = from + q(i)
      BY DEF q
    <3> HIDE DEF start
    <3>2. 0 \in Nat /\ count \in Nat /\ w = to - from
      BY DEF w
    <3> HIDE DEF w
    <3>3. start(0) = from /\ start(count) = to /\ \A i \in Nat : start(i) \in Int
      BY <2>2, <3>1, <3>2
    <3>4. ASSUME NEW i \in Nat, NEW j \in Nat, i < j
          PROVE  start(i) <= start(j)
      <4>1. q(i) \in Int /\ q(j) \in Int /\ q(i) <= q(j)
        BY <2>2, <3>4
      <4>2. start(i) = from + q(i) /\ start(j) = from + q(j)
        BY <3>1
      <4> QED
        BY <4>1, <4>2
    <3> QED
      BY <3>3, <3>4
  <2>4. \A i \in Nat : count * (start(i + 1) - start(i)) < w + count
    <3> SUFFICES ASSUME NEW i \in Nat
                 PROVE  count * (start(i + 1) - start(i)) < w + count
      OBVIOUS
    <3>1. start(i) = from + q(i) /\ start(i + 1) = from + q(i + 1)
      OBVIOUS
    <3>2. q(i) \in Int /\ q(i + 1) \in Int
      BY <2>2
    <3> HIDE DEF start, q
    <3>3. start(i + 1) - start(i) = q(i + 1) - q(i)
      BY <3>1, <3>2
    <3> QED
      BY <2>2, <3>3
  <2>5. b = [i \in 1..count |-> [from |-> start(i - 1), to |-> end(i)]]
    <3>1. \A i \in 1..count : i # count =>
             Max({start(i) - 1, start(i - 1)}) = end(i)
      <4> SUFFICES ASSUME NEW i \in 1..count, i # count
                   PROVE  Max({start(i) - 1, start(i - 1)}) = end(i)
        OBVIOUS
      <4>1. start(i) - 1 \in Int /\ start(i - 1) \in Int
        <5>1. i \in Nat /\ i - 1 \in Nat
          OBVIOUS
        <5> HIDE DEF start
        <5> QED
          BY <2>3, <5>1
      <4> HIDE DEF start
      <4> QED
        BY <4>1, MaxOfTwo
    <3> QED
      BY <1>2, <3>1 DEF TimeBuckets
  <2> HIDE DEF start, q, w, b
  <2>6. DOMAIN b = 1..count /\ \A i \in 1..count : b[i].from = start(i - 1) /\ b[i].to = end(i)
    BY <2>5
  <2>7. ASSUME NEW i \in 1..count
        PROVE  /\ i - 1 \in Nat /\ i \in Nat /\ start(i - 1) \in Int /\ start(i) \in Int
               /\ from <= start(i - 1) /\ start(i) <= to /\ start(i - 1) <= start(i)
               /\ end(i) \in Int /\ end(i) <= to /\ end(i) <= start(i)
               /\ start(i) - 1 <= end(i)
               /\ (end(i) = start(i - 1) \/ end(i) = start(i) - 1 \/ (i = count /\ end(i) = to))
    <3>1. i - 1 \in Nat /\ i \in Nat /\ (i - 1 = 0 \/ 0 < i - 1) /\ (i = count \/ i < count)
          /\ i - 1 < i /\ 0 \in Nat /\ count \in Nat
      OBVIOUS
    <3>2. /\ start(i - 1) \in Int /\ start(i) \in Int
          /\ from <= start(i - 1) /\ start(i) <= to /\ start(i - 1) <= start(i)
      BY <2>3, <3>1
    <3> QED
      BY <2>3, <3>1, <3>2
  <2>8. ASSUME NEW i \in 1..count, NEW j \in 1..count, i < j
        PROVE  end(i) <= start(j - 1)
    <3>1. start(i) <= start(j - 1)
      <4>1. i = j - 1 \/ i < j - 1
        BY <2>8
      <4> QED
        BY <2>3, <2>7, <4>1
    <3> HIDE DEF end
    <3>2. end(i) <= start(i) /\ end(i) \in Int /\ start(i) \in Int /\ start(j - 1) \in Int
      BY <2>7
    <3> QED
      BY <3>1, <3>2
  <2>9. ASSUME NEW t \in Int, Within(t, from, to)
        PROVE  \E i \in 1..count : Within(t, start(i - 1), end(i))
    <3> DEFINE S == {i \in 1..count : start(i - 1) <= t}
               i == Last(Ascending(S))
    <3>1. S \subseteq Int /\ IsFiniteSet(S)
      <4>1. S \in SUBSET (1..count) /\ IsFiniteSet(1..count)
        BY FS_Interval
      <4> QED
        BY <4>1, FS_Subset
    <3>2. 1 \in S
      BY <2>3, <2>9 DEF Within
    <3>3. i \in S /\ \A k \in S : k <= i
      <4> HIDE DEF S
      <4> QED
        BY <3>1, <3>2, Extremes
    <3> HIDE DEF i
    <3>4. i \in 1..count /\ start(i - 1) <= t
      BY <3>3
    <3>5. t <= end(i)
      <4>1. CASE i = count
        BY <2>9, <4>1 DEF Within
      <4>2. CASE i # count
        <5>1. i + 1 \in 1..count /\ (i + 1) - 1 = i /\ ~(i + 1 <= i)
          BY <3>4, <4>2
        <5>2. ~(start(i) <= t)
          BY <3>3, <5>1
        <5>3. start(i) \in Int /\ start(i) - 1 <= end(i) /\ end(i) \in Int
          BY <2>7, <3>4
        <5> HIDE DEF end
        <5> QED
          BY <5>2, <5>3
      <4> QED
        BY <4>1, <4>2
    <3> QED
      BY <3>4, <3>5 DEF Within
  <2>10. ASSUME NEW i \in 1..count, NEW t \in Int, NEW u \in Int,
                Within(t, start(i - 1), end(i)), Within(u, start(i - 1), end(i))
         PROVE  (t - u) * count < w + count
    <3> DEFINE d == t - u
               e == start(i) - start(i - 1)
    <3>1. /\ start(i - 1) \in Int /\ start(i) \in Int /\ end(i) \in Int
          /\ end(i) = start(i - 1) \/ end(i) = start(i) - 1 \/ (i = count /\ end(i) = to)
          /\ start(i - 1) <= start(i)
      BY <2>7
    <3>2. d \in Int /\ e \in Int /\ d <= e
      <4>1. end(i) <= start(i)
        BY <2>7
      <4> HIDE DEF end
      <4> QED
        BY <2>10, <3>1, <4>1 DEF Within
    <3>3. count * e < w + count
      <4>1. i - 1 \in Nat /\ (i - 1) + 1 = i
        OBVIOUS
      <4> QED
        BY <2>4, <4>1
    <3> HIDE DEF d, e
    <3>4. count * d <= count * e
      <4>1. CASE d = e
        BY <3>2, <4>1
      <4>2. CASE d < e
        <5>1. count * d + count <= count * e
          BY <3>2, <4>2, Multiples
        <5> QED
          BY <3>2, <5>1
      <4> QED
        BY <3>2, <4>1, <4>2
    <3>5. d * count = count * d /\ d * count \in Int /\ count * e \in Int
      BY <3>2
    <3>6. d * count < w + count
      BY <2>1, <3>3, <3>4, <3>5
    <3> QED
      BY <3>6 DEF d
  <2>11. \A i \in 1..count : b[i].from = start(i - 1) /\ b[i].to = end(i)
    BY <2>6
  <2> HIDE DEF end
  <2>12. count \in 1..count /\ DOMAIN b = 1..count
    BY <2>6
  <2>13. \A i \in DOMAIN b : /\ b[i].from \in Int /\ b[i].to \in Int
                             /\ from <= b[i].from /\ b[i].to <= to
    BY <2>7, <2>11, <2>12
  <2>14. \A i, j \in DOMAIN b : i < j => b[i].to <= b[j].from
    BY <2>8, <2>11, <2>12
  <2>15. \A t \in Int : Within(t, from, to) => \E i \in DOMAIN b : Within(t, b[i].from, b[i].to)
    BY <2>9, <2>11, <2>12
  <2>16. \A i \in DOMAIN b : \A t, u \in Int :
            Within(t, b[i].from, b[i].to) /\ Within(u, b[i].from, b[i].to) =>
               (t - u) * count < to - from + count
    BY <2>10, <2>11, <2>12, Zenon DEF w
  <2> QED
    BY <2>12, <2>13, <2>14, <2>15, <2>16, Zenon DEF AreBuckets
<1> QED
  BY <1>1, <1>2

(* A sample, oldest first: no more than was asked for, and near enough to  *)
(* all that stayed.                                                        *)
Covers(s) ==
    \A t \in stable : \E i \in DOMAIN s :
        s[i] <= t /\ (t - s[i]) * query.count < query.to - query.from + query.count

LEMMA SelectedIs ==
    ASSUME ReadTypes, StableStays, query # None, query.kind = "sample",
           NEW results, Fetched(results),
           DOMAIN results = DOMAIN TimeBuckets(query.from, query.to, query.count),
           \A i \in DOMAIN results : results[i] \in Instants \cup {None},
           NEW s, s = Selected(results)
    PROVE  /\ s \in Seq(Instants) /\ Len(s) <= query.count
           /\ Sorted(s, TRUE) /\ InRange(s) /\ Covers(s)
<1> DEFINE b == TimeBuckets(query.from, query.to, query.count)
           from == query.from
           to == query.to
           count == query.count
           kept(i) == results[i] # None /\ \A j \in 1..(i - 1) : results[j] # results[i]
           K == {i \in DOMAIN results : kept(i)}
           a == Ascending(K)
<1>1. from \in Int /\ to \in Int /\ from <= to /\ count \in Nat \ {0}
  BY DEF ReadTypes, Reads
<1>2. AreBuckets(b, from, to, count)
  <2> HIDE DEF from, to, count
  <2>1. b = TimeBuckets(from, to, count)
    BY DEF from, to, count
  <2> HIDE DEF b
  <2> QED
    BY <1>1, <2>1, BucketsAre
<1>3. PICK n \in 1..count : DOMAIN b = 1..n
  BY <1>2 DEF AreBuckets
<1>4. /\ DOMAIN results = 1..n
      /\ \A i \in 1..n : results[i] # None =>
            results[i] \in Int /\ results[i] \in Instants
            /\ Within(results[i], b[i].from, b[i].to)
      /\ \A i \in 1..n : \A t \in stable : Within(t, b[i].from, b[i].to) =>
            results[i] # None /\ results[i] <= t
  BY <1>3, InstantsAreIntegers DEF Fetched
<1>5. /\ s = [k \in DOMAIN a |-> results[a[k]]]
  BY DEF Selected
<1> HIDE DEF b, from, to, count
<1>6. /\ a \in Seq(K) /\ DOMAIN a = 1..Len(a) /\ Len(a) \in Nat /\ Len(a) <= count
      /\ Sorted(a, TRUE) /\ \A i \in K : Holds(a, i)
      /\ \A k \in DOMAIN a : a[k] \in K
  <2>1. K \in SUBSET (1..n) /\ K \subseteq Int
    BY <1>4
  <2>2. IsFiniteSet(1..n) /\ Cardinality(1..n) = n
    BY <1>1, FS_Interval
  <2> HIDE DEF K
  <2>3. IsFiniteSet(K) /\ Cardinality(K) <= n
    BY <2>1, <2>2, FS_Subset
  <2>4. a \in Seq(K) /\ Len(a) = Cardinality(K) /\ Sorted(a, TRUE) /\ \A i \in K : Holds(a, i)
    BY <2>1, <2>3, AscendingIsSorted
  <2> HIDE DEF a
  <2>5. /\ DOMAIN a = 1..Len(a) /\ Len(a) \in Nat
        /\ \A k \in DOMAIN a : a[k] \in K
    BY <2>4, LenProperties, ElementOfSeq
  <2>6. Len(a) <= count
    <3>1. Len(a) \in Int /\ Len(a) <= n /\ n \in Int /\ n <= count /\ count \in Int
      BY <1>1, <1>3, <2>3, <2>4, <2>5
    <3> QED
      BY <3>1
  <2> QED
    BY <2>4, <2>5, <2>6
<1>7. \A i \in K : i \in 1..n /\ kept(i)
  BY <1>4
<1> HIDE DEF K, a
<1>8. /\ DOMAIN s = 1..Len(a) /\ \A k \in DOMAIN a : s[k] = results[a[k]]
      /\ s \in Seq(Instants) /\ Len(s) = Len(a)
  BY <1>4, <1>5, <1>6, <1>7
<1>9. Sorted(s, TRUE)
  <2> SUFFICES ASSUME NEW k \in DOMAIN a, NEW l \in DOMAIN a, k < l
               PROVE  s[k] < s[l]
    BY <1>6, <1>8 DEF Sorted
  <2> DEFINE i == a[k]
             j == a[l]
  <2>1. i \in K /\ j \in K /\ i < j
    BY <1>6 DEF Sorted
  <2> HIDE DEF i, j
  <2>2. i \in 1..n /\ j \in 1..n /\ kept(i) /\ kept(j) /\ i \in 1..(j - 1)
    BY <1>7, <2>1
  <2>3. results[i] # results[j]
    BY <2>2
  <2>4. results[i] \in Int /\ results[j] \in Int /\ results[i] <= results[j]
    <3>1. b[i].to \in Int /\ b[j].from \in Int /\ b[i].to <= b[j].from
      BY <1>2, <1>3, <2>1, <2>2 DEF AreBuckets
    <3>2. /\ results[i] \in Int /\ results[j] \in Int
          /\ results[i] <= b[i].to /\ b[j].from <= results[j]
      BY <1>4, <2>2 DEF Within
    <3> QED
      BY <3>1, <3>2
  <2>5. s[k] = results[i] /\ s[l] = results[j]
    BY <1>8 DEF i, j
  <2> QED
    BY <2>3, <2>4, <2>5
<1>10. InRange(s)
  <2> SUFFICES ASSUME NEW k \in DOMAIN a PROVE from <= s[k] /\ s[k] <= to
    BY <1>6, <1>8 DEF InRange, from, to
  <2> DEFINE i == a[k]
  <2>1. i \in 1..n /\ kept(i) /\ s[k] = results[i]
    BY <1>6, <1>7, <1>8
  <2> HIDE DEF i
  <2> QED
    BY <1>1, <1>2, <1>3, <1>4, <2>1 DEF Within, AreBuckets
<1>11. Covers(s)
  <2> SUFFICES ASSUME NEW t \in stable
               PROVE  \E k \in DOMAIN s : s[k] <= t /\ (t - s[k]) * count < to - from + count
    BY DEF Covers, from, to, count
  <2>1. t \in Int /\ Within(t, from, to)
    BY InstantsAreIntegers DEF ReadTypes, StableStays, from, to
  <2>2. PICK i \in 1..n : Within(t, b[i].from, b[i].to)
    BY <1>2, <1>3, <2>1 DEF AreBuckets
  <2> DEFINE x == results[i]
             S == {j \in 1..n : results[j] = x}
             j == Ascending(S)[1]
  <2>3. /\ x # None /\ x \in Int /\ x <= t /\ Within(x, b[i].from, b[i].to)
    BY <1>4, <2>2
  <2>4. j \in S /\ \A k \in S : j <= k
    <3>1. S \in SUBSET (1..n) /\ S \subseteq Int /\ i \in S /\ IsFiniteSet(1..n)
      BY <2>2, FS_Interval
    <3> HIDE DEF S
    <3> QED
      BY <3>1, FS_Subset, Extremes
  <2> HIDE DEF j
  <2>5. j \in 1..n /\ results[j] = x /\ \A k \in 1..(j - 1) : results[k] # x
    <3>1. j \in 1..n /\ results[j] = x
      BY <2>4
    <3>2. \A k \in 1..(j - 1) : k \in 1..n /\ ~(j <= k)
      BY <1>3, <3>1
    <3> QED
      BY <2>4, <3>1, <3>2
  <2>6. j \in K
    BY <1>4, <2>3, <2>5 DEF K
  <2>7. PICK k \in DOMAIN a : a[k] = j
    BY <1>6, <2>6 DEF Holds
  <2>8. k \in DOMAIN s /\ s[k] = x
    BY <1>6, <1>8, <2>5, <2>7
  <2>9. (t - x) * count < to - from + count
    BY <1>2, <1>3, <2>1, <2>2, <2>3 DEF AreBuckets
  <2> HIDE DEF x
  <2> QED
    BY <2>3, <2>8, <2>9
<1> QED
  BY <1>6, <1>8, <1>9, <1>10, <1>11 DEF count

(* The oldest record of a bucket is the first of a page of it.             *)
LEMMA OldestIs ==
    ASSUME img \subseteq Int, stable \subseteq img, NEW from \in Int, NEW to \in Int,
           NEW result, IsNextPage(result, img, from, to, None, TRUE),
           result.page # <<>>
    PROVE  /\ result.page[1] \in img /\ Within(result.page[1], from, to)
           /\ \A t \in stable : Within(t, from, to) => result.page[1] <= t
<1> DEFINE page == result.page
           n == Len(page)
<1>1. /\ page \in Seq(img) /\ Sorted(page, TRUE)
      /\ \A i \in DOMAIN page : Within(page[i], from, to)
      /\ result.next # None => page # <<>> /\ result.next = Last(page)
      /\ \A t \in img : Within(t, from, to) =>
            Holds(page, t) \/ (result.next # None /\ Beyond(t, result.next, TRUE))
  BY Zenon DEF IsNextPage, Beyond
<1>2. \A i, j \in DOMAIN page : i < j => page[i] < page[j]
  BY <1>1 DEF Sorted
<1>3. \A t \in img : Within(t, from, to) =>
            Holds(page, t) \/ (result.next # None /\ t > result.next)
  BY <1>1 DEF Beyond
<1>4. page # <<>>
  OBVIOUS
<1> HIDE DEF page
<1>5. n \in Nat /\ DOMAIN page = 1..n /\ (page = <<>> <=> n = 0)
  BY <1>1, LenProperties, EmptySeq
<1>6. \A i \in 1..n : page[i] \in img /\ page[i] \in Int
  BY <1>1, ElementOfSeq
<1>7. result.next # None => result.next = page[n]
  BY <1>1 DEF Last
<1> HIDE DEF n
<1>8. 1 \in 1..n /\ n \in 1..n
  BY <1>4, <1>5
<1>9. \A i \in 1..n : page[1] <= page[i]
  <2> SUFFICES ASSUME NEW i \in 1..n PROVE page[1] <= page[i]
    OBVIOUS
  <2>1. i = 1 \/ 1 < i
    OBVIOUS
  <2> QED
    BY <1>2, <1>5, <1>6, <1>8, <2>1
<1>10. ASSUME NEW t \in stable, Within(t, from, to) PROVE page[1] <= t
  <2>1. CASE Holds(page, t)
    BY <1>5, <1>9, <2>1 DEF Holds
  <2>2. CASE result.next # None /\ t > result.next
    <3>1. /\ page[1] \in Int /\ page[n] \in Int /\ t \in Int
          /\ page[1] <= page[n] /\ t > page[n]
      BY <1>6, <1>7, <1>8, <1>9, <2>2
    <3> QED
      BY <3>1
  <2> QED
    BY <1>3, <1>10, <2>1, <2>2
<1>11. page[1] \in img /\ Within(page[1], from, to)
  BY <1>1, <1>5, <1>6, <1>8
<1> QED
  BY <1>10, <1>11 DEF page

(* A bucket is empty of what stayed when its page is.                      *)
LEMMA HitIs ==
    ASSUME TablesOK, stable \subseteq img, NEW from \in Int, NEW to \in Int,
           NEW page, page = ListRecords(img, from, to, 1, None, TRUE).page,
           NEW hit, hit = IF page = <<>> THEN None ELSE page[1]
    PROVE  /\ hit \in Instants \cup {None}
           /\ hit # None => Within(hit, from, to)
           /\ \A t \in stable : Within(t, from, to) => hit # None /\ hit <= t
<1> DEFINE result == ListRecords(img, from, to, 1, None, TRUE)
<1>1. img \subseteq Int /\ IsFiniteSet(img) /\ img \subseteq Instants /\ None \notin Instants
  BY TablesAreFinite, InstantsAreIntegers
<1>2. 1 \in Nat \ {0} /\ None \in Int \cup {None} /\ TRUE \in BOOLEAN
  OBVIOUS
<1>3. IsNextPage(result, img, from, to, None, TRUE)
  BY <1>1, <1>2, PageIsNext, Zenon
<1>4. PICK res : res = result
  OBVIOUS
<1>5. IsNextPage(res, img, from, to, None, TRUE) /\ page = res.page
  BY <1>3, <1>4, Zenon
<1> HIDE DEF result
<1>6. CASE page = <<>>
  <2>1. hit = None
    BY <1>6
  <2>2. ASSUME NEW t \in stable, Within(t, from, to) PROVE FALSE
    <3>1. /\ res.next # None => page # <<>>
          /\ Holds(page, t) \/ res.next # None
      BY <1>5, <2>2, Zenon DEF IsNextPage, Beyond
    <3>2. Holds(<<>>, t)
      BY <1>6, <3>1, Zenon
    <3>3. DOMAIN <<>> = {}
      OBVIOUS
    <3> QED
      BY <3>2, <3>3, Zenon DEF Holds
  <2> QED
    BY <2>1, <2>2, Zenon
<1>7. CASE page # <<>>
  <2>1. /\ res.page[1] \in img /\ Within(res.page[1], from, to)
        /\ \A t \in stable : Within(t, from, to) => res.page[1] <= t
    <3>1. res.page # <<>>
      BY <1>5, <1>7, Zenon
    <3> QED
      BY <1>1, <1>5, <3>1, OldestIs, Zenon
  <2>2. hit = res.page[1]
    BY <1>5, <1>7, Zenon
  <2>3. hit \in Instants /\ hit # None
    BY <1>1, <2>1, <2>2, Zenon
  <2> QED
    BY <2>1, <2>2, <2>3, Zenon
<1> QED
  BY <1>6, <1>7

LEMMA FetchBucketKeeps ==
    ASSUME ReadInv, FetchBucket
    PROVE  ReadInv'
<1> DEFINE b == TimeBuckets(query.from, query.to, query.count)
<1>1. /\ open /\ query.kind = "sample" /\ query # None
      /\ UNCHANGED <<cursor, listed, now, footage, query, stable>>
      /\ query.from \in Int /\ query.to \in Int /\ query.from <= query.to
      /\ query.count \in Nat \ {0} /\ query.ascending \in BOOLEAN
  BY DEF FetchBucket, Reading, Nothing, ReadInv, ReadTypes, Reads
<1>2. PICK i \in DOMAIN b \ DOMAIN found :
         LET page == ListRecords(img, b[i].from, b[i].to, 1, None, TRUE).page
             all == [k \in DOMAIN found \cup {i} |->
                        IF k # i THEN found[k] ELSE IF page = <<>> THEN None ELSE page[1]]
         IN  IF DOMAIN all = DOMAIN b
             THEN /\ chosen' = IF query.ascending THEN Selected(all)
                               ELSE Reverse(Selected(all))
                  /\ found' = <<>> /\ open' = FALSE
             ELSE found' = all /\ UNCHANGED <<chosen, open>>
  BY DEF FetchBucket
<1> DEFINE page == ListRecords(img, b[i].from, b[i].to, 1, None, TRUE).page
           hit == IF page = <<>> THEN None ELSE page[1]
           all == [k \in DOMAIN found \cup {i} |-> IF k # i THEN found[k] ELSE hit]
<1>3. \/ /\ DOMAIN all = DOMAIN b /\ found' = <<>> /\ open' = FALSE
         /\ chosen' = IF query.ascending THEN Selected(all) ELSE Reverse(Selected(all))
      \/ found' = all /\ UNCHANGED <<chosen, open>>
  BY <1>2
<1>4. Fetched(found) /\ \A k \in DOMAIN found : found[k] \in Instants \cup {None}
  BY <1>1 DEF ReadInv, SampleOK, ReadTypes
<1>5. b[i].from \in Int /\ b[i].to \in Int
  <2>1. AreBuckets(b, query.from, query.to, query.count)
    BY <1>1, BucketsAre
  <2> HIDE DEF b
  <2> QED
    BY <1>2, <2>1 DEF AreBuckets
<1>6. stable \subseteq img
  BY <1>1 DEF ReadInv, StableStays, Table
<1>7. /\ hit \in Instants \cup {None}
      /\ hit # None => Within(hit, b[i].from, b[i].to)
      /\ \A t \in stable : Within(t, b[i].from, b[i].to) => hit # None /\ hit <= t
  <2> DEFINE f == b[i].from
             l == b[i].to
  <2>1. page = ListRecords(img, f, l, 1, None, TRUE).page /\ f \in Int /\ l \in Int
    BY <1>5
  <2>2. TablesOK
    BY DEF ReadInv
  <2> HIDE DEF f, l, page, b
  <2>3. /\ hit \in Instants \cup {None}
        /\ hit # None => Within(hit, f, l)
        /\ \A t \in stable : Within(t, f, l) => hit # None /\ hit <= t
    BY <1>6, <2>1, <2>2, HitIs
  <2> QED
    BY <2>3 DEF f, l
<1> HIDE DEF hit
<1>8. /\ Fetched(all) /\ DOMAIN all = DOMAIN found \cup {i}
      /\ \A k \in DOMAIN all : all[k] \in Instants \cup {None}
  <2>1. DOMAIN all = DOMAIN found \cup {i} /\ i \in DOMAIN b
    BY <1>2
  <2>2. /\ \A k \in DOMAIN all : all[k] \in Instants \cup {None}
        /\ \A k \in DOMAIN all : k # i => k \in DOMAIN found /\ all[k] = found[k]
        /\ all[i] = hit
    BY <1>4, <1>7
  <2> HIDE DEF all
  <2>3. DOMAIN all \subseteq DOMAIN b
    BY <1>4, <2>1 DEF Fetched
  <2>4. ASSUME NEW k \in DOMAIN all
        PROVE  /\ all[k] # None => Within(all[k], b[k].from, b[k].to)
               /\ \A t \in stable : Within(t, b[k].from, b[k].to) => all[k] # None /\ all[k] <= t
    <3>1. CASE k = i
      BY <1>7, <2>2, <3>1
    <3>2. CASE k # i
      BY <1>4, <2>2, <3>2 DEF Fetched
    <3> QED
      BY <3>1, <3>2
  <2> QED
    BY <2>1, <2>2, <2>3, <2>4 DEF Fetched
<1> HIDE DEF all
<1>9. TablesOK' /\ StableStays' /\ PagesOK' /\ FramesOK' /\ LatestOK'
  BY <1>1, <1>3 DEF ReadInv, TablesOK, StableStays, Table, PagesOK, FramesOK, LatestOK,
                    Answered, footage
<1>10. CASE found' = all /\ UNCHANGED <<chosen, open>>
  <2>1. ReadTypes'
    BY <1>1, <1>8, <1>10 DEF ReadInv, ReadTypes
  <2>2. SampleOK'
    BY <1>1, <1>8, <1>10 DEF SampleOK, Fetched
  <2> QED
    BY <1>9, <2>1, <2>2 DEF ReadInv
<1>11. CASE /\ DOMAIN all = DOMAIN b /\ found' = <<>> /\ open' = FALSE
            /\ chosen' = IF query.ascending THEN Selected(all) ELSE Reverse(Selected(all))
  <2> DEFINE s == Selected(all)
  <2>1. /\ s \in Seq(Instants) /\ Len(s) <= query.count
        /\ Sorted(s, TRUE) /\ InRange(s) /\ Covers(s)
    <3>1. ReadTypes /\ StableStays
      BY DEF ReadInv
    <3> QED
      BY <1>1, <1>8, <1>11, <3>1, SelectedIs
  <2> HIDE DEF s
  <2>2. s \in Seq(Int)
    BY <2>1, SeqMonotonic, InstantsAreIntegers
  <2> DEFINE r == Reverse(s)
  <2>3. /\ r \in Seq(Instants) /\ Len(r) = Len(s) /\ Len(s) \in Nat
        /\ DOMAIN r = 1..Len(s) /\ DOMAIN s = 1..Len(s)
        /\ \A k \in 1..Len(s) : r[k] = s[Len(s) - k + 1]
    BY <2>1, ReverseIs, LenProperties
  <2>4. Sorted(r, FALSE) /\ \A x : Holds(s, x) => Holds(r, x)
    BY <2>1, <2>2, ReverseIsSorted
  <2>5. Sorted(Reverse(r), TRUE)
    <3>1. r \in Seq(Int)
      BY <2>3, SeqMonotonic, InstantsAreIntegers
    <3> HIDE DEF r
    <3>2. Sorted(Reverse(r), ~FALSE)
      BY <2>4, <3>1, ReverseIsSorted, Zenon
    <3> QED
      BY <3>2 DEF Sorted
  <2> HIDE DEF r
  <2>6. InRange(r)
    <3>1. \A k \in 1..Len(s) : Len(s) - k + 1 \in 1..Len(s)
      BY <2>3
    <3> QED
      BY <2>1, <2>3, <3>1 DEF InRange
  <2>7. Covers(r)
    BY <2>1, <2>4 DEF Covers, Holds
  <2>8. /\ chosen' \in Seq(Instants) /\ Len(chosen') <= query.count
        /\ InOrder(chosen') /\ InRange(chosen') /\ Covers(chosen')
    <3>1. CASE query.ascending
      <4>1. chosen' = s
        BY <1>11, <3>1 DEF s
      <4>2. InOrder(s)
        BY <2>1, <3>1 DEF InOrder, StrictlyAscending, Sorted
      <4> QED
        BY <2>1, <4>1, <4>2
    <3>2. CASE ~query.ascending
      <4>1. chosen' = r
        BY <1>11, <3>2 DEF s, r
      <4>2. InOrder(r)
        BY <2>5, <3>2 DEF InOrder, StrictlyAscending, Sorted
      <4> QED
        BY <2>1, <2>3, <2>6, <2>7, <4>1, <4>2
    <3> QED
      BY <3>1, <3>2
  <2>9. SampleOK'
    BY <1>1, <1>11, <2>8 DEF SampleOK, SampleIsFaithful, Answered, InOrder, InRange, Covers
  <2>10. ReadTypes'
    <3>1. DOMAIN <<>> = {}
      OBVIOUS
    <3> QED
      BY <1>1, <1>11, <2>8, <3>1 DEF ReadInv, ReadTypes
  <2> QED
    BY <1>9, <2>9, <2>10 DEF ReadInv
<1> QED
  BY <1>3, <1>10, <1>11

-----------------------------------------------------------------------------
(* The frames of a timelapse                                               *)

(* Two picks in a row are nearest to points a step of N / D apart: less    *)
(* than a step lies between them, as both cannot be half a place off.      *)
LEMMA PicksAreClose ==
    ASSUME NEW D \in Nat \ {0}, NEW N \in Nat, NEW i \in Nat, NEW u \in Int, NEW v \in Int,
           2 * Distance(u * D, i * N) <= D, 2 * Distance(v * D, (i + 1) * N) <= D
    PROVE  (v - u - 1) * D < N
<1> DEFINE U == u * D
           V == v * D
           I == i * N
           m == v - u - 1
           M == m * D
<1>1. /\ U \in Int /\ V \in Int /\ I \in Int /\ m \in Int /\ M = V - U - D /\ M \in Int
      /\ (i + 1) * N = I + N
  OBVIOUS
<1>2. 2 * Distance(U, I) <= D /\ 2 * Distance(V, I + N) <= D
  BY <1>1
<1>3. ASSUME M = N PROVE FALSE
  <2> DEFINE w == u - i * m
             W == w * D
  <2>1. i * N = (i * m) * D /\ (u - i * m) * D = u * D - (i * m) * D /\ i * m \in Int
    BY <1>1, <1>3
  <2>2. W = U - I /\ w \in Int
    BY <1>1, <2>1
  <2>3. (w >= 0 => W >= 0) /\ (w <= -1 => W <= -D)
    BY <2>2
  <2> HIDE DEF w, W, U, V, I, M, m
  <2>4. 2 * W = -D
    BY <1>1, <1>2, <1>3, <2>2 DEF Distance
  <2> QED
    BY <2>2, <2>3, <2>4
<1> HIDE DEF U, V, I, M
<1> SUFFICES M < N
  BY DEF M
<1>4. M <= N
  BY <1>1, <1>2 DEF Distance
<1> QED
  BY <1>1, <1>3, <1>4

(* The frames are of the items, in order, from the first to the last, and  *)
(* not far apart.                                                          *)
AreSpaced(frames, items, budget) ==
    /\ frames \in Seq(Instants) /\ Len(frames) <= budget /\ Sorted(frames, TRUE)
    /\ \A k \in DOMAIN frames : Holds(items, frames[k])
    /\ items # <<>> => /\ frames # <<>> /\ frames[1] = items[1]
                       /\ budget > 1 => Last(frames) = Last(items)
    /\ \A k \in 1..(Len(frames) - 1) : \E p, q \in DOMAIN items :
         /\ p < q /\ frames[k] = items[p] /\ frames[k + 1] = items[q]
         /\ (q - p - 1) * (budget - 1) < Len(items) - 1

LEMMA EndsArePicked ==
    ASSUME NEW D \in Nat \ {0}, NEW N \in Nat, NEW u \in 0..N
    PROVE  /\ 2 * Distance(u * D, 0 * N) <= D => u = 0
           /\ 2 * Distance(u * D, D * N) <= D => u = N
<1> DEFINE U == u * D
           E == D * N
<1>1. 0 * N = 0 /\ U \in Int /\ E \in Int
  OBVIOUS
<1>2. u = 0 \/ U >= D
  <2>1. CASE u > 0
    <3> DEFINE g == u - 1
               G == g * D
    <3>1. g \in Nat
      BY <2>1
    <3>2. G >= 0 /\ U = G + D /\ G \in Int
      BY <3>1
    <3> QED
      BY <3>2
  <2> QED
    BY <2>1
<1>3. u = N \/ U <= E - D
  <2>1. CASE u < N
    <3> DEFINE g == N - u - 1
               G == g * D
    <3>1. g \in Nat
      BY <2>1
    <3> HIDE DEF g
    <3>2. G >= 0 /\ G \in Int
      BY <3>1
    <3>3. G = E - U - D
      BY DEF g
    <3> HIDE DEF G, E, U
    <3> QED
      BY <1>1, <3>2, <3>3
  <2> QED
    BY <2>1
<1> HIDE DEF U, E
<1>4. 2 * Distance(U, 0) <= D => U < D
  BY <1>1 DEF Distance
<1>5. 2 * Distance(U, E) <= D => U > E - D
  BY <1>1 DEF Distance
<1>6. /\ 2 * Distance(U, 0) <= D => u = 0
      /\ 2 * Distance(U, E) <= D => u = N
  BY <1>1, <1>2, <1>3, <1>4, <1>5
<1> QED
  BY <1>1, <1>6 DEF U, E

(* The indices nearest to D + 1 points evenly spaced over N + 1 items.     *)
Nearest(pick, D, N) ==
    /\ pick \in [0..D -> 1..(N + 1)]
    /\ \A i \in 0..D : 2 * Distance((pick[i] - 1) * D, i * N) <= D

(* They are taken in order and each once.                                  *)
LEMMA PicksAreSpaced ==
    ASSUME NEW D \in Nat \ {0}, NEW N \in Nat, NEW pick, Nearest(pick, D, N),
           NEW r, r = Ascending({pick[i] : i \in DOMAIN pick})
    PROVE  /\ r \in Seq(1..(N + 1)) /\ Len(r) \in Nat /\ DOMAIN r = 1..Len(r)
           /\ Len(r) <= D + 1 /\ Sorted(r, TRUE) /\ 1 \in DOMAIN r /\ r[1] = 1
           /\ Len(r) \in DOMAIN r /\ r[Len(r)] = N + 1
           /\ \A k \in 1..(Len(r) - 1) : (r[k + 1] - r[k] - 1) * D < N
<1> DEFINE P == {pick[i] : i \in DOMAIN pick}
<1>1. \A i \in 0..D : pick[i] \in 1..(N + 1) /\ pick[i] \in Int /\ pick[i] - 1 \in 0..N
  BY DEF Nearest
<1>2. IsFiniteSet(0..D) /\ Cardinality(0..D) = D + 1
  <2>1. 0 \in Int /\ D \in Int /\ ~(0 > D) /\ D - 0 + 1 = D + 1
    OBVIOUS
  <2> QED
    BY <2>1, FS_Interval
<1>3. pick \in Surjection(0..D, P)
  BY DEF Surjection, Nearest
<1>4. IsFiniteSet(P) /\ Cardinality(P) <= D + 1
  BY <1>2, <1>3, FS_Surjection
<1>5. P \in SUBSET (1..(N + 1)) /\ P \subseteq Int
  <2>1. DOMAIN pick = 0..D
    BY DEF Nearest
  <2> QED
    BY <1>1, <2>1
<1>6. 0 \in 0..D /\ D \in 0..D /\ pick[0] = 1 /\ pick[D] = N + 1
  <2>1. 0 \in 0..D /\ D \in 0..D
    OBVIOUS
  <2>2. /\ 2 * Distance((pick[0] - 1) * D, 0 * N) <= D
        /\ 2 * Distance((pick[D] - 1) * D, D * N) <= D
    BY <2>1, Zenon DEF Nearest
  <2>3. pick[0] - 1 = 0 /\ pick[D] - 1 = N
    BY <1>1, <2>1, <2>2, EndsArePicked
  <2> QED
    BY <1>1, <2>1, <2>3
<1>7. \A i \in 0..D : pick[i] \in P
  BY DEF Nearest
<1> HIDE DEF P
<1>8. 1 \in P /\ N + 1 \in P
  BY <1>6, <1>7
<1>9. /\ r \in Seq(P) /\ Len(r) = Cardinality(P) /\ Sorted(r, TRUE) /\ \A x \in P : Holds(r, x)
      /\ r[1] \in P /\ \A x \in P : r[1] <= x
      /\ Last(r) \in P /\ \A x \in P : x <= Last(r)
  <2>1. r = Ascending(P)
    BY DEF P
  <2>2. /\ Ascending(P) \in Seq(P) /\ Len(Ascending(P)) = Cardinality(P)
        /\ Sorted(Ascending(P), TRUE) /\ \A x \in P : Holds(Ascending(P), x)
    BY <1>4, <1>5, AscendingIsSorted
  <2>3. /\ Ascending(P)[1] \in P /\ \A x \in P : Ascending(P)[1] <= x
        /\ Last(Ascending(P)) \in P /\ \A x \in P : x <= Last(Ascending(P))
    <3>1. P # {}
      BY <1>8
    <3> QED
      BY <1>4, <1>5, <3>1, Extremes
  <2> QED
    BY <2>1, <2>2, <2>3
<1>10. Len(r) \in Nat /\ DOMAIN r = 1..Len(r) /\ Len(r) <= D + 1
  BY <1>4, <1>9, LenProperties
<1>11. \A k \in DOMAIN r : r[k] \in P /\ r[k] \in 1..(N + 1) /\ r[k] \in Int
  BY <1>5, <1>9, <1>10, ElementOfSeq
<1>12. r[1] = 1 /\ Last(r) = N + 1
  <2>1. r[1] \in 1..(N + 1) /\ Last(r) \in 1..(N + 1) /\ r[1] <= 1 /\ N + 1 <= Last(r)
    BY <1>5, <1>8, <1>9
  <2> QED
    BY <2>1
<1>13. PICK k1 \in DOMAIN r : r[k1] = 1
  BY <1>8, <1>9 DEF Holds
<1>14. 1 \in DOMAIN r /\ Len(r) \in DOMAIN r /\ r[Len(r)] = N + 1
  BY <1>10, <1>12, <1>13 DEF Last
<1>15. r \in Seq(1..(N + 1))
  <2> DEFINE Q == 1..(N + 1)
  <2>1. P \subseteq Q
    BY <1>5
  <2> HIDE DEF Q
  <2>2. r \in Seq(Q)
    BY <1>9, <2>1, SeqMonotonic
  <2> QED
    BY <2>2 DEF Q
<1>16. ASSUME NEW k \in 1..(Len(r) - 1)
       PROVE  (r[k + 1] - r[k] - 1) * D < N
  <2> DEFINE a == r[k]
             l == k + 1
             c == r[l]
  <2>1. k \in DOMAIN r /\ l \in DOMAIN r /\ k < l /\ k \in Int /\ l \in Int
    BY <1>10
  <2>2. a \in 1..(N + 1) /\ c \in 1..(N + 1) /\ a < c
    BY <1>9, <1>11, <2>1 DEF Sorted
  <2>3. ASSUME NEW x \in P, x > a PROVE x >= c
    <3>1. PICK j \in DOMAIN r : r[j] = x
      BY <1>9 DEF Holds
    <3>2. j \in Int /\ x \in Int
      BY <1>5, <1>10, <3>1
    <3>3. j < k => x < a
      BY <1>9, <2>1, <3>1 DEF Sorted
    <3>4. j # k
      BY <2>2, <2>3, <3>1
    <3>5. l < j => c < x
      BY <1>9, <2>1, <3>1 DEF Sorted
    <3>6. j < k \/ j = l \/ l < j
      <4>1. j < k \/ j = k + 1 \/ k + 1 < j
        BY <2>1, <3>2, <3>4
      <4> QED
        BY <4>1
    <3>7. j = l => x = c
      BY <3>1
    <3>8. a \in Int /\ c \in Int /\ a < c
      BY <1>11, <2>1, <2>2
    <3> HIDE DEF a, c, l
    <3> QED
      BY <2>3, <3>2, <3>3, <3>5, <3>6, <3>7, <3>8
  <2>4. a \in Int /\ c \in Int /\ 1 <= a /\ c <= N + 1
    BY <2>2
  <2> HIDE DEF a, c
  <2> DEFINE J == {j \in 0..D : pick[j] <= a}
             i == Last(Ascending(J))
  <2>5. i \in J /\ \A j \in J : j <= i
    <3>1. J \in SUBSET (0..D) /\ J \subseteq Int
      OBVIOUS
    <3>2. 0 \in J
      BY <1>6, <2>4
    <3> HIDE DEF J
    <3>3. IsFiniteSet(J) /\ J # {}
      BY <1>2, <3>1, <3>2, FS_Subset
    <3> QED
      BY <3>1, <3>3, Extremes
  <2>6. i \in 0..D /\ pick[i] <= a
    BY <2>5
  <2> HIDE DEF i
  <2>7. i # D
    BY <1>6, <2>2, <2>4, <2>6
  <2>8. i + 1 \in 0..D /\ ~(i + 1 <= i) /\ i \in Nat
    BY <2>6, <2>7
  <2>9. pick[i + 1] > a
    <3>1. ~(pick[i + 1] <= a)
      BY <2>5, <2>8
    <3>2. pick[i + 1] \in Int
      BY <1>1, <2>8
    <3> QED
      BY <2>4, <3>1, <3>2
  <2>10. pick[i + 1] >= c
    BY <1>7, <2>3, <2>8, <2>9
  <2> DEFINE x == pick[i]
             y == pick[i + 1]
             u == x - 1
             v == y - 1
             g == v - u - 1
             h == c - a - 1
             e == g - h
             G == g * D
             H == h * D
             L == e * D
  <2>11. /\ u \in Int /\ v \in Int
    BY <1>1, <2>6, <2>8
  <2>12. /\ 2 * Distance(u * D, i * N) <= D /\ 2 * Distance(v * D, (i + 1) * N) <= D
    BY <1>1, <2>6, <2>8, Zenon DEF Nearest
  <2>13. g \in Int /\ h \in Int /\ e \in Nat
    <3>1. x \in Int /\ y \in Int /\ x <= a /\ y >= c /\ a \in Int /\ c \in Int
      BY <1>1, <2>4, <2>6, <2>8, <2>10
    <3> HIDE DEF x, y
    <3> QED
      BY <3>1
  <2> HIDE DEF u, v
  <2>14. G < N
    BY <2>8, <2>11, <2>12, PicksAreClose
  <2> HIDE DEF g, h
  <2>15. G - H = L /\ G \in Int /\ H \in Int /\ L \in Int
    BY <2>13
  <2>16. L >= 0
    <3> HIDE DEF e
    <3> QED
      BY <2>13
  <2> HIDE DEF G, H, L, e
  <2>17. H < N
    BY <2>14, <2>15, <2>16
  <2> QED
    BY <2>17 DEF H, h, a, c
<1> QED
  BY <1>9, <1>10, <1>12, <1>14, <1>15, <1>16

(* The frames are what the worker was asked for, of whatever it collected. *)
LEMMA FramesAre ==
    ASSUME NEW items \in Seq(Instants), Sorted(items, TRUE), NEW budget \in Nat \ {0},
           NEW frames, frames \in SelectFrames(items, budget)
    PROVE  AreSpaced(frames, items, budget)
<1> DEFINE n == Len(items)
<1>1. n \in Nat /\ DOMAIN items = 1..n /\ (items = <<>> <=> n = 0)
  BY LenProperties, EmptySeq
<1>2. \A i \in 1..n : items[i] \in Instants
  BY <1>1, ElementOfSeq
<1>3. \A i, j \in 1..n : i < j => items[i] < items[j]
  BY <1>1 DEF Sorted
<1>4. Last(items) = items[n]
  BY DEF Last
<1>5. CASE n <= budget
  <2>1. frames = items
    BY <1>5 DEF SelectFrames
  <2>2. ASSUME NEW k \in 1..(n - 1)
        PROVE  \E p, q \in DOMAIN items :
                  /\ p < q /\ items[k] = items[p] /\ items[k + 1] = items[q]
                  /\ (q - p - 1) * (budget - 1) < n - 1
    <3>1. k \in 1..n /\ k + 1 \in 1..n /\ k < k + 1 /\ 0 < n - 1
      BY <1>1
    <3>2. k + 1 - k - 1 = 0 /\ 0 * (budget - 1) = 0
      BY <3>1
    <3> QED
      BY <1>1, <3>1, <3>2
  <2>3. \A k \in DOMAIN items : Holds(items, items[k])
    BY DEF Holds
  <2> QED
    BY <1>5, <2>1, <2>2, <2>3 DEF AreSpaced
<1>6. CASE ~(n <= budget) /\ budget = 1
  <2>1. frames = <<items[1]>>
    BY <1>6 DEF SelectFrames
  <2>2. 1 \in 1..n
    BY <1>1, <1>6
  <2>3. /\ DOMAIN frames = {1} /\ Len(frames) = 1 /\ frames[1] = items[1] /\ frames # <<>>
        /\ frames \in Seq(Instants)
    BY <1>2, <2>1, <2>2
  <2>4. Sorted(frames, TRUE) /\ \A k \in DOMAIN frames : Holds(items, frames[k])
    BY <1>1, <2>2, <2>3 DEF Sorted, Holds
  <2>5. /\ Len(frames) <= budget /\ ~(budget > 1)
        /\ \A k \in 1..(Len(frames) - 1) : FALSE
    BY <1>6, <2>3
  <2> QED
    BY <1>6, <2>3, <2>4, <2>5 DEF AreSpaced
<1>7. CASE ~(n <= budget) /\ budget # 1
  <2> DEFINE D == budget - 1
             N == n - 1
  <2>1. D \in Nat \ {0} /\ N \in Nat /\ D + 1 = budget /\ N + 1 = n /\ budget > 1
    BY <1>1, <1>7
  <2>2. PICK pick \in [0..D -> 1..n] :
          /\ \A i \in DOMAIN pick : pick[i] \in {r \in 1..n :
                2 * Distance((r - 1) * D, i * N) <= D}
          /\ frames = LET r == Ascending({pick[i] : i \in DOMAIN pick})
                      IN  [k \in DOMAIN r |-> items[r[k]]]
    BY <1>7 DEF SelectFrames
  <2> DEFINE r == Ascending({pick[i] : i \in DOMAIN pick})
  <2>3. frames = [k \in DOMAIN r |-> items[r[k]]]
    BY <2>2
  <2>4. Nearest(pick, D, N)
    <3>1. \A i \in 0..D : 2 * Distance((pick[i] - 1) * D, i * N) <= D
      BY <2>2
    <3> QED
      BY <2>1, <2>2, <3>1, Zenon DEF Nearest
  <2> DEFINE l == Len(r)
  <2>5. /\ r \in Seq(1..n) /\ l \in Nat /\ DOMAIN r = 1..l
        /\ l <= budget /\ Sorted(r, TRUE) /\ 1 \in 1..l /\ r[1] = 1
        /\ l \in 1..l /\ r[l] = n
        /\ \A k \in 1..(l - 1) : (r[k + 1] - r[k] - 1) * D < N
    <3> HIDE DEF D, N
    <3>1. PICK m : m = r
      OBVIOUS
    <3>2. m = Ascending({pick[i] : i \in DOMAIN pick})
      BY <3>1
    <3> HIDE DEF r
    <3>3. /\ m \in Seq(1..(N + 1)) /\ Len(m) \in Nat /\ DOMAIN m = 1..Len(m)
          /\ Len(m) <= D + 1 /\ Sorted(m, TRUE) /\ 1 \in DOMAIN m /\ m[1] = 1
          /\ Len(m) \in DOMAIN m /\ m[Len(m)] = N + 1
          /\ \A k \in 1..(Len(m) - 1) : (m[k + 1] - m[k] - 1) * D < N
      BY <2>1, <2>4, <3>2, PicksAreSpaced
    <3> QED
      BY <2>1, <3>1, <3>3
  <2> HIDE DEF r
  <2>6. \A k \in 1..l : r[k] \in 1..n
    BY <2>5, ElementOfSeq
  <2>7. \A j, k \in 1..l : j < k => r[j] < r[k]
    BY <2>5 DEF Sorted
  <2> HIDE DEF l, n
  <2>8. /\ frames \in Seq(Instants) /\ Len(frames) = l /\ DOMAIN frames = 1..l
        /\ \A k \in 1..l : frames[k] = items[r[k]]
    BY <1>2, <2>3, <2>5, <2>6
  <2>9. \A k \in DOMAIN frames : Holds(items, frames[k])
    BY <1>1, <2>6, <2>8 DEF Holds
  <2>10. Sorted(frames, TRUE)
    BY <1>3, <2>6, <2>7, <2>8 DEF Sorted
  <2>11. frames # <<>> /\ frames[1] = items[1] /\ Last(frames) = Last(items)
    <3>1. frames # <<>>
      BY <2>5, <2>8
    <3> QED
      BY <1>4, <2>5, <2>8, <3>1 DEF Last
  <2>12. ASSUME NEW k \in 1..(l - 1)
         PROVE  \E p, q \in DOMAIN items :
                   /\ p < q /\ frames[k] = items[p] /\ frames[k + 1] = items[q]
                   /\ (q - p - 1) * D < N
    <3>1. k \in 1..l /\ k + 1 \in 1..l /\ k < k + 1
      BY <2>5
    <3>2. /\ r[k] \in DOMAIN items /\ r[k + 1] \in DOMAIN items /\ r[k] < r[k + 1]
          /\ frames[k] = items[r[k]] /\ frames[k + 1] = items[r[k + 1]]
          /\ (r[k + 1] - r[k] - 1) * D < N
      BY <1>1, <2>5, <2>6, <2>7, <2>8, <3>1
    <3> HIDE DEF D, N
    <3> QED
      BY <3>2, Zenon
  <2> QED
    BY <2>5, <2>8, <2>9, <2>10, <2>11, <2>12 DEF AreSpaced, n
<1> QED
  BY <1>5, <1>6, <1>7

-----------------------------------------------------------------------------
(* What lies strictly between two of the collected instants is listed      *)
(* between them.                                                           *)
LEMMA SkippedAreBetween ==
    ASSUME NEW items \in Seq(Int), Sorted(items, TRUE),
           NEW p \in DOMAIN items, NEW q \in DOMAIN items, p < q,
           NEW S, \A t \in S : Holds(items, t) /\ items[p] < t /\ t < items[q]
    PROVE  Cardinality(S) <= q - p - 1 /\ Cardinality(S) \in Nat
<1> DEFINE n == Len(items)
           B == (p + 1)..(q - 1)
           at == [i \in B |-> items[i]]
           T == {items[i] : i \in B}
<1>1. n \in Nat /\ DOMAIN items = 1..n /\ p \in Int /\ q \in Int
  BY LenProperties
<1>2. \A i \in 1..n : items[i] \in Int
  BY <1>1, ElementOfSeq
<1>3. IsFiniteSet(B) /\ Cardinality(B) = q - p - 1
  <2>1. p + 1 \in Int /\ q - 1 \in Int
    BY <1>1
  <2>2. /\ IsFiniteSet(B)
        /\ Cardinality(B) = IF p + 1 > q - 1 THEN 0 ELSE q - 1 - (p + 1) + 1
    BY <2>1, FS_Interval
  <2> QED
    BY <1>1, <2>2
<1>4. S \subseteq T
  <2> SUFFICES ASSUME NEW t \in S PROVE \E i \in B : items[i] = t
    OBVIOUS
  <2>1. PICK i \in 1..n : items[i] = t
    BY <1>1 DEF Holds
  <2>2. p < i /\ i < q
    <3>1. i < p => items[i] < items[p]
      BY <1>1 DEF Sorted
    <3>2. q < i => items[q] < items[i]
      BY <1>1 DEF Sorted
    <3>3. items[p] < items[i] /\ items[i] < items[q]
      BY <2>1
    <3>4. items[i] \in Int /\ items[p] \in Int /\ items[q] \in Int
      BY <1>1, <1>2
    <3>5. i # p /\ i # q /\ ~(i < p) /\ ~(q < i)
      BY <3>1, <3>2, <3>3, <3>4
    <3> QED
      BY <1>1, <3>5
  <2>3. i \in B
    BY <1>1, <2>2
  <2> QED
    BY <2>1, <2>3
<1>5. at \in Surjection(B, T)
  BY DEF Surjection
<1>6. IsFiniteSet(T) /\ Cardinality(T) <= q - p - 1
  BY <1>3, <1>5, FS_Surjection
<1> HIDE DEF T
<1>7. IsFiniteSet(S) /\ Cardinality(S) <= Cardinality(T)
  BY <1>4, <1>6, FS_Subset
<1>8. Cardinality(S) \in Nat /\ Cardinality(T) \in Nat
  BY <1>6, <1>7, FS_CardinalityType
<1> QED
  BY <1>1, <1>6, <1>7, <1>8

LEMMA ProductGrows ==
    ASSUME NEW a \in Int, NEW b \in Int, a <= b, NEW D \in Nat
    PROVE  a * D <= b * D /\ a * D \in Int /\ b * D \in Int
<1> DEFINE e == b - a
           E == e * D
<1>1. e \in Nat
  OBVIOUS
<1>2. E = b * D - a * D
  OBVIOUS
<1>3. E >= 0
  <2> HIDE DEF e
  <2> QED
    BY <1>1
<1> QED
  BY <1>2, <1>3

(* Frames that are spaced over the collected span what stayed.             *)
Spans(frames, items, budget) ==
    /\ frames \in Seq(Instants)
    /\ Len(frames) <= budget /\ StrictlyAscending(frames) /\ InRange(frames)
    /\ \A t \in stable : t >= frames[1] /\ (budget > 1 => t <= Last(frames))
    /\ \A k \in 1..(Len(frames) - 1) :
         LET skipped == {t \in stable : frames[k] < t /\ t < frames[k + 1]}
         IN  Cardinality(skipped) * (budget - 1) < Len(items) - 1

LEMMA SpacedSpan ==
    ASSUME NEW items \in Seq(Instants), Sorted(items, TRUE), InRange(items),
           \A t \in stable : Holds(items, t),
           NEW budget \in Nat \ {0}, NEW frames, AreSpaced(frames, items, budget)
    PROVE  Spans(frames, items, budget)
<1> DEFINE n == Len(items)
<1>1. n \in Nat /\ DOMAIN items = 1..n /\ (items = <<>> <=> n = 0)
  BY LenProperties, EmptySeq
<1>2. \A i \in 1..n : items[i] \in Int
  BY <1>1, ElementOfSeq, InstantsAreIntegers
<1>3. items \in Seq(Int)
  BY SeqMonotonic, InstantsAreIntegers
<1>4. /\ frames \in Seq(Instants) /\ Len(frames) <= budget
      /\ \A j, k \in DOMAIN frames : j < k => frames[j] < frames[k]
      /\ \A k \in DOMAIN frames : Holds(items, frames[k])
  BY DEF AreSpaced, Sorted
<1>5. InRange(frames)
  BY <1>4 DEF InRange, Holds
<1>6. ASSUME NEW t \in stable
      PROVE  t >= frames[1] /\ (budget > 1 => t <= Last(frames))
  <2>1. PICK i \in 1..n : items[i] = t
    BY <1>1 DEF Holds
  <2>2. items # <<>> /\ 1 \in 1..n /\ n \in 1..n
    BY <1>1, <2>1
  <2>3. frames[1] = items[1] /\ (budget > 1 => Last(frames) = items[n])
    BY <2>2 DEF AreSpaced, Last
  <2>4. i = 1 \/ items[1] < items[i]
    BY <1>1, <2>2 DEF Sorted
  <2>5. i = n \/ items[i] < items[n]
    <3> HIDE DEF n
    <3>1. i = n \/ i < n
      BY <1>1, <2>1
    <3> QED
      BY <1>1, <2>1, <2>2, <3>1 DEF Sorted
  <2>6. items[1] \in Int /\ items[n] \in Int /\ items[i] \in Int
    BY <1>2, <2>2
  <2> HIDE DEF n
  <2> QED
    BY <2>1, <2>3, <2>4, <2>5, <2>6
<1>7. ASSUME NEW k \in 1..(Len(frames) - 1)
      PROVE  Cardinality({t \in stable : frames[k] < t /\ t < frames[k + 1]})
               * (budget - 1) < n - 1
  <2> DEFINE S == {t \in stable : frames[k] < t /\ t < frames[k + 1]}
             c == Cardinality(S)
             D == budget - 1
  <2>1. PICK p \in DOMAIN items, q \in DOMAIN items :
           /\ p < q /\ frames[k] = items[p] /\ frames[k + 1] = items[q]
           /\ (q - p - 1) * D < n - 1
    BY DEF AreSpaced
  <2>2. \A t \in S : Holds(items, t) /\ items[p] < t /\ t < items[q]
    BY <2>1
  <2> HIDE DEF S
  <2>3. c <= q - p - 1 /\ c \in Nat
    BY <1>3, <2>1, <2>2, SkippedAreBetween
  <2> DEFINE g == q - p - 1
  <2>4. g \in Int /\ D \in Nat /\ c \in Int /\ c <= g
    BY <1>1, <2>1, <2>3
  <2>5. g * D < n - 1
    BY <2>1
  <2> HIDE DEF c, D, g, n
  <2>6. c * D <= g * D /\ c * D \in Int /\ g * D \in Int
    BY <2>4, ProductGrows
  <2>7. c * D < n - 1
    BY <1>1, <2>5, <2>6
  <2> QED
    BY <2>7 DEF c, S, D
<1> QED
  BY <1>4, <1>5, <1>6, <1>7 DEF Spans, StrictlyAscending

LEMMA FramePageKeeps ==
    ASSUME ReadInv, FramePage
    PROVE  ReadInv'
<1> DEFINE result == ListRecords(img, query.from, query.to, PageSize, cursor, FALSE)
           all == listed \o result.page
<1>1. /\ open /\ query # None /\ query.kind = "frames" /\ query.budget \in Nat \ {0}
      /\ UNCHANGED <<found, now, footage, query, stable>>
      /\ PageSize \in Nat \ {0} /\ FALSE \in BOOLEAN
  BY FootageAssumption DEF FramePage, Reading, Nothing, ReadInv, ReadTypes, Reads
<1>2. \/ /\ result.next # None /\ listed' = all /\ cursor' = result.next
         /\ UNCHANGED <<chosen, open>>
      \/ /\ result.next = None /\ listed' = Reverse(all) /\ cursor' = None /\ open' = FALSE
         /\ chosen' \in SelectFrames(Reverse(all), query.budget)
  BY DEF FramePage
<1>3. Paged(FALSE)
  BY <1>1, Zenon DEF ReadInv, FramesOK
<1>4. PICK res : res = result
  OBVIOUS
<1>5. /\ res = ListRecords(img, query.from, query.to, PageSize, cursor, FALSE)
      /\ all = listed \o res.page
  BY <1>4
<1>6. img = Table(query.kind)
  BY <1>1 DEF Table
<1> HIDE DEF result
<1>7. TablesOK' /\ StableStays' /\ PagesOK' /\ LatestOK' /\ SampleOK'
  BY <1>1, <1>2 DEF ReadInv, TablesOK, StableStays, Table, PagesOK, LatestOK, SampleOK,
                    Answered, footage
<1>8. CASE /\ result.next # None /\ listed' = all /\ cursor' = result.next
           /\ UNCHANGED <<chosen, open>>
  <2>1. /\ listed' = listed \o res.page /\ cursor' = res.next
        /\ open' = (res.next # None) /\ UNCHANGED <<query, stable>>
    BY <1>1, <1>4, <1>5, <1>8 DEF ReadInv, ReadTypes
  <2> HIDE DEF all
  <2>2. PICK records : records = img
    OBVIOUS
  <2>3. /\ records = Table(query.kind)
        /\ res = ListRecords(records, query.from, query.to, PageSize, cursor, FALSE)
    BY <1>5, <1>6, <2>2, Zenon
  <2>4. /\ listed' \in Seq(Instants) /\ cursor' \in Instants \cup {None} /\ Paged(FALSE)'
    BY <1>1, <1>3, <2>1, <2>3, PagedStep, Zenon
  <2>5. FramesOK'
    BY <1>1, <1>8, <2>4, Zenon DEF FramesOK
  <2>6. ReadTypes'
    BY <1>1, <1>8, <2>4 DEF ReadInv, ReadTypes
  <2> QED
    BY <1>7, <2>5, <2>6 DEF ReadInv
<1>9. CASE /\ result.next = None /\ listed' = Reverse(all) /\ cursor' = None /\ open' = FALSE
           /\ chosen' \in SelectFrames(Reverse(all), query.budget)
  <2> DEFINE items == Reverse(all)
  <2>1. /\ all \in Seq(Instants) /\ Sorted(all, FALSE) /\ InRange(all)
        /\ \A t \in stable : Holds(all, t)
    <3>1. ReadTypes /\ StableStays /\ img \subseteq Instants /\ IsFiniteSet(img)
      BY TablesAreFinite DEF ReadInv
    <3>2. stable \subseteq img
      BY <1>1, <1>6, <3>1 DEF StableStays
    <3>3. res.next = None
      BY <1>4, <1>9
    <3>4. PICK a : a = all
      OBVIOUS
    <3>5. a = listed \o res.page
      BY <1>5, <3>4
    <3> HIDE DEF all
    <3>6. /\ a \in Seq(Instants) /\ Sorted(a, FALSE) /\ InRange(a)
          /\ \A t \in stable : \/ Holds(a, t)
                               \/ res.next # None /\ Beyond(t, res.next, FALSE)
      BY <1>1, <1>3, <1>5, <3>1, <3>2, <3>5, PageExtends, Zenon
    <3> QED
      BY <3>3, <3>4, <3>6, Zenon
  <2> HIDE DEF all
  <2>2. all \in Seq(Int)
    BY <2>1, SeqMonotonic, InstantsAreIntegers
  <2>3. Sorted(items, TRUE) /\ \A x : Holds(all, x) => Holds(items, x)
    <3>1. Sorted(items, ~FALSE) /\ \A x : Holds(all, x) => Holds(items, x)
      BY <1>1, <2>1, <2>2, ReverseIsSorted, Zenon
    <3> QED
      BY <3>1 DEF Sorted
  <2>4. /\ items \in Seq(Instants) /\ Len(items) = Len(all) /\ Len(all) \in Nat
        /\ DOMAIN items = 1..Len(all) /\ DOMAIN all = 1..Len(all)
        /\ \A k \in 1..Len(all) : items[k] = all[Len(all) - k + 1]
    BY <2>1, ReverseIs, LenProperties
  <2>5. InRange(items)
    <3>1. \A k \in 1..Len(all) : Len(all) - k + 1 \in 1..Len(all)
      BY <2>4
    <3> QED
      BY <2>1, <2>4, <3>1 DEF InRange
  <2>6. \A t \in stable : Holds(items, t)
    BY <2>1, <2>3, Zenon
  <2>7. chosen' \in SelectFrames(items, query.budget) /\ listed' = items
    BY <1>9
  <2> HIDE DEF items
  <2>8. PICK frames : frames = chosen'
    OBVIOUS
  <2>9. PICK budget \in Nat \ {0} : budget = query.budget
    BY <1>1
  <2>10. AreSpaced(frames, items, budget)
    BY <2>3, <2>4, <2>7, <2>8, <2>9, FramesAre
  <2>11. Spans(frames, items, budget)
    BY <2>3, <2>4, <2>5, <2>6, <2>10, SpacedSpan, Zenon
  <2>12. chosen' \in Seq(Instants) /\ listed' \in Seq(Instants)
    BY <2>4, <2>7, <2>8, <2>11, Zenon DEF Spans
  <2>13. ReadTypes'
    BY <1>1, <1>9, <2>12 DEF ReadInv, ReadTypes
  <2>14. Collected'
    <3>1. Sorted(listed, TRUE)'
      BY <2>3, <2>7, Zenon
    <3>2. InRange(listed)'
      BY <1>1, <2>5, <2>7 DEF InRange
    <3>3. (\A t \in stable : Holds(listed, t))'
      BY <1>1, <2>6, <2>7, Zenon
    <3> QED
      BY <1>9, <3>1, <3>2, <3>3, Zenon DEF Collected
  <2>15. FramesSpanFootage'
    BY <1>1, <2>7, <2>8, <2>9, <2>11 DEF FramesSpanFootage, Spans, InRange
  <2>16. FramesOK'
    BY <1>9, <2>14, <2>15 DEF FramesOK
  <2> QED
    BY <1>7, <2>13, <2>16 DEF ReadInv
<1> QED
  BY <1>2, <1>8, <1>9

-----------------------------------------------------------------------------
LEMMA CaptureKeeps ==
    ASSUME ReadInv, Capture
    PROVE  ReadInv'
<1>1. /\ now < Horizon /\ now' = now + 1
      /\ \/ ooh' = ooh /\ img' = img \cup {now}
         \/ ooh' = ooh \cup {now} /\ img' = img
      /\ UNCHANGED reading
  BY DEF Capture
<1>2. TablesOK'
  <2>1. now \in Instants /\ now' \in 0..Horizon
    BY <1>1, FootageAssumption DEF Instants, ReadInv, TablesOK
  <2>2. \A t \in Instants : t < now => t < now' /\ t # now
    BY <1>1, FootageAssumption DEF Instants, ReadInv, TablesOK
  <2>3. \A t \in img \cup ooh : t \in Instants /\ t < now
    BY DEF ReadInv, TablesOK
  <2>4. now < now'
    BY <1>1, FootageAssumption DEF ReadInv, TablesOK
  <2>5. \A t \in (img \cup ooh)' : t \in Instants /\ t < now'
    BY <1>1, <2>1, <2>2, <2>3, <2>4
  <2>6. img' \cap ooh' = {}
    BY <1>1, <2>2, <2>3 DEF ReadInv, TablesOK
  <2> QED
    BY <2>1, <2>5, <2>6 DEF TablesOK
<1>3. UNCHANGED <<query, open, cursor, listed, found, chosen, stable>>
  BY <1>1 DEF reading
<1>4. open => \A t \in stable' : t \in Table(query.kind)'
  BY <1>1, <1>3 DEF ReadInv, ReadTypes, StableStays, Table
<1> QED
  BY <1>2, <1>3, <1>4, OthersKeep

LEMMA DeletingKeeps ==
    ASSUME ReadInv, NEW d \in Deleters,
           DeleteBatch(d) \/ CheckRecord(d) \/ DeleteObject(d) \/ DeleteRecord(d)
    PROVE  ReadInv'
<1>1. /\ UNCHANGED <<now, ooh, query, open, cursor, listed, found, chosen>>
      /\ img' \subseteq img
      /\ \/ stable' = stable /\ img' = img
         \/ stable' = IF open THEN stable \ (img \ img') ELSE stable
  BY DEF DeleteBatch, CheckRecord, DeleteObject, DeleteRecord, Aside
<1>2. TablesOK'
  BY <1>1 DEF ReadInv, TablesOK
<1>3. stable' \subseteq stable /\ (~open => stable' = stable)
  BY <1>1
<1>4. open => \A t \in stable' : t \in Table(query.kind)'
  <2> SUFFICES ASSUME open, NEW t \in stable' PROVE t \in Table(query.kind)'
    OBVIOUS
  <2>1. t \in stable /\ t \in Table(query.kind)
    BY <1>3 DEF ReadInv, ReadTypes, StableStays
  <2>2. t \in img => t \in img'
    BY <1>1, <2>1
  <2> QED
    BY <1>1, <2>1, <2>2 DEF Table
<1> QED
  BY <1>1, <1>2, <1>3, <1>4, OthersKeep

(* What a read has been answered is right at every page and bucket, and    *)
(* when it is over.                                                        *)
LEMMA ReadInductive == Spec => []ReadInv
<1>1. Init => ReadInv
  <2> SUFFICES ASSUME Init PROVE ReadInv
    OBVIOUS
  <2>1. TablesOK
    BY FootageAssumption DEF Init, TablesOK
  <2>2. ReadTypes
    <3>1. /\ query = None /\ open = FALSE /\ cursor = None /\ stable = {}
          /\ listed = <<>> /\ found = <<>> /\ chosen = <<>>
      BY DEF Init
    <3>2. <<>> \in Seq(Instants) /\ DOMAIN <<>> = {}
      BY EmptySeq
    <3>3. \A i \in DOMAIN found : found[i] \in Instants \cup {None}
      BY <3>1, <3>2, Zenon
    <3> QED
      BY <3>1, <3>2, <3>3, Zenon DEF ReadTypes
  <2> QED
    BY <2>1, <2>2 DEF Init, ReadInv, StableStays, PagesOK, LatestOK, SampleOK, FramesOK, Answered
<1>2. ReadInv /\ [Next]_vars => ReadInv'
  <2> SUFFICES ASSUME ReadInv, [Next]_vars PROVE ReadInv'
    OBVIOUS
  <2>1. CASE (\E u \in Updates : Patch(u)) \/ UNCHANGED vars
    <3>1. /\ UNCHANGED <<query, open, cursor, listed, found, chosen, stable>>
          /\ UNCHANGED <<now, img, ooh>>
      BY <2>1 DEF Patch, vars, reading, footage
    <3>2. TablesOK'
      BY <3>1 DEF ReadInv, TablesOK
    <3>3. open => \A t \in stable' : t \in Table(query.kind)'
      BY <3>1 DEF ReadInv, ReadTypes, StableStays, Table
    <3> QED
      BY <3>1, <3>2, <3>3, OthersKeep
  <2> QED
    BY <2>1, CaptureKeeps, AskKeeps, ListPageKeeps, LatestKeeps, FetchBucketKeeps,
       FramePageKeeps, DeletingKeeps DEF Next
<1> QED
  BY <1>1, <1>2, PTL DEF Spec

(* A client that follows the cursors sees what stayed, in order and once,  *)
(* for every page size, window and interleaving of captures and deletions. *)
THEOREM PagesAreFaithful == Spec => []ListingIsFaithful
<1>1. ReadInv => ListingIsFaithful
  <2> SUFFICES ASSUME ReadInv PROVE ListingIsFaithful
    OBVIOUS
  <2>1. ASSUME query # None, query.kind \in {"list", "review"}
        PROVE  /\ InOrder(listed) /\ InRange(listed)
               /\ \A t \in stable :
                    \/ \E i \in DOMAIN listed : listed[i] = t
                    \/ open /\ (cursor = None \/ IF query.ascending THEN t > cursor
                                                                     ELSE t < cursor)
    <3>1. PICK a \in BOOLEAN : a = query.ascending
      BY <2>1 DEF ReadInv, ReadTypes, Reads
    <3>2. Paged(a)
      BY <2>1, <3>1, Zenon DEF ReadInv, PagesOK
    <3>3. /\ Sorted(listed, a) /\ InRange(listed)
          /\ \A t \in stable : Holds(listed, t) \/ (open /\ Beyond(t, cursor, a))
      BY <3>2, Zenon DEF Paged
    <3>4. listed \in Seq(Int)
      BY SeqMonotonic, InstantsAreIntegers DEF ReadInv, ReadTypes
    <3>5. InOrder(listed)
      <4>1. CASE a = TRUE
        <5>1. query.ascending = TRUE
          BY <3>1, <4>1
        <5> QED
          BY <3>3, <4>1, <5>1 DEF Sorted, InOrder, StrictlyAscending
      <4>2. CASE a = FALSE
        <5>1. query.ascending = FALSE
          BY <3>1, <4>2
        <5>2. Sorted(listed, FALSE)
          BY <3>3, <4>2, Zenon
        <5>3. Sorted(Reverse(listed), ~FALSE)
          BY <3>1, <3>4, <4>2, <5>2, ReverseIsSorted, Zenon
        <5> QED
          BY <5>1, <5>3 DEF Sorted, InOrder, StrictlyAscending
      <4> QED
        BY <3>1, <4>1, <4>2
    <3> QED
      BY <3>1, <3>3, <3>5, Zenon DEF Holds, Beyond
  <2> QED
    BY <2>1, Zenon DEF ListingIsFaithful, ReadInv, LatestOK
<1> QED
  BY <1>1, ReadInductive, PTL

(* A sample stands for the window whatever its width, its count and the    *)
(* order the buckets are fetched in.                                       *)
THEOREM SamplesAreFaithful == Spec => []SampleIsFaithful
<1>1. ReadInv => SampleIsFaithful
  BY DEF ReadInv, SampleOK, SampleIsFaithful, Answered
<1> QED
  BY <1>1, ReadInductive, PTL

(* A timelapse spans its footage for every number of snapshots and frames, *)
(* however the half-way quotients are rounded.                             *)
THEOREM TimelapsesSpan == Spec => []FramesSpanFootage
<1>1. ReadInv => FramesSpanFootage
  BY DEF ReadInv, FramesOK, FramesSpanFootage, Answered
<1> QED
  BY <1>1, ReadInductive, PTL

CountersOK ==
    /\ patches \in 0..MaxPatches /\ faults \in 0..MaxFaults

(* The types of the snapshots, the reads and the deletions.                *)
THEOREM TypeCorrect == Spec => []TypeOK
<1>1. Init => CountersOK
  BY FootageAssumption DEF Init, CountersOK
<1>2. CountersOK /\ [Next]_vars => CountersOK'
  <2> SUFFICES ASSUME CountersOK, [Next]_vars PROVE CountersOK'
    OBVIOUS
  <2>1. /\ patches' = patches \/ (patches < MaxPatches /\ patches' = patches + 1)
        /\ faults' = faults \/ (faults < MaxFaults /\ faults' = faults + 1)
    BY DEF Next, Capture, Patch, Ask, ListPage, ReviewPage, Latest, FetchBucket, FramePage,
           TakePage, Nothing, DeleteBatch, CheckRecord, DeleteObject, DeleteRecord, Aside,
           settings, Fault, vars
  <2> QED
    BY <2>1, FootageAssumption DEF CountersOK
<1>3. HoursInv /\ DeletionInv /\ ReadInv /\ CountersOK => TypeOK
  <2> SUFFICES ASSUME HoursInv, DeletionInv, ReadInv, CountersOK PROVE TypeOK
    OBVIOUS
  <2>1. site \in SiteRecords /\ asked \in Hours \cup {None} /\ legacyKept \in BOOLEAN
    BY DEF HoursInv
  <2>2. img \subseteq Instants /\ ooh \subseteq Instants \ img /\ objects \subseteq Instants
    BY DEF ReadInv, TablesOK, DeletionInv, HalfIsHeld
  <2>3. /\ query \in Reads(Int) \cup {None} /\ open \in BOOLEAN /\ (open => query # None)
        /\ cursor \in Instants \cup {None} /\ stable \subseteq Instants
        /\ listed \in Seq(Instants) /\ chosen \in Seq(Instants)
        /\ \A i \in DOMAIN found : found[i] \in Instants \cup {None}
    BY Zenon DEF ReadInv, ReadTypes
  <2>4. /\ batch \in [Deleters -> Seq(Instants)] /\ gone \in [Deleters -> SUBSET Instants]
        /\ step \in [Deleters -> {"idle", "check", "object", "record", "done", "error"}]
    BY DEF DeletionInv, BatchOK, PassedAreGone, Steps
  <2>5. now \in 0..Horizon /\ patches \in 0..MaxPatches /\ faults \in 0..MaxFaults
    BY DEF ReadInv, TablesOK, CountersOK
  <2> QED
    BY <2>1, <2>2, <2>3, <2>4, <2>5, Zenon DEF TypeOK
<1> QED
  BY <1>1, <1>2, <1>3, HoursInductive, DeletionInductive, ReadInductive, PTL DEF Spec
=============================================================================
