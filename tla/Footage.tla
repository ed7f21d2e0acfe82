------------------------------- MODULE Footage -------------------------------
(***************************************************************************)
(* The snapshots of one camera after their upload: the class each capture  *)
(* gets under the site's current working hours, and the endpoints that     *)
(* read and delete the footage while more of it is captured.               *)
(*                                                                         *)
(*   PATCH  /v1/sites/{site_id}         changes hours and timezone         *)
(*   GET    /v1/snapshots               pages, or an even sample           *)
(*   GET    /v1/snapshots/out-of-hours  pages of the other class           *)
(*   GET    /v1/snapshots/latest        the newest snapshot                *)
(*   DELETE /v1/snapshots               a batch of timestamps              *)
(*   the timelapse worker               the range, cut to a frame budget   *)
(*                                                                         *)
(* A snapshot is named by its capture instant; one is captured at every    *)
(* instant, its object and record as one step (Ingest has them apart).     *)
(* Callers are authorised and from <= to, which DynamoDB insists on.       *)
(***************************************************************************)
EXTENDS WorkingHours, FiniteSets, Sequences, SequencesExt

CONSTANTS
    Sites,       \* the site records to start from
    Updates,     \* bodies of PATCH: functions from "working" and "zone"
    Requests,    \* the reads: records with a kind and its parameters
    DaysBack,    \* _LIST_DEFAULT_DAYS_BACK, in instants
    PageSize,    \* page of list_all_img_records_in_range
    Deleters,    \* DELETE requests
    Batches,     \* their lists of timestamps
    Horizon,     \* bound on the clock
    MaxPatches,  \* bound on the PATCH requests
    FirstRequest,\* bound: the clock when the first read or DELETE may arrive,
    PatchesFirst,\* and the PATCH requests there were before it at most
    MaxFaults    \* bound on the calls that fail

VARIABLES
    now,         \* the instant of the next capture
    site,        \* the site record
    img,         \* the IMG# records, by capture instant
    ooh,         \* the OOH_IMG# records
    objects,     \* the objects of in-hours snapshots
    query,       \* the read, or None
    open,        \* it is not answered yet
    cursor,      \* LastEvaluatedKey of its last page, or None
    listed,      \* the records of its pages, in order
    found,       \* the buckets of a sample fetched so far: the record there, or None
    chosen,      \* the sample, or the frames
    batch,       \* [Deleters -> timestamps still to do]
    step,        \* [Deleters -> step or answer]
    asked,       \* history: the hours asked for, as the API states them
    legacyKept,  \* history: none were asked for last, and legacy hours remain
    stable,      \* history: what was there when the read began and still is
    gone,        \* history: [Deleters -> timestamps passed]
    patches, faults

footage == <<img, ooh, objects>>
reading == <<query, open, cursor, listed, found, chosen, stable>>
deleting == <<batch, step, gone>>
settings == <<site, asked, legacyKept, patches>>
vars == <<now, footage, reading, deleting, settings, faults>>

Instants == 0..(Horizon - 1)

(* A site has hours of one version: setting the new ones removes the old.  *)
SiteRecords ==
    {s \in [working: Hours \cup {None}, zone: DOMAIN Offset,
            legacy: [start: Minutes, end: Minutes] \cup {None}] :
        s.working = None \/ s.legacy = None}

(* What PATCH lets through, a zone of the database among it.               *)
SiteUpdates ==
    [working: Hours \cup {None}] \cup [zone: DOMAIN Offset]
    \cup [working: Hours \cup {None}, zone: DOMAIN Offset]

(* What the reads let through, and what they make of the bounds.           *)
Bounds == ({"time", "date"} \X Int) \cup {None}
Reads(bounds) ==
    LET positive == Nat \ {0}
    IN  [kind: {"list"}, ascending: BOOLEAN, limit: positive, from: bounds, to: bounds]
        \cup [kind: {"review"}, ascending: {FALSE}, limit: positive, from: bounds, to: bounds]
        \cup [kind: {"latest"}, from: bounds, to: bounds]
        \cup [kind: {"sample"}, ascending: BOOLEAN, count: positive, from: bounds, to: bounds]
        \cup [kind: {"frames"}, budget: positive, from: bounds, to: bounds]

ASSUME FootageAssumption ==
    /\ None \notin Hours /\ None \notin Int /\ None \notin Reads(Int)
    /\ \A zone \in DOMAIN Offset : \A t \in Instants : Offset[zone][t] \in Int
    /\ Sites \subseteq SiteRecords /\ Updates \subseteq SiteUpdates
    /\ Requests \subseteq Reads(Bounds) /\ DaysBack \in Nat /\ PageSize \in Nat \ {0}
    /\ \A b \in Batches : b \in Seq(Instants) /\ b # <<>>
    /\ {Horizon, MaxPatches, MaxFaults} \subseteq Nat

(* A call that raises.                                                     *)
Fault == faults < MaxFaults /\ faults' = faults + 1

-----------------------------------------------------------------------------
(* Capture and PATCH                                                       *)

MutantCapture ==
    /\ now < Horizon
    /\ now' = now + 1
    /\ IF Classify(ResolveWorkingHours(site), now, site.zone) = "out_of_hours"
       THEN ooh' = ooh \cup {now} ELSE UNCHANGED ooh
    /\ img' = img \cup {now} /\ objects' = objects \cup {now}
    /\ UNCHANGED <<reading, deleting, settings, faults>>

(* ingest reads the site once for every saved snapshot; a read that raises *)
(* leaves no hours, which is in-hours.                                     *)
Capture ==
    /\ now < Horizon
    /\ now' = now + 1
    /\ \/ /\ UNCHANGED faults
          /\ IF Classify(ResolveWorkingHours(site), now, site.zone) = "in_hours"
             THEN img' = img \cup {now} /\ objects' = objects \cup {now} /\ UNCHANGED ooh
             ELSE ooh' = ooh \cup {now} /\ UNCHANGED <<img, objects>>
       \/ /\ Fault
          /\ img' = img \cup {now} /\ objects' = objects \cup {now} /\ UNCHANGED ooh
    /\ UNCHANGED <<reading, deleting, settings>>

Given(updates) ==
    [k \in DOMAIN site |-> IF k \in DOMAIN updates THEN updates[k] ELSE site[k]]

MutantUpdateSite(updates) == Given(updates)

(* SET what is given, REMOVE what is null; hours that are set take the     *)
(* legacy ones away in the same call.                                      *)
UpdateSite(updates) ==
    IF "working" \in DOMAIN updates /\ updates.working # None
    THEN [Given(updates) EXCEPT !.legacy = None] ELSE Given(updates)

(* What the API says of an update: null clears the hours, whatever name    *)
(* they are stored under, and every snapshot is in-hours from then on.     *)
Asked(updates) == IF "working" \in DOMAIN updates THEN updates.working ELSE asked

(* Null writes no hours, so it leaves legacy ones where they are.          *)
LegacyKept(updates) ==
    IF "working" \in DOMAIN updates
    THEN updates.working = None /\ site.working = None /\ site.legacy # None
    ELSE legacyKept

(* Bounded to come before any read or delete: they share nothing with it.  *)
Patch(updates) ==
    /\ patches < MaxPatches /\ patches' = patches + 1
    /\ query = None /\ \A d \in Deleters : step[d] = "idle"
    /\ site' = UpdateSite(updates)
    /\ asked' = Asked(updates) /\ legacyKept' = LegacyKept(updates)
    /\ UNCHANGED <<now, footage, reading, deleting, faults>>

-----------------------------------------------------------------------------
(* The queries                                                             *)

(* The element before which there are i - 1.                               *)
Ascending(S) ==
    [i \in 1..Cardinality(S) |-> CHOOSE x \in S : Cardinality({y \in S : y < x}) = i - 1]
Ordered(S, ascending) == IF ascending THEN Ascending(S) ELSE Reverse(Ascending(S))

(* Query with BETWEEN, Limit and ExclusiveStartKey: a page, and the key to *)
(* go on from unless the range was exhausted before the limit.             *)
ListRecords(records, from, to, limit, after, ascending) ==
    LET past(t) == after = None \/ (IF ascending THEN t > after ELSE t < after)
        all == Ordered({t \in records : from <= t /\ t <= to /\ past(t)}, ascending)
        page == SubSeq(all, 1, IF Len(all) < limit THEN Len(all) ELSE limit)
    IN  [page |-> page, next |-> IF Len(page) = limit THEN Last(page) ELSE None]

(* _normalize_timestamp: an instant, a date, or nothing.                   *)
From(raw) ==
    CASE raw = None -> now - DaysBack
      [] raw # None /\ raw[1] = "date" -> raw[2] * DayLength
      [] OTHER -> raw[2]
To(raw) ==
    CASE raw = None -> now
      [] raw # None /\ raw[1] = "date" -> raw[2] * DayLength + DayLength - 1
      [] OTHER -> raw[2]

Table(kind) == IF kind = "review" THEN ooh ELSE img

Requested == now >= FirstRequest /\ patches <= PatchesFirst

(* The client asks.  One that pages sends its window with every page: the  *)
(* default is counted back from the clock each time.                       *)
Ask(request) ==
    /\ query = None /\ Requested
    /\ From(request.from) <= To(request.to)
    /\ query' = [request EXCEPT !.from = From(@), !.to = To(@)]
    /\ open' = TRUE
    /\ stable' = {t \in Table(request.kind) : query'.from <= t /\ t <= query'.to}
    /\ UNCHANGED <<now, footage, cursor, listed, found, chosen, deleting, settings, faults>>

Reading(kinds) == open /\ query.kind \in kinds
Nothing == UNCHANGED <<now, footage, query, stable, deleting, settings, faults>>

Page(ascending) ==
    ListRecords(Table(query.kind), query.from, query.to, query.limit, cursor, ascending)

TakePage(ascending) ==
    LET result == Page(ascending)
    IN  /\ listed' = listed \o result.page
        /\ cursor' = result.next
        /\ open' = (result.next # None)
        /\ UNCHANGED <<found, chosen>> /\ Nothing

MutantListPage == Reading({"list"}) /\ TakePage(cursor = None /\ query.ascending)

ListPage == Reading({"list"}) /\ TakePage(query.ascending)

(* GET /v1/snapshots/out-of-hours, newest first.                           *)
ReviewPage == Reading({"review"}) /\ TakePage(FALSE)

(* get_latest_img_record: the whole prefix, newest first, Limit 1.         *)
LatestRecord == IF img = {} THEN <<>> ELSE <<Last(Ascending(img))>>

(* GET /v1/snapshots/latest, of one camera or of each.                     *)
Latest ==
    /\ Reading({"latest"})
    /\ listed' = LatestRecord
    /\ open' = FALSE
    /\ UNCHANGED <<cursor, found, chosen>> /\ Nothing

-----------------------------------------------------------------------------
(* ?sample=N                                                               *)

MutantTimeBuckets(from, to, count) ==
    LET start(i) == from + ((to - from) * i) \div count
    IN  IF count <= 1 \/ to <= from THEN <<[from |-> from, to |-> to]>>
        ELSE [i \in 1..count |->
                 [from |-> start(i - 1), to |-> Max({start(i) - 1, start(i - 1)})]]

(* Contiguous buckets, each but the last ending before the next begins;    *)
(* their bounds are cut to whole instants when they are written out.       *)
TimeBuckets(from, to, count) ==
    LET start(i) == from + ((to - from) * i) \div count
    IN  IF count <= 1 \/ to <= from THEN <<[from |-> from, to |-> to]>>
        ELSE [i \in 1..count |->
                 [from |-> start(i - 1),
                  to |-> IF i = count THEN to ELSE Max({start(i) - 1, start(i - 1)})]]

(* Misses are dropped, and a record two buckets share is kept once.        *)
Selected(results) ==
    LET kept(i) == results[i] # None /\ \A j \in 1..(i - 1) : results[j] # results[i]
        buckets == Ascending({i \in DOMAIN results : kept(i)})
    IN  [k \in DOMAIN buckets |-> results[buckets[k]]]

(* The buckets are fetched by a pool of threads, in any order.             *)
FetchBucket ==
    /\ Reading({"sample"})
    /\ LET buckets == TimeBuckets(query.from, query.to, query.count)
       IN  \E i \in DOMAIN buckets \ DOMAIN found :
             LET page == ListRecords(img, buckets[i].from, buckets[i].to, 1, None, TRUE).page
                 all == [k \in DOMAIN found \cup {i} |->
                            IF k # i THEN found[k] ELSE IF page = <<>> THEN None ELSE page[1]]
             IN  IF DOMAIN all = DOMAIN buckets
                 THEN /\ chosen' = IF query.ascending THEN Selected(all)
                                   ELSE Reverse(Selected(all))
                      /\ found' = <<>> /\ open' = FALSE
                 ELSE found' = all /\ UNCHANGED <<chosen, open>>
    /\ UNCHANGED <<cursor, listed>> /\ Nothing

-----------------------------------------------------------------------------
(* The frames of a timelapse                                               *)

Distance(a, b) == IF a > b THEN a - b ELSE b - a

MutantSelectFrames(items, budget) ==
    {[k \in 1..budget |-> items[((k - 1) * Len(items)) \div budget + 1]]}

(* The index nearest to each of budget points evenly spaced over the       *)
(* items; half-way, either neighbour: the quotient is a float.             *)
SelectFrames(items, budget) ==
    IF Len(items) <= budget THEN {items}
    ELSE IF budget = 1 THEN {<<items[1]>>}
    ELSE LET nearest(i) == {r \in 1..Len(items) :
                 2 * Distance((r - 1) * (budget - 1), i * (Len(items) - 1)) <= budget - 1}
         IN  {LET r == Ascending({pick[i] : i \in DOMAIN pick})
              IN  [k \in DOMAIN r |-> items[r[k]]] :
                 pick \in {p \in [0..(budget - 1) -> 1..Len(items)] :
                              \A i \in DOMAIN p : p[i] \in nearest(i)}}

(* list_all_img_records_in_range: pages, newest first, then turned round.  *)
FramePage ==
    /\ Reading({"frames"})
    /\ LET result == ListRecords(img, query.from, query.to, PageSize, cursor, FALSE)
           all == listed \o result.page
       IN  IF result.next # None
           THEN listed' = all /\ cursor' = result.next /\ UNCHANGED <<chosen, open>>
           ELSE /\ listed' = Reverse(all) /\ cursor' = None /\ open' = FALSE
                /\ chosen' \in SelectFrames(Reverse(all), query.budget)
    /\ UNCHANGED found /\ Nothing

-----------------------------------------------------------------------------
(* DELETE /v1/snapshots                                                    *)

Goto(d, s) == step' = [step EXCEPT ![d] = s] /\ UNCHANGED <<batch, gone>>

(* The next timestamp of the batch, or the answer.                         *)
NextTimestamp(d) ==
    /\ batch' = [batch EXCEPT ![d] = Tail(@)]
    /\ gone' = [gone EXCEPT ![d] = @ \cup {Head(batch[d])}]
    /\ step' = [step EXCEPT ![d] = IF Len(batch[d]) = 1 THEN "done" ELSE "check"]

Aside == UNCHANGED <<now, ooh, query, open, cursor, listed, found, chosen, settings>>

(* A client deletes what it has seen.                                      *)
DeleteBatch(d) ==
    /\ step[d] = "idle" /\ Requested
    /\ \E b \in Batches : /\ \A i \in DOMAIN b : b[i] < now
                          /\ batch' = [batch EXCEPT ![d] = b]
    /\ step' = [step EXCEPT ![d] = "check"]
    /\ UNCHANGED <<gone, img, objects, stable, faults>> /\ Aside

(* A read that raises answers 500, and so does every failure below.        *)
CheckRecord(d) ==
    /\ step[d] = "check"
    /\ IF Head(batch[d]) \in img THEN Goto(d, "object") ELSE NextTimestamp(d)
    /\ UNCHANGED <<img, objects, stable, faults>> /\ Aside

MutantDeleteObject(d) ==
    /\ step[d] = "object"
    /\ \/ objects' = objects \ {Head(batch[d])} /\ UNCHANGED faults
       \/ Fault /\ UNCHANGED objects
    /\ Goto(d, "record")
    /\ UNCHANGED <<img, stable>> /\ Aside

DeleteObject(d) ==
    /\ step[d] = "object"
    /\ \/ objects' = objects \ {Head(batch[d])} /\ Goto(d, "record") /\ UNCHANGED faults
       \/ objects' \in {objects, objects \ {Head(batch[d])}} /\ Goto(d, "error") /\ Fault
    /\ UNCHANGED <<img, stable>> /\ Aside

DeleteRecord(d) ==
    /\ step[d] = "record"
    /\ \/ NextTimestamp(d) /\ img' = img \ {Head(batch[d])} /\ UNCHANGED faults
       \/ Goto(d, "error") /\ img' \in {img, img \ {Head(batch[d])}} /\ Fault
    /\ stable' = IF open THEN stable \ (img \ img') ELSE stable
    /\ UNCHANGED objects /\ Aside

-----------------------------------------------------------------------------
Init ==
    /\ now = 0
    /\ site \in Sites /\ asked = ResolveWorkingHours(site) /\ legacyKept = FALSE
    /\ img = {} /\ ooh = {} /\ objects = {}
    /\ query = None /\ open = FALSE /\ cursor = None /\ listed = <<>>
    /\ found = <<>> /\ chosen = <<>> /\ stable = {}
    /\ batch = [d \in Deleters |-> <<>>] /\ step = [d \in Deleters |-> "idle"]
    /\ gone = [d \in Deleters |-> {}]
    /\ patches = 0 /\ faults = 0

Next ==
    \/ Capture
    \/ \E u \in Updates : Patch(u)
    \/ \E r \in Requests : Ask(r)
    \/ ListPage \/ ReviewPage \/ Latest \/ FetchBucket \/ FramePage
    \/ \E d \in Deleters :
          DeleteBatch(d) \/ CheckRecord(d) \/ DeleteObject(d) \/ DeleteRecord(d)

Spec == Init /\ [][Next]_vars

-----------------------------------------------------------------------------
(* Properties                                                              *)

TypeOK ==
    /\ now \in 0..Horizon
    /\ site \in SiteRecords /\ asked \in Hours \cup {None} /\ legacyKept \in BOOLEAN
    /\ img \subseteq Instants /\ ooh \subseteq Instants \ img /\ objects \subseteq Instants
    /\ query \in Reads(Int) \cup {None} /\ open \in BOOLEAN /\ (open => query # None)
    /\ cursor \in Instants \cup {None} /\ stable \subseteq Instants
    /\ listed \in Seq(Instants) /\ chosen \in Seq(Instants)
    /\ \A i \in DOMAIN found : found[i] \in Instants \cup {None}
    /\ batch \in [Deleters -> Seq(Instants)] /\ gone \in [Deleters -> SUBSET Instants]
    /\ step \in [Deleters -> {"idle", "check", "object", "record", "done", "error"}]
    /\ patches \in 0..MaxPatches /\ faults \in 0..MaxFaults

(* A capture goes under the 7-day expiry only if, on the clock of the      *)
(* site, nobody is at work at that instant by the hours last asked for;    *)
(* and it goes there then, unless the site could not be read.              *)
FiledAsAsked ==
    /\ ooh' # ooh => asked # None /\ ~AtWork(asked, now, site.zone)
    /\ img' \ img # {} =>
         asked = None \/ AtWork(asked, now, site.zone) \/ faults' > faults

(* Every capture is filed so, a site that still has legacy hours and is    *)
(* told to have none included (api_handover: "When `working_hours` is      *)
(* `null`, every snapshot is treated as in-hours").                        *)
ClassifiedAsAsked == [][FiledAsAsked]_vars

(* Every capture is, but on a site whose hours were cleared by a null that *)
(* found them under the legacy name, until hours are set again.            *)
ClassifiedUnlessLegacyKept == [][legacyKept \/ FiledAsAsked]_vars

StrictlyAscending(s) == \A i, j \in DOMAIN s : i < j => s[i] < s[j]
InOrder(s) == StrictlyAscending(IF query.ascending THEN s ELSE Reverse(s))
InRange(s) == \A i \in DOMAIN s : query.from <= s[i] /\ s[i] <= query.to
Answered(kind) == query # None /\ query.kind = kind /\ ~open

(* A client that follows the cursors, in either direction and of either    *)
(* class, is shown nothing twice, nothing out of order, and everything     *)
(* that was there when it began and stayed, whatever is captured and       *)
(* deleted between the pages; and the latest snapshot is the latest.       *)
ListingIsFaithful ==
    /\ query # None /\ query.kind \in {"list", "review"} =>
         /\ InOrder(listed) /\ InRange(listed)
         /\ \A t \in stable :
              \/ \E i \in DOMAIN listed : listed[i] = t
              \/ open /\ (cursor = None \/ IF query.ascending THEN t > cursor ELSE t < cursor)
    /\ Answered("latest") => \A t \in stable : listed # <<>> /\ t <= listed[1]

(* A sample of N stands for the whole window: at most N snapshots, in      *)
(* order, none twice, and for every snapshot that stayed one that is at    *)
(* most an Nth of the window, rounded up, older.                           *)
SampleIsFaithful ==
    Answered("sample") =>
        /\ Len(chosen) <= query.count /\ InOrder(chosen) /\ InRange(chosen)
        /\ \A t \in stable : \E i \in DOMAIN chosen :
             /\ chosen[i] <= t
             /\ (t - chosen[i]) * query.count < query.to - query.from + query.count

(* A timelapse spans its footage: no more frames than the budget, in       *)
(* order, from the first snapshot that stayed or before to the last or     *)
(* after, and between two frames in a row no more is left out than even    *)
(* spacing demands.                                                        *)
FramesSpanFootage ==
    Answered("frames") =>
        /\ Len(chosen) <= query.budget /\ StrictlyAscending(chosen) /\ InRange(chosen)
        /\ \A t \in stable : /\ t >= chosen[1]
                             /\ query.budget > 1 => t <= Last(chosen)
        /\ \A k \in 1..(Len(chosen) - 1) :
             LET skipped == {t \in stable : chosen[k] < t /\ t < chosen[k + 1]}
             IN  Cardinality(skipped) * (query.budget - 1) < Len(listed) - 1

(* An answered DELETE leaves neither record nor object of its batch.  No   *)
(* object is ever left without its record, and a record without its        *)
(* object -- a broken link in every listing -- is one a DELETE is at or    *)
(* has answered 500 for, so that the same DELETE again removes it.         *)
DeletedIsGone ==
    /\ \A d \in Deleters : step[d] = "done" => gone[d] \cap (img \cup objects) = {}
    /\ objects \subseteq img
    /\ \A t \in img \ objects : \E d \in Deleters :
         step[d] \in {"record", "error"} /\ Head(batch[d]) = t
=============================================================================
