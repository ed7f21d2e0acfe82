-------------------------- MODULE TimelapseListing --------------------------
(***************************************************************************)
(* A client that pages through GET /v1/timelapse-jobs by passing           *)
(* next_cursor back, while jobs are submitted, change status and expire.   *)
(*                                                                         *)
(* DynamoDB keeps the JOB# items of a tenant in the order of their sort    *)
(* key, a random UUID, so the order of keys says nothing of the order of   *)
(* submission.  A job is identified with the rank of its key; 0 stands for *)
(* "no key" (no cursor, or no LastEvaluatedKey).                           *)
(***************************************************************************)
EXTENDS Integers, FiniteSets, FiniteSetsExt

CONSTANTS
    Jobs,       \* the jobs that ever exist, by key rank
    Limit,      \* the page size
    Filters,    \* TRUE \in Filters: requests with a filter, or callers with a
                \* site scope; FALSE \in Filters: requests that take every job
    MaxEvents   \* bound on what happens meanwhile: submissions, expiries,
                \* status changes, Query calls that raise

ASSUME ListingAssumption ==
    /\ Jobs \subseteq Nat \ {0} /\ IsFiniteSet(Jobs)
    /\ Limit \in Nat \ {0}
    /\ Filters \subseteq BOOLEAN
    /\ MaxEvents \in Nat

VARIABLES
    filtered,   \* the client's request has a filter or a scope
    table,      \* the JOB# items that exist
    submitted,  \* the jobs that were ever submitted
    matching,   \* the jobs _matches accepts, as their status is now
    created,    \* [Jobs -> rank of created_at]
    client,     \* "idle", "waiting", "reading" (has a page) or "done"
    cursor,     \* the cursor of the client's request
    resume,     \* _collect_page: resume_key
    collected,  \* _collect_page: collected
    page,       \* the jobs of the page the client was last answered
    listed,     \* every job it has been shown
    steady,     \* the jobs that were there and matched since it began
    events      \* how much has happened meanwhile

request == <<resume, collected>>
answers == <<page, listed>>
vars == <<filtered, table, submitted, matching, created, client, cursor, request, answers,
          steady, events>>

Happens == client # "idle" /\ events < MaxEvents /\ events' = events + 1

Top(S, n) ==        \* the first n of S in the order of the page
    {j \in S : Cardinality({k \in S : created[k] > created[j]}) < n}

-----------------------------------------------------------------------------
(* The client                                                              *)

Begin ==
    /\ client = "idle"
    /\ client' = "waiting" /\ cursor' = 0 /\ resume' = 0 /\ collected' = {}
    /\ steady' = table \cap matching
    /\ UNCHANGED <<filtered, table, submitted, matching, created, answers, events>>

NextPage ==
    /\ client = "reading" /\ cursor # 0
    /\ client' = "waiting" /\ resume' = cursor /\ collected' = {}
    /\ UNCHANGED <<filtered, table, submitted, matching, created, cursor, answers, steady,
                   events>>

(* next_cursor is null: the client has seen the last page.                 *)
Finish ==
    /\ client = "reading" /\ cursor = 0
    /\ client' = "done"
    /\ UNCHANGED <<filtered, table, submitted, matching, created, cursor, request, answers,
                   steady, events>>

-----------------------------------------------------------------------------
(* list_timelapse_jobs: one Query, Limit items past the start key          *)

Past(key) == {j \in table : j > key}

FirstKeys(key) == {j \in Past(key) : Cardinality({k \in Past(key) : k <= j}) <= Limit}

(* DynamoDB answers a LastEvaluatedKey when it stopped at Limit; at the    *)
(* very end of the partition it may answer one or none.                    *)
LastEvaluatedKeys(items) ==
    IF Cardinality(items) < Limit THEN {0}
    ELSE IF Past(Max(items)) = {} THEN {0, Max(items)}
    ELSE {Max(items)}

-----------------------------------------------------------------------------
(* _collect_page                                                           *)

MutantStopAtEndOnly(found, last) == last = 0

(* The loop ends with a page's worth of matches, or with the partition.    *)
Enough(found, last) == Cardinality(found) >= Limit \/ last = 0

MutantResumeAtStart(last) == cursor

(* Where the next Query of the same request starts.                        *)
ResumeKey(last) == last

MutantAnswerKeepsCursor(found, last) ==
    /\ page' = Top(found, Limit)
    /\ listed' = listed \cup page'
    /\ cursor' = IF last = 0 THEN 0 ELSE Max({last - 1, 0})
    /\ client' = "reading"

MutantAnswerUncut(found, last) ==
    /\ page' = found
    /\ listed' = listed \cup page'
    /\ cursor' = last
    /\ client' = "reading"

(* The matches are sorted newest first and cut to Limit; next_cursor is    *)
(* the key after everything that was scanned.                              *)
Answer(found, last) ==
    /\ page' = Top(found, Limit)
    /\ listed' = listed \cup page'
    /\ cursor' = last
    /\ client' = "reading"

Query ==
    /\ client = "waiting"
    /\ LET items == FirstKeys(resume)
           found == collected \cup (items \cap matching)
       IN  \E last \in LastEvaluatedKeys(items) :
              /\ collected' = found
              /\ resume' = ResumeKey(last)
              /\ IF Enough(found, last)
                 THEN Answer(found, last)
                 ELSE UNCHANGED <<answers, cursor, client>>
    /\ UNCHANGED <<filtered, table, submitted, matching, created, steady, events>>

(* The Query raises: 500, and the client sends the same cursor again.      *)
QueryFails ==
    /\ client = "waiting" /\ Happens
    /\ resume' = cursor /\ collected' = {}
    /\ UNCHANGED <<filtered, table, submitted, matching, created, client, cursor, answers,
                   steady>>

-----------------------------------------------------------------------------
(* Meanwhile                                                               *)

(* POST stores a job: its key falls anywhere, its created_at is the newest. *)
Submit(j) ==
    /\ Happens
    /\ j \notin submitted
    /\ \A k \in submitted : created[k] < created[j]
    /\ table' = table \cup {j} /\ submitted' = submitted \cup {j}
    /\ UNCHANGED <<filtered, matching, created, client, cursor, request, answers, steady>>

(* The TTL sweep takes a job; its key is not used again, and a request     *)
(* that has collected the item still sorts it by its created_at.           *)
Expire(j) ==
    /\ Happens
    /\ j \in table
    /\ table' = table \ {j}
    /\ steady' = steady \ {j}
    /\ UNCHANGED <<filtered, submitted, matching, created, client, cursor, request, answers>>

(* The worker moves its status out of the filter, or into it.              *)
StatusChanges(j) ==
    /\ Happens
    /\ filtered
    /\ j \in table
    /\ matching' = IF j \in matching THEN matching \ {j} ELSE matching \cup {j}
    /\ steady' = steady \ {j}
    /\ UNCHANGED <<filtered, table, submitted, created, client, cursor, request, answers>>

-----------------------------------------------------------------------------
Init ==
    /\ table \in SUBSET Jobs /\ submitted = table
    /\ filtered \in Filters
    /\ matching \in (IF filtered THEN SUBSET Jobs ELSE {Jobs})
    /\ created \in {f \in [Jobs -> 1..Cardinality(Jobs)] :
                      \A j, k \in Jobs : f[j] = f[k] => j = k}
    /\ client = "idle" /\ cursor = 0 /\ resume = 0 /\ collected = {}
    /\ page = {} /\ listed = {} /\ steady = {} /\ events = 0

Client == Begin \/ NextPage \/ Finish
Tenant == \E j \in Jobs : Submit(j) \/ Expire(j) \/ StatusChanges(j)

Next == Client \/ Query \/ QueryFails \/ Tenant

Spec == Init /\ [][Next]_vars

(* The client keeps paging, and a Lambda that runs issues its next Query.  *)
FairSpec == Spec /\ WF_vars(Client) /\ WF_vars(Query)

-----------------------------------------------------------------------------
(* Properties                                                              *)

TypeOK ==
    /\ filtered \in BOOLEAN /\ events \in 0..MaxEvents
    /\ table \subseteq submitted /\ submitted \subseteq Jobs /\ matching \subseteq Jobs
    /\ created \in [Jobs -> 1..Cardinality(Jobs)]
    /\ client \in {"idle", "waiting", "reading", "done"}
    /\ cursor \in Jobs \cup {0} /\ resume \in Jobs \cup {0}
    /\ collected \subseteq Jobs /\ page \subseteq Jobs /\ listed \subseteq Jobs
    /\ Cardinality(page) <= Limit
    /\ steady \subseteq Jobs

(* No job appears on two pages, whatever is submitted, expires or changes  *)
(* status between the requests, and however often a page is retried.       *)
NoDuplicate == [][client = "waiting" /\ client' = "reading" => page' \cap listed = {}]_vars

(* A client that has followed next_cursor to null has seen every job that  *)
(* was there, and matched, from the first request to the last.             *)
NothingSkipped == client = "done" => steady \subseteq listed

(* The same for a listing with neither filter nor site scope, where each   *)
(* request takes one Query and the cut to Limit drops nothing.             *)
UnfilteredSkipsNothing == ~filtered => NothingSkipped

(* Paging ends: the loop of _collect_page always reaches the end of the    *)
(* partition, and each cursor is past the one before it.                  *)
EveryListingEnds == client = "waiting" ~> client = "done"
=============================================================================
