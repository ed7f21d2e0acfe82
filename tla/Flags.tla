-------------------------------- MODULE Flags --------------------------------
(***************************************************************************)
(* Camera flags: reports that suppress their own duplicates, admins that   *)
(* move a flag from open to acknowledged to closed, and the listing.       *)
(* Flags are looked up through GSI1, a copy of the table by status that    *)
(* follows it after a delay.  Composed with Accounts, whose pool says who  *)
(* each caller is.                                                         *)
(*                                                                         *)
(* One camera per site.  A flag's row has the key <<tenant, site,          *)
(* raised_at>>, with raised_at to the second, and is named by the report   *)
(* that made it (flag_id is a uuid4).                                      *)
(***************************************************************************)
EXTENDS Accounts

CONSTANTS
    Reasons,
    Reports, Patches, Listings,  \* invocations of the three handlers
    Raised,      \* the flags there are to begin with
    Limit,       \* of a listing
    MaxTime,     \* bound on the clock
    MaxCalls     \* bound on the invocations, of any kind

VARIABLES
    second,      \* the clock
    flags,       \* the FLAG# rows
    index,       \* the rows as GSI1 has them
    report, patch, listing,  \* the invocations: what each is at
    calls,
    blind,       \* history: pairs of reports one of whose checks could not see the other's
    overtaken,   \* history: the requests at whose row another one has written, since
                 \* they read or wrote it and before they write it
    contended    \* history: the keys at which an overtaken request has written

crossings == <<overtaken, contended>>
flagVars == <<second, flags, index, report, patch, listing, blind, crossings>>
vars == <<accountVars, flagVars, calls>>

Live == {"open", "acknowledged"}
Closed == {"resolved", "dismissed"}
Key(f) == <<f.tenant, f.site, f.raised_at>>

(* _VALID_TRANSITIONS                                                      *)
Allowed(status) ==
    CASE status = "open" -> {"acknowledged"} \cup Closed
      [] status = "acknowledged" -> Closed
      [] OTHER -> {}

(* The tenant a call acts in: the caller's own, or, for a super admin, the *)
(* one of its query string.  None is refused.                              *)
ActsIn(by, tenant) ==
    pool[by] # None /\ tenant # None
    /\ (pool[by].group # "super_admin" => tenant = pool[by].tenant)

(* _check_access                                                           *)
MayAccess(account, tenant, site) ==
    \/ account.group = "super_admin"
    \/ account.group = "tenant_admin" /\ account.tenant = tenant
    \/ account.group = "user" /\ account.tenant = tenant /\ site \in account.sites

Called == calls < MaxCalls /\ calls' = calls + 1

(* Who is going to write the row of key k.                                 *)
Writing(k) ==
    {q \in Patches : patch[q].step = "update" /\ patch[q].key = k}
    \cup {r \in Reports : report[r].step = "resend" /\ Key(report[r].flag) = k}

(* What it means to the others that i writes the row of key k.             *)
Crosses(i, k) ==
    IF flags' = flags THEN UNCHANGED crossings
    ELSE /\ overtaken' = overtaken \cup (Writing(k) \ {i})
         /\ contended' = IF i \in overtaken THEN contended \cup {k} ELSE contended

-----------------------------------------------------------------------------
(* POST /v1/flags                                                          *)

(* get_open_flag: where it looks first, and then.                          *)
MutantLookupOrder == [query1 |-> "acknowledged", query2 |-> "open"]
LookupOrder == [query1 |-> "open", query2 |-> "acknowledged"]

Checking(r) == report[r].step \in {"query1", "query2", "put"}

(* The caller may access the site, and its camera exists.                  *)
Report(r, by, tenant, site, reason) ==
    /\ report[r].step = "idle" /\ Called
    /\ ActsIn(by, tenant) /\ MayAccess(pool[by], tenant, site)
    /\ tenant \in DOMAIN SitesOf /\ site \in SitesOf[tenant]
    /\ report' = [report EXCEPT ![r] =
                     [step |-> "query1", by |-> by, tenant |-> tenant, site |-> site,
                      reason |-> reason]]
    /\ blind' = blind \cup {{r, other} : other \in {o \in Reports : Checking(o)}}
    /\ UNCHANGED <<accountVars, second, flags, index, patch, listing, crossings>>

MutantMatching(r, status) ==
    {f \in index : /\ f.status = status
                   /\ f.site = report[r].site /\ f.reason = report[r].reason}

Matching(r, status) ==
    {f \in index : /\ f.status = status /\ f.tenant = report[r].tenant
                   /\ f.site = report[r].site /\ f.reason = report[r].reason}

(* One of the two queries.  A flag that is found is the answer: 200.       *)
FindDuplicate(r) ==
    /\ report[r].step \in {"query1", "query2"}
    /\ LET found == Matching(r, LookupOrder[report[r].step])
           answer(f) == [step |-> "duplicate", by |-> report[r].by, flag |-> f]
       IN  IF found # {}
           THEN \E f \in found : report' = [report EXCEPT ![r] = answer(f)]
           ELSE report' = [report EXCEPT ![r].step = IF @ = "query1" THEN "query2" ELSE "put"]
    /\ blind' = blind \cup {{r, f.id} : f \in flags \ index}
    /\ UNCHANGED <<accountVars, calls, second, flags, index, patch, listing, crossings>>

NewFlag(r) ==
    [id |-> r, tenant |-> report[r].tenant, site |-> report[r].site,
     reason |-> report[r].reason, status |-> "open", raised_at |-> second,
     raised_by |-> report[r].by, acting_user |-> None]

(* A put without a condition: a row with the same key is replaced.         *)
Replace(flag) == flags' = {f \in flags : Key(f) # Key(flag)} \cup {flag}

(* put_flag.  When the reply is lost the SDK sends the same item again.    *)
PutFlag(r) ==
    /\ report[r].step = "put"
    /\ Replace(NewFlag(r)) /\ Crosses(r, Key(NewFlag(r)))
    /\ \/ report' = [report EXCEPT ![r] = [step |-> "created"]] /\ UNCHANGED faults
       \/ report' = [report EXCEPT ![r] = [step |-> "resend", flag |-> NewFlag(r)]] /\ Fault
    /\ UNCHANGED <<pool, users, create, origin, calls, second, index, patch, listing, blind>>

(* The item once more, over whatever has become of the row.                *)
ResendFlag(r) ==
    /\ report[r].step = "resend"
    /\ Replace(report[r].flag) /\ Crosses(r, Key(report[r].flag))
    /\ \/ report' = [report EXCEPT ![r] = [step |-> "created"]] /\ UNCHANGED faults
       \/ Fault /\ UNCHANGED report
    /\ UNCHANGED <<pool, users, create, origin, calls, second, index, patch, listing, blind>>

-----------------------------------------------------------------------------
(* PATCH /v1/flags/{flag_id}                                               *)

(* get_flag_by_id: among the flags of one tenant.                          *)
FlagById(tenant, id) == {f \in flags : f.tenant = tenant /\ f.id = id}

MutantPatchLoad(q, by, tenant, id, status) ==
    /\ patch[q].step = "idle" /\ Called
    /\ ActsIn(by, tenant) /\ pool[by].group # "user"
    /\ \E f \in FlagById(tenant, id) :
          patch' = [patch EXCEPT ![q] = [step |-> "update", by |-> by, key |-> Key(f),
                                        status |-> status]]
    /\ UNCHANGED <<accountVars, second, flags, index, report, listing, blind, crossings>>

(* The role, the flag and the transition are checked; 403, 404 and 409     *)
(* change nothing.                                                         *)
PatchLoad(q, by, tenant, id, status) ==
    /\ patch[q].step = "idle" /\ Called
    /\ ActsIn(by, tenant) /\ pool[by].group # "user"
    /\ \E f \in FlagById(tenant, id) :
          /\ status \in Allowed(f.status)
          /\ patch' = [patch EXCEPT ![q] = [step |-> "update", by |-> by, key |-> Key(f),
                                           status |-> status]]
    /\ UNCHANGED <<accountVars, second, flags, index, report, listing, blind, crossings>>

(* update_flag_status: by key, without a condition.  When the reply is     *)
(* lost the SDK sends the update again.                                    *)
PatchUpdate(q) ==
    /\ patch[q].step = "update"
    /\ flags' = {IF Key(f) = patch[q].key
                 THEN [f EXCEPT !.status = patch[q].status, !.acting_user = patch[q].by]
                 ELSE f : f \in flags}
    /\ Crosses(q, patch[q].key)
    /\ \/ patch' = [patch EXCEPT ![q] = [step |-> "done"]] /\ UNCHANGED faults
       \/ Fault /\ UNCHANGED patch
    /\ UNCHANGED <<pool, users, create, origin, calls, second, index, report, listing, blind>>

-----------------------------------------------------------------------------
(* GET /v1/flags, with the default statuses                                *)

MutantDefaultStatuses == [query1 |-> "acknowledged", query2 |-> "open"]
DefaultStatuses == [query1 |-> "open", query2 |-> "acknowledged"]

(* What the caller may see of the tenant he asks for; a super admin may    *)
(* ask for all of them.                                                    *)
Visible(caller, tenant, f) ==
    /\ tenant \in {None, f.tenant}
    /\ caller.group = "user" => f.site \in caller.sites

ListFlags(l, by, tenant) ==
    /\ listing[l].step = "idle" /\ Called
    /\ ActsIn(by, tenant) \/ (pool[by] # None /\ pool[by].group = "super_admin"
                                /\ tenant = None)
    /\ listing' = [listing EXCEPT ![l] =
          [step |-> "query1", by |-> by, caller |-> pool[by], tenant |-> tenant, items |-> {},
           owed |-> {f.id : f \in {g \in index : g.status \in Live
                                                 /\ Visible(pool[by], tenant, g)}}]]
    /\ UNCHANGED <<accountVars, second, flags, index, report, patch, blind, crossings>>

(* The newest Limit of what was found, in no order among one second.       *)
Newest(items) ==
    IF Cardinality(items) <= Limit THEN {items}
    ELSE {S \in SUBSET items : /\ Cardinality(S) = Limit
                               /\ \A f \in S, g \in items \ S : f.raised_at >= g.raised_at}

(* What the handler makes of the items: for a user, those of his sites.    *)
Shown(caller, items) == {f \in items : caller.group = "user" => f.site \in caller.sites}

(* list_flags: one query for each status, with the tenant as a filter;     *)
(* after the last the items are cut to the limit, and only then shown.     *)
(* The cursor of a cut listing is refused by the table: no second page.    *)
QueryFlags(l) ==
    /\ listing[l].step \in {"query1", "query2"}
    /\ LET q == listing[l]
           items == q.items \cup {f \in index : /\ f.status = DefaultStatuses[q.step]
                                                /\ q.tenant \in {None, f.tenant}}
           answer(S) ==
              [step |-> "answered", by |-> q.by,
               shown |-> Shown(q.caller, S),
               owed |-> IF Cardinality(items) <= Limit
                        THEN {f.id : f \in {g \in index : /\ g.id \in q.owed /\ g.status \in Live
                                                         /\ Key(g) \notin contended}}
                        ELSE {}]
       IN  IF q.step = "query1"
           THEN listing' = [listing EXCEPT ![l] = [@ EXCEPT !.step = "query2", !.items = items]]
           ELSE \E S \in Newest(items) : listing' = [listing EXCEPT ![l] = answer(S)]
    /\ UNCHANGED <<accountVars, calls, second, flags, index, report, patch, blind, crossings>>

-----------------------------------------------------------------------------
(* GSI1 catches up with one row.                                           *)
Propagate ==
    /\ \E k \in {Key(f) : f \in flags \ index} :
          index' = {f \in index : Key(f) # k} \cup {f \in flags : Key(f) = k}
    /\ UNCHANGED <<accountVars, calls, second, flags, report, patch, listing, blind, crossings>>

Tick ==
    /\ second < MaxTime /\ second' = second + 1
    /\ UNCHANGED <<accountVars, calls, flags, index, report, patch, listing, blind, crossings>>

Init ==
    /\ AccountsInit
    /\ second = 1
    /\ flags = Raised /\ index = Raised
    /\ report = [r \in Reports |-> [step |-> "idle"]]
    /\ patch = [q \in Patches |-> [step |-> "idle"]]
    /\ listing = [l \in Listings |-> [step |-> "idle"]]
    /\ calls = 0
    /\ blind = {} /\ overtaken = {} /\ contended = {}

Provision(c) ==
    /\ CreateUser(c) /\ UNCHANGED flagVars
    /\ IF At(c, "idle") THEN Called ELSE UNCHANGED calls

Tenants == DOMAIN SitesOf
Sites == UNION {SitesOf[t] : t \in Tenants}
FlagIds == Reports \cup {f.id : f \in Raised}

FlagRow == [id : FlagIds, tenant : Tenants, site : Sites, reason : Reasons,
            status : Live \cup Closed, raised_at : Nat,
            raised_by : Emails \cup {None}, acting_user : Emails \cup {None}]

(* Two live flags of one camera for one reason.                            *)
Duplicates(f, g) ==
    /\ f # g /\ f.status \in Live /\ g.status \in Live
    /\ f.tenant = g.tenant /\ f.site = g.site /\ f.reason = g.reason

(* The table begins without duplicates: its keys are unique, and an id is  *)
(* the uuid4 of one report.  An invocation is of one handler.              *)
ASSUME TableAssumption ==
    /\ MaxTime \in Nat \ {0} /\ MaxCalls \in Nat
    /\ Reports \cap Patches = {}
    /\ Raised \subseteq FlagRow
    /\ \A f \in Raised : f.id \notin Reports /\ f.raised_by = None /\ f.acting_user = None
    /\ \A f, g \in Raised : Key(f) = Key(g) \/ f.id = g.id => f = g
    /\ \A f, g \in Raised : ~Duplicates(f, g)

Next ==
    \/ \E c \in Creators : Provision(c)
    \/ \E r \in Reports :
          \/ \E by \in Emails, t \in Tenants, s \in Sites, why \in Reasons :
                Report(r, by, t, s, why)
          \/ FindDuplicate(r) \/ PutFlag(r) \/ ResendFlag(r)
    \/ \E q \in Patches :
          \/ \E by \in Emails, t \in Tenants, id \in FlagIds,
                status \in Closed \cup {"acknowledged"} : PatchLoad(q, by, t, id, status)
          \/ PatchUpdate(q)
    \/ \E l \in Listings :
          \/ \E by \in Emails, t \in Tenants \cup {None} : ListFlags(l, by, t)
          \/ QueryFlags(l)
    \/ Propagate \/ Tick

Spec == Init /\ [][Next]_vars

-----------------------------------------------------------------------------
(* Properties                                                              *)

TypeOK ==
    /\ AccountsTypeOK
    /\ second \in 1..MaxTime /\ calls \in 0..MaxCalls
    /\ flags \subseteq FlagRow /\ index \subseteq FlagRow
    /\ \A f, g \in flags : Key(f) = Key(g) \/ f.id = g.id => f = g
    /\ \A f, g \in index : Key(f) = Key(g) => f = g
    /\ \A r \in Reports :
          report[r].step \in {"idle", "query1", "query2", "put", "resend", "duplicate", "created"}
    /\ \A q \in Patches : patch[q].step \in {"idle", "update", "done"}
    /\ \A l \in Listings : listing[l].step \in {"idle", "query1", "query2", "answered"}
    /\ overtaken \subseteq Reports \cup Patches
    /\ contended \subseteq Tenants \X Sites \X Nat
    /\ \A pair \in blind : pair \subseteq FlagIds

(* One live flag of a camera and a reason, unless the two reports          *)
(* overlapped, or a request that had been overtaken wrote one of the rows, *)
(* or the index had not caught up when one of the reports looked -- and    *)
(* not because a flag was acknowledged between the two places a report     *)
(* looks in.                                                               *)
DuplicatesOnlyFromOverlap ==
    \A f, g \in flags :
        Duplicates(f, g) =>
            {f.id, g.id} \in blind \/ {Key(f), Key(g)} \cap contended # {}

(* A flag is never reopened, nor is an acknowledgement taken back, but by  *)
(* the write of a request that another one overtook: a PATCH that decided  *)
(* on what the row was before, or a new flag that is sent once more.  It   *)
(* is the row that counts: of two flags raised in one second the later     *)
(* takes it, and a PATCH of the earlier meets it.                          *)
StatusMovesForward ==
    [][ \A f \in flags, g \in flags' :
          f.id = g.id =>
             \/ g.status \in {f.status} \cup Allowed(f.status)
             \/ \E q \in Patches \cap overtaken : PatchUpdate(q) /\ patch[q].key = Key(f)
             \/ \E r \in Reports \cap overtaken : ResendFlag(r) /\ Key(report[r].flag) = Key(f)
      ]_vars

(* What a caller is shown, told or let change of the flags belongs to the  *)
(* tenant of his account and, if he is a user, to its sites, whoever made  *)
(* the account and whatever of that failed; super admins apart.            *)
TenantsAreIsolated ==
    LET reach(by, f) == MayAccess(pool[by], f.tenant, f.site)
    IN  /\ \A l \in Listings : listing[l].step = "answered" =>
             \A f \in listing[l].shown : reach(listing[l].by, f)
        /\ \A r \in Reports : report[r].step = "duplicate" =>
             reach(report[r].by, report[r].flag)
        /\ \A f \in flags \ Raised :
             /\ f.raised_by # None => reach(f.raised_by, f)
             /\ f.acting_user # None => /\ reach(f.acting_user, f)
                                        /\ pool[f.acting_user].group # "user"

(* A listing that was not cut shows every flag the caller may see that the *)
(* index held as live when it began and held as live when it ended: one    *)
(* that is acknowledged between the two queries is not lost.               *)
LiveFlagsAreListed ==
    \A l \in Listings : listing[l].step = "answered" =>
        listing[l].owed \subseteq {f.id : f \in listing[l].shown}
=============================================================================
