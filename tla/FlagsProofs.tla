----------------------------- MODULE FlagsProofs -----------------------------
(***************************************************************************)
(* Proofs about the life of flags, for any reports, PATCH requests,        *)
(* listings and tenants, and however far GSI1 lags behind the table.       *)
(***************************************************************************)
EXTENDS AccountsProofs

-----------------------------------------------------------------------------
(* The inductive invariant                                                 *)

(* The two tables: a key, and an id, is of one flag.                       *)
Tables ==
    /\ flags \subseteq FlagRow /\ index \subseteq FlagRow
    /\ \A f, g \in flags : Key(f) = Key(g) => f = g
    /\ \A f, g \in index : Key(f) = Key(g) => f = g
    /\ \A f, g \in flags \cup index : f.id = g.id => Key(f) = Key(g)

(* A report that has not raised its flag has none.                         *)
Unraised(r) == report[r].step \notin {"resend", "created"}
NewIds ==
    \A r \in Reports : Unraised(r) => \A f \in flags \cup index : f.id # r

(* What is sent again is the row of its key and its id, and the very row   *)
(* that is there unless another request has written it.                    *)
ResendOK(r) ==
    LET flag == report[r].flag
    IN  /\ flag \in FlagRow /\ flag.id = r /\ flag.status = "open"
        /\ \A f \in flags \cup index : f.id = r => Key(f) = Key(flag)
        /\ r \notin overtaken => flag \in flags
ResendsOK == \A r \in Reports : report[r].step = "resend" => ResendOK(r)

ReportsTyped ==
    \A r \in Reports :
        /\ report[r].step \in {"idle", "query1", "query2", "put", "resend", "duplicate", "created"}
        /\ Checking(r) => /\ report[r].by \in Emails /\ report[r].tenant \in Tenants
                          /\ report[r].site \in Sites /\ report[r].reason \in Reasons

PatchesTyped ==
    \A q \in Patches :
        /\ patch[q].step \in {"idle", "update", "done"}
        /\ patch[q].step = "update" => /\ patch[q].by \in Emails
                                       /\ patch[q].key \in Tenants \X Sites \X Nat
                                       /\ patch[q].status \in Closed \cup {"acknowledged"}

Histories ==
    /\ second \in 1..MaxTime
    /\ overtaken \subseteq Reports \cup Patches
    /\ contended \subseteq Tenants \X Sites \X Nat
    /\ \A pair \in blind : pair \subseteq FlagIds

(* GSI1 shows a flag at a status it had.                                   *)
Later(f, g) == g.status \in {f.status} \cup Allowed(f.status)
IndexBehind ==
    \A f \in index, g \in flags : f.id = g.id /\ Key(f) \notin contended => Later(f, g)

(* What a PATCH that nobody has overtaken sets is where the row is, or     *)
(* where it may go.                                                        *)
PatchAllowed ==
    \A q \in Patches \ overtaken, f \in flags :
        patch[q].step = "update" /\ Key(f) = patch[q].key =>
            patch[q].status \in {f.status} \cup Allowed(f.status)

(* Reports that overlap are blind to each other;                           *)
Overlapping ==
    \A r, o \in Reports : Checking(r) /\ Checking(o) /\ r # o => {r, o} \in blind

(* and what a report has looked for it would have found.                   *)
Of(r, f) ==
    f.tenant = report[r].tenant /\ f.site = report[r].site /\ f.reason = report[r].reason
LookedFor(r, f) ==
    \/ report[r].step = "query2" /\ f.status = "open"
    \/ report[r].step = "put" /\ f.status \in Live
Looked ==
    \A r \in Reports, f \in flags :
        LookedFor(r, f) /\ Of(r, f) => {r, f.id} \in blind \/ Key(f) \in contended

(* A listing owes flags that the caller may see, in the index as long as   *)
(* they are in the table; the open ones it has found already.  A flag that *)
(* is sent again is one the caller may see too.                            *)
Under(l) == listing[l].step \in {"query1", "query2"}
Owes(l) ==
    LET q == listing[l]
    IN  /\ \A r \in Reports : Unraised(r) => r \notin q.owed
        /\ \A r \in Reports :
              report[r].step = "resend" /\ r \in q.owed => Visible(q.caller, q.tenant, report[r].flag)
        /\ \A g \in flags \cup index : g.id \in q.owed => Visible(q.caller, q.tenant, g)
        /\ \A g \in flags : g.id \in q.owed /\ Key(g) \notin contended => \E h \in index : h.id = g.id
        /\ q.step = "query2" =>
             \A g \in index :
                 g.id \in q.owed /\ g.status = "open" /\ Key(g) \notin contended =>
                     \E f \in q.items : f.id = g.id /\ Visible(q.caller, q.tenant, f)
ListingsOwe ==
    \A l \in Listings :
        /\ listing[l].step \in {"idle", "query1", "query2", "answered"}
        /\ Under(l) => Owes(l)
        /\ listing[l].step = "answered" =>
              listing[l].owed \subseteq {f.id : f \in listing[l].shown}

KInv ==
    /\ Tables /\ NewIds /\ ResendsOK /\ ReportsTyped /\ PatchesTyped /\ Histories
    /\ IndexBehind /\ PatchAllowed /\ Overlapping /\ Looked
    /\ DuplicatesOnlyFromOverlap /\ ListingsOwe

-----------------------------------------------------------------------------
(* Rows, keys and statuses                                                 *)

LEMMA RowTyped ==
    ASSUME NEW f \in FlagRow
    PROVE  /\ f.id \in FlagIds /\ f.status \in Live \cup Closed
           /\ f.tenant \in Tenants /\ f.site \in Sites /\ f.raised_at \in Nat
           /\ Key(f) \in Tenants \X Sites \X Nat
BY DEF FlagRow, Key

LEMMA KeyIsCamera ==
    ASSUME NEW f \in FlagRow, NEW g \in FlagRow, Key(f) = Key(g)
    PROVE  f.tenant = g.tenant /\ f.site = g.site
BY DEF Key

(* A status reached in two allowed moves may be reached in one, and open   *)
(* in none.                                                                *)
LEMMA StatusesForward ==
    ASSUME NEW s \in Live \cup Closed, NEW t \in Live \cup Closed, t \in {s} \cup Allowed(s)
    PROVE  /\ Allowed(t) \subseteq Allowed(s)
           /\ t \in Live => s \in Live
           /\ t = "open" => s = "open"
           /\ t # s => t \in Closed \cup {"acknowledged"}
BY DEF Allowed, Live, Closed

LEMMA OpenMovesAnywhere == Allowed("open") = Closed \cup {"acknowledged"}
BY DEF Allowed

(* With its ids and keys apart, an id is one row of the table.             *)
LEMMA IdIsRow ==
    ASSUME Tables, NEW f \in flags, NEW g \in flags, f.id = g.id
    PROVE  f = g
BY DEF Tables

-----------------------------------------------------------------------------
(* The inductive invariant holds at first.                                 *)
LEMMA FlagsLifeStart == Init => KInv
<1> SUFFICES ASSUME Init PROVE KInv
  OBVIOUS
<1> USE TableAssumption
<1>1. /\ flags = Raised /\ index = Raised /\ second = 1
      /\ blind = {} /\ overtaken = {} /\ contended = {}
      /\ \A r \in Reports : report[r].step = "idle"
      /\ \A q \in Patches : patch[q].step = "idle"
      /\ \A l \in Listings : listing[l].step = "idle"
  BY DEF Init
<1>2. Tables /\ NewIds /\ ResendsOK
  BY <1>1 DEF Tables, NewIds, ResendsOK
<1>3. ReportsTyped /\ PatchesTyped /\ PatchAllowed /\ Overlapping /\ Looked
  BY <1>1 DEF ReportsTyped, PatchesTyped, PatchAllowed, Overlapping, Looked, LookedFor, Checking
<1>4. Histories
  BY <1>1 DEF Histories
<1>5. IndexBehind /\ DuplicatesOnlyFromOverlap
  BY <1>1 DEF IndexBehind, Later, DuplicatesOnlyFromOverlap
<1>6. ListingsOwe
  BY <1>1 DEF ListingsOwe, Under
<1> QED
  BY <1>2, <1>3, <1>4, <1>5, <1>6 DEF KInv

(* What is owed depends on the rows' ids and cameras only: a row is there  *)
(* already, or of a report that was not, or one sent again.                *)
LEMMA ListingsKept ==
    ASSUME ListingsOwe, UNCHANGED <<listing, index>>, contended \subseteq contended',
           \A r \in Reports : /\ Unraised(r)' => Unraised(r)
                              /\ report'[r].step = "resend" =>
                                    Unraised(r) \/ (report[r].step = "resend"
                                                     /\ report'[r].flag = report[r].flag),
           \A g \in flags' :
              \/ \E f \in flags : /\ f.id = g.id /\ Key(f) = Key(g)
                                   /\ f.tenant = g.tenant /\ f.site = g.site
              \/ g.id \in Reports /\ Unraised(g.id)
              \/ /\ g.id \in Reports /\ report[g.id].step = "resend" /\ g = report[g.id].flag
                 /\ Key(g) \in contended'
    PROVE  ListingsOwe'
<1>1. ASSUME NEW l \in Listings, Under(l) PROVE Owes(l)'
  <2> DEFINE q == listing[l]
  <2>1. Owes(l) /\ listing'[l] = q
    BY <1>1 DEF ListingsOwe
  <2>2. \A g \in flags' : g.id \in q.owed =>
          \/ \E f \in flags : /\ f.id = g.id /\ Key(f) = Key(g)
                               /\ f.tenant = g.tenant /\ f.site = g.site
          \/ /\ g.id \in Reports /\ report[g.id].step = "resend" /\ g = report[g.id].flag
             /\ Key(g) \in contended'
    BY <2>1 DEF Owes
  <2>3. \A r \in Reports : Unraised(r)' => r \notin q.owed
    BY <2>1 DEF Owes
  <2>4. \A r \in Reports : report'[r].step = "resend" /\ r \in q.owed =>
           Visible(q.caller, q.tenant, report'[r].flag)
    BY <2>1 DEF Owes
  <2>5. \A g \in flags' \cup index' : g.id \in q.owed => Visible(q.caller, q.tenant, g)
    BY <2>1, <2>2 DEF Owes, Visible
  <2>6. \A g \in flags' : g.id \in q.owed /\ Key(g) \notin contended' => \E h \in index' : h.id = g.id
    BY <2>1, <2>2 DEF Owes
  <2>7. q.step = "query2" =>
           \A g \in index' : g.id \in q.owed /\ g.status = "open" /\ Key(g) \notin contended' =>
              \E f \in q.items : f.id = g.id /\ Visible(q.caller, q.tenant, f)
    BY <2>1 DEF Owes
  <2> QED
    BY <2>1, <2>3, <2>4, <2>5, <2>6, <2>7 DEF Owes
<1> QED
  BY <1>1 DEF ListingsOwe, Under

(* Whoever is about to write a row that has been written is overtaken: the *)
(* rest may still write what they would have written.                      *)
LEMMA CrossingKeeps ==
    ASSUME KInv, NEW i \in Reports \cup Patches, NEW k \in Tenants \X Sites \X Nat, Crosses(i, k),
           \A f \in flags \cup flags' : Key(f) # k => (f \in flags <=> f \in flags')
    PROVE  /\ contended \subseteq contended' /\ overtaken \subseteq overtaken'
           /\ overtaken' \subseteq Reports \cup Patches
           /\ contended' \subseteq Tenants \X Sites \X Nat
           /\ flags' = flags \/ i \notin overtaken \/ k \in contended'
           /\ \A r \in Reports \ (overtaken' \cup {i}) :
                 report[r].step = "resend" => report[r].flag \in flags'
           /\ \A q \in Patches \ (overtaken' \cup {i}), f \in flags' :
                 patch[q].step = "update" /\ Key(f) = patch[q].key =>
                    patch[q].status \in {f.status} \cup Allowed(f.status)
<1>1. CASE flags' = flags
  <2>1. UNCHANGED crossings
    BY <1>1 DEF Crosses
  <2> QED
    BY <1>1, <2>1 DEF crossings, KInv, Histories, ResendsOK, ResendOK, PatchAllowed
<1>2. CASE flags' # flags
  <2>1. /\ overtaken' = overtaken \cup (Writing(k) \ {i})
        /\ contended' = IF i \in overtaken THEN contended \cup {k} ELSE contended
    BY <1>2 DEF Crosses
  <2>2. /\ contended \subseteq contended' /\ overtaken \subseteq overtaken'
        /\ overtaken' \subseteq Reports \cup Patches
        /\ contended' \subseteq Tenants \X Sites \X Nat
        /\ i \notin overtaken \/ k \in contended'
    BY <2>1 DEF Writing, KInv, Histories
  <2>3. ASSUME NEW r \in Reports \ (overtaken' \cup {i}), report[r].step = "resend"
        PROVE  report[r].flag \in flags'
    <3>1. report[r].flag \in flags
      BY <2>2, <2>3 DEF KInv, ResendsOK, ResendOK
    <3>2. Key(report[r].flag) # k
      BY <2>1, <2>3 DEF Writing
    <3> QED
      BY <3>1, <3>2
  <2>4. ASSUME NEW q \in Patches \ (overtaken' \cup {i}), NEW f \in flags',
               patch[q].step = "update", Key(f) = patch[q].key
        PROVE  patch[q].status \in {f.status} \cup Allowed(f.status)
    <3>1. Key(f) # k
      BY <2>1, <2>4 DEF Writing
    <3>2. f \in flags
      BY <3>1
    <3> QED
      BY <2>2, <2>4, <3>2 DEF KInv, PatchAllowed
  <2> QED
    BY <2>2, <2>3, <2>4
<1> QED
  BY <1>1, <1>2

-----------------------------------------------------------------------------
(* Reports                                                                 *)

(* What the changes of one report leave alone.                             *)
LEMMA ReportStepKeeps ==
    ASSUME KInv, FInv, NEW r \in Reports, UNCHANGED <<flags, index, patch, crossings>>
    PROVE  /\ Tables' /\ PatchesTyped' /\ IndexBehind' /\ PatchAllowed'
           /\ blind \subseteq blind' => DuplicatesOnlyFromOverlap'
BY DEF crossings, KInv, Tables, PatchesTyped, IndexBehind, PatchAllowed, DuplicatesOnlyFromOverlap

(* A new report is blind to the ones that are checking already.            *)
LEMMA ReportLives ==
    ASSUME KInv, FInv, NEW r \in Reports, NEW by \in Emails, NEW t \in Tenants,
           NEW s \in Sites, NEW why \in Reasons, Report(r, by, t, s, why)
    PROVE  KInv'
<1> DEFINE q == [step |-> "query1", by |-> by, tenant |-> t, site |-> s, reason |-> why]
<1>1. /\ report[r].step = "idle"
      /\ UNCHANGED <<flags, index, patch, listing, crossings, overtaken, contended, second>>
      /\ blind' = blind \cup {{r, other} : other \in {o \in Reports : Checking(o)}}
  BY DEF Report, crossings
<1>2. /\ report'[r] = q
      /\ \A o \in Reports : o # r => report'[o] = report[o]
  BY DEF Report, FInv, ReportsOK
<1>3. \A o \in Reports : o # r => (Checking(o)' <=> Checking(o))
  BY <1>2 DEF Checking
<1>4. NewIds' /\ ResendsOK' /\ ReportsTyped'
  BY <1>1, <1>2 DEF KInv, NewIds, Unraised, ResendsOK, ResendOK, ReportsTyped, Checking
<1>5. Histories'
  <2>1. \A o \in Reports : {r, o} \subseteq FlagIds
    BY DEF FlagIds
  <2> QED
    BY <1>1, <2>1 DEF KInv, Histories, Tenants, Sites
<1>6. Overlapping'
  <2>1. \A o \in Reports : Checking(o) => {r, o} \in blind' /\ {o, r} \in blind'
    <3> SUFFICES ASSUME NEW o \in Reports, Checking(o) PROVE {r, o} \in blind'
      BY Zenon
    <3> QED
      BY <1>1
  <2> QED
    BY <1>1, <1>3, <2>1 DEF KInv, Overlapping
<1>7. Looked'
  BY <1>1, <1>2 DEF KInv, Looked, LookedFor, Of
<1>8. ListingsOwe'
  BY <1>1, <1>2, ListingsKept DEF KInv, Unraised
<1> QED
  BY <1>1, <1>4, <1>5, <1>6, <1>7, <1>8, ReportStepKeeps DEF KInv

(* A look at GSI1 that finds nothing is blind to what GSI1 does not show,  *)
(* and to nothing else.                                                    *)
LEMMA FindLives ==
    ASSUME KInv, FInv, NEW r \in Reports, FindDuplicate(r)
    PROVE  KInv'
<1>1. /\ report[r].step \in {"query1", "query2"} /\ Checking(r)
      /\ UNCHANGED <<flags, index, patch, listing, crossings, overtaken, contended, second>>
      /\ blind' = blind \cup {{r, f.id} : f \in flags \ index}
  BY DEF FindDuplicate, Checking, crossings
<1>2. \A o \in Reports : o # r => report'[o] = report[o]
  BY DEF FindDuplicate, FInv, ReportsOK
<1>3. \/ report'[r].step = "duplicate"
      \/ /\ Matching(r, LookupOrder[report[r].step]) = {}
         /\ report'[r] = [report[r] EXCEPT
                            !.step = IF report[r].step = "query1" THEN "query2" ELSE "put"]
  BY DEF FindDuplicate, FInv, ReportsOK
<1>4. {"step", "by", "tenant", "site", "reason"} \subseteq DOMAIN report[r]
  BY <1>1 DEF FInv, ReportsOK, ReportOK
<1>5. \/ report'[r].step = "duplicate"
      \/ /\ Matching(r, LookupOrder[report[r].step]) = {}
         /\ report'[r].step = IF report[r].step = "query1" THEN "query2" ELSE "put"
         /\ report'[r].by = report[r].by /\ report'[r].tenant = report[r].tenant
         /\ report'[r].site = report[r].site /\ report'[r].reason = report[r].reason
  BY <1>3, <1>4
<1>6. /\ report'[r].step \in {"query2", "put", "duplicate"}
      /\ \A o \in Reports : Checking(o)' => Checking(o)
  BY <1>1, <1>2, <1>5 DEF Checking
<1>7. NewIds' /\ ResendsOK'
  BY <1>1, <1>2, <1>6 DEF KInv, NewIds, Unraised, ResendsOK, ResendOK
<1>8. ReportsTyped'
  BY <1>1, <1>2, <1>5 DEF KInv, ReportsTyped, Checking
<1>9. Histories'
  <2>1. \A f \in flags : {r, f.id} \subseteq FlagIds
    BY RowTyped DEF KInv, Tables, FlagIds
  <2> QED
    BY <1>1, <2>1 DEF KInv, Histories, Tenants, Sites
<1>10. Overlapping'
  BY <1>1, <1>6 DEF KInv, Overlapping
<1>11. Looked'
  <2> SUFFICES ASSUME NEW o \in Reports, NEW f \in flags, LookedFor(o, f)', Of(o, f)'
               PROVE  {o, f.id} \in blind' \/ Key(f) \in contended
    BY <1>1 DEF Looked
  <2>1. CASE o # r
    BY <1>1, <1>2, <2>1 DEF KInv, Looked, LookedFor, Of
  <2>2. CASE o = r
    <3>1. CASE f \notin index
      BY <1>1, <2>2, <3>1
    <3>2. CASE f \in index
      <4>1. /\ Matching(r, LookupOrder[report[r].step]) = {}
            /\ Of(r, f)
            /\ report'[r].step = IF report[r].step = "query1" THEN "query2" ELSE "put"
        BY <1>5, <2>2 DEF LookedFor, Of
      <4>2. f.status # LookupOrder[report[r].step]
        BY <3>2, <4>1 DEF Matching, Of
      <4>3. report[r].step = "query2" /\ f.status = "open"
        BY <1>1, <2>2, <4>1, <4>2 DEF LookedFor, LookupOrder, Live
      <4> QED
        BY <1>1, <2>2, <4>1, <4>3 DEF KInv, Looked, LookedFor
    <3> QED
      BY <3>1, <3>2
  <2> QED
    BY <2>1, <2>2
<1>12. ListingsOwe'
  BY <1>1, <1>2, <1>6, ListingsKept DEF KInv, Unraised
<1> QED
  BY <1>1, <1>7, <1>8, <1>9, <1>10, <1>11, <1>12, ReportStepKeeps DEF KInv

(* The flag a report raises is new, and a duplicate only of one the report *)
(* could not see, or of one that is contended.                             *)
LEMMA PutLives ==
    ASSUME KInv, FInv, NEW r \in Reports, PutFlag(r)
    PROVE  KInv'
<1> DEFINE flag == NewFlag(r)
<1>1. /\ report[r].step = "put" /\ Checking(r) /\ Unraised(r)
      /\ UNCHANGED <<index, patch, listing, blind, second>>
      /\ flags' = {f \in flags : Key(f) # Key(flag)} \cup {flag}
      /\ Crosses(r, Key(flag))
  BY DEF PutFlag, Replace, Checking, Unraised
<1>2. /\ \/ report'[r].step = "created"
         \/ report'[r].step = "resend" /\ report'[r].flag = flag
      /\ \A o \in Reports : o # r => report'[o] = report[o]
  BY DEF PutFlag, FInv, ReportsOK
<1>3. /\ flag \in FlagRow /\ flag.id = r /\ flag.status = "open" /\ Of(r, flag)
  <2>1. second \in Nat
    BY TableAssumption DEF KInv, Histories
  <2>2. r \in FlagIds
    BY DEF FlagIds
  <2>3. /\ report[r].by \in Emails /\ report[r].tenant \in Tenants
        /\ report[r].site \in Sites /\ report[r].reason \in Reasons
    BY <1>1 DEF KInv, ReportsTyped
  <2> QED
    BY <2>1, <2>2, <2>3 DEF NewFlag, FlagRow, Of, Live
<1> HIDE DEF flag
<1>4. \A f \in flags' : f = flag \/ (f \in flags /\ Key(f) # Key(flag))
  BY <1>1
<1>5. \A f \in flags \cup index : f.id # r
  BY <1>1 DEF KInv, NewIds
<1>6. Tables'
  <2>1. \A f, g \in flags' : Key(f) = Key(g) => f = g
    BY <1>4 DEF KInv, Tables
  <2>2. \A f, g \in flags' \cup index' : f.id = g.id => Key(f) = Key(g)
    BY <1>1, <1>3, <1>4, <1>5 DEF KInv, Tables
  <2>3. flags' \subseteq FlagRow
    BY <1>3, <1>4 DEF KInv, Tables
  <2> QED
    BY <1>1, <2>1, <2>2, <2>3 DEF KInv, Tables, FlagRow, FlagIds, Tenants, Sites
<1>7. /\ contended \subseteq contended' /\ overtaken \subseteq overtaken'
      /\ overtaken' \subseteq Reports \cup Patches /\ contended' \subseteq Tenants \X Sites \X Nat
      /\ \A o \in Reports \ (overtaken' \cup {r}) :
            report[o].step = "resend" => report[o].flag \in flags'
      /\ PatchAllowed'
  <2>1. Key(flag) \in Tenants \X Sites \X Nat
    BY <1>3, RowTyped
  <2>2. \A f \in flags \cup flags' : Key(f) # Key(flag) => (f \in flags <=> f \in flags')
    BY <1>1, <1>4
  <2>3. r \notin Patches
    BY TableAssumption
  <2> QED
    BY <1>1, <2>1, <2>2, <2>3, CrossingKeeps DEF PatchAllowed
<1>8. NewIds' /\ ReportsTyped' /\ Overlapping'
  BY <1>1, <1>2, <1>3, <1>4 DEF KInv, NewIds, Unraised, ReportsTyped, Overlapping, Checking
<1>9. PatchesTyped' /\ Histories'
  BY <1>1, <1>7 DEF KInv, PatchesTyped, Histories, Tenants, Sites
<1>10. ResendsOK'
  <2> SUFFICES ASSUME NEW o \in Reports, report'[o].step = "resend" PROVE ResendOK(o)'
    BY DEF ResendsOK
  <2>1. CASE o = r
    <3>1. \A f \in flags' \cup index' : f.id = r => Key(f) = Key(flag)
      BY <1>1, <1>4, <1>5
    <3>2. flag \in flags' /\ report'[r].flag = flag
      BY <1>1, <1>2, <2>1
    <3> QED
      BY <1>3, <2>1, <3>1, <3>2 DEF ResendOK
  <2>2. CASE o # r
    <3>1. report'[o] = report[o] /\ ResendOK(o)
      BY <1>2, <2>2 DEF KInv, ResendsOK
    <3>2. \A f \in flags' \cup index' : f.id = o => Key(f) = Key(report[o].flag)
      BY <1>1, <1>3, <1>4, <2>2, <3>1 DEF ResendOK
    <3> QED
      BY <1>7, <2>2, <3>1, <3>2 DEF ResendOK
  <2> QED
    BY <2>1, <2>2
<1>11. IndexBehind'
  BY <1>1, <1>3, <1>4, <1>5, <1>7 DEF KInv, IndexBehind
<1>12. Looked'
  <2> SUFFICES ASSUME NEW o \in Reports, NEW f \in flags', LookedFor(o, f)', Of(o, f)'
               PROVE  {o, f.id} \in blind \/ Key(f) \in contended
    BY <1>1, <1>7 DEF Looked
  <2>1. o # r /\ Checking(o) /\ LookedFor(o, f) /\ Of(o, f)
    BY <1>2 DEF LookedFor, Of, Checking
  <2>2. CASE f = flag
    BY <1>1, <1>3, <2>1, <2>2 DEF KInv, Overlapping
  <2>3. CASE f \in flags
    BY <2>1, <2>3 DEF KInv, Looked
  <2> QED
    BY <1>4, <2>2, <2>3
<1>13. DuplicatesOnlyFromOverlap'
  <2>1. ASSUME NEW g \in flags, \/ Duplicates(flag, g) \/ Duplicates(g, flag)
        PROVE  {r, g.id} \in blind \/ Key(g) \in contended
    <3>1. g.status \in Live /\ Of(r, g)
      BY <1>3, <2>1 DEF Duplicates, Of
    <3> QED
      BY <1>1, <3>1 DEF KInv, Looked, LookedFor
  <2> SUFFICES ASSUME NEW f \in flags', NEW g \in flags', Duplicates(f, g)
               PROVE  {f.id, g.id} \in blind \/ {Key(f), Key(g)} \cap contended # {}
    BY <1>1, <1>7 DEF DuplicatesOnlyFromOverlap
  <2>2. CASE f = flag /\ g \in flags
    BY <1>3, <2>1, <2>2
  <2>3. CASE g = flag /\ f \in flags
    <3>1. {f.id, g.id} = {r, f.id}
      BY <1>3, <2>3
    <3> QED
      BY <2>1, <2>3, <3>1
  <2>4. CASE f \in flags /\ g \in flags
    BY <2>4 DEF KInv, DuplicatesOnlyFromOverlap
  <2>5. f # g
    BY DEF Duplicates
  <2> QED
    BY <1>4, <2>2, <2>3, <2>4, <2>5
<1>14. ListingsOwe'
  <2>1. \A g \in flags' :
          \/ \E f \in flags : /\ f.id = g.id /\ Key(f) = Key(g)
                               /\ f.tenant = g.tenant /\ f.site = g.site
          \/ g.id \in Reports /\ Unraised(g.id)
    BY <1>1, <1>3, <1>4
  <2>2. \A o \in Reports :
          /\ Unraised(o)' => Unraised(o)
          /\ report'[o].step = "resend" =>
                Unraised(o) \/ (report[o].step = "resend" /\ report'[o].flag = report[o].flag)
    BY <1>1, <1>2 DEF Unraised
  <2> QED
    BY <1>1, <1>7, <2>1, <2>2, ListingsKept DEF KInv
<1> QED
  BY <1>6, <1>7, <1>8, <1>9, <1>10, <1>11, <1>12, <1>13, <1>14 DEF KInv

(* The item once more: it is there still, or it lands on a row that others *)
(* have written, which is contended from then on.                          *)
LEMMA ResendLives ==
    ASSUME KInv, FInv, NEW r \in Reports, ResendFlag(r)
    PROVE  KInv'
<1> DEFINE flag == report[r].flag
<1>1. /\ report[r].step = "resend"
      /\ UNCHANGED <<index, patch, listing, blind, second>>
      /\ flags' = {f \in flags : Key(f) # Key(flag)} \cup {flag}
      /\ Crosses(r, Key(flag))
  BY DEF ResendFlag, Replace
<1>2. /\ report'[r].step = "created" \/ report'[r] = report[r]
      /\ \A o \in Reports : o # r => report'[o] = report[o]
  BY DEF ResendFlag, FInv, ReportsOK
<1>3. /\ flag \in FlagRow /\ flag.id = r /\ flag.status = "open"
      /\ \A f \in flags \cup index : f.id = r => Key(f) = Key(flag)
      /\ r \notin overtaken => flag \in flags
  BY <1>1 DEF KInv, ResendsOK, ResendOK
<1> HIDE DEF flag
<1>4. \A f \in flags' : f = flag \/ (f \in flags /\ Key(f) # Key(flag))
  BY <1>1
<1>5. /\ contended \subseteq contended' /\ overtaken \subseteq overtaken'
      /\ overtaken' \subseteq Reports \cup Patches /\ contended' \subseteq Tenants \X Sites \X Nat
      /\ flags' = flags \/ r \notin overtaken \/ Key(flag) \in contended'
      /\ \A o \in Reports \ (overtaken' \cup {r}) :
            report[o].step = "resend" => report[o].flag \in flags'
      /\ PatchAllowed'
  <2>1. Key(flag) \in Tenants \X Sites \X Nat
    BY <1>3, RowTyped
  <2>2. \A f \in flags \cup flags' : Key(f) # Key(flag) => (f \in flags <=> f \in flags')
    BY <1>1, <1>4
  <2>3. r \notin Patches
    BY TableAssumption
  <2> QED
    BY <1>1, <2>1, <2>2, <2>3, CrossingKeeps DEF PatchAllowed
<1>6. \A f \in flags' : f \in flags \/ (f = flag /\ Key(flag) \in contended')
  BY <1>3, <1>4, <1>5
<1>7. Tables'
  <2>1. \A f, g \in flags' : Key(f) = Key(g) => f = g
    BY <1>4 DEF KInv, Tables
  <2>2. \A f, g \in flags' \cup index' : f.id = g.id => Key(f) = Key(g)
    BY <1>1, <1>3, <1>4 DEF KInv, Tables
  <2>3. flags' \subseteq FlagRow
    BY <1>3, <1>4 DEF KInv, Tables
  <2> QED
    BY <1>1, <2>1, <2>2, <2>3 DEF KInv, Tables, FlagRow, FlagIds, Tenants, Sites
<1>8. NewIds' /\ ReportsTyped' /\ Overlapping'
  BY <1>1, <1>2, <1>3, <1>4 DEF KInv, NewIds, Unraised, ReportsTyped, Overlapping, Checking
<1>9. PatchesTyped' /\ Histories'
  BY <1>1, <1>5 DEF KInv, PatchesTyped, Histories, Tenants, Sites
<1>10. ResendsOK'
  <2> SUFFICES ASSUME NEW o \in Reports, report'[o].step = "resend" PROVE ResendOK(o)'
    BY DEF ResendsOK
  <2>1. report'[o] = report[o] /\ ResendOK(o)
    BY <1>2 DEF KInv, ResendsOK
  <2>2. \A f \in flags' \cup index' : f.id = o => Key(f) = Key(report[o].flag)
    BY <1>1, <1>3, <1>4, <2>1 DEF ResendOK, flag
  <2>3. o \notin overtaken' => report[o].flag \in flags'
    BY <1>1, <1>5, <2>1 DEF flag
  <2> QED
    BY <2>1, <2>2, <2>3 DEF ResendOK
<1>11. IndexBehind'
  BY <1>1, <1>3, <1>5, <1>6 DEF KInv, IndexBehind
<1>12. Looked'
  <2> SUFFICES ASSUME NEW o \in Reports, NEW f \in flags', LookedFor(o, f)', Of(o, f)'
               PROVE  {o, f.id} \in blind \/ Key(f) \in contended'
    BY <1>1 DEF Looked
  <2>1. o # r /\ LookedFor(o, f) /\ Of(o, f)
    BY <1>1, <1>2 DEF LookedFor, Of
  <2> QED
    BY <1>5, <1>6, <2>1 DEF KInv, Looked
<1>13. DuplicatesOnlyFromOverlap'
  BY <1>1, <1>5, <1>6 DEF KInv, DuplicatesOnlyFromOverlap, Duplicates
<1>14. ListingsOwe'
  <2>1. \A g \in flags' :
          \/ \E f \in flags : /\ f.id = g.id /\ Key(f) = Key(g)
                               /\ f.tenant = g.tenant /\ f.site = g.site
          \/ /\ g.id \in Reports /\ report[g.id].step = "resend" /\ g = report[g.id].flag
             /\ Key(g) \in contended'
    BY <1>1, <1>3, <1>6 DEF flag
  <2>2. \A o \in Reports :
          /\ Unraised(o)' => Unraised(o)
          /\ report'[o].step = "resend" => report[o].step = "resend" /\ report'[o].flag = report[o].flag
    BY <1>1, <1>2 DEF Unraised
  <2> QED
    BY <1>1, <1>5, <2>1, <2>2, ListingsKept DEF KInv
<1> QED
  BY <1>5, <1>7, <1>8, <1>9, <1>10, <1>11, <1>12, <1>13, <1>14 DEF KInv

-----------------------------------------------------------------------------
(* PATCH                                                                   *)

(* A PATCH begins with a transition that the row allows.                   *)
LEMMA LoadLives ==
    ASSUME KInv, FInv, NEW q \in Patches, NEW by \in Emails, NEW t \in Tenants, NEW id \in FlagIds,
           NEW status \in Closed \cup {"acknowledged"}, PatchLoad(q, by, t, id, status)
    PROVE  KInv'
<1>1. PICK f \in flags :
         /\ status \in Allowed(f.status)
         /\ patch' = [patch EXCEPT ![q] = [step |-> "update", by |-> by, key |-> Key(f),
                                          status |-> status]]
  BY DEF PatchLoad, FlagById
<1>2. UNCHANGED <<flags, index, report, listing, blind, second, overtaken, contended>>
  BY DEF PatchLoad, crossings
<1>3. /\ patch'[q].step = "update" /\ patch'[q].by = by /\ patch'[q].key = Key(f)
      /\ patch'[q].status = status
      /\ \A p \in Patches : p # q => patch'[p] = patch[p]
  BY <1>1 DEF FInv, PatchesOK
<1>4. Key(f) \in Tenants \X Sites \X Nat
  BY RowTyped DEF KInv, Tables
<1>5. Tables' /\ NewIds' /\ ResendsOK' /\ ReportsTyped' /\ Overlapping'
  BY <1>2 DEF KInv, Tables, NewIds, Unraised, ResendsOK, ResendOK, ReportsTyped, Overlapping,
              Checking
<1>6. PatchesTyped' /\ Histories'
  BY <1>1, <1>2, <1>3, <1>4 DEF KInv, PatchesTyped, Histories
<1>7. IndexBehind' /\ DuplicatesOnlyFromOverlap' /\ Looked'
  BY <1>2 DEF KInv, IndexBehind, DuplicatesOnlyFromOverlap, Looked, LookedFor, Of
<1>8. PatchAllowed'
  <2> SUFFICES ASSUME NEW p \in Patches \ overtaken, NEW g \in flags, patch'[p].step = "update",
                      Key(g) = patch'[p].key
               PROVE  patch'[p].status \in {g.status} \cup Allowed(g.status)
    BY <1>2 DEF PatchAllowed
  <2>1. CASE p = q
    <3>1. g = f
      BY <1>3, <2>1 DEF KInv, Tables
    <3> QED
      BY <1>1, <1>3, <2>1, <3>1
  <2>2. CASE p # q
    BY <1>3, <2>2 DEF KInv, PatchAllowed
  <2> QED
    BY <2>1, <2>2
<1>9. ListingsOwe'
  BY <1>2, ListingsKept DEF KInv, Unraised
<1> QED
  BY <1>5, <1>6, <1>7, <1>8, <1>9 DEF KInv

(* A row as the PATCH leaves it.                                           *)
After(q, f) ==
    IF Key(f) = patch[q].key
    THEN [f EXCEPT !.status = patch[q].status, !.acting_user = patch[q].by]
    ELSE f

LEMMA AfterPatch ==
    ASSUME KInv, NEW q \in Patches, patch[q].step = "update", NEW f \in flags
    PROVE  /\ After(q, f) \in FlagRow
           /\ After(q, f).id = f.id /\ Key(After(q, f)) = Key(f)
           /\ After(q, f).tenant = f.tenant /\ After(q, f).site = f.site
           /\ After(q, f).reason = f.reason
           /\ After(q, f).status \in {f.status} \cup {patch[q].status}
           /\ q \notin overtaken => Later(f, After(q, f))
           /\ Key(f) # patch[q].key => After(q, f) = f
           /\ Key(f) = patch[q].key => After(q, f).status = patch[q].status
<1>1. f \in FlagRow
  BY DEF KInv, Tables
<1>2. patch[q].by \in Emails /\ patch[q].status \in Closed \cup {"acknowledged"}
  BY DEF KInv, PatchesTyped
<1>3. CASE Key(f) # patch[q].key
  BY <1>1, <1>3 DEF After, Later
<1>4. CASE Key(f) = patch[q].key
  <2>1. After(q, f) = [f EXCEPT !.status = patch[q].status, !.acting_user = patch[q].by]
    BY <1>4 DEF After
  <2>2. /\ After(q, f) \in FlagRow
        /\ After(q, f).id = f.id
        /\ After(q, f).tenant = f.tenant /\ After(q, f).site = f.site
        /\ After(q, f).reason = f.reason /\ After(q, f).raised_at = f.raised_at
        /\ After(q, f).status = patch[q].status
    BY <1>1, <1>2, <2>1 DEF FlagRow, Live
  <2>3. q \notin overtaken => patch[q].status \in {f.status} \cup Allowed(f.status)
    BY <1>4 DEF KInv, PatchAllowed
  <2> QED
    BY <1>4, <2>2, <2>3 DEF Key, Later
<1> QED
  BY <1>3, <1>4

(* The write of a PATCH, the first time and again: one that was overtaken  *)
(* leaves the row contended.                                               *)
LEMMA UpdateLives ==
    ASSUME KInv, FInv, NEW q \in Patches, PatchUpdate(q)
    PROVE  KInv'
<1>1. /\ patch[q].step = "update"
      /\ patch'[q].step = "done" \/ patch'[q] = patch[q]
      /\ \A p \in Patches : p # q => patch'[p] = patch[p]
      /\ UNCHANGED <<index, report, listing, blind, second>>
      /\ Crosses(q, patch[q].key)
  <2>1. CASE patch' = [patch EXCEPT ![q] = [step |-> "done"]]
    BY <2>1 DEF PatchUpdate, FInv, PatchesOK
  <2> QED
    BY <2>1 DEF PatchUpdate
<1>2. flags' = {After(q, f) : f \in flags}
  BY DEF PatchUpdate, After
<1>3. \A f \in flags :
        /\ After(q, f) \in FlagRow
        /\ After(q, f).id = f.id /\ Key(After(q, f)) = Key(f)
        /\ After(q, f).tenant = f.tenant /\ After(q, f).site = f.site
        /\ After(q, f).reason = f.reason
        /\ After(q, f).status \in {f.status} \cup {patch[q].status}
        /\ q \notin overtaken => Later(f, After(q, f))
        /\ Key(f) # patch[q].key => After(q, f) = f
        /\ Key(f) = patch[q].key => After(q, f).status = patch[q].status
  BY <1>1, AfterPatch
<1> HIDE DEF After
<1>4. /\ contended \subseteq contended' /\ overtaken \subseteq overtaken'
      /\ overtaken' \subseteq Reports \cup Patches /\ contended' \subseteq Tenants \X Sites \X Nat
      /\ flags' = flags \/ q \notin overtaken \/ patch[q].key \in contended'
      /\ \A o \in Reports \ overtaken' : report[o].step = "resend" => report[o].flag \in flags'
      /\ \A p \in Patches \ (overtaken' \cup {q}), f \in flags' :
            patch[p].step = "update" /\ Key(f) = patch[p].key =>
               patch[p].status \in {f.status} \cup Allowed(f.status)
  <2>1. patch[q].key \in Tenants \X Sites \X Nat
    BY <1>1 DEF KInv, PatchesTyped
  <2>2. \A f \in flags \cup flags' : Key(f) # patch[q].key => (f \in flags <=> f \in flags')
    BY <1>2, <1>3
  <2>3. q \notin Reports
    BY TableAssumption
  <2> QED
    BY <1>1, <2>1, <2>2, <2>3, CrossingKeeps
<1>5. \A g \in flags' : \E f \in flags :
        /\ g \in FlagRow /\ f \in FlagRow
        /\ g.id = f.id /\ Key(g) = Key(f)
        /\ g.tenant = f.tenant /\ g.site = f.site /\ g.reason = f.reason
        /\ g.status \in {f.status} \cup {patch[q].status}
        /\ Key(f) \notin contended' => Later(f, g)
        /\ g = After(q, f)
  <2> SUFFICES ASSUME NEW f \in flags PROVE Key(f) \notin contended' => Later(f, After(q, f))
    BY <1>2, <1>3 DEF KInv, Tables
  <2>1. CASE flags' = flags
    <3>1. After(q, f) = f
      BY <1>2, <1>3, <2>1 DEF KInv, Tables
    <3> QED
      BY <3>1 DEF Later
  <2>2. CASE Key(f) # patch[q].key
    BY <1>3, <2>2 DEF Later
  <2> QED
    BY <1>3, <1>4, <2>1, <2>2
<1>6. Tables' /\ NewIds'
  <2>1. \A f, g \in flags' : Key(f) = Key(g) => f = g
    BY <1>2, <1>3 DEF KInv, Tables
  <2>2. \A f, g \in flags' \cup index' : f.id = g.id => Key(f) = Key(g)
    BY <1>1, <1>5 DEF KInv, Tables
  <2>3. flags' \subseteq FlagRow /\ NewIds'
    BY <1>1, <1>5 DEF KInv, NewIds, Unraised
  <2> QED
    BY <1>1, <2>1, <2>2, <2>3 DEF KInv, Tables, FlagRow, FlagIds, Tenants, Sites
<1>7. ResendsOK'
  <2> SUFFICES ASSUME NEW o \in Reports, report[o].step = "resend" PROVE ResendOK(o)'
    BY <1>1 DEF ResendsOK
  <2>1. ResendOK(o)
    BY DEF KInv, ResendsOK
  <2>2. \A f \in flags' \cup index' : f.id = o => Key(f) = Key(report[o].flag)
    BY <1>1, <1>5, <2>1 DEF ResendOK
  <2> QED
    BY <1>1, <1>4, <2>1, <2>2 DEF ResendOK
<1>8. ReportsTyped' /\ PatchesTyped' /\ Histories' /\ Overlapping'
  BY <1>1, <1>4 DEF KInv, ReportsTyped, PatchesTyped, Histories, Overlapping, Checking, Tenants, Sites
<1>9. IndexBehind'
  <2> SUFFICES ASSUME NEW h \in index, NEW g \in flags', h.id = g.id, Key(h) \notin contended'
               PROVE  Later(h, g)
    BY <1>1 DEF IndexBehind
  <2>1. PICK f \in flags :
          /\ g.id = f.id /\ Key(g) = Key(f) /\ f \in FlagRow /\ h \in FlagRow
          /\ Key(f) \notin contended' => Later(f, g)
    BY <1>5 DEF KInv, Tables
  <2>2. Key(f) = Key(h) /\ Later(h, f) /\ Later(f, g)
    BY <1>4, <2>1 DEF KInv, Tables, IndexBehind
  <2>3. h.status \in Live \cup Closed /\ f.status \in Live \cup Closed
    BY <2>1, RowTyped
  <2>4. Allowed(f.status) \subseteq Allowed(h.status)
    BY <2>2, <2>3, StatusesForward DEF Later
  <2> QED
    BY <2>2, <2>4 DEF Later
<1>10. PatchAllowed'
  <2> SUFFICES ASSUME NEW p \in Patches \ overtaken', NEW g \in flags', patch'[p].step = "update",
                      Key(g) = patch'[p].key
               PROVE  patch'[p].status \in {g.status} \cup Allowed(g.status)
    BY DEF PatchAllowed
  <2>1. CASE p = q
    BY <1>1, <1>2, <1>3, <2>1
  <2>2. CASE p # q
    BY <1>1, <1>4, <2>2
  <2> QED
    BY <2>1, <2>2
<1>11. patch[q].status # "open"
  BY <1>1 DEF KInv, PatchesTyped, Closed
<1>12. Looked'
  <2> SUFFICES ASSUME NEW r \in Reports, NEW g \in flags', LookedFor(r, g), Of(r, g),
                      Key(g) \notin contended'
               PROVE  {r, g.id} \in blind
    BY <1>1 DEF Looked, LookedFor, Of
  <2>1. PICK f \in flags :
          /\ g.id = f.id /\ Key(g) = Key(f) /\ f \in FlagRow /\ g \in FlagRow
          /\ g.tenant = f.tenant /\ g.site = f.site /\ g.reason = f.reason
          /\ Key(f) \notin contended' => Later(f, g)
    BY <1>5
  <2>2. g.status \in Live \cup Closed /\ f.status \in Live \cup Closed /\ Later(f, g)
    BY <2>1, RowTyped
  <2>3. LookedFor(r, f) /\ Of(r, f)
    BY <2>1, <2>2, StatusesForward DEF LookedFor, Of, Later
  <2> QED
    BY <1>4, <2>1, <2>3 DEF KInv, Looked
<1>13. DuplicatesOnlyFromOverlap'
  <2> SUFFICES ASSUME NEW f \in flags', NEW g \in flags', Duplicates(f, g),
                      Key(f) \notin contended', Key(g) \notin contended'
               PROVE  {f.id, g.id} \in blind
    BY <1>1 DEF DuplicatesOnlyFromOverlap
  <2>1. PICK e \in flags :
          /\ f.id = e.id /\ Key(f) = Key(e) /\ e \in FlagRow /\ f \in FlagRow
          /\ f.tenant = e.tenant /\ f.site = e.site /\ f.reason = e.reason
          /\ Key(e) \notin contended' => Later(e, f)
          /\ f = After(q, e)
    BY <1>5
  <2>2. PICK h \in flags :
          /\ g.id = h.id /\ Key(g) = Key(h) /\ h \in FlagRow /\ g \in FlagRow
          /\ g.tenant = h.tenant /\ g.site = h.site /\ g.reason = h.reason
          /\ Key(h) \notin contended' => Later(h, g)
          /\ g = After(q, h)
    BY <1>5
  <2>3. e.status \in Live
    BY <2>1, RowTyped, StatusesForward DEF Later, Duplicates
  <2>4. h.status \in Live
    BY <2>2, RowTyped, StatusesForward DEF Later, Duplicates
  <2>5. Duplicates(e, h)
    BY <2>1, <2>2, <2>3, <2>4 DEF Duplicates
  <2> QED
    BY <1>4, <2>1, <2>2, <2>5 DEF KInv, DuplicatesOnlyFromOverlap
<1>14. ListingsOwe'
  BY <1>1, <1>4, <1>5, ListingsKept DEF KInv, Unraised
<1> QED
  BY <1>6, <1>7, <1>8, <1>9, <1>10, <1>12, <1>13, <1>14 DEF KInv

-----------------------------------------------------------------------------
(* Listings, and the index                                                 *)

(* What touches no flag, report or PATCH.                                  *)
LEMMA Untouched ==
    ASSUME KInv, UNCHANGED <<flags, index, report, patch, blind, overtaken, contended>>,
           second' \in 1..MaxTime, ListingsOwe'
    PROVE  KInv'
BY DEF KInv, Tables, NewIds, Unraised, ResendsOK, ResendOK, ReportsTyped, PatchesTyped, Histories,
       IndexBehind, PatchAllowed, Overlapping, Looked, DuplicatesOnlyFromOverlap, Checking,
       LookedFor, Of, FlagRow, FlagIds, Tenants, Sites

(* One listing leaves the others as they were.                             *)
LEMMA OneListing ==
    ASSUME KInv, FInv, NEW l \in Listings, NEW new,
           UNCHANGED <<flags, index, report, contended>>,
           listing' = [listing EXCEPT ![l] = new],
           new.step \in {"query1", "query2", "answered"},
           Under(l)' => Owes(l)',
           new.step = "answered" => new.owed \subseteq {f.id : f \in new.shown}
    PROVE  ListingsOwe'
<1>1. listing'[l] = new /\ \A k \in Listings : k # l => listing'[k] = listing[k]
  BY DEF FInv, ListingsOK
<1>2. \A k \in Listings : k # l => (Under(k)' <=> Under(k)) /\ (Owes(k)' <=> Owes(k))
  BY <1>1 DEF Under, Owes, Unraised
<1> QED
  BY <1>1, <1>2 DEF KInv, ListingsOwe

(* A listing begins owing what the index shows and its caller may see.     *)
LEMMA ListLives ==
    ASSUME KInv, FInv, NEW l \in Listings, NEW by \in Emails, NEW t \in Tenants \cup {None},
           ListFlags(l, by, t)
    PROVE  KInv'
<1> DEFINE owed == {f.id : f \in {g \in index : g.status \in Live /\ Visible(pool[by], t, g)}}
           new == [step |-> "query1", by |-> by, caller |-> pool[by], tenant |-> t,
                   items |-> {}, owed |-> owed]
<1>1. /\ UNCHANGED <<second, flags, index, report, patch, blind, overtaken, contended>>
      /\ listing' = [listing EXCEPT ![l] = new]
  BY DEF ListFlags, crossings
<1>2. /\ new.step = "query1" /\ new.caller = pool[by] /\ new.tenant = t /\ new.owed = owed
  OBVIOUS
<1>3. \A i \in owed : \E h \in index : h.id = i /\ Visible(pool[by], t, h)
  OBVIOUS
<1> HIDE DEF owed, new
<1>4. listing'[l] = new
  BY <1>1 DEF FInv, ListingsOK
<1>5. \A r \in Reports : Unraised(r) => r \notin owed
  BY <1>3 DEF KInv, NewIds
<1>6. ASSUME NEW g \in flags \cup index, g.id \in owed
      PROVE  Visible(pool[by], t, g) /\ \E h \in index : h.id = g.id
  <2>1. PICK h \in index : h.id = g.id /\ Visible(pool[by], t, h)
    BY <1>3, <1>6
  <2>2. h \in FlagRow /\ g \in FlagRow /\ Key(h) = Key(g)
    BY <1>6, <2>1 DEF KInv, Tables
  <2>3. h.tenant = g.tenant /\ h.site = g.site
    BY <2>2, KeyIsCamera
  <2> QED
    BY <2>1, <2>3 DEF Visible
<1>7. ASSUME NEW r \in Reports, report[r].step = "resend", r \in owed
      PROVE  Visible(pool[by], t, report[r].flag)
  <2>1. PICK h \in index : h.id = r /\ Visible(pool[by], t, h)
    BY <1>3, <1>7
  <2>2. h \in FlagRow /\ report[r].flag \in FlagRow /\ Key(h) = Key(report[r].flag)
    BY <1>7, <2>1 DEF KInv, Tables, ResendsOK, ResendOK
  <2>3. h.tenant = report[r].flag.tenant /\ h.site = report[r].flag.site
    BY <2>2, KeyIsCamera
  <2> QED
    BY <2>1, <2>3 DEF Visible
<1>8. Owes(l)'
  BY <1>1, <1>2, <1>4, <1>5, <1>6, <1>7 DEF Owes, Unraised
<1>9. ListingsOwe'
  BY <1>1, <1>2, <1>8, OneListing
<1> QED
  BY <1>1, <1>9, Untouched DEF KInv, Histories

(* What is acknowledged between the two queries is found by one of them.   *)
LEMMA QueryLives ==
    ASSUME KInv, FInv, NEW l \in Listings, QueryFlags(l)
    PROVE  KInv'
<1> DEFINE q == listing[l]
           items == q.items \cup {f \in index : /\ f.status = DefaultStatuses[q.step]
                                                /\ q.tenant \in {None, f.tenant}}
           owed == IF Cardinality(items) <= Limit
                   THEN {f.id : f \in {g \in index : /\ g.id \in q.owed /\ g.status \in Live
                                                    /\ Key(g) \notin contended}}
                   ELSE {}
<1>1. /\ UNCHANGED <<second, flags, index, report, patch, blind, overtaken, contended>>
      /\ q.step \in {"query1", "query2"}
  BY DEF QueryFlags, crossings
<1>2. /\ {"step", "by", "caller", "tenant", "items"} \subseteq DOMAIN q
      /\ \A r \in Reports : Unraised(r) => r \notin q.owed
      /\ \A r \in Reports :
            report[r].step = "resend" /\ r \in q.owed => Visible(q.caller, q.tenant, report[r].flag)
      /\ \A g \in flags \cup index : g.id \in q.owed => Visible(q.caller, q.tenant, g)
      /\ \A g \in flags : g.id \in q.owed /\ Key(g) \notin contended => \E h \in index : h.id = g.id
      /\ q.step = "query2" =>
           \A g \in index : g.id \in q.owed /\ g.status = "open" /\ Key(g) \notin contended =>
              \E f \in q.items : f.id = g.id /\ Visible(q.caller, q.tenant, f)
  BY <1>1 DEF KInv, ListingsOwe, Under, Owes, FInv, ListingsOK, ListingOK
<1>3. ASSUME NEW g \in index, g.id \in q.owed, g.status = DefaultStatuses[q.step]
      PROVE  g \in items /\ Visible(q.caller, q.tenant, g)
  BY <1>2, <1>3 DEF Visible
<1>4. CASE q.step = "query1"
  <2> DEFINE new == [q EXCEPT !.step = "query2", !.items = items]
  <2>1. listing' = [listing EXCEPT ![l] = new]
    BY <1>4 DEF QueryFlags
  <2>2. /\ new.step = "query2" /\ new.items = items /\ new.owed = q.owed
        /\ new.caller = q.caller /\ new.tenant = q.tenant
    BY <1>2
  <2>3. \A g \in index : g.id \in q.owed /\ g.status = "open" =>
          \E f \in items : f.id = g.id /\ Visible(q.caller, q.tenant, f)
    BY <1>3, <1>4 DEF DefaultStatuses
  <2> HIDE DEF new, items
  <2>4. listing'[l] = new
    BY <2>1 DEF FInv, ListingsOK
  <2>5. Owes(l)'
    BY <1>1, <1>2, <2>2, <2>3, <2>4 DEF Owes, Unraised
  <2>6. ListingsOwe'
    BY <1>1, <2>1, <2>2, <2>5, OneListing
  <2> QED
    BY <1>1, <2>6, Untouched DEF KInv, Histories
<1>5. CASE q.step = "query2"
  <2>1. PICK S \in Newest(items) :
          listing' = [listing EXCEPT ![l] =
             [step |-> "answered", by |-> q.by, shown |-> Shown(q.caller, S), owed |-> owed]]
    BY <1>5 DEF QueryFlags
  <2> DEFINE shown == Shown(q.caller, S)
             new == [step |-> "answered", by |-> q.by, shown |-> shown, owed |-> owed]
  <2>2. owed \subseteq {f.id : f \in shown}
    <3> SUFFICES ASSUME NEW i \in owed PROVE \E f \in shown : f.id = i
      OBVIOUS
    <3>1. S = items
      BY <2>1 DEF Newest
    <3>2. PICK g \in index : g.id = i /\ g.id \in q.owed /\ g.status \in Live /\ Key(g) \notin contended
      OBVIOUS
    <3>3. \E f \in items : f.id = g.id /\ Visible(q.caller, q.tenant, f)
      <4>1. CASE g.status = "open"
        BY <1>2, <1>5, <3>2, <4>1
      <4>2. CASE g.status = "acknowledged"
        BY <1>3, <1>5, <3>2, <4>2 DEF DefaultStatuses
      <4> QED
        BY <3>2, <4>1, <4>2 DEF Live
    <3> QED
      BY <3>1, <3>2, <3>3 DEF Shown, Visible
  <2>3. /\ listing' = [listing EXCEPT ![l] = new]
        /\ new.step = "answered" /\ new.owed = owed /\ new.shown = shown
    BY <2>1
  <2> HIDE DEF new, owed, shown, items
  <2>4. listing'[l] = new
    BY <2>3 DEF FInv, ListingsOK
  <2>5. ~Under(l)'
    BY <2>3, <2>4 DEF Under
  <2>6. ListingsOwe'
    BY <1>1, <2>2, <2>3, <2>5, OneListing
  <2> QED
    BY <1>1, <2>6, Untouched DEF KInv, Histories
<1> QED
  BY <1>1, <1>4, <1>5

(* GSI1 takes over a row at the status it has now, at or after the one it  *)
(* showed.                                                                 *)
LEMMA PropagateLives ==
    ASSUME KInv, Propagate
    PROVE  KInv'
<1>1. UNCHANGED <<second, flags, report, patch, listing, blind, overtaken, contended>>
  BY DEF Propagate, crossings
<1>2. PICK k : index' = {f \in index : Key(f) # k} \cup {f \in flags : Key(f) = k}
  BY DEF Propagate
<1>3. \A f \in index' : f \in index \/ f \in flags
  BY <1>2
<1>4. Tables'
  <2>1. \A f, g \in index' : Key(f) = Key(g) => f = g
    BY <1>2 DEF KInv, Tables
  <2>2. \A f, g \in flags' \cup index' : f.id = g.id => Key(f) = Key(g)
    BY <1>1, <1>3 DEF KInv, Tables
  <2>3. index' \subseteq FlagRow
    BY <1>3 DEF KInv, Tables
  <2> QED
    BY <1>1, <2>1, <2>2, <2>3 DEF KInv, Tables, FlagRow, FlagIds, Tenants, Sites
<1>5. NewIds' /\ ResendsOK'
  BY <1>1, <1>3 DEF KInv, NewIds, Unraised, ResendsOK, ResendOK
<1>6. IndexBehind'
  <2> SUFFICES ASSUME NEW f \in index', NEW g \in flags, f.id = g.id, Key(f) \notin contended
               PROVE  Later(f, g)
    BY <1>1 DEF IndexBehind
  <2>1. CASE f \in index
    BY <2>1 DEF KInv, IndexBehind
  <2>2. CASE f \in flags
    BY <2>2, IdIsRow DEF KInv, Later
  <2> QED
    BY <1>3, <2>1, <2>2
<1>7. ReportsTyped' /\ PatchesTyped' /\ Histories' /\ PatchAllowed'
  BY <1>1 DEF KInv, ReportsTyped, PatchesTyped, Histories, PatchAllowed, Checking
<1>8. Overlapping' /\ Looked' /\ DuplicatesOnlyFromOverlap'
  BY <1>1 DEF KInv, Overlapping, Looked, DuplicatesOnlyFromOverlap, Checking, LookedFor, Of
<1>9. ASSUME NEW l \in Listings, Under(l) PROVE Owes(l)'
  <2> DEFINE q == listing[l]
  <2>1. Owes(l) /\ listing'[l] = q
    BY <1>1, <1>9 DEF KInv, ListingsOwe
  <2>2. \A g \in flags' \cup index' : g.id \in q.owed => Visible(q.caller, q.tenant, g)
    BY <1>1, <1>3, <2>1 DEF Owes
  <2>3. ASSUME NEW g \in flags, g.id \in q.owed, Key(g) \notin contended
        PROVE  \E h \in index' : h.id = g.id
    <3>1. PICK h \in index : h.id = g.id
      BY <2>1, <2>3 DEF Owes
    <3>2. Key(h) = Key(g)
      BY <3>1 DEF KInv, Tables
    <3> QED
      BY <1>2, <3>1, <3>2
  <2>4. ASSUME q.step = "query2", NEW g \in index', g.id \in q.owed, g.status = "open",
               Key(g) \notin contended
        PROVE  \E f \in q.items : f.id = g.id /\ Visible(q.caller, q.tenant, f)
    <3>1. PICK h \in index : h.id = g.id /\ h.status = "open" /\ Key(h) \notin contended
      <4>1. CASE g \in index
        BY <2>4, <4>1
      <4>2. CASE g \in flags
        <5>1. PICK h \in index : h.id = g.id
          BY <2>1, <2>4, <4>2 DEF Owes
        <5>2. Key(h) = Key(g) /\ h \in FlagRow /\ g \in FlagRow
          BY <4>2, <5>1 DEF KInv, Tables
        <5>3. Later(h, g)
          BY <2>4, <4>2, <5>1, <5>2 DEF KInv, IndexBehind
        <5>4. h.status = "open"
          BY <2>4, <5>2, <5>3, RowTyped, StatusesForward DEF Later
        <5> QED
          BY <2>4, <5>1, <5>2, <5>4
      <4> QED
        BY <1>3, <4>1, <4>2
    <3> QED
      BY <2>1, <2>4, <3>1 DEF Owes
  <2>5. /\ \A r \in Reports : Unraised(r)' => r \notin q.owed
        /\ \A r \in Reports :
              report[r].step = "resend" /\ r \in q.owed => Visible(q.caller, q.tenant, report[r].flag)
    BY <1>1, <2>1 DEF Owes, Unraised
  <2> QED
    BY <1>1, <2>1, <2>2, <2>3, <2>4, <2>5 DEF Owes
<1>10. ListingsOwe'
  BY <1>1, <1>9 DEF KInv, ListingsOwe, Under
<1> QED
  BY <1>4, <1>5, <1>6, <1>7, <1>8, <1>10 DEF KInv

-----------------------------------------------------------------------------
(* The invariant is inductive, and what follows from it.                   *)

LEMMA LifeStep == FInv /\ KInv /\ [Next]_vars => KInv'
<1> SUFFICES ASSUME FInv, KInv, [Next]_vars PROVE KInv'
  OBVIOUS
<1>1. ASSUME UNCHANGED <<flags, index, report, patch, listing, blind, crossings>>,
             second' \in 1..MaxTime
      PROVE  KInv'
  <2>1. ListingsOwe'
    BY <1>1, ListingsKept DEF KInv, Unraised, crossings
  <2> QED
    BY <1>1, <2>1, Untouched DEF crossings
<1>2. second \in 1..MaxTime
  BY DEF KInv, Histories
<1>3. ASSUME NEW c \in Creators, Provision(c) PROVE KInv'
  BY <1>1, <1>2, <1>3 DEF Provision, flagVars
<1>4. CASE Tick
  <2>1. second' \in 1..MaxTime
    BY <1>2, <1>4, TableAssumption DEF Tick
  <2> QED
    BY <1>1, <1>4, <2>1 DEF Tick
<1>5. CASE UNCHANGED vars
  BY <1>1, <1>2, <1>5 DEF vars, flagVars
<1> QED
  BY <1>3, <1>4, <1>5, ReportLives, FindLives, PutLives, ResendLives, LoadLives, UpdateLives,
     ListLives, QueryLives, PropagateLives DEF Next

(* The invariants of accounts, of tenants and of the life of flags hold    *)
(* together throughout.                                                    *)
THEOREM LifeInductive == Spec => [](AInv /\ FInv /\ KInv)
<1>1. Init => AInv /\ FInv /\ KInv
  BY AccountsStart, FlagsStart, FlagsLifeStart DEF Init
<1>2. AInv /\ FInv /\ KInv /\ [Next]_vars => (AInv /\ FInv /\ KInv)'
  BY AccountsStep, FlagsStep, LifeStep
<1> QED
  BY <1>1, <1>2, PTL DEF Spec

(* A report raises a second live flag of a camera and a reason only when   *)
(* it overlapped the other report, looked at a GSI1 that had not caught    *)
(* up, or a request that had been overtaken wrote the row -- never because *)
(* a flag was acknowledged between its two looks.                          *)
THEOREM OnlyOverlapDuplicates == Spec => []DuplicatesOnlyFromOverlap
<1>1. KInv => DuplicatesOnlyFromOverlap
  BY DEF KInv
<1> QED
  BY <1>1, LifeInductive, PTL

(* A listing that is not cut shows every flag of its caller that stays     *)
(* live, in whatever order its queries, the PATCH and GSI1 get ahead.      *)
THEOREM LiveAreListed == Spec => []LiveFlagsAreListed
<1>1. KInv => LiveFlagsAreListed
  BY DEF KInv, ListingsOwe, LiveFlagsAreListed
<1> QED
  BY <1>1, LifeInductive, PTL

(* No flag is reopened, and no acknowledgement taken back, but by the      *)
(* write of a request that another one overtook at the row.                *)
THEOREM NeverReopened == Spec => StatusMovesForward
<1> DEFINE Forward ==
              \A f \in flags, g \in flags' :
                 f.id = g.id =>
                    \/ g.status \in {f.status} \cup Allowed(f.status)
                    \/ \E q \in Patches \cap overtaken : PatchUpdate(q) /\ patch[q].key = Key(f)
                    \/ \E r \in Reports \cap overtaken : ResendFlag(r) /\ Key(report[r].flag) = Key(f)
<1>1. KInv /\ FInv /\ [Next]_vars => [Forward]_vars
  <2> SUFFICES ASSUME KInv, FInv, Next PROVE Forward
    OBVIOUS
  <2>1. CASE UNCHANGED flags
    <3> SUFFICES ASSUME NEW f \in flags, NEW g \in flags, f.id = g.id
                 PROVE  g.status \in {f.status} \cup Allowed(f.status)
      BY <2>1
    <3> QED
      BY IdIsRow DEF KInv
  <2>2. ASSUME NEW r \in Reports, PutFlag(r) PROVE Forward
    <3> SUFFICES ASSUME NEW f \in flags, NEW g \in flags', f.id = g.id
                 PROVE  g.status \in {f.status} \cup Allowed(f.status)
      OBVIOUS
    <3>1. g.id = r \/ g \in flags
      BY <2>2 DEF PutFlag, Replace, NewFlag
    <3>2. f.id # r
      BY <2>2 DEF PutFlag, KInv, NewIds, Unraised
    <3> QED
      BY <3>1, <3>2, IdIsRow DEF KInv
  <2>3. ASSUME NEW r \in Reports, ResendFlag(r) PROVE Forward
    <3> SUFFICES ASSUME NEW f \in flags, NEW g \in flags', f.id = g.id,
                        ~ (r \in overtaken /\ Key(report[r].flag) = Key(f))
                 PROVE  g = f
      BY <2>3
    <3>1. /\ report[r].step = "resend"
          /\ g = report[r].flag \/ g \in flags
      BY <2>3 DEF ResendFlag, Replace
    <3>2. CASE g \in flags
      BY <3>2, IdIsRow DEF KInv
    <3>3. CASE g = report[r].flag
      <4>1. g.id = r /\ Key(f) = Key(g) /\ (r \notin overtaken => g \in flags)
        BY <3>1, <3>3 DEF KInv, ResendsOK, ResendOK
      <4>2. r \notin overtaken
        BY <3>3, <4>1
      <4> QED
        BY <4>1, <4>2, IdIsRow DEF KInv
    <3> QED
      BY <3>1, <3>2, <3>3
  <2>4. ASSUME NEW q \in Patches, PatchUpdate(q) PROVE Forward
    <3> SUFFICES ASSUME NEW f \in flags, NEW g \in flags', f.id = g.id,
                        ~ (q \in overtaken /\ patch[q].key = Key(f))
                 PROVE  g.status \in {f.status} \cup Allowed(f.status)
      BY <2>4
    <3>1. patch[q].step = "update" /\ flags' = {After(q, e) : e \in flags}
      BY <2>4 DEF PatchUpdate, After
    <3>2. PICK e \in flags : g = After(q, e)
      BY <3>1
    <3>3. e = f
      BY <3>1, <3>2, AfterPatch, IdIsRow DEF KInv
    <3> QED
      BY <3>1, <3>2, <3>3, AfterPatch DEF Later
  <2> HIDE DEF Forward
  <2> QED
    BY <2>1, <2>2, <2>3, <2>4 DEF Next, Provision, flagVars, Report, FindDuplicate, PatchLoad,
                                  ListFlags, QueryFlags, Propagate, Tick
<1> QED
  BY <1>1, LifeInductive, PTL DEF Spec, StatusMovesForward

(* What type correctness needs besides: no request is for a founder, and   *)
(* the counters stay within their bounds.                                  *)
Bounded ==
    /\ calls \in 0..MaxCalls /\ faults \in 0..MaxFaults
    /\ \A e \in DOMAIN Founders : origin[e] = None /\ users[e] = None

LEMMA BoundedStep == AInv /\ Bounded /\ [Next]_vars => Bounded'
<1> SUFFICES ASSUME AInv, Bounded, [Next]_vars PROVE Bounded'
  OBVIOUS
<1> USE AccountsAssumption, TableAssumption
<1>1. Called => calls' \in 0..MaxCalls
  BY DEF Called, Bounded
<1>2. Fault => faults' \in 0..MaxFaults
  BY DEF Fault, Bounded
<1>3. CASE UNCHANGED <<users, origin>> /\ (Called \/ UNCHANGED calls) /\ (Fault \/ UNCHANGED faults)
  BY <1>1, <1>2, <1>3 DEF Bounded
<1>4. ASSUME NEW c \in Creators, Provision(c) PROVE Bounded'
  <2>1. calls' \in 0..MaxCalls
    BY <1>1, <1>4 DEF Provision, Bounded
  <2>2. faults' \in 0..MaxFaults
    BY <1>2, <1>4 DEF Provision, CreateUser, CreateAccount, AddToGroup, PutUser, Bounded
  <2>3. CASE AddToGroup(c)
    BY <2>1, <2>2, <2>3 DEF AddToGroup, Bounded
  <2>4. CASE PutUser(c)
    <3>1. create[c].email \notin DOMAIN Founders
      BY <2>4 DEF PutUser, At, AInv, CreatorOK, Busy
    <3> QED
      BY <2>1, <2>2, <2>4, <3>1 DEF PutUser, AInv, Typed, Bounded
  <2>5. ASSUME NEW by \in Emails, NEW body \in Bodies, CreateAccount(c, by, body)
        PROVE  Bounded'
    <3>1. \/ UNCHANGED origin
          \/ /\ pool[body.email] = None
             /\ origin' = [origin EXCEPT ![body.email] = Request(by, body)]
      BY <2>5 DEF CreateAccount
    <3>2. pool[body.email] = None => body.email \notin DOMAIN Founders
      BY DEF AInv, FoundersStay
    <3>3. \A e \in DOMAIN Founders : origin'[e] = None /\ users'[e] = None
      BY <2>5, <3>1, <3>2 DEF CreateAccount, AInv, Typed, Bounded
    <3> QED
      BY <2>1, <2>2, <3>3 DEF Bounded
  <2> QED
    BY <1>4, <2>3, <2>4, <2>5 DEF Provision, CreateUser
<1> QED
  BY <1>3, <1>4 DEF Next, vars, Report, FindDuplicate, PutFlag, ResendFlag, PatchLoad,
                    PatchUpdate, ListFlags, QueryFlags, Propagate, Tick, accountVars

(* Type correctness: what every action reads it finds there.               *)
THEOREM TypeCorrect == Spec => []TypeOK
<1>1. Init => Bounded
  BY AccountsAssumption, TableAssumption DEF Init, AccountsInit, Bounded
<1>2. AInv /\ Bounded => AccountsTypeOK
  <2> SUFFICES ASSUME AInv, Bounded PROVE AccountsTypeOK
    OBVIOUS
  <2>1. \A e \in Emails : pool[e] # None => pool[e].group \in Roles
    BY DEF AInv, Typed, Account
  <2>2. \A e \in Emails : users[e] # None => users[e].role \in Roles
    BY <2>1 DEF AInv, UserOK, Bounded
  <2>3. \A c \in Creators :
           create[c].step \in {"idle", "group", "record", "done", "error", "conflict"}
    BY DEF AInv, Typed, RequestRecord, AnswerRecord
  <2> QED
    BY <2>1, <2>2, <2>3 DEF AInv, FoundersStay, Bounded, AccountsTypeOK
<1>3. AInv /\ Bounded /\ KInv => TypeOK
  <2>1. KInv => \A f, g \in flags : Key(f) = Key(g) \/ f.id = g.id => f = g
    BY IdIsRow DEF KInv, Tables
  <2> QED
    BY <1>2, <2>1 DEF KInv, Tables, ReportsTyped, PatchesTyped, Histories, ListingsOwe, Bounded,
                      TypeOK
<1>4. Spec => []Bounded
  BY <1>1, BoundedStep, LifeInductive, PTL DEF Spec
<1> QED
  BY <1>3, <1>4, LifeInductive, PTL
=============================================================================
