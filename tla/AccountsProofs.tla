--------------------------- MODULE AccountsProofs ---------------------------
(***************************************************************************)
(* Proofs about Accounts as part of Flags, for every set of tenants,       *)
(* bodies, founders and invocations, and any number of failures.           *)
(***************************************************************************)
EXTENDS Flags, TLAPS

(* A request on its way, and its answers.                                  *)
RequestRecord ==
    [step: {"group", "record"}, email: Emails, role: Roles,
     tenant: {g.tenant : g \in Granted}, by: Emails,
     sites: {g.sites : g \in Granted} \cup {{}}]
AnswerRecord == [step: {"idle", "done", "error", "conflict"}]

Busy(c) == create[c].step \in {"group", "record"}

-----------------------------------------------------------------------------
(* The inductive invariant                                                 *)

Typed ==
    /\ pool \in [Emails -> Account \cup {None}]
    /\ DOMAIN users = Emails
    /\ create \in [Creators -> RequestRecord \cup AnswerRecord]
    /\ DOMAIN origin = Emails

FoundersStay == \A e \in DOMAIN Founders : pool[e] = Founders[e]

(* An account is what its request asked for, and the one who made it is an *)
(* admin who could grant it.                                               *)
AccountOK(e) ==
    pool[e] # None =>
        /\ origin[e] \in RequestRecord
        /\ pool[e].tenant = origin[e].tenant /\ pool[e].sites = origin[e].sites
        /\ pool[e].group \in {"user", origin[e].role}
        /\ pool[origin[e].by] # None /\ pool[origin[e].by].group # "user"
        /\ pool[origin[e].by].group # "super_admin" =>
             /\ pool[origin[e].by].tenant = pool[e].tenant
             /\ origin[e].role # "super_admin"

(* A request on its way has made its account, and left it without a group  *)
(* until that call, and without a record until the last.                   *)
CreatorOK(c) ==
    Busy(c) =>
        LET r == create[c]
        IN  /\ r.email \notin DOMAIN Founders
            /\ pool[r.email] # None
            /\ origin[r.email].role = r.role
            /\ pool[r.email].tenant = r.tenant /\ pool[r.email].sites = r.sites
            /\ r.step = "group" => pool[r.email].group = "user" /\ users[r.email] = None
            /\ r.step = "record" => pool[r.email].group = r.role

OneCreator ==
    \A c, d \in Creators :
        Busy(c) /\ Busy(d) /\ create[c].email = create[d].email => c = d

UserOK(e) ==
    users[e] # None =>
        /\ pool[e] # None /\ users[e].role = pool[e].group
        /\ users[e].tenant = pool[e].tenant /\ users[e].sites = pool[e].sites

AInv ==
    /\ Typed /\ FoundersStay /\ OneCreator
    /\ \A e \in Emails \ DOMAIN Founders : AccountOK(e) /\ UserOK(e)
    /\ \A c \in Creators : CreatorOK(c)

-----------------------------------------------------------------------------
(* Only the founders have accounts to begin with.                          *)
LEMMA AccountsStart == AccountsInit => AInv
<1> SUFFICES ASSUME AccountsInit PROVE AInv
  OBVIOUS
<1> USE AccountsAssumption DEF AccountsInit
<1>1. Typed
  BY DEF Typed, AnswerRecord
<1>2. FoundersStay
  BY DEF FoundersStay
<1>3. \A c \in Creators : ~Busy(c)
  BY DEF Busy
<1>4. \A e \in Emails \ DOMAIN Founders : pool[e] = None /\ users[e] = None
  OBVIOUS
<1> QED
  BY <1>1, <1>2, <1>3, <1>4 DEF AInv, OneCreator, AccountOK, UserOK, CreatorOK

(* The account a request is granted.                                       *)
LEMMA RequestTyped ==
    ASSUME Typed, NEW c \in Creators, NEW by \in Emails, NEW body \in Bodies,
           Authorised(c, by, body)
    PROVE  /\ Request(by, body) \in RequestRecord
           /\ NewAccount(Request(by, body)) \in Account
           /\ pool[by] # None /\ pool[by].group # "user"
           /\ pool[by].group # "super_admin" =>
                /\ pool[by].tenant = Request(by, body).tenant
                /\ Request(by, body).role # "super_admin"
<1> USE AccountsAssumption
<1>1. pool[by] \in Account
  BY DEF Authorised, Typed
<1>2. /\ body \in Granted
      /\ body.role \in Roles /\ body.email \in Emails
  BY DEF Granted
<1>3. Target(pool[by], body) \in {g.tenant : g \in Granted}
  BY <1>1, <1>2 DEF Target, Account
<1>4. (IF body.role = "user" THEN body.sites ELSE {})
         \in {g.sites : g \in Granted} \cup {{}}
  BY <1>2
<1>5. Request(by, body) \in RequestRecord
  BY <1>2, <1>3, <1>4 DEF Request, RequestRecord
<1>6. NewAccount(Request(by, body)) \in Account
  BY <1>5 DEF NewAccount, RequestRecord, Account, Roles
<1>7. /\ pool[by] # None /\ pool[by].group # "user"
      /\ pool[by].group # "super_admin" =>
                /\ pool[by].tenant = Request(by, body).tenant
                /\ Request(by, body).role # "super_admin"
  BY DEF Authorised, MayCreate, Request, Target
<1> QED
  BY <1>5, <1>6, <1>7

(* One request makes an account: another for the same email is refused.    *)
LEMMA CreateKeeps ==
    ASSUME AInv, NEW c \in Creators, NEW by \in Emails, NEW body \in Bodies,
           CreateAccount(c, by, body)
    PROVE  AInv'
<1> DEFINE r == Request(by, body)
<1> DEFINE new == NewAccount(r)
<1> USE AccountsAssumption
<1>1. /\ r \in RequestRecord /\ new \in Account /\ new # None
      /\ pool[by] # None /\ pool[by].group # "user"
      /\ pool[by].group # "super_admin" => pool[by].tenant = r.tenant /\ r.role # "super_admin"
  BY RequestTyped DEF AInv, CreateAccount
<1>2. r.email = body.email /\ body.email \in Emails
  BY DEF Request
<1>3. ~Busy(c) /\ users' = users
  BY DEF CreateAccount, Authorised, At, Busy
<1>4. /\ new.tenant = r.tenant /\ new.sites = r.sites /\ new.group = "user"
  BY DEF NewAccount
<1> HIDE DEF r, new
<1>5. CASE UNCHANGED <<pool, origin>> /\ \E a \in AnswerRecord : create' = [create EXCEPT ![c] = a]
  <2>1. PICK a \in AnswerRecord : create' = [create EXCEPT ![c] = a]
    BY <1>5
  <2>2. \A d \in Creators : Busy(d)' => d # c /\ Busy(d) /\ create'[d] = create[d]
    BY <2>1 DEF AInv, Typed, Busy, AnswerRecord
  <2>3. Typed'
    BY <1>3, <1>5, <2>1 DEF AInv, Typed
  <2> QED
    BY <1>3, <1>5, <2>2, <2>3 DEF AInv, FoundersStay, OneCreator, AccountOK, UserOK, CreatorOK
<1>6. CASE /\ pool[body.email] = None
           /\ pool' = [pool EXCEPT ![body.email] = new]
           /\ origin' = [origin EXCEPT ![body.email] = r]
           /\ \E a \in AnswerRecord \cup {r} : create' = [create EXCEPT ![c] = a]
  <2>1. PICK a \in AnswerRecord \cup {r} : create' = [create EXCEPT ![c] = a]
    BY <1>6
  <2>2. Typed'
    BY <1>1, <1>2, <1>3, <1>6, <2>1 DEF AInv, Typed
  <2>3. body.email \notin DOMAIN Founders
    BY <1>6 DEF AInv, FoundersStay
  <2>4. /\ by # body.email /\ pool'[by] = pool[by]
        /\ pool'[body.email] = new /\ origin'[body.email] = r
        /\ \A e \in Emails : e # body.email => pool'[e] = pool[e] /\ origin'[e] = origin[e]
    BY <1>1, <1>2, <1>6 DEF AInv, Typed
  <2>5. FoundersStay'
    BY <2>3, <2>4 DEF AInv, FoundersStay
  <2>6. /\ create'[c] = a
        /\ \A d \in Creators : d # c => create'[d] = create[d] /\ (Busy(d)' <=> Busy(d))
    BY <2>1 DEF AInv, Typed, Busy
  <2>7. Busy(c)' => create'[c] = r
    BY <2>6 DEF Busy, AnswerRecord
  <2>8. \A d \in Creators : d # c /\ Busy(d) => create[d].email \in Emails /\ create[d].email # body.email
    BY <1>6 DEF AInv, Typed, CreatorOK, Busy, RequestRecord, AnswerRecord
  <2>9. OneCreator'
    BY <1>2, <2>6, <2>7, <2>8 DEF AInv, OneCreator
  <2>10. users[body.email] = None
    BY <1>2, <1>6, <2>3 DEF AInv, UserOK
  <2>11. r.role \in Roles /\ r.step \in {"group", "record"} /\ (r.step = "record" => r.role = "user")
    BY <1>1 DEF r, Request, RequestRecord
  <2>12. ASSUME NEW d \in Creators PROVE CreatorOK(d)'
    <3>1. CASE d = c
      BY <1>1, <1>2, <1>3, <1>4, <2>3, <2>4, <2>7, <2>10, <2>11, <3>1 DEF CreatorOK
    <3>2. CASE d # c
      BY <1>3, <2>4, <2>6, <2>8, <3>2 DEF AInv, CreatorOK
    <3> QED
      BY <3>1, <3>2
  <2>13. ASSUME NEW e \in Emails \ DOMAIN Founders PROVE AccountOK(e)' /\ UserOK(e)'
    <3>1. CASE e = body.email
      <4>1. r.by = by
        BY DEF r, Request
      <4> QED
        BY <1>1, <1>3, <1>4, <2>4, <2>10, <3>1, <4>1 DEF AccountOK, UserOK
    <3>2. CASE e # body.email
      <4>1. pool[e] # None => origin[e].by \in Emails
        BY DEF AInv, AccountOK, RequestRecord
      <4> QED
        BY <1>3, <1>6, <2>4, <3>2, <4>1 DEF AInv, AccountOK, UserOK
    <3> QED
      BY <3>1, <3>2
  <2> QED
    BY <2>2, <2>5, <2>9, <2>12, <2>13 DEF AInv
<1>7. [step |-> "conflict"] \in AnswerRecord /\ [step |-> "error"] \in AnswerRecord
  BY DEF AnswerRecord
<1> QED
  BY <1>5, <1>6, <1>7 DEF CreateAccount, Answer, r, new

(* The group call gives the account what its own request asked for.        *)
LEMMA GroupKeeps ==
    ASSUME AInv, NEW c \in Creators, AddToGroup(c)
    PROVE  AInv'
<1> DEFINE r == create[c]
<1> USE AccountsAssumption
<1>1. r \in RequestRecord /\ r.step = "group" /\ Busy(c)
  BY DEF AddToGroup, At, Busy, AInv, Typed, RequestRecord, AnswerRecord
<1>2. /\ r.email \in Emails \ DOMAIN Founders /\ r.role \in Roles
      /\ pool[r.email] \in Account /\ pool[r.email] # None /\ pool[r.email].group = "user"
      /\ users[r.email] = None /\ origin[r.email].role = r.role
  BY <1>1 DEF AInv, CreatorOK, RequestRecord, Typed
<1>3. UNCHANGED <<users, origin>>
  BY DEF AddToGroup
<1>4. \E a \in AnswerRecord \cup RequestRecord :
        /\ create' = [create EXCEPT ![c] = a]
        /\ a \in RequestRecord => /\ a = [r EXCEPT !.step = "record"]
                                  /\ pool' = [pool EXCEPT ![r.email].group = r.role]
  <2>1. CASE Answer(c, "error")
    <3>1. /\ [step |-> "error"] \in AnswerRecord
          /\ [step |-> "error"] \notin RequestRecord
      BY DEF AnswerRecord, RequestRecord
    <3> QED
      BY <2>1, <3>1 DEF Answer
  <2>2. CASE Goto(c, "record") /\ pool' = [pool EXCEPT ![r.email].group = r.role]
    <3>1. [r EXCEPT !.step = "record"] \in RequestRecord
      BY <1>1 DEF RequestRecord
    <3>2. create' = [create EXCEPT ![c] = [r EXCEPT !.step = "record"]]
      BY <2>2 DEF Goto, AInv, Typed
    <3> QED
      BY <2>2, <3>1, <3>2
  <2> QED
    BY <2>1, <2>2 DEF AddToGroup
<1>5. PICK a \in AnswerRecord \cup RequestRecord :
        /\ create' = [create EXCEPT ![c] = a]
        /\ a \in RequestRecord => /\ a = [r EXCEPT !.step = "record"]
                                 /\ pool' = [pool EXCEPT ![r.email].group = r.role]
  BY <1>4
<1>6. pool' \in {pool, [pool EXCEPT ![r.email].group = r.role]}
  BY DEF AddToGroup
<1>7. /\ pool'[r.email] \in Account /\ pool'[r.email] # None
      /\ pool'[r.email].tenant = pool[r.email].tenant
      /\ pool'[r.email].sites = pool[r.email].sites
      /\ pool'[r.email].group \in {"user", r.role}
  BY <1>2, <1>6 DEF Account, AInv, Typed
<1>8. \A e \in Emails : e # r.email => pool'[e] = pool[e]
  BY <1>2, <1>6 DEF AInv, Typed
<1>9. /\ create'[c] = a
      /\ \A d \in Creators : d # c => create'[d] = create[d] /\ (Busy(d)' <=> Busy(d))
  BY <1>5 DEF AInv, Typed, Busy
<1>10. Busy(c)' => a \in RequestRecord /\ a = [r EXCEPT !.step = "record"]
  BY <1>5, <1>9 DEF Busy, AnswerRecord
<1>11. \A d \in Creators : d # c /\ Busy(d) => create[d].email # r.email /\ create[d].email \in Emails
  BY <1>1 DEF AInv, OneCreator, Typed, Busy, RequestRecord, AnswerRecord
<1> HIDE DEF r
<1>12. Typed'
  <2>1. create' \in [Creators -> RequestRecord \cup AnswerRecord]
    BY <1>5 DEF AInv, Typed
  <2>2. DOMAIN pool' = Emails
    BY <1>6 DEF AInv, Typed
  <2>3. pool' \in [Emails -> Account \cup {None}]
    BY <1>6, <1>7, <1>8, <2>2 DEF AInv, Typed
  <2> QED
    BY <1>3, <2>1, <2>3 DEF AInv, Typed
<1>13. FoundersStay'
  BY <1>2, <1>8 DEF AInv, FoundersStay
<1>14. OneCreator'
  <2>1. Busy(c)' => create'[c].email = r.email
    BY <1>1, <1>9, <1>10 DEF RequestRecord
  <2> QED
    BY <1>9, <1>11, <2>1 DEF AInv, OneCreator
<1>15. ASSUME NEW d \in Creators PROVE CreatorOK(d)'
  <2>1. CASE d = c
    <3> SUFFICES ASSUME Busy(c)' PROVE CreatorOK(c)'
      BY <2>1 DEF CreatorOK
    <3>1. /\ create'[c].step = "record" /\ create'[c].email = r.email
          /\ create'[c].role = r.role /\ create'[c].tenant = r.tenant
          /\ create'[c].sites = r.sites
      BY <1>1, <1>9, <1>10 DEF RequestRecord
    <3>2. pool'[r.email].group = r.role
      BY <1>2, <1>5, <1>10 DEF AInv, Typed, Account
    <3>3. pool[r.email].tenant = r.tenant /\ pool[r.email].sites = r.sites
      BY <1>1 DEF AInv, CreatorOK, r
    <3> QED
      BY <1>2, <1>3, <1>7, <3>1, <3>2, <3>3 DEF CreatorOK
  <2>2. CASE d # c
    BY <1>3, <1>8, <1>9, <1>11, <2>2 DEF AInv, CreatorOK
  <2> QED
    BY <2>1, <2>2
<1>16. ASSUME NEW e \in Emails \ DOMAIN Founders PROVE AccountOK(e)' /\ UserOK(e)'
  <2>1. pool'[e] # None => pool[e] # None
    BY <1>2, <1>8
  <2>2. pool[e] # None => origin[e].by \in Emails /\ origin[e].by # r.email
    BY <1>2 DEF AInv, AccountOK, RequestRecord
  <2>3. AccountOK(e)'
    BY <1>2, <1>3, <1>7, <1>8, <2>1, <2>2 DEF AInv, AccountOK
  <2>4. UserOK(e)'
    BY <1>2, <1>3, <1>8 DEF AInv, UserOK
  <2> QED
    BY <2>3, <2>4
<1> QED
  BY <1>12, <1>13, <1>14, <1>15, <1>16 DEF AInv

(* The record is written with what the account has by then.                *)
LEMMA PutKeeps ==
    ASSUME AInv, NEW c \in Creators, PutUser(c)
    PROVE  AInv'
<1> DEFINE r == create[c]
<1>1. r \in RequestRecord /\ r.step = "record" /\ Busy(c)
  BY DEF PutUser, At, Busy, AInv, Typed, RequestRecord, AnswerRecord
<1>2. /\ r.email \in Emails /\ pool[r.email] # None
      /\ pool[r.email].tenant = r.tenant /\ pool[r.email].sites = r.sites
      /\ pool[r.email].group = r.role
  BY <1>1 DEF AInv, CreatorOK, RequestRecord
<1>3. UNCHANGED <<pool, origin>>
  BY DEF PutUser
<1>4. PICK a \in AnswerRecord : create' = [create EXCEPT ![c] = a]
  BY DEF PutUser, Answer, AnswerRecord
<1>5. users' \in {users, [users EXCEPT ![r.email] =
                            [tenant |-> r.tenant, role |-> r.role, sites |-> r.sites]]}
  BY DEF PutUser
<1>6. \A d \in Creators : Busy(d)' => d # c /\ Busy(d) /\ create'[d] = create[d]
  BY <1>4 DEF AInv, Typed, Busy, AnswerRecord
<1>7. \A d \in Creators : Busy(d)' => create[d].email # r.email /\ create[d].email \in Emails
  BY <1>1, <1>6 DEF AInv, OneCreator, Typed, Busy, RequestRecord, AnswerRecord
<1>8. \A e \in Emails : e # r.email => users'[e] = users[e]
  BY <1>5 DEF AInv, Typed
<1>9. Typed'
  BY <1>3, <1>4, <1>5 DEF AInv, Typed
<1>10. \A d \in Creators : CreatorOK(d)'
  BY <1>3, <1>6, <1>7, <1>8 DEF AInv, CreatorOK
<1>11. users'[r.email] \in {users[r.email],
                            [tenant |-> r.tenant, role |-> r.role, sites |-> r.sites]}
  BY <1>2, <1>5 DEF AInv, Typed
<1> HIDE DEF r
<1>12. ASSUME NEW e \in Emails \ DOMAIN Founders PROVE UserOK(e)'
  <2>1. CASE e = r.email
    BY <1>2, <1>3, <1>11, <2>1 DEF AInv, UserOK
  <2>2. CASE e # r.email
    BY <1>3, <1>8, <2>2 DEF AInv, UserOK
  <2> QED
    BY <2>1, <2>2
<1> QED
  BY <1>3, <1>6, <1>9, <1>10, <1>12 DEF AInv, FoundersStay, OneCreator, AccountOK

(* No other action touches the accounts.                                   *)
LEMMA AccountsStep == AInv /\ [Next]_vars => AInv'
<1> SUFFICES ASSUME AInv, [Next]_vars PROVE AInv'
  OBVIOUS
<1>1. ASSUME NEW c \in Creators, Provision(c) PROVE AInv'
  BY <1>1, CreateKeeps, GroupKeeps, PutKeeps DEF Provision, CreateUser
<1>2. CASE UNCHANGED <<pool, users, create, origin>>
  BY <1>2 DEF AInv, Typed, FoundersStay, OneCreator, AccountOK, UserOK,
              CreatorOK, Busy
<1>3. CASE \E c \in Creators : Provision(c)
  BY <1>1, <1>3
<1> QED
  BY <1>2, <1>3 DEF Next, vars, Report, FindDuplicate, PutFlag, ResendFlag, PatchLoad,
                    PatchUpdate, ListFlags, QueryFlags, Propagate, Tick, accountVars

(* Whatever fails half-way, an account has what the request that made it   *)
(* asked for and its maker could grant, and its record agrees with it.     *)
THEOREM AccountsHold == Spec => []AccountsAsRequested
<1>1. Init => AInv
  BY AccountsStart DEF Init
<1>2. AInv => AccountsAsRequested
  BY DEF AInv, AccountOK, UserOK, AccountsAsRequested
<1> QED
  BY <1>1, <1>2, AccountsStep, PTL DEF Spec

-----------------------------------------------------------------------------
(* Tenants stay apart.  What a caller could reach when he was checked he   *)
(* can reach ever after: an account never loses anything.                  *)

LEMMA ReachGrows ==
    ASSUME AInv, NEW c \in Creators, CreateUser(c), NEW by \in Emails, pool[by] # None
    PROVE  /\ pool'[by] # None
           /\ pool[by].group # "user" => pool'[by].group # "user"
           /\ \A t, s : MayAccess(pool[by], t, s) => MayAccess(pool'[by], t, s)
<1> USE AccountsAssumption
<1>1. ASSUME NEW who \in Emails, NEW body \in Bodies, CreateAccount(c, who, body)
      PROVE  pool'[by] = pool[by]
  <2>1. CASE pool' = pool
    BY <2>1
  <2>2. CASE pool[body.email] = None
             /\ pool' = [pool EXCEPT ![body.email] = NewAccount(Request(who, body))]
    BY <2>2 DEF AInv, Typed
  <2> QED
    BY <1>1, <2>1, <2>2 DEF CreateAccount
<1>2. CASE AddToGroup(c)
  <2>1. /\ create[c] \in RequestRecord /\ create[c].step = "group" /\ Busy(c)
    BY <1>2 DEF AddToGroup, At, Busy, AInv, Typed, RequestRecord, AnswerRecord
  <2>2. pool[create[c].email].group = "user" /\ create[c].role \in Roles
    BY <2>1 DEF AInv, CreatorOK, RequestRecord
  <2>3. pool' \in {pool, [pool EXCEPT ![create[c].email].group = create[c].role]}
    BY <1>2 DEF AddToGroup
  <2>4. pool[by] \in Account
    BY DEF AInv, Typed
  <2>5. CASE pool' = pool
    BY <2>5
  <2>6. CASE by # create[c].email
    BY <2>3, <2>6 DEF AInv, Typed
  <2>7. CASE /\ by = create[c].email
             /\ pool' = [pool EXCEPT ![create[c].email].group = create[c].role]
    <3>1. pool'[by] = [pool[by] EXCEPT !.group = create[c].role]
      BY <2>7 DEF AInv, Typed
    <3>2. /\ pool'[by] \in Account /\ pool'[by].group = create[c].role
          /\ pool'[by].tenant = pool[by].tenant /\ pool'[by].sites = pool[by].sites
      BY <2>2, <2>4, <3>1 DEF Account
    <3> QED
      BY <2>2, <2>7, <3>2 DEF MayAccess, Roles
  <2> QED
    BY <2>3, <2>5, <2>6, <2>7
<1>3. CASE PutUser(c)
  BY <1>3 DEF PutUser
<1> QED
  BY <1>1, <1>2, <1>3 DEF CreateUser

Reach(by, t, s) == by \in Emails /\ pool[by] # None /\ MayAccess(pool[by], t, s)

FlagOK(f) ==
    /\ {"tenant", "site", "status", "raised_by", "acting_user"} \subseteq DOMAIN f
    /\ f.raised_by # None => Reach(f.raised_by, f.tenant, f.site)
    /\ f.acting_user # None => /\ Reach(f.acting_user, f.tenant, f.site)
                               /\ pool[f.acting_user].group # "user"

ReportOK(r) ==
    /\ Checking(r) => /\ {"step", "by", "tenant", "site", "reason"} \subseteq DOMAIN report[r]
                      /\ Reach(report[r].by, report[r].tenant, report[r].site)
    /\ report[r].step = "duplicate" =>
          Reach(report[r].by, report[r].flag.tenant, report[r].flag.site)
    /\ report[r].step = "resend" => FlagOK(report[r].flag)

PatchOK(q) ==
    patch[q].step = "update" =>
        /\ Reach(patch[q].by, patch[q].key[1], patch[q].key[2])
        /\ pool[patch[q].by].group # "user"

ListingOK(l) ==
    LET q == listing[l]
    IN  /\ q.step \in {"query1", "query2"} =>
             /\ {"step", "by", "caller", "tenant", "items"} \subseteq DOMAIN q
             /\ \A f \in q.items : q.tenant \in {None, f.tenant}
             /\ \A t, s : q.tenant \in {None, t}
                            /\ (q.caller.group = "user" => s \in q.caller.sites)
                            => Reach(q.by, t, s)
        /\ q.step = "answered" => \A f \in q.shown : Reach(q.by, f.tenant, f.site)

(* Every flag, report, PATCH and listing stays within what its caller can  *)
(* reach.                                                                  *)
FlagsOK == \A f \in flags : FlagOK(f)
ReportsOK == DOMAIN report = Reports /\ \A r \in Reports : ReportOK(r)
PatchesOK == DOMAIN patch = Patches /\ \A q \in Patches : PatchOK(q)
ListingsOK == DOMAIN listing = Listings /\ \A l \in Listings : ListingOK(l)

FInv == FlagsOK /\ ReportsOK /\ PatchesOK /\ ListingsOK

(* To begin with nobody has raised or changed a flag.                      *)
LEMMA FlagsStart == Init => FInv
BY TableAssumption
DEF FlagRow, Init, FInv, FlagsOK, ReportsOK, PatchesOK, ListingsOK, FlagOK, ReportOK, Checking, PatchOK,
    ListingOK

LEMMA FlagsUnchanged == ASSUME FlagsOK, UNCHANGED <<pool, flags>> PROVE FlagsOK'
BY DEF FlagsOK, FlagOK, Reach
LEMMA ReportsUnchanged == ASSUME ReportsOK, UNCHANGED <<pool, report>> PROVE ReportsOK'
BY DEF ReportsOK, ReportOK, Checking, FlagOK, Reach
LEMMA PatchesUnchanged == ASSUME PatchesOK, UNCHANGED <<pool, patch>> PROVE PatchesOK'
BY DEF PatchesOK, PatchOK, Reach
LEMMA ListingsUnchanged == ASSUME ListingsOK, UNCHANGED <<pool, listing>> PROVE ListingsOK'
BY DEF ListingsOK, ListingOK, Reach

(* Who acts in a tenant may access all of it, or, as a user, his sites.    *)
LEMMA ActsInReach ==
    ASSUME AInv, NEW by \in Emails, NEW tenant, ActsIn(by, tenant)
    PROVE  /\ pool[by] # None
           /\ pool[by].group # "user" => \A s : Reach(by, tenant, s)
           /\ \A s : pool[by].group = "user" /\ s \in pool[by].sites => Reach(by, tenant, s)
<1>1. pool[by] # None /\ pool[by].group \in Roles
  BY DEF ActsIn, AInv, Typed, Account
<1> QED
  BY <1>1 DEF ActsIn, Reach, MayAccess, Roles

(* A step of one report leaves the others as they were.                    *)
LEMMA ReportChanged ==
    ASSUME FInv, NEW r \in Reports, NEW q, UNCHANGED pool,
           report' = [report EXCEPT ![r] = q], ReportOK(r)'
    PROVE  ReportsOK'
<1>1. DOMAIN report' = Reports /\ \A p \in Reports : p # r => report'[p] = report[p]
  BY DEF FInv, ReportsOK
<1>2. \A p \in Reports : p # r => ReportOK(p)'
  BY <1>1 DEF FInv, ReportsOK, ReportOK, Checking, FlagOK, Reach
<1> QED
  BY <1>1, <1>2 DEF ReportsOK

(* A new flag lies where its reporter was let in.                          *)
LEMMA NewFlagOK ==
    ASSUME FInv, NEW r \in Reports, report[r].step = "put"
    PROVE  FlagOK(NewFlag(r))
BY DEF NewFlag, FInv, ReportsOK, ReportOK, Checking, FlagOK

(* A report looks for, and answers with, flags of the camera it checked.   *)
LEMMA ReportsStep ==
    ASSUME AInv, FInv, NEW r \in Reports, UNCHANGED pool,
           \/ \E by \in Emails, t \in Tenants, s \in Sites, why \in Reasons :
                 Report(r, by, t, s, why)
           \/ FindDuplicate(r) \/ PutFlag(r) \/ ResendFlag(r)
    PROVE  ReportsOK'
<1>1. ASSUME NEW by \in Emails, NEW t \in Tenants, NEW s \in Sites, NEW why \in Reasons,
             Report(r, by, t, s, why)
      PROVE  ReportsOK'
  <2> DEFINE q == [step |-> "query1", by |-> by, tenant |-> t, site |-> s, reason |-> why]
  <2>1. report' = [report EXCEPT ![r] = q]
    BY <1>1 DEF Report
  <2>2. report'[r] = q
    BY <2>1 DEF FInv, ReportsOK
  <2>3. Reach(by, t, s)
    BY <1>1 DEF Report, ActsIn, Reach
  <2>4. ReportOK(r)'
    BY <2>2, <2>3 DEF ReportOK, Checking, Reach
  <2> QED
    BY <2>1, <2>4, ReportChanged
<1>2. ASSUME FindDuplicate(r) PROVE ReportsOK'
  <2>1. /\ Checking(r)
        /\ {"step", "by", "tenant", "site", "reason"} \subseteq DOMAIN report[r]
        /\ Reach(report[r].by, report[r].tenant, report[r].site)
    BY <1>2 DEF FindDuplicate, FInv, ReportsOK, ReportOK, Checking
  <2>2. CASE Matching(r, LookupOrder[report[r].step]) # {}
    <3>1. PICK f \in Matching(r, LookupOrder[report[r].step]) :
             report' = [report EXCEPT ![r] = [step |-> "duplicate", by |-> report[r].by,
                                             flag |-> f]]
      BY <1>2, <2>2 DEF FindDuplicate
    <3>2. f.tenant = report[r].tenant /\ f.site = report[r].site
      BY <3>1 DEF Matching
    <3>3. report'[r] = [step |-> "duplicate", by |-> report[r].by, flag |-> f]
      BY <3>1 DEF FInv, ReportsOK
    <3>4. ReportOK(r)'
      BY <2>1, <3>2, <3>3 DEF ReportOK, Checking, Reach
    <3> QED
      BY <3>1, <3>4, ReportChanged
  <2>3. CASE Matching(r, LookupOrder[report[r].step]) = {}
    <3> DEFINE q == [report[r] EXCEPT
                       !.step = IF report[r].step = "query1" THEN "query2" ELSE "put"]
    <3>1. report' = [report EXCEPT ![r] = q]
      BY <1>2, <2>3 DEF FindDuplicate, FInv, ReportsOK
    <3>2. /\ report'[r] = q /\ DOMAIN q = DOMAIN report[r]
          /\ q.step \in {"query2", "put"}
          /\ q.by = report[r].by /\ q.tenant = report[r].tenant /\ q.site = report[r].site
      BY <2>1, <3>1 DEF FInv, ReportsOK
    <3> HIDE DEF q
    <3>3. ReportOK(r)'
      BY <2>1, <3>2 DEF ReportOK, Checking, Reach
    <3> QED
      BY <3>1, <3>3, ReportChanged
  <2> QED
    BY <2>2, <2>3
<1>3. ASSUME PutFlag(r) PROVE ReportsOK'
  <2>1. CASE report' = [report EXCEPT ![r] = [step |-> "created"]]
    <3>1. report'[r] = [step |-> "created"]
      BY <2>1 DEF FInv, ReportsOK
    <3>2. ReportOK(r)'
      BY <3>1 DEF ReportOK, Checking
    <3> QED
      BY <2>1, <3>2, ReportChanged
  <2>2. CASE report' = [report EXCEPT ![r] = [step |-> "resend", flag |-> NewFlag(r)]]
    <3>1. report'[r] = [step |-> "resend", flag |-> NewFlag(r)]
      BY <2>2 DEF FInv, ReportsOK
    <3>2. FlagOK(NewFlag(r))
      BY <1>3, NewFlagOK DEF PutFlag
    <3>3. report'[r].step = "resend" /\ FlagOK(report'[r].flag)
      BY <3>1, <3>2
    <3>4. ReportOK(r)'
      BY <3>3 DEF ReportOK, Checking, FlagOK, Reach
    <3> QED
      BY <2>2, <3>4, ReportChanged
  <2> QED
    BY <1>3, <2>1, <2>2 DEF PutFlag
<1>4. ASSUME ResendFlag(r) PROVE ReportsOK'
  <2>1. CASE report' = [report EXCEPT ![r] = [step |-> "created"]]
    <3>1. report'[r] = [step |-> "created"]
      BY <2>1 DEF FInv, ReportsOK
    <3>2. ReportOK(r)'
      BY <3>1 DEF ReportOK, Checking
    <3> QED
      BY <2>1, <3>2, ReportChanged
  <2>2. CASE UNCHANGED report
    BY <2>2, ReportsUnchanged DEF FInv
  <2> QED
    BY <1>4, <2>1, <2>2 DEF ResendFlag
<1> QED
  BY <1>1, <1>2, <1>3, <1>4

(* What is put, the first time and again, lies where its reporter was let  *)
(* in.                                                                     *)
LEMMA PutFlagKeeps ==
    ASSUME FInv, NEW r \in Reports, UNCHANGED pool, PutFlag(r) \/ ResendFlag(r)
    PROVE  FlagsOK'
<1>1. PICK flag : FlagOK(flag) /\ \A f \in flags' : f \in flags \/ f = flag
  <2>1. CASE PutFlag(r)
    BY <2>1, NewFlagOK DEF PutFlag, Replace
  <2>2. CASE ResendFlag(r)
    BY <2>2 DEF ResendFlag, Replace, FInv, ReportsOK, ReportOK
  <2> QED
    BY <2>1, <2>2
<1> SUFFICES ASSUME NEW f \in flags' PROVE FlagOK(f)'
  BY DEF FlagsOK
<1>2. FlagOK(f)
  BY <1>1 DEF FInv, FlagsOK
<1> QED
  BY <1>2 DEF FlagOK, Reach

(* A PATCH remembers the key of a flag its admin can reach,                *)
LEMMA PatchLoadKeeps ==
    ASSUME AInv, FInv, NEW q \in Patches, NEW by \in Emails, NEW t \in Tenants, NEW id, NEW status,
           UNCHANGED pool, PatchLoad(q, by, t, id, status)
    PROVE  PatchesOK'
<1>1. PICK f \in FlagById(t, id) :
         patch' = [patch EXCEPT ![q] = [step |-> "update", by |-> by, key |-> Key(f),
                                       status |-> status]]
  BY DEF PatchLoad
<1>2. Key(f)[1] = t /\ Key(f)[2] = f.site
  BY DEF FlagById, Key
<1>3. pool[by].group # "user" /\ Reach(by, t, f.site)
  BY ActsInReach DEF PatchLoad
<1>4. patch'[q] = [step |-> "update", by |-> by, key |-> Key(f), status |-> status]
  BY <1>1 DEF FInv, PatchesOK
<1>5. PatchOK(q)'
  BY <1>2, <1>3, <1>4 DEF PatchOK, Reach
<1>6. DOMAIN patch' = Patches /\ \A p \in Patches : p # q => patch'[p] = patch[p]
  BY <1>1 DEF FInv, PatchesOK
<1> QED
  BY <1>5, <1>6 DEF FInv, PatchesOK, PatchOK, Reach

(* and what it overwrites by that key still lies there.                    *)
LEMMA PatchUpdateKeeps ==
    ASSUME FInv, NEW q \in Patches, UNCHANGED pool, PatchUpdate(q)
    PROVE  FlagsOK' /\ PatchesOK'
<1>1. PatchesOK'
  <2>1. CASE patch' = [patch EXCEPT ![q] = [step |-> "done"]]
    BY <2>1 DEF FInv, PatchesOK, PatchOK, Reach
  <2>2. CASE UNCHANGED patch
    BY <2>2, PatchesUnchanged DEF FInv
  <2> QED
    BY <2>1, <2>2 DEF PatchUpdate
<1>2. Reach(patch[q].by, patch[q].key[1], patch[q].key[2]) /\ pool[patch[q].by].group # "user"
  BY DEF PatchUpdate, FInv, PatchesOK, PatchOK
<1>3. ASSUME NEW g \in flags' PROVE FlagOK(g)'
  <2>1. PICK f \in flags :
          g = IF Key(f) = patch[q].key
              THEN [f EXCEPT !.status = patch[q].status, !.acting_user = patch[q].by]
              ELSE f
    BY <1>3 DEF PatchUpdate
  <2>2. FlagOK(f)
    BY DEF FInv, FlagsOK
  <2>3. CASE Key(f) # patch[q].key
    BY <2>1, <2>2, <2>3 DEF FlagOK, Reach
  <2>4. CASE Key(f) = patch[q].key
    <3>1. f.tenant = patch[q].key[1] /\ f.site = patch[q].key[2]
      BY <2>4 DEF Key
    <3>2. /\ DOMAIN g = DOMAIN f /\ g.tenant = f.tenant /\ g.site = f.site
          /\ g.raised_by = f.raised_by /\ g.acting_user = patch[q].by
      BY <2>1, <2>2, <2>4 DEF FlagOK
    <3> QED
      BY <1>2, <2>2, <3>1, <3>2 DEF FlagOK, Reach
  <2> QED
    BY <2>3, <2>4
<1> QED
  BY <1>1, <1>3 DEF FlagsOK

(* What a listing asks for the caller may see,                             *)
LEMMA ListFlagsKeeps ==
    ASSUME AInv, FInv, NEW l \in Listings, NEW by \in Emails, NEW tenant,
           UNCHANGED pool, ListFlags(l, by, tenant)
    PROVE  ListingsOK'
<1>1. PICK owed :
        listing' = [listing EXCEPT ![l] =
            [step |-> "query1", by |-> by, caller |-> pool[by], tenant |-> tenant,
             items |-> {}, owed |-> owed]]
  BY DEF ListFlags
<1>2. listing'[l] = [step |-> "query1", by |-> by, caller |-> pool[by], tenant |-> tenant,
                     items |-> {}, owed |-> owed]
  BY <1>1 DEF FInv, ListingsOK
<1>3. ASSUME NEW t, NEW s, tenant \in {None, t},
             pool[by].group = "user" => s \in pool[by].sites
      PROVE  Reach(by, t, s)
  <2>1. CASE ActsIn(by, tenant)
    <3>1. t = tenant
      BY <1>3, <2>1 DEF ActsIn
    <3> QED
      BY <1>3, <2>1, <3>1, ActsInReach
  <2>2. CASE pool[by] # None /\ pool[by].group = "super_admin"
    BY <2>2 DEF Reach, MayAccess
  <2> QED
    BY <2>1, <2>2 DEF ListFlags
<1>4. ListingOK(l)'
  BY <1>2, <1>3 DEF ListingOK, Reach
<1>5. DOMAIN listing' = Listings /\ \A k \in Listings : k # l => listing'[k] = listing[k]
  BY <1>1 DEF FInv, ListingsOK
<1> QED
  BY <1>4, <1>5 DEF FInv, ListingsOK, ListingOK, Reach

(* (one listing leaves the others as they were)                            *)
LEMMA ListingChanged ==
    ASSUME FInv, NEW l \in Listings, NEW new, UNCHANGED pool,
           listing' = [listing EXCEPT ![l] = new], ListingOK(l)'
    PROVE  ListingsOK'
<1>1. DOMAIN listing' = Listings /\ \A k \in Listings : k # l => listing'[k] = listing[k]
  BY DEF FInv, ListingsOK
<1> QED
  BY <1>1 DEF FInv, ListingsOK, ListingOK, Reach

(* and of what the index returns it shows no more than that.               *)
LEMMA QueryFlagsKeeps ==
    ASSUME FInv, NEW l \in Listings, UNCHANGED pool, QueryFlags(l)
    PROVE  ListingsOK'
<1> DEFINE q == listing[l]
<1> DEFINE items == q.items \cup {f \in index : /\ f.status = DefaultStatuses[q.step]
                                                /\ q.tenant \in {None, f.tenant}}
<1>1. /\ {"step", "by", "caller", "tenant", "items"} \subseteq DOMAIN q
      /\ \A t, s : q.tenant \in {None, t}
                     /\ (q.caller.group = "user" => s \in q.caller.sites)
                     => Reach(q.by, t, s)
      /\ \A f \in items : q.tenant \in {None, f.tenant}
  BY DEF QueryFlags, FInv, ListingsOK, ListingOK
<1>2. CASE q.step = "query1"
  <2> DEFINE new == [q EXCEPT !.step = "query2", !.items = items]
  <2>1. listing' = [listing EXCEPT ![l] = new]
    BY <1>2 DEF QueryFlags, FInv, ListingsOK
  <2>2. /\ listing'[l] = new /\ DOMAIN new = DOMAIN q /\ new.step = "query2"
        /\ new.items = items /\ new.by = q.by /\ new.caller = q.caller
        /\ new.tenant = q.tenant
    BY <1>1, <2>1 DEF FInv, ListingsOK
  <2> HIDE DEF new, items
  <2>3. ListingOK(l)'
    BY <1>1, <2>2 DEF ListingOK, Reach
  <2> QED
    BY <2>1, <2>3, ListingChanged
<1>3. CASE q.step # "query1"
  <2>1. PICK S, owed :
          /\ S \in Newest(items)
          /\ listing' = [listing EXCEPT ![l] =
                [step |-> "answered", by |-> q.by, shown |-> Shown(q.caller, S), owed |-> owed]]
    BY <1>3 DEF QueryFlags
  <2> DEFINE shown == Shown(q.caller, S)
             new == [step |-> "answered", by |-> q.by, shown |-> shown, owed |-> owed]
  <2>2. S \subseteq items
    BY <2>1 DEF Newest
  <2> HIDE DEF items
  <2>3. \A f \in shown : f \in items /\ (q.caller.group = "user" => f.site \in q.caller.sites)
    BY <2>2 DEF Shown
  <2>4. listing' = [listing EXCEPT ![l] = new]
    BY <2>1
  <2> HIDE DEF shown
  <2>5. \A f \in shown : Reach(q.by, f.tenant, f.site)
    BY <1>1, <2>3
  <2>6. listing'[l] = new
    BY <2>4 DEF FInv, ListingsOK
  <2>7. ListingOK(l)'
    BY <2>5, <2>6 DEF ListingOK, Reach
  <2> HIDE DEF new
  <2> QED
    BY <2>4, <2>7, ListingChanged
<1> QED
  BY <1>2, <1>3

(* Accounts only gain.                                                     *)
LEMMA ProvisionKeeps ==
    ASSUME AInv, FInv, NEW c \in Creators, Provision(c)
    PROVE  FInv'
<1>1. CreateUser(c) /\ UNCHANGED <<flags, report, patch, listing>>
  BY DEF Provision, flagVars
<1>2. \A by, t, s : Reach(by, t, s) => Reach(by, t, s)'
  BY <1>1, ReachGrows DEF Reach
<1>3. \A by \in Emails : pool[by] # None /\ pool[by].group # "user" => pool'[by].group # "user"
  BY <1>1, ReachGrows
<1>4. ASSUME NEW f, FlagOK(f) PROVE FlagOK(f)'
  BY <1>1, <1>2, <1>3, <1>4 DEF FlagOK, Reach
<1>5. \A r \in Reports : ReportOK(r)'
  <2> SUFFICES ASSUME NEW r \in Reports PROVE ReportOK(r)'
    OBVIOUS
  <2>1. ReportOK(r) /\ report'[r] = report[r]
    BY <1>1 DEF FInv, ReportsOK
  <2>2. report[r].step = "resend" => FlagOK(report[r].flag)'
    BY <1>4, <2>1 DEF ReportOK
  <2> QED
    BY <1>2, <2>1, <2>2 DEF ReportOK, Checking
<1>6. \A q \in Patches : PatchOK(q)'
  BY <1>1, <1>2, <1>3 DEF FInv, PatchesOK, PatchOK, Reach
<1>7. \A l \in Listings : ListingOK(l)'
  BY <1>1, <1>2 DEF FInv, ListingsOK, ListingOK
<1> QED
  BY <1>1, <1>4, <1>5, <1>6, <1>7 DEF FInv, FlagsOK, ReportsOK, PatchesOK, ListingsOK

(* One action at a time.                                                   *)
LEMMA FlagsStep == AInv /\ FInv /\ [Next]_vars => FInv'
<1> SUFFICES ASSUME AInv, FInv, [Next]_vars PROVE FInv'
  OBVIOUS
<1>1. FlagsOK /\ ReportsOK /\ PatchesOK /\ ListingsOK
  BY DEF FInv
<1>2. FInv' <=> FlagsOK' /\ ReportsOK' /\ PatchesOK' /\ ListingsOK'
  BY DEF FInv
<1>3. ASSUME NEW c \in Creators, Provision(c) PROVE FInv'
  BY <1>3, ProvisionKeeps
<1>4. ASSUME NEW r \in Reports,
             \/ \E by \in Emails, t \in Tenants, s \in Sites, why \in Reasons :
                   Report(r, by, t, s, why)
             \/ FindDuplicate(r)
      PROVE  FInv'
  <2>1. UNCHANGED <<pool, flags, patch, listing>>
    BY <1>4 DEF Report, FindDuplicate, accountVars
  <2> QED
    BY <1>1, <1>2, <1>4, <2>1, ReportsStep, FlagsUnchanged, PatchesUnchanged, ListingsUnchanged
<1>5. ASSUME NEW r \in Reports, PutFlag(r) \/ ResendFlag(r) PROVE FInv'
  <2>1. UNCHANGED <<pool, patch, listing>>
    BY <1>5 DEF PutFlag, ResendFlag
  <2> QED
    BY <1>1, <1>2, <1>5, <2>1, ReportsStep, PutFlagKeeps, PatchesUnchanged, ListingsUnchanged
<1>6. ASSUME NEW q \in Patches, NEW by \in Emails, NEW t \in Tenants, NEW id \in FlagIds,
             NEW status \in Closed \cup {"acknowledged"}, PatchLoad(q, by, t, id, status)
      PROVE  FInv'
  <2>1. UNCHANGED <<pool, flags, report, listing>>
    BY <1>6 DEF PatchLoad, accountVars
  <2> QED
    BY <1>1, <1>2, <1>6, <2>1, PatchLoadKeeps, FlagsUnchanged, ReportsUnchanged, ListingsUnchanged
<1>7. ASSUME NEW q \in Patches, PatchUpdate(q) PROVE FInv'
  <2>1. UNCHANGED <<pool, report, listing>>
    BY <1>7 DEF PatchUpdate
  <2> QED
    BY <1>1, <1>2, <1>7, <2>1, PatchUpdateKeeps, ReportsUnchanged, ListingsUnchanged
<1>8. ASSUME NEW l \in Listings, NEW by \in Emails, NEW t \in Tenants \cup {None},
             ListFlags(l, by, t)
      PROVE  FInv'
  <2>1. UNCHANGED <<pool, flags, report, patch>>
    BY <1>8 DEF ListFlags, accountVars
  <2> QED
    BY <1>1, <1>2, <1>8, <2>1, ListFlagsKeeps, FlagsUnchanged, ReportsUnchanged, PatchesUnchanged
<1>9. ASSUME NEW l \in Listings, QueryFlags(l) PROVE FInv'
  <2>1. UNCHANGED <<pool, flags, report, patch>>
    BY <1>9 DEF QueryFlags, accountVars
  <2> QED
    BY <1>1, <1>2, <1>9, <2>1, QueryFlagsKeeps, FlagsUnchanged, ReportsUnchanged, PatchesUnchanged
<1>10. CASE UNCHANGED <<pool, flags, report, patch, listing>>
  BY <1>1, <1>2, <1>10, FlagsUnchanged, ReportsUnchanged, PatchesUnchanged, ListingsUnchanged
<1>11. Propagate \/ Tick \/ UNCHANGED vars => UNCHANGED <<pool, flags, report, patch, listing>>
  BY DEF Propagate, Tick, vars, accountVars, flagVars
<1> QED
  BY <1>3, <1>4, <1>5, <1>6, <1>7, <1>8, <1>9, <1>10, <1>11 DEF Next

(* Nobody is shown, told of or let change a flag outside his account,     *)
(* for any tenants, sites, callers, failures and delays of the index.      *)
THEOREM TenantsApart == Spec => []TenantsAreIsolated
<1>1. Init => AInv /\ FInv
  BY AccountsStart, FlagsStart DEF Init
<1>2. AInv /\ FInv /\ [Next]_vars => (AInv /\ FInv)'
  BY AccountsStep, FlagsStep
<1>3. FInv => TenantsAreIsolated
  BY DEF FInv, FlagsOK, ReportsOK, ListingsOK, FlagOK, ReportOK, ListingOK, Reach, TenantsAreIsolated
<1> QED
  BY <1>1, <1>2, <1>3, PTL DEF Spec
=============================================================================
