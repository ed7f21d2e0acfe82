------------------------------ MODULE Accounts ------------------------------
(***************************************************************************)
(* User provisioning, POST /v1/users: an account in the Cognito pool, its  *)
(* group, and a record in the table, made by three calls that may each     *)
(* fail.  Every other endpoint takes its caller's tenant, role and sites   *)
(* from the account, not from the record.                                  *)
(*                                                                         *)
(* An account is [tenant, sites, group]; no group at all is "user".  The   *)
(* sub is named by the email: no endpoint deletes an account.              *)
(***************************************************************************)
EXTENDS Naturals, FiniteSets

CONSTANTS
    Emails,     \* user names
    Founders,   \* the accounts there are to begin with
    SitesOf,    \* [tenant -> its site_ids]; two tenants may use the same
    Creators,   \* invocations of the users_post handler
    Bodies,     \* their bodies: [email, role, tenant, sites]
    MaxFaults,  \* bound on the calls that fail
    None        \* an absent attribute or item

VARIABLES
    pool,       \* [Emails -> account or None]
    users,      \* the User_Records: [Emails -> record or None]
    create,     \* [Creators -> the request at hand, or its answer]
    origin,     \* history: [Emails -> the request that made the account, or None]
    faults

accountVars == <<pool, users, create, origin, faults>>

Roles == {"user", "tenant_admin", "super_admin"}

(* The attributes an account can have, from the founders or from a body.   *)
Granted == Bodies \cup {Founders[e] : e \in DOMAIN Founders}
Account == [tenant: {g.tenant : g \in Granted},
            sites: {g.sites : g \in Granted} \cup {{}}, group: Roles]

ASSUME AccountsAssumption ==
    /\ DOMAIN Founders \subseteq Emails
    /\ \A e \in DOMAIN Founders : Founders[e] \in Account
    /\ \A b \in Bodies : b.email \in Emails /\ b.role \in Roles
    /\ None \notin Account
    /\ MaxFaults \in Nat

(* A call that raises.                                                     *)
Fault == faults < MaxFaults /\ faults' = faults + 1

-----------------------------------------------------------------------------
(* Who may ask for what: a tenant admin for his own tenant, and nobody     *)
(* above himself.                                                          *)
MayCreate(caller, body) ==
    \/ /\ caller.group = "tenant_admin"
       /\ body.tenant \in {None, caller.tenant} /\ body.role # "super_admin"
    \/ caller.group = "super_admin" /\ body.tenant # None

Target(caller, body) ==
    IF caller.group = "tenant_admin" THEN caller.tenant ELSE body.tenant

(* A user needs sites, which must exist in the tenant; others have none.   *)
SitesValid(tenant, body) ==
    body.role = "user" =>
        body.sites # {} /\ tenant \in DOMAIN SitesOf /\ body.sites \subseteq SitesOf[tenant]

At(c, s) == create[c].step = s
Answer(c, a) == create' = [create EXCEPT ![c] = [step |-> a]]
Goto(c, s) == create' = [create EXCEPT ![c].step = s]

Request(by, body) ==
    LET tenant == Target(pool[by], body)
    IN  [step |-> IF body.role = "user" THEN "record" ELSE "group",
         email |-> body.email, role |-> body.role, tenant |-> tenant, by |-> by,
         sites |-> IF body.role = "user" THEN body.sites ELSE {}]

Authorised(c, by, body) ==
    /\ At(c, "idle")
    /\ pool[by] # None /\ MayCreate(pool[by], body)
    /\ SitesValid(Target(pool[by], body), body)

NewAccount(request) ==
    [tenant |-> request.tenant, sites |-> request.sites, group |-> "user"]

MutantCreateAccount(c, by, body) ==
    LET request == Request(by, body)
    IN  /\ Authorised(c, by, body)
        /\ create' = [create EXCEPT ![c] = request]
        /\ IF pool[body.email] # None THEN UNCHANGED <<pool, origin>>
           ELSE /\ pool' = [pool EXCEPT ![body.email] = NewAccount(request)]
                /\ origin' = [origin EXCEPT ![body.email] = request]
        /\ UNCHANGED <<users, faults>>

(* AdminCreateUser: UsernameExistsException is 409.  A call that is        *)
(* applied and loses its reply meets its own account when the SDK retries: *)
(* 409 as well, and when no retry gets through 500.                        *)
CreateAccount(c, by, body) ==
    LET request == Request(by, body)
        made == /\ pool' = [pool EXCEPT ![body.email] = NewAccount(request)]
                /\ origin' = [origin EXCEPT ![body.email] = request]
    IN  /\ Authorised(c, by, body)
        /\ IF pool[body.email] # None
           THEN Answer(c, "conflict") /\ UNCHANGED <<pool, origin, faults>>
           ELSE \/ create' = [create EXCEPT ![c] = request] /\ made /\ UNCHANGED faults
                \/ Fault /\ Answer(c, "error") /\ UNCHANGED <<pool, origin>>
                \/ Fault /\ \E a \in {"error", "conflict"} : Answer(c, a) /\ made
        /\ UNCHANGED users

(* AdminAddUserToGroup, for the two admin roles.                           *)
AddToGroup(c) ==
    /\ At(c, "group")
    /\ LET joined == [pool EXCEPT ![create[c].email].group = create[c].role]
       IN  \/ pool' = joined /\ Goto(c, "record") /\ UNCHANGED faults
           \/ pool' \in {pool, joined} /\ Answer(c, "error") /\ Fault
    /\ UNCHANGED <<users, origin>>

(* put_user, unconditional.                                                *)
PutUser(c) ==
    /\ At(c, "record")
    /\ LET r == create[c]
           put == [users EXCEPT ![r.email] =
                      [tenant |-> r.tenant, role |-> r.role, sites |-> r.sites]]
       IN  \/ users' = put /\ Answer(c, "done") /\ UNCHANGED faults
           \/ users' \in {users, put} /\ Answer(c, "error") /\ Fault
    /\ UNCHANGED <<pool, origin>>

-----------------------------------------------------------------------------
AccountsInit ==
    /\ pool = [e \in Emails |-> IF e \in DOMAIN Founders THEN Founders[e] ELSE None]
    /\ users = [e \in Emails |-> None]
    /\ create = [c \in Creators |-> [step |-> "idle"]]
    /\ origin = [e \in Emails |-> None]
    /\ faults = 0

CreateUser(c) ==
    \/ \E by \in Emails, body \in Bodies : CreateAccount(c, by, body)
    \/ AddToGroup(c) \/ PutUser(c)

-----------------------------------------------------------------------------
(* Properties                                                              *)

AccountsTypeOK ==
    /\ \A e \in Emails : pool[e] # None => pool[e].group \in Roles
    /\ \A e \in Emails : users[e] # None => users[e].role \in Roles
    /\ \A e \in DOMAIN Founders : origin[e] = None /\ pool[e] = Founders[e]
    /\ \A c \in Creators :
          create[c].step \in {"idle", "group", "record", "done", "error", "conflict"}
    /\ faults \in 0..MaxFaults

(* Whatever fails half-way and however requests for one email collide, an  *)
(* account has the tenant and the sites of the one request that made it,   *)
(* its group or none -- never more than that request asked for, nor than   *)
(* the one who made it could grant -- and a user record says what the      *)
(* account can do.                                                         *)
AccountsAsRequested ==
    \A e \in Emails \ DOMAIN Founders :
        /\ pool[e] # None =>
             LET r == origin[e]
             IN  /\ pool[e].tenant = r.tenant /\ pool[e].sites = r.sites
                 /\ pool[e].group \in {"user", r.role}
                 /\ pool[r.by].group # "super_admin" =>
                      /\ pool[r.by].tenant = pool[e].tenant
                      /\ pool[e].group # "super_admin"
        /\ users[e] # None =>
             /\ pool[e] # None /\ users[e].role = pool[e].group
             /\ users[e].tenant = pool[e].tenant /\ users[e].sites = pool[e].sites
=============================================================================
