--------------------------- MODULE CameraRegistry ---------------------------
(***************************************************************************)
(* The camera rows of the data table, under one camera_id: POST, PATCH,    *)
(* DELETE /v1/sites/{site_id}/cameras, rotate-credentials, and             *)
(* POST /v1/cameras/transfer, each an invocation of its own.  A place is   *)
(* a (tenant_id, site_id) pair that exists; the row of a place is keyed by *)
(* it.  The ingest token in a row is what GSI1 finds the row by, so an     *)
(* upload with a token is accepted exactly while some row carries it.      *)
(*                                                                         *)
(* Every handler reads the row and writes it in a later call; only the     *)
(* writes of POST and of the transfer are conditional.  A token and a name *)
(* are identified with the invocation that made them.                      *)
(***************************************************************************)
EXTENDS Naturals

CONSTANTS
    Places,
    Creators, Rotators, Patchers, Deleters, Transferers,   \* invocations
    MaxFaults     \* bound on the calls that fail

Invocations == Creators \cup Rotators \cup Patchers \cup Deleters \cup Transferers

ASSUME RegistryAssumption ==
    /\ Creators \cap (Rotators \cup Patchers \cup Deleters \cup Transferers) = {}
    /\ Rotators \cap (Patchers \cup Deleters \cup Transferers) = {}
    /\ Patchers \cap (Deleters \cup Transferers) = {}
    /\ Deleters \cap Transferers = {}
    /\ "none" \notin Invocations \cup Places
    /\ MaxFaults \in Nat

VARIABLES
    rows,      \* [Places -> row]
    step,      \* [Invocations -> step or answer]
    place,     \* [Invocations -> the place it is called for]
    target,    \* [Invocations -> the place a transfer moves the camera to]
    seen,      \* [Invocations -> a transfer's source_camera]
    faults,    \* bounding counter
    current,   \* history: [Creators -> token and name last given to the camera]
    deleted,   \* history: the cameras a DELETE has removed
    overtaken, \* history: the invocations whose row has changed since they read it
    stale,     \* history: the cameras an overtaken transfer has written
    mixed      \* history: the cameras taken for one another, see Mixes

locals == <<place, target, seen>>
history == <<current, deleted, overtaken, stale, mixed>>
vars == <<rows, step, locals, faults, history>>

(* id: the POST that created the camera (its created_at); a row that lacks *)
(* an attribute has "none" there.                                          *)
NoRow == [id |-> "none", token |-> "none", name |-> "none"]

Exists(r) == r # NoRow

-----------------------------------------------------------------------------
(* Calls                                                                   *)

InFlight(i) == step[i] \in {"load", "target", "write"}

Call(i) ==
    /\ step[i] = "idle"
    /\ \E p \in Places : place' = [place EXCEPT ![i] = p]
    /\ \E q \in IF i \in Transferers THEN Places ELSE {"none"} :
          target' = [target EXCEPT ![i] = q]
    /\ step' = [step EXCEPT ![i] = IF i \in Creators THEN "write" ELSE "load"]
    /\ UNCHANGED <<rows, seen, faults, history>>

-----------------------------------------------------------------------------
(* Reads                                                                   *)

Goto(i, s) == step' = [step EXCEPT ![i] = s] /\ UNCHANGED <<place, target>>

(* The handler answers; its local variables are gone.                      *)
Answer(i, a) ==
    /\ step' = [step EXCEPT ![i] = a]
    /\ place' = [place EXCEPT ![i] = "none"]
    /\ target' = [target EXCEPT ![i] = "none"]
    /\ seen' = [seen EXCEPT ![i] = NoRow]

MutantLoadUnchecked(i) ==
    /\ step[i] = "load"
    /\ Goto(i, IF i \in Transferers THEN "target" ELSE "write")
    /\ seen' = [seen EXCEPT ![i] = rows[place[i]]]
    /\ UNCHANGED <<rows, faults, history>>

(* data.get_camera on the place of the request.                            *)
LoadCamera(i) ==
    /\ step[i] = "load"
    /\ \/ ~Exists(rows[place[i]]) /\ Answer(i, "not_found")
       \/ /\ Exists(rows[place[i]]) /\ i \notin Transferers
          /\ Goto(i, "write") /\ UNCHANGED seen
       \/ /\ Exists(rows[place[i]]) /\ i \in Transferers
          /\ Goto(i, "target") /\ seen' = [seen EXCEPT ![i] = rows[place[i]]]
    /\ UNCHANGED <<rows, faults, history>>

(* The transfer's check for a camera at the target.                        *)
LoadTarget(t) ==
    /\ step[t] = "target"
    /\ IF Exists(rows[target[t]])
       THEN Answer(t, "conflict")
       ELSE Goto(t, "write") /\ UNCHANGED seen
    /\ UNCHANGED <<rows, faults, history>>

-----------------------------------------------------------------------------
(* Writes                                                                  *)

(* Who has read the row of p and not written yet.                          *)
Reading(p) ==
    {i \in Invocations \ Creators : step[i] \in {"target", "write"} /\ place[i] = p}

Fault == faults < MaxFaults /\ faults' = faults + 1

(* A write that was applied: its reply may be lost.  The SDK then sends it *)
(* again, at once here: nothing comes between the two.                     *)
Applied(i) == (Answer(i, "ok") /\ UNCHANGED faults) \/ (Answer(i, "error") /\ Fault)

MutantCreateWrite(c) ==
    /\ step[c] = "write"
    /\ rows' = [rows EXCEPT ![place[c]] = [id |-> c, token |-> c, name |-> c]]
    /\ current' = [current EXCEPT ![c] = [token |-> c, name |-> c]]
    /\ Applied(c)
    /\ UNCHANGED <<deleted, overtaken, stale, mixed>>

(* put_camera, on attribute_not_exists.  When the reply to a put that was  *)
(* applied is lost, the SDK's retry meets its own row: 409.                *)
CreateWrite(c) ==
    /\ step[c] = "write"
    /\ LET p == place[c] IN
       IF Exists(rows[p])
       THEN Answer(c, "conflict") /\ UNCHANGED <<rows, faults, current>>
       ELSE /\ rows' = [rows EXCEPT ![p] = [id |-> c, token |-> c, name |-> c]]
            /\ current' = [current EXCEPT ![c] = [token |-> c, name |-> c]]
            /\ \/ Applied(c)
               \/ Answer(c, "conflict") /\ Fault
    /\ UNCHANGED <<deleted, overtaken, stale, mixed>>

MutantSet(i, f) ==
    /\ rows' = [rows EXCEPT ![place[i]].name = i]
    /\ Applied(i)
    /\ UNCHANGED history

(* UpdateItem without a condition: it makes the row when there is none.    *)
Set(i, f) ==
    /\ LET p == place[i]
           c == rows[p].id
       IN  /\ rows' = [rows EXCEPT ![p][f] = i]
           /\ current' = IF c \in Creators THEN [current EXCEPT ![c][f] = i]
                         ELSE current
    /\ overtaken' = overtaken \cup (Reading(place[i]) \cap Transferers)
    /\ Applied(i)
    /\ UNCHANGED <<deleted, stale, mixed>>

RotateWrite(r) == step[r] = "write" /\ Set(r, "token")

PatchWrite(p) == step[p] = "write" /\ Set(p, "name")

(* delete_camera, without a condition.                                     *)
DeleteWrite(d) ==
    /\ step[d] = "write"
    /\ rows' = [rows EXCEPT ![place[d]] = NoRow]
    /\ deleted' = deleted \cup ({rows[place[d]].id} \cap Creators)
    /\ overtaken' = overtaken \cup Reading(place[d])
    /\ Applied(d)
    /\ UNCHANGED <<current, stale, mixed>>

MutantMoveWithoutPutCondition(t) ==
    IF ~Exists(rows[place[t]])
    THEN Answer(t, "not_found") /\ UNCHANGED <<rows, faults>>
    ELSE /\ rows' = [rows EXCEPT ![target[t]] = seen[t], ![place[t]] = NoRow]
         /\ Applied(t)

MutantMoveWithoutDeleteCondition(t) ==
    IF Exists(rows[target[t]])
    THEN Answer(t, "conflict") /\ UNCHANGED <<rows, faults>>
    ELSE /\ rows' = [rows EXCEPT ![target[t]] = seen[t], ![place[t]] = NoRow]
         /\ Applied(t)

MutantMoveDropsName(t) ==
    IF Exists(rows[target[t]])
    THEN Answer(t, "conflict") /\ UNCHANGED <<rows, faults>>
    ELSE IF ~Exists(rows[place[t]])
    THEN Answer(t, "not_found") /\ UNCHANGED <<rows, faults>>
    ELSE /\ rows' = [rows EXCEPT ![target[t]] = [seen[t] EXCEPT !.name = "none"],
                                 ![place[t]] = NoRow]
         /\ Applied(t)

(* transfer_camera: one transaction, which puts what was read at the       *)
(* target if nothing is there and deletes the source if something is.      *)
Move(t) ==
    IF Exists(rows[target[t]])
    THEN Answer(t, "conflict") /\ UNCHANGED <<rows, faults>>
    ELSE IF ~Exists(rows[place[t]])
    THEN Answer(t, "not_found") /\ UNCHANGED <<rows, faults>>
    ELSE /\ rows' = [rows EXCEPT ![target[t]] = seen[t], ![place[t]] = NoRow]
         /\ Applied(t)

(* The transaction asks for a row at the source, not for the one that was  *)
(* read: it may put one camera at the target and delete another.           *)
Mixes(t) ==
    LET source == rows[place[t]]
    IN  IF Exists(source) /\ source.id # seen[t].id
        THEN {source.id, seen[t].id} \cap Creators ELSE {}

TransferWrite(t) ==
    /\ step[t] = "write"
    /\ Move(t)
    /\ IF rows' = rows
       THEN UNCHANGED <<overtaken, stale, mixed>>
       ELSE /\ overtaken' = overtaken \cup Reading(place[t])
            /\ stale' = IF t \in overtaken THEN stale \cup ({seen[t].id} \cap Creators)
                        ELSE stale
            /\ mixed' = mixed \cup Mixes(t)
    /\ UNCHANGED <<current, deleted>>

(* The write raises and changes nothing: 500.                              *)
WriteFails(i) ==
    /\ step[i] = "write"
    /\ Answer(i, "error") /\ Fault
    /\ UNCHANGED <<rows, history>>

-----------------------------------------------------------------------------
Init ==
    /\ rows = [p \in Places |-> NoRow]
    /\ step = [i \in Invocations |-> "idle"]
    /\ place = [i \in Invocations |-> "none"]
    /\ target = [i \in Invocations |-> "none"]
    /\ seen = [i \in Invocations |-> NoRow]
    /\ faults = 0
    /\ current = [c \in Creators |-> [token |-> "none", name |-> "none"]]
    /\ deleted = {} /\ overtaken = {} /\ stale = {} /\ mixed = {}

(* The handlers                                                            *)
Create(c)   == CreateWrite(c)
Rotate(r)   == LoadCamera(r) \/ RotateWrite(r)
Patch(p)    == LoadCamera(p) \/ PatchWrite(p)
Delete(d)   == LoadCamera(d) \/ DeleteWrite(d)
Transfer(t) == LoadCamera(t) \/ LoadTarget(t) \/ TransferWrite(t)

Next ==
    \/ \E i \in Invocations : Call(i) \/ WriteFails(i)
    \/ \E c \in Creators : Create(c)
    \/ \E r \in Rotators : Rotate(r)
    \/ \E p \in Patchers : Patch(p)
    \/ \E d \in Deleters : Delete(d)
    \/ \E t \in Transferers : Transfer(t)

Spec == Init /\ [][Next]_vars

-----------------------------------------------------------------------------
(* Properties                                                              *)

Row == [id : Creators \cup {"none"}, token : Creators \cup Rotators \cup {"none"},
        name : Creators \cup Patchers \cup {"none"}]

TypeOK ==
    /\ rows \in [Places -> Row]
    /\ step \in [Invocations -> {"idle", "load", "target", "write",
                                 "ok", "not_found", "conflict", "error"}]
    /\ place \in [Invocations -> Places \cup {"none"}]
    /\ target \in [Invocations -> Places \cup {"none"}]
    /\ seen \in [Invocations -> Row]
    /\ faults \in 0..MaxFaults
    /\ current \in [Creators -> [token : Creators \cup Rotators \cup {"none"},
                                 name : Creators \cup Patchers \cup {"none"}]]
    /\ deleted \cup stale \cup mixed \subseteq Creators
    /\ overtaken \subseteq Invocations

(* A camera is in one place and its token finds one row: however transfers *)
(* of it race each other, edits, a delete and the creation of others, it   *)
(* is never left at both ends of a move -- unless a transfer that had read *)
(* it at a place has moved another camera out of there.                    *)
OnePlace ==
    \A p, q \in Places :
        rows[p].id \in Creators \ mixed /\ p # q =>
            rows[p].id # rows[q].id /\ rows[p].token # rows[q].token

(* No camera disappears without a DELETE: one that was created is in some  *)
(* place, through every transfer, until a delete takes it -- unless it was *)
(* taken for the one that stood at its place before.                       *)
NoCameraLost ==
    \A c \in Creators :
        step[c] = "ok" => c \in deleted \cup mixed \/ \E p \in Places : rows[p].id = c

(* Neither a POST nor a transfer replaces a camera that is already at the  *)
(* place, the checks they made before they wrote notwithstanding.          *)
NeverOverwritten ==
    [][\A p \in Places : Exists(rows[p]) /\ Exists(rows'[p]) => rows'[p].id = rows[p].id]_vars

(* A row that no POST made, with a token or a name and nothing else, comes *)
(* into being at the place of an edit whose camera was deleted or moved    *)
(* after the edit had found it there, and by nothing else; from there it   *)
(* is moved as a camera is.                                                *)
GhostsOnlyFromOvertakenEdits ==
    [][\A p \in Places : ~Exists(rows[p]) /\ Exists(rows'[p]) =>
         \/ rows'[p].id \in Creators
         \/ \E t \in Transferers : step[t] = "write" /\ rows'[p] = seen[t]
         \/ \E i \in overtaken \cap (Rotators \cup Patchers) :
              step[i] = "write" /\ place[i] = p /\ step'[i] # "write"]_vars

UpToDate(r) == current[r.id] = [token |-> r.token, name |-> r.name]

(* A row carries the token and the name its camera was last given: no      *)
(* token that a rotation has retired comes back to life, and no renaming   *)
(* is undone (api_handover: the old token is immediately invalidated).     *)
NothingReverts == \A p \in Places : rows[p].id \in Creators => UpToDate(rows[p])

(* What was retired comes back only in a camera that a transfer has        *)
(* written after an edit, a removal or a move of it had overtaken the      *)
(* transfer's read.                                                        *)
RevertsOnlyWhenOvertaken ==
    \A p \in Places : rows[p].id \in Creators \ stale => UpToDate(rows[p])
=============================================================================
