------------------------ MODULE CameraRegistryProofs ------------------------
(***************************************************************************)
(* Proofs about CameraRegistry, for every set of places and invocations,   *)
(* whatever fails and in whatever order they come.                         *)
(***************************************************************************)
EXTENDS CameraRegistry, TLAPS

Answers == {"ok", "not_found", "conflict", "error"}

-----------------------------------------------------------------------------
(* The inductive invariant                                                 *)

(* An invocation knows its places until it is answered, and only a         *)
(* transfer looks at a second one.                                         *)
PlacesKnown ==
    \A i \in Invocations :
        /\ InFlight(i) => place[i] \in Places
        /\ InFlight(i) /\ i \in Transferers => target[i] \in Places
        /\ step[i] = "target" => i \in Transferers

Control == TypeOK /\ PlacesKnown

(* What an invocation is going to make is nowhere yet, neither in a row    *)
(* nor in what somebody has read.                                          *)
Pending(i) == step[i] \in {"idle", "load", "target", "write"}

Copies == {rows[p] : p \in Places} \cup {seen[i] : i \in Invocations}

Fresh == \A i \in Invocations : Pending(i) => \A r \in Copies : r.id # i /\ r.token # i

(* A token belongs to one camera, and every camera has one.                *)
TokensKnown ==
    /\ \A r, s \in Copies : r.token = s.token /\ r.token # "none" => r.id = s.id
    /\ \A r \in Copies : r.id \in Creators => r.token # "none"

(* What has been read is still so, unless its reader was overtaken.        *)
ReadHolds ==
    \A i \in Invocations \ (Creators \cup overtaken) :
        step[i] \in {"target", "write"} =>
            Exists(rows[place[i]]) /\ (i \in Transferers => rows[place[i]] = seen[i])

(* Only a camera taken for another one, by a transfer that was overtaken,  *)
(* is in two places.                                                       *)
DoublesAreMixed ==
    \A p, q \in Places :
        p # q /\ rows[p].id = rows[q].id /\ rows[p].id \in Creators =>
            rows[p].id \in mixed \cap stale

IInv == /\ Control /\ Fresh /\ TokensKnown /\ ReadHolds /\ DoublesAreMixed
        /\ NoCameraLost /\ RevertsOnlyWhenOvertaken

-----------------------------------------------------------------------------
(* What there is to know of rows.                                          *)
LEMMA RowFacts ==
    /\ NoRow \in Row /\ NoRow.id = "none" /\ ~Exists(NoRow)
    /\ \A c \in Creators : LET new == [id |-> c, token |-> c, name |-> c]
                          IN  new \in Row /\ Exists(new)
<1>1. NoRow = [id |-> "none", token |-> "none", name |-> "none"]
  BY DEF NoRow
<1>2. NoRow \in Row /\ NoRow.id = "none"
  BY <1>1 DEF Row
<1>3. ASSUME NEW c \in Creators
      PROVE  LET new == [id |-> c, token |-> c, name |-> c] IN new \in Row /\ new.id = c
  BY DEF Row
<1>4. \A c \in Creators : c # "none"
  BY RegistryAssumption DEF Invocations
<1> QED
  BY <1>2, <1>3, <1>4 DEF Exists

(* A call that is not the first either answers or goes on.                 *)
Proceeds(i) ==
    \/ \E a \in Answers : Answer(i, a)
    \/ /\ \E s \in {"target", "write"} : Goto(i, s)
       /\ i \notin Creators

Handled(i) ==
    \/ WriteFails(i) \/ (i \in Creators /\ Create(i)) \/ (i \in Rotators /\ Rotate(i))
    \/ (i \in Patchers /\ Patch(i)) \/ (i \in Deleters /\ Delete(i))
    \/ (i \in Transferers /\ Transfer(i))

LEMMA HandledProceeds ==
    ASSUME NEW i \in Invocations, Handled(i)
    PROVE  InFlight(i) /\ Proceeds(i)
<1> USE RegistryAssumption DEF InFlight, Proceeds, Answers
<1>1. CASE WriteFails(i)
  BY <1>1 DEF WriteFails
<1>2. CASE LoadCamera(i) /\ i \notin Creators
  BY <1>2 DEF LoadCamera
<1>3. CASE LoadTarget(i) /\ i \notin Creators
  BY <1>3 DEF LoadTarget
<1>4. CASE CreateWrite(i)
  BY <1>4 DEF CreateWrite, Applied
<1>5. CASE RotateWrite(i) \/ PatchWrite(i)
  BY <1>5 DEF RotateWrite, PatchWrite, Set, Applied
<1>6. CASE DeleteWrite(i)
  BY <1>6 DEF DeleteWrite, Applied
<1>7. CASE TransferWrite(i)
  BY <1>7 DEF TransferWrite, Move, Applied
<1> QED
  BY <1>1, <1>2, <1>3, <1>4, <1>5, <1>6, <1>7
  DEF Handled, Create, Rotate, Patch, Delete, Transfer

LEMMA NextIsHandled ==
    ASSUME Next
    PROVE  \E i \in Invocations : Call(i) \/ Handled(i)
BY DEF Next, Handled, Invocations

-----------------------------------------------------------------------------
(* Types, and what an invocation knows, whatever anybody else does.        *)

LEMMA CallControl == ASSUME Control, NEW i \in Invocations, Call(i) PROVE Control'
<1>1. TypeOK'
  BY DEF Control, TypeOK, Call, history
<1>2. PlacesKnown'
  BY DEF Control, TypeOK, PlacesKnown, InFlight, Call, history
<1> QED
  BY <1>1, <1>2 DEF Control

LEMMA HandledControl == ASSUME Control, NEW i \in Invocations, Handled(i) PROVE Control'
<1> USE RowFacts, RegistryAssumption DEF Control, TypeOK, history
<1>1. InFlight(i) /\ Proceeds(i)
  BY HandledProceeds
<1>2. place[i] \in Places /\ (i \in Transferers => target[i] \in Places)
  BY <1>1 DEF PlacesKnown
<1>3. /\ step' \in [Invocations -> {"idle", "load", "target", "write",
                                    "ok", "not_found", "conflict", "error"}]
      /\ place' \in [Invocations -> Places \cup {"none"}]
      /\ target' \in [Invocations -> Places \cup {"none"}]
  BY <1>1 DEF Proceeds, Answers, Answer, Goto
<1>4. /\ rows' \in [Places -> Row] /\ seen' \in [Invocations -> Row]
      /\ current' \in [Creators -> [token : Creators \cup Rotators \cup {"none"},
                                    name : Creators \cup Patchers \cup {"none"}]]
      /\ deleted' \cup stale' \cup mixed' \subseteq Creators /\ overtaken' \subseteq Invocations
  <2>1. CASE WriteFails(i) \/ LoadCamera(i) \/ LoadTarget(i)
    BY <1>2, <2>1 DEF WriteFails, LoadCamera, LoadTarget, Answer, Goto
  <2>2. CASE i \in Creators /\ CreateWrite(i)
    BY <1>2, <2>2 DEF CreateWrite, Applied, Answer
  <2>3. CASE i \in Rotators /\ RotateWrite(i)
    <3>1. rows' = [rows EXCEPT ![place[i]] = [rows[place[i]] EXCEPT !.token = i]]
      BY <2>3 DEF RotateWrite, Set
    <3>2. rows' \in [Places -> Row]
      <4>1. \A r \in Row : [r EXCEPT !.token = i] \in Row
        BY <2>3, Zenon DEF Row
      <4>2. rows[place[i]] \in Row
        BY <1>2
      <4> QED
        BY <1>2, <3>1, <4>1, <4>2
    <3>3. \/ UNCHANGED current
          \/ \E c \in Creators : current' = [current EXCEPT ![c].token = i]
      BY <2>3 DEF RotateWrite, Set
    <3> QED
      BY <2>3, <3>2, <3>3 DEF RotateWrite, Set, Applied, Answer, Reading
  <2>4. CASE i \in Patchers /\ PatchWrite(i)
    <3>1. rows' = [rows EXCEPT ![place[i]] = [rows[place[i]] EXCEPT !.name = i]]
      BY <2>4 DEF PatchWrite, Set
    <3>2. rows' \in [Places -> Row]
      <4>1. \A r \in Row : [r EXCEPT !.name = i] \in Row
        BY <2>4, Zenon DEF Row
      <4>2. rows[place[i]] \in Row
        BY <1>2
      <4> QED
        BY <1>2, <3>1, <4>1, <4>2
    <3>3. \/ UNCHANGED current
          \/ \E c \in Creators : current' = [current EXCEPT ![c].name = i]
      BY <2>4 DEF PatchWrite, Set
    <3> QED
      BY <2>4, <3>2, <3>3 DEF PatchWrite, Set, Applied, Answer, Reading
  <2>5. CASE i \in Deleters /\ DeleteWrite(i)
    BY <1>2, <2>5 DEF DeleteWrite, Applied, Answer, Reading
  <2>6. CASE i \in Transferers /\ TransferWrite(i)
    BY <1>2, <2>6 DEF TransferWrite, Move, Applied, Answer, Reading, Mixes
  <2> QED
    BY <2>1, <2>2, <2>3, <2>4, <2>5, <2>6
    DEF Handled, Create, Rotate, Patch, Delete, Transfer
<1>5. faults' \in 0..MaxFaults
  BY DEF Handled, Create, Rotate, Patch, Delete, Transfer, WriteFails, LoadCamera, LoadTarget,
         CreateWrite, RotateWrite, PatchWrite, Set, DeleteWrite, TransferWrite, Move, Applied,
         Fault
<1>6. step'[i] = "target" => i \in Transferers
  BY DEF Handled, Create, Rotate, Patch, Delete, Transfer, WriteFails, LoadCamera, LoadTarget,
         CreateWrite, RotateWrite, PatchWrite, Set, DeleteWrite, TransferWrite, Move, Applied,
         Answer, Goto
<1>7. PlacesKnown'
  BY <1>1, <1>3, <1>6 DEF PlacesKnown, Proceeds, Answers, Answer, Goto, InFlight
<1> QED
  BY <1>3, <1>4, <1>5, <1>7

LEMMA ControlStep == Control /\ [Next]_vars => Control'
<1> SUFFICES ASSUME Control, [Next]_vars PROVE Control'
  OBVIOUS
<1>1. CASE UNCHANGED vars
  BY <1>1 DEF vars, locals, history, Control, TypeOK, PlacesKnown, InFlight
<1> QED
  BY <1>1, NextIsHandled, CallControl, HandledControl

LEMMA ControlStart == Init => Control
BY RowFacts, RegistryAssumption DEF Init, Control, TypeOK, PlacesKnown, InFlight

-----------------------------------------------------------------------------
(* Every variable keeps its type.                                          *)
THEOREM TypeCorrect == Spec => []TypeOK
<1>1. Control => TypeOK
  BY DEF Control
<1> QED
  BY <1>1, ControlStart, ControlStep, PTL DEF Spec

(* Neither a POST nor a transfer ever replaces a camera: their own         *)
(* conditions see to it.                                                   *)
THEOREM NoOverwrite == Spec => NeverOverwritten
<1> DEFINE A == \A p \in Places : Exists(rows[p]) /\ Exists(rows'[p]) => rows'[p].id = rows[p].id
<1>1. ASSUME Control, Next PROVE A
  <2>1. PICK i \in Invocations : Call(i) \/ Handled(i)
    BY <1>1, NextIsHandled
  <2>2. CASE UNCHANGED rows
    BY <2>2
  <2>3. CASE Handled(i) /\ InFlight(i)
    <3>1. place[i] \in Places /\ (i \in Transferers => target[i] \in Places)
          /\ rows \in [Places -> Row]
      BY <1>1, <2>3 DEF Control, TypeOK, PlacesKnown
    <3>2. CASE CreateWrite(i)
      BY <3>1, <3>2 DEF CreateWrite
    <3>3. CASE RotateWrite(i) \/ PatchWrite(i)
      <4>1. \A p \in Places : rows'[p].id = rows[p].id
        BY <3>1, <3>3 DEF RotateWrite, PatchWrite, Set, Row
      <4> QED
        BY <4>1
    <3>4. CASE DeleteWrite(i)
      BY <3>1, <3>4, RowFacts DEF DeleteWrite
    <3>5. CASE i \in Transferers /\ TransferWrite(i)
      BY <3>1, <3>5, RowFacts DEF TransferWrite, Move
    <3>6. CASE WriteFails(i) \/ LoadCamera(i) \/ LoadTarget(i)
      BY <3>6, <2>2 DEF WriteFails, LoadCamera, LoadTarget
    <3> QED
      BY <2>3, <3>2, <3>3, <3>4, <3>5, <3>6
      DEF Handled, Create, Rotate, Patch, Delete, Transfer
  <2> QED
    BY <2>1, <2>2, <2>3, HandledProceeds DEF Call
<1>2. Control /\ [Next]_vars => [A]_vars
  BY <1>1
<1> QED
  BY <1>2, ControlStart, ControlStep, PTL DEF Spec, NeverOverwritten

-----------------------------------------------------------------------------
(* What a step does to the rows is one of these.                           *)

Quiet == UNCHANGED <<rows, history>>

Made(c) ==
    /\ c \in Creators
    /\ ~Exists(rows[place[c]])
    /\ rows' = [rows EXCEPT ![place[c]] = [id |-> c, token |-> c, name |-> c]]
    /\ current' = [current EXCEPT ![c] = [token |-> c, name |-> c]]
    /\ UNCHANGED <<deleted, overtaken, stale, mixed>>

Edited(i, f) ==
    /\ i \in Rotators \cup Patchers /\ step[i] = "write"
    /\ rows' = [rows EXCEPT ![place[i]][f] = i]
    /\ current' = IF rows[place[i]].id \in Creators
                  THEN [current EXCEPT ![rows[place[i]].id][f] = i] ELSE current
    /\ overtaken' = overtaken \cup (Reading(place[i]) \cap Transferers)
    /\ UNCHANGED <<deleted, stale, mixed>>

Taken(d) ==
    /\ d \in Deleters
    /\ rows' = [rows EXCEPT ![place[d]] = NoRow]
    /\ deleted' = deleted \cup ({rows[place[d]].id} \cap Creators)
    /\ overtaken' = overtaken \cup Reading(place[d])
    /\ UNCHANGED <<current, stale, mixed>>

Moved(t) ==
    /\ t \in Transferers /\ step[t] = "write"
    /\ target[t] \in Places /\ target[t] # place[t]
    /\ Exists(rows[place[t]]) /\ ~Exists(rows[target[t]])
    /\ rows' = [rows EXCEPT ![target[t]] = seen[t], ![place[t]] = NoRow]
    /\ overtaken' = overtaken \cup Reading(place[t])
    /\ stale' = IF t \in overtaken THEN stale \cup ({seen[t].id} \cap Creators) ELSE stale
    /\ mixed' = mixed \cup Mixes(t)
    /\ UNCHANGED <<current, deleted>>

LEMMA Outcome ==
    ASSUME Control, NEW i \in Invocations, Handled(i)
    PROVE  /\ place[i] \in Places /\ rows \in [Places -> Row]
           /\ Quiet \/ Made(i) \/ Edited(i, "token") \/ Edited(i, "name") \/ Taken(i) \/ Moved(i)
<1>1. InFlight(i) /\ Proceeds(i)
  BY HandledProceeds
<1>2. /\ place[i] \in Places /\ (i \in Transferers => target[i] \in Places)
      /\ rows \in [Places -> Row]
  BY <1>1 DEF Control, TypeOK, PlacesKnown
<1>3. CASE WriteFails(i) \/ LoadCamera(i) \/ LoadTarget(i)
  BY <1>2, <1>3 DEF WriteFails, LoadCamera, LoadTarget, Quiet
<1>4. CASE i \in Creators /\ CreateWrite(i)
  BY <1>2, <1>4 DEF CreateWrite, Made, Quiet, history
<1>5. CASE i \in Rotators /\ RotateWrite(i)
  BY <1>2, <1>5 DEF RotateWrite, Set, Edited
<1>6. CASE i \in Patchers /\ PatchWrite(i)
  BY <1>2, <1>6 DEF PatchWrite, Set, Edited
<1>7. CASE i \in Deleters /\ DeleteWrite(i)
  BY <1>2, <1>7 DEF DeleteWrite, Taken
<1>8. CASE i \in Transferers /\ TransferWrite(i)
  <2>1. CASE UNCHANGED rows
    BY <1>2, <1>8, <2>1 DEF TransferWrite, Quiet, history
  <2>2. CASE Exists(rows[place[i]]) /\ ~Exists(rows[target[i]]) /\ ~(rows' = rows)
    BY <1>2, <1>8, <2>2 DEF TransferWrite, Move, Moved
  <2> QED
    BY <1>8, <2>1, <2>2 DEF TransferWrite, Move
<1> QED
  BY <1>2, <1>3, <1>4, <1>5, <1>6, <1>7, <1>8
  DEF Handled, Create, Rotate, Patch, Delete, Transfer

(* An edit changes one attribute of one row, or makes a row with nothing   *)
(* else in it.                                                             *)
LEMMA EditFacts ==
    ASSUME rows \in [Places -> Row], NEW i \in Invocations, place[i] \in Places,
           NEW f \in {"token", "name"}, Edited(i, f)
    PROVE  /\ \A p \in Places : rows'[p].id = rows[p].id
           /\ \A p \in Places : p # place[i] => rows'[p] = rows[p]
           /\ rows'[place[i]] = [rows[place[i]] EXCEPT ![f] = i]
           /\ rows'[place[i]].token \in {rows[place[i]].token, i}
           /\ Exists(rows'[place[i]])
<1>1. rows' = [rows EXCEPT ![place[i]] = [rows[place[i]] EXCEPT ![f] = i]]
  BY DEF Edited
<1>2. \A p \in Places : p # place[i] => rows'[p] = rows[p]
  BY <1>1
<1>3. rows'[place[i]] = [rows[place[i]] EXCEPT ![f] = i] /\ rows[place[i]] \in Row
  BY <1>1
<1>4. /\ rows'[place[i]].id = rows[place[i]].id
      /\ rows'[place[i]].token \in {rows[place[i]].token, i}
      /\ rows'[place[i]].token = i \/ rows'[place[i]].name = i
  BY <1>3 DEF Row
<1>5. i # "none" /\ NoRow.token = "none" /\ NoRow.name = "none"
  BY RegistryAssumption DEF NoRow
<1>6. Exists(rows'[place[i]])
  BY <1>4, <1>5 DEF Exists
<1> QED
  BY <1>2, <1>3, <1>4, <1>6

(* Who is in flight after a step, and where to.                            *)
LEMMA StillInFlight ==
    ASSUME Control, NEW i \in Invocations, Handled(i), NEW j \in Invocations
    PROVE  /\ InFlight(j)' => InFlight(j) /\ place'[j] = place[j] /\ target'[j] = target[j]
           /\ Pending(j)' => Pending(j)
           /\ j # i => step'[j] = step[j] /\ place'[j] = place[j]
           /\ i \in Creators => ~Pending(i)'
<1>1. InFlight(i) /\ Proceeds(i)
  BY HandledProceeds
<1>2. step[i] \in {"load", "target", "write"}
  BY <1>1 DEF InFlight
<1>3. CASE \E a \in Answers : Answer(i, a)
  BY <1>2, <1>3 DEF Answers, Answer, InFlight, Pending, Control, TypeOK
<1>4. CASE i \notin Creators /\ \E s \in {"target", "write"} : Goto(i, s)
  BY <1>2, <1>4 DEF Goto, InFlight, Pending, Control, TypeOK
<1> QED
  BY <1>1, <1>3, <1>4 DEF Proceeds

(* Who writes is answered by the same step.                                *)
LEMMA WriterIsDone ==
    ASSUME Control, NEW i \in Invocations, Handled(i)
    PROVE  Quiet \/ ~Pending(i)'
<1> USE DEF Pending, Answer, Applied, Control, TypeOK
<1>1. CASE WriteFails(i) \/ LoadCamera(i) \/ LoadTarget(i)
  BY <1>1 DEF WriteFails, LoadCamera, LoadTarget, Quiet
<1>2. CASE CreateWrite(i)
  BY <1>2 DEF CreateWrite
<1>3. CASE RotateWrite(i) \/ PatchWrite(i)
  BY <1>3 DEF RotateWrite, PatchWrite, Set
<1>4. CASE DeleteWrite(i) \/ TransferWrite(i)
  BY <1>4 DEF DeleteWrite, TransferWrite, Move
<1> QED
  BY <1>1, <1>2, <1>3, <1>4 DEF Handled, Create, Rotate, Patch, Delete, Transfer

(* An invocation remembers only what it has read itself.                   *)
LEMMA SeenStep ==
    ASSUME NEW i \in Invocations, Handled(i)
    PROVE  \/ seen' = seen
           \/ \E r \in {NoRow, rows[place[i]]} : seen' = [seen EXCEPT ![i] = r]
<1> USE DEF Answer, Applied
<1>1. CASE WriteFails(i) \/ LoadCamera(i) \/ LoadTarget(i)
  BY <1>1 DEF WriteFails, LoadCamera, LoadTarget
<1>2. CASE CreateWrite(i)
  BY <1>2 DEF CreateWrite
<1>3. CASE RotateWrite(i) \/ PatchWrite(i)
  BY <1>3 DEF RotateWrite, PatchWrite, Set
<1>4. CASE DeleteWrite(i) \/ TransferWrite(i)
  BY <1>4 DEF DeleteWrite, TransferWrite, Move
<1> QED
  BY <1>1, <1>2, <1>3, <1>4 DEF Handled, Create, Rotate, Patch, Delete, Transfer

(* What is read or written is a copy of what there was, but for what a     *)
(* POST makes and an edit changes.                                         *)
LEMMA CopiesStep ==
    ASSUME Control, NEW i \in Invocations, Handled(i), NEW r \in Copies'
    PROVE  \/ r \in Copies \cup {NoRow}
           \/ Made(i) /\ r = [id |-> i, token |-> i, name |-> i]
           \/ /\ ~Quiet /\ (Edited(i, "token") \/ Edited(i, "name"))
              /\ r.id = rows[place[i]].id /\ r.token \in {rows[place[i]].token, i}
<1>1. place[i] \in Places /\ rows \in [Places -> Row] /\ seen \in [Invocations -> Row]
  BY Outcome DEF Control, TypeOK
<1>2. ASSUME NEW j \in Invocations, r = seen'[j]
      PROVE  r \in Copies \cup {NoRow}
  <2>1. seen'[j] \in {seen[j], rows[place[i]], NoRow}
    BY <1>1, SeenStep
  <2> QED
    BY <1>1, <1>2, <2>1 DEF Copies
<1>3. ASSUME NEW p \in Places, r = rows'[p]
      PROVE  \/ r \in Copies \cup {NoRow}
             \/ Made(i) /\ r = [id |-> i, token |-> i, name |-> i]
             \/ /\ ~Quiet /\ (Edited(i, "token") \/ Edited(i, "name"))
                /\ r.id = rows[place[i]].id /\ r.token \in {rows[place[i]].token, i}
  <2>1. CASE Quiet
    BY <1>3, <2>1 DEF Quiet, Copies
  <2>2. CASE Made(i)
    BY <1>1, <1>3, <2>2 DEF Made, Copies
  <2>3. ASSUME NEW f \in {"token", "name"}, Edited(i, f)
        PROVE  \/ r \in Copies
               \/ r.id = rows[place[i]].id /\ r.token \in {rows[place[i]].token, i}
    <3>1. /\ rows'[place[i]].id = rows[place[i]].id
          /\ rows'[place[i]].token \in {rows[place[i]].token, i}
          /\ p # place[i] => rows'[p] = rows[p]
      BY <1>1, <2>3, EditFacts
    <3> QED
      BY <1>3, <3>1 DEF Copies
  <2>4. CASE Taken(i)
    BY <1>1, <1>3, <2>4 DEF Taken, Copies
  <2>5. CASE Moved(i)
    BY <1>1, <1>3, <2>5 DEF Moved, Copies
  <2> QED
    BY <2>1, <2>2, <2>3, <2>4, <2>5, Outcome
<1> QED
  BY <1>2, <1>3 DEF Copies

LEMMA FreshKept ==
    ASSUME IInv, NEW i \in Invocations, Handled(i)
    PROVE  Fresh'
<1> SUFFICES ASSUME NEW j \in Invocations, Pending(j)', NEW r \in Copies'
             PROVE  r.id # j /\ r.token # j
  BY DEF Fresh
<1>1. Control /\ place[i] \in Places /\ rows[place[i]] \in Copies
  BY Outcome DEF IInv, Control, TypeOK, Copies
<1>2. Pending(j)
  BY <1>1, StillInFlight
<1>3. \A s \in Copies : s.id # j /\ s.token # j
  BY <1>2 DEF IInv, Fresh
<1>4. CASE r \in Copies
  BY <1>3, <1>4
<1>5. CASE r = NoRow
  <2>1. NoRow.id = "none" /\ NoRow.token = "none" /\ j # "none"
    BY RegistryAssumption DEF NoRow
  <2> QED
    BY <1>5, <2>1
<1>6. CASE Made(i) /\ r = [id |-> i, token |-> i, name |-> i]
  <2>1. i # j
    BY <1>1, <1>6, StillInFlight DEF Made
  <2> QED
    BY <1>6, <2>1
<1>7. CASE /\ ~Quiet /\ (Edited(i, "token") \/ Edited(i, "name"))
           /\ r.id = rows[place[i]].id /\ r.token \in {rows[place[i]].token, i}
  <2>1. i # j
    BY <1>1, <1>7, WriterIsDone
  <2> QED
    BY <1>1, <1>3, <1>7, <2>1
<1> QED
  BY <1>1, <1>4, <1>5, <1>6, <1>7, CopiesStep

LEMMA TokensKnownKept ==
    ASSUME IInv, NEW i \in Invocations, Handled(i)
    PROVE  TokensKnown'
<1>1. Control /\ place[i] \in Places /\ rows[place[i]] \in Copies
  BY Outcome DEF IInv, Control, TypeOK, Copies
<1>2. \A r \in Copies : r.id # i /\ r.token # i
  BY HandledProceeds DEF IInv, Fresh, InFlight, Pending
<1>3. /\ \A r, s \in Copies : r.token = s.token /\ r.token # "none" => r.id = s.id
      /\ \A r \in Copies : r.id \in Creators => r.token # "none"
  BY DEF IInv, TokensKnown
<1>4. NoRow.id = "none" /\ NoRow.token = "none" /\ i # "none" /\ "none" \notin Creators
  BY RegistryAssumption DEF NoRow, Invocations
<1> DEFINE new == [id |-> i, token |-> i, name |-> i]
           Alike(r) == \/ \E s \in Copies \cup {NoRow} : r.id = s.id /\ r.token = s.token
                       \/ Made(i) /\ r.id = i /\ r.token = i
                       \/ ~Made(i) /\ r.id = rows[place[i]].id /\ r.token = i
<1>5. ASSUME NEW r \in Copies' PROVE Alike(r)
  <2>1. CASE r \in Copies \cup {NoRow}
    BY <2>1
  <2>2. CASE Made(i) /\ r = new
    BY <2>2
  <2>3. CASE /\ ~Quiet /\ (Edited(i, "token") \/ Edited(i, "name"))
             /\ r.id = rows[place[i]].id /\ r.token \in {rows[place[i]].token, i}
    <3>1. ~Made(i)
      BY <2>3, RegistryAssumption DEF Made, Edited
    <3> QED
      BY <1>1, <2>3, <3>1
  <2> QED
    BY <1>1, <2>1, <2>2, <2>3, CopiesStep
<1>6. ASSUME NEW r \in Copies' PROVE r.id \in Creators => r.token # "none"
  BY <1>1, <1>3, <1>4, <1>5
<1>7. ASSUME NEW r \in Copies', NEW s \in Copies', r.token = s.token, r.token # "none"
      PROVE  r.id = s.id
  <2>1. CASE r.token = i
    <3>1. r.id = (IF Made(i) THEN i ELSE rows[place[i]].id)
      BY <1>2, <1>4, <1>5, <2>1
    <3>2. s.id = (IF Made(i) THEN i ELSE rows[place[i]].id)
      BY <1>2, <1>4, <1>5, <1>7, <2>1
    <3> QED
      BY <3>1, <3>2
  <2>2. CASE r.token # i
    <3>1. PICK x \in Copies : r.id = x.id /\ r.token = x.token
      BY <1>4, <1>5, <1>7, <2>2
    <3>2. PICK y \in Copies : s.id = y.id /\ s.token = y.token
      BY <1>4, <1>5, <1>7, <2>2
    <3> QED
      BY <1>3, <1>7, <3>1, <3>2
  <2> QED
    BY <2>1, <2>2
<1> QED
  BY <1>6, <1>7 DEF TokensKnown

(* A row that somebody has read and that changes marks its reader.         *)
LEMMA ReadHoldsKept ==
    ASSUME IInv, NEW i \in Invocations, Handled(i)
    PROVE  ReadHolds'
<1> SUFFICES ASSUME NEW j \in Invocations \ Creators, j \notin overtaken',
                    step'[j] \in {"target", "write"}
             PROVE  /\ Exists(rows'[place'[j]])
                    /\ j \in Transferers => rows'[place'[j]] = seen'[j]
  BY DEF ReadHolds
<1> USE RowFacts, RegistryAssumption
<1>1. Control /\ rows \in [Places -> Row] /\ place[i] \in Places
  BY Outcome DEF IInv
<1>2. InFlight(j) /\ place'[j] = place[j] /\ place[j] \in Places
  BY <1>1, StillInFlight DEF Control, PlacesKnown, InFlight
<1>3. CASE j = i
  <2> USE DEF Answer, Goto, history, Control, TypeOK
  <2>2. CASE LoadCamera(i)
    BY <1>1, <1>3, <2>2 DEF LoadCamera
  <2>3. CASE LoadTarget(i)
    <3>1. step[i] = "target" /\ step'[i] = "write" /\ UNCHANGED <<rows, seen, history>>
      BY <1>1, <1>3, <2>3 DEF LoadTarget
    <3>2. Exists(rows[place[i]]) /\ (i \in Transferers => rows[place[i]] = seen[i])
      BY <1>3, <3>1 DEF IInv, ReadHolds
    <3> QED
      BY <1>2, <1>3, <3>1, <3>2
  <2>4. CASE WriteFails(i)
    BY <1>1, <1>3, <2>4 DEF WriteFails
  <2>5. CASE CreateWrite(i) \/ RotateWrite(i) \/ PatchWrite(i) \/ DeleteWrite(i) \/ TransferWrite(i)
    BY <1>1, <1>3, <2>5
    DEF CreateWrite, RotateWrite, PatchWrite, Set, DeleteWrite, TransferWrite, Move, Applied
  <2> QED
    BY <2>2, <2>3, <2>4, <2>5 DEF Handled, Create, Rotate, Patch, Delete, Transfer
<1>4. CASE j # i
  <2>1. step'[j] = step[j] /\ seen'[j] = seen[j]
    BY <1>1, <1>4, SeenStep, StillInFlight DEF Control, TypeOK
  <2>2. overtaken \subseteq overtaken'
    BY Outcome DEF IInv, Quiet, Made, Edited, Taken, Moved, history
  <2>3. Exists(rows[place[j]]) /\ (j \in Transferers => rows[place[j]] = seen[j])
    BY <2>1, <2>2 DEF IInv, ReadHolds
  <2>4. j \in Reading(place[j])
    BY <2>1 DEF Reading
  <2>5. CASE Quiet
    BY <1>2, <2>1, <2>3, <2>5 DEF Quiet
  <2>6. CASE Made(i)
    BY <1>1, <1>2, <2>1, <2>3, <2>6 DEF Made
  <2>7. ASSUME NEW f \in {"token", "name"}, Edited(i, f)
        PROVE  /\ Exists(rows'[place[j]])
               /\ j \in Transferers => rows'[place[j]] = seen[j]
    <3>1. /\ \A p \in Places : p # place[i] => rows'[p] = rows[p]
          /\ Exists(rows'[place[i]])
      BY <1>1, <2>7, EditFacts
    <3>2. j \in Transferers => place[j] # place[i]
      BY <2>4, <2>7 DEF Edited
    <3> QED
      BY <1>2, <2>3, <3>1, <3>2
  <2>8. CASE Taken(i)
    BY <1>1, <1>2, <2>1, <2>3, <2>4, <2>8 DEF Taken
  <2>9. CASE Moved(i)
    BY <1>1, <1>2, <2>1, <2>3, <2>4, <2>9 DEF Moved
  <2> QED
    BY <1>2, <2>1, <2>5, <2>6, <2>7, <2>8, <2>9, Outcome DEF IInv
<1> QED
  BY <1>3, <1>4

LEMMA DoublesAreMixedKept ==
    ASSUME IInv, NEW i \in Invocations, Handled(i)
    PROVE  DoublesAreMixed'
<1> SUFFICES ASSUME NEW p \in Places, NEW q \in Places, p # q,
                    rows'[p].id = rows'[q].id, rows'[p].id \in Creators
             PROVE  rows'[p].id \in mixed' \cap stale'
  BY DEF DoublesAreMixed
<1> USE RowFacts, RegistryAssumption
<1>1. Control /\ rows \in [Places -> Row] /\ place[i] \in Places
  BY Outcome DEF IInv
<1>2. \A x, y \in Places :
          x # y /\ rows[x].id = rows[y].id /\ rows[x].id \in Creators =>
              rows[x].id \in mixed \cap stale
  BY DEF IInv, DoublesAreMixed
<1>3. NoRow.id \notin Creators
  BY DEF Invocations
<1>4. CASE Quiet
  BY <1>2, <1>4 DEF Quiet, history
<1>5. CASE Made(i)
  <2>1. rows[p].id # i /\ rows[q].id # i
    BY HandledProceeds DEF IInv, Fresh, InFlight, Pending, Copies
  <2>2. \A x \in Places : rows'[x].id = (IF x = place[i] THEN i ELSE rows[x].id)
    BY <1>1, <1>5 DEF Made
  <2>3. mixed' = mixed /\ stale' = stale
    BY <1>5 DEF Made
  <2> QED
    BY <1>2, <2>1, <2>2, <2>3
<1>6. ASSUME NEW f \in {"token", "name"}, Edited(i, f)
      PROVE  rows'[p].id \in mixed' \cap stale'
  <2>1. \A x \in Places : rows'[x].id = rows[x].id
    BY <1>1, <1>6, EditFacts
  <2> QED
    BY <1>2, <1>6, <2>1 DEF Edited
<1>7. CASE Taken(i)
  BY <1>1, <1>2, <1>3, <1>7 DEF Taken
<1>8. CASE Moved(i)
  <2>1. \A x \in Places : rows'[x] = IF x = place[i] THEN NoRow
                                     ELSE IF x = target[i] THEN seen[i] ELSE rows[x]
    BY <1>1, <1>8 DEF Moved
  <2>2. mixed \subseteq mixed' /\ stale \subseteq stale'
    BY <1>8 DEF Moved
  <2>3. p # place[i] /\ q # place[i]
    BY <1>3, <2>1
  <2>4. CASE p # target[i] /\ q # target[i]
    BY <1>2, <2>1, <2>2, <2>3, <2>4
  <2>5. ASSUME NEW x \in Places \ {place[i], target[i]}, rows[x].id = seen[i].id,
               seen[i].id \in Creators
        PROVE  seen[i].id \in mixed' \cap stale'
    <3>1. CASE rows[place[i]].id = seen[i].id
      BY <1>1, <1>2, <2>2, <2>5, <3>1
    <3>2. CASE rows[place[i]].id # seen[i].id
      <4>1. i \in overtaken
        BY <1>8, <3>2 DEF IInv, ReadHolds, Moved, Invocations
      <4> QED
        BY <1>8, <2>5, <3>2, <4>1 DEF Moved, Mixes
    <3> QED
      BY <3>1, <3>2
  <2> QED
    BY <2>1, <2>3, <2>4, <2>5
<1> QED
  BY <1>4, <1>5, <1>6, <1>7, <1>8, Outcome DEF IInv

LEMMA NoCameraLostKept ==
    ASSUME IInv, NEW i \in Invocations, Handled(i)
    PROVE  NoCameraLost'
<1> SUFFICES ASSUME NEW c \in Creators, step'[c] = "ok"
             PROVE  c \in deleted' \cup mixed' \/ \E p \in Places : rows'[p].id = c
  BY DEF NoCameraLost
<1> USE RowFacts, RegistryAssumption
<1>1. Control /\ rows \in [Places -> Row] /\ place[i] \in Places /\ c \in Invocations
  BY Outcome DEF IInv, Invocations
<1>2. CASE c = i
  <2>1. CreateWrite(i)
    BY <1>1, <1>2 DEF Handled, Create, WriteFails, Answer, Control, TypeOK, Invocations
  <2>2. ~Exists(rows[place[i]])
    BY <1>1, <1>2, <2>1 DEF CreateWrite, Answer, Control, TypeOK
  <2>3. rows'[place[i]].id = c
    BY <1>1, <1>2, <2>1, <2>2 DEF CreateWrite
  <2> QED
    BY <1>1, <2>3
<1>3. CASE c # i
  <2>1. c \in deleted \cup mixed \/ \E p \in Places : rows[p].id = c
    BY <1>1, <1>3, StillInFlight DEF IInv, NoCameraLost
  <2>2. deleted \subseteq deleted' /\ mixed \subseteq mixed'
    BY <1>1, Outcome DEF Quiet, history, Made, Edited, Taken, Moved
  <2>3. ASSUME NEW p \in Places, rows[p].id = c
        PROVE  c \in deleted' \cup mixed' \/ \E x \in Places : rows'[x].id = c
    <3>1. Exists(rows[p])
      BY <1>1, <2>3 DEF Exists, Invocations
    <3>2. CASE Quiet
      BY <2>3, <3>2 DEF Quiet
    <3>3. CASE Made(i)
      BY <1>1, <2>3, <3>1, <3>3 DEF Made
    <3>4. ASSUME NEW f \in {"token", "name"}, Edited(i, f)
          PROVE  rows'[p].id = c
      BY <1>1, <2>3, <3>4, EditFacts
    <3>5. CASE Taken(i)
      BY <1>1, <2>3, <3>5 DEF Taken
    <3>6. CASE Moved(i)
      <4>1. CASE p = place[i] /\ seen[i].id = c
        BY <1>1, <3>6, <4>1 DEF Moved
      <4>2. CASE p = place[i] /\ seen[i].id # c
        BY <2>3, <3>1, <3>6, <4>2 DEF Moved, Mixes
      <4>3. CASE p # place[i]
        BY <1>1, <2>3, <3>1, <3>6, <4>3 DEF Moved
      <4> QED
        BY <4>1, <4>2, <4>3
    <3> QED
      BY <1>1, <3>2, <3>3, <3>4, <3>5, <3>6, Outcome
  <2> QED
    BY <2>1, <2>2, <2>3
<1> QED
  BY <1>2, <1>3

LEMMA RevertsOnlyWhenOvertakenKept ==
    ASSUME IInv, NEW i \in Invocations, Handled(i)
    PROVE  RevertsOnlyWhenOvertaken'
<1> SUFFICES ASSUME NEW p \in Places, rows'[p].id \in Creators \ stale'
             PROVE  current'[rows'[p].id] = [token |-> rows'[p].token, name |-> rows'[p].name]
  BY DEF RevertsOnlyWhenOvertaken, UpToDate
<1> USE RowFacts, RegistryAssumption
<1>1. /\ Control /\ rows \in [Places -> Row] /\ place[i] \in Places
      /\ current \in [Creators -> [token : Creators \cup Rotators \cup {"none"},
                                   name : Creators \cup Patchers \cup {"none"}]]
  BY Outcome DEF IInv, Control, TypeOK
<1>2. \A x \in Places : rows[x].id \in Creators \ stale =>
          current[rows[x].id] = [token |-> rows[x].token, name |-> rows[x].name]
  BY DEF IInv, RevertsOnlyWhenOvertaken, UpToDate
<1>3. NoRow.id \notin Creators
  BY DEF Invocations
<1>4. CASE Quiet
  BY <1>2, <1>4 DEF Quiet, history
<1>5. CASE Made(i)
  <2>1. \A x \in Places : rows[x].id # i
    BY HandledProceeds DEF IInv, Fresh, InFlight, Pending, Copies
  <2>2. CASE p = place[i]
    BY <1>1, <1>5, <2>2 DEF Made
  <2>3. CASE p # place[i]
    BY <1>1, <1>2, <1>5, <2>1, <2>3 DEF Made
  <2> QED
    BY <2>2, <2>3
<1>6. ASSUME NEW f \in {"token", "name"}, Edited(i, f)
      PROVE  current'[rows'[p].id] = [token |-> rows'[p].token, name |-> rows'[p].name]
  <2> DEFINE c == rows[place[i]].id
  <2>1. /\ rows'[p].id = rows[p].id /\ rows[p].id \in Creators \ stale
        /\ p # place[i] => rows'[p] = rows[p]
        /\ rows'[place[i]] = [rows[place[i]] EXCEPT ![f] = i] /\ rows[place[i]] \in Row
    BY <1>1, <1>6, EditFacts DEF Edited
  <2>2. current[rows[p].id] = [token |-> rows[p].token, name |-> rows[p].name]
    BY <1>2, <2>1
  <2>3. CASE p = place[i]
    <3>1. current' = [current EXCEPT ![c] = [current[c] EXCEPT ![f] = i]]
      BY <1>1, <1>6, <2>1, <2>3 DEF Edited
    <3>2. current'[rows[p].id] = [current[rows[p].id] EXCEPT ![f] = i]
      BY <1>1, <2>1, <2>3, <3>1
    <3> QED
      BY <2>1, <2>2, <2>3, <3>2 DEF Row
  <2>4. CASE p # place[i]
    <3>1. rows[p].id # c
      BY <1>1, <2>1, <2>4 DEF IInv, DoublesAreMixed
    <3>2. current'[rows[p].id] = current[rows[p].id]
      BY <1>1, <1>6, <2>1, <3>1 DEF Edited
    <3> QED
      BY <2>1, <2>2, <2>4, <3>2
  <2> QED
    BY <2>3, <2>4
<1>7. CASE Taken(i)
  BY <1>1, <1>2, <1>3, <1>7 DEF Taken
<1>8. CASE Moved(i)
  <2>1. stale \subseteq stale' /\ current' = current
    BY <1>8 DEF Moved
  <2>2. CASE p = target[i]
    <3>1. rows'[p] = seen[i]
      BY <1>1, <1>8, <2>2 DEF Moved
    <3>2. i \notin overtaken
      BY <1>8, <3>1 DEF Moved
    <3>3. seen[i] = rows[place[i]]
      BY <1>8, <3>2 DEF IInv, ReadHolds, Moved, Invocations
    <3> QED
      BY <1>1, <1>2, <2>1, <3>1, <3>3
  <2>3. CASE p # target[i]
    BY <1>1, <1>2, <1>3, <1>8, <2>1, <2>3 DEF Moved
  <2> QED
    BY <2>2, <2>3
<1> QED
  BY <1>1, <1>4, <1>5, <1>6, <1>7, <1>8, Outcome

(* A call only makes an invocation begin.                                  *)
LEMMA CallKeeps ==
    ASSUME IInv, NEW i \in Invocations, Call(i)
    PROVE  IInv'
<1> USE RegistryAssumption
<1>1. /\ Control' /\ TypeOK
      /\ UNCHANGED <<rows, seen, current, deleted, overtaken, stale, mixed>>
      /\ step[i] = "idle"
      /\ step' = [step EXCEPT ![i] = IF i \in Creators THEN "write" ELSE "load"]
  BY CallControl DEF IInv, Control, Call, history
<1>2. \A j \in Invocations : j # i => step'[j] = step[j] /\ place'[j] = place[j]
  BY DEF Call, TypeOK, IInv, Control
<1>3. step'[i] \in {"write", "load"} /\ (i \notin Creators => step'[i] = "load")
  BY <1>1 DEF TypeOK
<1>4. Fresh'
  <2>1. \A j \in Invocations : Pending(j)' => Pending(j)
    BY <1>1, <1>2 DEF Pending
  <2> QED
    BY <1>1, <2>1 DEF IInv, Fresh, Copies
<1>5. TokensKnown' /\ DoublesAreMixed' /\ RevertsOnlyWhenOvertaken'
  BY <1>1 DEF IInv, TokensKnown, Copies, DoublesAreMixed, RevertsOnlyWhenOvertaken, UpToDate
<1>6. ReadHolds'
  <2> SUFFICES ASSUME NEW j \in Invocations \ (Creators \cup overtaken),
                      step'[j] \in {"target", "write"}
               PROVE  /\ Exists(rows'[place'[j]])
                      /\ j \in Transferers => rows'[place'[j]] = seen'[j]
    BY <1>1 DEF ReadHolds
  <2>1. j # i
    BY <1>3
  <2> QED
    BY <1>1, <1>2, <2>1 DEF IInv, ReadHolds
<1>7. NoCameraLost'
  <2> SUFFICES ASSUME NEW c \in Creators, step'[c] = "ok"
               PROVE  c \in deleted \cup mixed \/ \E p \in Places : rows[p].id = c
    BY <1>1 DEF NoCameraLost
  <2>1. step[c] = "ok"
    BY <1>2, <1>3 DEF Invocations
  <2> QED
    BY <2>1 DEF IInv, NoCameraLost
<1> QED
  BY <1>1, <1>4, <1>5, <1>6, <1>7 DEF IInv

LEMMA InvariantStart == Init => IInv
<1> SUFFICES ASSUME Init PROVE IInv
  OBVIOUS
<1> USE RegistryAssumption
<1>1. /\ \A r \in Copies : r.id = "none" /\ r.token = "none"
      /\ \A p \in Places : rows[p].id = "none"
  BY DEF Init, Copies, NoRow
<1>2. \A i \in Invocations : step[i] = "idle" /\ i # "none"
  BY DEF Init
<1>3. Fresh /\ TokensKnown
  BY <1>1, <1>2 DEF Fresh, TokensKnown, Invocations
<1>4. ReadHolds /\ NoCameraLost
  BY <1>2 DEF ReadHolds, NoCameraLost, Invocations
<1>5. DoublesAreMixed /\ RevertsOnlyWhenOvertaken
  BY <1>1, <1>2 DEF DoublesAreMixed, RevertsOnlyWhenOvertaken, Invocations
<1> QED
  BY <1>3, <1>4, <1>5, ControlStart DEF IInv

LEMMA InvariantStep == IInv /\ [Next]_vars => IInv'
<1> SUFFICES ASSUME IInv, [Next]_vars PROVE IInv'
  OBVIOUS
<1>1. CASE UNCHANGED vars
  <2>1. Control'
    BY <1>1, ControlStep DEF IInv
  <2> QED
    BY <1>1, <2>1
    DEF vars, locals, history, IInv, Fresh, Pending, Copies, TokensKnown, ReadHolds,
        DoublesAreMixed, NoCameraLost, RevertsOnlyWhenOvertaken, UpToDate
<1>2. ASSUME NEW i \in Invocations, Handled(i) PROVE IInv'
  <2>1. Control'
    BY <1>2, HandledControl DEF IInv
  <2> QED
    BY <1>2, <2>1, FreshKept, TokensKnownKept, ReadHoldsKept, DoublesAreMixedKept,
       NoCameraLostKept, RevertsOnlyWhenOvertakenKept
    DEF IInv
<1> QED
  BY <1>1, <1>2, CallKeeps, NextIsHandled

(* The invariant holds throughout, in whatever order the requests come.    *)
THEOREM Inductive == Spec => []IInv
BY InvariantStart, InvariantStep, PTL DEF Spec

(* No camera, and no token of one, is in two places, but for one that an   *)
(* overtaken transfer took for the one standing at its place now:          *)
(* creations, edits, transfers and deletes race as they may.               *)
THEOREM InOnePlace == Spec => []OnePlace
<1>1. ASSUME IInv, NEW p \in Places, NEW q \in Places, rows[p].id \in Creators \ mixed, p # q
      PROVE  rows[p].id # rows[q].id /\ rows[p].token # rows[q].token
  <2>1. rows[p].id # rows[q].id
    BY <1>1 DEF IInv, DoublesAreMixed
  <2>2. rows[p] \in Copies /\ rows[q] \in Copies
    BY DEF Copies
  <2> QED
    BY <1>1, <2>1, <2>2 DEF IInv, TokensKnown
<1>2. IInv => OnePlace
  BY <1>1 DEF OnePlace
<1> QED
  BY <1>2, Inductive, PTL

(* A camera whose POST was answered is in some place until a DELETE takes  *)
(* it, but for one that was taken for another.                             *)
THEOREM NoneIsLost == Spec => []NoCameraLost
<1>1. IInv => NoCameraLost
  BY DEF IInv
<1> QED
  BY <1>1, Inductive, PTL

(* A row that nobody created is made by nothing but an edit, of a token or *)
(* a name, whose camera was deleted or moved between its two calls.        *)
THEOREM GhostsExplained == Spec => GhostsOnlyFromOvertakenEdits
<1> DEFINE A == \A p \in Places : ~Exists(rows[p]) /\ Exists(rows'[p]) =>
                  \/ rows'[p].id \in Creators
                  \/ \E t \in Transferers : step[t] = "write" /\ rows'[p] = seen[t]
                  \/ \E i \in overtaken \cap (Rotators \cup Patchers) :
                       step[i] = "write" /\ place[i] = p /\ step'[i] # "write"
<1>1. ASSUME IInv, NEW i \in Invocations, Handled(i), NEW p \in Places,
             ~Exists(rows[p]), Exists(rows'[p])
      PROVE  \/ rows'[p].id \in Creators
             \/ \E t \in Transferers : step[t] = "write" /\ rows'[p] = seen[t]
             \/ \E j \in overtaken \cap (Rotators \cup Patchers) :
                  step[j] = "write" /\ place[j] = p /\ step'[j] # "write"
  <2>1. Control /\ rows \in [Places -> Row] /\ place[i] \in Places
    BY <1>1, Outcome DEF IInv
  <2>2. ~Quiet /\ ~Taken(i)
    BY <1>1, <2>1, RowFacts DEF Quiet, Taken
  <2>3. CASE Made(i)
    BY <1>1, <2>1, <2>3 DEF Made
  <2>4. ASSUME NEW f \in {"token", "name"}, Edited(i, f)
        PROVE  /\ i \in overtaken \cap (Rotators \cup Patchers)
               /\ step[i] = "write" /\ place[i] = p /\ step'[i] # "write"
    <3>1. place[i] = p
      BY <1>1, <2>1, <2>4, EditFacts
    <3>2. step'[i] # "write"
      BY <1>1, <2>1, <2>2, WriterIsDone DEF Pending
    <3>3. i \in Rotators \cup Patchers /\ step[i] = "write" /\ i \notin Creators
      BY <2>4, RegistryAssumption DEF Edited
    <3>4. i \in overtaken
      BY <1>1, <3>1, <3>3 DEF IInv, ReadHolds
    <3> QED
      BY <3>1, <3>2, <3>3, <3>4
  <2>5. CASE Moved(i)
    BY <1>1, <2>1, <2>5 DEF Moved
  <2> QED
    BY <1>1, <2>1, <2>2, <2>3, <2>4, <2>5, Outcome
<1>2. ASSUME IInv, NEW i \in Invocations, Call(i) PROVE A
  BY <1>2 DEF Call
<1>3. IInv /\ [Next]_vars => [A]_vars
  BY <1>1, <1>2, NextIsHandled
<1> QED
  BY <1>3, Inductive, PTL DEF Spec, GhostsOnlyFromOvertakenEdits

(* A retired token or a replaced name comes back only with a transfer that *)
(* was overtaken: by an edit, a removal or a move between its read and its *)
(* transaction.                                                            *)
THEOREM ReversionExplained == Spec => []RevertsOnlyWhenOvertaken
<1>1. IInv => RevertsOnlyWhenOvertaken
  BY DEF IInv
<1> QED
  BY <1>1, Inductive, PTL
=============================================================================
