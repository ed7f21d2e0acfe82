------------------------------- MODULE Ingest -------------------------------
(***************************************************************************)
(* The uploads of one camera, POST /v1/ingest/{token}: the cadence check,  *)
(* the live-session check, and the two pairs of writes, object first and   *)
(* record second, under the long-term or the security/ prefix and under    *)
(* live/.  Composed with LiveSession, whose session row every upload reads *)
(* and whose live images it writes.                                        *)
(*                                                                         *)
(* The token has been resolved (CameraRegistry) and the body is a JPEG.    *)
(* The retention class is a choice: working hours are another component's. *)
(* The 7-day and retention expiries lie beyond the horizon.                *)
(***************************************************************************)
EXTENDS LiveSession, FiniteSets

CONSTANTS
    Uploads,    \* invocations of the ingest handler
    Cadence,    \* _CADENCE_MINUTES
    MaxRunning  \* bound on the invocations, of any kind, that run at once

ASSUME CadenceAssumption == Cadence \in Nat \ {0} /\ MaxRunning \in Nat

VARIABLES
    step,       \* [Uploads -> step or answer]
    due,        \* [Uploads -> save_timelapse]
    toLive,     \* [Uploads -> save_live]
    class,      \* [Uploads -> retention_class]
    ts,         \* [Uploads -> snapshot_ts]
    saved,      \* the IMG# and OOH_IMG# items, by class and ingested_at
    stored,     \* their objects, by class and time
    checked,    \* [Uploads -> when the cadence was checked]
    recorded,   \* the uploads whose timelapse record was written
    unseen      \* pairs {i, j}: one's check may not have seen the other's record

locals == <<due, toLive, class, ts>>
timelapse == <<saved, stored>>
history == <<checked, recorded, unseen>>
uploadVars == <<step, locals, timelapse, history>>
vars == <<sessionVars, uploadVars>>

Classes == {"in_hours", "out_of_hours"}
InFlight(i) == step[i] \in {"session", "object", "record", "live_object", "live_record"}

-----------------------------------------------------------------------------
(* The two checks                                                          *)

(* The handler goes on, or answers and its local variables are gone; what  *)
(* is kept of ts and checked is for the properties.                        *)
Goto(i, s) == step' = [step EXCEPT ![i] = s] /\ UNCHANGED <<locals, checked>>

Answered(i, a) ==
    /\ step' = [step EXCEPT ![i] = a]
    /\ due' = [due EXCEPT ![i] = FALSE]
    /\ toLive' = [toLive EXCEPT ![i] = FALSE]
    /\ class' = [class EXCEPT ![i] = "in_hours"]
    /\ ts' = [ts EXCEPT ![i] = IF i \in recorded' THEN @ ELSE 0]
    /\ checked' = [checked EXCEPT ![i] = IF a = "error" THEN 0 ELSE @]

MutantLatest == Max({r[2] : r \in {q \in saved : q[1] = "in_hours"}} \cup {0})

(* get_latest_any_img_record: the last of either class.                    *)
Latest == Max({r[2] : r \in saved} \cup {0})

TooSoon == Latest # 0 /\ now - Latest < Cadence

(* A read that raises counts as no record.                                 *)
CheckCadence(i) ==
    /\ step[i] = "received"
    /\ step' = [step EXCEPT ![i] = "session"]
    /\ checked' = [checked EXCEPT ![i] = now]
    /\ \/ /\ due' = [due EXCEPT ![i] = ~TooSoon]
          /\ unseen' = unseen \cup {{i, j} : j \in {k \in Uploads : InFlight(k)}}
       \/ /\ "read" \in Faults
          /\ due' = [due EXCEPT ![i] = TRUE]
          /\ unseen' = unseen \cup {{i, j} : j \in Uploads \ {i}}
    /\ UNCHANGED <<sessionVars, toLive, class, ts, timelapse, recorded>>

MutantCapture(i, l) ==
    /\ step' = [step EXCEPT ![i] = IF due[i] THEN "object" ELSE "live_object"]
    /\ toLive' = [toLive EXCEPT ![i] = l]
    /\ \E c \in IF due[i] THEN Classes ELSE {class[i]} : class' = [class EXCEPT ![i] = c]
    /\ UNCHANGED <<due, ts, checked>>

(* Anything to save: the capture instant and the retention class.          *)
Capture(i, l) ==
    /\ step' = [step EXCEPT ![i] = IF due[i] THEN "object" ELSE "live_object"]
    /\ toLive' = [toLive EXCEPT ![i] = l]
    /\ ts' = [ts EXCEPT ![i] = now]
    /\ \E c \in IF due[i] THEN Classes ELSE {class[i]} : class' = [class EXCEPT ![i] = c]
    /\ UNCHANGED <<due, checked>>

(* get_live_session, where a read that raises counts as no session, and    *)
(* the early return.                                                       *)
CheckSession(i) ==
    /\ step[i] = "session"
    /\ UNCHANGED <<sessionVars, timelapse, recorded, unseen>>
    /\ \E l \in {Active(session)} \cup (IF "read" \in Faults THEN {FALSE} ELSE {}) :
          IF due[i] \/ l THEN Capture(i, l) ELSE Answered(i, "skipped")

-----------------------------------------------------------------------------
(* The writes                                                              *)

(* The call succeeds.  One that is applied and raises leaves what the      *)
(* failure of the next one leaves.                                         *)
Then(i, s) == IF s \in {"saved", "skipped"} THEN Answered(i, s) ELSE Goto(i, s)

(* It raises: 500.                                                         *)
NotApplied(i) == "write" \in Faults /\ Answered(i, "error")

(* After the timelapse record, and at the very end: 201 if it was saved,   *)
(* else 200 "skipped".                                                     *)
AfterTimelapse(i) == IF toLive[i] THEN "live_object" ELSE "saved"
AfterLive(i) == IF due[i] THEN "saved" ELSE "skipped"

Snapshot(i) == <<class[i], ts[i]>>

MutantPutObjectIgnoresFailure(i) ==
    /\ step[i] = "object"
    /\ UNCHANGED <<sessionVars, saved, recorded, unseen>>
    /\ \/ stored' = stored \cup {Snapshot(i)}
       \/ "write" \in Faults /\ UNCHANGED stored
    /\ Then(i, "record")

PutObject(i) ==
    /\ step[i] = "object"
    /\ UNCHANGED <<sessionVars, saved, recorded, unseen>>
    /\ \/ stored' = stored \cup {Snapshot(i)} /\ Then(i, "record")
       \/ UNCHANGED stored /\ NotApplied(i)

PutRecord(i) ==
    /\ step[i] = "record"
    /\ UNCHANGED <<sessionVars, stored, unseen>>
    /\ \/ /\ saved' = saved \cup {Snapshot(i)} /\ recorded' = recorded \cup {i}
          /\ Then(i, AfterTimelapse(i))
       \/ UNCHANGED <<saved, recorded>> /\ NotApplied(i)

MutantPutLiveObjectIgnoresFailure(i) ==
    /\ step[i] = "live_object"
    /\ UNCHANGED <<now, session, liveRecords, post, stamp, delete, viewers>>
    /\ UNCHANGED <<timelapse, recorded, unseen>>
    /\ \/ liveObjects' = liveObjects \cup {ts[i]}
       \/ "write" \in Faults /\ UNCHANGED liveObjects
    /\ Then(i, "live_record")

PutLiveObject(i) ==
    /\ step[i] = "live_object"
    /\ UNCHANGED <<now, session, liveRecords, post, stamp, delete, viewers>>
    /\ UNCHANGED <<timelapse, recorded, unseen>>
    /\ \/ liveObjects' = liveObjects \cup {ts[i]} /\ Then(i, "live_record")
       \/ UNCHANGED liveObjects /\ NotApplied(i)

PutLiveRecord(i) ==
    /\ step[i] = "live_record"
    /\ UNCHANGED <<now, session, liveObjects, post, stamp, delete, viewers>>
    /\ UNCHANGED <<timelapse, recorded, unseen>>
    /\ \/ liveRecords' = liveRecords \cup {ts[i]} /\ Then(i, AfterLive(i))
       \/ UNCHANGED liveRecords /\ NotApplied(i)

-----------------------------------------------------------------------------
Init ==
    /\ SessionInit
    /\ step = [i \in Uploads |-> "received"]
    /\ due = [i \in Uploads |-> FALSE] /\ toLive = [i \in Uploads |-> FALSE]
    /\ class = [i \in Uploads |-> "in_hours"]
    /\ ts = [i \in Uploads |-> 0]
    /\ saved = {} /\ stored = {}
    /\ checked = [i \in Uploads |-> 0]
    /\ recorded = {} /\ unseen = {}

Upload(i) ==
    \/ CheckCadence(i) \/ CheckSession(i) \/ PutObject(i) \/ PutRecord(i)
    \/ PutLiveObject(i) \/ PutLiveRecord(i)

Running ==
    {i \in Uploads : InFlight(i)} \cup {u \in Posters : post[u] = "put"}
    \cup {d \in Deleters : delete[d] = "delete"} \cup {v \in Viewers : view[v] = "image"}

Bounded == Cardinality(Running') <= MaxRunning

Session(A) == A /\ UNCHANGED uploadVars /\ Bounded

Next ==
    \/ \E u \in Posters : Session(PostLoad(u)) \/ Session(PostPut(u))
    \/ \E d \in Deleters : Session(DeleteLoad(d)) \/ Session(DeleteWrite(d))
    \/ \E v \in Viewers : Session(ViewLoad(v)) \/ Session(ViewImage(v))
    \/ Session(Tick) \/ Session(Expiry)
    \/ \E i \in Uploads : Upload(i) /\ Bounded

Spec == Init /\ [][Next]_vars

-----------------------------------------------------------------------------
(* Properties                                                              *)

TypeOK ==
    /\ SessionTypeOK
    /\ step \in [Uploads -> {"received", "session", "object", "record", "live_object",
                             "live_record", "saved", "skipped", "error"}]
    /\ due \in [Uploads -> BOOLEAN] /\ toLive \in [Uploads -> BOOLEAN]
    /\ class \in [Uploads -> Classes]
    /\ ts \in [Uploads -> 0..MaxTime] /\ checked \in [Uploads -> 0..MaxTime]
    /\ saved \subseteq Classes \X (1..MaxTime) /\ stored \subseteq Classes \X (1..MaxTime)
    /\ recorded \subseteq Uploads /\ unseen \subseteq SUBSET Uploads

(* An upload answered 201 or "skipped" leaves no hole in the timelapse:    *)
(* a snapshot younger than the cadence is listed and its object is in the  *)
(* bucket -- the upload's own, or the one it was skipped for, whichever    *)
(* calls of other uploads failed.                                          *)
AnsweredIsCovered ==
    \A i \in Uploads :
        step[i] \in {"saved", "skipped"} =>
            \E r \in saved \cap stored : checked[i] - r[2] < Cadence

(* Saved snapshots are a cadence apart, across both retention classes,     *)
(* unless the check of one upload could not see the other: the two         *)
(* overlapped, or the read failed and the check let it pass.               *)
CadenceKept ==
    \A i, j \in recorded :
        {i, j} \notin unseen /\ ts[i] < ts[j] => ts[j] - ts[i] >= Cadence
=============================================================================
