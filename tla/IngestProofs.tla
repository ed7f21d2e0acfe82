---------------------------- MODULE IngestProofs ----------------------------
(***************************************************************************)
(* Proofs about the uploads of a camera and its live session, for any      *)
(* number of uploads, POST, DELETE and GET invocations, any lengths, and   *)
(* whatever reads and writes fail.                                         *)
(***************************************************************************)
EXTENDS Ingest, WellFoundedInduction, TLAPS

-----------------------------------------------------------------------------
(* The inductive invariant                                                 *)

(* The live images: there until it is too old.                             *)
Resolves(t) == t \in liveObjects \/ t + LiveObjectLife <= now

LiveObjectFirst ==
    /\ \A t \in liveRecords : Resolves(t)
    /\ \A i \in Uploads : step[i] = "live_record" => Resolves(ts[i])

(* The timelapse: what an upload that is under way knows.                  *)
Captured(i) == step[i] \in {"object", "record", "live_object", "live_record"}

ObjectFirst ==
    /\ saved \subseteq stored
    /\ \A i \in Uploads : step[i] = "record" => Snapshot(i) \in stored

Progress ==
    \A i \in Uploads :
        /\ step[i] \in {"object", "record"} => due[i]
        /\ Captured(i) => checked[i] <= ts[i] /\ ts[i] >= 1
        /\ checked[i] <= now

(* Whoever is not due was covered when it looked.                          *)
Covered(i) == \E r \in saved : checked[i] - r[2] < Cadence

SkippedIsCovered ==
    \A i \in Uploads :
        /\ InFlight(i) /\ ~due[i] => Covered(i)
        /\ step[i] \in {"live_object", "live_record"} /\ due[i] => i \in recorded
        /\ i \in recorded => Covered(i)
        /\ step[i] \in {"saved", "skipped"} => Covered(i)

(* A record stays, and its upload is past the writing of it.               *)
RecordStays ==
    \A i \in recorded :
        /\ step[i] \in {"live_object", "live_record", "saved", "skipped", "error"}
        /\ \E r \in saved : r[2] = ts[i]

(* Two uploads under way did not see each other,                           *)
OverlapIsUnseen ==
    \A i, j \in Uploads : InFlight(i) /\ InFlight(j) /\ i # j => {i, j} \in unseen

(* and one that is due is apart from every record it could see.            *)
DueIsApart ==
    \A i \in recorded, j \in Uploads :
        InFlight(j) /\ due[j] /\ i # j /\ {i, j} \notin unseen =>
            checked[j] - ts[i] >= Cadence

(* A client of POST remembers a time that is past.                         *)
StampIsPast == \A u \in Posters : stamp[u] <= now

IInv == /\ TypeOK /\ LiveObjectFirst /\ ObjectFirst /\ Progress /\ SkippedIsCovered
        /\ RecordStays /\ OverlapIsUnseen /\ DueIsApart /\ StampIsPast
        /\ ShownImageResolves /\ CadenceKept

-----------------------------------------------------------------------------
(* Max, of FiniteSetsExt, is what it says on a set that has an upper bound.*)
LEMMA MaxIsGreatest ==
    ASSUME NEW n \in Nat, NEW S, S \subseteq 0..n, S # {}
    PROVE  Max(S) \in S /\ \A x \in S : x <= Max(S)
<1> DEFINE T == {m \in Nat : \E x \in S : m = n - x}
<1>1. T \subseteq Nat /\ T # {}
  <2>1. PICK x \in S : TRUE
    OBVIOUS
  <2>2. n - x \in Nat
    BY <2>1
  <2> QED
    BY <2>1, <2>2
<1>2. \E m \in T : \A k \in T : ~(<<k, m>> \in OpToRel(<, Nat))
  <2> HIDE DEF T
  <2> QED
    BY <1>1, NatLessThanWellFounded, WFMin, Zenon
<1>3. PICK m \in T : \A k \in T : ~(k < m)
  BY <1>1, <1>2 DEF OpToRel
<1>4. PICK x \in S : m = n - x
  OBVIOUS
<1>5. \A y \in S : x >= y
  <2> SUFFICES ASSUME NEW y \in S PROVE x >= y
    OBVIOUS
  <2>1. n - y \in T
    OBVIOUS
  <2>2. ~(n - y < m)
    BY <1>3, <2>1
  <2> QED
    BY <1>4, <2>2
<1> QED
  BY <1>4, <1>5 DEF Max

(* The latest capture time of a set of them, 0 for none.                   *)
LEMMA LatestOf ==
    ASSUME NEW n \in Nat, NEW S, S \subseteq 1..n
    PROVE  /\ Max(S \cup {0}) \in S \cup {0} /\ Max(S \cup {0}) \in 0..n
           /\ \A x \in S : x <= Max(S \cup {0})
<1>1. S \cup {0} \subseteq 0..n /\ S \cup {0} # {}
  OBVIOUS
<1>2. /\ Max(S \cup {0}) \in S \cup {0}
      /\ \A x \in S \cup {0} : x <= Max(S \cup {0})
  BY <1>1, MaxIsGreatest
<1> QED
  BY <1>1, <1>2

(* Time and MaxTime are natural numbers.                                   *)
LEMMA Lengths ==
    /\ SessionLength \in Nat /\ LiveTtl \in Nat /\ LiveObjectLife \in Nat
    /\ MaxTime \in Nat /\ Cadence \in Nat /\ Cadence > 0
BY SessionAssumption, CadenceAssumption

-----------------------------------------------------------------------------
(* The steps of the live session leave the uploads alone; those of an      *)
(* upload leave the session alone, and every other upload.                 *)

SessionStep ==
    \/ \E u \in Posters : PostLoad(u) \/ PostPut(u)
    \/ \E d \in Deleters : DeleteLoad(d) \/ DeleteWrite(d)
    \/ \E v \in Viewers : ViewLoad(v) \/ ViewImage(v)
    \/ Tick \/ Expiry

LEMMA NextSplit ==
    ASSUME Next
    PROVE  (SessionStep /\ UNCHANGED uploadVars) \/ \E i \in Uploads : Upload(i)
BY DEF Next, Session, SessionStep

LEMMA SessionEffects ==
    ASSUME SessionTypeOK, StampIsPast, ShownImageResolves, \A t \in liveRecords : Resolves(t),
           SessionStep
    PROVE  /\ SessionTypeOK' /\ StampIsPast' /\ ShownImageResolves'
           /\ now <= now' /\ liveRecords' \subseteq liveRecords
           /\ \A t \in 1..MaxTime : Resolves(t) => Resolves(t)'
<1> USE Lengths
<1>1. ASSUME NEW u \in Posters, PostLoad(u) \/ PostPut(u)
      PROVE  SessionTypeOK' /\ StampIsPast' /\ UNCHANGED <<now, live, shown>>
  <2>1. CASE PostLoad(u)
    BY <2>1 DEF PostLoad, SessionTypeOK, StampIsPast, live, viewers
  <2>2. CASE PostPut(u)
    <3>1. stamp[u] + SessionLength \in Nat
      BY <1>1 DEF SessionTypeOK
    <3>2. session' \in [created_by : Posters \cup {"none"}, expires_at : Nat]
      BY <2>2, <3>1 DEF PostPut, SessionTypeOK
    <3>3. stamp' = [stamp EXCEPT ![u] = 0] /\ 0 \in 0..MaxTime
      BY <2>2 DEF PostPut
    <3> QED
      BY <2>2, <3>2, <3>3 DEF PostPut, SessionTypeOK, StampIsPast, live, viewers
  <2> QED
    BY <1>1, <2>1, <2>2
<1>2. ASSUME NEW d \in Deleters, DeleteLoad(d) \/ DeleteWrite(d)
      PROVE  SessionTypeOK' /\ StampIsPast' /\ UNCHANGED <<now, live, shown>>
  <2>1. UNCHANGED <<now, live, post, stamp, viewers>>
    BY <1>2 DEF DeleteLoad, DeleteWrite
  <2>2. session' \in [created_by : Posters \cup {"none"}, expires_at : Nat]
    BY <1>2 DEF DeleteLoad, DeleteWrite, NoSession, SessionTypeOK
  <2>3. delete' \in [Deleters -> {"idle", "delete"}]
    BY <1>2 DEF DeleteLoad, DeleteWrite, SessionTypeOK
  <2> QED
    BY <2>1, <2>2, <2>3 DEF SessionTypeOK, StampIsPast, live, viewers
<1>3. ASSUME NEW v \in Viewers, ViewLoad(v) \/ ViewImage(v)
      PROVE  /\ SessionTypeOK' /\ StampIsPast' /\ ShownImageResolves'
             /\ UNCHANGED <<now, live>>
  <2>1. UNCHANGED <<now, session, live, post, stamp, delete>>
    BY <1>3 DEF ViewLoad, ViewImage
  <2>2. view' \in [Viewers -> {"idle", "image"}]
    BY <1>3 DEF ViewLoad, ViewImage, SessionTypeOK
  <2>3. \E t \in liveRecords \cup {0} : shown' = [shown EXCEPT ![v] = t] \/ shown' = shown
    BY <1>3, LatestOf DEF ViewLoad, ViewImage, SessionTypeOK
  <2>4. PICK t \in liveRecords \cup {0} : shown' = [shown EXCEPT ![v] = t] \/ shown' = shown
    BY <2>3
  <2>5. shown' \in [Viewers -> 0..MaxTime] /\ ShownImageResolves'
    BY <2>1, <2>4 DEF SessionTypeOK, ShownImageResolves, Resolves, live
  <2> QED
    BY <2>1, <2>2, <2>5 DEF SessionTypeOK, StampIsPast, live
<1>4. CASE Tick
  BY <1>4 DEF Tick, SessionTypeOK, StampIsPast, ShownImageResolves, Resolves, live, viewers
<1>5. CASE Expiry
  <2>1. CASE SweepSession
    BY <2>1 DEF SweepSession, NoSession, SessionTypeOK, StampIsPast, ShownImageResolves, Resolves,
                live, viewers
  <2>2. CASE SweepLiveRecord
    BY <2>2 DEF SweepLiveRecord, SessionTypeOK, StampIsPast, ShownImageResolves, Resolves, viewers
  <2>3. CASE ExpireLiveObject
    BY <2>3 DEF ExpireLiveObject, SessionTypeOK, StampIsPast, ShownImageResolves, Resolves, viewers
  <2> QED
    BY <1>5, <2>1, <2>2, <2>3 DEF Expiry
<1>6. ASSUME UNCHANGED <<now, live, shown>>
      PROVE  /\ ShownImageResolves' /\ now <= now' /\ liveRecords' \subseteq liveRecords
             /\ \A t \in 1..MaxTime : Resolves(t) => Resolves(t)'
  BY <1>6 DEF SessionTypeOK, ShownImageResolves, Resolves, live
<1>7. ASSUME UNCHANGED <<now, live>>
      PROVE  /\ now <= now' /\ liveRecords' \subseteq liveRecords
             /\ \A t \in 1..MaxTime : Resolves(t) => Resolves(t)'
  BY <1>7 DEF SessionTypeOK, Resolves, live
<1> QED
  BY <1>1, <1>2, <1>3, <1>4, <1>5, <1>6, <1>7 DEF SessionStep

(* An upload that goes on or answers changes its own local variables only. *)
LEMMA UploadEffects ==
    ASSUME TypeOK, NEW i \in Uploads, Upload(i)
    PROVE  /\ UNCHANGED <<now, session, post, stamp, delete, view, shown>>
           /\ \A j \in Uploads : j # i =>
                 /\ step'[j] = step[j] /\ due'[j] = due[j] /\ class'[j] = class[j]
                 /\ ts'[j] = ts[j] /\ checked'[j] = checked[j]
           /\ saved \subseteq saved' /\ stored \subseteq stored'
           /\ recorded \subseteq recorded' /\ recorded' \subseteq recorded \cup {i}
           /\ unseen \subseteq unseen'
           /\ liveRecords \subseteq liveRecords' /\ liveObjects \subseteq liveObjects'
<1> USE DEF TypeOK, sessionVars, viewers, live, timelapse
<1>1. CASE CheckCadence(i)
  BY <1>1 DEF CheckCadence
<1>2. CASE CheckSession(i)
  BY <1>2 DEF CheckSession, Capture, Answered
<1>3. CASE PutObject(i)
  BY <1>3 DEF PutObject, NotApplied, Then, Answered, Goto, locals
<1>4. CASE PutRecord(i)
  BY <1>4 DEF PutRecord, NotApplied, Then, Answered, Goto, locals
<1>5. CASE PutLiveObject(i)
  BY <1>5 DEF PutLiveObject, NotApplied, Then, Answered, Goto, locals
<1>6. CASE PutLiveRecord(i)
  BY <1>6 DEF PutLiveRecord, NotApplied, Then, Answered, Goto, locals
<1> QED
  BY <1>1, <1>2, <1>3, <1>4, <1>5, <1>6 DEF Upload

(* What an upload that answers leaves of its local variables.              *)
Ended(i, a) ==
    /\ step'[i] = a /\ due'[i] = FALSE
    /\ ts'[i] = (IF i \in recorded' THEN ts[i] ELSE 0)
    /\ checked'[i] = (IF a = "error" THEN 0 ELSE checked[i])

Advanced(i, s) ==
    /\ step'[i] = s /\ due'[i] = due[i] /\ class'[i] = class[i]
    /\ ts'[i] = ts[i] /\ checked'[i] = checked[i]

LEMMA AnsweredIsEnded ==
    ASSUME TypeOK, NEW i \in Uploads, NEW a, Answered(i, a) PROVE Ended(i, a)
BY DEF TypeOK, Answered, Ended

LEMMA GotoIsAdvanced ==
    ASSUME TypeOK, NEW i \in Uploads, NEW s, Goto(i, s) PROVE Advanced(i, s)
BY DEF TypeOK, Goto, Advanced, locals

LEMMA AnsweredType ==
    ASSUME TypeOK, NEW i \in Uploads, NEW a \in {"saved", "skipped", "error"}, Answered(i, a)
    PROVE  /\ step' \in [Uploads -> {"received", "session", "object", "record", "live_object",
                                     "live_record", "saved", "skipped", "error"}]
           /\ due' \in [Uploads -> BOOLEAN] /\ toLive' \in [Uploads -> BOOLEAN]
           /\ class' \in [Uploads -> Classes]
           /\ ts' \in [Uploads -> 0..MaxTime] /\ checked' \in [Uploads -> 0..MaxTime]
<1>1. 0 \in 0..MaxTime
  BY Lengths
<1>2. due' \in [Uploads -> BOOLEAN] /\ toLive' \in [Uploads -> BOOLEAN]
  BY DEF TypeOK, Answered
<1>3. "in_hours" \in Classes
  BY DEF Classes
<1>4. class' \in [Uploads -> Classes]
  BY <1>3 DEF TypeOK, Answered
<1> QED
  BY <1>1, <1>2, <1>4 DEF TypeOK, Answered

LEMMA GotoType ==
    ASSUME TypeOK, NEW i \in Uploads,
           NEW s \in {"record", "live_object", "live_record"}, Goto(i, s)
    PROVE  /\ step' \in [Uploads -> {"received", "session", "object", "record", "live_object",
                                     "live_record", "saved", "skipped", "error"}]
           /\ due' \in [Uploads -> BOOLEAN] /\ toLive' \in [Uploads -> BOOLEAN]
           /\ class' \in [Uploads -> Classes]
           /\ ts' \in [Uploads -> 0..MaxTime] /\ checked' \in [Uploads -> 0..MaxTime]
<1>1. UNCHANGED <<due, toLive, class, ts, checked>>
  BY DEF Goto, locals
<1> QED
  BY <1>1 DEF TypeOK, Goto

(* What is listed last: nobody who is due is closer to it than a cadence.  *)
LEMMA LatestFacts ==
    ASSUME TypeOK
    PROVE  /\ Latest \in 0..MaxTime /\ \A r \in saved : r[2] <= Latest
           /\ Latest # 0 => \E r \in saved : r[2] = Latest
<1> DEFINE S == {r[2] : r \in saved}
<1>1. S \subseteq 1..MaxTime /\ \A r \in saved : r[2] \in S
  BY DEF TypeOK
<1>2. Latest = Max(S \cup {0})
  BY DEF Latest
<1>3. /\ Max(S \cup {0}) \in S \cup {0} /\ Max(S \cup {0}) \in 0..MaxTime
      /\ \A x \in S : x <= Max(S \cup {0})
  <2> HIDE DEF S
  <2> QED
    BY <1>1, LatestOf, Lengths
<1> QED
  BY <1>1, <1>2, <1>3

LocalTypeOK ==
    /\ step \in [Uploads -> {"received", "session", "object", "record", "live_object",
                             "live_record", "saved", "skipped", "error"}]
    /\ due \in [Uploads -> BOOLEAN] /\ toLive \in [Uploads -> BOOLEAN]
    /\ class \in [Uploads -> Classes]
    /\ ts \in [Uploads -> 0..MaxTime] /\ checked \in [Uploads -> 0..MaxTime]

(* What follows a write that succeeds, and one that raises.                *)
LEMMA ThenFacts ==
    ASSUME TypeOK, NEW i \in Uploads,
           NEW s \in {"record", "live_object", "live_record", "saved", "skipped"}, Then(i, s)
    PROVE  LocalTypeOK' /\ IF s \in {"saved", "skipped"} THEN Ended(i, s) ELSE Advanced(i, s)
<1>1. CASE s \in {"saved", "skipped"}
  <2>1. Answered(i, s)
    BY <1>1 DEF Then
  <2> QED
    BY <1>1, <2>1, AnsweredType, AnsweredIsEnded DEF LocalTypeOK
<1>2. CASE s \notin {"saved", "skipped"}
  <2>1. Goto(i, s)
    BY <1>2 DEF Then
  <2> QED
    BY <1>2, <2>1, GotoType, GotoIsAdvanced DEF LocalTypeOK
<1> QED
  BY <1>1, <1>2

LEMMA FailFacts ==
    ASSUME TypeOK, NEW i \in Uploads, NotApplied(i) PROVE LocalTypeOK' /\ Ended(i, "error")
BY AnsweredType, AnsweredIsEnded DEF LocalTypeOK, NotApplied

(* What each step of an upload i does, seen from i.                        *)
Looks(i) ==
    /\ step[i] = "received" /\ step'[i] = "session"
    /\ checked'[i] = now /\ ts'[i] = ts[i]
    /\ \A j \in Uploads : InFlight(j) => {i, j} \in unseen'
    /\ \/ ~due'[i] /\ TooSoon
       \/ due'[i] /\ ~TooSoon
       \/ due'[i] /\ \A j \in Uploads : j # i => {i, j} \in unseen'
    /\ UNCHANGED <<saved, stored, recorded, live>>

Begins(i) ==
    /\ step[i] = "session" /\ ts'[i] = now
    /\ step'[i] = (IF due[i] THEN "object" ELSE "live_object")
    /\ due'[i] = due[i] /\ checked'[i] = checked[i]
    /\ UNCHANGED <<saved, stored, recorded, live>>

Skips(i) ==
    /\ step[i] = "session" /\ ~due[i] /\ Ended(i, "skipped")
    /\ UNCHANGED <<saved, stored, recorded, live>>

Fails(i) ==
    /\ step[i] \in {"object", "record", "live_object", "live_record"}
    /\ Ended(i, "error")
    /\ UNCHANGED <<saved, stored, recorded, live>>

StoresObject(i) ==
    /\ step[i] = "object" /\ Advanced(i, "record")
    /\ stored' = stored \cup {Snapshot(i)}
    /\ UNCHANGED <<saved, recorded, live>>

StoresRecord(i) ==
    /\ step[i] = "record"
    /\ Advanced(i, "live_object") \/ Ended(i, "saved")
    /\ saved' = saved \cup {Snapshot(i)} /\ recorded' = recorded \cup {i}
    /\ UNCHANGED <<stored, live>>

StoresLiveObject(i) ==
    /\ step[i] = "live_object" /\ Advanced(i, "live_record")
    /\ liveObjects' = liveObjects \cup {ts[i]}
    /\ UNCHANGED <<saved, stored, recorded, liveRecords>>

StoresLiveRecord(i) ==
    /\ step[i] = "live_record"
    /\ Ended(i, IF due[i] THEN "saved" ELSE "skipped")
    /\ liveRecords' = liveRecords \cup {ts[i]}
    /\ UNCHANGED <<saved, stored, recorded, liveObjects>>

Outcome(i) ==
    \/ Looks(i) \/ Begins(i) \/ Skips(i) \/ Fails(i) \/ StoresObject(i) \/ StoresRecord(i)
    \/ StoresLiveObject(i) \/ StoresLiveRecord(i)

LEMMA UploadOutcome ==
    ASSUME TypeOK, NEW i \in Uploads, Upload(i)
    PROVE  LocalTypeOK' /\ Outcome(i)
<1> USE DEF Outcome
<1>1. CASE CheckCadence(i)
  <2>1. now \in 0..MaxTime
    BY DEF TypeOK, SessionTypeOK
  <2>2. due' \in [Uploads -> BOOLEAN]
    BY <1>1 DEF CheckCadence, TypeOK, TooSoon
  <2>3. LocalTypeOK'
    BY <1>1, <2>1, <2>2 DEF CheckCadence, TypeOK, LocalTypeOK
  <2>4. Looks(i)
    <3>1. /\ step[i] = "received" /\ step'[i] = "session"
          /\ checked'[i] = now /\ ts'[i] = ts[i]
          /\ UNCHANGED <<saved, stored, recorded, live>>
      BY <1>1 DEF CheckCadence, TypeOK, sessionVars, timelapse
    <3>2. /\ ~InFlight(i)
          /\ \A j \in Uploads : InFlight(j) => {i, j} \in unseen'
      BY <1>1 DEF CheckCadence, InFlight
    <3>3. \/ due'[i] = ~TooSoon
          \/ due'[i] = TRUE /\ \A j \in Uploads : j # i => {i, j} \in unseen'
      BY <1>1 DEF CheckCadence, TypeOK
    <3> QED
      BY <3>1, <3>2, <3>3 DEF Looks
  <2> QED
    BY <2>3, <2>4
<1>2. CASE CheckSession(i)
  <2>1. PICK l \in {Active(session)} \cup (IF "read" \in Faults THEN {FALSE} ELSE {}) :
            IF due[i] \/ l THEN Capture(i, l) ELSE Answered(i, "skipped")
    BY <1>2 DEF CheckSession
  <2>2. /\ step[i] = "session" /\ l \in BOOLEAN
        /\ UNCHANGED <<saved, stored, recorded, live>>
    BY <1>2, <2>1 DEF CheckSession, sessionVars, timelapse, Active
  <2>3. CASE Capture(i, l)
    <3>1. now \in 0..MaxTime
      BY DEF TypeOK, SessionTypeOK
    <3>2. toLive' \in [Uploads -> BOOLEAN] /\ due' \in [Uploads -> BOOLEAN]
      BY <2>2, <2>3 DEF Capture, TypeOK
    <3>3. class' \in [Uploads -> Classes]
      BY <2>3 DEF Capture, TypeOK
    <3>4. LocalTypeOK'
      BY <2>3, <3>1, <3>2, <3>3 DEF Capture, TypeOK, LocalTypeOK
    <3>5. Begins(i)
      BY <2>2, <2>3 DEF Capture, Begins, TypeOK
    <3> QED
      BY <3>4, <3>5
  <2>4. CASE ~due[i] /\ Answered(i, "skipped")
    BY <2>2, <2>4, AnsweredType, AnsweredIsEnded DEF LocalTypeOK, Skips
  <2> QED
    BY <2>1, <2>3, <2>4
<1>3. CASE PutObject(i)
  <2>1. CASE NotApplied(i) /\ UNCHANGED stored
    BY <1>3, <2>1, FailFacts DEF PutObject, Fails, sessionVars
  <2>2. CASE stored' = stored \cup {Snapshot(i)} /\ Then(i, "record")
    BY <1>3, <2>2, ThenFacts DEF PutObject, StoresObject, sessionVars
  <2> QED
    BY <1>3, <2>1, <2>2 DEF PutObject
<1>4. CASE PutRecord(i)
  <2>1. CASE NotApplied(i) /\ UNCHANGED <<saved, recorded>>
    BY <1>4, <2>1, FailFacts DEF PutRecord, Fails, sessionVars
  <2>2. CASE saved' = saved \cup {Snapshot(i)} /\ recorded' = recorded \cup {i}
             /\ Then(i, AfterTimelapse(i))
    <3>1. AfterTimelapse(i) \in {"live_object", "saved"}
      BY DEF AfterTimelapse
    <3>2. LocalTypeOK' /\ (Advanced(i, "live_object") \/ Ended(i, "saved"))
      BY <2>2, <3>1, ThenFacts
    <3> QED
      BY <1>4, <2>2, <3>2 DEF PutRecord, StoresRecord, sessionVars
  <2> QED
    BY <1>4, <2>1, <2>2 DEF PutRecord
<1>5. CASE PutLiveObject(i)
  <2>1. CASE NotApplied(i) /\ UNCHANGED liveObjects
    BY <1>5, <2>1, FailFacts DEF PutLiveObject, Fails, timelapse, live
  <2>2. CASE liveObjects' = liveObjects \cup {ts[i]} /\ Then(i, "live_record")
    BY <1>5, <2>2, ThenFacts DEF PutLiveObject, StoresLiveObject, timelapse
  <2> QED
    BY <1>5, <2>1, <2>2 DEF PutLiveObject
<1>6. CASE PutLiveRecord(i)
  <2>1. CASE NotApplied(i) /\ UNCHANGED liveRecords
    BY <1>6, <2>1, FailFacts DEF PutLiveRecord, Fails, timelapse, live
  <2>2. CASE liveRecords' = liveRecords \cup {ts[i]} /\ Then(i, AfterLive(i))
    BY <1>6, <2>2, ThenFacts DEF PutLiveRecord, StoresLiveRecord, timelapse, AfterLive
  <2> QED
    BY <1>6, <2>1, <2>2 DEF PutLiveRecord
<1> QED
  BY <1>1, <1>2, <1>3, <1>4, <1>5, <1>6 DEF Upload

(* Read backwards: which step may have led where.                          *)
Origin(i) ==
    /\ (recorded' = recorded /\ saved' = saved) \/ StoresRecord(i)
    /\ stored' = stored \/ StoresObject(i)
    /\ liveRecords' = liveRecords \/ StoresLiveRecord(i)
    /\ liveObjects' = liveObjects \/ StoresLiveObject(i)
    /\ step'[i] # "received"
    /\ step'[i] = "session" => Looks(i)
    /\ step'[i] = "object" => Begins(i) /\ due[i]
    /\ step'[i] = "record" => StoresObject(i)
    /\ step'[i] = "live_object" =>
          \/ Begins(i) /\ ~due[i]
          \/ StoresRecord(i) /\ Advanced(i, "live_object")
    /\ step'[i] = "live_record" => StoresLiveObject(i)
    /\ i \in recorded' => step[i] \in {"received", "session"} \/ ts'[i] = ts[i]
    /\ step[i] # "received" => checked'[i] \in {checked[i], 0}

LEMMA Origins ==
    ASSUME TypeOK, NEW i \in Uploads, Outcome(i) PROVE Origin(i)
<1>1. CASE Looks(i)
  BY <1>1 DEF Origin, live, Looks
<1>2. CASE Begins(i)
  BY <1>2 DEF Origin, live, Begins
<1>3. CASE Skips(i)
  BY <1>3 DEF Origin, live, Skips, Ended
<1>4. CASE Fails(i)
  BY <1>4 DEF Origin, live, Fails, Ended
<1>5. CASE StoresObject(i)
  BY <1>5 DEF Origin, live, StoresObject, Advanced
<1>6. CASE StoresRecord(i)
  BY <1>6 DEF Origin, live, StoresRecord, Advanced, Ended
<1>7. CASE StoresLiveObject(i)
  BY <1>7 DEF Origin, live, StoresLiveObject, Advanced
<1>8. CASE StoresLiveRecord(i)
  BY <1>8 DEF Origin, live, StoresLiveRecord, Ended
<1> QED
  BY <1>1, <1>2, <1>3, <1>4, <1>5, <1>6, <1>7, <1>8 DEF Outcome

-----------------------------------------------------------------------------
(* Each part of the invariant outlives every step of an upload.            *)

LEMMA UploadTypeKept ==
    ASSUME IInv, NEW i \in Uploads, Upload(i) PROVE TypeOK'
<1> USE UploadEffects, UploadOutcome, Origins DEF IInv, Origin
<1>1. LocalTypeOK' /\ unseen' \subseteq SUBSET Uploads
  <2>1. CASE CheckCadence(i)
    BY <2>1 DEF CheckCadence, TypeOK
  <2>2. CASE ~CheckCadence(i)
    BY <2>2 DEF Upload, CheckSession, PutObject, PutRecord, PutLiveObject, PutLiveRecord, TypeOK
  <2> QED
    BY <2>1, <2>2
<1>2. Captured(i) => ts[i] \in 1..MaxTime /\ Snapshot(i) \in Classes \X (1..MaxTime)
  <2>1. ts[i] \in 0..MaxTime /\ class[i] \in Classes
    BY DEF TypeOK
  <2>2. Captured(i) => ts[i] >= 1
    BY DEF Progress
  <2> QED
    BY <2>1, <2>2, Lengths DEF Snapshot
<1>3. saved' \subseteq Classes \X (1..MaxTime) /\ stored' \subseteq Classes \X (1..MaxTime)
  BY <1>2 DEF StoresObject, StoresRecord, Captured, TypeOK
<1>4. liveRecords' \subseteq 1..MaxTime /\ liveObjects' \subseteq 1..MaxTime
  <2>1. liveRecords \subseteq 1..MaxTime /\ liveObjects \subseteq 1..MaxTime
    BY DEF TypeOK, SessionTypeOK
  <2>2. liveRecords' = liveRecords \/ (Captured(i) /\ liveRecords' = liveRecords \cup {ts[i]})
    BY DEF StoresLiveRecord, Captured
  <2>3. liveObjects' = liveObjects \/ (Captured(i) /\ liveObjects' = liveObjects \cup {ts[i]})
    BY DEF StoresLiveObject, Captured
  <2> QED
    BY <1>2, <2>1, <2>2, <2>3
<1>5. SessionTypeOK'
  BY <1>4 DEF TypeOK, SessionTypeOK
<1> QED
  BY <1>1, <1>3, <1>5 DEF TypeOK, LocalTypeOK

LEMMA LiveObjectFirstKept ==
    ASSUME IInv, NEW i \in Uploads, Upload(i) PROVE LiveObjectFirst'
<1> USE UploadEffects, UploadOutcome, Origins DEF IInv, Origin, LiveObjectFirst
<1>1. \A t \in 1..MaxTime : Resolves(t) => Resolves(t)'
  BY DEF Resolves
<1>2. \A t \in liveRecords : t \in 1..MaxTime
  BY DEF TypeOK, SessionTypeOK
<1>3. \A j \in Uploads : step[j] = "live_record" => ts[j] \in 1..MaxTime
  <2>1. \A j \in Uploads : ts[j] \in 0..MaxTime
    BY DEF TypeOK
  <2> QED
    BY <2>1, Lengths DEF Progress, Captured
<1>4. \A t \in liveRecords' : Resolves(t)'
  BY <1>1, <1>2, <1>3 DEF StoresLiveRecord
<1>5. step'[i] = "live_record" => Resolves(ts[i])'
  BY DEF StoresLiveObject, Advanced, Resolves
<1>6. ASSUME NEW j \in Uploads, step'[j] = "live_record" PROVE Resolves(ts[j])'
  <2>1. CASE j = i
    BY <1>5, <1>6, <2>1
  <2>2. CASE j # i
    <3>1. step[j] = "live_record" /\ ts'[j] = ts[j]
      BY <1>6, <2>2
    <3>2. Resolves(ts[j])
      BY <3>1
    <3> QED
      BY <3>1, <3>2 DEF Resolves
  <2> QED
    BY <2>1, <2>2
<1> QED
  BY <1>4, <1>6

LEMMA ObjectFirstKept ==
    ASSUME IInv, NEW i \in Uploads, Upload(i) PROVE ObjectFirst'
<1> USE UploadEffects, UploadOutcome, Origins DEF IInv, Origin, ObjectFirst
<1>1. saved' \subseteq stored'
  BY DEF StoresRecord
<1>2. step'[i] = "record" => Snapshot(i)' \in stored'
  BY DEF StoresObject, Advanced, Snapshot
<1>3. \A j \in Uploads : j # i => Snapshot(j)' = Snapshot(j)
  BY DEF Snapshot
<1> QED
  BY <1>1, <1>2, <1>3

LEMMA ProgressKept ==
    ASSUME IInv, NEW i \in Uploads, Upload(i) PROVE Progress'
<1> USE UploadEffects, UploadOutcome, Origins DEF IInv, Origin
<1>1. now \in 1..MaxTime /\ checked[i] \in 0..MaxTime /\ MaxTime \in Nat
  BY Lengths DEF TypeOK, SessionTypeOK
<1>2. step'[i] \in {"object", "record"} => due'[i]
  BY DEF Progress, Begins, StoresObject, Advanced
<1>3. Captured(i)' => checked'[i] <= ts'[i] /\ ts'[i] >= 1
  BY <1>1 DEF Progress, Captured, Begins, StoresObject, StoresRecord, StoresLiveObject, Advanced
<1>4. checked'[i] <= now'
  <2>1. checked'[i] \in {checked[i], now, 0}
    BY DEF Looks, Outcome, Begins, Skips, Fails, StoresObject, StoresRecord, StoresLiveObject,
           StoresLiveRecord
  <2> QED
    BY <1>1, <2>1 DEF Progress
<1>5. \A j \in Uploads : j # i => (Captured(j)' <=> Captured(j))
  BY DEF Captured
<1> QED
  BY <1>2, <1>3, <1>4, <1>5 DEF Progress

LEMMA RecordStaysKept ==
    ASSUME IInv, NEW i \in Uploads, Upload(i) PROVE RecordStays'
<1> USE UploadEffects, UploadOutcome, Origins DEF IInv, Origin, RecordStays
<1>1. ASSUME i \in recorded'
      PROVE  /\ step'[i] \in {"live_object", "live_record", "saved", "skipped", "error"}
             /\ \E r \in saved' : r[2] = ts'[i]
  <2>1. CASE i \in recorded
    <3>1. step[i] \in {"live_object", "live_record", "saved", "skipped", "error"}
          /\ \E r \in saved : r[2] = ts[i]
      BY <2>1
    <3>2. ts'[i] = ts[i]
      BY <1>1, <3>1
    <3>3. step'[i] \in {"live_object", "live_record", "saved", "skipped", "error"}
      BY <3>1 DEF Outcome, Looks, Begins, Skips, Fails, StoresObject, StoresRecord,
                  StoresLiveObject, StoresLiveRecord, Ended, Advanced
    <3> QED
      BY <3>1, <3>2, <3>3
  <2>2. CASE StoresRecord(i)
    <3>1. Snapshot(i) \in saved' /\ Snapshot(i)[2] = ts[i] /\ ts'[i] = ts[i]
      BY <2>2 DEF StoresRecord, Snapshot, Advanced, Ended
    <3>2. step'[i] \in {"live_object", "saved"}
      BY <2>2 DEF StoresRecord, Advanced, Ended
    <3> QED
      BY <3>1, <3>2
  <2> QED
    BY <1>1, <2>1, <2>2
<1>2. ASSUME NEW j \in recorded', j # i
      PROVE  /\ step'[j] \in {"live_object", "live_record", "saved", "skipped", "error"}
             /\ \E r \in saved' : r[2] = ts'[j]
  <2>1. j \in recorded /\ j \in Uploads
    BY <1>2 DEF TypeOK
  <2> QED
    BY <1>2, <2>1
<1> QED
  BY <1>1, <1>2

LEMMA SkippedIsCoveredKept ==
    ASSUME IInv, NEW i \in Uploads, Upload(i) PROVE SkippedIsCovered'
<1> USE UploadEffects, UploadOutcome, Origins DEF IInv
<1>1. /\ Origin(i) /\ TypeOK /\ Progress /\ SkippedIsCovered /\ RecordStays
      /\ now \in 1..MaxTime /\ checked[i] \in 0..MaxTime /\ ts[i] \in 0..MaxTime
      /\ \A r \in saved : r[2] \in 1..MaxTime
      /\ MaxTime \in Nat /\ Cadence \in Nat /\ Cadence > 0
  BY Lengths DEF TypeOK, SessionTypeOK
<1>2. ASSUME Covered(i), checked'[i] \in {checked[i], 0} PROVE Covered(i)'
  BY <1>1, <1>2 DEF Covered
<1>3. ASSUME InFlight(i)', ~due'[i] PROVE Covered(i)'
  <2>1. CASE Looks(i)
    <3>1. Latest # 0 /\ now - Latest < Cadence /\ checked'[i] = now
      BY <1>3, <2>1 DEF Looks, TooSoon
    <3>2. PICK r \in saved : r[2] = Latest
      BY <3>1, <1>1, LatestFacts
    <3>3. r \in saved' /\ checked'[i] - r[2] < Cadence
      BY <3>1, <3>2
    <3> QED
      BY <3>3 DEF Covered
  <2>2. CASE ~Looks(i)
    <3>1. InFlight(i) /\ due'[i] = due[i] /\ checked'[i] = checked[i]
      BY <1>1, <1>3, <2>2 DEF Origin, InFlight, Begins, StoresObject, StoresRecord,
                             StoresLiveObject, Advanced
    <3> QED
      BY <1>1, <1>2, <1>3, <3>1 DEF SkippedIsCovered
  <2> QED
    BY <2>1, <2>2
<1>4. step'[i] \in {"live_object", "live_record"} /\ due'[i] => i \in recorded'
  BY <1>1 DEF Origin, SkippedIsCovered, Begins, StoresRecord, StoresLiveObject, Advanced
<1>5. ASSUME i \in recorded' PROVE Covered(i)'
  <2>1. CASE i \in recorded
    <3>1. checked'[i] \in {checked[i], 0}
      BY <1>1, <2>1 DEF Origin, RecordStays
    <3> QED
      BY <1>1, <1>2, <2>1, <3>1 DEF SkippedIsCovered
  <2>2. CASE StoresRecord(i)
    <3>1. checked'[i] = checked[i] /\ checked[i] <= ts[i]
      BY <1>1, <2>2 DEF StoresRecord, Advanced, Ended, Progress, Captured
    <3>2. Snapshot(i) \in saved' /\ Snapshot(i)[2] = ts[i]
      BY <2>2 DEF StoresRecord, Snapshot
    <3> QED
      BY <1>1, <3>1, <3>2 DEF Covered
  <2> QED
    BY <1>1, <1>5, <2>1, <2>2 DEF Origin
<1>6. ASSUME step'[i] \in {"saved", "skipped"} PROVE Covered(i)'
  <2>1. CASE Skips(i)
    <3>1. InFlight(i) /\ ~due[i] /\ checked'[i] = checked[i]
      BY <2>1 DEF Skips, Ended, InFlight
    <3> QED
      BY <1>1, <1>2, <3>1 DEF SkippedIsCovered
  <2>2. CASE StoresRecord(i)
    BY <1>5, <2>2 DEF StoresRecord
  <2>3. CASE StoresLiveRecord(i)
    <3>1. InFlight(i) /\ checked'[i] = checked[i] /\ recorded' = recorded
      BY <2>3 DEF StoresLiveRecord, Ended, InFlight
    <3>2. Covered(i)
      BY <1>1, <2>3, <3>1 DEF SkippedIsCovered, StoresLiveRecord
    <3> QED
      BY <1>2, <3>1, <3>2
  <2> QED
    BY <1>6, <2>1, <2>2, <2>3
    DEF Outcome, Looks, Begins, Fails, StoresObject, StoresLiveObject, Advanced, Ended
<1>7. ASSUME NEW j \in Uploads, j # i
      PROVE  (Covered(j) => Covered(j)') /\ (InFlight(j)' <=> InFlight(j))
  BY <1>7 DEF Covered, InFlight
<1> QED
  BY <1>1, <1>3, <1>4, <1>5, <1>6, <1>7 DEF SkippedIsCovered

LEMMA OverlapIsUnseenKept ==
    ASSUME IInv, NEW i \in Uploads, Upload(i) PROVE OverlapIsUnseen'
<1> USE UploadEffects, UploadOutcome, Origins DEF IInv
<1>1. InFlight(i)' => InFlight(i) \/ Looks(i)
  BY DEF Origin, InFlight, Begins, StoresObject, StoresRecord, StoresLiveObject
<1>2. \A j \in Uploads : j # i => (InFlight(j)' <=> InFlight(j))
  BY DEF InFlight
<1>3. ASSUME NEW j \in Uploads, j # i, InFlight(i)', InFlight(j) PROVE {i, j} \in unseen'
  BY <1>1, <1>3 DEF OverlapIsUnseen, Looks
<1>4. ASSUME NEW j \in Uploads, NEW k \in Uploads, j # i, k # i, j # k, InFlight(j), InFlight(k)
      PROVE  {j, k} \in unseen'
  BY <1>4 DEF OverlapIsUnseen
<1>5. \A j \in Uploads : {i, j} = {j, i}
  OBVIOUS
<1> QED
  BY <1>2, <1>3, <1>4, <1>5 DEF OverlapIsUnseen

(* The time of a recorded snapshot is not changed any more.                *)
LEMMA RecordedTime ==
    ASSUME IInv, NEW i \in Uploads, Upload(i), NEW k \in recorded
    PROVE  ts'[k] = ts[k] /\ \E r \in saved : r[2] = ts[k]
<1>1. k \in Uploads /\ k \in recorded' /\ TypeOK
  BY UploadEffects DEF IInv, TypeOK
<1>2. step[k] \notin {"received", "session"} /\ \E r \in saved : r[2] = ts[k]
  BY DEF IInv, RecordStays
<1>3. CASE k = i
  <2>1. Origin(i)
    BY <1>1, UploadOutcome, Origins
  <2> QED
    BY <1>1, <1>2, <1>3, <2>1 DEF Origin
<1>4. CASE k # i
  BY <1>1, <1>2, <1>4, UploadEffects
<1> QED
  BY <1>3, <1>4

LEMMA DueIsApartKept ==
    ASSUME IInv, NEW i \in Uploads, Upload(i) PROVE DueIsApart'
<1> SUFFICES ASSUME NEW a \in recorded', NEW j \in Uploads,
                    InFlight(j)', due'[j], a # j, {a, j} \notin unseen'
             PROVE  checked'[j] - ts'[a] >= Cadence
  BY DEF DueIsApart
<1> USE UploadEffects, UploadOutcome, Origins DEF IInv
<1>1. /\ TypeOK /\ Origin(i) /\ a \in Uploads /\ {a, j} = {j, a} /\ {a, j} \notin unseen
      /\ now \in 1..MaxTime /\ MaxTime \in Nat /\ Cadence \in Nat
      /\ \A r \in saved : r[2] \in 1..MaxTime
  BY Lengths DEF TypeOK, SessionTypeOK
<1>2. CASE a \in recorded
  <2>1. \E r \in saved : r[2] = ts[a]
    BY <1>2, RecordedTime
  <2>2. ts'[a] = ts[a]
    BY <1>2, RecordedTime
  <2>3. CASE j = i /\ Looks(i)
    <3>1. ~TooSoon /\ checked'[j] = now
      BY <1>1, <2>3 DEF Looks
    <3>2. PICK r \in saved : r[2] = ts[a]
      BY <2>1
    <3>3. ts[a] <= Latest /\ Latest # 0 /\ Latest \in 0..MaxTime
      BY <1>1, <3>2, LatestFacts
    <3>4. ~(now - Latest < Cadence) /\ ts[a] \in 1..MaxTime
      BY <1>1, <3>1, <3>2, <3>3 DEF TooSoon
    <3> QED
      BY <1>1, <2>2, <3>1, <3>3, <3>4
  <2>4. CASE ~(j = i /\ Looks(i))
    <3>1. InFlight(j) /\ due[j] /\ checked'[j] = checked[j]
      BY <1>1, <2>4 DEF Origin, InFlight, Begins, StoresObject, StoresRecord, StoresLiveObject,
                       Advanced
    <3> QED
      BY <1>1, <1>2, <2>2, <3>1 DEF DueIsApart
  <2> QED
    BY <2>3, <2>4
<1>3. CASE a = i /\ StoresRecord(i)
  <2>1. InFlight(i) /\ InFlight(j)
    BY <1>1, <1>3 DEF StoresRecord, InFlight
  <2> QED
    BY <1>1, <1>3, <2>1 DEF OverlapIsUnseen
<1> QED
  BY <1>1, <1>2, <1>3 DEF Origin

LEMMA CadenceKeptOn ==
    ASSUME IInv, NEW i \in Uploads, Upload(i) PROVE CadenceKept'
<1> SUFFICES ASSUME NEW a \in recorded', NEW j \in recorded',
                    {a, j} \notin unseen', ts'[a] < ts'[j]
             PROVE  ts'[j] - ts'[a] >= Cadence
  BY DEF CadenceKept
<1> USE UploadEffects, UploadOutcome, Origins DEF IInv
<1>1. /\ TypeOK /\ Origin(i) /\ a \in Uploads /\ j \in Uploads
      /\ {a, j} = {j, a} /\ {a, j} \notin unseen
      /\ ts'[a] \in 0..MaxTime /\ ts'[j] \in 0..MaxTime
      /\ ts[a] \in 0..MaxTime /\ ts[j] \in 0..MaxTime
      /\ checked[a] \in 0..MaxTime /\ checked[j] \in 0..MaxTime
      /\ MaxTime \in Nat /\ Cadence \in Nat /\ Cadence > 0
  BY Lengths, UploadTypeKept DEF TypeOK
<1>2. a # j
  BY <1>1
<1>3. \A k \in recorded : ts'[k] = ts[k]
  BY RecordedTime
<1>4. CASE a \in recorded /\ j \in recorded
  BY <1>1, <1>3, <1>4 DEF CadenceKept
<1>5. ASSUME StoresRecord(i)
      PROVE  /\ InFlight(i) /\ due[i] /\ ts'[i] = ts[i] /\ checked[i] <= ts[i]
             /\ recorded' = recorded \cup {i}
  BY <1>5 DEF StoresRecord, Advanced, Ended, InFlight, Progress, Captured
<1>6. CASE StoresRecord(i) /\ j = i
  <2>1. checked[j] - ts[a] >= Cadence /\ ts'[a] = ts[a]
    BY <1>1, <1>2, <1>3, <1>5, <1>6 DEF DueIsApart
  <2> QED
    BY <1>1, <1>5, <1>6, <2>1
<1>7. CASE StoresRecord(i) /\ a = i
  <2>1. checked[a] - ts[j] >= Cadence /\ ts'[j] = ts[j]
    BY <1>1, <1>2, <1>3, <1>5, <1>7 DEF DueIsApart
  <2> QED
    BY <1>1, <1>5, <1>7, <2>1
<1> QED
  BY <1>1, <1>4, <1>5, <1>6, <1>7 DEF Origin

-----------------------------------------------------------------------------
(* The invariant.                                                          *)

LEMMA UploadKeeps == ASSUME IInv, NEW i \in Uploads, Upload(i) PROVE IInv'
<1>1. StampIsPast' /\ ShownImageResolves'
  BY UploadEffects DEF IInv, StampIsPast, ShownImageResolves
<1> QED
  BY <1>1, UploadTypeKept, LiveObjectFirstKept, ObjectFirstKept, ProgressKept,
     SkippedIsCoveredKept, RecordStaysKept, OverlapIsUnseenKept, DueIsApartKept, CadenceKeptOn
  DEF IInv

LEMMA SessionKeeps == ASSUME IInv, SessionStep, UNCHANGED uploadVars PROVE IInv'
<1>1. UNCHANGED <<step, due, toLive, class, ts, saved, stored, checked, recorded, unseen>>
  BY DEF uploadVars, locals, timelapse, history
<1>2. /\ SessionTypeOK' /\ StampIsPast' /\ ShownImageResolves'
      /\ now <= now' /\ liveRecords' \subseteq liveRecords
      /\ \A t \in 1..MaxTime : Resolves(t) => Resolves(t)'
  BY SessionEffects DEF IInv, TypeOK, LiveObjectFirst
<1>3. TypeOK'
  BY <1>1, <1>2 DEF IInv, TypeOK
<1>4. LiveObjectFirst'
  <2>1. \A t \in liveRecords : t \in 1..MaxTime
    BY DEF IInv, TypeOK, SessionTypeOK
  <2>2. \A i \in Uploads : step[i] = "live_record" => ts[i] \in 1..MaxTime
    <3>1. \A i \in Uploads : ts[i] \in 0..MaxTime
      BY DEF IInv, TypeOK
    <3> QED
      BY <3>1, Lengths DEF IInv, Progress, Captured
  <2>3. \A i \in Uploads : step'[i] = "live_record" => Resolves(ts[i])'
    <3> SUFFICES ASSUME NEW i \in Uploads, step'[i] = "live_record" PROVE Resolves(ts[i])'
      OBVIOUS
    <3>1. Resolves(ts[i]) /\ ts[i] \in 1..MaxTime
      BY <1>1, <2>2 DEF IInv, LiveObjectFirst
    <3> QED
      BY <1>1, <1>2, <3>1 DEF Resolves
  <2> QED
    BY <1>2, <2>1, <2>3 DEF IInv, LiveObjectFirst
<1>5. Progress'
  <2>1. \A i \in Uploads : checked[i] \in 0..MaxTime
    BY DEF IInv, TypeOK
  <2>2. now \in 1..MaxTime /\ now' \in 1..MaxTime /\ MaxTime \in Nat
    BY <1>2, Lengths DEF IInv, TypeOK, SessionTypeOK
  <2> QED
    BY <1>1, <1>2, <2>1, <2>2 DEF IInv, Progress, Captured
<1>6. ObjectFirst' /\ SkippedIsCovered' /\ RecordStays' /\ OverlapIsUnseen' /\ DueIsApart'
      /\ CadenceKept'
  BY <1>1 DEF IInv, ObjectFirst, Snapshot, SkippedIsCovered, Covered, RecordStays,
              OverlapIsUnseen, InFlight, DueIsApart, CadenceKept
<1> QED
  BY <1>2, <1>3, <1>4, <1>5, <1>6 DEF IInv

LEMMA Stutters == IInv /\ UNCHANGED vars => IInv'
BY DEF vars, sessionVars, live, viewers, uploadVars, locals, timelapse, history, IInv, TypeOK,
       SessionTypeOK, LiveObjectFirst, Resolves, ObjectFirst, Snapshot, Progress, Captured,
       SkippedIsCovered, Covered, RecordStays, OverlapIsUnseen, InFlight, DueIsApart, StampIsPast,
       ShownImageResolves, CadenceKept

LEMMA Start == Init => IInv
<1> SUFFICES ASSUME Init PROVE IInv
  OBVIOUS
<1>1. /\ SessionInit /\ saved = {} /\ stored = {} /\ recorded = {} /\ unseen = {}
      /\ \A i \in Uploads : step[i] = "received" /\ checked[i] = 0 /\ ts[i] = 0
  BY DEF Init
<1>2. TypeOK
  <2>1. 0 \in 0..MaxTime /\ 1 \in 1..MaxTime /\ "in_hours" \in Classes
    BY SessionAssumption DEF Classes
  <2>2. SessionTypeOK
    BY <1>1, <2>1 DEF SessionInit, SessionTypeOK, NoSession
  <2> QED
    BY <2>1, <2>2 DEF Init, TypeOK
<1>3. LiveObjectFirst /\ StampIsPast /\ ShownImageResolves
  BY <1>1 DEF SessionInit, LiveObjectFirst, StampIsPast, ShownImageResolves
<1>4. ObjectFirst /\ Progress /\ SkippedIsCovered /\ RecordStays /\ OverlapIsUnseen
      /\ DueIsApart /\ CadenceKept
  BY <1>1 DEF SessionInit, ObjectFirst, Progress, Captured, SkippedIsCovered, RecordStays,
              OverlapIsUnseen, InFlight, DueIsApart, CadenceKept
<1> QED
  BY <1>2, <1>3, <1>4 DEF IInv

(* All of it holds throughout.                                             *)
THEOREM Inductive == Spec => []IInv
<1>1. IInv /\ [Next]_vars => IInv'
  BY NextSplit, SessionKeeps, UploadKeeps, Stutters
<1> QED
  BY <1>1, Start, PTL DEF Spec

(* Every variable keeps its type.                                          *)
THEOREM TypeCorrect == Spec => []TypeOK
<1>1. IInv => TypeOK
  BY DEF IInv
<1> QED
  BY <1>1, Inductive, PTL

(* An upload answered 201 or "skipped" leaves no hole in the timelapse,    *)
(* whichever calls of other uploads failed.                                *)
THEOREM NoHole == Spec => []AnsweredIsCovered
<1>1. IInv => AnsweredIsCovered
  BY DEF IInv, ObjectFirst, SkippedIsCovered, Covered, AnsweredIsCovered
<1> QED
  BY <1>1, Inductive, PTL

(* Snapshots are a cadence apart, unless the check of one upload could not *)
(* see the other.                                                          *)
THEOREM Apart == Spec => []CadenceKept
<1>1. IInv => CadenceKept
  BY DEF IInv
<1> QED
  BY <1>1, Inductive, PTL

(* A viewer is shown a live image that is there, or is too old.            *)
THEOREM ShownIsThere == Spec => []ShownImageResolves
<1>1. IInv => ShownImageResolves
  BY DEF IInv
<1> QED
  BY <1>1, Inductive, PTL

-----------------------------------------------------------------------------
(* The session row is the lease that SessionLease describes.               *)

LEMMA SessionStepIsLeaseStep ==
    ASSUME IInv, SessionStep
    PROVE  Lease!Next \/ UNCHANGED <<now, session>>
<1> USE Lengths
<1>1. ASSUME NEW u \in Posters, PostPut(u), MayPut(u),
             session' = [created_by |-> u, expires_at |-> stamp[u] + SessionLength]
      PROVE  Lease!Grant(u)
  <2>1. now \in Nat /\ stamp[u] \in Nat /\ stamp[u] <= now /\ session.expires_at \in Nat
    BY DEF IInv, TypeOK, SessionTypeOK, StampIsPast
  <2>2. session.created_by = "none" \/ session.expires_at <= now
    BY <1>1, <2>1 DEF MayPut, Exists, NoSession
  <2>3. session'.created_by = u /\ session'.expires_at \in 0..(now + SessionLength)
    BY <1>1, <2>1
  <2> QED
    BY <1>1, <2>2, <2>3 DEF PostPut, Lease!Grant
<1>2. ASSUME session' = NoSession, now' = now PROVE Lease!Release
  BY <1>2 DEF NoSession, Lease!Release
<1>3. CASE Tick
  BY <1>3 DEF Tick, Lease!Elapse, Lease!Next
<1> QED
  BY <1>1, <1>2, <1>3
  DEF SessionStep, PostLoad, PostPut, DeleteLoad, DeleteWrite, ViewLoad, ViewImage, Expiry,
      SweepSession, SweepLiveRecord, ExpireLiveObject, Lease!Next

(* However many POSTs saw no session when they looked, a session that runs *)
(* is not replaced: the row implements the lease.                          *)
THEOREM RowIsLease == Spec => OneSession
<1>1. Init => Lease!Init
  BY DEF Init, SessionInit, NoSession, Lease!Init
<1>2. IInv /\ [Next]_vars => [Lease!Next]_<<now, session.created_by, session.expires_at>>
  <2> SUFFICES ASSUME IInv, [Next]_vars
               PROVE  Lease!Next \/ UNCHANGED <<now, session.created_by, session.expires_at>>
    OBVIOUS
  <2>1. CASE UNCHANGED <<now, session>>
    BY <2>1
  <2>2. CASE SessionStep
    BY <2>1, <2>2, SessionStepIsLeaseStep
  <2>3. ASSUME NEW i \in Uploads, Upload(i) PROVE UNCHANGED <<now, session>>
    BY <2>3, UploadEffects DEF IInv
  <2> QED
    BY <2>1, <2>2, <2>3, NextSplit DEF vars, sessionVars
<1> QED
  BY <1>1, <1>2, Inductive, PTL DEF Spec, OneSession, Lease!Spec
=============================================================================
