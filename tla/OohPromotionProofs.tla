------------------------- MODULE OohPromotionProofs -------------------------
(***************************************************************************)
(* Proofs about OohPromotion for every set of invocations, retention       *)
(* period and clock bound.                                                 *)
(***************************************************************************)
EXTENDS OohPromotion, TLAPS

(* What the proofs below assume of the environment.  One upload captured   *)
(* the second, and the promotion's UpdateItem never fails after it was     *)
(* applied; it may fail without being applied only if promotions do not    *)
(* overlap and GetItem is not stale.  The run ooh_rollback_race shows what *)
(* an overlap does; a stale read makes a retry roll back a committed copy. *)
OneUpload == \A i, j \in Ingests : i = j

CommitIsClean ==
    /\ "commit_reply_lost" \notin Faults
    /\ "commit" \in Faults => Serial /\ ~StaleReads

-----------------------------------------------------------------------------
(* The inductive invariant                                                 *)

RecordShape ==
    /\ record \in {NoRecord, CapturedRecord, PromotedRecord}
    /\ replica \in {NoRecord, CapturedRecord, PromotedRecord}
    /\ replica = PromotedRecord => record = PromotedRecord

(* Until the upload has written the record there is none, so nothing that  *)
(* acts on a record has begun.                                             *)
UploadFirst ==
    \A i \in Ingests :
        /\ ingest[i] \in {"received", "stored"} =>
              record = NoRecord /\ replica = NoRecord /\ InFlight = {}
        /\ ingest[i] = "stored" => now = 0 /\ "security" \in objects

ObjectOfRecord ==
    /\ record = CapturedRecord /\ now < Ttl => "security" \in objects
    /\ record = PromotedRecord => "preserved" \in objects

PromoterOK(p) ==
    /\ p \in InFlight => source[p] = "security"
    /\ step[p] = "commit" => record = NoRecord \/ "preserved" \in objects
    /\ step[p] \in {"cleanup", "ok"} => record = PromotedRecord
    /\ step[p] = "rollback" =>
          record = NoRecord \/ (Serial /\ record = CapturedRecord)
    /\ Serial /\ ~StaleReads /\ step[p] \in {"copy", "commit"} =>
          record # PromotedRecord

PromoterInv == \A p \in Promoters : PromoterOK(p)

OneAtATime == Serial => \A p, q \in InFlight : p = q

FreshReplica == ~StaleReads => replica = record

IInv == TypeOK /\ RecordShape /\ UploadFirst /\ ObjectOfRecord /\ PromoterInv
        /\ OneAtATime /\ FreshReplica

-----------------------------------------------------------------------------
(* Every variable keeps its type, whatever fails.                          *)
THEOREM TypeCorrect == Spec => []TypeOK
<1>1. Init => TypeOK
  BY ConstantsAssumption DEF Init, TypeOK, Record, NoRecord, NoTtl, Keys
<1>2. TypeOK /\ [Next]_vars => TypeOK'
  <2> SUFFICES ASSUME TypeOK, [Next]_vars PROVE TypeOK'
    OBVIOUS
  <2> USE ConstantsAssumption DEF TypeOK
  <2>r. NoRecord \in Record /\ CapturedRecord \in Record /\ PromotedRecord \in Record
    BY DEF Record, NoRecord, CapturedRecord, PromotedRecord, NoTtl, Keys
  <2>k. \A r \in Record : r.s3_key \in Keys \cup {"none"}
    BY DEF Record
  <2>1. ASSUME NEW i \in Ingests, Ingest(i) PROVE TypeOK'
    BY <2>1, <2>r DEF Ingest, IngestPutObject, IngestPutRecord, Write,
       promoters, downloads, table, Keys
  <2>2. ASSUME NEW p \in Promoters, LoadRecord(p) PROVE TypeOK'
    BY <2>2, <2>k DEF LoadRecord, Goto, Verdict, Readable, table, downloads
  <2>3. ASSUME NEW p \in Promoters, CopyObject(p) PROVE TypeOK'
    BY <2>3 DEF CopyObject, Goto, table, downloads, Keys
  <2>4. ASSUME NEW p \in Promoters, CommitPromotion(p) PROVE TypeOK'
    BY <2>4, <2>r DEF CommitPromotion, Goto, Write, table, downloads
  <2>5. ASSUME NEW p \in Promoters, Rollback(p) PROVE TypeOK'
    BY <2>5 DEF Rollback, Goto, table, downloads
  <2>6. ASSUME NEW p \in Promoters, DeleteSource(p) PROVE TypeOK'
    BY <2>6 DEF DeleteSource, Goto, table, downloads
  <2>7. ASSUME NEW p \in Promoters, Crash(p) PROVE TypeOK'
    BY <2>7 DEF Crash, Goto, table, downloads
  <2>8. ASSUME NEW d \in Downloaders, Download(d) PROVE TypeOK'
    <3>1. CASE DownloadLoad(d)
      BY <3>1, <2>k DEF DownloadLoad, Readable, table, promoters
    <3>2. CASE DownloadHead(d)
      BY <3>2 DEF DownloadHead, table, promoters
    <3> QED BY <2>8, <3>1, <3>2 DEF Download
  <2>9. CASE Storage
    BY <2>9, <2>r DEF Storage, Replicate, Tick, TtlSweep, LifecycleExpire, Write,
       table, promoters, downloads
  <2>10. CASE UNCHANGED vars
    BY <2>10 DEF vars, table, promoters, downloads
  <2> QED
    BY <2>1, <2>2, <2>3, <2>4, <2>5, <2>6, <2>7, <2>8, <2>9, <2>10 DEF Next, Promote
<1> QED BY <1>1, <1>2, PTL DEF Spec

-----------------------------------------------------------------------------
(* The handlers tell the three records apart by what they look at.         *)
LEMMA RecordFacts ==
  ASSUME TypeOK
  PROVE  /\ ~Exists(NoRecord) /\ Exists(CapturedRecord) /\ Exists(PromotedRecord)
         /\ ~NoRecord.promoted /\ ~CapturedRecord.promoted /\ PromotedRecord.promoted
         /\ NoRecord # CapturedRecord /\ NoRecord # PromotedRecord
         /\ CapturedRecord # PromotedRecord
         /\ CapturedRecord.s3_key = "security" /\ PromotedRecord.s3_key = "preserved"
         /\ ~IsExpired(NoRecord) /\ ~IsExpired(PromotedRecord)
         /\ IsExpired(CapturedRecord) <=> now >= Ttl
<1>1. NoRecord.s3_key = "none" /\ NoRecord.promoted = FALSE /\ NoRecord.ttl = 0
  BY DEF NoRecord, NoTtl
<1>2. /\ CapturedRecord.s3_key = "security" /\ CapturedRecord.promoted = FALSE
      /\ CapturedRecord.ttl = Ttl
  BY DEF CapturedRecord
<1>3. /\ PromotedRecord.s3_key = "preserved" /\ PromotedRecord.promoted = TRUE
      /\ PromotedRecord.ttl = 0
  BY DEF PromotedRecord, NoTtl
<1> QED
  BY <1>1, <1>2, <1>3, ConstantsAssumption DEF TypeOK, Exists, IsExpired, NoTtl

(* What a promotion decides from any record it may read.                   *)
LEMMA VerdictFacts ==
  ASSUME TypeOK
  PROVE  /\ Verdict(NoRecord) = "not_found"
         /\ Verdict(PromotedRecord) = "ok"
         /\ Verdict(CapturedRecord) \in {"copy", "not_found"}
BY RecordFacts DEF Verdict

LEMMA InitIInv == Init => IInv
<1> SUFFICES ASSUME Init PROVE IInv
  OBVIOUS
<1>1. TypeOK
  BY ConstantsAssumption DEF Init, TypeOK, Record, NoRecord, NoTtl, Keys
<1> QED
  BY <1>1, RecordFacts DEF Init, IInv, RecordShape, UploadFirst, ObjectOfRecord,
     PromoterInv, PromoterOK, OneAtATime, FreshReplica, InFlight

(* Each kind of step preserves the invariant.  TypeOK' is TypeCorrect's.   *)
LEMMA IngestStep ==
  ASSUME IInv, TypeOK', OneUpload, NEW i \in Ingests, Ingest(i)
  PROVE  IInv'
<1> USE DEF IInv
<1>u. UNCHANGED <<now, step, source>> /\ InFlight' = InFlight
  BY DEF Ingest, IngestPutObject, IngestPutRecord, promoters, InFlight
<1>1. CASE IngestPutObject(i)
  <2>1. /\ UNCHANGED <<record, replica>> /\ objects \subseteq objects'
        /\ \A j \in Ingests : ingest'[j] = "stored" => now = 0 /\ "security" \in objects'
        /\ \A j \in Ingests : ingest'[j] \in {"received", "stored"} =>
                ingest[j] \in {"received", "stored"}
    BY <1>1 DEF IngestPutObject, TypeOK, UploadFirst, table
  <2> QED
    BY <1>u, <2>1 DEF RecordShape, UploadFirst, ObjectOfRecord, PromoterInv, PromoterOK,
       OneAtATime, FreshReplica
<1>2. CASE IngestPutRecord(i)
  <2>1. /\ record = NoRecord /\ replica = NoRecord /\ InFlight = {}
        /\ now = 0 /\ "security" \in objects /\ objects' = objects
    BY <1>2 DEF IngestPutRecord, UploadFirst
  <2>2. \A j \in Ingests : ingest'[j] \notin {"received", "stored"}
    BY <1>2 DEF IngestPutRecord, OneUpload, TypeOK
  <2>3. record' \in {NoRecord, CapturedRecord} /\ replica' \in {NoRecord, CapturedRecord}
        /\ (~StaleReads => replica' = record')
    BY <1>2, <2>1 DEF IngestPutRecord, Write, table
  <2>4. \A p \in Promoters : step[p] \notin
          {"copy", "commit", "rollback", "cleanup", "ok"}
    BY <2>1, RecordFacts DEF PromoterInv, PromoterOK, InFlight
  <2> QED
    BY <1>u, <2>1, <2>2, <2>3, <2>4, RecordFacts DEF RecordShape, UploadFirst,
       ObjectOfRecord, PromoterInv, PromoterOK, OneAtATime, FreshReplica, InFlight
<1> QED BY <1>1, <1>2 DEF Ingest
LEMMA LoadStep ==
  ASSUME IInv, TypeOK', NEW p \in Promoters, LoadRecord(p)
  PROVE  IInv'
<1> USE DEF IInv
<1>u. UNCHANGED <<now, record, replica, objects, ingest>>
  BY DEF LoadRecord, table, downloads
<1>1. /\ step[p] = "called" /\ step'[p] \in {"copy", "ok", "not_found", "error"}
      /\ \A q \in Promoters \ {p} : step'[q] = step[q] /\ source'[q] = source[q]
  BY VerdictFacts DEF LoadRecord, Goto, TypeOK, RecordShape, Readable
<1>2. step'[p] = "copy" =>
        /\ source'[p] = "security"
        /\ record = CapturedRecord \/ replica = CapturedRecord
        /\ ~StaleReads => record # PromotedRecord
        /\ Serial => InFlight = {}
  BY VerdictFacts, RecordFacts DEF LoadRecord, Goto, TypeOK, RecordShape, Readable
<1>3. step'[p] = "ok" => record = PromotedRecord
  BY VerdictFacts, RecordFacts DEF LoadRecord, Goto, TypeOK, RecordShape, Readable
<1>4. InFlight' = IF step'[p] = "copy" THEN InFlight \cup {p} ELSE InFlight
  BY <1>1 DEF InFlight
<1>5. UploadFirst'
  <2>1. step'[p] = "copy" => \A i \in Ingests : ingest[i] \notin {"received", "stored"}
    BY <1>2, RecordFacts DEF UploadFirst
  <2> QED BY <1>u, <1>4, <2>1 DEF UploadFirst
<1>6. PromoterInv'
  <2>1. PromoterOK(p)'
    BY <1>u, <1>1, <1>2, <1>3 DEF PromoterOK, InFlight
  <2>2. ASSUME NEW q \in Promoters \ {p} PROVE PromoterOK(q)'
    BY <1>u, <1>1 DEF PromoterInv, PromoterOK, InFlight
  <2> QED BY <2>1, <2>2 DEF PromoterInv
<1>7. OneAtATime'
  BY <1>2, <1>4 DEF OneAtATime
<1> QED
  BY <1>u, <1>5, <1>6, <1>7 DEF RecordShape, ObjectOfRecord, FreshReplica

LEMMA CopyStep ==
  ASSUME IInv, TypeOK', NEW p \in Promoters, CopyObject(p)
  PROVE  IInv'
<1> USE DEF IInv
<1>u. UNCHANGED <<now, record, replica, ingest, source>> /\ objects \subseteq objects'
  BY DEF CopyObject, table, downloads
<1>1. /\ step[p] = "copy" /\ step'[p] \in {"commit", "error"}
      /\ \A q \in Promoters \ {p} : step'[q] = step[q]
      /\ step'[p] = "commit" => "preserved" \in objects'
  BY DEF CopyObject, Goto, TypeOK
<1>2. InFlight' \subseteq InFlight
  BY <1>1 DEF InFlight
<1>3. PromoterInv'
  BY <1>u, <1>1, <1>2 DEF PromoterInv, PromoterOK
<1> QED
  BY <1>u, <1>2, <1>3 DEF RecordShape, UploadFirst, ObjectOfRecord, OneAtATime,
     FreshReplica

LEMMA CommitStep ==
  ASSUME IInv, TypeOK', CommitIsClean, NEW p \in Promoters, CommitPromotion(p)
  PROVE  IInv'
<1> USE DEF IInv
<1>u. UNCHANGED <<now, objects, ingest, source>>
  BY DEF CommitPromotion, downloads
<1>1. /\ step[p] = "commit" /\ p \in InFlight
      /\ step'[p] \in {"cleanup", "rollback"}
      /\ \A q \in Promoters \ {p} : step'[q] = step[q]
      /\ InFlight' = InFlight
  BY DEF CommitPromotion, Goto, TypeOK, InFlight
<1>2. UploadFirst'
  <2>1. \A i \in Ingests : ingest[i] \notin {"received", "stored"}
    BY <1>1 DEF UploadFirst
  <2> QED BY <1>u, <2>1 DEF UploadFirst
<1>3. OneAtATime'
  BY <1>1 DEF OneAtATime
<1>4. CASE Exists(record) /\ Write(PromotedRecord) /\ Goto(p, "cleanup")
  <2>1. record' = PromotedRecord /\ "preserved" \in objects
    BY <1>1, <1>4, RecordFacts DEF Write, PromoterInv, PromoterOK
  <2>2. replica' \in {NoRecord, CapturedRecord, PromotedRecord}
        /\ (~StaleReads => replica' = record')
    BY <1>4 DEF Write, RecordShape
  <2>3. step'[p] = "cleanup"
    BY <1>4 DEF Goto, TypeOK
  <2>4. \A q \in Promoters \ {p} :
          /\ step[q] # "rollback"
          /\ Serial => q \notin InFlight
    BY <1>1, <1>4, RecordFacts DEF PromoterInv, PromoterOK, OneAtATime, InFlight
  <2>5. PromoterInv'
    BY <1>u, <1>1, <2>1, <2>3, <2>4, RecordFacts DEF PromoterInv, PromoterOK, InFlight
  <2> QED
    BY <1>u, <1>2, <1>3, <2>1, <2>2, <2>5, RecordFacts DEF RecordShape, ObjectOfRecord,
       FreshReplica
<1>5. CASE /\ ~Exists(record) \/ "commit" \in Faults
           /\ Goto(p, "rollback") /\ UNCHANGED table
  <2>1. UNCHANGED <<record, replica>> /\ step'[p] = "rollback"
    BY <1>5 DEF table, Goto, TypeOK
  <2>2. record = NoRecord \/ (Serial /\ record = CapturedRecord)
    BY <1>1, <1>5, RecordFacts DEF CommitIsClean, PromoterInv, PromoterOK, RecordShape
  <2>3. PromoterInv'
    BY <1>u, <1>1, <2>1, <2>2 DEF PromoterInv, PromoterOK
  <2> QED
    BY <1>u, <1>2, <1>3, <2>1, <2>3 DEF RecordShape, ObjectOfRecord, FreshReplica
<1> QED
  BY <1>4, <1>5 DEF CommitPromotion, CommitIsClean

LEMMA RollbackStep ==
  ASSUME IInv, TypeOK', NEW p \in Promoters, Rollback(p)
  PROVE  IInv'
<1> USE DEF IInv
<1>u. UNCHANGED <<now, record, replica, ingest, source>>
  BY DEF Rollback, table, downloads
<1>1. /\ step[p] = "rollback" /\ step'[p] = "error" /\ p \in InFlight
      /\ \A q \in Promoters \ {p} : step'[q] = step[q]
      /\ objects \ {"preserved"} \subseteq objects'
      /\ InFlight' \subseteq InFlight
  BY DEF Rollback, Goto, TypeOK, InFlight
<1>2. record = NoRecord \/ (Serial /\ record = CapturedRecord)
  BY <1>1 DEF PromoterInv, PromoterOK
<1>3. \A q \in Promoters \ {p} : step[q] = "commit" => record = NoRecord
  BY <1>1, <1>2 DEF OneAtATime, InFlight
<1>4. PromoterInv'
  BY <1>u, <1>1, <1>3 DEF PromoterInv, PromoterOK
<1>5. UploadFirst'
  BY <1>u, <1>1 DEF UploadFirst
<1> QED
  BY <1>u, <1>1, <1>2, <1>4, <1>5, RecordFacts DEF RecordShape, ObjectOfRecord,
     OneAtATime, FreshReplica

LEMMA DeleteSourceStep ==
  ASSUME IInv, TypeOK', NEW p \in Promoters, DeleteSource(p)
  PROVE  IInv'
<1> USE DEF IInv
<1>u. UNCHANGED <<now, record, replica, ingest, source>>
  BY DEF DeleteSource, table, downloads
<1>1. /\ step[p] = "cleanup" /\ step'[p] = "ok" /\ p \in InFlight
      /\ \A q \in Promoters \ {p} : step'[q] = step[q]
      /\ InFlight' \subseteq InFlight
  BY DEF DeleteSource, Goto, TypeOK, InFlight
<1>2. record = PromotedRecord /\ objects \ {"security"} \subseteq objects'
  BY <1>1 DEF DeleteSource, PromoterInv, PromoterOK
<1>3. PromoterInv'
  BY <1>u, <1>1, <1>2 DEF PromoterInv, PromoterOK
<1>4. UploadFirst'
  <2>1. \A i \in Ingests : ingest[i] \notin {"received", "stored"}
    BY <1>1 DEF UploadFirst
  <2> QED BY <1>u, <2>1 DEF UploadFirst
<1> QED
  BY <1>u, <1>1, <1>2, <1>3, <1>4, RecordFacts DEF RecordShape, ObjectOfRecord,
     OneAtATime, FreshReplica

LEMMA CrashStep ==
  ASSUME IInv, TypeOK', NEW p \in Promoters, Crash(p)
  PROVE  IInv'
<1> USE DEF IInv
<1>1. /\ UNCHANGED <<now, record, replica, objects, ingest, source>>
      /\ step'[p] = "crashed"
      /\ \A q \in Promoters \ {p} : step'[q] = step[q]
      /\ InFlight' \subseteq InFlight
  BY DEF Crash, Goto, table, downloads, TypeOK, InFlight
<1>2. PromoterInv'
  BY <1>1 DEF PromoterInv, PromoterOK
<1> QED
  BY <1>1, <1>2 DEF RecordShape, UploadFirst, ObjectOfRecord, OneAtATime, FreshReplica

LEMMA StorageStep ==
  ASSUME IInv, TypeOK', Storage
  PROVE  IInv'
<1> USE DEF IInv
<1>u. UNCHANGED <<ingest, step, source>> /\ InFlight' = InFlight
  BY DEF Storage, Replicate, Tick, TtlSweep, LifecycleExpire, promoters, InFlight
<1>1. CASE Replicate
  BY <1>u, <1>1 DEF Replicate, RecordShape, UploadFirst, ObjectOfRecord, PromoterInv,
     PromoterOK, OneAtATime, FreshReplica
<1>2. CASE Tick
  <2>1. UNCHANGED <<record, replica, objects>> /\ now' > now
        /\ \A i \in Ingests : ingest[i] # "stored"
    BY <1>2 DEF Tick, table, TypeOK
  <2>2. ObjectOfRecord'
    BY <2>1, ConstantsAssumption DEF ObjectOfRecord, TypeOK
  <2> QED
    BY <1>u, <2>1, <2>2 DEF RecordShape, UploadFirst, PromoterInv, PromoterOK,
       OneAtATime, FreshReplica
<1>3. CASE TtlSweep
  <2>1. record = CapturedRecord /\ record' = NoRecord /\ UNCHANGED <<now, objects>>
        /\ (replica' = replica \/ replica' = NoRecord)
        /\ (~StaleReads => replica' = record')
    BY <1>3, RecordFacts DEF TtlSweep, Write, RecordShape
  <2>2. \A i \in Ingests : ingest[i] \notin {"received", "stored"}
    BY <2>1, RecordFacts DEF UploadFirst
  <2> QED
    BY <1>u, <2>1, <2>2, RecordFacts DEF RecordShape, UploadFirst, ObjectOfRecord,
       PromoterInv, PromoterOK, OneAtATime, FreshReplica
<1>4. CASE LifecycleExpire
  <2>1. UNCHANGED <<now, record, replica>> /\ ~(now < Ttl) /\ now # 0
        /\ objects' = objects \ {"security"}
    BY <1>4, ConstantsAssumption DEF LifecycleExpire, table, TypeOK
  <2> QED
    BY <1>u, <2>1 DEF RecordShape, UploadFirst, ObjectOfRecord, PromoterInv, PromoterOK,
       OneAtATime, FreshReplica
<1> QED
  BY <1>1, <1>2, <1>3, <1>4 DEF Storage
-----------------------------------------------------------------------------
(* The invariant is inductive, under the two assumptions above.            *)
THEOREM Inductive ==
  ASSUME OneUpload, CommitIsClean
  PROVE  Spec => []IInv
<1>1. IInv /\ TypeOK' /\ [Next]_vars => IInv'
  <2> SUFFICES ASSUME IInv, TypeOK', [Next]_vars PROVE IInv'
    OBVIOUS
  <2>1. ASSUME NEW i \in Ingests, Ingest(i) PROVE IInv'
    BY <2>1, IngestStep
  <2>2. ASSUME NEW p \in Promoters, Promote(p) \/ Crash(p) PROVE IInv'
    BY <2>2, LoadStep, CopyStep, CommitStep, RollbackStep, DeleteSourceStep, CrashStep
       DEF Promote
  <2>3. ASSUME NEW d \in Downloaders, Download(d) PROVE IInv'
    <3>1. UNCHANGED <<now, table, objects, ingest, promoters>>
      BY <2>3 DEF Download, DownloadLoad, DownloadHead
    <3> QED
      BY <3>1 DEF IInv, RecordShape, UploadFirst, ObjectOfRecord, PromoterInv,
         PromoterOK, OneAtATime, FreshReplica, InFlight, table, promoters
  <2>4. CASE Storage
    BY <2>4, StorageStep
  <2>5. CASE UNCHANGED vars
    BY <2>5 DEF vars, IInv, RecordShape, UploadFirst, ObjectOfRecord, PromoterInv,
       PromoterOK, OneAtATime, FreshReplica, InFlight, table, promoters
  <2> QED BY <2>1, <2>2, <2>3, <2>4, <2>5 DEF Next
<1> QED BY <1>1, InitIInv, TypeCorrect, PTL DEF Spec

(* No client is ever shown a record whose object is gone: data.py and      *)
(* storage.py order their writes so that no interleaving breaks the link.  *)
THEOREM LinksResolve ==
  ASSUME OneUpload, CommitIsClean
  PROVE  Spec => []RecordedKeyResolves
<1>1. IInv => RecordedKeyResolves
  BY RecordFacts, ConstantsAssumption
     DEF IInv, RecordedKeyResolves, RecordShape, ObjectOfRecord, TypeOK
<1> QED BY <1>1, Inductive, PTL

(* A 200 from _handle_promote means the footage is, and stays, preserved.  *)
THEOREM SuccessIsKept ==
  ASSUME OneUpload, CommitIsClean
  PROVE  Spec => []AnsweredSuccessIsKept
<1>1. IInv => AnsweredSuccessIsKept
  BY RecordFacts DEF IInv, AnsweredSuccessIsKept, PromoterInv, PromoterOK, ObjectOfRecord
<1> QED BY <1>1, Inductive, PTL

-----------------------------------------------------------------------------
(* The snapshot as a client sees it, under the invariant.                  *)
StatusOfRecord ==
    /\ record = NoRecord => Status = "absent"
    /\ record = CapturedRecord => Status = "expiring"
    /\ record = PromotedRecord => Status = "preserved"

LEMMA StatusFacts == IInv => StatusOfRecord
BY RecordFacts DEF IInv, Status, ObjectOfRecord, StatusOfRecord

(* Copy, commit and delete of _handle_promote, run by any number of        *)
(* overlapping invocations, implement the atomic promotion of OohRetention. *)
THEOREM ImplementsRetention ==
  ASSUME OneUpload, CommitIsClean
  PROVE  Spec => KeepsPromise
<1>1. Init => Retention!Init
  BY InitIInv, StatusFacts DEF Init, StatusOfRecord, Retention!Init
<1>2. IInv' => StatusOfRecord'
  BY StatusFacts, PTL
<1>3. IInv /\ IInv' /\ [Next]_vars => [Retention!Next]_<<now, Status>>
  <2> SUFFICES ASSUME IInv, IInv', [Next]_vars
               PROVE  [Retention!Next]_<<now, Status>>
    OBVIOUS
  <2> USE DEF Retention!Next
  <2>s. StatusOfRecord /\ StatusOfRecord'
        /\ record \in {NoRecord, CapturedRecord, PromotedRecord}
    BY <1>2, StatusFacts DEF IInv, RecordShape
  <2> USE DEF StatusOfRecord
  <2>1. ASSUME UNCHANGED <<now, record>> PROVE UNCHANGED <<now, Status>>
    BY <2>1, <2>s
  <2>2. ASSUME NEW i \in Ingests, Ingest(i) PROVE [Retention!Next]_<<now, Status>>
    <3>1. CASE IngestPutRecord(i)
      BY <3>1, <2>s, <2>1
         DEF IngestPutRecord, IInv, UploadFirst, Write, table, Retention!Capture
    <3>2. CASE IngestPutObject(i)
      BY <3>2, <2>1 DEF IngestPutObject, table
    <3> QED BY <2>2, <3>1, <3>2 DEF Ingest
  <2>3. ASSUME NEW p \in Promoters, Promote(p) \/ Crash(p)
        PROVE  [Retention!Next]_<<now, Status>>
    <3>1. CASE CommitPromotion(p)
      BY <3>1, <2>s, <2>1, RecordFacts
         DEF IInv, CommitPromotion, Write, table, Retention!Promote
    <3>2. CASE LoadRecord(p) \/ CopyObject(p) \/ Rollback(p) \/ DeleteSource(p) \/ Crash(p)
      BY <3>2, <2>1 DEF LoadRecord, CopyObject, Rollback, DeleteSource, Crash, table
    <3> QED BY <2>3, <3>1, <3>2 DEF Promote
  <2>4. ASSUME NEW d \in Downloaders, Download(d) PROVE [Retention!Next]_<<now, Status>>
    BY <2>4, <2>1 DEF Download, DownloadLoad, DownloadHead, table
  <2>5. CASE Storage
    <3>1. CASE Tick
      BY <3>1, <2>s DEF Tick, table, Retention!Elapse
    <3>2. CASE TtlSweep
      BY <3>2, <2>s, RecordFacts DEF IInv, TtlSweep, Write, Retention!Expire
    <3>3. CASE Replicate \/ LifecycleExpire
      BY <3>3, <2>1 DEF Replicate, LifecycleExpire, table
    <3> QED BY <2>5, <3>1, <3>2, <3>3 DEF Storage
  <2>6. CASE UNCHANGED vars
    BY <2>6, <2>1 DEF vars, table
  <2> QED BY <2>2, <2>3, <2>4, <2>5, <2>6 DEF Next
<1> QED BY <1>1, <1>3, Inductive, PTL DEF Spec, KeepsPromise, Retention!Spec

-----------------------------------------------------------------------------
(* No copy without its record.  A CopyObject that is applied and reported  *)
(* as failed, a rollback that fails and a Lambda that is killed do leave   *)
(* one behind: the code has nothing that looks for it later.               *)
CopiesAreCleared == {"copy", "rollback", "crash"} \cap Faults = {}

(* The promotion that made the copy is still going to commit or remove it. *)
CopyIsOwned ==
    "preserved" \in objects /\ ~record.promoted =>
        \E p \in Promoters : step[p] \in {"commit", "rollback"}

LEMMA OwnedStep ==
  ASSUME OneUpload, CommitIsClean, CopiesAreCleared, IInv, TypeOK', CopyIsOwned, [Next]_vars
  PROVE  CopyIsOwned'
<1> USE DEF IInv
<1>1. ASSUME NEW i \in Ingests, Ingest(i) PROVE CopyIsOwned'
  <2>1. CASE IngestPutObject(i)
    BY <2>1 DEF IngestPutObject, table, promoters, CopyIsOwned
  <2>2. CASE IngestPutRecord(i)
    <3>1. record = NoRecord /\ InFlight = {} /\ UNCHANGED objects
      BY <2>2 DEF IngestPutRecord, UploadFirst
    <3>2. "preserved" \notin objects
      BY <3>1, RecordFacts DEF CopyIsOwned, InFlight
    <3> QED
      BY <3>1, <3>2 DEF CopyIsOwned
  <2> QED
    BY <1>1, <2>1, <2>2 DEF Ingest
<1>2. ASSUME NEW p \in Promoters, LoadRecord(p) PROVE CopyIsOwned'
  BY <1>2 DEF LoadRecord, Goto, table, downloads, TypeOK, CopyIsOwned
<1>3. ASSUME NEW p \in Promoters, CopyObject(p) PROVE CopyIsOwned'
  <2>1. \/ step'[p] = "commit"
        \/ UNCHANGED objects /\ \A q \in Promoters : step[q] # "copy" => step'[q] = step[q]
    BY <1>3 DEF CopyObject, Goto, TypeOK, CopiesAreCleared
  <2> QED
    BY <1>3, <2>1 DEF CopyObject, table, downloads, CopyIsOwned
<1>4. ASSUME NEW p \in Promoters, CommitPromotion(p) PROVE CopyIsOwned'
  <2>1. CASE Write(PromotedRecord)
    BY <2>1, RecordFacts DEF Write, CopyIsOwned
  <2>2. CASE Goto(p, "rollback")
    BY <2>2 DEF Goto, TypeOK, CopyIsOwned
  <2> QED
    BY <1>4, <2>1, <2>2 DEF CommitPromotion
<1>5. ASSUME NEW p \in Promoters, Rollback(p) PROVE CopyIsOwned'
  BY <1>5 DEF Rollback, CopiesAreCleared, CopyIsOwned
<1>6. ASSUME NEW p \in Promoters, DeleteSource(p) PROVE CopyIsOwned'
  BY <1>6, RecordFacts DEF DeleteSource, table, downloads, PromoterInv, PromoterOK, CopyIsOwned
<1>7. ASSUME NEW p \in Promoters, Crash(p) PROVE CopyIsOwned'
  BY <1>7 DEF Crash, CopiesAreCleared
<1>8. CASE Storage
  <2>1. /\ UNCHANGED step /\ objects' \subseteq objects
        /\ UNCHANGED record \/ (record # PromotedRecord /\ record \in {NoRecord, CapturedRecord})
    BY <1>8, RecordFacts DEF Storage, Replicate, Tick, TtlSweep, LifecycleExpire, table,
                             promoters, RecordShape
  <2> QED
    BY <2>1, RecordFacts DEF CopyIsOwned
<1>9. CASE UNCHANGED <<table, objects, promoters>>
  BY <1>9 DEF table, promoters, CopyIsOwned
<1>10. (\E d \in Downloaders : Download(d)) \/ UNCHANGED vars =>
          UNCHANGED <<table, objects, promoters>>
  BY DEF Download, DownloadLoad, DownloadHead, vars
<1> QED
  BY <1>1, <1>2, <1>3, <1>4, <1>5, <1>6, <1>7, <1>8, <1>9, <1>10 DEF Next, Promote

(* A failed promotion has taken its copy away again.                       *)
THEOREM CopiesHaveRecords ==
  ASSUME OneUpload, CommitIsClean, CopiesAreCleared
  PROVE  Spec => []NoOrphanCopy
<1>1. Init => CopyIsOwned
  BY DEF Init, CopyIsOwned
<1>2. IInv /\ TypeOK' /\ CopyIsOwned /\ [Next]_vars => CopyIsOwned'
  BY OwnedStep
<1>3. CopyIsOwned => NoOrphanCopy
  BY DEF CopyIsOwned, NoOrphanCopy, InFlight
<1> QED
  BY <1>1, <1>2, <1>3, Inductive, TypeCorrect, PTL DEF Spec

-----------------------------------------------------------------------------
(* A promoted snapshot can be downloaded                                   *)

(* The record is promoted once for all.                                    *)
LEMMA PromotedStays ==
  ASSUME IInv, [Next]_vars, record = PromotedRecord
  PROVE  record' = PromotedRecord
<1> USE RecordFacts DEF IInv
<1>1. ASSUME NEW i \in Ingests, Ingest(i) PROVE UNCHANGED record
  BY <1>1 DEF Ingest, IngestPutObject, IngestPutRecord, UploadFirst, table
<1>2. ASSUME NEW p \in Promoters, Promote(p) \/ Crash(p) PROVE record' = PromotedRecord
  BY <1>2 DEF Promote, Crash, LoadRecord, CopyObject, CommitPromotion, Rollback, DeleteSource,
              Write, table
<1>3. CASE Storage
  BY <1>3 DEF Storage, Replicate, Tick, TtlSweep, LifecycleExpire, table
<1> QED
  BY <1>1, <1>2, <1>3 DEF Next, Download, DownloadLoad, DownloadHead, vars, table

(* A download that began after the 200 has read the promoted record.       *)
DownloadOK(d) ==
    afterAck[d] =>
        record = PromotedRecord /\ get[d] \in {"head", "ok"} /\ link[d] = "preserved"

LEMMA DownloadStep ==
  ASSUME ~StaleReads, IInv, [Next]_vars, NEW d \in Downloaders, DownloadOK(d)
  PROVE  DownloadOK(d)'
<1>1. record = PromotedRecord => record' = PromotedRecord
  BY PromotedStays
<1>2. CASE UNCHANGED downloads
  BY <1>1, <1>2 DEF downloads, DownloadOK
<1>3. ASSUME NEW e \in Downloaders, DownloadLoad(e) PROVE DownloadOK(d)'
  <2>1. CASE e = d
    <3>1. /\ link'[d] = record.s3_key
          /\ get'[d] = IF Exists(record) /\ (record.promoted \/ ~IsExpired(record))
                       THEN "head" ELSE "not_found"
          /\ afterAck'[d] => \E p \in Promoters : step[p] = "ok"
      BY <1>3, <2>1 DEF DownloadLoad, Readable, IInv, TypeOK
    <3>2. afterAck'[d] => record = PromotedRecord
      BY <3>1 DEF IInv, PromoterInv, PromoterOK
    <3> QED
      BY <1>1, <3>1, <3>2, RecordFacts DEF IInv, DownloadOK
  <2>2. CASE e # d
    BY <1>1, <1>3, <2>2 DEF DownloadLoad, IInv, TypeOK, DownloadOK
  <2> QED
    BY <2>1, <2>2
<1>4. ASSUME NEW e \in Downloaders, DownloadHead(e) PROVE DownloadOK(d)'
  <2>1. CASE e = d
    <3>1. /\ UNCHANGED <<link, afterAck>>
          /\ get'[d] = IF link[d] \in objects THEN "ok" ELSE "not_found"
      BY <1>4, <2>1 DEF DownloadHead, IInv, TypeOK
    <3> QED
      BY <1>1, <3>1 DEF IInv, ObjectOfRecord, DownloadOK
  <2>2. CASE e # d
    BY <1>1, <1>4, <2>2 DEF DownloadHead, IInv, TypeOK, DownloadOK
  <2> QED
    BY <2>1, <2>2
<1> QED
  BY <1>2, <1>3, <1>4
  DEF Next, Ingest, IngestPutObject, IngestPutRecord, Promote, Crash, LoadRecord, CopyObject,
      CommitPromotion, Rollback, DeleteSource, Download, Storage, Replicate, Tick, TtlSweep,
      LifecycleExpire, vars

(* Whatever promotions, retries, crashes, the sweep and the lifecycle rule *)
(* do meanwhile, a download after the 200 finds the footage.  (A GetItem   *)
(* from a lagging replica may not: the download is then told there is no   *)
(* such snapshot.)                                                         *)
THEOREM PromotedDownloads ==
  ASSUME OneUpload, CommitIsClean, ~StaleReads
  PROVE  Spec => []PromotedIsDownloadable
<1> DEFINE AllOK == \A d \in Downloaders : DownloadOK(d)
<1>1. Init => AllOK
  BY DEF Init, DownloadOK
<1>2. IInv /\ AllOK /\ [Next]_vars => AllOK'
  BY DownloadStep
<1>3. AllOK => PromotedIsDownloadable
  BY DEF DownloadOK, PromotedIsDownloadable
<1> HIDE DEF AllOK
<1> QED
  BY <1>1, <1>2, <1>3, Inductive, PTL DEF Spec
=============================================================================
