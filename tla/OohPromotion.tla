---------------------------- MODULE OohPromotion ----------------------------
(***************************************************************************)
(* One out-of-hours snapshot: the OOH_IMG# record in the data table, the   *)
(* object the record names, and the invocations that touch them -- the     *)
(* out-of-hours branch of ingest, POST /v1/snapshots/out-of-hours/promote, *)
(* GET /v1/snapshots/out-of-hours/download -- next to the table's TTL      *)
(* sweep and the bucket's lifecycle rule.  Snapshots share no key, so one  *)
(* is enough.                                                              *)
(*                                                                         *)
(* An invocation runs on its own, and each remote call it makes (GetItem,  *)
(* PutItem, UpdateItem, CopyObject, DeleteObject, HeadObject) is one step. *)
(* The object key is determined by the prefix it is stored under, so a key *)
(* is "security" or "preserved".                                           *)
(***************************************************************************)
EXTENDS Naturals

CONSTANTS
    Ingests,      \* uploads of one camera that captured the same second
    Promoters,    \* promote invocations, retries included
    Downloaders,  \* download invocations
    Ttl,          \* _OUT_OF_HOURS_TTL_SECONDS, the 7 days, in ticks
    MaxTime,      \* bound on the clock
    Faults,       \* the remote calls that may fail, see AllFaults
    Serial,       \* TRUE: a promotion starts only when no other one runs
    StaleReads    \* TRUE: GetItem may answer from a lagging replica

(* "commit": UpdateItem fails and changes nothing.  "commit_reply_lost":   *)
(* it is applied, and every reply to it (the SDK's own retries included)   *)
(* is lost.  "crash": the Lambda is killed between two calls.              *)
AllFaults == {"put", "read", "copy", "commit", "commit_reply_lost",
              "rollback", "source_delete", "crash"}

ASSUME ConstantsAssumption ==
    /\ Ttl \in Nat \ {0} /\ MaxTime \in Nat
    /\ Faults \subseteq AllFaults
    /\ Serial \in BOOLEAN /\ StaleReads \in BOOLEAN

VARIABLES
    now,       \* time since the capture
    record,    \* the OOH_IMG# item
    replica,   \* what a lagging replica still answers for it
    objects,   \* the prefixes the snapshot is stored under
    ingest,    \* [Ingests -> step of the ingest invocation]
    step,      \* [Promoters -> step or answer of the promote invocation]
    source,    \* [Promoters -> source_key, the local variable]
    get,       \* [Downloaders -> step or answer of the download]
    link,      \* [Downloaders -> s3_key it read, the local variable]
    afterAck   \* [Downloaders -> it began after a promotion answered 200]

table  == <<record, replica>>
promoters == <<step, source>>
downloads == <<get, link, afterAck>>
vars == <<now, table, objects, ingest, promoters, downloads>>

-----------------------------------------------------------------------------
(* The record and the objects                                              *)

Keys   == {"security", "preserved"}
NoTtl  == 0
Record == [s3_key : Keys \cup {"none"}, promoted : BOOLEAN, ttl : {NoTtl, Ttl}]

NoRecord       == [s3_key |-> "none", promoted |-> FALSE, ttl |-> NoTtl]
MutantCapturedRecord == [s3_key |-> "security", promoted |-> FALSE, ttl |-> Ttl + 1]
CapturedRecord == [s3_key |-> "security", promoted |-> FALSE, ttl |-> Ttl]
MutantPromotedRecord == [s3_key |-> "preserved", promoted |-> TRUE, ttl |-> Ttl]
PromotedRecord == [s3_key |-> "preserved", promoted |-> TRUE, ttl |-> NoTtl]

Exists(r)    == r.s3_key # "none"
IsExpired(r) == r.ttl # NoTtl /\ r.ttl <= now

(* A write reaches the leader; the lagging replica follows in Replicate.   *)
Write(r) ==
    /\ record' = r
    /\ replica' = IF StaleReads THEN replica ELSE r

Readable == IF StaleReads THEN {record, replica} ELSE {record}

Replicate ==
    /\ replica # record
    /\ replica' = record
    /\ UNCHANGED <<now, record, objects, ingest, promoters, downloads>>

-----------------------------------------------------------------------------
(* ingest.py, the out-of-hours branch: the object first, then the record   *)

MutantPutRecordFirst(i) ==
    /\ ingest[i] = "received" /\ now = 0
    /\ Write(CapturedRecord)
    /\ ingest' = [ingest EXCEPT ![i] = "done"]
    /\ UNCHANGED <<now, objects, promoters, downloads>>

IngestPutObject(i) ==
    /\ ingest[i] = "received" /\ now = 0
    /\ \/ /\ objects' = objects \cup {"security"}
          /\ ingest' = [ingest EXCEPT ![i] = "stored"]
       \/ /\ "put" \in Faults
          /\ ingest' = [ingest EXCEPT ![i] = "failed"]
          /\ UNCHANGED objects
    /\ UNCHANGED <<now, table, promoters, downloads>>

IngestPutRecord(i) ==
    /\ ingest[i] = "stored"
    /\ \/ /\ Write(CapturedRecord)
          /\ ingest' = [ingest EXCEPT ![i] = "done"]
       \/ /\ "put" \in Faults
          /\ ingest' = [ingest EXCEPT ![i] = "failed"]
          /\ UNCHANGED table
    /\ UNCHANGED <<now, objects, promoters, downloads>>

-----------------------------------------------------------------------------
(* _handle_promote                                                         *)

InFlight == {p \in Promoters : step[p] \in {"copy", "commit", "rollback", "cleanup"}}

Goto(p, s) == step' = [step EXCEPT ![p] = s]

(* The checks on the record that was read, in the order of the handler.    *)
Verdict(r) ==
    IF ~Exists(r) THEN "not_found"
    ELSE IF r.promoted THEN "ok"
    ELSE IF IsExpired(r) THEN "not_found"
    ELSE "copy"

LoadRecord(p) ==
    /\ step[p] = "called"
    /\ Serial => InFlight = {}
    /\ \/ \E r \in Readable :
             /\ Goto(p, Verdict(r))
             /\ source' = [source EXCEPT ![p] = r.s3_key]
       \/ "read" \in Faults /\ Goto(p, "error") /\ UNCHANGED source
    /\ UNCHANGED <<now, table, objects, ingest, downloads>>

(* Step 1, copy_object: security/ -> preserved/, the original stays.       *)
CopyObject(p) ==
    /\ step[p] = "copy"
    /\ \/ /\ source[p] \in objects
          /\ objects' = objects \cup {"preserved"}
          /\ \/ Goto(p, "commit")
             \/ "copy" \in Faults /\ Goto(p, "error")
       \/ /\ source[p] \notin objects \/ "copy" \in Faults
          /\ Goto(p, "error")
          /\ UNCHANGED objects
    /\ UNCHANGED <<now, table, ingest, source, downloads>>

MutantCommitWithoutCondition(p) ==
    /\ step[p] = "commit"
    /\ Write(PromotedRecord)
    /\ Goto(p, "cleanup")
    /\ UNCHANGED <<now, objects, ingest, source, downloads>>

MutantCommitIgnoresFailure(p) ==
    /\ step[p] = "commit"
    /\ IF Exists(record) THEN Write(PromotedRecord) ELSE UNCHANGED table
    /\ Goto(p, "cleanup")
    /\ UNCHANGED <<now, objects, ingest, source, downloads>>

(* Step 2, promote_out_of_hours_record: UpdateItem on attribute_exists(SK). *)
CommitPromotion(p) ==
    /\ step[p] = "commit"
    /\ \/ /\ Exists(record)
          /\ Write(PromotedRecord)
          /\ \/ Goto(p, "cleanup")
             \/ "commit_reply_lost" \in Faults /\ Goto(p, "rollback")
       \/ /\ ~Exists(record) \/ "commit" \in Faults
          /\ Goto(p, "rollback")
          /\ UNCHANGED table
    /\ UNCHANGED <<now, objects, ingest, source, downloads>>

MutantNoRollback(p) ==
    /\ step[p] = "rollback"
    /\ Goto(p, "error")
    /\ UNCHANGED <<now, table, objects, ingest, source, downloads>>

(* The commit raised: delete the copy, whose own failure is only logged,   *)
(* and answer 500.                                                         *)
Rollback(p) ==
    /\ step[p] = "rollback"
    /\ Goto(p, "error")
    /\ \/ objects' = objects \ {"preserved"}
       \/ "rollback" \in Faults /\ UNCHANGED objects
    /\ UNCHANGED <<now, table, ingest, source, downloads>>

(* Step 3: delete the original; a failure is only logged.  Answer 200.     *)
DeleteSource(p) ==
    /\ step[p] = "cleanup"
    /\ Goto(p, "ok")
    /\ \/ objects' = objects \ {source[p]}
       \/ "source_delete" \in Faults /\ UNCHANGED objects
    /\ UNCHANGED <<now, table, ingest, source, downloads>>

Crash(p) ==
    /\ "crash" \in Faults
    /\ p \in InFlight
    /\ Goto(p, "crashed")
    /\ UNCHANGED <<now, table, objects, ingest, source, downloads>>

-----------------------------------------------------------------------------
(* _handle_download                                                        *)

DownloadLoad(d) ==
    /\ get[d] = "called"
    /\ \E r \in Readable :
          /\ link' = [link EXCEPT ![d] = r.s3_key]
          /\ get' = [get EXCEPT ![d] =
                IF Exists(r) /\ (r.promoted \/ ~IsExpired(r)) THEN "head" ELSE "not_found"]
    /\ afterAck' = [afterAck EXCEPT ![d] = \E p \in Promoters : step[p] = "ok"]
    /\ UNCHANGED <<now, table, objects, ingest, promoters>>

(* object_exists, then the presigned URL.                                  *)
DownloadHead(d) ==
    /\ get[d] = "head"
    /\ get' = [get EXCEPT ![d] = IF link[d] \in objects THEN "ok" ELSE "not_found"]
    /\ UNCHANGED <<now, table, objects, ingest, promoters, link, afterAck>>

-----------------------------------------------------------------------------
(* Time, and what the storage services do on their own                     *)

(* An upload lasts seconds: none is still running when the clock ticks.    *)
Tick ==
    /\ now < MaxTime
    /\ \A i \in Ingests : ingest[i] # "stored"
    /\ now' = now + 1
    /\ UNCHANGED <<table, objects, ingest, promoters, downloads>>

(* The table's TimeToLive removes an expired item, some time later.        *)
TtlSweep ==
    /\ Exists(record) /\ IsExpired(record)
    /\ Write(NoRecord)
    /\ UNCHANGED <<now, objects, ingest, promoters, downloads>>

(* Lifecycle rule ExpireOutOfHoursSnapshots on security/.                  *)
LifecycleExpire ==
    /\ "security" \in objects /\ now >= Ttl
    /\ objects' = objects \ {"security"}
    /\ UNCHANGED <<now, table, ingest, promoters, downloads>>

-----------------------------------------------------------------------------
Init ==
    /\ now = 0
    /\ record = NoRecord /\ replica = NoRecord
    /\ objects = {}
    /\ ingest = [i \in Ingests |-> "received"]
    /\ step = [p \in Promoters |-> "called"]
    /\ source = [p \in Promoters |-> "none"]
    /\ get = [d \in Downloaders |-> "called"]
    /\ link = [d \in Downloaders |-> "none"]
    /\ afterAck = [d \in Downloaders |-> FALSE]

Ingest(i)   == IngestPutObject(i) \/ IngestPutRecord(i)
Promote(p)  == \/ LoadRecord(p) \/ CopyObject(p) \/ CommitPromotion(p)
               \/ Rollback(p) \/ DeleteSource(p)
Download(d) == DownloadLoad(d) \/ DownloadHead(d)
Storage     == Replicate \/ Tick \/ TtlSweep \/ LifecycleExpire

Next ==
    \/ \E i \in Ingests : Ingest(i)
    \/ \E p \in Promoters : Promote(p) \/ Crash(p)
    \/ \E d \in Downloaders : Download(d)
    \/ Storage

Spec == Init /\ [][Next]_vars

(* A Lambda that has started runs on (a crash is a step of its own), time  *)
(* passes, and the services do expire what is due.  Nobody has to call.    *)
Fairness ==
    /\ \A p \in Promoters : WF_vars(step[p] # "called" /\ Promote(p))
    /\ \A i \in Ingests : WF_vars(IngestPutRecord(i))
    /\ WF_vars(Tick) /\ WF_vars(TtlSweep) /\ WF_vars(LifecycleExpire)

FairSpec == Spec /\ Fairness

-----------------------------------------------------------------------------
(* Properties                                                              *)

TypeOK ==
    /\ now \in Nat
    /\ record \in Record /\ replica \in Record
    /\ objects \subseteq Keys
    /\ ingest \in [Ingests -> {"received", "stored", "done", "failed"}]
    /\ step \in [Promoters -> {"called", "copy", "commit", "rollback", "cleanup",
                               "ok", "not_found", "error", "crashed"}]
    /\ source \in [Promoters -> Keys \cup {"none"}]
    /\ get \in [Downloaders -> {"called", "head", "ok", "not_found"}]
    /\ link \in [Downloaders -> Keys \cup {"none"}]
    /\ afterAck \in [Downloaders -> BOOLEAN]

(* A record that a client can still be shown names an object that is in    *)
(* the bucket: the order put-object/put-record of ingest and the order     *)
(* copy/commit/delete of a promotion never leave a broken link, whatever   *)
(* other promotions, sweeps and expiries do in between.                    *)
RecordedKeyResolves ==
    Exists(record) /\ ~IsExpired(record) => record.s3_key \in objects

(* A promotion that was answered 200, the "already promoted" answer        *)
(* included, has really saved the footage: the record is promoted and its  *)
(* copy under preserved/ is there, now and for ever after.                 *)
AnsweredSuccessIsKept ==
    \A p \in Promoters :
        step[p] = "ok" => record.promoted /\ "preserved" \in objects

(* When no promotion is running, a copy under preserved/ -- which no       *)
(* lifecycle rule ever removes -- belongs to a promoted record: a failed   *)
(* promotion has taken its copy away again.                                *)
NoOrphanCopy ==
    InFlight = {} /\ "preserved" \in objects => record.promoted

(* A download that began after a promotion was answered 200 does not       *)
(* answer 404: promoted footage stays downloadable while other promotions, *)
(* retries, the sweep and the lifecycle rule go on.                        *)
PromotedIsDownloadable ==
    \A d \in Downloaders : get[d] = "not_found" => ~afterAck[d]

(* The two stores together show one snapshot: the state a client would     *)
(* call it in, or "lost" when the record names nothing.                    *)
Status ==
    IF ~Exists(record) THEN "absent"
    ELSE IF ~record.promoted THEN "expiring"
    ELSE IF "preserved" \in objects THEN "preserved"
    ELSE "lost"

Retention == INSTANCE OohRetention WITH status <- Status

(* The handlers keep the promise of OohRetention: captured once, expired   *)
(* only after Ttl, and preserved for good from the commit on -- the        *)
(* three-step promotion looks atomic.                                      *)
KeepsPromise == Retention!Spec

(* In the end the footage is either kept -- record and copy -- or wholly   *)
(* erased: the 7-day rule leaves nothing of an unpromoted snapshot behind. *)
Kept   == record = PromotedRecord /\ "preserved" \in objects
Erased == record = NoRecord /\ objects = {}
EventuallyKeptOrErased == <>[](Kept \/ Erased)
=============================================================================
