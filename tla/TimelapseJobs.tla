--------------------------- MODULE TimelapseJobs ---------------------------
(***************************************************************************)
(* One timelapse job from POST /v1/timelapse-jobs to its end: the JOB#     *)
(* record, the SQS message and its deliveries to the render worker, the    *)
(* MP4 artifact, the footage it is made of, and a client polling           *)
(* GET /v1/timelapse-jobs/{job_id}.  Jobs share no key and no message.     *)
(*                                                                         *)
(* The queue delivers at least once: the SDK's retry of SendMessage may    *)
(* enqueue a second copy, and a delivery that raised, was killed or was    *)
(* not acknowledged comes back after the visibility timeout.  That timeout *)
(* (1800 s) exceeds the worker's own (300 s), so deliveries of one copy    *)
(* never overlap; deliveries of two copies do.  A step is one remote call. *)
(***************************************************************************)
EXTENDS Naturals

CONSTANTS
    Copies,       \* copies of the message SQS may hold
    MaxReceives,  \* maxReceiveCount of the redrive policy
    Faults        \* what may go wrong, see AllFaults

(* "store", "send": PutItem, SendMessage raises.  "duplicate": SendMessage *)
(* enqueues more than one copy.  "worker": a delivery raises or is killed. *)
(* "ack": the message outlives a delivery that made its last update: the   *)
(* reply to that update was lost, the Lambda was killed after it, or the   *)
(* deletion of the message failed.                                         *)
AllFaults == {"store", "send", "duplicate", "worker", "ack"}

ASSUME QueueAssumption == MaxReceives \in Nat \ {0} /\ Faults \subseteq AllFaults

VARIABLES
    submit,      \* the POST invocation: its step, then its answer
    job,         \* the JOB# item
    footage,     \* the camera's snapshots in the requested range
    queue,       \* [Copies -> where the copy is]
    receives,    \* [Copies -> how often it was received]
    step,        \* [Copies -> step of the worker it is delivered to]
    artifact,    \* the MP4 is in the bucket
    aged,        \* retention_days have passed
    poll,        \* the polling client: between its two calls, or its answer
    clean        \* no message was duplicated or outlived its acknowledgement

delivery == <<queue, receives, step>>
vars == <<submit, job, footage, delivery, artifact, aged, poll, clean>>

NoJob == [status |-> "none", artifact_key |-> FALSE, completed_at |-> 0]
QueuedJob == [NoJob EXCEPT !.status = "queued"]

Settled(j) == j.status \in {"complete", "failed"}

Busy == {"mark", "list", "fail", "render", "upload", "complete", "return"}

-----------------------------------------------------------------------------
(* timelapse_post: the record, then the message                            *)

(* list_img_records has found footage, and put_timelapse_job.              *)
StoreJob ==
    /\ submit = "called"
    /\ \/ footage # "gone" /\ job' = QueuedJob /\ submit' = "stored"
       \/ footage = "gone" /\ submit' = "not_found" /\ UNCHANGED job
       \/ "store" \in Faults /\ submit' = "error" /\ job' \in {NoJob, QueuedJob}
    /\ UNCHANGED <<footage, delivery, artifact, aged, poll, clean>>

(* _sqs_client().send_message; when it raises the record stays queued.     *)
SendMessage ==
    /\ submit = "stored"
    /\ \E sent \in SUBSET Copies :
          /\ sent # {} => \E c \in Copies : sent = {c} \/ "duplicate" \in Faults
          /\ queue' = [c \in Copies |-> IF c \in sent THEN "visible" ELSE "unsent"]
          /\ clean' = (clean /\ \A c, d \in sent : c = d)
          /\ \/ sent # {} /\ submit' = "accepted"
             \/ "send" \in Faults /\ submit' = "error"
    /\ UNCHANGED <<job, footage, receives, step, artifact, aged, poll>>

-----------------------------------------------------------------------------
(* The queue: event source mapping and redrive policy                      *)

MutantReceiveForever(c) ==
    /\ queue[c] = "visible"
    /\ queue' = [queue EXCEPT ![c] = "in_flight"]
    /\ receives' = [receives EXCEPT ![c] = @ + 1]
    /\ step' = [step EXCEPT ![c] = "mark"]
    /\ UNCHANGED <<submit, job, footage, artifact, aged, poll, clean>>

Receive(c) ==
    /\ queue[c] = "visible" /\ receives[c] < MaxReceives
    /\ queue' = [queue EXCEPT ![c] = "in_flight"]
    /\ receives' = [receives EXCEPT ![c] = @ + 1]
    /\ step' = [step EXCEPT ![c] = "mark"]
    /\ UNCHANGED <<submit, job, footage, artifact, aged, poll, clean>>

MutantNoRedrive(c) == FALSE /\ UNCHANGED vars

DeadLetter(c) ==
    /\ queue[c] = "visible" /\ receives[c] = MaxReceives
    /\ queue' = [queue EXCEPT ![c] = "dead"]
    /\ UNCHANGED <<submit, job, footage, receives, step, artifact, aged, poll, clean>>

GoBack(c) ==
    /\ queue' = [queue EXCEPT ![c] = "visible"]
    /\ step' = [step EXCEPT ![c] = "idle"]
    /\ UNCHANGED receives

-----------------------------------------------------------------------------
(* timelapse_worker._process_record                                        *)

Goto(c, s) ==
    /\ step' = [step EXCEPT ![c] = s]
    /\ UNCHANGED <<queue, receives>>

(* update_timelapse_job_status(..., processing): no condition on the status. *)
MarkProcessing(c) ==
    /\ step[c] = "mark"
    /\ job' = [job EXCEPT !.status = "processing"]
    /\ Goto(c, "list")
    /\ UNCHANGED <<submit, footage, artifact, aged, poll, clean>>

MutantListFramesReturns(c) ==
    /\ step[c] = "list"
    /\ Goto(c, IF footage = "gone" THEN "return" ELSE "render")
    /\ UNCHANGED <<submit, job, footage, artifact, aged, poll, clean>>

ListFrames(c) ==
    /\ step[c] = "list"
    /\ Goto(c, IF footage = "gone" THEN "fail" ELSE "render")
    /\ UNCHANGED <<submit, job, footage, artifact, aged, poll, clean>>

MutantFailRaises(c) ==
    /\ step[c] = "fail"
    /\ job' = [job EXCEPT !.status = "failed"]
    /\ GoBack(c)
    /\ UNCHANGED <<submit, footage, artifact, aged, poll, clean>>

(* No frames: failed, and the record handler returns normally.             *)
MarkFailed(c) ==
    /\ step[c] = "fail"
    /\ job' = [job EXCEPT !.status = "failed"]
    /\ Goto(c, "return")
    /\ UNCHANGED <<submit, footage, artifact, aged, poll, clean>>

MutantRenderSkipsUpload(c) ==
    /\ step[c] = "render" /\ footage = "present"
    /\ Goto(c, "complete")
    /\ UNCHANGED <<submit, job, footage, artifact, aged, poll, clean>>

(* Select, download, ffmpeg.  At least one frame must have come down.      *)
Render(c) ==
    /\ step[c] = "render"
    /\ IF footage = "present" THEN Goto(c, "upload") ELSE GoBack(c)
    /\ UNCHANGED <<submit, job, footage, artifact, aged, poll, clean>>

Upload(c) ==
    /\ step[c] = "upload"
    /\ artifact' = TRUE
    /\ Goto(c, "complete")
    /\ UNCHANGED <<submit, job, footage, aged, poll, clean>>

(* The time of a delivery is its number.                                   *)
DeliveryTime(c) == receives[c]

MutantMarkCompleteRestamps(c) ==
    /\ step[c] = "complete"
    /\ job' = [status |-> "complete", artifact_key |-> TRUE,
               completed_at |-> DeliveryTime(c)]
    /\ Goto(c, "return")
    /\ UNCHANGED <<submit, footage, artifact, aged, poll, clean>>

(* completed_at = if_not_exists(completed_at, :now)                        *)
MarkComplete(c) ==
    /\ step[c] = "complete"
    /\ job' = [status |-> "complete", artifact_key |-> TRUE,
               completed_at |-> IF job.completed_at = 0 THEN DeliveryTime(c)
                                ELSE job.completed_at]
    /\ Goto(c, "return")
    /\ UNCHANGED <<submit, footage, artifact, aged, poll, clean>>

(* The record handler returned: no batch item failure, the message goes.   *)
Acknowledge(c) ==
    /\ step[c] = "return"
    /\ \/ /\ queue' = [queue EXCEPT ![c] = "deleted"]
          /\ step' = [step EXCEPT ![c] = "idle"]
          /\ UNCHANGED <<receives, clean>>
       \/ "ack" \in Faults /\ GoBack(c) /\ clean' = FALSE
    /\ UNCHANGED <<submit, job, footage, artifact, aged, poll>>

(* Any call of the delivery raises, or the Lambda times out.               *)
WorkerFails(c) ==
    /\ "worker" \in Faults
    /\ step[c] \in Busy \ {"return"}
    /\ GoBack(c)
    /\ UNCHANGED <<submit, job, footage, artifact, aged, poll, clean>>

-----------------------------------------------------------------------------
(* timelapse_get and build_download_fields                                 *)

PollLoad ==
    /\ poll # "head"
    /\ poll' = IF job.status = "none" THEN "not_found"
               ELSE IF job.status = "complete" THEN "head"
               ELSE job.status
    /\ UNCHANGED <<submit, job, footage, delivery, artifact, aged, clean>>

PollHead ==
    /\ poll = "head"
    /\ poll' = IF artifact THEN "download_url" ELSE "artifact_unavailable"
    /\ UNCHANGED <<submit, job, footage, delivery, artifact, aged, clean>>

-----------------------------------------------------------------------------
(* snapshots_delete removes the objects, then the records; after           *)
(* retention_days, more than SQS keeps a message, the lifecycle rule takes *)
(* the artifact and the TTL sweep the record, in either order.             *)

DeleteFootage ==
    /\ \/ footage = "present" /\ footage' = "objects_lost"
       \/ footage = "objects_lost" /\ footage' = "gone"
    /\ UNCHANGED <<submit, job, delivery, artifact, aged, poll, clean>>

Age ==
    /\ ~aged /\ submit \in {"accepted", "error"}
    /\ \A c \in Copies : queue[c] \notin {"visible", "in_flight"}
    /\ aged' = TRUE
    /\ UNCHANGED <<submit, job, footage, delivery, artifact, poll, clean>>

ExpireRecord ==
    /\ aged /\ job # NoJob
    /\ job' = NoJob
    /\ UNCHANGED <<submit, footage, delivery, artifact, aged, poll, clean>>

ExpireArtifact ==
    /\ aged /\ artifact
    /\ artifact' = FALSE
    /\ UNCHANGED <<submit, job, footage, delivery, aged, poll, clean>>

-----------------------------------------------------------------------------
Init ==
    /\ submit = "called" /\ job = NoJob /\ footage = "present"
    /\ queue = [c \in Copies |-> "unsent"]
    /\ receives = [c \in Copies |-> 0]
    /\ step = [c \in Copies |-> "idle"]
    /\ artifact = FALSE /\ aged = FALSE
    /\ poll = "not_found" /\ clean = TRUE

Work(c) ==
    \/ MarkProcessing(c) \/ ListFrames(c) \/ MarkFailed(c) \/ Render(c)
    \/ Upload(c) \/ MarkComplete(c) \/ Acknowledge(c)

Queue(c) == Receive(c) \/ DeadLetter(c)

Next ==
    \/ StoreJob \/ SendMessage
    \/ \E c \in Copies : Queue(c) \/ Work(c) \/ WorkerFails(c)
    \/ PollLoad \/ PollHead
    \/ DeleteFootage \/ Age \/ ExpireRecord \/ ExpireArtifact

Spec == Init /\ [][Next]_vars

(* SQS keeps delivering, a Lambda that runs goes on to its next step.      *)
Fairness ==
    /\ WF_vars(SendMessage)
    /\ \A c \in Copies : WF_vars(Queue(c)) /\ WF_vars(Work(c))

FairSpec == Spec /\ Fairness

-----------------------------------------------------------------------------
(* Properties                                                              *)

TypeOK ==
    /\ submit \in {"called", "stored", "accepted", "not_found", "error"}
    /\ job \in [status : {"none", "queued", "processing", "complete", "failed"},
                artifact_key : BOOLEAN, completed_at : Nat]
    /\ footage \in {"present", "objects_lost", "gone"}
    /\ queue \in [Copies -> {"unsent", "visible", "in_flight", "deleted", "dead"}]
    /\ receives \in [Copies -> 0..MaxReceives]
    /\ step \in [Copies -> Busy \cup {"idle"}]
    /\ artifact \in BOOLEAN /\ aged \in BOOLEAN /\ clean \in BOOLEAN
    /\ poll \in {"head", "not_found", "queued", "processing", "failed",
                 "download_url", "artifact_unavailable"}

(* Until retention is over, a job that reads complete has its artifact in  *)
(* the bucket and names it -- however many deliveries rendered it, and     *)
(* wherever one of them died.                                              *)
CompleteHasArtifact ==
    job.status = "complete" /\ ~aged => artifact /\ job.artifact_key

(* A client is told that the artifact of a complete job is not available   *)
(* only when it has expired (api_handover, "artifact_available").          *)
UnavailableOnlyExpired == poll = "artifact_unavailable" => aged

(* complete and failed are final as long as every message was enqueued     *)
(* once and its acknowledgement was not lost: a retry that SQS makes for a *)
(* failed delivery never reopens a settled job.  And completed_at, once    *)
(* stamped, is moved by no delivery, of the same copy or of a duplicate    *)
(* (data.py, Req 6.2).                                                     *)
SettledIsFinal ==
    [][ /\ Settled(job) /\ clean /\ job' # NoJob => job'.status = job.status
        /\ job.completed_at # 0 /\ job' # NoJob =>
             job'.completed_at = job.completed_at ]_vars

(* When SQS has nothing left to deliver and dead-lettered nothing, the job *)
(* has settled: no order of deliveries leaves it queued or processing.     *)
DrainedIsSettled ==
    /\ \A c \in Copies : queue[c] \in {"unsent", "deleted"}
    /\ \E c \in Copies : queue[c] = "deleted"
    => Settled(job) \/ aged

(* Every accepted job drains: its messages end up deleted or dead.         *)
EveryMessageDrains ==
    submit = "accepted" ~> \A c \in Copies : queue[c] \in {"unsent", "deleted", "dead"}
=============================================================================
