------------------------ MODULE TimelapseJobsProofs ------------------------
(***************************************************************************)
(* Proofs about TimelapseJobs, for any number of copies of the message,    *)
(* any redrive limit and whatever goes wrong.                              *)
(***************************************************************************)
EXTENDS TimelapseJobs, TLAPS

-----------------------------------------------------------------------------
(* The inductive invariant                                                 *)

(* A copy is in flight exactly while a worker has it.                      *)
InFlightIsBusy == \A c \in Copies : queue[c] = "in_flight" <=> step[c] # "idle"

(* Nothing is enqueued before the POST has stored the record.              *)
StoredFirst ==
    /\ submit \in {"called", "stored", "not_found"} => \A c \in Copies : queue[c] = "unsent"
    /\ submit = "called" => job = NoJob
    /\ submit = "stored" => job = QueuedJob

(* Retention is longer than SQS keeps a message.                           *)
AgedIsQuiet ==
    aged => /\ submit \in {"accepted", "error"}
            /\ \A c \in Copies : queue[c] \in {"unsent", "deleted", "dead"}

(* Whoever is about to say, or has read, "complete" can rely on the MP4.   *)
ArtifactFirst ==
    /\ job.status = "complete" => job.artifact_key /\ (artifact \/ aged)
    /\ \A c \in Copies : step[c] = "complete" => artifact
    /\ poll = "head" => artifact \/ aged
    /\ poll = "artifact_unavailable" => aged

(* While the job has not settled somebody still has it, or it is lost to   *)
(* the dead-letter queue.                                                  *)
Owes(c) == queue[c] \in {"visible", "dead"} \/ step[c] \in Busy \ {"return"}

UnsettledIsOwed ==
    ~Settled(job) /\ ~aged /\ (\E c \in Copies : queue[c] # "unsent")
        => \E c \in Copies : Owes(c)

(* Without a duplicate or a lost acknowledgement there is one copy, and a  *)
(* settled job is what its last delivery made of it.                       *)
OneCopyOnce ==
    clean => /\ \A c, d \in Copies : queue[c] # "unsent" /\ queue[d] # "unsent" => c = d
             /\ Settled(job) => \A c \in Copies :
                    queue[c] \in {"unsent", "deleted"} \/ step[c] = "return"

IInv == TypeOK /\ InFlightIsBusy /\ StoredFirst /\ AgedIsQuiet /\ ArtifactFirst
        /\ UnsettledIsOwed /\ OneCopyOnce

-----------------------------------------------------------------------------
(* The states a delivery can be in, in one place for the lemmas below.     *)
JobRecord == [status : {"none", "queued", "processing", "complete", "failed"},
              artifact_key : BOOLEAN, completed_at : Nat]

LEMMA JobFacts ==
    /\ NoJob.status = "none" /\ QueuedJob.status = "queued"
    /\ NoJob.completed_at = 0 /\ QueuedJob.completed_at = 0
    /\ ~Settled(NoJob) /\ ~Settled(QueuedJob) /\ NoJob # QueuedJob
    /\ NoJob \in JobRecord /\ QueuedJob \in JobRecord
<1>1. NoJob = [status |-> "none", artifact_key |-> FALSE, completed_at |-> 0]
  BY DEF NoJob
<1>2. QueuedJob = [status |-> "queued", artifact_key |-> FALSE, completed_at |-> 0]
  <2>1. QueuedJob = [[status |-> "none", artifact_key |-> FALSE, completed_at |-> 0]
                        EXCEPT !.status = "queued"]
    BY <1>1, Zenon DEF QueuedJob
  <2> QED
    BY <2>1
<1>3. NoJob \in JobRecord
  BY <1>1 DEF JobRecord
<1>4. QueuedJob \in JobRecord
  BY <1>2 DEF JobRecord
<1> HIDE DEF NoJob, QueuedJob
<1>5. NoJob.status = "none" /\ NoJob.completed_at = 0
  BY <1>1
<1>6. QueuedJob.status = "queued" /\ QueuedJob.completed_at = 0
  BY <1>2
<1> QED
  BY <1>3, <1>4, <1>5, <1>6 DEF Settled

(* Every variable keeps its type.                                          *)
LEMMA TypeStep == TypeOK /\ [Next]_vars => TypeOK'
<1> SUFFICES ASSUME TypeOK, [Next]_vars PROVE TypeOK'
  OBVIOUS
<1> USE QueueAssumption, JobFacts DEF TypeOK, Busy
<1>1. CASE StoreJob
  BY <1>1 DEF StoreJob, delivery, JobRecord
<1>2. CASE SendMessage
  BY <1>2 DEF SendMessage
<1>3. ASSUME NEW c \in Copies, Queue(c) PROVE TypeOK'
  BY <1>3 DEF Queue, Receive, DeadLetter
<1>4. ASSUME NEW c \in Copies, Work(c) PROVE TypeOK'
  <2>1. CASE MarkProcessing(c) \/ MarkFailed(c)
    BY <2>1 DEF MarkProcessing, MarkFailed, Goto
  <2>2. CASE ListFrames(c) \/ Render(c) \/ Upload(c)
    BY <2>2 DEF ListFrames, Render, Upload, Goto, GoBack
  <2>3. CASE MarkComplete(c)
    <3>1. /\ receives[c] \in Nat /\ job.completed_at \in Nat
          /\ job' = [status |-> "complete", artifact_key |-> TRUE,
                     completed_at |-> IF job.completed_at = 0 THEN receives[c]
                                      ELSE job.completed_at]
      BY <2>3 DEF MarkComplete, DeliveryTime
    <3>2. job' \in JobRecord
      BY <3>1 DEF JobRecord
    <3> QED
      BY <2>3, <3>2 DEF MarkComplete, Goto, JobRecord
  <2>4. CASE Acknowledge(c)
    <3>1. clean' \in BOOLEAN
      BY <2>4, Zenon DEF Acknowledge
    <3>2. CASE queue' = [queue EXCEPT ![c] = "deleted"]
      BY <2>4, <3>1, <3>2 DEF Acknowledge, GoBack
    <3>3. CASE queue' = [queue EXCEPT ![c] = "visible"]
      BY <2>4, <3>1, <3>3 DEF Acknowledge, GoBack
    <3> QED
      BY <2>4, <3>2, <3>3 DEF Acknowledge, GoBack
  <2> QED
    BY <1>4, <2>1, <2>2, <2>3, <2>4 DEF Work
<1>5. ASSUME NEW c \in Copies, WorkerFails(c) PROVE TypeOK'
  BY <1>5 DEF WorkerFails, GoBack
<1>6. CASE PollLoad \/ PollHead
  BY <1>6 DEF PollLoad, PollHead, delivery
<1>7. CASE DeleteFootage \/ Age \/ ExpireRecord \/ ExpireArtifact
  BY <1>7 DEF DeleteFootage, Age, ExpireRecord, ExpireArtifact, delivery, JobRecord
<1>8. CASE UNCHANGED vars
  BY <1>8 DEF vars, delivery
<1> QED
  BY <1>1, <1>2, <1>3, <1>4, <1>5, <1>6, <1>7, <1>8 DEF Next

LEMMA Start == Init => IInv
<1> SUFFICES ASSUME Init PROVE IInv
  OBVIOUS
<1> USE JobFacts DEF Init
<1>1. 0 \in 0..MaxReceives
  BY QueueAssumption
<1>2. TypeOK
  BY <1>1 DEF TypeOK, JobRecord
<1> QED
  BY <1>2 DEF IInv, InFlightIsBusy, StoredFirst, AgedIsQuiet, ArtifactFirst, UnsettledIsOwed,
              OneCopyOnce

LEMMA SubmitKeeps == IInv /\ (StoreJob \/ SendMessage) /\ TypeOK' => IInv'
<1> SUFFICES ASSUME IInv, StoreJob \/ SendMessage, TypeOK' PROVE IInv'
  OBVIOUS
<1> USE JobFacts DEF IInv, TypeOK
<1>1. CASE StoreJob
  BY <1>1 DEF StoreJob, delivery, InFlightIsBusy, StoredFirst, AgedIsQuiet, ArtifactFirst,
              UnsettledIsOwed, OneCopyOnce
<1>2. CASE SendMessage
  BY <1>2 DEF SendMessage, InFlightIsBusy, StoredFirst, AgedIsQuiet, ArtifactFirst,
              UnsettledIsOwed, OneCopyOnce, Owes
<1> QED
  BY <1>1, <1>2

LEMMA QueueKeeps == ASSUME IInv, NEW c \in Copies, Queue(c), TypeOK' PROVE IInv'
<1> USE DEF IInv, TypeOK, Busy
<1>1. CASE Receive(c)
  BY <1>1 DEF Receive, InFlightIsBusy, StoredFirst, AgedIsQuiet, ArtifactFirst,
              UnsettledIsOwed, OneCopyOnce, Owes
<1>2. CASE DeadLetter(c)
  BY <1>2 DEF DeadLetter, InFlightIsBusy, StoredFirst, AgedIsQuiet, ArtifactFirst,
              UnsettledIsOwed, OneCopyOnce, Owes
<1> QED
  BY <1>1, <1>2 DEF Queue

LEMMA MarkProcessingKeeps == ASSUME IInv, NEW c \in Copies, MarkProcessing(c), TypeOK' PROVE IInv'
<1> USE DEF IInv, TypeOK, Busy, MarkProcessing, Goto
<1>1. InFlightIsBusy'
  BY DEF InFlightIsBusy
<1>2. StoredFirst'
  BY DEF StoredFirst, InFlightIsBusy
<1>3. AgedIsQuiet'
  BY DEF AgedIsQuiet, InFlightIsBusy
<1>4. ArtifactFirst'
  BY DEF ArtifactFirst
<1>5. UnsettledIsOwed'
  BY DEF UnsettledIsOwed, Owes, InFlightIsBusy, Settled
<1>6. OneCopyOnce'
  BY DEF OneCopyOnce, InFlightIsBusy, Settled
<1> QED
  BY <1>1, <1>2, <1>3, <1>4, <1>5, <1>6

LEMMA ListFramesKeeps == ASSUME IInv, NEW c \in Copies, ListFrames(c), TypeOK' PROVE IInv'
<1> USE DEF IInv, TypeOK, Busy, ListFrames, Goto
<1>1. InFlightIsBusy'
  BY DEF InFlightIsBusy
<1>2. StoredFirst'
  BY DEF StoredFirst, InFlightIsBusy
<1>3. AgedIsQuiet'
  BY DEF AgedIsQuiet, InFlightIsBusy
<1>4. ArtifactFirst'
  BY DEF ArtifactFirst
<1>5. UnsettledIsOwed'
  BY DEF UnsettledIsOwed, Owes, InFlightIsBusy, Settled
<1>6. OneCopyOnce'
  BY DEF OneCopyOnce, InFlightIsBusy, Settled
<1> QED
  BY <1>1, <1>2, <1>3, <1>4, <1>5, <1>6

LEMMA MarkFailedKeeps == ASSUME IInv, NEW c \in Copies, MarkFailed(c), TypeOK' PROVE IInv'
<1> USE DEF IInv, TypeOK, Busy, MarkFailed, Goto
<1>1. InFlightIsBusy'
  BY DEF InFlightIsBusy
<1>2. StoredFirst'
  BY DEF StoredFirst, InFlightIsBusy
<1>3. AgedIsQuiet'
  BY DEF AgedIsQuiet, InFlightIsBusy
<1>4. ArtifactFirst'
  BY DEF ArtifactFirst
<1>5. UnsettledIsOwed'
  BY DEF UnsettledIsOwed, Owes, InFlightIsBusy, Settled
<1>6. OneCopyOnce'
  BY DEF OneCopyOnce, InFlightIsBusy, Settled
<1> QED
  BY <1>1, <1>2, <1>3, <1>4, <1>5, <1>6

LEMMA RenderKeeps == ASSUME IInv, NEW c \in Copies, Render(c), TypeOK' PROVE IInv'
<1> USE DEF IInv, TypeOK, Busy, Render, Goto, GoBack
<1>1. InFlightIsBusy'
  BY DEF InFlightIsBusy
<1>2. StoredFirst'
  BY DEF StoredFirst, InFlightIsBusy
<1>3. AgedIsQuiet'
  BY DEF AgedIsQuiet, InFlightIsBusy
<1>4. ArtifactFirst'
  BY DEF ArtifactFirst
<1>5. UnsettledIsOwed'
  BY DEF UnsettledIsOwed, Owes, InFlightIsBusy, Settled
<1>6. OneCopyOnce'
  BY DEF OneCopyOnce, InFlightIsBusy, Settled
<1> QED
  BY <1>1, <1>2, <1>3, <1>4, <1>5, <1>6

LEMMA UploadKeeps == ASSUME IInv, NEW c \in Copies, Upload(c), TypeOK' PROVE IInv'
<1> USE DEF IInv, TypeOK, Busy, Upload, Goto
<1>1. InFlightIsBusy'
  BY DEF InFlightIsBusy
<1>2. StoredFirst'
  BY DEF StoredFirst, InFlightIsBusy
<1>3. AgedIsQuiet'
  BY DEF AgedIsQuiet, InFlightIsBusy
<1>4. ArtifactFirst'
  BY DEF ArtifactFirst
<1>5. UnsettledIsOwed'
  BY DEF UnsettledIsOwed, Owes, InFlightIsBusy, Settled
<1>6. OneCopyOnce'
  BY DEF OneCopyOnce, InFlightIsBusy, Settled
<1> QED
  BY <1>1, <1>2, <1>3, <1>4, <1>5, <1>6

LEMMA MarkCompleteKeeps == ASSUME IInv, NEW c \in Copies, MarkComplete(c), TypeOK' PROVE IInv'
<1> USE DEF IInv, TypeOK, Busy, MarkComplete, Goto
<1>1. InFlightIsBusy'
  BY DEF InFlightIsBusy
<1>2. StoredFirst'
  BY DEF StoredFirst, InFlightIsBusy
<1>3. AgedIsQuiet'
  BY DEF AgedIsQuiet, InFlightIsBusy
<1>4. ArtifactFirst'
  BY DEF ArtifactFirst
<1>5. UnsettledIsOwed'
  BY DEF UnsettledIsOwed, Owes, InFlightIsBusy, Settled
<1>6. OneCopyOnce'
  BY DEF OneCopyOnce, InFlightIsBusy, Settled
<1> QED
  BY <1>1, <1>2, <1>3, <1>4, <1>5, <1>6

LEMMA AcknowledgeKeeps == ASSUME IInv, NEW c \in Copies, Acknowledge(c), TypeOK' PROVE IInv'
<1> USE DEF IInv, TypeOK, Busy, Acknowledge, GoBack
<1>1. InFlightIsBusy'
  BY DEF InFlightIsBusy
<1>2. StoredFirst'
  BY DEF StoredFirst, InFlightIsBusy
<1>3. AgedIsQuiet'
  BY DEF AgedIsQuiet, InFlightIsBusy
<1>4. ArtifactFirst'
  BY DEF ArtifactFirst
<1>5. UnsettledIsOwed'
  BY DEF UnsettledIsOwed, Owes, InFlightIsBusy, Settled
<1>6. OneCopyOnce'
  BY DEF OneCopyOnce, InFlightIsBusy, Settled
<1> QED
  BY <1>1, <1>2, <1>3, <1>4, <1>5, <1>6

LEMMA WorkerFailsKeeps == ASSUME IInv, NEW c \in Copies, WorkerFails(c), TypeOK' PROVE IInv'
<1> USE DEF IInv, TypeOK, Busy, WorkerFails, GoBack
<1>1. InFlightIsBusy'
  BY DEF InFlightIsBusy
<1>2. StoredFirst'
  BY DEF StoredFirst, InFlightIsBusy
<1>3. AgedIsQuiet'
  BY DEF AgedIsQuiet, InFlightIsBusy
<1>4. ArtifactFirst'
  BY DEF ArtifactFirst
<1>5. UnsettledIsOwed'
  BY DEF UnsettledIsOwed, Owes, InFlightIsBusy, Settled
<1>6. OneCopyOnce'
  BY DEF OneCopyOnce, InFlightIsBusy, Settled
<1> QED
  BY <1>1, <1>2, <1>3, <1>4, <1>5, <1>6

LEMMA OthersKeep ==
    ASSUME IInv, TypeOK',
           \/ PollLoad \/ PollHead \/ DeleteFootage \/ Age \/ ExpireRecord \/ ExpireArtifact
           \/ UNCHANGED vars
    PROVE  IInv'
<1> USE JobFacts DEF IInv, TypeOK
<1>1. CASE PollLoad \/ PollHead
  BY <1>1 DEF PollLoad, PollHead, delivery, InFlightIsBusy, StoredFirst, AgedIsQuiet,
              ArtifactFirst, UnsettledIsOwed, Owes, OneCopyOnce
<1>2. CASE DeleteFootage \/ Age
  BY <1>2 DEF DeleteFootage, Age, delivery, InFlightIsBusy, StoredFirst, AgedIsQuiet,
              ArtifactFirst, UnsettledIsOwed, Owes, OneCopyOnce
<1>3. CASE ExpireRecord \/ ExpireArtifact
  BY <1>3 DEF ExpireRecord, ExpireArtifact, delivery, InFlightIsBusy, StoredFirst, AgedIsQuiet,
              ArtifactFirst, UnsettledIsOwed, Owes, OneCopyOnce
<1>4. CASE UNCHANGED vars
  BY <1>4 DEF vars, delivery, InFlightIsBusy, StoredFirst, AgedIsQuiet,
              ArtifactFirst, UnsettledIsOwed, Owes, OneCopyOnce
<1> QED
  BY <1>1, <1>2, <1>3, <1>4

LEMMA Step == IInv /\ [Next]_vars => IInv'
<1> SUFFICES ASSUME IInv, [Next]_vars PROVE IInv'
  OBVIOUS
<1>1. TypeOK'
  BY TypeStep DEF IInv
<1>2. ASSUME NEW c \in Copies, Queue(c) \/ Work(c) \/ WorkerFails(c) PROVE IInv'
  BY <1>1, <1>2, QueueKeeps, MarkProcessingKeeps, ListFramesKeeps, MarkFailedKeeps,
     RenderKeeps, UploadKeeps, MarkCompleteKeeps, AcknowledgeKeeps, WorkerFailsKeeps DEF Work
<1> QED
  BY <1>1, <1>2, SubmitKeeps, OthersKeep DEF Next

-----------------------------------------------------------------------------
(* Every variable keeps its type, whatever goes wrong.                     *)
THEOREM TypeCorrect == Spec => []TypeOK
<1>1. Init => TypeOK
  BY Start DEF IInv
<1> QED
  BY <1>1, TypeStep, PTL DEF Spec

(* All of it holds throughout.                                             *)
THEOREM Inductive == Spec => []IInv
BY Start, Step, PTL DEF Spec

(* A job that reads complete has its MP4 until retention is over, however  *)
(* many deliveries rendered it and wherever one of them died.              *)
THEOREM CompleteIsDownloadable == Spec => []CompleteHasArtifact
<1>1. IInv => CompleteHasArtifact
  BY DEF IInv, ArtifactFirst, CompleteHasArtifact
<1> QED
  BY <1>1, Inductive, PTL

(* A client is told "unavailable" only after retention.                    *)
THEOREM UnavailableIsExpired == Spec => []UnavailableOnlyExpired
<1>1. IInv => UnavailableOnlyExpired
  BY DEF IInv, ArtifactFirst, UnavailableOnlyExpired
<1> QED
  BY <1>1, Inductive, PTL

(* A queue that ran empty without dead-lettering has settled the job.      *)
THEOREM DrainedHasSettled == Spec => []DrainedIsSettled
<1>1. IInv => DrainedIsSettled
  BY DEF IInv, InFlightIsBusy, UnsettledIsOwed, Owes, DrainedIsSettled, Busy
<1> QED
  BY <1>1, Inductive, PTL

(* No delivery reopens a settled job, unless the message was duplicated    *)
(* or outlived its acknowledgement; and none moves completed_at.           *)
THEOREM SettledStays == Spec => SettledIsFinal
<1> DEFINE A == /\ Settled(job) /\ clean /\ job' # NoJob => job'.status = job.status
                /\ job.completed_at # 0 /\ job' # NoJob => job'.completed_at = job.completed_at
<1>1. ASSUME IInv, Next PROVE A
  <2> USE JobFacts DEF IInv, TypeOK
  <2>1. CASE StoreJob \/ SendMessage
    BY <1>1, <2>1 DEF StoreJob, SendMessage, StoredFirst
  <2>2. ASSUME NEW c \in Copies, MarkProcessing(c) PROVE A
    BY <1>1, <2>2 DEF MarkProcessing, OneCopyOnce, InFlightIsBusy
  <2>3. ASSUME NEW c \in Copies, MarkFailed(c) PROVE A
    BY <1>1, <2>3 DEF MarkFailed, OneCopyOnce, InFlightIsBusy
  <2>4. ASSUME NEW c \in Copies, MarkComplete(c) PROVE A
    BY <1>1, <2>4 DEF MarkComplete, OneCopyOnce, InFlightIsBusy
  <2>5. CASE ExpireRecord
    BY <1>1, <2>5 DEF ExpireRecord
  <2>6. CASE UNCHANGED job
    BY <1>1, <2>6
  <2> QED
    BY <1>1, <2>1, <2>2, <2>3, <2>4, <2>5, <2>6
    DEF Next, Work, Queue, Receive, DeadLetter, ListFrames, Render, Upload, Acknowledge,
        WorkerFails, PollLoad, PollHead, DeleteFootage, Age, ExpireArtifact
<1>2. IInv /\ [Next]_vars => [A]_vars
  BY <1>1
<1> QED
  BY <1>2, Inductive, PTL DEF Spec, SettledIsFinal
=============================================================================
