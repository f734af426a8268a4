---------------------------- MODULE AttachmentScan ----------------------------
(***************************************************************************)
(* The life of one attachment of an inbound message: stored by             *)
(* IngestInboundEmailAction, scanned by ScanInboundAttachmentJob and       *)
(* AttachmentScanService, served only when AttachmentVisibilityPolicy says *)
(* so, rescanned or purged by an administrator.                            *)
(*                                                                         *)
(* A webhook may deliver the message several times; each delivery is a     *)
(* queued job with tries of its own.  Scan jobs are unique per attachment  *)
(* through a lock that expires, and the queue hands a job out again when   *)
(* its worker is silent for too long, dead or not.                         *)
(*                                                                         *)
(* said and stranded are not program state: the verdicts the scanner gave, *)
(* and whether something happened that no job of the code makes up for.    *)
(***************************************************************************)
EXTENDS Integers

CONSTANTS
    Deliveries,    \* webhook deliveries of the message
    DeliveryTries, \* ProcessInboundMessageJob::$tries
    Workers,       \* workers of the scan queue
    Jobs,          \* bound: identities of scan jobs
    MaxAttempts,   \* AttachmentScanRetry::maxAttempts, also the tries of a job
    RescanBound,   \* bound: manual rescans
    NoWorker, NoJob, NoFile

ASSUME TriesAssumption ==
    /\ DeliveryTries \in Nat \ {0}
    /\ MaxAttempts \in Nat \ {0}
    /\ RescanBound \in Nat
ASSUME NamesAssumption ==
    NoWorker \notin Workers /\ NoJob \notin Jobs /\ NoFile \notin Deliveries

VARIABLES
    row,        \* the attachments row
    files,      \* the deliveries whose file is on the quarantine disk
    delivery,   \* the jobs that ingest the message
    enabled,    \* is a scanner backend configured?
    lock,       \* the unique lock of the attachment's scan job
    pushing,    \* a rescan has taken the lock and not pushed its job yet
    job,        \* the scan queue
    worker,     \* what each worker is doing
    rescans, said, stranded

vars == <<row, files, delivery, enabled, lock, pushing, job, worker, rescans, said, stranded>>

-----------------------------------------------------------------------------
Verdicts == {"clean", "infected", "failed", "skipped"}  \* isTerminal

Statuses == {"none", "pending", "scanning"} \cup Verdicts

Row == [status : Statuses, safe : {"null", "yes", "no"}, file : Deliveries \cup {NoFile},
        trashed : BOOLEAN, attempts : Nat]

Delivery == [pc : {"queued", "stored", "committed", "done"},
             tries : 0 .. DeliveryTries, put : BOOLEAN, scan : BOOLEAN]

Job == [state : {"none", "available", "reserved"}, tries : 0 .. MaxAttempts,
        owner : Workers \cup {NoWorker}]

(* attempts is the row's counter as the worker's copy of the row has it.   *)
Worker == [pc : {"idle", "loaded", "scanning", "thrown", "ending"},
           job : Jobs \cup {NoJob}, try : 0 .. MaxAttempts, attempts : Nat]

TypeOK ==
    /\ row \in Row
    /\ files \subseteq Deliveries
    /\ delivery \in [Deliveries -> Delivery]
    /\ enabled \in BOOLEAN /\ lock \in BOOLEAN /\ pushing \in BOOLEAN
    /\ job \in [Jobs -> Job]
    /\ worker \in [Workers -> Worker]
    /\ rescans \in 0 .. RescanBound
    /\ said \subseteq {"clean", "infected"}
    /\ stranded \in BOOLEAN

NoRow == [status |-> "none", safe |-> "null", file |-> NoFile, trashed |-> FALSE, attempts |-> 0]
NewDelivery == [pc |-> "queued", tries |-> 0, put |-> FALSE, scan |-> FALSE]
Gone == [state |-> "none", tries |-> 0, owner |-> NoWorker]
Idle == [pc |-> "idle", job |-> NoJob, try |-> 0, attempts |-> 0]

Init ==
    /\ row = NoRow
    /\ files = {}
    /\ delivery = [i \in Deliveries |-> NewDelivery]
    /\ enabled \in BOOLEAN
    /\ lock = FALSE /\ pushing = FALSE
    /\ job = [j \in Jobs |-> Gone]
    /\ worker = [w \in Workers |-> Idle]
    /\ rescans = 0 /\ said = {} /\ stranded = FALSE

-----------------------------------------------------------------------------
(* Updates of the row.                                                     *)

Open == row.status \in {"pending", "scanning"} /\ ~row.trashed

(* Mutation: a verdict is written whatever the row's status.               *)
AnyTerminal(status, safe, attempts) ==
    IF ~row.trashed /\ row.status # "none"
    THEN [row EXCEPT !.status = status, !.safe = safe, !.attempts = attempts]
    ELSE row

(* applyTerminal: only a row that is pending or scanning takes a verdict;  *)
(* its metadata is overwritten by the writer's copy.                       *)
Terminal(status, safe, attempts) ==
    IF Open THEN [row EXCEPT !.status = status, !.safe = safe, !.attempts = attempts] ELSE row

(* ScanInboundAttachmentJob::failed.                                       *)
JobFailed == Terminal("failed", "null", row.attempts)

(* A job is pushed under an identity no other job or worker has.           *)
Push ==
    \E j \in Jobs : /\ job[j].state = "none"
                    /\ \A w \in Workers : worker[w].job # j
                    /\ job' = [job EXCEPT ![j] = [Gone EXCEPT !.state = "available"]]

-----------------------------------------------------------------------------
(* Ingest.                                                                 *)

(* The message is not known yet: its file is written inside the            *)
(* transaction.  The disk may refuse the write without an exception.       *)
Store(i, ok) ==
    /\ delivery[i].pc = "queued" /\ delivery[i].tries < DeliveryTries
    /\ row.status = "none"
    /\ delivery' = [delivery EXCEPT ![i] = [pc |-> "stored", tries |-> @.tries + 1,
                                            put |-> ok, scan |-> enabled]]
    /\ files' = IF ok THEN files \cup {i} ELSE files \ {i}
    /\ UNCHANGED <<row, enabled, lock, pushing, job, worker, rescans, said, stranded>>

(* Duplicate: the message is known, nothing is done.                       *)
Duplicate(i) ==
    /\ delivery[i].pc = "queued" /\ delivery[i].tries < DeliveryTries
    /\ row.status # "none"
    /\ delivery' = [delivery EXCEPT ![i].pc = "done", ![i].tries = @ + 1]
    /\ UNCHANGED <<row, files, enabled, lock, pushing, job, worker, rescans, said, stranded>>

(* The message id is unique: only one delivery commits.                    *)
CommitDelivery(i) ==
    /\ delivery[i].pc = "stored"
    /\ row.status = "none"
    /\ row' = [NoRow EXCEPT !.status = "pending", !.file = i]
    /\ delivery' = [delivery EXCEPT ![i].pc = "committed"]
    /\ UNCHANGED <<files, enabled, lock, pushing, job, worker, rescans, said, stranded>>

AfterTry(i) == IF delivery[i].tries < DeliveryTries THEN "queued" ELSE "done"

(* Mutation: the cleanup removes the message's file, whoever stored it.    *)
FailDeliveryAny(i) ==
    /\ delivery[i].pc = "stored"
    /\ files' = files \ {i, row.file}
    /\ delivery' = [delivery EXCEPT ![i].pc = AfterTry(i)]
    /\ UNCHANGED <<row, enabled, lock, pushing, job, worker, rescans, said, stranded>>

(* The transaction fails, on the unique id or otherwise: the paths this    *)
(* delivery wrote are removed and the job is tried again.                  *)
FailDelivery(i) ==
    /\ delivery[i].pc = "stored"
    /\ files' = files \ {i}
    /\ delivery' = [delivery EXCEPT ![i].pc = AfterTry(i)]
    /\ UNCHANGED <<row, enabled, lock, pushing, job, worker, rescans, said, stranded>>

(* After the commit the scan job is dispatched, if a scanner was           *)
(* configured and the file is there; if none was, the row is skipped.      *)
DispatchScan(i) ==
    /\ delivery[i].pc = "committed"
    /\ delivery' = [delivery EXCEPT ![i].pc = "done"]
    /\ \/ /\ ~delivery[i].scan
          /\ row' = Terminal("skipped", "null", row.attempts)
          /\ UNCHANGED <<lock, job, stranded>>
       \/ /\ delivery[i].scan /\ delivery[i].put /\ ~lock
          /\ lock' = TRUE
          /\ Push
          /\ UNCHANGED <<row, stranded>>
       \/ /\ delivery[i].scan /\ (lock \/ ~delivery[i].put)
          /\ stranded' = TRUE
          /\ UNCHANGED <<row, lock, job>>
    /\ UNCHANGED <<files, enabled, pushing, worker, rescans, said>>

(* The worker of the delivery dies: nothing is cleaned up or dispatched.   *)
CrashDelivery(i) ==
    /\ delivery[i].pc \in {"stored", "committed"}
    /\ delivery' = [delivery EXCEPT ![i].pc = AfterTry(i)]
    /\ stranded' = (stranded \/ delivery[i].pc = "committed")
    /\ UNCHANGED <<row, files, enabled, lock, pushing, job, worker, rescans, said>>

-----------------------------------------------------------------------------
(* The scan job.                                                           *)

(* A worker takes a job.  One that has used up its tries fails unrun; one  *)
(* whose attachment is decided or trashed has nothing to do.               *)
Pick(w, j) ==
    /\ worker[w].pc = "idle"
    /\ job[j].state = "available"
    /\ \/ /\ job[j].tries = MaxAttempts
          /\ row' = JobFailed
          /\ job' = [job EXCEPT ![j] = Gone]
          /\ lock' = FALSE
          /\ UNCHANGED worker
       \/ /\ job[j].tries < MaxAttempts
          /\ job' = [job EXCEPT ![j] = [state |-> "reserved", tries |-> @.tries + 1, owner |-> w]]
          /\ worker' = [worker EXCEPT ![w] = [pc |-> IF Open THEN "loaded" ELSE "ending",
                                              job |-> j, try |-> job[j].tries + 1,
                                              attempts |-> row.attempts]]
          /\ UNCHANGED <<row, lock>>
    /\ UNCHANGED <<files, delivery, enabled, pushing, rescans, said, stranded>>

(* scan, up to the claim.                                                  *)
ScanWithout(w, status) ==
    /\ row' = Terminal(status, "null", worker[w].attempts)
    /\ worker' = [worker EXCEPT ![w].pc = "ending"]

Claim(w) ==
    /\ row.status = "pending" /\ ~row.trashed
    /\ row' = [row EXCEPT !.status = "scanning", !.safe = "null", !.attempts = @ + 1]
    /\ worker' = [worker EXCEPT ![w].pc = "scanning", ![w].attempts = row.attempts + 1]

(* Mutation: without a scanner every file is taken for clean.              *)
ScanTrusting(w) ==
    /\ worker[w].pc = "loaded"
    /\ \/ /\ ~enabled
          /\ row' = Terminal("clean", "yes", worker[w].attempts)
          /\ worker' = [worker EXCEPT ![w].pc = "ending"]
       \/ enabled /\ Claim(w)
    /\ UNCHANGED <<files, delivery, enabled, lock, pushing, job, rescans, said, stranded>>

Scan(w) ==
    /\ worker[w].pc = "loaded"
    /\ \/ ~enabled /\ ScanWithout(w, "skipped")
       \/ enabled /\ row.file \notin files /\ ScanWithout(w, "failed")
       \/ enabled /\ row.file \in files /\ Claim(w)
       \/ /\ enabled /\ row.file \in files
          /\ row.status # "pending" \/ row.trashed
          /\ worker' = [worker EXCEPT ![w].pc = "ending"]
          /\ UNCHANGED row
    /\ UNCHANGED <<files, delivery, enabled, lock, pushing, job, rescans, said, stranded>>

(* The scanner answers: a verdict, a failure that is final, or one that    *)
(* may be retried.                                                         *)
SafeFlag == [clean |-> "yes", infected |-> "no", failed |-> "null"]

Answer(w, verdict) ==
    /\ worker[w].pc = "scanning"
    /\ row' = Terminal(verdict, SafeFlag[verdict], worker[w].attempts)
    /\ worker' = [worker EXCEPT ![w].pc = "ending"]
    /\ said' = said \cup ({verdict} \ {"failed"})
    /\ UNCHANGED <<files, delivery, enabled, lock, pushing, job, rescans, stranded>>

(* Mutation: the retry is scheduled but the job ends as if it were done.   *)
RetrySwallowed(w) ==
    /\ worker[w].pc = "scanning"
    /\ row' = IF Open THEN [row EXCEPT !.status = "pending"] ELSE row
    /\ worker' = [worker EXCEPT ![w].pc = "ending"]
    /\ UNCHANGED <<files, delivery, enabled, lock, pushing, job, rescans, said, stranded>>

(* scheduleRetryOrExhaust.                                                 *)
ScheduleRetryOrExhaust(w) ==
    /\ worker[w].pc = "scanning"
    /\ \/ /\ worker[w].attempts < MaxAttempts
          /\ row.status = "scanning" /\ ~row.trashed
          /\ row' = [row EXCEPT !.status = "pending", !.safe = "null"]
          /\ worker' = [worker EXCEPT ![w].pc = "thrown"]
       \/ /\ worker[w].attempts < MaxAttempts
          /\ row.status # "scanning" \/ row.trashed
          /\ worker' = [worker EXCEPT ![w].pc = "ending"]
          /\ UNCHANGED row
       \/ /\ worker[w].attempts >= MaxAttempts
          /\ ScanWithout(w, "failed")
    /\ UNCHANGED <<files, delivery, enabled, lock, pushing, job, rescans, said, stranded>>

(* The queue as a worker leaves it when it gives up its job: if the job    *)
(* was handed out again meanwhile, that entry may or may not go as well.   *)
Left(w) ==
    {[job EXCEPT ![worker[w].job] = Gone]}
      \cup IF job[worker[w].job].owner = w THEN {} ELSE {job}

Finished(w) == job' \in Left(w)

(* The job goes back to the queue, as an entry of its own.                 *)
Released(w) ==
    \E left \in Left(w) : \E j \in Jobs :
      /\ left[j].state = "none"
      /\ \A x \in Workers \ {w} : worker[x].job # j
      /\ job' = [left EXCEPT ![j] = [state |-> "available", tries |-> worker[w].try,
                                     owner |-> NoWorker]]

(* The exception of a retry: the job goes back to the queue, or has failed *)
(* when this was its last try.                                             *)
Rethrow(w) ==
    /\ worker[w].pc = "thrown"
    /\ worker' = [worker EXCEPT ![w] = Idle]
    /\ \/ /\ worker[w].try < MaxAttempts
          /\ Released(w)
          /\ UNCHANGED <<row, lock>>
       \/ /\ worker[w].try = MaxAttempts
          /\ row' = JobFailed
          /\ lock' = FALSE
          /\ Finished(w)
    /\ UNCHANGED <<files, delivery, enabled, pushing, rescans, said, stranded>>

(* The job is done: its lock is released, whoever holds it by now.         *)
EndJob(w) ==
    /\ worker[w].pc = "ending"
    /\ worker' = [worker EXCEPT ![w] = Idle]
    /\ lock' = FALSE
    /\ Finished(w)
    /\ UNCHANGED <<row, files, delivery, enabled, pushing, rescans, said, stranded>>

(* The worker dies.  On a last try that timed out the job fails first.     *)
Die(w) ==
    /\ worker[w].pc # "idle"
    /\ worker' = [worker EXCEPT ![w] = Idle]
    /\ \/ /\ stranded' = (stranded \/ worker[w].pc \in {"scanning", "thrown"})
          /\ UNCHANGED <<row, lock, job>>
       \/ /\ worker[w].try = MaxAttempts
          /\ row' = JobFailed
          /\ lock' = FALSE
          /\ Finished(w)
          /\ UNCHANGED stranded
    /\ UNCHANGED <<files, delivery, enabled, pushing, rescans, said>>

(* retry_after has passed: the job is handed out again.                    *)
Redeliver(j) ==
    /\ job[j].state = "reserved"
    /\ job' = [job EXCEPT ![j].state = "available", ![j].owner = NoWorker]
    /\ UNCHANGED <<row, files, delivery, enabled, lock, pushing, worker, rescans, said, stranded>>

(* uniqueFor has passed.                                                   *)
LockExpires ==
    /\ lock
    /\ lock' = FALSE
    /\ UNCHANGED <<row, files, delivery, enabled, pushing, job, worker, rescans, said, stranded>>

-----------------------------------------------------------------------------
(* Administrators.                                                         *)

(* RescanFailedAttachmentAction.  The lock is taken inside the             *)
(* transaction, the job pushed after it; under a lock that is still held   *)
(* the dispatch is dropped.                                                *)
Rescan ==
    /\ row.status = "failed" /\ ~row.trashed
    /\ rescans < RescanBound /\ ~pushing
    /\ rescans' = rescans + 1
    /\ row' = [row EXCEPT !.status = "pending", !.safe = "null"]
    /\ lock' = TRUE
    /\ pushing' = ~lock
    /\ stranded' = (stranded \/ lock)
    /\ UNCHANGED <<files, delivery, enabled, job, worker, said>>

PushRescan ==
    /\ pushing
    /\ pushing' = FALSE
    /\ Push
    /\ UNCHANGED <<row, files, delivery, enabled, lock, worker, rescans, said, stranded>>

LosePush ==
    /\ pushing
    /\ pushing' = FALSE
    /\ stranded' = TRUE
    /\ UNCHANGED <<row, files, delivery, enabled, lock, job, worker, rescans, said>>

(* PermanentlyDeleteQuarantinedAttachmentAction.  The file goes before the *)
(* transaction commits, so a failure leaves a row without its file.        *)
PermanentlyDelete(committed) ==
    /\ row.status \in {"infected", "failed"} /\ ~row.trashed
    /\ files' = files \ {row.file}
    /\ row' = [row EXCEPT !.trashed = committed]
    /\ UNCHANGED <<delivery, enabled, lock, pushing, job, worker, rescans, said, stranded>>

(* The backend is configured, or configured away.                          *)
Configure ==
    /\ enabled' = ~enabled
    /\ UNCHANGED <<row, files, delivery, lock, pushing, job, worker, rescans, said, stranded>>

-----------------------------------------------------------------------------
Next ==
    \/ \E i \in Deliveries :
         \/ \E ok \in BOOLEAN : Store(i, ok)
         \/ Duplicate(i) \/ CommitDelivery(i) \/ FailDelivery(i)
         \/ DispatchScan(i) \/ CrashDelivery(i)
    \/ \E w \in Workers :
         \/ \E j \in Jobs : Pick(w, j)
         \/ \E verdict \in {"clean", "infected", "failed"} : Answer(w, verdict)
         \/ Scan(w) \/ ScheduleRetryOrExhaust(w) \/ Rethrow(w) \/ EndJob(w) \/ Die(w)
    \/ \E j \in Jobs : Redeliver(j)
    \/ \E committed \in BOOLEAN : PermanentlyDelete(committed)
    \/ LockExpires \/ Rescan \/ PushRescan \/ LosePush \/ Configure

Spec == Init /\ [][Next]_vars

(* Workers keep working and the queue hands out what a silent worker       *)
(* holds.  Nothing is assumed of administrators, of duplicate deliveries   *)
(* or of the lock.                                                         *)
Fairness ==
    /\ \A i \in Deliveries : WF_vars(DispatchScan(i))
    /\ WF_vars(PushRescan)
    /\ \A w \in Workers :
         /\ WF_vars(\E j \in Jobs : Pick(w, j))
         /\ WF_vars(Scan(w))
         /\ WF_vars(ScheduleRetryOrExhaust(w) \/ \E v \in {"clean", "infected", "failed"} : Answer(w, v))
         /\ WF_vars(Rethrow(w))
         /\ WF_vars(EndJob(w))
    /\ \A j \in Jobs : WF_vars(Redeliver(j))

FairSpec == Spec /\ Fairness

=============================================================================
