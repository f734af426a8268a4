-------------------------- MODULE OutboundDelivery --------------------------
(***************************************************************************)
(* Delivery of outbound messages: the queue job that claims a message and  *)
(* hands it to the mail transport (DeliverOutboundMessageJob), the user    *)
(* and admin actions that race with it (submit, cancel, retry, retry       *)
(* through another provider), the reconcilers that repair what a lost      *)
(* worker left behind, and the usage reservation that pays for the         *)
(* message.                                                                *)
(*                                                                         *)
(* Every database statement or transaction of the code that commits on its *)
(* own is one step here, so a crash or another actor can come between any  *)
(* two of them.  The queue (database or Redis driver, unique jobs) is      *)
(* Laravel's and is modelled from how the job uses it.                     *)
(*                                                                         *)
(* reply is not program state: it is what came of handing over attempt k,  *)
(* kept so that properties can speak of it.  A transport that reports a    *)
(* failure may do so after the provider took the message (a timeout, a     *)
(* connection reset): the caller cannot tell "unheard" from "refused".     *)
(***************************************************************************)
EXTENDS Naturals, FiniteSets

CONSTANTS
    Messages,      \* outbound_messages rows
    Jobs,          \* slots of the queue
    Workers,       \* queue:work processes of the outbound-delivery queue
    NoMessage, NoJob,
    MaxAttempts,   \* config outbound.send_max_attempts
    AttemptBound,  \* bound: attempts a message can accumulate by manual retries
    Faults         \* what may go wrong in this instance (see FaultKinds)

(***************************************************************************)
(* unclaimed_crash, claimed_crash: the worker process dies before / after  *)
(*   it claimed the message;                                               *)
(* request_crash: a request or command dies between its commit and its     *)
(*   dispatch of the job;                                                  *)
(* handler_error: a statement of the handler throws;                       *)
(* admin_crash: the process dies inside the provider retry's transaction,  *)
(*   after transport->send;                                                *)
(* slow_worker: a worker outlives retry_after and the stale threshold;     *)
(* lock_expiry: the unique-job lock reaches uniqueFor while its job lives; *)
(* emergency_stop: the operator stops and resumes outbound delivery;       *)
(* early_retry: a user retries while the failing job still holds its lock; *)
(* backlog: a redelivered job is still on the queue, its lock held, when   *)
(*   its message passes the stale threshold.                               *)
(***************************************************************************)
FaultKinds == {"unclaimed_crash", "claimed_crash", "request_crash",
               "handler_error", "admin_crash", "slow_worker", "lock_expiry",
               "emergency_stop", "early_retry", "backlog"}

ASSUME FaultsAssumption == Faults \subseteq FaultKinds
ASSUME NoMessageAssumption == NoMessage \notin Messages
ASSUME NoJobAssumption == NoJob \notin Jobs
ASSUME MaxAttemptsAssumption == MaxAttempts \in Nat \ {0}
ASSUME AttemptBoundAssumption == AttemptBound \in Nat /\ MaxAttempts <= AttemptBound

VARIABLES
    msg,          \* [Messages -> MessageRow]
    reservation,  \* outbound_usage_reservations.state of each message
    attempts,     \* outbound_delivery_attempts.state by message and number
    jobs,         \* the queue's job rows
    uniqueLock,   \* messages whose ShouldBeUnique lock is held
    worker,       \* each worker's place in handle() and what it remembers
    pending,      \* <<message, source>>: committed, job not dispatched yet
    stopped,      \* emergency stop
    checked,      \* messages an admin's provider retry found eligible
    expiring,     \* messages a reservation expiry pass judged safe to release
    reply         \* what came of handing over each attempt

deliveryVars == <<msg, reservation, attempts>>
queueVars == <<jobs, uniqueLock, worker>>
vars == <<msg, reservation, attempts, jobs, uniqueLock, worker, pending,
          stopped, checked, expiring, reply>>

-----------------------------------------------------------------------------
AttemptNumbers == 1 .. AttemptBound

(* The lifecycle states a message reaches after it was a draft; scheduling *)
(* is modelled apart.                                                      *)
States == {"draft", "queued", "sending", "sent", "delivered", "failed", "cancelled"}

(***************************************************************************)
(* failure_code, by who may act on it.  RetryOutboundMessageAction refuses *)
(* "blocked" and "config"; the failover policy accepts only "config" and   *)
(* "unreachable" (provably before acceptance); "other" is the rest.        *)
(***************************************************************************)
FailureClasses == {"none", "blocked", "config", "unreachable", "other"}
UserRetryable == {"none", "unreachable", "other"}
FailoverEligible == {"config", "unreachable"}

(* reconciliation_flagged_at with its reconciliation_note.                 *)
Flags == {"none", "ambiguous", "conflict"}

MessageRow == [state : States, attempt : 0 .. AttemptBound,
               transportAt : BOOLEAN,  \* transport_attempted_at IS NOT NULL
               sentAt : BOOLEAN, deliveredAt : BOOLEAN, failedAt : BOOLEAN,
               failure : FailureClasses, flag : Flags]

ReservationStates == {"none", "reserved", "committed", "released", "expired"}

RowStates == {"missing", "attempted", "accepted", "temporary_failure",
              "permanent_failure", "ambiguous"}
TerminalRow == RowStates \ {"missing", "attempted"}

(* accepted: taken, and the transport said so; unheard: taken, but the     *)
(* transport reported a failure; bounced: accepted, and a bounce of the    *)
(* message was reported since (the report names no attempt).               *)
Replies == {"none", "accepted", "refused", "unheard", "bounced"}
ReportedFailed == {"refused", "unheard"}
Results == {"none", "accepted", "temporary", "permanent"}

(* OutboundTransportFailureMapper: timeouts and resets are temporary,      *)
(* what it does not recognise is permanent; either may follow a provider's *)
(* acceptance.  Only the failures known before a connection do not.        *)
AnswersFor(result) == IF result = "accepted" THEN {"accepted"} ELSE ReportedFailed

CodesFor(answer) == {code \in FailureClasses \ {"none"} :
                       answer = "unheard" => code \notin FailoverEligible}

JobRow == [status : {"absent", "available", "reserved"},
           msg : Messages \cup {NoMessage}, tries : 0 .. MaxAttempts]
NoJobRow == [status |-> "absent", msg |-> NoMessage, tries |-> 0]

(***************************************************************************)
(* Where a worker stands in handle().  "popped" has the job; "cleared"     *)
(* passed the emergency-stop check; "claimed" moved the message to         *)
(* sending; "started" has an attempt row; "submitting" stamped             *)
(* transport_attempted_at; "answered" has the transport's result.  The     *)
(* others name the commit that was just made; "done" and "threw" are the   *)
(* two ways out of handle().                                               *)
(***************************************************************************)
Claimed == {"claimed", "started", "submitting", "answered", "exhausted"}
Settling == {"sent", "charged", "requeued", "failed", "refused", "released"}
Places == {"idle", "popped", "cleared", "done", "threw"} \cup Claimed \cup Settling

WorkerRow == [pc : Places, job : Jobs \cup {NoJob}, msg : Messages \cup {NoMessage},
              tries : 0 .. MaxAttempts,    \* the popped job's attempts()
              attempt : 0 .. AttemptBound, \* $claimed->attempt_count
              result : Results]
IdleWorker == [pc |-> "idle", job |-> NoJob, msg |-> NoMessage, tries |-> 0,
               attempt |-> 0, result |-> "none"]

Sources == {"request", "reconciler"}

TypeOK ==
    /\ msg \in [Messages -> MessageRow]
    /\ reservation \in [Messages -> ReservationStates]
    /\ attempts \in [Messages -> [AttemptNumbers -> RowStates]]
    /\ jobs \in [Jobs -> JobRow]
    /\ uniqueLock \subseteq Messages
    /\ worker \in [Workers -> WorkerRow]
    /\ pending \subseteq Messages \X Sources
    /\ stopped \in BOOLEAN
    /\ checked \subseteq Messages
    /\ expiring \subseteq Messages
    /\ reply \in [Messages -> [AttemptNumbers -> Replies]]

Init ==
    /\ msg = [m \in Messages |->
                [state |-> "draft", attempt |-> 0, transportAt |-> FALSE,
                 sentAt |-> FALSE, deliveredAt |-> FALSE, failedAt |-> FALSE,
                 failure |-> "none", flag |-> "none"]]
    /\ reservation = [m \in Messages |-> "none"]
    /\ attempts = [m \in Messages |-> [k \in AttemptNumbers |-> "missing"]]
    /\ jobs = [j \in Jobs |-> NoJobRow]
    /\ uniqueLock = {}
    /\ worker = [w \in Workers |-> IdleWorker]
    /\ pending = {}
    /\ stopped = FALSE
    /\ checked = {}
    /\ expiring = {}
    /\ reply = [m \in Messages |-> [k \in AttemptNumbers |-> "none"]]

-----------------------------------------------------------------------------
(* Helpers: the services' row operations.                                  *)

(* Mutation: complete() without its terminal check.                        *)
CompleteRowAlways(m, k, outcome) == attempts' = [attempts EXCEPT ![m][k] = outcome]

(* OutboundDeliveryAttemptRecorder::complete: no-op when the row is        *)
(* missing or already terminal.                                            *)
CompleteRow(m, k, outcome) ==
    attempts' = [attempts EXCEPT ![m][k] = IF @ = "attempted" THEN outcome ELSE @]

(* OutboundUsageService::commit / release: only a reserved row moves.      *)
SettleReservation(m, outcome) ==
    reservation' = [reservation EXCEPT ![m] = IF @ = "reserved" THEN outcome ELSE @]

(* Mutation: the claim forgets to reset transport_attempted_at.            *)
ClaimedRowStamped(row) == [row EXCEPT !.state = "sending", !.attempt = @ + 1]

(* The row as the claim leaves it.                                         *)
ClaimedRow(row) ==
    [row EXCEPT !.state = "sending", !.attempt = @ + 1, !.transportAt = FALSE]

FailedRow(row, code) ==
    [row EXCEPT !.state = "failed", !.failedAt = TRUE, !.failure = code]

SentRow(row) ==
    [row EXCEPT !.state = "sent", !.sentAt = TRUE, !.failure = "none"]

(* A worker that is past the claim of m and has not written its outcome.   *)
HoldsClaim(w, m) == worker[w].msg = m /\ worker[w].pc \in Claimed

(* The deployment orders worker timeout < retry_after < stale threshold,   *)
(* so only a slow_worker instance sees them reached by a live worker.      *)
NobodyDelivers(m) == \/ "slow_worker" \in Faults
                     \/ \A w \in Workers : ~HoldsClaim(w, m)

(* The locals a later place reads no more are dropped.                     *)
Move(w, place) ==
    worker' = [worker EXCEPT ![w].pc = place, ![w].result = "none",
                 ![w].attempt = IF place \in {"done", "threw"} THEN 0 ELSE @]

(* The queue deletes a job; or puts it back with the tries it was popped   *)
(* with.  A slot is not reused while a worker still holds its old job.     *)
Free(j) == jobs' = [jobs EXCEPT ![j] = NoJobRow]

Release(w) == jobs' = [jobs EXCEPT ![worker[w].job] =
                         [status |-> "available", msg |-> worker[w].msg,
                          tries |-> worker[w].tries]]

Unused(j) == jobs[j].status = "absent" /\ \A w \in Workers : worker[w].job # j

-----------------------------------------------------------------------------
(* Requests.                                                               *)

(* A draft is submitted (or a send created): queued and paid for by a      *)
(* reservation in one transaction; the job is dispatched after it.         *)
Submit(m) ==
    /\ msg[m].state = "draft"
    /\ msg' = [msg EXCEPT ![m].state = "queued"]
    /\ reservation' = [reservation EXCEPT ![m] = IF @ = "none" THEN "reserved" ELSE @]
    /\ pending' = pending \cup {<<m, "request">>}
    /\ UNCHANGED <<attempts, queueVars, stopped, checked, expiring, reply>>

(* DeliverOutboundMessageJob::dispatch.  A dispatch that finds the unique  *)
(* lock taken is silently dropped.                                         *)
Dispatch(m, source) ==
    /\ <<m, source>> \in pending
    /\ pending' = pending \ {<<m, source>>}
    /\ IF m \in uniqueLock
         THEN UNCHANGED <<jobs, uniqueLock>>
         ELSE /\ \E j \in Jobs :
                   /\ Unused(j)
                   /\ jobs' = [jobs EXCEPT ![j] =
                                 [status |-> "available", msg |-> m, tries |-> 0]]
              /\ uniqueLock' = uniqueLock \cup {m}
    /\ UNCHANGED <<deliveryVars, worker, stopped, checked, expiring, reply>>

RequestDies(m, source) ==
    /\ "request_crash" \in Faults
    /\ <<m, source>> \in pending
    /\ pending' = pending \ {<<m, source>>}
    /\ UNCHANGED <<deliveryVars, queueVars, stopped, checked, expiring, reply>>

(* Mutation: a message can be cancelled while it is being sent.            *)
CancelSending(m) ==
    /\ msg[m].state \in {"queued", "sending"}
    /\ msg' = [msg EXCEPT ![m].state = "cancelled"]
    /\ SettleReservation(m, "released")
    /\ UNCHANGED <<attempts, queueVars, pending, stopped, checked, expiring, reply>>

Cancel(m) ==
    /\ msg[m].state = "queued"
    /\ msg' = [msg EXCEPT ![m].state = "cancelled"]
    /\ SettleReservation(m, "released")
    /\ UNCHANGED <<attempts, queueVars, pending, stopped, checked, expiring, reply>>

(* RetryOutboundMessageAction.  Neither sent_at, transport_attempted_at,   *)
(* the flag nor the reservation is touched.                                *)
Retry(m) ==
    /\ msg[m].state = "failed"
    /\ msg[m].failure \in UserRetryable
    /\ ~stopped
    /\ msg[m].attempt < AttemptBound
    /\ <<m, "request">> \notin pending
    /\ m \in uniqueLock => "early_retry" \in Faults
    /\ msg' = [msg EXCEPT ![m].state = "queued", ![m].failedAt = FALSE,
                          ![m].failure = "none"]
    /\ pending' = pending \cup {<<m, "request">>}
    /\ UNCHANGED <<reservation, attempts, queueVars, stopped, checked, expiring, reply>>

-----------------------------------------------------------------------------
(* RetryOutboundMessageWithProviderAction: the policy is evaluated first,  *)
(* outside the transaction that claims, submits and settles.               *)

LatestRow(m) == attempts[m][msg[m].attempt]

ProviderRetryCheck(m) ==
    /\ msg[m].state = "failed"
    /\ msg[m].flag = "none"
    /\ msg[m].attempt > 0
    /\ LatestRow(m) \in TerminalRow \ {"ambiguous"}
    /\ msg[m].failure \in FailoverEligible
    /\ ~stopped
    /\ m \notin checked
    /\ checked' = checked \cup {m}
    /\ UNCHANGED <<deliveryVars, queueVars, pending, stopped, expiring, reply>>

(* The transaction: failed -> sending -> sent or failed, holding the row.  *)
(* failed_at survives an acceptance and no usage call is made.             *)
ProviderRetry(m) ==
    LET k == msg[m].attempt + 1 IN
    /\ m \in checked
    /\ checked' = checked \ {m}
    /\ msg[m].state = "failed"
    /\ k <= AttemptBound
    /\ \E result \in Results \ {"none"} : \E answer \in AnswersFor(result) :
       \E code \in CodesFor(answer) :
         LET row == [ClaimedRow(msg[m]) EXCEPT !.transportAt = TRUE] IN
         /\ msg' = [msg EXCEPT ![m] = IF result = "accepted" THEN SentRow(row)
                                                           ELSE FailedRow(row, code)]
         /\ attempts' = [attempts EXCEPT ![m][k] =
                           IF @ \in TerminalRow THEN @
                           ELSE CASE result = "accepted"  -> "accepted"
                                  [] result = "temporary" -> "temporary_failure"
                                  [] result = "permanent" -> "permanent_failure"]
         /\ reply' = [reply EXCEPT ![m][k] = answer]
    /\ UNCHANGED <<reservation, queueVars, pending, stopped, expiring>>

(* The message is no longer failed when the transaction locks it.          *)
ProviderRetryRefused(m) ==
    /\ m \in checked
    /\ msg[m].state # "failed"
    /\ checked' = checked \ {m}
    /\ UNCHANGED <<deliveryVars, queueVars, pending, stopped, expiring, reply>>

(* The process dies after transport->send: the provider keeps its answer,  *)
(* the database rolls the whole transaction back.                          *)
ProviderRetryDies(m) ==
    LET k == msg[m].attempt + 1 IN
    /\ "admin_crash" \in Faults
    /\ m \in checked
    /\ checked' = checked \ {m}
    /\ msg[m].state = "failed"
    /\ k <= AttemptBound
    /\ \E answer \in {"accepted"} \cup ReportedFailed :
         reply' = [reply EXCEPT ![m][k] = answer]
    /\ UNCHANGED <<deliveryVars, queueVars, pending, stopped, expiring>>

-----------------------------------------------------------------------------
(* The queue worker and DeliverOutboundMessageJob::handle.                 *)

(* Mutation: tries are not limited.                                        *)
PopUnlimited(w, j) ==
    /\ worker[w].pc = "idle"
    /\ jobs[j].status = "available"
    /\ jobs' = [jobs EXCEPT ![j].status = "reserved", ![j].tries = @ + 1]
    /\ worker' = [worker EXCEPT ![w] =
                     [IdleWorker EXCEPT !.pc = "popped", !.job = j,
                        !.msg = jobs[j].msg, !.tries = jobs[j].tries + 1]]
    /\ UNCHANGED <<deliveryVars, uniqueLock, pending, stopped, checked, expiring, reply>>

(* A pop counts as a try; one too many fails the job before handle() runs, *)
(* which releases its lock and leaves the message alone.                   *)
Pop(w, j) ==
    /\ worker[w].pc = "idle"
    /\ jobs[j].status = "available"
    /\ IF jobs[j].tries >= MaxAttempts
         THEN /\ Free(j)
              /\ uniqueLock' = uniqueLock \ {jobs[j].msg}
              /\ UNCHANGED worker
         ELSE /\ jobs' = [jobs EXCEPT ![j].status = "reserved", ![j].tries = @ + 1]
              /\ worker' = [worker EXCEPT ![w] =
                              [IdleWorker EXCEPT !.pc = "popped", !.job = j,
                                 !.msg = jobs[j].msg, !.tries = jobs[j].tries + 1]]
              /\ UNCHANGED uniqueLock
    /\ UNCHANGED <<deliveryVars, pending, stopped, checked, expiring, reply>>

(* Emergency stop: release() puts the job back, its lock and tries kept.   *)
StopCheck(w) ==
    /\ worker[w].pc = "popped"
    /\ IF stopped
         THEN /\ Release(w)
              /\ worker' = [worker EXCEPT ![w] = IdleWorker]
         ELSE /\ Move(w, "cleared")
              /\ UNCHANGED jobs
    /\ UNCHANGED <<deliveryVars, uniqueLock, pending, stopped, checked, expiring, reply>>

(* Mutation: a redelivered job resumes a message it finds sending.         *)
ClaimInFlight(w) ==
    LET m == worker[w].msg IN
    /\ worker[w].pc = "cleared"
    /\ msg[m].state \in {"queued", "sending"}
    /\ msg[m].attempt < AttemptBound
    /\ msg' = [msg EXCEPT ![m] = ClaimedRow(@)]
    /\ worker' = [worker EXCEPT ![w].pc = "claimed", ![w].attempt = msg[m].attempt + 1]
    /\ UNCHANGED <<reservation, attempts, jobs, uniqueLock, pending, stopped,
                   checked, expiring, reply>>

Claim(w) ==
    LET m == worker[w].msg IN
    /\ worker[w].pc = "cleared"
    /\ msg[m].state = "queued"
    /\ msg[m].attempt < AttemptBound
    /\ msg' = [msg EXCEPT ![m] = ClaimedRow(@)]
    /\ worker' = [worker EXCEPT ![w].pc = "claimed", ![w].attempt = msg[m].attempt + 1]
    /\ UNCHANGED <<reservation, attempts, jobs, uniqueLock, pending, stopped,
                   checked, expiring, reply>>

NothingToClaim(w) ==
    /\ worker[w].pc = "cleared"
    /\ msg[worker[w].msg].state # "queued"
    /\ Move(w, "done")
    /\ UNCHANGED <<deliveryVars, jobs, uniqueLock, pending, stopped, checked,
                   expiring, reply>>

(* attempts->start is firstOrCreate on (message, attempt number).          *)
StartAttempt(w) ==
    /\ worker[w].pc = "claimed"
    /\ attempts' = [attempts EXCEPT ![worker[w].msg][worker[w].attempt] =
                      IF @ = "missing" THEN "attempted" ELSE @]
    /\ Move(w, "started")
    /\ UNCHANGED <<msg, reservation, jobs, uniqueLock, pending, stopped,
                   checked, expiring, reply>>

(* markFailed before the transport: user, authorization, suppression or    *)
(* attachment checks refuse the message.                                   *)
RefuseBeforeTransport(w) ==
    LET m == worker[w].msg IN
    /\ worker[w].pc = "started"
    /\ IF msg[m].state = "sending"
         THEN /\ \E code \in {"blocked", "other"} :
                   msg' = [msg EXCEPT ![m] = FailedRow(@, code)]
              /\ Move(w, "refused")
         ELSE /\ Move(w, "done")
              /\ UNCHANGED msg
    /\ UNCHANGED <<reservation, attempts, jobs, uniqueLock, pending, stopped,
                   checked, expiring, reply>>

(* The stamp's update count is not looked at.                              *)
StampTransport(w) ==
    LET m == worker[w].msg IN
    /\ worker[w].pc = "started"
    /\ msg' = [msg EXCEPT ![m].transportAt = @ \/ msg[m].state = "sending"]
    /\ Move(w, "submitting")
    /\ UNCHANGED <<reservation, attempts, jobs, uniqueLock, pending, stopped,
                   checked, expiring, reply>>

Send(w) ==
    /\ worker[w].pc = "submitting"
    /\ \E result \in Results \ {"none"} : \E answer \in AnswersFor(result) :
         /\ worker' = [worker EXCEPT ![w].pc = "answered", ![w].result = result]
         /\ reply' = [reply EXCEPT ![worker[w].msg][worker[w].attempt] = answer]
    /\ UNCHANGED <<deliveryVars, jobs, uniqueLock, pending, stopped, checked, expiring>>

(* Mutation: markSent without its where-state guard.                       *)
MarkSentUnguarded(w) ==
    LET m == worker[w].msg IN
    /\ worker[w].pc = "answered"
    /\ worker[w].result = "accepted"
    /\ msg' = [msg EXCEPT ![m] = SentRow(@)]
    /\ Move(w, "sent")
    /\ UNCHANGED <<reservation, attempts, jobs, uniqueLock, pending, stopped,
                   checked, expiring, reply>>

(* markSent: the guarded update, then the charge, then the attempt row.    *)
MarkSent(w) ==
    LET m == worker[w].msg IN
    /\ worker[w].pc = "answered"
    /\ worker[w].result = "accepted"
    /\ IF msg[m].state = "sending"
         THEN /\ msg' = [msg EXCEPT ![m] = SentRow(@)]
              /\ Move(w, "sent")
         ELSE /\ Move(w, "done")
              /\ UNCHANGED msg
    /\ UNCHANGED <<reservation, attempts, jobs, uniqueLock, pending, stopped,
                   checked, expiring, reply>>

CommitUsage(w) ==
    /\ worker[w].pc = "sent"
    /\ SettleReservation(worker[w].msg, "committed")
    /\ Move(w, "charged")
    /\ UNCHANGED <<msg, attempts, jobs, uniqueLock, pending, stopped, checked,
                   expiring, reply>>

CompleteAccepted(w) ==
    /\ worker[w].pc = "charged"
    /\ CompleteRow(worker[w].msg, worker[w].attempt, "accepted")
    /\ Move(w, "done")
    /\ UNCHANGED <<msg, reservation, jobs, uniqueLock, pending, stopped, checked,
                   expiring, reply>>

(* Mutation: the budget comparison is off by one.                          *)
RequeueOnceMore(w) ==
    LET m == worker[w].msg IN
    /\ worker[w].pc = "answered"
    /\ worker[w].result = "temporary"
    /\ worker[w].attempt <= MaxAttempts
    /\ msg' = [msg EXCEPT ![m] =
                 IF @.state = "sending"
                   THEN [@ EXCEPT !.state = "queued", !.failure = "other"] ELSE @]
    /\ Move(w, "requeued")
    /\ UNCHANGED <<reservation, attempts, jobs, uniqueLock, pending, stopped,
                   checked, expiring, reply>>

(* A temporary failure with budget left: back to queued, then the row is   *)
(* completed and handle() throws so that the queue retries the job.        *)
Requeue(w) ==
    LET m == worker[w].msg IN
    /\ worker[w].pc = "answered"
    /\ worker[w].result = "temporary"
    /\ worker[w].attempt < MaxAttempts
    /\ msg' = [msg EXCEPT ![m] =
                 IF @.state = "sending"
                   THEN [@ EXCEPT !.state = "queued", !.failure = "other"] ELSE @]
    /\ Move(w, "requeued")
    /\ UNCHANGED <<reservation, attempts, jobs, uniqueLock, pending, stopped,
                   checked, expiring, reply>>

CompleteTemporary(w) ==
    /\ worker[w].pc = "requeued"
    /\ CompleteRow(worker[w].msg, worker[w].attempt, "temporary_failure")
    /\ Move(w, "threw")
    /\ UNCHANGED <<msg, reservation, jobs, uniqueLock, pending, stopped, checked,
                   expiring, reply>>

(* The budget is spent: the row is completed before markFailed.            *)
Exhaust(w) ==
    /\ worker[w].pc = "answered"
    /\ worker[w].result = "temporary"
    /\ worker[w].attempt >= MaxAttempts
    /\ CompleteRow(worker[w].msg, worker[w].attempt, "temporary_failure")
    /\ Move(w, "exhausted")
    /\ UNCHANGED <<msg, reservation, jobs, uniqueLock, pending, stopped, checked,
                   expiring, reply>>

(* markFailed after the transport: the reservation stays reserved.         *)
MarkFailed(w) ==
    LET m == worker[w].msg IN
    /\ \/ worker[w].pc = "exhausted"
       \/ worker[w].pc = "answered" /\ worker[w].result = "permanent"
    /\ IF msg[m].state = "sending"
         THEN /\ \E code \in CodesFor(reply[m][worker[w].attempt]) :
                   msg' = [msg EXCEPT ![m] = FailedRow(@, code)]
              /\ Move(w, IF worker[w].pc = "exhausted" THEN "done" ELSE "failed")
         ELSE /\ Move(w, "done")
              /\ UNCHANGED msg
    /\ UNCHANGED <<reservation, attempts, jobs, uniqueLock, pending, stopped,
                   checked, expiring, reply>>

ReleaseUsage(w) ==
    /\ worker[w].pc = "refused"
    /\ SettleReservation(worker[w].msg, "released")
    /\ Move(w, "released")
    /\ UNCHANGED <<msg, attempts, jobs, uniqueLock, pending, stopped, checked,
                   expiring, reply>>

CompletePermanent(w) ==
    /\ worker[w].pc \in {"failed", "released"}
    /\ CompleteRow(worker[w].msg, worker[w].attempt, "permanent_failure")
    /\ Move(w, "done")
    /\ UNCHANGED <<msg, reservation, jobs, uniqueLock, pending, stopped, checked,
                   expiring, reply>>

(* handle() returned: the queue frees the lock and deletes the job.        *)
FinishJob(w) ==
    /\ worker[w].pc = "done"
    /\ Free(worker[w].job)
    /\ uniqueLock' = uniqueLock \ {worker[w].msg}
    /\ worker' = [worker EXCEPT ![w] = IdleWorker]
    /\ UNCHANGED <<deliveryVars, pending, stopped, checked, expiring, reply>>

(* handle() threw: released for a later try, or failed on its last one.    *)
JobThrew(w) ==
    /\ worker[w].pc = "threw"
    /\ IF worker[w].tries >= MaxAttempts
         THEN /\ Free(worker[w].job)
              /\ uniqueLock' = uniqueLock \ {worker[w].msg}
         ELSE /\ Release(w)
              /\ UNCHANGED uniqueLock
    /\ worker' = [worker EXCEPT ![w] = IdleWorker]
    /\ UNCHANGED <<deliveryVars, pending, stopped, checked, expiring, reply>>

HandlerError(w) ==
    /\ "handler_error" \in Faults
    /\ worker[w].pc \notin {"idle", "done", "threw"}
    /\ \/ Move(w, "threw")
       \* markFailed('user_inactive') runs inside the try whose catch fails again.
       \/ worker[w].pc \in {"refused", "released"} /\ Move(w, "done")
    /\ UNCHANGED <<deliveryVars, jobs, uniqueLock, pending, stopped, checked,
                   expiring, reply>>

WorkerDies(w) ==
    /\ worker[w].pc # "idle"
    /\ IF worker[w].pc \in {"popped", "cleared"}
         THEN "unclaimed_crash" \in Faults ELSE "claimed_crash" \in Faults
    /\ worker' = [worker EXCEPT ![w] = IdleWorker]
    /\ UNCHANGED <<deliveryVars, jobs, uniqueLock, pending, stopped, checked,
                   expiring, reply>>

(* Mutation: a job is not offered again while its unique lock is held.     *)
RedeliverUnlocked(j) ==
    /\ jobs[j].status = "reserved"
    /\ jobs[j].msg \notin uniqueLock
    /\ \A w \in Workers : worker[w].job # j
    /\ jobs' = [jobs EXCEPT ![j].status = "available"]
    /\ UNCHANGED <<deliveryVars, uniqueLock, worker, pending, stopped, checked,
                   expiring, reply>>

(* retry_after passed: the queue offers a reserved job again.              *)
Redeliver(j) ==
    /\ jobs[j].status = "reserved"
    /\ "slow_worker" \in Faults \/ \A w \in Workers : worker[w].job # j
    /\ jobs' = [jobs EXCEPT ![j].status = "available"]
    /\ UNCHANGED <<deliveryVars, uniqueLock, worker, pending, stopped, checked,
                   expiring, reply>>

LockExpires(m) ==
    /\ "lock_expiry" \in Faults
    /\ m \in uniqueLock
    /\ uniqueLock' = uniqueLock \ {m}
    /\ UNCHANGED <<deliveryVars, jobs, worker, pending, stopped, checked, expiring, reply>>

-----------------------------------------------------------------------------
(* Reconcilers and operators.                                              *)

(* OutboundStaleSendingReconciliationService::reconcileOne: already        *)
(* flagged rows are skipped; an invoked transport makes the row ambiguous; *)
(* a spent budget fails it; otherwise it is requeued.                      *)
Stale(m) ==
    /\ msg[m].state = "sending"
    /\ NobodyDelivers(m)
    /\ m \in uniqueLock => "backlog" \in Faults
    /\ msg[m].flag = "none"

FlagAmbiguous(m) ==
    /\ Stale(m)
    /\ msg[m].transportAt
    /\ msg' = [msg EXCEPT ![m].flag = "ambiguous"]
    /\ CompleteRow(m, msg[m].attempt, "ambiguous")
    /\ UNCHANGED <<reservation, queueVars, pending, stopped, checked, expiring, reply>>

(* Mutation: the budget comparison is off by one.                          *)
FailOverspent(m) ==
    /\ Stale(m)
    /\ ~msg[m].transportAt
    /\ msg[m].attempt > MaxAttempts
    /\ msg' = [msg EXCEPT ![m] = FailedRow(@, "other")]
    /\ UNCHANGED <<reservation, attempts, queueVars, pending, stopped, checked,
                   expiring, reply>>

FailExhausted(m) ==
    /\ Stale(m)
    /\ ~msg[m].transportAt
    /\ msg[m].attempt >= MaxAttempts
    /\ msg' = [msg EXCEPT ![m] = FailedRow(@, "other")]
    /\ UNCHANGED <<reservation, attempts, queueVars, pending, stopped, checked,
                   expiring, reply>>

(* Mutation: whether the transport was invoked is not considered.          *)
RequeueAnyStale(m) ==
    /\ Stale(m)
    /\ msg[m].attempt < MaxAttempts
    /\ <<m, "reconciler">> \notin pending
    /\ msg' = [msg EXCEPT ![m].state = "queued"]
    /\ pending' = pending \cup {<<m, "reconciler">>}
    /\ UNCHANGED <<reservation, attempts, queueVars, stopped, checked, expiring, reply>>

(* Mutation: the reconciler's query forgets its threshold.                 *)
RequeueFresh(m) ==
    /\ msg[m].state = "sending"
    /\ msg[m].flag = "none"
    /\ ~msg[m].transportAt
    /\ msg[m].attempt < MaxAttempts
    /\ <<m, "reconciler">> \notin pending
    /\ msg' = [msg EXCEPT ![m].state = "queued"]
    /\ pending' = pending \cup {<<m, "reconciler">>}
    /\ UNCHANGED <<reservation, attempts, queueVars, stopped, checked, expiring, reply>>

RequeueStale(m) ==
    /\ Stale(m)
    /\ ~msg[m].transportAt
    /\ msg[m].attempt < MaxAttempts
    /\ <<m, "reconciler">> \notin pending
    /\ msg' = [msg EXCEPT ![m].state = "queued"]
    /\ pending' = pending \cup {<<m, "reconciler">>}
    /\ UNCHANGED <<reservation, attempts, queueVars, stopped, checked, expiring, reply>>

(* Provider events on a message that was handed over.  Events on any other *)
(* state change nothing.                                                   *)
ProviderDelivers(m) ==
    /\ msg[m].state = "sent"
    /\ msg' = [msg EXCEPT ![m].state = "delivered", ![m].deliveredAt = TRUE]
    /\ UNCHANGED <<reservation, attempts, queueVars, pending, stopped, checked,
                   expiring, reply>>

ProviderBounces(m) ==
    /\ msg[m].state = "sent"
    /\ msg' = [msg EXCEPT ![m] = FailedRow(@, "other")]
    /\ reply' = [reply EXCEPT ![m] =
                    [k \in AttemptNumbers |->
                       IF reply[m][k] = "accepted" THEN "bounced" ELSE reply[m][k]]]
    /\ UNCHANGED <<reservation, attempts, queueVars, pending, stopped, checked, expiring>>

(* Mutation: the backfill takes a message being sent for a sent one.       *)
RepairUnsettled(m) ==
    /\ msg[m].attempt >= 1
    /\ attempts[m][msg[m].attempt] = "missing"
    /\ msg[m].state \in {"sending", "sent", "delivered"}
    /\ attempts' = [attempts EXCEPT ![m][msg[m].attempt] = "accepted"]
    /\ UNCHANGED <<msg, reservation, queueVars, pending, stopped, checked,
                   expiring, reply>>

(* repairOne: backfill the row of a settled message's current attempt.     *)
RepairAttempt(m) ==
    /\ msg[m].attempt >= 1
    /\ attempts[m][msg[m].attempt] = "missing"
    /\ \/ /\ msg[m].state \in {"sent", "delivered"}
          /\ attempts' = [attempts EXCEPT ![m][msg[m].attempt] = "accepted"]
       \/ /\ msg[m].state = "failed"
          /\ attempts' = [attempts EXCEPT ![m][msg[m].attempt] = "permanent_failure"]
    /\ UNCHANGED <<msg, reservation, queueVars, pending, stopped, checked,
                   expiring, reply>>

(* detectConflict.                                                         *)
Conflict(row) ==
    \/ row.deliveredAt /\ row.failedAt
    \/ row.state = "delivered" /\ ~(row.sentAt /\ row.deliveredAt)
    \/ row.state = "sent" /\ ~row.sentAt
    \/ row.state = "failed" /\ ~row.failedAt
    \/ row.state \in {"cancelled", "draft", "queued"} /\ (row.sentAt \/ row.deliveredAt)

FlagImpossible(m) ==
    /\ msg[m].flag = "none"
    /\ Conflict(msg[m])
    /\ msg' = [msg EXCEPT ![m].flag = "conflict"]
    /\ UNCHANGED <<reservation, attempts, queueVars, pending, stopped, checked,
                   expiring, reply>>

(* Mutation: the repair also charges failed messages.                      *)
RepairCommitFailed(m) ==
    /\ msg[m].state \in {"sent", "failed"}
    /\ reservation[m] = "reserved"
    /\ SettleReservation(m, "committed")
    /\ UNCHANGED <<msg, attempts, queueVars, pending, stopped, checked, expiring, reply>>

(* repairMissingCommittedUsage, run with --confirm.  Its list of sent      *)
(* messages is read before the commit; a message bounced in between was    *)
(* accepted too, so one step stands for both.                              *)
RepairCommit(m) ==
    /\ msg[m].state = "sent"
    /\ reservation[m] = "reserved"
    /\ SettleReservation(m, "committed")
    /\ UNCHANGED <<msg, attempts, queueVars, pending, stopped, checked, expiring, reply>>

(* expireReservations: the message is read first, then only the            *)
(* reservation is locked and checked again.                                *)
ExpiryCandidate(m) ==
    /\ reservation[m] = "reserved"
    /\ \/ msg[m].state = "cancelled"
       \/ msg[m].state = "failed" /\ ~msg[m].transportAt

ExpiryScan(m) ==
    /\ ExpiryCandidate(m)
    /\ m \notin expiring
    /\ expiring' = expiring \cup {m}
    /\ UNCHANGED <<deliveryVars, queueVars, pending, stopped, checked, reply>>

Expire(m) ==
    /\ m \in expiring
    /\ expiring' = expiring \ {m}
    /\ SettleReservation(m, "expired")
    /\ UNCHANGED <<msg, attempts, queueVars, pending, stopped, checked, reply>>

EmergencyStop ==
    /\ "emergency_stop" \in Faults
    /\ ~stopped
    /\ stopped' = TRUE
    /\ UNCHANGED <<deliveryVars, queueVars, pending, checked, expiring, reply>>

EmergencyResume ==
    /\ stopped
    /\ stopped' = FALSE
    /\ UNCHANGED <<deliveryVars, queueVars, pending, checked, expiring, reply>>

-----------------------------------------------------------------------------
RequestStep(m) ==
    \/ Submit(m) \/ Cancel(m) \/ Retry(m)
    \/ \E s \in Sources : Dispatch(m, s) \/ RequestDies(m, s)

AdminStep(m) ==
    \/ ProviderRetryCheck(m) \/ ProviderRetry(m)
    \/ ProviderRetryRefused(m) \/ ProviderRetryDies(m)

(* One statement of handle(), or the queue's handling of its end.          *)
HandlerStep(w) ==
    \/ StopCheck(w) \/ Claim(w) \/ NothingToClaim(w) \/ StartAttempt(w)
    \/ RefuseBeforeTransport(w) \/ StampTransport(w) \/ Send(w)
    \/ MarkSent(w) \/ CommitUsage(w) \/ CompleteAccepted(w)
    \/ Requeue(w) \/ CompleteTemporary(w) \/ Exhaust(w) \/ MarkFailed(w)
    \/ ReleaseUsage(w) \/ CompletePermanent(w) \/ FinishJob(w) \/ JobThrew(w)

StaleStep(m) == FlagAmbiguous(m) \/ FailExhausted(m) \/ RequeueStale(m)

RepairStep(m) ==
    \/ RepairAttempt(m) \/ FlagImpossible(m) \/ RepairCommit(m)
    \/ ExpiryScan(m) \/ Expire(m)

Next ==
    \/ \E m \in Messages :
         \/ RequestStep(m) \/ AdminStep(m) \/ StaleStep(m) \/ RepairStep(m)
         \/ ProviderDelivers(m) \/ ProviderBounces(m) \/ LockExpires(m)
    \/ \E w \in Workers :
         \/ \E j \in Jobs : Pop(w, j)
         \/ HandlerStep(w) \/ HandlerError(w) \/ WorkerDies(w)
    \/ \E j \in Jobs : Redeliver(j)
    \/ EmergencyStop \/ EmergencyResume

Spec == Init /\ [][Next]_vars

(***************************************************************************)
(* Fairness.  Workers keep running jobs, the queue keeps offering them,    *)
(* dispatch follows its commit, the scheduler keeps running the stale      *)
(* reconciler and an emergency stop is eventually lifted.  Nothing is      *)
(* assumed of users, admins, the provider or the other reconcilers.        *)
(***************************************************************************)
Fairness ==
    /\ \A m \in Messages : WF_vars(StaleStep(m))
    /\ \A m \in Messages : \A s \in Sources : WF_vars(Dispatch(m, s))
    /\ \A w \in Workers : WF_vars(HandlerStep(w))
    /\ \A j \in Jobs : WF_vars(\E w \in Workers : Pop(w, j))
    /\ \A j \in Jobs : WF_vars(Redeliver(j))
    /\ WF_vars(EmergencyResume)

FairSpec == Spec /\ Fairness

=============================================================================
