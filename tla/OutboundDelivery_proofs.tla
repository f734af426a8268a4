----------------------- MODULE OutboundDelivery_proofs -----------------------
(***************************************************************************)
(* Type correctness of outbound delivery, for every number of messages,    *)
(* jobs and workers, every budget and every set of faults.                 *)
(*                                                                         *)
(* TypeOK alone is not inductive: a worker indexes msg and jobs with what  *)
(* it remembers, so Linked (from DeliveryInvariant) is carried along.      *)
(***************************************************************************)
EXTENDS DeliveryInvariant, TLAPS

-----------------------------------------------------------------------------
(* Rows.                                                                   *)

LEMMA ClaimedRowType ==
  ASSUME NEW row \in MessageRow, row.attempt < AttemptBound
  PROVE  ClaimedRow(row) \in MessageRow
<1>1. row.attempt \in 0 .. AttemptBound
  BY DEF MessageRow
<1>2. row.attempt + 1 \in 0 .. AttemptBound
  BY <1>1, AttemptBoundAssumption
<1>3. QED
  BY <1>2 DEF ClaimedRow, MessageRow, States

LEMMA FailedRowType ==
  ASSUME NEW row \in MessageRow, NEW code \in FailureClasses
  PROVE  FailedRow(row, code) \in MessageRow
BY DEF FailedRow, MessageRow, States

LEMMA SentRowType ==
  ASSUME NEW row \in MessageRow
  PROVE  SentRow(row) \in MessageRow
BY DEF SentRow, MessageRow, States, FailureClasses

LEMMA RowEditType ==
  ASSUME NEW row \in MessageRow
  PROVE  /\ \A s \in States : [row EXCEPT !.state = s] \in MessageRow
         /\ \A f \in Flags : [row EXCEPT !.flag = f] \in MessageRow
         /\ \A c \in FailureClasses : [row EXCEPT !.failure = c] \in MessageRow
         /\ \A b \in BOOLEAN : /\ [row EXCEPT !.transportAt = b] \in MessageRow
                              /\ [row EXCEPT !.deliveredAt = b] \in MessageRow
                              /\ [row EXCEPT !.failedAt = b] \in MessageRow
BY DEF MessageRow

LEMMA MoveType ==
  ASSUME TypeOK, Linked, NEW w \in Workers, worker[w].pc # "idle",
         NEW place \in Places \ {"idle"}, Move(w, place)
  PROVE  worker' \in [Workers -> WorkerRow] /\ (UNCHANGED jobs => Linked')
<1>1. worker[w] \in WorkerRow /\ 0 \in 0 .. AttemptBound
  BY AttemptBoundAssumption DEF TypeOK
<1>2. worker' \in [Workers -> WorkerRow]
  BY <1>1 DEF TypeOK, Move, WorkerRow, Results
<1>3. \A v \in Workers : /\ worker'[v].msg = worker[v].msg
                         /\ worker'[v].job = worker[v].job
                         /\ worker'[v].pc # "idle" => worker[v].pc # "idle"
  BY <1>1 DEF TypeOK, Move, WorkerRow
<1>4. ASSUME UNCHANGED jobs PROVE Linked'
  BY <1>3, <1>4 DEF Linked
<1>5. QED
  BY <1>2, <1>4

LEMMA IdleType == IdleWorker \in WorkerRow /\ NoJobRow \in JobRow
<1>1. 0 \in 0 .. AttemptBound /\ 0 \in 0 .. MaxAttempts
  BY AttemptBoundAssumption, MaxAttemptsAssumption
<1>2. QED
  BY <1>1 DEF IdleWorker, NoJobRow, WorkerRow, JobRow, Places, Results

LEMMA RowsType ==
  ASSUME TypeOK, NEW m, NEW k, NEW outcome \in RowStates, CompleteRow(m, k, outcome)
  PROVE  attempts' \in [Messages -> [AttemptNumbers -> RowStates]]
BY DEF TypeOK, CompleteRow

LEMMA RowWriteType ==
  ASSUME TypeOK, NEW m, NEW k, NEW outcome \in RowStates,
         attempts' = [attempts EXCEPT ![m][k] = outcome]
  PROVE  attempts' \in [Messages -> [AttemptNumbers -> RowStates]]
BY DEF TypeOK

LEMMA ReplyWriteType ==
  ASSUME TypeOK, NEW m, NEW k, NEW answer \in Replies,
         reply' = [reply EXCEPT ![m][k] = answer]
  PROVE  reply' \in [Messages -> [AttemptNumbers -> Replies]]
BY DEF TypeOK

LEMMA SettleType ==
  ASSUME TypeOK, NEW m, NEW outcome \in ReservationStates, SettleReservation(m, outcome)
  PROVE  reservation' \in [Messages -> ReservationStates]
BY DEF TypeOK, SettleReservation

-----------------------------------------------------------------------------
(* Requests, admins, reconcilers and provider events leave workers alone.  *)

LEMMA RequestStepType ==
  ASSUME TypeOK, Linked, NEW m \in Messages, RequestStep(m)
  PROVE  TypeOK' /\ Linked'
<1> USE DEF TypeOK, deliveryVars, queueVars
<1>1. CASE Submit(m)
  <2>1. msg' \in [Messages -> MessageRow]
    <3>1. msg' = [msg EXCEPT ![m] = [@ EXCEPT !.state = "queued"]]
      BY <1>1 DEF Submit
    <3>2. QED
      BY <3>1, RowEditType DEF States
  <2>2. reservation' \in [Messages -> ReservationStates]
    BY <1>1 DEF Submit, ReservationStates
  <2>3. pending' \subseteq Messages \X Sources
    BY <1>1 DEF Submit, Sources
  <2>4. QED
    BY <1>1, <2>1, <2>2, <2>3 DEF Submit, Linked
<1>2. CASE Cancel(m)
  <2>1. reservation' \in [Messages -> ReservationStates]
    BY <1>2, SettleType DEF Cancel, ReservationStates
  <2>2. msg' = [msg EXCEPT ![m] = [@ EXCEPT !.state = "cancelled"]]
    BY <1>2 DEF Cancel
  <2>3. msg' \in [Messages -> MessageRow]
    BY <2>2, RowEditType DEF States
  <2>4. QED
    BY <1>2, <2>1, <2>3 DEF Cancel, Linked
<1>3. CASE Retry(m)
  <2>1. [msg[m] EXCEPT !.state = "queued", !.failedAt = FALSE, !.failure = "none"]
          \in MessageRow
    <3>1. [msg[m] EXCEPT !.state = "queued"] \in MessageRow
      BY RowEditType DEF States
    <3>2. [[msg[m] EXCEPT !.state = "queued"] EXCEPT !.failedAt = FALSE] \in MessageRow
      BY <3>1, RowEditType
    <3>3. QED
      BY <3>2, RowEditType DEF FailureClasses
  <2>2. msg' = [msg EXCEPT ![m] =
          [@ EXCEPT !.state = "queued", !.failedAt = FALSE, !.failure = "none"]]
    BY <1>3 DEF Retry
  <2>3. msg' \in [Messages -> MessageRow]
    BY <2>1, <2>2
  <2>4. pending' \subseteq Messages \X Sources
    BY <1>3 DEF Retry, Sources
  <2>5. QED
    BY <1>3, <2>3, <2>4 DEF Retry, Linked
<1>4. ASSUME NEW s \in Sources, Dispatch(m, s) PROVE TypeOK' /\ Linked'
  <2>1. CASE m \in uniqueLock
    BY <1>4, <2>1 DEF Dispatch, Linked
  <2>2. CASE m \notin uniqueLock
    <3>1. PICK j \in Jobs : jobs' = [jobs EXCEPT ![j] =
             [status |-> "available", msg |-> m, tries |-> 0]]
      BY <1>4, <2>2 DEF Dispatch
    <3>2. 0 \in 0 .. MaxAttempts
      BY MaxAttemptsAssumption
    <3>3. jobs' \in [Jobs -> JobRow]
      BY <3>1, <3>2 DEF JobRow
    <3>4. Linked'
      BY <1>4, <3>1 DEF Dispatch, Linked
    <3>5. QED
      BY <1>4, <2>2, <3>3, <3>4 DEF Dispatch
  <2>3. QED
    BY <2>1, <2>2
<1>5. ASSUME NEW s \in Sources, RequestDies(m, s) PROVE TypeOK' /\ Linked'
  BY <1>5 DEF RequestDies, Linked
<1>6. QED
  BY <1>1, <1>2, <1>3, <1>4, <1>5 DEF RequestStep

LEMMA ProviderRetryType ==
  ASSUME TypeOK, Linked, NEW m \in Messages, ProviderRetry(m)
  PROVE  TypeOK' /\ Linked'
<1> USE DEF TypeOK
<1> DEFINE row == [ClaimedRow(msg[m]) EXCEPT !.transportAt = TRUE]
           k == msg[m].attempt + 1
<1>1. PICK result \in Results \ {"none"}, answer \in Replies,
           code \in FailureClasses \ {"none"} :
        /\ answer \in AnswersFor(result)
        /\ msg' = [msg EXCEPT ![m] = IF result = "accepted" THEN SentRow(row)
                                                          ELSE FailedRow(row, code)]
        /\ attempts' = [attempts EXCEPT ![m][k] =
                          IF @ \in TerminalRow THEN @
                          ELSE CASE result = "accepted"  -> "accepted"
                                 [] result = "temporary" -> "temporary_failure"
                                 [] result = "permanent" -> "permanent_failure"]
        /\ reply' = [reply EXCEPT ![m][k] = answer]
  BY DEF ProviderRetry, AnswersFor, CodesFor, ReportedFailed, Replies
<1>2. msg[m].attempt \in 0 .. AttemptBound /\ msg[m].attempt + 1 <= AttemptBound
  BY DEF ProviderRetry, MessageRow
<1>3. msg[m].attempt < AttemptBound
  BY <1>2, AttemptBoundAssumption
<1>4. ClaimedRow(msg[m]) \in MessageRow
  BY <1>3, ClaimedRowType
<1>5. row \in MessageRow
  BY <1>4 DEF MessageRow
<1> HIDE DEF row
<1>6. SentRow(row) \in MessageRow /\ FailedRow(row, code) \in MessageRow
  BY <1>5, SentRowType, FailedRowType
<1>7. msg' \in [Messages -> MessageRow]
  BY <1>1, <1>6
<1>8. attempts' \in [Messages -> [AttemptNumbers -> RowStates]]
  <2>1. \A old \in RowStates :
          (IF old \in TerminalRow THEN old
           ELSE CASE result = "accepted"  -> "accepted"
                  [] result = "temporary" -> "temporary_failure"
                  [] result = "permanent" -> "permanent_failure") \in RowStates
    BY <1>1 DEF Results, RowStates
  <2> HIDE DEF k
  <2>2. QED
    BY <1>1, <2>1
<1>9. reply' \in [Messages -> [AttemptNumbers -> Replies]]
  <2> HIDE DEF k
  <2>1. QED
    BY <1>1 DEF Replies
<1>10. QED
  BY <1>7, <1>8, <1>9 DEF ProviderRetry, queueVars, Linked

LEMMA AdminStepType ==
  ASSUME TypeOK, Linked, NEW m \in Messages, AdminStep(m)
  PROVE  TypeOK' /\ Linked'
<1>1. CASE ProviderRetryCheck(m)
  BY <1>1 DEF ProviderRetryCheck, TypeOK, Linked, deliveryVars, queueVars
<1>2. CASE ProviderRetry(m)
  BY <1>2, ProviderRetryType
<1>3. CASE ProviderRetryRefused(m)
  BY <1>3 DEF ProviderRetryRefused, TypeOK, Linked, deliveryVars, queueVars
<1>4. CASE ProviderRetryDies(m)
  <2>1. reply' \in [Messages -> [AttemptNumbers -> Replies]]
    BY <1>4, ReplyWriteType DEF ProviderRetryDies, Replies, ReportedFailed
  <2>2. QED
    BY <1>4, <2>1 DEF ProviderRetryDies, TypeOK, Linked, deliveryVars, queueVars
<1>5. QED
  BY <1>1, <1>2, <1>3, <1>4 DEF AdminStep

LEMMA StaleStepType ==
  ASSUME TypeOK, Linked, NEW m \in Messages, StaleStep(m)
  PROVE  TypeOK' /\ Linked'
<1>1. CASE FlagAmbiguous(m)
  <2>1. attempts' \in [Messages -> [AttemptNumbers -> RowStates]]
    BY <1>1, RowsType DEF FlagAmbiguous, RowStates
  <2>2. msg' \in [Messages -> MessageRow]
    <3>1. msg' = [msg EXCEPT ![m] = [@ EXCEPT !.flag = "ambiguous"]]
      BY <1>1 DEF FlagAmbiguous
    <3>2. QED
      BY <3>1, RowEditType DEF Flags, TypeOK
  <2>3. QED
    BY <1>1, <2>1, <2>2 DEF FlagAmbiguous, TypeOK, Linked, queueVars
<1>2. CASE FailExhausted(m)
  <2>1. msg' \in [Messages -> MessageRow]
    BY <1>2, FailedRowType DEF FailExhausted, TypeOK, FailureClasses
  <2>2. QED
    BY <1>2, <2>1 DEF FailExhausted, TypeOK, Linked, queueVars
<1>3. CASE RequeueStale(m)
  <2>1. msg' \in [Messages -> MessageRow]
    <3>1. msg' = [msg EXCEPT ![m] = [@ EXCEPT !.state = "queued"]]
      BY <1>3 DEF RequeueStale
    <3>2. QED
      BY <3>1, RowEditType DEF States, TypeOK
  <2>2. pending' \subseteq Messages \X Sources
    BY <1>3 DEF RequeueStale, TypeOK, Sources
  <2>3. QED
    BY <1>3, <2>1, <2>2 DEF RequeueStale, TypeOK, Linked, queueVars
<1>4. QED
  BY <1>1, <1>2, <1>3 DEF StaleStep

LEMMA RepairStepType ==
  ASSUME TypeOK, Linked, NEW m \in Messages, RepairStep(m)
  PROVE  TypeOK' /\ Linked'
<1> USE DEF TypeOK, Linked, deliveryVars, queueVars
<1>1. CASE RepairAttempt(m)
  <2>1. attempts' \in [Messages -> [AttemptNumbers -> RowStates]]
    BY <1>1, RowWriteType DEF RepairAttempt, RowStates
  <2>2. QED
    BY <1>1, <2>1 DEF RepairAttempt
<1>2. CASE FlagImpossible(m)
  <2>1. msg' \in [Messages -> MessageRow]
    <3>1. msg' = [msg EXCEPT ![m] = [@ EXCEPT !.flag = "conflict"]]
      BY <1>2 DEF FlagImpossible
    <3>2. QED
      BY <3>1, RowEditType DEF Flags
  <2>2. QED
    BY <1>2, <2>1 DEF FlagImpossible
<1>3. CASE RepairCommit(m)
  <2>1. reservation' \in [Messages -> ReservationStates]
    BY <1>3, SettleType DEF RepairCommit, ReservationStates
  <2>2. QED
    BY <1>3, <2>1 DEF RepairCommit
<1>4. CASE ExpiryScan(m)
  BY <1>4 DEF ExpiryScan
<1>5. CASE Expire(m)
  <2>1. reservation' \in [Messages -> ReservationStates]
    BY <1>5, SettleType DEF Expire, ReservationStates
  <2>2. QED
    BY <1>5, <2>1 DEF Expire
<1>6. QED
  BY <1>1, <1>2, <1>3, <1>4, <1>5 DEF RepairStep

LEMMA ProviderStepType ==
  ASSUME TypeOK, Linked, NEW m \in Messages,
         ProviderDelivers(m) \/ ProviderBounces(m)
  PROVE  TypeOK' /\ Linked'
<1>1. CASE ProviderDelivers(m)
  <2>1. msg' = [msg EXCEPT ![m] = [[@ EXCEPT !.state = "delivered"]
                                     EXCEPT !.deliveredAt = TRUE]]
    BY <1>1 DEF ProviderDelivers
  <2>2. [msg[m] EXCEPT !.state = "delivered"] \in MessageRow
    BY RowEditType DEF TypeOK, States
  <2>3. msg' \in [Messages -> MessageRow]
    BY <2>1, <2>2, RowEditType DEF TypeOK
  <2>4. QED
    BY <1>1, <2>3 DEF ProviderDelivers, TypeOK, Linked, queueVars
<1>2. CASE ProviderBounces(m)
  <2>1. msg' \in [Messages -> MessageRow]
    BY <1>2, FailedRowType DEF ProviderBounces, TypeOK, FailureClasses
  <2>2. reply' \in [Messages -> [AttemptNumbers -> Replies]]
    BY <1>2 DEF ProviderBounces, TypeOK, Replies
  <2>3. QED
    BY <1>2, <2>1, <2>2 DEF ProviderBounces, TypeOK, Linked, queueVars
<1>3. QED
  BY <1>1, <1>2

-----------------------------------------------------------------------------
(* The queue and the handler.                                              *)

LEMMA PopType ==
  ASSUME TypeOK, Linked, NEW w \in Workers, NEW j \in Jobs, Pop(w, j)
  PROVE  TypeOK' /\ Linked'
<1>1. jobs[j].msg \in Messages /\ jobs[j] \in JobRow
  BY DEF Pop, TypeOK, Linked
<1>2. CASE jobs[j].tries >= MaxAttempts
  <2>1. jobs' \in [Jobs -> JobRow]
    BY <1>2, IdleType DEF Pop, Free, TypeOK
  <2>2. Linked'
    BY <1>2, <2>1 DEF Pop, Free, TypeOK, Linked, NoJobRow
  <2>3. QED
    BY <1>2, <2>1, <2>2 DEF Pop, TypeOK, deliveryVars
<1>3. CASE ~(jobs[j].tries >= MaxAttempts)
  <2> DEFINE new == [IdleWorker EXCEPT !.pc = "popped", !.job = j,
                       !.msg = jobs[j].msg, !.tries = jobs[j].tries + 1]
  <2>1. jobs[j].tries + 1 \in 0 .. MaxAttempts
    BY <1>1, <1>3, MaxAttemptsAssumption DEF JobRow
  <2>2. new \in WorkerRow /\ new.msg = jobs[j].msg /\ new.job = j
    BY <1>1, <2>1, IdleType DEF IdleWorker, WorkerRow, Places
  <2>3. jobs' = [jobs EXCEPT ![j].status = "reserved", ![j].tries = @ + 1]
        /\ worker' = [worker EXCEPT ![w] = new]
    BY <1>3 DEF Pop
  <2> HIDE DEF new
  <2>4. jobs' \in [Jobs -> JobRow] /\ \A i \in Jobs : jobs'[i].msg = jobs[i].msg
    BY <1>1, <2>1, <2>3 DEF TypeOK, JobRow
  <2>5. worker' \in [Workers -> WorkerRow]
    BY <2>2, <2>3 DEF TypeOK
  <2>6. \A i \in Jobs : jobs'[i].status # "absent" => jobs'[i].msg \in Messages
    <3>1. \A i \in Jobs : i # j => jobs'[i] = jobs[i]
      BY <2>3 DEF TypeOK
    <3>2. QED
      BY <1>1, <2>4, <3>1 DEF Linked
  <2>7. \A v \in Workers : worker'[v].pc # "idle" =>
          worker'[v].msg \in Messages /\ worker'[v].job \in Jobs
    BY <1>1, <2>2, <2>3 DEF TypeOK, Linked
  <2>8. QED
    BY <1>3, <2>4, <2>5, <2>6, <2>7 DEF Pop, TypeOK, Linked, deliveryVars
<1>4. QED
  BY <1>2, <1>3

(* A worker goes back to idle, and its job is freed, released or kept.     *)
LEMMA IdleAgainType ==
  ASSUME TypeOK, Linked, NEW w \in Workers, worker[w].pc # "idle",
         worker' = [worker EXCEPT ![w] = IdleWorker],
         Free(worker[w].job) \/ Release(w) \/ UNCHANGED jobs
  PROVE  /\ worker' \in [Workers -> WorkerRow]
         /\ jobs' \in [Jobs -> JobRow]
         /\ Linked'
<1>1. worker[w] \in WorkerRow /\ worker[w].msg \in Messages /\ worker[w].job \in Jobs
  BY DEF TypeOK, Linked
<1>2. worker' \in [Workers -> WorkerRow]
  BY IdleType DEF TypeOK
<1>3. \A v \in Workers : worker'[v].pc # "idle" => worker'[v] = worker[v]
  BY DEF TypeOK, IdleWorker
<1>4. jobs' \in [Jobs -> JobRow]
      /\ \A i \in Jobs : jobs'[i].status # "absent" => jobs'[i].msg \in Messages
  <2>1. CASE Free(worker[w].job)
    BY <2>1, IdleType DEF Free, TypeOK, Linked, NoJobRow
  <2>2. CASE Release(w)
    <3>1. [status |-> "available", msg |-> worker[w].msg,
           tries |-> worker[w].tries] \in JobRow
      BY <1>1 DEF JobRow, WorkerRow
    <3>2. QED
      BY <1>1, <2>2, <3>1 DEF Release, TypeOK, Linked
  <2>3. CASE UNCHANGED jobs
    BY <2>3 DEF TypeOK, Linked
  <2>4. QED
    BY <2>1, <2>2, <2>3
<1>5. QED
  BY <1>2, <1>3, <1>4 DEF Linked

LEMMA HandlerStartType ==
  ASSUME TypeOK, Linked, NEW w \in Workers,
         \/ StopCheck(w) \/ Claim(w) \/ NothingToClaim(w) \/ StartAttempt(w)
         \/ RefuseBeforeTransport(w) \/ StampTransport(w) \/ Send(w)
  PROVE  TypeOK' /\ Linked'
<1> DEFINE m == worker[w].msg
<1>1. CASE StopCheck(w)
  <2>1. CASE stopped
    BY <1>1, <2>1, IdleAgainType DEF StopCheck, TypeOK, deliveryVars
  <2>2. CASE ~stopped
    <3>1. worker' \in [Workers -> WorkerRow] /\ Linked'
      BY <1>1, <2>2, MoveType DEF StopCheck, Places
    <3>2. QED
      BY <1>1, <2>2, <3>1 DEF StopCheck, TypeOK, deliveryVars
  <2>3. QED
    BY <2>1, <2>2
<1>2. CASE Claim(w)
  <2>1. m \in Messages /\ msg[m].attempt < AttemptBound /\ worker[w] \in WorkerRow
    BY <1>2 DEF Claim, Linked, TypeOK
  <2>2. msg[m].attempt + 1 \in 0 .. AttemptBound
    BY <2>1, AttemptBoundAssumption DEF TypeOK, MessageRow
  <2>3. msg' \in [Messages -> MessageRow]
    BY <1>2, <2>1, ClaimedRowType DEF Claim, TypeOK
  <2>4. worker' = [worker EXCEPT ![w].pc = "claimed", ![w].attempt = msg[m].attempt + 1]
    BY <1>2 DEF Claim
  <2>5. worker' \in [Workers -> WorkerRow]
    BY <2>1, <2>2, <2>4 DEF TypeOK, WorkerRow, Places, Claimed
  <2>6. \A v \in Workers : worker'[v].msg = worker[v].msg /\ worker'[v].job = worker[v].job
                           /\ (worker'[v].pc # "idle" => worker[v].pc # "idle")
    BY <1>2, <2>1, <2>4 DEF Claim, TypeOK, WorkerRow
  <2>7. Linked'
    BY <1>2, <2>6 DEF Claim, Linked
  <2>8. QED
    BY <1>2, <2>3, <2>5, <2>7 DEF Claim, TypeOK
<1>3. CASE NothingToClaim(w)
  <2>1. worker' \in [Workers -> WorkerRow] /\ Linked'
    BY <1>3, MoveType DEF NothingToClaim, Places
  <2>2. QED
    BY <1>3, <2>1 DEF NothingToClaim, TypeOK, deliveryVars
<1>4. CASE StartAttempt(w)
  <2>1. worker' \in [Workers -> WorkerRow] /\ Linked'
    BY <1>4, MoveType DEF StartAttempt, Places, Claimed
  <2>2. attempts' \in [Messages -> [AttemptNumbers -> RowStates]]
    BY <1>4 DEF StartAttempt, TypeOK, RowStates
  <2>3. QED
    BY <1>4, <2>1, <2>2 DEF StartAttempt, TypeOK
<1>5. CASE RefuseBeforeTransport(w)
  <2>1. worker' \in [Workers -> WorkerRow] /\ Linked'
    BY <1>5, MoveType DEF RefuseBeforeTransport, Places, Settling
  <2>2. msg' \in [Messages -> MessageRow]
    BY <1>5, FailedRowType DEF RefuseBeforeTransport, TypeOK, FailureClasses
  <2>3. QED
    BY <1>5, <2>1, <2>2 DEF RefuseBeforeTransport, TypeOK
<1>6. CASE StampTransport(w)
  <2>1. worker' \in [Workers -> WorkerRow] /\ Linked'
    BY <1>6, MoveType DEF StampTransport, Places, Claimed
  <2>2. msg' \in [Messages -> MessageRow]
    <3>1. \A row \in MessageRow : \A stamp \in BOOLEAN :
            [row EXCEPT !.transportAt = stamp] \in MessageRow
      BY DEF MessageRow
    <3>2. PICK stamp \in BOOLEAN :
            msg' = [msg EXCEPT ![m] = [@ EXCEPT !.transportAt = stamp]]
      <4>1. m \in Messages /\ msg[m].transportAt \in BOOLEAN
        BY <1>6 DEF StampTransport, Linked, TypeOK, MessageRow
      <4>2. (msg[m].transportAt \/ msg[m].state = "sending") \in BOOLEAN
        BY <4>1
      <4>3. QED
        BY <1>6, <4>1, <4>2 DEF StampTransport
    <3>3. QED
      BY <3>1, <3>2 DEF TypeOK
  <2>3. QED
    BY <1>6, <2>1, <2>2 DEF StampTransport, TypeOK
<1>7. CASE Send(w)
  <2>1. PICK result \in Results \ {"none"}, answer \in Replies :
          /\ answer \in AnswersFor(result)
          /\ worker' = [worker EXCEPT ![w].pc = "answered", ![w].result = result]
          /\ reply' = [reply EXCEPT ![worker[w].msg][worker[w].attempt] = answer]
    BY <1>7 DEF Send, AnswersFor, ReportedFailed, Replies
  <2>2. worker[w] \in WorkerRow
    BY DEF TypeOK
  <2>3. worker' \in [Workers -> WorkerRow]
    BY <2>1, <2>2 DEF TypeOK, WorkerRow, Places, Claimed
  <2>4. \A v \in Workers : worker'[v].msg = worker[v].msg /\ worker'[v].job = worker[v].job
                           /\ (worker'[v].pc # "idle" => worker[v].pc # "idle")
    BY <1>7, <2>1, <2>2 DEF Send, TypeOK, WorkerRow
  <2>5. reply' \in [Messages -> [AttemptNumbers -> Replies]]
    BY <2>1, ReplyWriteType DEF Replies
  <2>6. Linked'
    BY <1>7, <2>4 DEF Send, Linked
  <2>7. QED
    BY <1>7, <2>3, <2>5, <2>6 DEF Send, TypeOK, deliveryVars
<1>8. QED
  BY <1>1, <1>2, <1>3, <1>4, <1>5, <1>6, <1>7

LEMMA HandlerEndType ==
  ASSUME TypeOK, Linked, NEW w \in Workers,
         \/ MarkSent(w) \/ CommitUsage(w) \/ CompleteAccepted(w)
         \/ Requeue(w) \/ CompleteTemporary(w) \/ Exhaust(w) \/ MarkFailed(w)
         \/ ReleaseUsage(w) \/ CompletePermanent(w)
  PROVE  TypeOK' /\ Linked'
<1> DEFINE m == worker[w].msg
<1>1. CASE MarkSent(w)
  <2>1. worker' \in [Workers -> WorkerRow] /\ Linked'
    BY <1>1, MoveType DEF MarkSent, Places, Settling
  <2>2. msg' \in [Messages -> MessageRow]
    BY <1>1, SentRowType DEF MarkSent, TypeOK
  <2>3. QED
    BY <1>1, <2>1, <2>2 DEF MarkSent, TypeOK
<1>2. CASE CommitUsage(w)
  <2>1. worker' \in [Workers -> WorkerRow] /\ Linked'
    BY <1>2, MoveType DEF CommitUsage, Places, Settling
  <2>2. reservation' \in [Messages -> ReservationStates]
    BY <1>2, SettleType DEF CommitUsage, ReservationStates
  <2>3. QED
    BY <1>2, <2>1, <2>2 DEF CommitUsage, TypeOK
<1>3. CASE CompleteAccepted(w)
  <2>1. worker' \in [Workers -> WorkerRow] /\ Linked'
    BY <1>3, MoveType DEF CompleteAccepted, Places
  <2>2. attempts' \in [Messages -> [AttemptNumbers -> RowStates]]
    BY <1>3, RowsType DEF CompleteAccepted, RowStates
  <2>3. QED
    BY <1>3, <2>1, <2>2 DEF CompleteAccepted, TypeOK
<1>4. CASE Requeue(w)
  <2>1. worker' \in [Workers -> WorkerRow] /\ Linked'
    BY <1>4, MoveType DEF Requeue, Places, Settling
  <2>2. msg' \in [Messages -> MessageRow]
    <3>1. \A row \in MessageRow :
            [row EXCEPT !.state = "queued", !.failure = "other"] \in MessageRow
      BY DEF MessageRow, States, FailureClasses
    <3>2. QED
      BY <1>4, <3>1 DEF Requeue, TypeOK
  <2>3. QED
    BY <1>4, <2>1, <2>2 DEF Requeue, TypeOK
<1>5. CASE CompleteTemporary(w)
  <2>1. worker' \in [Workers -> WorkerRow] /\ Linked'
    BY <1>5, MoveType DEF CompleteTemporary, Places
  <2>2. attempts' \in [Messages -> [AttemptNumbers -> RowStates]]
    BY <1>5, RowsType DEF CompleteTemporary, RowStates
  <2>3. QED
    BY <1>5, <2>1, <2>2 DEF CompleteTemporary, TypeOK
<1>6. CASE Exhaust(w)
  <2>1. worker' \in [Workers -> WorkerRow] /\ Linked'
    BY <1>6, MoveType DEF Exhaust, Places, Claimed
  <2>2. attempts' \in [Messages -> [AttemptNumbers -> RowStates]]
    BY <1>6, RowsType DEF Exhaust, RowStates
  <2>3. QED
    BY <1>6, <2>1, <2>2 DEF Exhaust, TypeOK
<1>7. CASE MarkFailed(w)
  <2>1. PICK place \in {"done", "failed"} : Move(w, place)
    BY <1>7 DEF MarkFailed
  <2>2. worker' \in [Workers -> WorkerRow] /\ Linked'
    BY <1>7, <2>1, MoveType DEF MarkFailed, Places, Settling
  <2>3. msg' \in [Messages -> MessageRow]
    BY <1>7, FailedRowType DEF MarkFailed, TypeOK, CodesFor
  <2>4. QED
    BY <1>7, <2>2, <2>3 DEF MarkFailed, TypeOK
<1>8. CASE ReleaseUsage(w)
  <2>1. worker' \in [Workers -> WorkerRow] /\ Linked'
    BY <1>8, MoveType DEF ReleaseUsage, Places, Settling
  <2>2. reservation' \in [Messages -> ReservationStates]
    BY <1>8, SettleType DEF ReleaseUsage, ReservationStates
  <2>3. QED
    BY <1>8, <2>1, <2>2 DEF ReleaseUsage, TypeOK
<1>9. CASE CompletePermanent(w)
  <2>1. worker' \in [Workers -> WorkerRow] /\ Linked'
    BY <1>9, MoveType DEF CompletePermanent, Places
  <2>2. attempts' \in [Messages -> [AttemptNumbers -> RowStates]]
    BY <1>9, RowsType DEF CompletePermanent, RowStates
  <2>3. QED
    BY <1>9, <2>1, <2>2 DEF CompletePermanent, TypeOK
<1>10. QED
  BY <1>1, <1>2, <1>3, <1>4, <1>5, <1>6, <1>7, <1>8, <1>9

(* The ways a worker leaves handle(), and the queue's own steps.           *)
LEMMA QueueStepType ==
  ASSUME TypeOK, Linked
  PROVE  /\ \A w \in Workers :
              FinishJob(w) \/ JobThrew(w) \/ HandlerError(w) \/ WorkerDies(w)
                => TypeOK' /\ Linked'
         /\ \A j \in Jobs : Redeliver(j) => TypeOK' /\ Linked'
         /\ \A m \in Messages : LockExpires(m) => TypeOK' /\ Linked'
         /\ EmergencyStop \/ EmergencyResume => TypeOK' /\ Linked'
<1>1. ASSUME NEW w \in Workers, FinishJob(w) PROVE TypeOK' /\ Linked'
  BY <1>1, IdleAgainType DEF FinishJob, TypeOK, deliveryVars
<1>2. ASSUME NEW w \in Workers, JobThrew(w) PROVE TypeOK' /\ Linked'
  <2>1. worker' \in [Workers -> WorkerRow] /\ jobs' \in [Jobs -> JobRow] /\ Linked'
    BY <1>2, IdleAgainType DEF JobThrew
  <2>2. QED
    BY <1>2, <2>1 DEF JobThrew, TypeOK, deliveryVars
<1>3. ASSUME NEW w \in Workers, HandlerError(w) PROVE TypeOK' /\ Linked'
  <2>1. PICK place \in {"threw", "done"} : Move(w, place)
    BY <1>3 DEF HandlerError
  <2>2. worker' \in [Workers -> WorkerRow] /\ Linked'
    BY <1>3, <2>1, MoveType DEF HandlerError, Places
  <2>3. QED
    BY <1>3, <2>2 DEF HandlerError, TypeOK, deliveryVars
<1>4. ASSUME NEW w \in Workers, WorkerDies(w) PROVE TypeOK' /\ Linked'
  BY <1>4, IdleAgainType DEF WorkerDies, TypeOK, deliveryVars
<1>5. ASSUME NEW j \in Jobs, Redeliver(j) PROVE TypeOK' /\ Linked'
  <2>1. jobs' \in [Jobs -> JobRow]
    BY <1>5 DEF Redeliver, TypeOK, JobRow
  <2>2. \A i \in Jobs : jobs'[i].msg = jobs[i].msg
                        /\ (jobs'[i].status # "absent" => jobs[i].status # "absent")
    BY <1>5 DEF Redeliver, TypeOK, JobRow
  <2>3. QED
    BY <1>5, <2>1, <2>2 DEF Redeliver, TypeOK, Linked, deliveryVars
<1>6. ASSUME NEW m \in Messages, LockExpires(m) PROVE TypeOK' /\ Linked'
  BY <1>6 DEF LockExpires, TypeOK, Linked, deliveryVars
<1>7. ASSUME EmergencyStop \/ EmergencyResume PROVE TypeOK' /\ Linked'
  BY <1>7 DEF EmergencyStop, EmergencyResume, TypeOK, Linked, deliveryVars, queueVars
<1>8. QED
  BY <1>1, <1>2, <1>3, <1>4, <1>5, <1>6, <1>7

-----------------------------------------------------------------------------
LEMMA InitType == Init => TypeOK /\ Linked
<1> SUFFICES ASSUME Init PROVE TypeOK /\ Linked
  OBVIOUS
<1>1. 0 \in 0 .. AttemptBound
  BY AttemptBoundAssumption
<1>2. msg \in [Messages -> MessageRow]
  BY <1>1 DEF Init, MessageRow, States, FailureClasses, Flags
<1>3. jobs \in [Jobs -> JobRow] /\ worker \in [Workers -> WorkerRow]
  BY IdleType DEF Init
<1>4. Linked
  BY DEF Init, Linked, IdleWorker, NoJobRow
<1>5. QED
  BY <1>2, <1>3, <1>4 DEF Init, TypeOK, ReservationStates, RowStates, Replies

LEMMA NextType == TypeOK /\ Linked /\ [Next]_vars => TypeOK' /\ Linked'
<1> SUFFICES ASSUME TypeOK, Linked, [Next]_vars PROVE TypeOK' /\ Linked'
  OBVIOUS
<1>1. ASSUME NEW m \in Messages,
             \/ RequestStep(m) \/ AdminStep(m) \/ StaleStep(m) \/ RepairStep(m)
             \/ ProviderDelivers(m) \/ ProviderBounces(m) \/ LockExpires(m)
      PROVE  TypeOK' /\ Linked'
  BY <1>1, RequestStepType, AdminStepType, StaleStepType, RepairStepType,
     ProviderStepType, QueueStepType
<1>2. ASSUME NEW w \in Workers, NEW j \in Jobs, Pop(w, j) PROVE TypeOK' /\ Linked'
  BY <1>2, PopType
<1>3. ASSUME NEW w \in Workers, HandlerStep(w) \/ HandlerError(w) \/ WorkerDies(w)
      PROVE  TypeOK' /\ Linked'
  BY <1>3, HandlerStartType, HandlerEndType, QueueStepType DEF HandlerStep
<1>4. CASE (\E j \in Jobs : Redeliver(j)) \/ EmergencyStop \/ EmergencyResume
  BY <1>4, QueueStepType
<1>5. CASE UNCHANGED vars
  BY <1>5 DEF vars, TypeOK, Linked
<1>6. QED
  BY <1>1, <1>2, <1>3, <1>4, <1>5 DEF Next

(* Every reachable state is well typed, and no worker or queued job ever   *)
(* points at a message or a job that does not exist, whatever the faults.  *)
THEOREM TypeCorrect == Spec => [](TypeOK /\ Linked)
<1>1. Init => TypeOK /\ Linked
  BY InitType
<1>2. TypeOK /\ Linked /\ [Next]_vars => (TypeOK /\ Linked)'
  BY NextType
<1>3. QED
  BY <1>1, <1>2, PTL DEF Spec

-----------------------------------------------------------------------------
(* What a step may do to a row, whatever the faults.                       *)

LEMMA RowMoves ==
  ASSUME TypeOK, NEW m \in Messages, NEW row, msg' = [msg EXCEPT ![m] = row],
         \/ row.state = msg[m].state
         \/ row.state \in AllowedTransitions[msg[m].state]
         \/ msg[m].state = "failed" /\ row.state = "sent"
  PROVE  MovesAlongLifecycle
BY DEF TypeOK, MovesAlongLifecycle

LEMMA RowKept ==
  ASSUME TypeOK, NEW m \in Messages, NEW k, NEW new,
         attempts' = [attempts EXCEPT ![m][k] = new],
         attempts[m][k] \in TerminalRow => new = attempts[m][k]
  PROVE  KeepsTerminalRows
BY DEF TypeOK, KeepsTerminalRows

LEMMA CompletedRowKept ==
  ASSUME TypeOK, NEW m \in Messages, NEW k, NEW outcome, CompleteRow(m, k, outcome)
  PROVE  KeepsTerminalRows
BY RowKept DEF CompleteRow, TerminalRow, RowStates

LEMMA Untouched ==
  /\ UNCHANGED msg => MovesAlongLifecycle
  /\ UNCHANGED attempts => KeepsTerminalRows
BY DEF MovesAlongLifecycle, KeepsTerminalRows

LEMMA MessageStepLawful ==
  ASSUME TypeOK, NEW m \in Messages,
         \/ RequestStep(m) \/ AdminStep(m) \/ StaleStep(m) \/ RepairStep(m)
         \/ ProviderDelivers(m) \/ ProviderBounces(m) \/ LockExpires(m)
  PROVE  MovesAlongLifecycle /\ KeepsTerminalRows
<1>t. msg[m] \in MessageRow
  BY DEF TypeOK
<1>1. CASE Submit(m)
  <2>1. msg' = [msg EXCEPT ![m] = [@ EXCEPT !.state = "queued"]]
    BY <1>1 DEF Submit
  <2>2. "queued" \in AllowedTransitions[msg[m].state]
    BY <1>1 DEF Submit, AllowedTransitions
  <2>3. QED
    BY <1>1, <1>t, <2>1, <2>2, RowMoves, Untouched DEF Submit, MessageRow
<1>2. CASE Cancel(m)
  <2>1. msg' = [msg EXCEPT ![m] = [@ EXCEPT !.state = "cancelled"]]
    BY <1>2 DEF Cancel
  <2>2. "cancelled" \in AllowedTransitions[msg[m].state]
    BY <1>2 DEF Cancel, AllowedTransitions
  <2>3. QED
    BY <1>2, <1>t, <2>1, <2>2, RowMoves, Untouched DEF Cancel, MessageRow
<1>3. CASE Retry(m)
  <2>1. msg' = [msg EXCEPT ![m] =
          [@ EXCEPT !.state = "queued", !.failedAt = FALSE, !.failure = "none"]]
    BY <1>3 DEF Retry
  <2>2. "queued" \in AllowedTransitions[msg[m].state]
    BY <1>3 DEF Retry, AllowedTransitions
  <2>3. QED
    BY <1>3, <1>t, <2>1, <2>2, RowMoves, Untouched DEF Retry, MessageRow
<1>4. CASE \E s \in Sources : Dispatch(m, s) \/ RequestDies(m, s)
  BY <1>4, Untouched DEF Dispatch, RequestDies, deliveryVars
<1>5. CASE ProviderRetryCheck(m) \/ ProviderRetryRefused(m) \/ ProviderRetryDies(m)
  BY <1>5, Untouched DEF ProviderRetryCheck, ProviderRetryRefused, ProviderRetryDies, deliveryVars
<1>6. CASE ProviderRetry(m)
  <2> DEFINE row == [ClaimedRow(msg[m]) EXCEPT !.transportAt = TRUE]
             k == msg[m].attempt + 1
  <2>1. PICK result \in Results \ {"none"}, answer \in Replies,
             code \in FailureClasses \ {"none"} :
          /\ answer \in AnswersFor(result)
          /\ msg' = [msg EXCEPT ![m] = IF result = "accepted" THEN SentRow(row)
                                                            ELSE FailedRow(row, code)]
          /\ attempts' = [attempts EXCEPT ![m][k] =
                            IF @ \in TerminalRow THEN @
                            ELSE CASE result = "accepted"  -> "accepted"
                                   [] result = "temporary" -> "temporary_failure"
                                   [] result = "permanent" -> "permanent_failure"]
    BY <1>6 DEF ProviderRetry, AnswersFor, CodesFor, ReportedFailed, Replies
  <2>2. SentRow(row).state = "sent" /\ FailedRow(row, code).state = "failed"
    BY <1>t DEF SentRow, FailedRow, ClaimedRow, MessageRow
  <2>3. msg[m].state = "failed"
    BY <1>6 DEF ProviderRetry
  <2> HIDE DEF row, k
  <2>4. MovesAlongLifecycle
    BY <2>1, <2>2, <2>3, RowMoves
  <2>5. KeepsTerminalRows
    BY <2>1 DEF TypeOK, KeepsTerminalRows
  <2>6. QED
    BY <2>4, <2>5
<1>7. CASE FlagAmbiguous(m)
  <2>1. msg' = [msg EXCEPT ![m] = [@ EXCEPT !.flag = "ambiguous"]]
    BY <1>7 DEF FlagAmbiguous
  <2>2. QED
    BY <1>7, <1>t, <2>1, RowMoves, CompletedRowKept DEF FlagAmbiguous, MessageRow
<1>8. CASE FailExhausted(m)
  <2>1. FailedRow(msg[m], "other").state = "failed"
    BY <1>t DEF FailedRow, MessageRow
  <2>2. "failed" \in AllowedTransitions[msg[m].state]
    BY <1>8 DEF FailExhausted, Stale, AllowedTransitions
  <2>3. QED
    BY <1>8, <2>1, <2>2, RowMoves, Untouched DEF FailExhausted
<1>9. CASE RequeueStale(m)
  <2>1. msg' = [msg EXCEPT ![m] = [@ EXCEPT !.state = "queued"]]
    BY <1>9 DEF RequeueStale
  <2>2. "queued" \in AllowedTransitions[msg[m].state]
    BY <1>9 DEF RequeueStale, Stale, AllowedTransitions
  <2>3. QED
    BY <1>9, <1>t, <2>1, <2>2, RowMoves, Untouched DEF RequeueStale, MessageRow
<1>10. CASE RepairAttempt(m)
  <2>1. attempts[m][msg[m].attempt] \notin TerminalRow
    BY <1>10 DEF RepairAttempt, TerminalRow
  <2>2. PICK new \in RowStates : attempts' = [attempts EXCEPT ![m][msg[m].attempt] = new]
    BY <1>10 DEF RepairAttempt, RowStates
  <2>3. KeepsTerminalRows
    BY <2>1, <2>2, RowKept
  <2>4. QED
    BY <1>10, <2>3, Untouched DEF RepairAttempt
<1>11. CASE FlagImpossible(m)
  <2>1. msg' = [msg EXCEPT ![m] = [@ EXCEPT !.flag = "conflict"]]
    BY <1>11 DEF FlagImpossible
  <2>2. QED
    BY <1>11, <1>t, <2>1, RowMoves, Untouched DEF FlagImpossible, MessageRow
<1>12. CASE RepairCommit(m) \/ ExpiryScan(m) \/ Expire(m) \/ LockExpires(m)
  BY <1>12, Untouched DEF RepairCommit, ExpiryScan, Expire, LockExpires, deliveryVars
<1>13. CASE ProviderDelivers(m)
  <2>1. msg' = [msg EXCEPT ![m] = [@ EXCEPT !.state = "delivered", !.deliveredAt = TRUE]]
    BY <1>13 DEF ProviderDelivers
  <2>2. "delivered" \in AllowedTransitions[msg[m].state]
    BY <1>13 DEF ProviderDelivers, AllowedTransitions
  <2>3. QED
    BY <1>13, <1>t, <2>1, <2>2, RowMoves, Untouched DEF ProviderDelivers, MessageRow
<1>14. CASE ProviderBounces(m)
  <2>1. FailedRow(msg[m], "other").state = "failed"
    BY <1>t DEF FailedRow, MessageRow
  <2>2. "failed" \in AllowedTransitions[msg[m].state]
    BY <1>14 DEF ProviderBounces, AllowedTransitions
  <2>3. QED
    BY <1>14, <2>1, <2>2, RowMoves, Untouched DEF ProviderBounces
<1>15. QED
  BY <1>1, <1>2, <1>3, <1>4, <1>5, <1>6, <1>7, <1>8, <1>9, <1>10, <1>11, <1>12, <1>13, <1>14
     DEF RequestStep, AdminStep, StaleStep, RepairStep

LEMMA HandlerStepLawful ==
  ASSUME TypeOK, Linked, NEW w \in Workers, HandlerStep(w)
  PROVE  MovesAlongLifecycle /\ KeepsTerminalRows
<1> DEFINE m == worker[w].msg
<1>1. CASE \/ StopCheck(w) \/ NothingToClaim(w) \/ Send(w) \/ CommitUsage(w)
           \/ ReleaseUsage(w) \/ FinishJob(w) \/ JobThrew(w)
  BY <1>1, Untouched
     DEF StopCheck, NothingToClaim, Send, CommitUsage, ReleaseUsage, FinishJob, JobThrew,
         deliveryVars
<1>2. CASE worker[w].pc # "idle"
  <2>t. m \in Messages /\ msg[m] \in MessageRow
    BY <1>2 DEF Linked, TypeOK
  <2>1. CASE Claim(w)
    <3>1. ClaimedRow(msg[m]).state = "sending"
      BY <2>t DEF ClaimedRow, MessageRow
    <3>2. "sending" \in AllowedTransitions[msg[m].state]
      BY <2>1 DEF Claim, AllowedTransitions
    <3>3. msg' = [msg EXCEPT ![m] = ClaimedRow(msg[m])] /\ UNCHANGED attempts
      BY <2>1 DEF Claim
    <3> HIDE DEF m
    <3>4. QED
      BY <2>t, <3>1, <3>2, <3>3, RowMoves, Untouched
  <2>2. CASE StartAttempt(w)
    <3>1. KeepsTerminalRows
      BY <2>2, <2>t DEF StartAttempt, TypeOK, KeepsTerminalRows, TerminalRow
    <3>2. QED
      BY <2>2, <3>1, Untouched DEF StartAttempt
  <2>3. CASE RefuseBeforeTransport(w) \/ MarkFailed(w)
    <3>1. UNCHANGED attempts
      BY <2>3 DEF RefuseBeforeTransport, MarkFailed
    <3>2. CASE msg[m].state = "sending"
      <4>1. PICK code \in FailureClasses : msg' = [msg EXCEPT ![m] = FailedRow(msg[m], code)]
        BY <2>3, <3>2 DEF RefuseBeforeTransport, MarkFailed, FailureClasses, CodesFor
      <4>2. FailedRow(msg[m], code).state = "failed"
        BY <2>t DEF FailedRow, MessageRow
      <4>3. "failed" \in AllowedTransitions[msg[m].state]
        BY <3>2 DEF AllowedTransitions
      <4> HIDE DEF m
      <4>4. QED
        BY <2>t, <3>1, <4>1, <4>2, <4>3, RowMoves, Untouched
    <3>3. CASE msg[m].state # "sending"
      BY <2>3, <3>1, <3>3, Untouched DEF RefuseBeforeTransport, MarkFailed
    <3>4. QED
      BY <3>2, <3>3
  <2>4. CASE StampTransport(w)
    <3>1. PICK b : msg' = [msg EXCEPT ![m] = [msg[m] EXCEPT !.transportAt = b]]
      BY <2>4 DEF StampTransport
    <3>2. [msg[m] EXCEPT !.transportAt = b].state = msg[m].state
      BY <2>t DEF MessageRow
    <3>3. UNCHANGED attempts
      BY <2>4 DEF StampTransport
    <3> HIDE DEF m
    <3>4. QED
      BY <2>t, <3>1, <3>2, <3>3, RowMoves, Untouched
  <2>5. CASE MarkSent(w)
    <3>1. UNCHANGED attempts
      BY <2>5 DEF MarkSent
    <3>2. CASE msg[m].state = "sending"
      <4>1. msg' = [msg EXCEPT ![m] = SentRow(msg[m])]
        BY <2>5, <3>2 DEF MarkSent
      <4>2. SentRow(msg[m]).state = "sent"
        BY <2>t DEF SentRow, MessageRow
      <4>3. "sent" \in AllowedTransitions[msg[m].state]
        BY <3>2 DEF AllowedTransitions
      <4> HIDE DEF m
      <4>4. QED
        BY <2>t, <3>1, <4>1, <4>2, <4>3, RowMoves, Untouched
    <3>3. CASE msg[m].state # "sending"
      BY <2>5, <3>1, <3>3, Untouched DEF MarkSent
    <3>4. QED
      BY <3>2, <3>3
  <2>6. CASE Requeue(w)
    <3> DEFINE row == IF msg[m].state = "sending"
                        THEN [msg[m] EXCEPT !.state = "queued", !.failure = "other"]
                        ELSE msg[m]
    <3>1. msg' = [msg EXCEPT ![m] = row] /\ UNCHANGED attempts
      BY <2>6 DEF Requeue
    <3>2. \/ row.state = msg[m].state
          \/ row.state = "queued" /\ msg[m].state = "sending"
      BY <2>t DEF MessageRow
    <3>3. row.state = msg[m].state \/ row.state \in AllowedTransitions[msg[m].state]
      BY <3>2 DEF AllowedTransitions
    <3> HIDE DEF m, row
    <3>4. QED
      BY <2>t, <3>1, <3>3, RowMoves, Untouched
  <2>7. CASE CompleteAccepted(w) \/ CompleteTemporary(w) \/ Exhaust(w) \/ CompletePermanent(w)
    BY <2>7, <2>t, CompletedRowKept, Untouched
       DEF CompleteAccepted, CompleteTemporary, Exhaust, CompletePermanent
  <2>8. QED
    BY <1>1, <2>1, <2>2, <2>3, <2>4, <2>5, <2>6, <2>7 DEF HandlerStep
<1>3. CASE worker[w].pc = "idle"
  BY <1>1, <1>3
     DEF HandlerStep, Claim, StartAttempt, RefuseBeforeTransport, StampTransport, MarkSent,
         Requeue, MarkFailed, CompleteAccepted, CompleteTemporary, Exhaust, CompletePermanent
<1>4. QED
  BY <1>2, <1>3

LEMMA NextLawful ==
  TypeOK /\ Linked /\ [Next]_vars => [MovesAlongLifecycle /\ KeepsTerminalRows]_vars
<1> SUFFICES ASSUME TypeOK, Linked, Next
             PROVE  MovesAlongLifecycle /\ KeepsTerminalRows
  OBVIOUS
<1>1. ASSUME NEW m \in Messages,
             \/ RequestStep(m) \/ AdminStep(m) \/ StaleStep(m) \/ RepairStep(m)
             \/ ProviderDelivers(m) \/ ProviderBounces(m) \/ LockExpires(m)
      PROVE  MovesAlongLifecycle /\ KeepsTerminalRows
  BY <1>1, MessageStepLawful
<1>2. ASSUME NEW w \in Workers, HandlerStep(w)
      PROVE  MovesAlongLifecycle /\ KeepsTerminalRows
  BY <1>2, HandlerStepLawful
<1>3. CASE \/ \E w \in Workers : (\E j \in Jobs : Pop(w, j)) \/ HandlerError(w) \/ WorkerDies(w)
           \/ \E j \in Jobs : Redeliver(j)
           \/ EmergencyStop \/ EmergencyResume
  <2>1. UNCHANGED <<msg, attempts>>
    BY <1>3 DEF Pop, HandlerError, WorkerDies, Redeliver, EmergencyStop, EmergencyResume,
                deliveryVars
  <2>2. QED
    BY <2>1, Untouched
<1>4. QED
  BY <1>1, <1>2, <1>3 DEF Next

(* Whatever the faults, late workers included, a message moves only along  *)
(* OutboundMessageState::allowedTransitions, or from failed to sent by the *)
(* provider retry.                                                         *)
THEOREM LifecycleIsKept == Spec => OnlyAllowedTransitions
<1>1. [MovesAlongLifecycle /\ KeepsTerminalRows]_vars => [MovesAlongLifecycle]_vars
  OBVIOUS
<1>2. TypeOK /\ Linked /\ [Next]_vars => [MovesAlongLifecycle]_vars
  BY <1>1, NextLawful
<1>3. QED
  BY <1>2, TypeCorrect, PTL DEF Spec, OnlyAllowedTransitions

(* Whatever the faults, a terminal attempt row stays as it was written.    *)
THEOREM HistoryIsKept == Spec => TerminalRowsAreFinal
<1>1. [MovesAlongLifecycle /\ KeepsTerminalRows]_vars => [KeepsTerminalRows]_vars
  OBVIOUS
<1>2. TypeOK /\ Linked /\ [Next]_vars => [KeepsTerminalRows]_vars
  BY <1>1, NextLawful
<1>3. QED
  BY <1>2, TypeCorrect, PTL DEF Spec, TerminalRowsAreFinal

=============================================================================
