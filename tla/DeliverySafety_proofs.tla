------------------------ MODULE DeliverySafety_proofs ------------------------
(***************************************************************************)
(* The safety of outbound delivery, for every number of messages, jobs,    *)
(* workers and attempts.  Three invariants are shown inductive, each under *)
(* the weakest assumption on Faults it needs: IInv as long as workers die  *)
(* within the documented timeouts (WithinTimeouts), ClaimsHold as long as  *)
(* none of them is slow (PromptWorkers), and HandInv as long as none dies  *)
(* outside its claim (OnlyClaimedDie).  Each time: first what a step       *)
(* leaves intact of the workers that do not take it, then one lemma per    *)
(* kind of step.                                                           *)
(***************************************************************************)
EXTENDS OutboundDelivery_proofs

(* What IInv says of workers.                                              *)
WorkersHold ==
    /\ \A w \in Workers : ClaimHolds(w)
    /\ \A w \in Workers : PlaceMatchesReply(w)
    /\ OneClaimPerMessage

Remembering == Claimed \cup {"requeued", "sent", "charged"}

(* Workers that stay put, or move to a place that remembers nothing.       *)
LEMMA WorkersQuiet ==
  ASSUME TypeOK, WorkersHold, UNCHANGED <<msg, reply>>,
         \A v \in Workers : worker'[v] = worker[v] \/ worker'[v].pc \notin Remembering
  PROVE  WorkersHold'
<1>1. \A v \in Workers : worker'[v].pc \in Remembering => worker'[v] = worker[v]
  OBVIOUS
<1>2. ASSUME NEW w \in Workers PROVE ClaimHolds(w)'
  <2>1. CASE worker'[w] = worker[w]
    BY <2>1 DEF WorkersHold, ClaimHolds
  <2>2. CASE worker'[w].pc \notin Remembering
    BY <2>2 DEF ClaimHolds, Remembering
  <2>3. QED
    BY <1>1, <2>1, <2>2
<1>3. ASSUME NEW w \in Workers PROVE PlaceMatchesReply(w)'
  <2>1. CASE worker'[w] = worker[w]
    BY <2>1 DEF WorkersHold, PlaceMatchesReply
  <2>2. CASE worker'[w].pc \notin Remembering
    BY <2>2 DEF PlaceMatchesReply, Remembering, Claimed
  <2>3. QED
    BY <1>1, <2>1, <2>2
<1>4. OneClaimPerMessage'
  BY <1>1 DEF WorkersHold, OneClaimPerMessage, Remembering
<1>5. QED
  BY <1>2, <1>3, <1>4 DEF WorkersHold

(* A step on the row of a message nobody has claimed.                      *)
LEMMA UnclaimedRow ==
  ASSUME TypeOK, Linked, WorkersHold, UNCHANGED worker, NEW m \in Messages,
         \A n \in Messages \ {m} : msg'[n] = msg[n] /\ reply'[n] = reply[n],
         \A w \in Workers : ~HoldsClaim(w, m),
         \A k \in AttemptNumbers :
           /\ reply[m][k] \in ReportedFailed => reply'[m][k] \in ReportedFailed
           /\ reply[m][k] \in {"accepted", "bounced"} => reply'[m][k] \in {"accepted", "bounced"}
  PROVE  WorkersHold'
<1>1. \A w \in Workers : worker[w].pc \in Claimed => worker[w].msg \in Messages \ {m}
  BY DEF Linked, HoldsClaim, Claimed
<1>2. ASSUME NEW w \in Workers PROVE ClaimHolds(w)'
  BY <1>1 DEF WorkersHold, ClaimHolds
<1>3. ASSUME NEW w \in Workers PROVE PlaceMatchesReply(w)'
  <2>1. CASE worker[w].pc \in Claimed
    BY <1>1, <2>1 DEF WorkersHold, PlaceMatchesReply, Claimed
  <2>2. CASE worker[w].pc \notin Claimed /\ worker[w].pc # "idle"
    <3>1. worker[w].msg \in Messages
      BY <2>2 DEF Linked
    <3>2. QED
      BY <2>2, <3>1 DEF WorkersHold, PlaceMatchesReply, Claimed
  <2>3. CASE worker[w].pc = "idle"
    BY <2>3 DEF PlaceMatchesReply, Claimed
  <2>4. QED
    BY <2>1, <2>2, <2>3
<1>4. OneClaimPerMessage'
  BY DEF WorkersHold, OneClaimPerMessage
<1>5. QED
  BY <1>2, <1>3, <1>4 DEF WorkersHold

(* A step of w on the message it works on, which no other worker claimed.  *)
LEMMA OthersHold ==
  ASSUME TypeOK, Linked, WorkersHold, NEW w \in Workers, NEW m \in Messages,
         m = worker[w].msg, worker'[w].msg = m,
         \A v \in Workers \ {w} : worker'[v] = worker[v] /\ ~HoldsClaim(v, m),
         \A n \in Messages \ {m} : msg'[n] = msg[n] /\ reply'[n] = reply[n],
         \A k \in AttemptNumbers : reply[m][k] # "none" => reply'[m][k] = reply[m][k],
         ClaimHolds(w)', PlaceMatchesReply(w)'
  PROVE  WorkersHold'
<1>1. \A v \in Workers \ {w} : worker[v].pc \in Claimed => worker[v].msg \in Messages \ {m}
  BY DEF Linked, HoldsClaim, Claimed
<1>2. ASSUME NEW v \in Workers \ {w} PROVE ClaimHolds(v)'
  BY <1>1 DEF WorkersHold, ClaimHolds
<1>3. ASSUME NEW v \in Workers \ {w} PROVE PlaceMatchesReply(v)'
  <2>0. worker'[v] = worker[v]
    OBVIOUS
  <2>1. CASE worker[v].pc \in Claimed
    BY <1>1, <2>0, <2>1 DEF WorkersHold, PlaceMatchesReply, Claimed
  <2>2. CASE worker[v].pc \notin Claimed /\ worker[v].pc # "idle"
    <3>1. worker[v].msg \in Messages
      BY <2>2 DEF Linked
    <3>2. QED
      BY <2>0, <2>2, <3>1 DEF WorkersHold, PlaceMatchesReply, Claimed, ReportedFailed
  <2>3. CASE worker[v].pc = "idle"
    BY <2>0, <2>3 DEF PlaceMatchesReply, Claimed
  <2>4. QED
    BY <2>1, <2>2, <2>3
<1>4. OneClaimPerMessage'
  BY <1>1 DEF WorkersHold, OneClaimPerMessage
<1>5. QED
  BY <1>2, <1>3, <1>4 DEF WorkersHold

(* Whoever has claimed m, its row is sending; so no other state is claimed. *)
LEMMA NotSendingUnclaimed ==
  ASSUME WorkersHold, NEW m \in Messages, msg[m].state # "sending"
  PROVE  \A w \in Workers : ~HoldsClaim(w, m)
BY DEF WorkersHold, ClaimHolds, HoldsClaim

LEMMA ClaimIsExclusive ==
  ASSUME WorkersHold, NEW w \in Workers, worker[w].pc \in Claimed
  PROVE  \A v \in Workers \ {w} : ~HoldsClaim(v, worker[w].msg)
BY DEF WorkersHold, OneClaimPerMessage, HoldsClaim

-----------------------------------------------------------------------------
(* What a step must show of rows, replies and charges.                     *)

Rows == \A m \in Messages : RowMatchesReply(m)

Safe == WorkersHold /\ Rows /\ RowsAreTrue /\ ChargedOnlyIfAccepted

LEMMA RowsFrame ==
  ASSUME Rows, NEW m \in Messages, RowMatchesReply(m)',
         \A n \in Messages \ {m} : msg'[n] = msg[n] /\ reply'[n] = reply[n]
  PROVE  Rows'
<1>1. ASSUME NEW n \in Messages \ {m} PROVE RowMatchesReply(n)'
  BY DEF Rows, RowMatchesReply
<1>2. QED
  BY <1>1 DEF Rows

RepliesKept ==
    \A n \in Messages : \A k \in AttemptNumbers :
      /\ reply[n][k] \in ReportedFailed => reply'[n][k] \in ReportedFailed
      /\ reply[n][k] \in {"accepted", "bounced"} => reply'[n][k] \in {"accepted", "bounced"}

RowsStayTrue ==
    \A n \in Messages : \A k \in AttemptNumbers :
      attempts'[n][k] # attempts[n][k] =>
        /\ attempts'[n][k] = "accepted" => reply'[n][k] \in {"accepted", "bounced"}
        /\ attempts'[n][k] = "temporary_failure" => reply'[n][k] \in ReportedFailed

ChargesEarned ==
    \A n \in Messages : reservation'[n] = "committed" =>
      \/ reservation[n] = "committed"
      \/ \E k \in AttemptNumbers : reply'[n][k] \in {"accepted", "bounced"}

LEMMA TruthKept ==
  ASSUME RowsAreTrue, RepliesKept, RowsStayTrue
  PROVE  RowsAreTrue'
<1>1. SUFFICES ASSUME NEW m \in Messages, NEW k \in AttemptNumbers
      PROVE  /\ attempts'[m][k] = "accepted" => reply'[m][k] \in {"accepted", "bounced"}
             /\ attempts'[m][k] = "temporary_failure" => reply'[m][k] \in ReportedFailed
  BY DEF RowsAreTrue
<1>2. CASE attempts'[m][k] # attempts[m][k]
  BY <1>2 DEF RowsStayTrue
<1>3. CASE attempts'[m][k] = attempts[m][k]
  BY <1>3 DEF RowsAreTrue, RepliesKept
<1>4. QED
  BY <1>2, <1>3

LEMMA ChargesKept ==
  ASSUME ChargedOnlyIfAccepted, RepliesKept, ChargesEarned
  PROVE  ChargedOnlyIfAccepted'
BY DEF ChargedOnlyIfAccepted, RepliesKept, ChargesEarned

(* Writing one attempt row, or settling one reservation.                   *)
LEMMA CompleteRowIsTrue ==
  ASSUME TypeOK, NEW m \in Messages, NEW k, NEW outcome, CompleteRow(m, k, outcome),
         outcome = "accepted" => k \in AttemptNumbers /\ reply'[m][k] \in {"accepted", "bounced"},
         outcome = "temporary_failure" => k \in AttemptNumbers /\ reply'[m][k] \in ReportedFailed
  PROVE  RowsStayTrue
<1>1. \A n \in Messages : \A i \in AttemptNumbers :
        attempts'[n][i] # attempts[n][i] => n = m /\ i = k /\ attempts'[n][i] = outcome
  BY DEF TypeOK, CompleteRow
<1>2. QED
  BY <1>1 DEF RowsStayTrue

LEMMA SettledIsEarned ==
  ASSUME TypeOK, NEW m \in Messages, NEW outcome, SettleReservation(m, outcome),
         outcome = "committed" =>
           \E k \in AttemptNumbers : reply'[m][k] \in {"accepted", "bounced"}
  PROVE  ChargesEarned
<1>1. \A n \in Messages :
        reservation'[n] # reservation[n] => n = m /\ reservation'[n] = outcome
  BY DEF TypeOK, SettleReservation
<1>2. QED
  BY <1>1 DEF ChargesEarned

(* A step that changes no message, no reply, no row and no charge.         *)
LEMMA QuietStep ==
  ASSUME TypeOK, Safe, UNCHANGED <<msg, reply, attempts>>,
         UNCHANGED reservation
           \/ \E m \in Messages : \E outcome \in {"released", "expired"} :
                SettleReservation(m, outcome),
         \A v \in Workers : worker'[v] = worker[v] \/ worker'[v].pc \notin Remembering
  PROVE  Safe'
<1>1. WorkersHold'
  BY WorkersQuiet DEF Safe
<1>2. Rows'
  BY DEF Safe, Rows, RowMatchesReply
<1>3. RepliesKept /\ RowsStayTrue
  BY DEF RepliesKept, RowsStayTrue
<1>4. ChargesEarned
  <2>1. CASE UNCHANGED reservation
    BY <2>1 DEF ChargesEarned
  <2>2. ASSUME NEW m \in Messages, NEW outcome \in {"released", "expired"},
               SettleReservation(m, outcome)
        PROVE  ChargesEarned
    BY <2>2, SettledIsEarned
  <2>3. QED
    BY <2>1, <2>2
<1>5. QED
  BY <1>1, <1>2, <1>3, <1>4, TruthKept, ChargesKept DEF Safe

-----------------------------------------------------------------------------
(* Steps of requests, admins, reconcilers and the provider: none of them   *)
(* moves a worker.                                                         *)

(* A step on the row of m that leaves replies, rows and charges alone.     *)
LEMMA RowOnlyStep ==
  ASSUME TypeOK, Linked, Safe, NEW m \in Messages, UNCHANGED <<worker, reply, attempts>>,
         \A n \in Messages \ {m} : msg'[n] = msg[n],
         \A w \in Workers : ~HoldsClaim(w, m),
         RowMatchesReply(m)', ChargesEarned
  PROVE  Safe'
<1>1. WorkersHold'
  BY UnclaimedRow DEF Safe
<1>2. Rows'
  BY RowsFrame DEF Safe
<1>3. RepliesKept /\ RowsStayTrue
  BY DEF RepliesKept, RowsStayTrue
<1>4. QED
  BY <1>1, <1>2, <1>3, TruthKept, ChargesKept DEF Safe

LEMMA RequestStepSafe ==
  ASSUME TypeOK, Linked, Safe, NEW m \in Messages, RequestStep(m)
  PROVE  Safe'
<1> USE DEF queueVars
<1>r. RowMatchesReply(m) /\ WorkersHold
  BY DEF Safe, Rows
<1>1. CASE Submit(m)
  <2>1. RowMatchesReply(m)'
    BY <1>r, <1>1 DEF Submit, RowMatchesReply, TypeOK, MessageRow
  <2>2. ChargesEarned
    BY <1>1 DEF Submit, ChargesEarned, TypeOK
  <2>3. QED
    BY <1>r, <1>1, <2>1, <2>2, RowOnlyStep, NotSendingUnclaimed DEF Submit, TypeOK
<1>2. CASE Cancel(m)
  <2>1. RowMatchesReply(m)'
    BY <1>r, <1>2 DEF Cancel, RowMatchesReply, TypeOK, MessageRow
  <2>2. ChargesEarned
    BY <1>2, SettledIsEarned DEF Cancel
  <2>3. QED
    BY <1>r, <1>2, <2>1, <2>2, RowOnlyStep, NotSendingUnclaimed DEF Cancel, TypeOK
<1>3. CASE Retry(m)
  <2>1. RowMatchesReply(m)'
    BY <1>r, <1>3 DEF Retry, RowMatchesReply, TypeOK, MessageRow
  <2>2. ChargesEarned
    BY <1>3 DEF Retry, ChargesEarned
  <2>3. QED
    BY <1>r, <1>3, <2>1, <2>2, RowOnlyStep, NotSendingUnclaimed DEF Retry, TypeOK
<1>4. CASE \E s \in Sources : Dispatch(m, s) \/ RequestDies(m, s)
  BY <1>4, QuietStep DEF Dispatch, RequestDies, deliveryVars
<1>5. QED
  BY <1>1, <1>2, <1>3, <1>4 DEF RequestStep

LEMMA StaleStepSafe ==
  ASSUME WithinTimeouts, TypeOK, Linked, Safe, NEW m \in Messages, StaleStep(m)
  PROVE  Safe'
<1> USE DEF queueVars
<1>r. RowMatchesReply(m) /\ WorkersHold
  BY DEF Safe, Rows
<1>u. \A w \in Workers : ~HoldsClaim(w, m)
  BY DEF StaleStep, FlagAmbiguous, FailExhausted, RequeueStale, Stale, NobodyDelivers,
         WithinTimeouts
<1>1. CASE FlagAmbiguous(m)
  <2>1. RowMatchesReply(m)'
    BY <1>r, <1>1 DEF FlagAmbiguous, Stale, RowMatchesReply, TypeOK, MessageRow
  <2>2. WorkersHold'
    BY <1>r, <1>u, <1>1, UnclaimedRow DEF FlagAmbiguous, TypeOK
  <2>3. Rows'
    BY <1>1, <2>1, RowsFrame DEF FlagAmbiguous, Safe, TypeOK
  <2>4. RepliesKept /\ ChargesEarned
    BY <1>1 DEF FlagAmbiguous, RepliesKept, ChargesEarned
  <2>5. RowsStayTrue
    BY <1>1, CompleteRowIsTrue DEF FlagAmbiguous
  <2>6. QED
    BY <2>2, <2>3, <2>4, <2>5, TruthKept, ChargesKept DEF Safe
<1>2. CASE FailExhausted(m)
  <2>1. RowMatchesReply(m)'
    BY <1>r, <1>2 DEF FailExhausted, Stale, FailedRow, RowMatchesReply, TypeOK, MessageRow
  <2>2. ChargesEarned
    BY <1>2 DEF FailExhausted, ChargesEarned
  <2>3. QED
    BY <1>u, <1>2, <2>1, <2>2, RowOnlyStep DEF FailExhausted, TypeOK
<1>3. CASE RequeueStale(m)
  <2>1. RowMatchesReply(m)'
    BY <1>r, <1>3 DEF RequeueStale, Stale, RowMatchesReply, TypeOK, MessageRow
  <2>2. ChargesEarned
    BY <1>3 DEF RequeueStale, ChargesEarned
  <2>3. QED
    BY <1>u, <1>3, <2>1, <2>2, RowOnlyStep DEF RequeueStale, TypeOK
<1>4. QED
  BY <1>1, <1>2, <1>3 DEF StaleStep

LEMMA ProviderStepSafe ==
  ASSUME TypeOK, Linked, Safe, NEW m \in Messages,
         ProviderDelivers(m) \/ ProviderBounces(m)
  PROVE  Safe'
<1> USE DEF queueVars
<1>r. RowMatchesReply(m) /\ WorkersHold
  BY DEF Safe, Rows
<1>1. CASE ProviderDelivers(m)
  <2>1. RowMatchesReply(m)'
    BY <1>r, <1>1 DEF ProviderDelivers, RowMatchesReply, TypeOK, MessageRow
  <2>2. ChargesEarned
    BY <1>1 DEF ProviderDelivers, ChargesEarned
  <2>3. QED
    BY <1>r, <1>1, <2>1, <2>2, RowOnlyStep, NotSendingUnclaimed DEF ProviderDelivers, TypeOK
<1>2. CASE ProviderBounces(m)
  <2>1. \A k \in AttemptNumbers :
          reply'[m][k] = IF reply[m][k] = "accepted" THEN "bounced" ELSE reply[m][k]
    BY <1>2 DEF ProviderBounces, TypeOK
  <2>2. \A n \in Messages \ {m} : msg'[n] = msg[n] /\ reply'[n] = reply[n]
    BY <1>2 DEF ProviderBounces, TypeOK
  <2>3. RowMatchesReply(m)'
    BY <1>r, <1>2, <2>1 DEF ProviderBounces, FailedRow, RowMatchesReply, TypeOK, MessageRow
  <2>4. WorkersHold'
    BY <1>r, <1>2, <2>1, <2>2, UnclaimedRow, NotSendingUnclaimed DEF ProviderBounces, ReportedFailed
  <2>5. Rows'
    BY <2>2, <2>3, RowsFrame DEF Safe
  <2>6. RepliesKept
    BY <2>1, <2>2 DEF RepliesKept, ReportedFailed
  <2>7. RowsStayTrue /\ ChargesEarned
    BY <1>2 DEF ProviderBounces, RowsStayTrue, ChargesEarned
  <2>8. QED
    BY <2>4, <2>5, <2>6, <2>7, TruthKept, ChargesKept DEF Safe
<1>3. QED
  BY <1>1, <1>2

LEMMA RepairStepSafe ==
  ASSUME TypeOK, Linked, Safe, NEW m \in Messages, RepairStep(m)
  PROVE  Safe'
<1> USE DEF queueVars, deliveryVars
<1>r. RowMatchesReply(m) /\ WorkersHold
  BY DEF Safe, Rows
<1>1. CASE RepairAttempt(m)
  <2>1. RowsStayTrue
    <3>1. ASSUME NEW n \in Messages, NEW k \in AttemptNumbers,
                 attempts'[n][k] # attempts[n][k]
          PROVE  /\ n = m /\ k = msg[m].attempt
                 /\ \/ msg[m].state \in {"sent", "delivered"} /\ attempts'[n][k] = "accepted"
                    \/ attempts'[n][k] = "permanent_failure"
      BY <1>1, <3>1 DEF RepairAttempt, TypeOK
    <3>2. msg[m].state \in {"sent", "delivered"} => reply'[m][msg[m].attempt] = "accepted"
      BY <1>r, <1>1 DEF RepairAttempt, RowMatchesReply
    <3>3. QED
      BY <3>1, <3>2 DEF RowsStayTrue
  <2>2. WorkersHold'
    BY <1>r, <1>1, WorkersQuiet DEF RepairAttempt
  <2>3. Rows'
    BY <1>1 DEF RepairAttempt, Safe, Rows, RowMatchesReply
  <2>4. RepliesKept /\ ChargesEarned
    BY <1>1 DEF RepairAttempt, RepliesKept, ChargesEarned
  <2>5. QED
    BY <2>1, <2>2, <2>3, <2>4, TruthKept, ChargesKept DEF Safe
<1>2. CASE FlagImpossible(m)
  <2>1. /\ \A n \in Messages \ {m} : msg'[n] = msg[n]
        /\ msg'[m] = [msg[m] EXCEPT !.flag = "conflict"]
        /\ UNCHANGED <<worker, reply, attempts, reservation>>
    BY <1>2 DEF FlagImpossible, TypeOK
  <2>2. /\ msg'[m].state = msg[m].state
        /\ msg'[m].attempt = msg[m].attempt
        /\ msg'[m].transportAt = msg[m].transportAt
        /\ msg'[m].flag = "conflict"
    BY <2>1 DEF TypeOK, MessageRow
  <2>3. RowMatchesReply(m)'
    BY <1>r, <2>1, <2>2 DEF RowMatchesReply
  <2>4. Rows'
    BY <2>1, <2>3, RowsFrame DEF Safe
  <2>5. ASSUME NEW w \in Workers PROVE ClaimHolds(w)'
    <3>1. CASE worker[w].pc \in Claimed
      <4>1. worker[w].msg \in Messages
        BY <3>1 DEF Linked, Claimed
      <4>2. /\ msg'[worker[w].msg].state = msg[worker[w].msg].state
            /\ msg'[worker[w].msg].attempt = msg[worker[w].msg].attempt
            /\ msg'[worker[w].msg].transportAt = msg[worker[w].msg].transportAt
            /\ msg'[worker[w].msg].flag \in {msg[worker[w].msg].flag, "conflict"}
        BY <2>1, <2>2, <4>1
      <4>3. ClaimHolds(w)
        BY <1>r DEF WorkersHold
      <4>4. QED
        BY <2>1, <4>2, <4>3 DEF ClaimHolds
    <3>2. CASE worker[w].pc \notin Claimed
      BY <2>1, <3>2 DEF ClaimHolds
    <3>3. QED
      BY <3>1, <3>2
  <2>6. WorkersHold'
    BY <1>r, <2>1, <2>5 DEF WorkersHold, PlaceMatchesReply, OneClaimPerMessage
  <2>7. RepliesKept /\ ChargesEarned /\ RowsStayTrue
    BY <2>1 DEF RepliesKept, ChargesEarned, RowsStayTrue
  <2>8. QED
    BY <2>4, <2>6, <2>7, TruthKept, ChargesKept DEF Safe
<1>3. CASE RepairCommit(m)
  <2>1. \E k \in AttemptNumbers : reply'[m][k] \in {"accepted", "bounced"}
    BY <1>r, <1>3 DEF RepairCommit, RowMatchesReply
  <2>2. ChargesEarned
    BY <1>3, <2>1, SettledIsEarned DEF RepairCommit
  <2>3. WorkersHold'
    BY <1>r, <1>3, WorkersQuiet DEF RepairCommit
  <2>4. Rows'
    BY <1>3 DEF RepairCommit, Safe, Rows, RowMatchesReply
  <2>5. RepliesKept /\ RowsStayTrue
    BY <1>3 DEF RepairCommit, RepliesKept, RowsStayTrue
  <2>6. QED
    BY <2>2, <2>3, <2>4, <2>5, TruthKept, ChargesKept DEF Safe
<1>4. CASE ExpiryScan(m)
  BY <1>4, QuietStep DEF ExpiryScan
<1>5. CASE Expire(m)
  BY <1>5, QuietStep DEF Expire
<1>6. QED
  BY <1>1, <1>2, <1>3, <1>4, <1>5 DEF RepairStep

(* The provider retry moves a failed row to its next attempt, which nobody *)
(* has used.                                                               *)
LEMMA ProviderRetrySafe ==
  ASSUME TypeOK, Linked, Safe, NEW m \in Messages, ProviderRetry(m)
  PROVE  Safe'
<1> DEFINE k == msg[m].attempt + 1
           row == [ClaimedRow(msg[m]) EXCEPT !.transportAt = TRUE]
<1>r. RowMatchesReply(m) /\ WorkersHold
  BY DEF Safe, Rows
<1>1. PICK result \in Results \ {"none"}, answer \in Replies,
           code \in FailureClasses \ {"none"} :
        /\ answer \in AnswersFor(result)
        /\ msg' = [msg EXCEPT ![m] = IF result = "accepted" THEN SentRow(row)
                                                          ELSE FailedRow(row, code)]
        /\ attempts' = [attempts EXCEPT ![m][k] =
                          IF @ \in TerminalRow THEN @
                          ELSE CASE result = "accepted"  -> "accepted"
                                 [] result = "temporary" -> "temporary_failure"
                                 [] result = "permanent" -> "permanent_failure"]
        /\ reply' = [reply EXCEPT ![m][k] = answer]
  BY DEF ProviderRetry, AnswersFor, CodesFor, ReportedFailed, Replies
<1>2. msg[m] \in MessageRow /\ msg[m].attempt \in Nat /\ k \in AttemptNumbers
  <2>1. msg[m] \in MessageRow
    BY DEF TypeOK
  <2>2. msg[m].attempt \in 0 .. AttemptBound
    BY <2>1 DEF MessageRow
  <2>3. k <= AttemptBound
    BY DEF ProviderRetry
  <2>4. QED
    BY <2>1, <2>2, <2>3, AttemptBoundAssumption DEF AttemptNumbers
<1>3. \A i \in AttemptNumbers : reply[m][i] # "accepted" /\ (i >= k => reply[m][i] = "none")
  BY <1>r, <1>2, AttemptBoundAssumption DEF RowMatchesReply, ProviderRetry, AttemptNumbers
<1>4. /\ \A n \in Messages \ {m} : msg'[n] = msg[n] /\ reply'[n] = reply[n]
      /\ \A n \in Messages \ {m} : attempts'[n] = attempts[n]
      /\ \A i \in AttemptNumbers : i # k => reply'[m][i] = reply[m][i]
                                            /\ attempts'[m][i] = attempts[m][i]
      /\ reply'[m][k] = answer
  <2> HIDE DEF row, k
  <2>1. QED
    BY <1>1, <1>2 DEF TypeOK
<1>5. /\ msg'[m].attempt = k
      /\ msg'[m].state = IF result = "accepted" THEN "sent" ELSE "failed"
      /\ msg'[m].flag = msg[m].flag
  BY <1>1, <1>2 DEF TypeOK, MessageRow, ClaimedRow, SentRow, FailedRow
<1>6. msg[m].flag # "ambiguous"
  BY <1>r DEF RowMatchesReply, ProviderRetry
<1>7. RowMatchesReply(m)'
  <2>1. \A i \in AttemptNumbers : i > k => reply'[m][i] = "none"
    BY <1>2, <1>3, <1>4 DEF AttemptNumbers
  <2> HIDE DEF k
  <2>2. QED
    <3>1. reply'[m][k] = "accepted" <=> result = "accepted"
      BY <1>1, <1>4 DEF AnswersFor, ReportedFailed
    <3>2. QED
      BY <1>2, <1>3, <1>4, <1>5, <1>6, <2>1, <3>1 DEF RowMatchesReply
<1>8. Rows'
  BY <1>4, <1>7, RowsFrame DEF Safe
<1>9. RepliesKept
  <2> HIDE DEF k
  <2>1. ASSUME NEW n \in Messages, NEW i \in AttemptNumbers, reply[n][i] # "none"
        PROVE  reply'[n][i] = reply[n][i]
    <3>1. k \in AttemptNumbers /\ reply[m][k] = "none"
      BY <1>2, <1>3 DEF AttemptNumbers
    <3>2. QED
      BY <1>4, <2>1, <3>1
  <2>2. QED
    BY <2>1 DEF RepliesKept, ReportedFailed
<1>10. WorkersHold'
  BY <1>r, <1>4, <1>9, UnclaimedRow, NotSendingUnclaimed
  DEF ProviderRetry, RepliesKept, queueVars
<1>11. RowsStayTrue
  <2>1. attempts'[m][k] # attempts[m][k] =>
          /\ attempts'[m][k] = "accepted" => result = "accepted"
          /\ attempts'[m][k] = "temporary_failure" => result = "temporary"
    <3>1. attempts'[m][k] = IF attempts[m][k] \in TerminalRow THEN attempts[m][k]
                            ELSE CASE result = "accepted"  -> "accepted"
                                   [] result = "temporary" -> "temporary_failure"
                                   [] result = "permanent" -> "permanent_failure"
      <4> HIDE DEF k
      <4>1. QED
        BY <1>1, <1>2 DEF TypeOK
    <3> HIDE DEF k
    <3>2. QED
      BY <1>1, <3>1 DEF Results
  <2> HIDE DEF k
  <2>2. QED
    BY <1>1, <1>4, <2>1 DEF RowsStayTrue, AnswersFor
<1>12. ChargesEarned
  BY DEF ProviderRetry, ChargesEarned
<1>13. QED
  BY <1>8, <1>9, <1>10, <1>11, <1>12, TruthKept, ChargesKept DEF Safe

LEMMA AdminStepSafe ==
  ASSUME WithinTimeouts, TypeOK, Linked, Safe, NEW m \in Messages, AdminStep(m)
  PROVE  Safe'
<1>1. CASE ProviderRetryCheck(m) \/ ProviderRetryRefused(m)
  BY <1>1, QuietStep DEF ProviderRetryCheck, ProviderRetryRefused, deliveryVars, queueVars
<1>2. CASE ProviderRetry(m)
  BY <1>2, ProviderRetrySafe
<1>3. CASE ProviderRetryDies(m)
  BY <1>3 DEF ProviderRetryDies, WithinTimeouts
<1>4. QED
  BY <1>1, <1>2, <1>3 DEF AdminStep

-----------------------------------------------------------------------------
(* The handler.                                                            *)

LEMMA Moved ==
  ASSUME TypeOK, NEW w \in Workers, NEW place, Move(w, place)
  PROVE  /\ \A v \in Workers \ {w} : worker'[v] = worker[v]
         /\ worker'[w].pc = place /\ worker'[w].msg = worker[w].msg
         /\ worker'[w].result = "none"
         /\ place \notin {"done", "threw"} => worker'[w].attempt = worker[w].attempt
BY DEF TypeOK, Move, WorkerRow

(* What a worker between claim and outcome may rely on.                    *)
LEMMA ClaimedFacts ==
  ASSUME TypeOK, Linked, Safe, NEW w \in Workers, worker[w].pc \in Claimed
  PROVE  /\ worker[w].msg \in Messages
         /\ worker[w].attempt \in AttemptNumbers
         /\ msg[worker[w].msg].state = "sending"
         /\ msg[worker[w].msg].attempt = worker[w].attempt
         /\ msg[worker[w].msg].flag # "ambiguous"
         /\ RowMatchesReply(worker[w].msg)
         /\ \A v \in Workers \ {w} : ~HoldsClaim(v, worker[w].msg)
<1>1. worker[w].msg \in Messages
  BY DEF Linked, Claimed
<1>2. ClaimHolds(w) /\ PlaceMatchesReply(w) /\ RowMatchesReply(worker[w].msg)
  BY <1>1 DEF Safe, Rows, WorkersHold
<1>3. QED
  BY <1>1, <1>2, ClaimIsExclusive DEF ClaimHolds, PlaceMatchesReply, Safe

LEMMA ClaimSafe ==
  ASSUME TypeOK, Linked, Safe, NEW w \in Workers, NEW m \in Messages,
         m = worker[w].msg, Claim(w)
  PROVE  Safe'
<1> DEFINE k == msg[m].attempt + 1
<1>1. m \in Messages /\ msg[m].state = "queued" /\ msg[m] \in MessageRow
  BY DEF Claim, Linked, TypeOK
<1>r. RowMatchesReply(m) /\ WorkersHold
  BY <1>1 DEF Safe, Rows
<1>2. msg[m].attempt \in 0 .. AttemptBound /\ k \in AttemptNumbers
  <2>1. msg[m].attempt \in 0 .. AttemptBound /\ msg[m].attempt < AttemptBound
    BY <1>1 DEF MessageRow, Claim
  <2>2. QED
    BY <2>1, AttemptBoundAssumption DEF AttemptNumbers
<1>3. /\ \A n \in Messages \ {m} : msg'[n] = msg[n]
      /\ msg'[m].state = "sending" /\ msg'[m].attempt = k /\ ~msg'[m].transportAt
      /\ msg'[m].flag = msg[m].flag
      /\ UNCHANGED <<reply, attempts, reservation>>
  BY <1>1 DEF Claim, ClaimedRow, TypeOK, MessageRow
<1>4. /\ \A v \in Workers \ {w} : worker'[v] = worker[v]
      /\ worker'[w].pc = "claimed" /\ worker'[w].msg = m /\ worker'[w].attempt = k
  BY DEF Claim, TypeOK, WorkerRow
<1>5. msg[m].flag # "ambiguous"
  BY <1>r, <1>1 DEF RowMatchesReply
<1>6. \A i \in AttemptNumbers : reply[m][i] # "accepted" /\ (i >= k => reply[m][i] = "none")
  BY <1>r, <1>1, <1>2, AttemptBoundAssumption DEF RowMatchesReply, AttemptNumbers
<1>7. reply[m][k] = "none" /\ \A i \in AttemptNumbers : i > k => reply[m][i] = "none"
  BY <1>2, <1>6, AttemptBoundAssumption DEF AttemptNumbers
<1> HIDE DEF k
<1>8. ClaimHolds(w)' /\ PlaceMatchesReply(w)'
  BY <1>2, <1>3, <1>4, <1>5, <1>7 DEF ClaimHolds, PlaceMatchesReply, Claimed
<1>9. WorkersHold'
  BY <1>r, <1>1, <1>3, <1>4, <1>8, OthersHold, NotSendingUnclaimed
<1>10. RowMatchesReply(m)'
  BY <1>2, <1>3, <1>5, <1>6, <1>7 DEF RowMatchesReply
<1>11. Rows'
  BY <1>1, <1>3, <1>10, RowsFrame DEF Safe
<1>12. RepliesKept /\ RowsStayTrue /\ ChargesEarned
  BY <1>3 DEF RepliesKept, RowsStayTrue, ChargesEarned
<1>13. QED
  BY <1>9, <1>11, <1>12, TruthKept, ChargesKept DEF Safe

(* Between the claim and the transport.                                    *)
LEMMA BeforeTransportSafe ==
  ASSUME TypeOK, Linked, Safe, NEW w \in Workers, NEW m \in Messages,
         m = worker[w].msg,
         StartAttempt(w) \/ RefuseBeforeTransport(w) \/ StampTransport(w)
  PROVE  Safe'
<1>1. worker[w].pc \in {"claimed", "started"} /\ worker[w].pc \in Claimed
  BY DEF StartAttempt, RefuseBeforeTransport, StampTransport, Claimed
<1>2. /\ m \in Messages
      /\ worker[w].attempt \in AttemptNumbers
      /\ msg[m].state = "sending"
      /\ msg[m].attempt = worker[w].attempt
      /\ msg[m].flag # "ambiguous"
      /\ RowMatchesReply(m)
      /\ \A v \in Workers \ {w} : ~HoldsClaim(v, m)
  BY <1>1, ClaimedFacts
<1>3. ~msg[m].transportAt /\ reply[m][worker[w].attempt] = "none"
  BY <1>1, <1>2 DEF Safe, WorkersHold, ClaimHolds, PlaceMatchesReply
<1>4. CASE StartAttempt(w)
  <2>1. /\ \A v \in Workers \ {w} : worker'[v] = worker[v]
        /\ worker'[w].pc = "started" /\ worker'[w].msg = m
        /\ worker'[w].attempt = worker[w].attempt
    BY <1>4, Moved DEF StartAttempt
  <2>2. ClaimHolds(w)' /\ PlaceMatchesReply(w)'
    BY <1>2, <1>3, <1>4, <2>1 DEF StartAttempt, ClaimHolds, PlaceMatchesReply, Claimed
  <2>3. WorkersHold'
    BY <1>2, <1>4, <2>1, <2>2, OthersHold DEF StartAttempt, Safe
  <2>4. Rows'
    BY <1>4 DEF StartAttempt, Safe, Rows, RowMatchesReply
  <2>5. RepliesKept /\ ChargesEarned
    BY <1>4 DEF StartAttempt, RepliesKept, ChargesEarned
  <2>6. RowsStayTrue
    BY <1>2, <1>4 DEF StartAttempt, RowsStayTrue, TypeOK
  <2>7. QED
    BY <2>3, <2>4, <2>5, <2>6, TruthKept, ChargesKept DEF Safe
<1>5. CASE RefuseBeforeTransport(w)
  <2>1. /\ \A v \in Workers \ {w} : worker'[v] = worker[v]
        /\ worker'[w].pc = "refused" /\ worker'[w].msg = m
    BY <1>2, <1>5, Moved DEF RefuseBeforeTransport
  <2>2. /\ \A n \in Messages \ {m} : msg'[n] = msg[n]
        /\ msg'[m].state = "failed" /\ msg'[m].attempt = msg[m].attempt
        /\ msg'[m].flag = msg[m].flag
        /\ UNCHANGED <<reply, attempts, reservation>>
    <3>1. PICK code : msg' = [msg EXCEPT ![m] = FailedRow(@, code)]
      BY <1>2, <1>5 DEF RefuseBeforeTransport
    <3>2. UNCHANGED <<reply, attempts, reservation>>
      BY <1>5 DEF RefuseBeforeTransport
    <3>3. QED
      BY <1>2, <3>1, <3>2 DEF FailedRow, TypeOK, MessageRow
  <2>3. ClaimHolds(w)' /\ PlaceMatchesReply(w)'
    BY <2>1 DEF ClaimHolds, PlaceMatchesReply, Claimed
  <2>4. WorkersHold'
    BY <1>2, <2>1, <2>2, <2>3, OthersHold DEF Safe
  <2>5. RowMatchesReply(m)'
    BY <1>2, <1>3, <2>2 DEF RowMatchesReply
  <2>6. Rows'
    BY <1>2, <2>2, <2>5, RowsFrame DEF Safe
  <2>7. RepliesKept /\ RowsStayTrue /\ ChargesEarned
    BY <2>2 DEF RepliesKept, RowsStayTrue, ChargesEarned
  <2>8. QED
    BY <2>4, <2>6, <2>7, TruthKept, ChargesKept DEF Safe
<1>6. CASE StampTransport(w)
  <2>1. /\ \A v \in Workers \ {w} : worker'[v] = worker[v]
        /\ worker'[w].pc = "submitting" /\ worker'[w].msg = m
        /\ worker'[w].attempt = worker[w].attempt
    BY <1>6, Moved DEF StampTransport
  <2>2. /\ \A n \in Messages \ {m} : msg'[n] = msg[n]
        /\ msg'[m].state = "sending" /\ msg'[m].attempt = msg[m].attempt
        /\ msg'[m].transportAt /\ msg'[m].flag = msg[m].flag
        /\ UNCHANGED <<reply, attempts, reservation>>
    <3>1. msg' = [msg EXCEPT ![m] = [@ EXCEPT !.transportAt = TRUE]]
      BY <1>2, <1>6 DEF StampTransport
    <3>2. msg[m] \in MessageRow /\ msg \in [Messages -> MessageRow]
      BY DEF TypeOK
    <3>3. /\ \A n \in Messages \ {m} : msg'[n] = msg[n]
          /\ msg'[m] = [msg[m] EXCEPT !.transportAt = TRUE]
      BY <3>1, <3>2
    <3>4. UNCHANGED <<reply, attempts, reservation>>
      BY <1>6 DEF StampTransport
    <3>5. QED
      BY <1>2, <3>2, <3>3, <3>4 DEF MessageRow
  <2>3. ClaimHolds(w)' /\ PlaceMatchesReply(w)'
    BY <1>2, <1>3, <2>1, <2>2 DEF ClaimHolds, PlaceMatchesReply, Claimed
  <2>4. WorkersHold'
    BY <1>2, <2>1, <2>2, <2>3, OthersHold DEF Safe
  <2>5. RowMatchesReply(m)'
    BY <1>2, <1>3, <2>2 DEF RowMatchesReply
  <2>6. Rows'
    BY <1>2, <2>2, <2>5, RowsFrame DEF Safe
  <2>7. RepliesKept /\ RowsStayTrue /\ ChargesEarned
    BY <2>2 DEF RepliesKept, RowsStayTrue, ChargesEarned
  <2>8. QED
    BY <2>4, <2>6, <2>7, TruthKept, ChargesKept DEF Safe
<1>7. QED
  BY <1>4, <1>5, <1>6

(* The transport answers.                                                  *)
LEMMA SendSafe ==
  ASSUME TypeOK, Linked, Safe, NEW w \in Workers, NEW m \in Messages,
         m = worker[w].msg, Send(w)
  PROVE  Safe'
<1> DEFINE k == worker[w].attempt
<1>1. worker[w].pc = "submitting" /\ worker[w].pc \in Claimed
  BY DEF Send, Claimed
<1>2. /\ k \in AttemptNumbers
      /\ msg[m].state = "sending"
      /\ msg[m].attempt = k
      /\ msg[m].flag # "ambiguous"
      /\ RowMatchesReply(m)
      /\ \A v \in Workers \ {w} : ~HoldsClaim(v, m)
  BY <1>1, ClaimedFacts
<1>3. msg[m].transportAt /\ reply[m][k] = "none"
  BY <1>1, <1>2 DEF Safe, WorkersHold, ClaimHolds, PlaceMatchesReply
<1>4. PICK result \in Results \ {"none"}, answer \in Replies :
        /\ answer \in AnswersFor(result)
        /\ worker' = [worker EXCEPT ![w].pc = "answered", ![w].result = result]
        /\ reply' = [reply EXCEPT ![m][k] = answer]
  BY DEF Send, AnswersFor, ReportedFailed, Replies
<1>5. UNCHANGED <<msg, attempts, reservation>>
  BY DEF Send, deliveryVars
<1>6. /\ \A n \in Messages \ {m} : reply'[n] = reply[n]
      /\ \A i \in AttemptNumbers : i # k => reply'[m][i] = reply[m][i]
      /\ reply'[m][k] = answer
  BY <1>2, <1>4 DEF TypeOK
<1>7. /\ \A v \in Workers \ {w} : worker'[v] = worker[v]
      /\ worker'[w].pc = "answered" /\ worker'[w].msg = m
      /\ worker'[w].attempt = k /\ worker'[w].result = result
  BY <1>4 DEF TypeOK, WorkerRow
<1> HIDE DEF k
<1>8. ClaimHolds(w)' /\ PlaceMatchesReply(w)'
  BY <1>2, <1>3, <1>4, <1>5, <1>6, <1>7 DEF ClaimHolds, PlaceMatchesReply, Claimed
<1>9. \A n \in Messages : \A i \in AttemptNumbers :
        reply[n][i] # "none" => reply'[n][i] = reply[n][i]
  BY <1>3, <1>6
<1>10. WorkersHold'
  BY <1>2, <1>5, <1>6, <1>7, <1>8, <1>9, OthersHold DEF Safe
<1>11. RowMatchesReply(m)'
  <2>1. k \in Nat
    BY <1>2, AttemptBoundAssumption DEF AttemptNumbers
  <2>2. QED
    BY <1>2, <1>3, <1>5, <1>6, <2>1 DEF RowMatchesReply
<1>12. Rows'
  BY <1>5, <1>6, <1>11, RowsFrame DEF Safe
<1>13. RepliesKept /\ RowsStayTrue /\ ChargesEarned
  BY <1>5, <1>9 DEF RepliesKept, RowsStayTrue, ChargesEarned, ReportedFailed
<1>14. QED
  BY <1>10, <1>12, <1>13, TruthKept, ChargesKept DEF Safe

(* The answer is written down: markSent, requeue, markFailed.              *)
LEMMA OutcomeSafe ==
  ASSUME TypeOK, Linked, Safe, NEW w \in Workers, NEW m \in Messages,
         m = worker[w].msg, MarkSent(w) \/ Requeue(w) \/ MarkFailed(w)
  PROVE  Safe'
<1> DEFINE k == worker[w].attempt
<1>1. worker[w].pc \in {"answered", "exhausted"} /\ worker[w].pc \in Claimed
  BY DEF MarkSent, Requeue, MarkFailed, Claimed
<1>2. /\ k \in AttemptNumbers
      /\ msg[m].state = "sending"
      /\ msg[m].attempt = k
      /\ msg[m].flag # "ambiguous"
      /\ RowMatchesReply(m)
      /\ \A v \in Workers \ {w} : ~HoldsClaim(v, m)
  BY <1>1, ClaimedFacts
<1>3. UNCHANGED <<reply, attempts, reservation>>
  BY DEF MarkSent, Requeue, MarkFailed
<1>4. \A n \in Messages \ {m} : msg'[n] = msg[n]
  <2>1. CASE MarkFailed(w)
    BY <2>1 DEF MarkFailed, TypeOK
  <2>2. CASE ~MarkFailed(w)
    BY <2>2 DEF MarkSent, Requeue, TypeOK
  <2>3. QED
    BY <2>1, <2>2
<1>5. CASE MarkSent(w)
  <2>1. reply[m][k] = "accepted"
    BY <1>2, <1>5 DEF MarkSent, Safe, WorkersHold, PlaceMatchesReply, AnswersFor, ReportedFailed
  <2>2. /\ \A v \in Workers \ {w} : worker'[v] = worker[v]
        /\ worker'[w].pc = "sent" /\ worker'[w].msg = m /\ worker'[w].attempt = k
    BY <1>2, <1>5, Moved DEF MarkSent
  <2>3. /\ msg'[m].state = "sent" /\ msg'[m].attempt = k
        /\ msg'[m].flag = msg[m].flag
    <3>1. msg' = [msg EXCEPT ![m] = SentRow(@)]
      BY <1>2, <1>5 DEF MarkSent
    <3>2. QED
      BY <1>2, <3>1 DEF SentRow, TypeOK, MessageRow
  <2>4. ClaimHolds(w)' /\ PlaceMatchesReply(w)'
    BY <1>2, <1>3, <2>1, <2>2 DEF ClaimHolds, PlaceMatchesReply, Claimed
  <2>5. WorkersHold'
    BY <1>2, <1>3, <1>4, <2>2, <2>4, OthersHold DEF Safe
  <2>6. RowMatchesReply(m)'
    BY <1>2, <1>3, <2>1, <2>3 DEF RowMatchesReply
  <2>7. QED
    BY <1>3, <1>4, <2>5, <2>6, RowsFrame, TruthKept, ChargesKept
    DEF Safe, RepliesKept, RowsStayTrue, ChargesEarned
<1>6. CASE Requeue(w)
  <2>1. reply[m][k] \in ReportedFailed
    BY <1>2, <1>6 DEF Requeue, Safe, WorkersHold, PlaceMatchesReply, AnswersFor
  <2>2. /\ \A v \in Workers \ {w} : worker'[v] = worker[v]
        /\ worker'[w].pc = "requeued" /\ worker'[w].msg = m /\ worker'[w].attempt = k
    BY <1>2, <1>6, Moved DEF Requeue
  <2>3. /\ msg'[m].state = "queued" /\ msg'[m].attempt = k
        /\ msg'[m].flag = msg[m].flag
    BY <1>2, <1>6 DEF Requeue, TypeOK, MessageRow
  <2>4. ClaimHolds(w)' /\ PlaceMatchesReply(w)'
    BY <1>2, <1>3, <2>1, <2>2 DEF ClaimHolds, PlaceMatchesReply, Claimed
  <2>5. WorkersHold'
    BY <1>2, <1>3, <1>4, <2>2, <2>4, OthersHold DEF Safe
  <2>6. RowMatchesReply(m)'
    BY <1>2, <1>3, <2>1, <2>3 DEF RowMatchesReply, ReportedFailed
  <2>7. QED
    BY <1>3, <1>4, <2>5, <2>6, RowsFrame, TruthKept, ChargesKept
    DEF Safe, RepliesKept, RowsStayTrue, ChargesEarned
<1>7. CASE MarkFailed(w)
  <2>1. reply[m][k] \in ReportedFailed
    BY <1>2, <1>7 DEF MarkFailed, Safe, WorkersHold, PlaceMatchesReply, AnswersFor
  <2>2. PICK place \in {"done", "failed"} : Move(w, place)
    BY <1>7 DEF MarkFailed
  <2>3. /\ \A v \in Workers \ {w} : worker'[v] = worker[v]
        /\ worker'[w].pc \in {"done", "failed"} /\ worker'[w].msg = m
    BY <1>2, <2>2, Moved
  <2>4. PICK code : msg' = [msg EXCEPT ![m] = FailedRow(@, code)]
    BY <1>2, <1>7 DEF MarkFailed
  <2>5. /\ msg'[m].state = "failed" /\ msg'[m].attempt = k
        /\ msg'[m].flag = msg[m].flag
    BY <1>2, <2>4 DEF FailedRow, TypeOK, MessageRow
  <2>6. ClaimHolds(w)' /\ PlaceMatchesReply(w)'
    BY <2>3 DEF ClaimHolds, PlaceMatchesReply, Claimed
  <2>7. WorkersHold'
    BY <1>2, <1>3, <1>4, <2>3, <2>6, OthersHold DEF Safe
  <2>8. RowMatchesReply(m)'
    BY <1>2, <1>3, <2>1, <2>5 DEF RowMatchesReply, ReportedFailed
  <2>9. QED
    BY <1>3, <1>4, <2>7, <2>8, RowsFrame, TruthKept, ChargesKept
    DEF Safe, RepliesKept, RowsStayTrue, ChargesEarned
<1>8. QED
  BY <1>5, <1>6, <1>7

(* The charge and the attempt row, written after or instead of an outcome. *)
LEMMA SettlingSafe ==
  ASSUME TypeOK, Linked, Safe, NEW w \in Workers, NEW m \in Messages,
         m = worker[w].msg,
         \/ CommitUsage(w) \/ CompleteAccepted(w) \/ CompleteTemporary(w)
         \/ Exhaust(w) \/ ReleaseUsage(w) \/ CompletePermanent(w)
  PROVE  Safe'
<1> DEFINE k == worker[w].attempt
<1>1. UNCHANGED <<msg, reply>>
  BY DEF CommitUsage, CompleteAccepted, CompleteTemporary, Exhaust, ReleaseUsage,
         CompletePermanent
<1>2. Rows' /\ RepliesKept
  BY <1>1 DEF Safe, Rows, RowMatchesReply, RepliesKept
<1>3. PlaceMatchesReply(w) /\ WorkersHold
  BY DEF Safe, WorkersHold
<1>4. CASE CommitUsage(w)
  <2>1. k \in AttemptNumbers /\ reply[m][k] \in {"accepted", "bounced"}
    BY <1>3, <1>4 DEF CommitUsage, PlaceMatchesReply
  <2>2. ChargesEarned
    BY <1>1, <1>4, <2>1, SettledIsEarned DEF CommitUsage
  <2>3. /\ \A v \in Workers \ {w} : worker'[v] = worker[v]
        /\ worker'[w].pc = "charged" /\ worker'[w].msg = m /\ worker'[w].attempt = k
    BY <1>4, Moved DEF CommitUsage
  <2>4. ClaimHolds(w)' /\ PlaceMatchesReply(w)'
    BY <1>1, <2>1, <2>3 DEF ClaimHolds, PlaceMatchesReply, Claimed
  <2>5. /\ \A v \in Workers : ClaimHolds(v)' /\ PlaceMatchesReply(v)'
        /\ OneClaimPerMessage'
    <3>1. ASSUME NEW v \in Workers \ {w} PROVE ClaimHolds(v)' /\ PlaceMatchesReply(v)'
      BY <1>1, <1>3, <2>3 DEF WorkersHold, ClaimHolds, PlaceMatchesReply
    <3>2. OneClaimPerMessage'
      BY <1>3, <2>3 DEF WorkersHold, OneClaimPerMessage, Claimed
    <3>3. QED
      BY <2>4, <3>1, <3>2
  <2>6. RowsStayTrue
    BY <1>4 DEF CommitUsage, RowsStayTrue
  <2>7. QED
    BY <1>2, <2>2, <2>5, <2>6, TruthKept, ChargesKept DEF Safe, WorkersHold
<1>5. CASE Exhaust(w)
  <2>1. worker[w].pc \in Claimed
    BY <1>5 DEF Exhaust, Claimed
  <2>2. k \in AttemptNumbers /\ reply[m][k] \in ReportedFailed
    BY <1>3, <1>5, <2>1, ClaimedFacts DEF Exhaust, PlaceMatchesReply, AnswersFor
  <2>3. /\ \A v \in Workers \ {w} : worker'[v] = worker[v]
        /\ worker'[w].pc = "exhausted" /\ worker'[w].msg = m /\ worker'[w].attempt = k
    BY <1>5, Moved DEF Exhaust
  <2>4. ClaimHolds(w)' /\ PlaceMatchesReply(w)'
    <3>1. ClaimHolds(w)
      BY <1>3 DEF WorkersHold
    <3>2. msg[m].state = "sending" /\ msg[m].attempt = k /\ msg[m].flag # "ambiguous"
          /\ msg[m].transportAt
      BY <1>5, <2>1, <3>1 DEF Exhaust, ClaimHolds
    <3>3. QED
      BY <1>1, <2>2, <2>3, <3>2 DEF ClaimHolds, PlaceMatchesReply, Claimed
  <2>5. \A v \in Workers \ {w} : ~HoldsClaim(v, m)
    BY <2>1, ClaimedFacts
  <2>6. WorkersHold'
    BY <1>1, <1>3, <2>3, <2>4, <2>5, OthersHold
  <2>7. RowsStayTrue
    BY <1>1, <1>5, <2>2, CompleteRowIsTrue DEF Exhaust
  <2>8. ChargesEarned
    BY <1>5 DEF Exhaust, ChargesEarned
  <2>9. QED
    BY <1>2, <2>6, <2>7, <2>8, TruthKept, ChargesKept DEF Safe
<1>6. CASE CompleteAccepted(w)
  <2>1. k \in AttemptNumbers /\ reply[m][k] \in {"accepted", "bounced"}
    BY <1>3, <1>6 DEF CompleteAccepted, PlaceMatchesReply
  <2>2. RowsStayTrue
    BY <1>1, <1>6, <2>1, CompleteRowIsTrue DEF CompleteAccepted
  <2>3. \A v \in Workers : worker'[v] = worker[v] \/ worker'[v].pc \notin Remembering
    BY <1>6, Moved DEF CompleteAccepted, Remembering, Claimed
  <2>4. ChargesEarned
    BY <1>6 DEF CompleteAccepted, ChargesEarned
  <2>5. QED
    BY <1>1, <1>2, <1>3, <2>2, <2>3, <2>4, WorkersQuiet, TruthKept, ChargesKept DEF Safe
<1>7. CASE CompleteTemporary(w)
  <2>1. k \in AttemptNumbers /\ reply[m][k] \in ReportedFailed
    BY <1>3, <1>7 DEF CompleteTemporary, PlaceMatchesReply
  <2>2. RowsStayTrue
    BY <1>1, <1>7, <2>1, CompleteRowIsTrue DEF CompleteTemporary
  <2>3. \A v \in Workers : worker'[v] = worker[v] \/ worker'[v].pc \notin Remembering
    BY <1>7, Moved DEF CompleteTemporary, Remembering, Claimed
  <2>4. ChargesEarned
    BY <1>7 DEF CompleteTemporary, ChargesEarned
  <2>5. QED
    BY <1>1, <1>2, <1>3, <2>2, <2>3, <2>4, WorkersQuiet, TruthKept, ChargesKept DEF Safe
<1>8. CASE ReleaseUsage(w)
  <2>1. \A v \in Workers : worker'[v] = worker[v] \/ worker'[v].pc \notin Remembering
    BY <1>8, Moved DEF ReleaseUsage, Remembering, Claimed
  <2>2. QED
    BY <1>1, <1>8, <2>1, QuietStep DEF ReleaseUsage
<1>9. CASE CompletePermanent(w)
  <2>1. RowsStayTrue
    BY <1>1, <1>9, CompleteRowIsTrue DEF CompletePermanent
  <2>2. \A v \in Workers : worker'[v] = worker[v] \/ worker'[v].pc \notin Remembering
    BY <1>9, Moved DEF CompletePermanent, Remembering, Claimed
  <2>3. ChargesEarned
    BY <1>9 DEF CompletePermanent, ChargesEarned
  <2>4. QED
    BY <1>1, <1>2, <1>3, <2>1, <2>2, <2>3, WorkersQuiet, TruthKept, ChargesKept DEF Safe
<1>10. QED
  BY <1>4, <1>5, <1>6, <1>7, <1>8, <1>9

(* Steps that leave messages, replies, rows and charges alone and after    *)
(* which the worker that took them remembers nothing.                      *)
LEMMA QueueStepSafe ==
  ASSUME TypeOK, Linked, Safe, NEW w \in Workers,
         \/ \E j \in Jobs : Pop(w, j)
         \/ StopCheck(w) \/ NothingToClaim(w) \/ FinishJob(w) \/ JobThrew(w)
         \/ HandlerError(w) \/ WorkerDies(w)
  PROVE  Safe'
<1>1. UNCHANGED <<msg, reply, attempts, reservation>>
  BY DEF Pop, StopCheck, NothingToClaim, FinishJob, JobThrew, HandlerError, WorkerDies,
         deliveryVars
<1>2. \A v \in Workers \ {w} : worker'[v] = worker[v]
  <2>1. CASE \E place : Move(w, place)
    BY <2>1, Moved
  <2>2. CASE \E row : worker' = [worker EXCEPT ![w] = row]
    BY <2>2 DEF TypeOK
  <2>3. CASE UNCHANGED worker
    BY <2>3
  <2>4. QED
    BY <2>1, <2>2, <2>3
    DEF Pop, StopCheck, NothingToClaim, FinishJob, JobThrew, HandlerError, WorkerDies
<1>3. worker'[w] = worker[w] \/ worker'[w].pc \notin Remembering
  <2> USE DEF Remembering, Claimed
  <2>1. CASE \E place \in {"cleared", "done", "threw"} : Move(w, place)
    BY <2>1, Moved
  <2>2. CASE worker' = [worker EXCEPT ![w] = IdleWorker]
    BY <2>2 DEF TypeOK, IdleWorker
  <2>3. CASE UNCHANGED worker
    BY <2>3
  <2>4. ASSUME NEW j \in Jobs, Pop(w, j)
        PROVE  worker'[w] = worker[w] \/ worker'[w].pc = "popped"
    <3>1. UNCHANGED worker
            \/ \E row : row.pc = "popped" /\ worker' = [worker EXCEPT ![w] = row]
      <4>1. [IdleWorker EXCEPT !.pc = "popped", !.job = j, !.msg = jobs[j].msg,
               !.tries = jobs[j].tries + 1].pc = "popped"
        BY DEF IdleWorker
      <4>2. QED
        BY <2>4, <4>1 DEF Pop
    <3>2. QED
      BY <3>1 DEF TypeOK
  <2>5. QED
    BY <2>1, <2>2, <2>3, <2>4
    DEF StopCheck, NothingToClaim, FinishJob, JobThrew, HandlerError, WorkerDies
<1>4. QED
  BY <1>1, <1>2, <1>3, QuietStep

-----------------------------------------------------------------------------
(* The invariant.                                                          *)

LEMMA IInvSafe == IInv <=> TypeOK /\ Linked /\ Safe
BY DEF IInv, Safe, WorkersHold, Rows

LEMMA InitSafe == Init => IInv
<1> SUFFICES ASSUME Init PROVE IInv
  OBVIOUS
<1>1. TypeOK /\ Linked
  BY InitType
<1>2. WorkersHold
  BY DEF Init, IdleWorker, WorkersHold, ClaimHolds, PlaceMatchesReply,
         OneClaimPerMessage, Claimed
<1>3. Rows
  BY DEF Init, Rows, RowMatchesReply
<1>4. RowsAreTrue /\ ChargedOnlyIfAccepted
  BY DEF Init, RowsAreTrue, ChargedOnlyIfAccepted
<1>5. QED
  BY <1>1, <1>2, <1>3, <1>4, IInvSafe DEF Safe

LEMMA StepSafe ==
  ASSUME WithinTimeouts, TypeOK, Linked, Safe, [Next]_vars
  PROVE  Safe'
<1>1. ASSUME NEW m \in Messages,
             \/ RequestStep(m) \/ AdminStep(m) \/ StaleStep(m) \/ RepairStep(m)
             \/ ProviderDelivers(m) \/ ProviderBounces(m)
      PROVE  Safe'
  BY <1>1, RequestStepSafe, AdminStepSafe, StaleStepSafe, RepairStepSafe, ProviderStepSafe
<1>2. ASSUME NEW w \in Workers,
             \/ \E j \in Jobs : Pop(w, j)
             \/ HandlerStep(w) \/ HandlerError(w) \/ WorkerDies(w)
      PROVE  Safe'
  <2>1. CASE \/ \E j \in Jobs : Pop(w, j)
             \/ StopCheck(w) \/ NothingToClaim(w) \/ FinishJob(w) \/ JobThrew(w)
             \/ HandlerError(w) \/ WorkerDies(w)
    BY <2>1, QueueStepSafe
  <2>2. CASE \/ Claim(w) \/ StartAttempt(w) \/ RefuseBeforeTransport(w)
             \/ StampTransport(w) \/ Send(w) \/ MarkSent(w) \/ Requeue(w) \/ MarkFailed(w)
             \/ CommitUsage(w) \/ CompleteAccepted(w) \/ CompleteTemporary(w)
             \/ Exhaust(w) \/ ReleaseUsage(w) \/ CompletePermanent(w)
    <3>1. worker[w].pc # "idle"
      BY <2>2 DEF Claim, StartAttempt, RefuseBeforeTransport, StampTransport, Send, MarkSent,
                  Requeue, MarkFailed, CommitUsage, CompleteAccepted, CompleteTemporary,
                  Exhaust, ReleaseUsage, CompletePermanent
    <3>2. PICK m \in Messages : m = worker[w].msg
      BY <3>1 DEF Linked
    <3>3. QED
      BY <2>2, <3>2, ClaimSafe, BeforeTransportSafe, SendSafe, OutcomeSafe, SettlingSafe
  <2>3. QED
    BY <1>2, <2>1, <2>2 DEF HandlerStep
<1>3. CASE \/ \E m \in Messages : LockExpires(m)
           \/ \E j \in Jobs : Redeliver(j)
           \/ EmergencyStop \/ EmergencyResume
           \/ UNCHANGED vars
  <2>1. UNCHANGED <<msg, reply, attempts, reservation, worker>>
    BY <1>3 DEF LockExpires, Redeliver, EmergencyStop, EmergencyResume, vars,
                deliveryVars, queueVars
  <2>2. QED
    BY <2>1, QuietStep
<1>4. QED
  BY <1>1, <1>2, <1>3 DEF Next

LEMMA NextSafe == ASSUME WithinTimeouts PROVE IInv /\ [Next]_vars => IInv'
<1>1. ASSUME IInv, [Next]_vars PROVE TypeOK' /\ Linked' /\ Safe'
  BY <1>1, NextType, StepSafe, IInvSafe
<1>2. TypeOK' /\ Linked' /\ Safe' => IInv'
  BY DEF IInv, Safe, WorkersHold, Rows
<1>3. QED
  BY <1>1, <1>2

(* Delivery keeps its inductive invariant: claims are exclusive, a row     *)
(* agrees with what the transport reported, and so do attempt rows and     *)
(* charges.  A reported failure may follow an acceptance nobody heard of.  *)
THEOREM DeliveryInvariant_Holds == ASSUME WithinTimeouts PROVE Spec => []IInv
<1>1. Init => IInv
  BY InitSafe
<1>2. IInv /\ [Next]_vars => IInv'
  BY NextSafe
<1>3. QED
  BY <1>1, <1>2, PTL DEF Spec

-----------------------------------------------------------------------------
(* What follows from it.                                                   *)

LEMMA IInvImplies ==
  ASSUME IInv
  PROVE  AcceptedIsLast /\ StateMatchesProvider
<1>1. AcceptedIsLast
  BY DEF IInv, RowMatchesReply, AcceptedIsLast
<1>2. StateMatchesProvider
  BY DEF IInv, RowMatchesReply, StateMatchesProvider
<1>3. QED
  BY <1>1, <1>2

(* No worker loss, requeue, user retry or admin retry hands over a message *)
(* after its acceptance was reported, unless a bounce was reported since.  *)
THEOREM AcceptanceIsLast == ASSUME WithinTimeouts PROVE Spec => []AcceptedIsLast
<1>1. IInv => AcceptedIsLast
  BY IInvImplies
<1>2. QED
  BY <1>1, DeliveryInvariant_Holds, PTL

(* Sent and delivered messages were reported accepted on their current     *)
(* attempt, cancelled ones on none.                                        *)
THEOREM StateIsHonest == ASSUME WithinTimeouts PROVE Spec => []StateMatchesProvider
<1>1. IInv => StateMatchesProvider
  BY IInvImplies
<1>2. QED
  BY <1>1, DeliveryInvariant_Holds, PTL

(* Only accepted messages are charged.                                     *)
THEOREM ChargesAreTrue == ASSUME WithinTimeouts PROVE Spec => []ChargedOnlyIfAccepted
<1>1. IInv => ChargedOnlyIfAccepted
  BY DEF IInv
<1>2. QED
  BY <1>1, DeliveryInvariant_Holds, PTL

(* Rows marked accepted, or temporary failures, say what was reported.     *)
THEOREM RowsSayWhatWasReported == ASSUME WithinTimeouts PROVE Spec => []RowsAreTrue
<1>1. IInv => RowsAreTrue
  BY DEF IInv
<1>2. QED
  BY <1>1, DeliveryInvariant_Holds, PTL

-----------------------------------------------------------------------------
(* The provider conversation: what one row and its replies mean in it.     *)

Phase(row) ==
    CASE row.state = "sending" /\ row.transportAt -> "offering"
      [] row.state = "sent"                       -> "accepted"
      [] row.state = "delivered"                  -> "delivered"
      [] row.state = "cancelled"                  -> "withdrawn"
      [] OTHER                                    -> "unsent"

Told(row, replies) ==
    IF row.state = "sending" /\ row.transportAt THEN Reported(replies[row.attempt]) ELSE "none"

(* The steps of the conversation about one message, silence included.      *)
Converses(phase, told, newPhase, newTold) ==
    \/ newPhase = phase /\ newTold = told
    \/ phase = "unsent" /\ newPhase \in {"offering", "accepted", "withdrawn"} /\ newTold = told
    \/ /\ phase = "offering" /\ newPhase = phase
       /\ told = "none" /\ newTold \in {"accepted", "failed"}
    \/ /\ phase = "offering" /\ told # "none" /\ newTold = "none"
       /\ newPhase = IF told = "accepted" THEN "accepted" ELSE "unsent"
    \/ phase = "accepted" /\ newPhase \in {"delivered", "unsent"} /\ newTold = told

(* What a step that touches at most m does to m.                           *)
Speaks(m) ==
    /\ \A n \in Messages \ {m} : msg'[n] = msg[n] /\ reply'[n] = reply[n]
    /\ Converses(Phase(msg[m]), Told(msg[m], reply[m]),
                 Phase(msg'[m]), Told(msg'[m], reply'[m]))

LEMMA ConversationSteps ==
  ASSUME NEW m \in Messages, Speaks(m)
  PROVE  [\E n \in Messages : Conversation!ConversationStep(n)]_<<talkOf, answerOf>>
<1> DEFINE phase == Phase(msg[m])
           told == Told(msg[m], reply[m])
           newPhase == Phase(msg'[m])
           newTold == Told(msg'[m], reply'[m])
<1>1. /\ talkOf = [n \in Messages |-> Phase(msg[n])]
      /\ talkOf' = [n \in Messages |-> Phase(msg'[n])]
      /\ answerOf = [n \in Messages |-> Told(msg[n], reply[n])]
      /\ answerOf' = [n \in Messages |-> Told(msg'[n], reply'[n])]
  BY DEF talkOf, answerOf, Unsettled, Phase, Told
<1>2. /\ talkOf[m] = phase /\ answerOf[m] = told
      /\ talkOf' = [talkOf EXCEPT ![m] = newPhase]
      /\ answerOf' = [answerOf EXCEPT ![m] = newTold]
  BY <1>1 DEF Speaks
<1>3. /\ newPhase = phase => UNCHANGED talkOf
      /\ newTold = told => UNCHANGED answerOf
  BY <1>1, <1>2
<1>4. Converses(phase, told, newPhase, newTold)
  BY DEF Speaks
<1> HIDE DEF phase, told, newPhase, newTold
<1>5. UNCHANGED <<talkOf, answerOf>> \/ Conversation!ConversationStep(m)
  <2>1. CASE newPhase = phase /\ newTold = told
    BY <1>3, <2>1
  <2>2. CASE phase = "unsent" /\ newTold = told /\ newPhase = "offering"
    BY <1>2, <1>3, <2>2 DEF Conversation!ConversationStep, Conversation!Offer
  <2>3. CASE phase = "unsent" /\ newTold = told /\ newPhase = "accepted"
    BY <1>2, <1>3, <2>3 DEF Conversation!ConversationStep, Conversation!Exchange
  <2>4. CASE phase = "unsent" /\ newTold = told /\ newPhase = "withdrawn"
    BY <1>2, <1>3, <2>4 DEF Conversation!ConversationStep, Conversation!Withdraw
  <2>5. CASE /\ phase = "offering" /\ newPhase = phase
             /\ told = "none" /\ newTold \in {"accepted", "failed"}
    BY <1>2, <1>3, <2>5 DEF Conversation!ConversationStep, Conversation!Answer
  <2>6. CASE /\ phase = "offering" /\ told # "none" /\ newTold = "none"
             /\ newPhase = IF told = "accepted" THEN "accepted" ELSE "unsent"
    BY <1>2, <2>6 DEF Conversation!ConversationStep, Conversation!Record
  <2>7. CASE phase = "accepted" /\ newPhase \in {"delivered", "unsent"} /\ newTold = told
    BY <1>2, <1>3, <2>7 DEF Conversation!ConversationStep, Conversation!ProviderReports
  <2>8. QED
    BY <1>4, <2>1, <2>2, <2>3, <2>4, <2>5, <2>6, <2>7 DEF Converses
<1>6. QED
  BY <1>5

(* A step on one row, the replies untouched.                               *)
LEMMA RowSpeaks ==
  ASSUME TypeOK, NEW m \in Messages, NEW row, msg' = [msg EXCEPT ![m] = row],
         UNCHANGED reply,
         Converses(Phase(msg[m]), Told(msg[m], reply[m]), Phase(row), Told(row, reply[m]))
  PROVE  Speaks(m)
<1>1. msg'[m] = row /\ \A n \in Messages \ {m} : msg'[n] = msg[n]
  BY DEF TypeOK
<1>2. QED
  BY <1>1 DEF Speaks

LEMMA Silence ==
  ASSUME NEW m \in Messages, UNCHANGED <<msg, reply>>
  PROVE  Speaks(m)
BY DEF Speaks, Converses

LEMMA MessageStepSpeaks ==
  ASSUME WithinTimeouts, IInv, NEW m \in Messages,
         \/ RequestStep(m) \/ AdminStep(m) \/ StaleStep(m) \/ RepairStep(m)
         \/ ProviderDelivers(m) \/ ProviderBounces(m) \/ LockExpires(m)
  PROVE  Speaks(m)
<1>t. TypeOK /\ msg[m] \in MessageRow /\ RowMatchesReply(m)
  BY DEF IInv, TypeOK
<1>f. msg[m].flag = "ambiguous" => msg[m].state = "sending"
  BY <1>t DEF RowMatchesReply
<1>1. CASE Submit(m) \/ Cancel(m)
  <2>1. PICK s \in {"queued", "cancelled"} :
          msg' = [msg EXCEPT ![m] = [msg[m] EXCEPT !.state = s]]
    BY <1>1 DEF Submit, Cancel
  <2>2. msg[m].state \in {"draft", "queued"} /\ UNCHANGED reply
    BY <1>1 DEF Submit, Cancel
  <2>3. Converses(Phase(msg[m]), Told(msg[m], reply[m]),
                  Phase([msg[m] EXCEPT !.state = s]),
                  Told([msg[m] EXCEPT !.state = s], reply[m]))
    BY <1>t, <2>2 DEF Converses, Phase, Told, MessageRow
  <2>4. QED
    BY <1>t, <1>f, <2>1, <2>2, <2>3, RowSpeaks
<1>2. CASE Retry(m)
  <2> DEFINE row == [msg[m] EXCEPT !.state = "queued", !.failedAt = FALSE, !.failure = "none"]
  <2>1. msg' = [msg EXCEPT ![m] = row] /\ msg[m].state = "failed" /\ UNCHANGED reply
    BY <1>2 DEF Retry
  <2>2. row.state = "queued"
    BY <1>t DEF MessageRow
  <2> HIDE DEF row
  <2>3. Converses(Phase(msg[m]), Told(msg[m], reply[m]), Phase(row), Told(row, reply[m]))
    BY <2>1, <2>2 DEF Converses, Phase, Told
  <2>4. QED
    BY <1>t, <1>f, <2>1, <2>3, RowSpeaks
<1>3. CASE \/ \E s \in Sources : Dispatch(m, s) \/ RequestDies(m, s)
           \/ ProviderRetryCheck(m) \/ ProviderRetryRefused(m)
           \/ RepairAttempt(m) \/ RepairCommit(m) \/ ExpiryScan(m) \/ Expire(m)
           \/ LockExpires(m)
  BY <1>3, Silence
     DEF Dispatch, RequestDies, ProviderRetryCheck, ProviderRetryRefused, RepairAttempt,
         RepairCommit, ExpiryScan, Expire, LockExpires, deliveryVars
<1>4. CASE ProviderRetry(m)
  <2> DEFINE row == [ClaimedRow(msg[m]) EXCEPT !.transportAt = TRUE]
             k == msg[m].attempt + 1
  <2>1. PICK result \in Results \ {"none"}, answer \in Replies,
             code \in FailureClasses \ {"none"} :
          /\ answer \in AnswersFor(result)
          /\ msg' = [msg EXCEPT ![m] = IF result = "accepted" THEN SentRow(row)
                                                            ELSE FailedRow(row, code)]
          /\ reply' = [reply EXCEPT ![m][k] = answer]
    BY <1>4 DEF ProviderRetry, AnswersFor, CodesFor, ReportedFailed, Replies
  <2>2. SentRow(row).state = "sent" /\ FailedRow(row, code).state = "failed"
    BY <1>t DEF SentRow, FailedRow, ClaimedRow, MessageRow
  <2>3. msg[m].state = "failed"
    BY <1>4 DEF ProviderRetry
  <2> HIDE DEF row, k
  <2>4. msg'[m].state \in {"sent", "failed"}
    BY <1>t, <2>1, <2>2 DEF TypeOK
  <2>5. Converses(Phase(msg[m]), Told(msg[m], reply[m]), Phase(msg'[m]), Told(msg'[m], reply'[m]))
    BY <2>3, <2>4 DEF Converses, Phase, Told
  <2>6. \A n \in Messages \ {m} : msg'[n] = msg[n] /\ reply'[n] = reply[n]
    BY <1>t, <2>1 DEF TypeOK
  <2>7. QED
    BY <1>f, <2>3, <2>5, <2>6 DEF Speaks
<1>5. CASE ProviderRetryDies(m)
  BY <1>5 DEF ProviderRetryDies, WithinTimeouts
<1>6. CASE FlagAmbiguous(m) \/ FlagImpossible(m)
  <2>1. PICK f \in Flags : msg' = [msg EXCEPT ![m] = [msg[m] EXCEPT !.flag = f]]
    BY <1>6 DEF FlagAmbiguous, FlagImpossible, Flags
  <2>2. msg[m].flag = "none" /\ UNCHANGED reply
    BY <1>6 DEF FlagAmbiguous, FlagImpossible, Stale
  <2>3. Converses(Phase(msg[m]), Told(msg[m], reply[m]),
                  Phase([msg[m] EXCEPT !.flag = f]), Told([msg[m] EXCEPT !.flag = f], reply[m]))
    BY <1>t DEF Converses, Phase, Told, MessageRow
  <2>4. QED
    BY <1>t, <2>1, <2>2, <2>3, RowSpeaks
<1>7. CASE FailExhausted(m)
  <2>1. FailedRow(msg[m], "other").state = "failed"
    BY <1>t DEF FailedRow, MessageRow
  <2>2. /\ msg' = [msg EXCEPT ![m] = FailedRow(msg[m], "other")] /\ UNCHANGED reply
        /\ msg[m].state = "sending" /\ ~msg[m].transportAt /\ msg[m].flag = "none"
    BY <1>7 DEF FailExhausted, Stale
  <2>3. Converses(Phase(msg[m]), Told(msg[m], reply[m]),
                  Phase(FailedRow(msg[m], "other")), Told(FailedRow(msg[m], "other"), reply[m]))
    BY <2>1, <2>2 DEF Converses, Phase, Told
  <2>4. QED
    BY <1>t, <2>2, <2>3, RowSpeaks
<1>8. CASE RequeueStale(m)
  <2> DEFINE row == [msg[m] EXCEPT !.state = "queued"]
  <2>1. row.state = "queued"
    BY <1>t DEF MessageRow
  <2>2. /\ msg' = [msg EXCEPT ![m] = row] /\ UNCHANGED reply
        /\ msg[m].state = "sending" /\ ~msg[m].transportAt /\ msg[m].flag = "none"
    BY <1>8 DEF RequeueStale, Stale
  <2> HIDE DEF row
  <2>3. Converses(Phase(msg[m]), Told(msg[m], reply[m]), Phase(row), Told(row, reply[m]))
    BY <2>1, <2>2 DEF Converses, Phase, Told
  <2>4. QED
    BY <1>t, <2>2, <2>3, RowSpeaks
<1>9. CASE ProviderDelivers(m)
  <2> DEFINE row == [msg[m] EXCEPT !.state = "delivered", !.deliveredAt = TRUE]
  <2>1. row.state = "delivered"
    BY <1>t DEF MessageRow
  <2>2. msg' = [msg EXCEPT ![m] = row] /\ msg[m].state = "sent" /\ UNCHANGED reply
    BY <1>9 DEF ProviderDelivers
  <2> HIDE DEF row
  <2>3. Converses(Phase(msg[m]), Told(msg[m], reply[m]), Phase(row), Told(row, reply[m]))
    BY <2>1, <2>2 DEF Converses, Phase, Told
  <2>4. QED
    BY <1>t, <1>f, <2>2, <2>3, RowSpeaks
<1>10. CASE ProviderBounces(m)
  <2>1. FailedRow(msg[m], "other").state = "failed"
    BY <1>t DEF FailedRow, MessageRow
  <2>2. msg' = [msg EXCEPT ![m] = FailedRow(msg[m], "other")] /\ msg[m].state = "sent"
    BY <1>10 DEF ProviderBounces
  <2>3. \A n \in Messages \ {m} : msg'[n] = msg[n] /\ reply'[n] = reply[n]
    BY <1>t, <1>10, <2>2 DEF ProviderBounces, TypeOK
  <2>4. msg'[m].state = "failed"
    BY <1>t, <2>1, <2>2 DEF TypeOK
  <2>5. Converses(Phase(msg[m]), Told(msg[m], reply[m]), Phase(msg'[m]), Told(msg'[m], reply'[m]))
    BY <2>2, <2>4 DEF Converses, Phase, Told
  <2>6. QED
    BY <1>f, <2>2, <2>3, <2>5 DEF Speaks
<1>11. QED
  BY <1>1, <1>2, <1>3, <1>4, <1>5, <1>6, <1>7, <1>8, <1>9, <1>10
     DEF RequestStep, AdminStep, StaleStep, RepairStep

LEMMA HandlerStepSpeaks ==
  ASSUME IInv, NEW w \in Workers, HandlerStep(w), NEW m \in Messages,
         worker[w].pc # "idle" => m = worker[w].msg
  PROVE  Speaks(m)
<1> DEFINE k == worker[w].attempt
<1>t. TypeOK /\ Linked /\ msg[m] \in MessageRow /\ RowMatchesReply(m)
  BY DEF IInv, TypeOK
<1>c. ASSUME worker[w].pc \in Claimed
      PROVE  /\ m = worker[w].msg /\ k \in AttemptNumbers
             /\ msg[m].state = "sending" /\ msg[m].attempt = k /\ msg[m].flag # "ambiguous"
             /\ msg[m].transportAt <=> worker[w].pc \in {"submitting", "answered", "exhausted"}
             /\ PlaceMatchesReply(w)
  BY <1>c DEF IInv, ClaimHolds, PlaceMatchesReply, Claimed
<1>1. CASE \/ StopCheck(w) \/ NothingToClaim(w) \/ StartAttempt(w) \/ CommitUsage(w)
           \/ CompleteAccepted(w) \/ CompleteTemporary(w) \/ Exhaust(w) \/ ReleaseUsage(w)
           \/ CompletePermanent(w) \/ FinishJob(w) \/ JobThrew(w)
  BY <1>1, Silence
     DEF StopCheck, NothingToClaim, StartAttempt, CommitUsage, CompleteAccepted,
         CompleteTemporary, Exhaust, ReleaseUsage, CompletePermanent, FinishJob, JobThrew,
         deliveryVars
<1>2. CASE Claim(w)
  <2>1. /\ m = worker[w].msg /\ msg[m].state = "queued" /\ UNCHANGED reply
        /\ msg' = [msg EXCEPT ![m] = ClaimedRow(msg[m])]
    BY <1>2 DEF Claim
  <2>2. ClaimedRow(msg[m]).state = "sending" /\ ~ClaimedRow(msg[m]).transportAt
    BY <1>t DEF ClaimedRow, MessageRow
  <2>3. msg[m].flag # "ambiguous"
    BY <1>t, <2>1 DEF RowMatchesReply
  <2>4. Converses(Phase(msg[m]), Told(msg[m], reply[m]),
                  Phase(ClaimedRow(msg[m])), Told(ClaimedRow(msg[m]), reply[m]))
    BY <2>1, <2>2 DEF Converses, Phase, Told
  <2>5. QED
    BY <1>t, <2>1, <2>3, <2>4, RowSpeaks
<1>3. CASE RefuseBeforeTransport(w)
  <2>1. /\ m = worker[w].msg /\ msg[m].state = "sending" /\ ~msg[m].transportAt
        /\ msg[m].flag # "ambiguous"
    BY <1>3, <1>c DEF RefuseBeforeTransport, Claimed
  <2>2. PICK code : msg' = [msg EXCEPT ![m] = FailedRow(msg[m], code)] /\ UNCHANGED reply
    BY <1>3, <2>1 DEF RefuseBeforeTransport
  <2>3. FailedRow(msg[m], code).state = "failed"
    BY <1>t DEF FailedRow, MessageRow
  <2>4. Converses(Phase(msg[m]), Told(msg[m], reply[m]),
                  Phase(FailedRow(msg[m], code)), Told(FailedRow(msg[m], code), reply[m]))
    BY <2>1, <2>3 DEF Converses, Phase, Told
  <2>5. QED
    BY <1>t, <2>1, <2>2, <2>4, RowSpeaks
<1>4. CASE StampTransport(w)
  <2>1. /\ m = worker[w].msg /\ msg[m].state = "sending" /\ ~msg[m].transportAt
        /\ msg[m].flag # "ambiguous" /\ msg[m].attempt = k /\ reply[m][k] = "none"
    BY <1>4, <1>c DEF StampTransport, Claimed, PlaceMatchesReply
  <2> DEFINE row == [msg[m] EXCEPT !.transportAt = TRUE]
  <2>2. msg' = [msg EXCEPT ![m] = row] /\ UNCHANGED reply
    BY <1>4, <2>1 DEF StampTransport
  <2>3. row.state = "sending" /\ row.transportAt /\ row.attempt = k
    BY <1>t, <2>1 DEF MessageRow
  <2> HIDE DEF k, row
  <2>4. Converses(Phase(msg[m]), Told(msg[m], reply[m]), Phase(row), Told(row, reply[m]))
    BY <2>1, <2>3 DEF Converses, Phase, Told, Reported, ReportedFailed
  <2>5. QED
    BY <1>t, <2>1, <2>2, <2>4, RowSpeaks
<1>5. CASE Send(w)
  <2>1. /\ m = worker[w].msg /\ k \in AttemptNumbers
        /\ msg[m].state = "sending" /\ msg[m].transportAt
        /\ msg[m].flag # "ambiguous" /\ msg[m].attempt = k /\ reply[m][k] = "none"
    BY <1>5, <1>c DEF Send, Claimed, PlaceMatchesReply
  <2>2. PICK answer \in {"accepted"} \cup ReportedFailed :
          reply' = [reply EXCEPT ![m][k] = answer] /\ UNCHANGED msg
    BY <1>5, <2>1 DEF Send, deliveryVars, AnswersFor
  <2> HIDE DEF k
  <2>3. /\ reply'[m][k] = answer
        /\ \A n \in Messages \ {m} : reply'[n] = reply[n]
    BY <1>t, <2>1, <2>2 DEF TypeOK
  <2>4. Converses(Phase(msg[m]), Told(msg[m], reply[m]), Phase(msg'[m]), Told(msg'[m], reply'[m]))
    BY <2>1, <2>2, <2>3 DEF Converses, Phase, Told, Reported, ReportedFailed
  <2>5. QED
    BY <2>2, <2>3, <2>4 DEF Speaks
<1>6. CASE MarkSent(w)
  <2>1. /\ m = worker[w].msg /\ msg[m].state = "sending" /\ msg[m].transportAt
        /\ msg[m].flag # "ambiguous" /\ msg[m].attempt = k /\ reply[m][k] = "accepted"
    BY <1>6, <1>c DEF MarkSent, Claimed, PlaceMatchesReply, AnswersFor, ReportedFailed
  <2>2. msg' = [msg EXCEPT ![m] = SentRow(msg[m])] /\ UNCHANGED reply
    BY <1>6, <2>1 DEF MarkSent
  <2>3. SentRow(msg[m]).state = "sent"
    BY <1>t DEF SentRow, MessageRow
  <2> HIDE DEF k
  <2>4. Converses(Phase(msg[m]), Told(msg[m], reply[m]),
                  Phase(SentRow(msg[m])), Told(SentRow(msg[m]), reply[m]))
    BY <2>1, <2>3 DEF Converses, Phase, Told, Reported, ReportedFailed
  <2>5. QED
    BY <1>t, <2>1, <2>2, <2>4, RowSpeaks
<1>7. CASE Requeue(w)
  <2>1. /\ m = worker[w].msg /\ msg[m].state = "sending" /\ msg[m].transportAt
        /\ msg[m].flag # "ambiguous" /\ msg[m].attempt = k /\ reply[m][k] \in ReportedFailed
    BY <1>7, <1>c DEF Requeue, Claimed, PlaceMatchesReply, AnswersFor
  <2> DEFINE row == [msg[m] EXCEPT !.state = "queued", !.failure = "other"]
  <2>2. msg' = [msg EXCEPT ![m] = row] /\ UNCHANGED reply
    BY <1>7, <2>1 DEF Requeue
  <2>3. row.state = "queued"
    BY <1>t DEF MessageRow
  <2> HIDE DEF k, row
  <2>4. Converses(Phase(msg[m]), Told(msg[m], reply[m]), Phase(row), Told(row, reply[m]))
    BY <2>1, <2>3 DEF Converses, Phase, Told, Reported, ReportedFailed
  <2>5. QED
    BY <1>t, <2>1, <2>2, <2>4, RowSpeaks
<1>8. CASE MarkFailed(w)
  <2>1. /\ m = worker[w].msg /\ msg[m].state = "sending" /\ msg[m].transportAt
        /\ msg[m].flag # "ambiguous" /\ msg[m].attempt = k /\ reply[m][k] \in ReportedFailed
    BY <1>8, <1>c DEF MarkFailed, Claimed, PlaceMatchesReply, AnswersFor
  <2>2. PICK code : msg' = [msg EXCEPT ![m] = FailedRow(msg[m], code)] /\ UNCHANGED reply
    BY <1>8, <2>1 DEF MarkFailed
  <2>3. FailedRow(msg[m], code).state = "failed"
    BY <1>t DEF FailedRow, MessageRow
  <2> HIDE DEF k
  <2>4. Converses(Phase(msg[m]), Told(msg[m], reply[m]),
                  Phase(FailedRow(msg[m], code)), Told(FailedRow(msg[m], code), reply[m]))
    BY <2>1, <2>3 DEF Converses, Phase, Told, Reported, ReportedFailed
  <2>5. QED
    BY <1>t, <2>1, <2>2, <2>4, RowSpeaks
<1>9. QED
  BY <1>1, <1>2, <1>3, <1>4, <1>5, <1>6, <1>7, <1>8 DEF HandlerStep

LEMMA SomeoneSpeaks ==
  ASSUME WithinTimeouts, IInv, [Next]_vars
  PROVE  (\E m \in Messages : Speaks(m)) \/ UNCHANGED <<msg, reply>>
<1>1. ASSUME NEW m \in Messages,
             \/ RequestStep(m) \/ AdminStep(m) \/ StaleStep(m) \/ RepairStep(m)
             \/ ProviderDelivers(m) \/ ProviderBounces(m) \/ LockExpires(m)
      PROVE  Speaks(m)
  BY <1>1, MessageStepSpeaks
<1>2. ASSUME NEW w \in Workers, HandlerStep(w)
      PROVE  (\E m \in Messages : Speaks(m)) \/ UNCHANGED <<msg, reply>>
  <2>1. CASE worker[w].pc # "idle"
    <3>1. worker[w].msg \in Messages
      BY <2>1 DEF IInv, Linked
    <3>2. QED
      BY <1>2, <3>1, HandlerStepSpeaks
  <2>2. CASE worker[w].pc = "idle"
    BY <1>2, <2>2
       DEF HandlerStep, StopCheck, Claim, NothingToClaim, StartAttempt, RefuseBeforeTransport,
           StampTransport, Send, MarkSent, CommitUsage, CompleteAccepted, Requeue,
           CompleteTemporary, Exhaust, MarkFailed, ReleaseUsage, CompletePermanent, FinishJob,
           JobThrew
  <2>3. QED
    BY <2>1, <2>2
<1>3. ASSUME NEW w \in Workers, NEW j \in Jobs, Pop(w, j) PROVE UNCHANGED <<msg, reply>>
  BY <1>3 DEF Pop, deliveryVars
<1>4. ASSUME NEW w \in Workers, HandlerError(w) \/ WorkerDies(w)
      PROVE  UNCHANGED <<msg, reply>>
  BY <1>4 DEF HandlerError, WorkerDies, deliveryVars
<1>5. CASE (\E j \in Jobs : Redeliver(j)) \/ EmergencyStop \/ EmergencyResume
  BY <1>5 DEF Redeliver, EmergencyStop, EmergencyResume, deliveryVars
<1>6. CASE UNCHANGED vars
  BY <1>6 DEF vars
<1>7. QED
  BY <1>1, <1>2, <1>3, <1>4, <1>5, <1>6 DEF Next

LEMMA NextConverses ==
  ASSUME WithinTimeouts, IInv, [Next]_vars
  PROVE  [\E m \in Messages : Conversation!ConversationStep(m)]_<<talkOf, answerOf>>
<1>1. CASE \E m \in Messages : Speaks(m)
  BY <1>1, ConversationSteps
<1>2. CASE UNCHANGED <<msg, reply>>
  BY <1>2 DEF talkOf, answerOf, Unsettled
<1>3. QED
  BY <1>1, <1>2, SomeoneSpeaks

(* Every step of delivery is a step of the provider conversation or keeps  *)
(* silent: no crash, retry, requeue or repair offers a message again while *)
(* an earlier offer is unanswered or was reported accepted.                *)
THEOREM DeliveryImplementsConversation == ASSUME WithinTimeouts PROVE Spec => ImplementsConversation
<1>1. Init => Conversation!ConversationInit
  BY DEF Init, Conversation!ConversationInit, talkOf, answerOf, Unsettled
<1>2. IInv /\ [Next]_vars =>
        [\E m \in Messages : Conversation!ConversationStep(m)]_<<talkOf, answerOf>>
  BY NextConverses
<1>3. QED
  BY <1>1, <1>2, DeliveryInvariant_Holds, PTL
     DEF Spec, ImplementsConversation, Conversation!ConversationSpec

-----------------------------------------------------------------------------
(* Claims and flags, even when a provider retry dies.                      *)

(* No step so far writes the row of a flagged message.                     *)
KeepsAmbiguous ==
    \A m \in Messages : msg[m].flag = "ambiguous" => msg'[m] = msg[m]

(* The row of m changes while no worker has claimed m, or in nothing a     *)
(* claim relies on; workers stay, or leave what they had claimed.          *)
LEMMA RowStepKeepsClaims ==
  ASSUME TypeOK, Linked, ClaimsHold, NEW m \in Messages,
         \A n \in Messages \ {m} : msg'[n] = msg[n],
         \/ \A w \in Workers : ~HoldsClaim(w, m)'
         \/ /\ msg'[m].state = msg[m].state /\ msg'[m].attempt = msg[m].attempt
            /\ msg'[m].transportAt = msg[m].transportAt /\ msg'[m].flag # "ambiguous",
         msg[m].flag # "ambiguous", FlagIsStamped(m)',
         \A v \in Workers : worker'[v] = worker[v] \/ worker'[v].pc \notin Claimed
  PROVE  ClaimsHold' /\ KeepsAmbiguous
<1>1. ASSUME NEW v \in Workers PROVE ClaimHolds(v)'
  <2>1. CASE worker'[v].pc \notin Claimed
    BY <2>1 DEF ClaimHolds
  <2>2. CASE worker'[v] = worker[v] /\ worker[v].pc \in Claimed
    <3>1. worker[v].msg \in Messages  BY <2>2 DEF Linked, Claimed
    <3>2. CASE worker[v].msg = m
      BY <2>2, <3>2 DEF ClaimsHold, ClaimHolds, HoldsClaim
    <3>3. CASE worker[v].msg # m
      BY <2>2, <3>1, <3>3 DEF ClaimsHold, ClaimHolds
    <3>4. QED
      BY <3>2, <3>3
  <2>3. QED
    BY <2>1, <2>2
<1>2. OneClaimPerMessage'  BY DEF ClaimsHold, OneClaimPerMessage
<1>3. \A n \in Messages : FlagIsStamped(n)'  BY DEF ClaimsHold, FlagIsStamped
<1>4. QED
  BY <1>1, <1>2, <1>3 DEF ClaimsHold, KeepsAmbiguous

(* No row changes; workers stay or leave what they had claimed.            *)
LEMMA QuietKeepsClaims ==
  ASSUME TypeOK, Linked, ClaimsHold, UNCHANGED msg,
         \A v \in Workers : worker'[v] = worker[v] \/ worker'[v].pc \notin Claimed
  PROVE  ClaimsHold' /\ KeepsAmbiguous
<1>1. ASSUME NEW v \in Workers PROVE ClaimHolds(v)'
  <2>1. CASE worker'[v].pc \notin Claimed
    BY <2>1 DEF ClaimHolds
  <2>2. CASE worker'[v] = worker[v]
    BY <2>2 DEF ClaimsHold, ClaimHolds
  <2>3. QED
    BY <2>1, <2>2
<1>2. OneClaimPerMessage'  BY DEF ClaimsHold, OneClaimPerMessage
<1>3. \A n \in Messages : FlagIsStamped(n)'  BY DEF ClaimsHold, FlagIsStamped
<1>4. QED
  BY <1>1, <1>2, <1>3 DEF ClaimsHold, KeepsAmbiguous

(* A row that is not being sent is nobody's, and not flagged ambiguous.    *)
LEMMA NotSendingIsFree ==
  ASSUME ClaimsHold, NEW m \in Messages, msg[m].state # "sending"
  PROVE  (\A w \in Workers : ~HoldsClaim(w, m)) /\ msg[m].flag # "ambiguous"
BY DEF ClaimsHold, ClaimHolds, HoldsClaim, FlagIsStamped

(* Requests, retries and events write a new row, its flag kept, over one   *)
(* that is not being sent.                                                 *)
LEMMA FreeRowKeepsClaims ==
  ASSUME TypeOK, Linked, ClaimsHold, NEW m \in Messages, msg[m].state # "sending",
         NEW row, msg' = [msg EXCEPT ![m] = row], row.flag = msg[m].flag, UNCHANGED worker
  PROVE  ClaimsHold' /\ KeepsAmbiguous
<1>1. /\ \A n \in Messages \ {m} : msg'[n] = msg[n]
      /\ msg'[m].flag = msg[m].flag
  BY DEF TypeOK
<1>2. (\A w \in Workers : ~HoldsClaim(w, m)') /\ msg[m].flag # "ambiguous"
  BY NotSendingIsFree DEF HoldsClaim
<1>3. FlagIsStamped(m)'  BY <1>1, <1>2 DEF FlagIsStamped
<1>4. QED
  BY <1>1, <1>2, <1>3, RowStepKeepsClaims

LEMMA RequestKeepsClaims ==
  ASSUME TypeOK, Linked, ClaimsHold, NEW m \in Messages,
         RequestStep(m) \/ AdminStep(m) \/ ProviderDelivers(m) \/ ProviderBounces(m)
  PROVE  ClaimsHold' /\ KeepsAmbiguous
<1>t. msg[m] \in MessageRow  BY DEF TypeOK
<1>1. CASE UNCHANGED <<msg, worker>>
  BY <1>1, QuietKeepsClaims
<1>2. CASE Submit(m) \/ Cancel(m)
  <2>1. PICK s \in {"queued", "cancelled"} : msg' = [msg EXCEPT ![m].state = s]
    BY <1>2 DEF Submit, Cancel
  <2>2. [msg[m] EXCEPT !.state = s].flag = msg[m].flag  BY <1>t DEF MessageRow
  <2>3. QED
    BY <1>2, <2>1, <2>2, FreeRowKeepsClaims DEF Submit, Cancel, queueVars
<1>3. CASE Retry(m)
  <2> DEFINE row == [msg[m] EXCEPT !.state = "queued", !.failedAt = FALSE, !.failure = "none"]
  <2>1. msg' = [msg EXCEPT ![m] = row] /\ msg[m].state # "sending" /\ UNCHANGED worker
    BY <1>3 DEF Retry, queueVars
  <2>2. row.flag = msg[m].flag  BY <1>t DEF MessageRow
  <2> HIDE DEF row
  <2>3. QED
    BY <2>1, <2>2, FreeRowKeepsClaims
<1>4. CASE ProviderDelivers(m)
  <2> DEFINE row == [msg[m] EXCEPT !.state = "delivered", !.deliveredAt = TRUE]
  <2>1. msg' = [msg EXCEPT ![m] = row] /\ msg[m].state # "sending" /\ UNCHANGED worker
    BY <1>4 DEF ProviderDelivers, queueVars
  <2>2. row.flag = msg[m].flag  BY <1>t DEF MessageRow
  <2> HIDE DEF row
  <2>3. QED
    BY <2>1, <2>2, FreeRowKeepsClaims
<1>5. CASE ProviderBounces(m)
  <2>1. FailedRow(msg[m], "other").flag = msg[m].flag  BY <1>t DEF FailedRow, MessageRow
  <2>2. QED
    BY <1>5, <2>1, FreeRowKeepsClaims DEF ProviderBounces, queueVars
<1>6. CASE ProviderRetry(m)
  <2> DEFINE row == [ClaimedRow(msg[m]) EXCEPT !.transportAt = TRUE]
  <2>1. PICK result, code : msg' = [msg EXCEPT ![m] =
          IF result = "accepted" THEN SentRow(row) ELSE FailedRow(row, code)]
    BY <1>6 DEF ProviderRetry
  <2>2. SentRow(row).flag = msg[m].flag /\ FailedRow(row, code).flag = msg[m].flag
    BY <1>t DEF SentRow, FailedRow, ClaimedRow, MessageRow
  <2>3. msg[m].state # "sending" /\ UNCHANGED worker
    BY <1>6 DEF ProviderRetry, queueVars
  <2> HIDE DEF row
  <2>4. QED
    BY <2>1, <2>2, <2>3, FreeRowKeepsClaims
<1>7. CASE \/ \E s \in Sources : Dispatch(m, s) \/ RequestDies(m, s)
           \/ ProviderRetryCheck(m) \/ ProviderRetryRefused(m) \/ ProviderRetryDies(m)
  BY <1>1, <1>7 DEF Dispatch, RequestDies, ProviderRetryCheck, ProviderRetryRefused,
                    ProviderRetryDies, deliveryVars, queueVars
<1>8. QED
  BY <1>2, <1>3, <1>4, <1>5, <1>6, <1>7 DEF RequestStep, AdminStep

(* The stale reconciler acts on rows whose claim has died with its worker. *)
LEMMA ReconcilersKeepClaims ==
  ASSUME PromptWorkers, TypeOK, Linked, ClaimsHold, NEW m \in Messages,
         StaleStep(m) \/ RepairStep(m)
  PROVE  ClaimsHold' /\ KeepsAmbiguous
<1>t. msg[m] \in MessageRow  BY DEF TypeOK
<1>1. CASE StaleStep(m)
  <2>1. /\ msg[m].state = "sending" /\ msg[m].flag = "none" /\ UNCHANGED worker
        /\ \A w \in Workers : ~HoldsClaim(w, m)
    BY <1>1 DEF StaleStep, FlagAmbiguous, FailExhausted, RequeueStale, Stale, NobodyDelivers,
                PromptWorkers, queueVars
  <2>2. \A w \in Workers : ~HoldsClaim(w, m)'  BY <2>1 DEF HoldsClaim
  <2>3. (\A n \in Messages \ {m} : msg'[n] = msg[n]) /\ FlagIsStamped(m)'
    <3>1. CASE FlagAmbiguous(m)
      <4>1. /\ [msg[m] EXCEPT !.flag = "ambiguous"].state = "sending"
            /\ [msg[m] EXCEPT !.flag = "ambiguous"].transportAt = msg[m].transportAt
        BY <1>t, <2>1 DEF MessageRow
      <4>2. QED
        BY <3>1, <4>1 DEF FlagAmbiguous, FlagIsStamped, TypeOK
    <3>2. CASE FailExhausted(m)
      <4>1. FailedRow(msg[m], "other").flag = "none"  BY <1>t, <2>1 DEF FailedRow, MessageRow
      <4>2. QED
        BY <3>2, <4>1 DEF FailExhausted, FlagIsStamped, TypeOK
    <3>3. CASE RequeueStale(m)
      <4>1. [msg[m] EXCEPT !.state = "queued"].flag = "none"  BY <1>t, <2>1 DEF MessageRow
      <4>2. QED
        BY <3>3, <4>1 DEF RequeueStale, FlagIsStamped, TypeOK
    <3>4. QED
      BY <1>1, <3>1, <3>2, <3>3 DEF StaleStep
  <2>4. QED
    BY <2>1, <2>2, <2>3, RowStepKeepsClaims
<1>2. CASE FlagImpossible(m)
  <2>1. /\ msg' = [msg EXCEPT ![m].flag = "conflict"] /\ msg[m].flag = "none"
        /\ UNCHANGED worker
    BY <1>2 DEF FlagImpossible, queueVars
  <2> DEFINE row == [msg[m] EXCEPT !.flag = "conflict"]
  <2>2. /\ row.state = msg[m].state /\ row.attempt = msg[m].attempt
        /\ row.transportAt = msg[m].transportAt /\ row.flag = "conflict"
    BY <1>t DEF MessageRow
  <2>3. msg'[m] = row /\ \A n \in Messages \ {m} : msg'[n] = msg[n]
    BY <2>1 DEF TypeOK
  <2> HIDE DEF row
  <2>4. FlagIsStamped(m)'  BY <2>2, <2>3 DEF FlagIsStamped
  <2>5. QED
    BY <2>1, <2>2, <2>3, <2>4, RowStepKeepsClaims
<1>3. CASE RepairAttempt(m) \/ RepairCommit(m) \/ ExpiryScan(m) \/ Expire(m)
  BY <1>3, QuietKeepsClaims
     DEF RepairAttempt, RepairCommit, ExpiryScan, Expire, deliveryVars, queueVars
<1>4. QED
  BY <1>1, <1>2, <1>3 DEF RepairStep

(* A worker goes on with its message, which nobody else has claimed.       *)
LEMMA HolderKeepsClaims ==
  ASSUME TypeOK, Linked, ClaimsHold, NEW w \in Workers, NEW m \in Messages,
         m = worker[w].msg, worker'[w].msg = m,
         \A v \in Workers \ {w} : worker'[v] = worker[v] /\ ~HoldsClaim(v, m),
         \A n \in Messages \ {m} : msg'[n] = msg[n],
         msg[m].flag # "ambiguous", msg'[m].flag = msg[m].flag, ClaimHolds(w)'
  PROVE  ClaimsHold' /\ KeepsAmbiguous
<1>1. ASSUME NEW v \in Workers \ {w} PROVE ClaimHolds(v)'
  <2>1. CASE worker[v].pc \in Claimed
    <3>1. worker[v].msg \in Messages \ {m}
      BY <2>1 DEF Linked, Claimed, HoldsClaim
    <3>2. QED
      BY <3>1 DEF ClaimsHold, ClaimHolds
  <2>2. CASE worker[v].pc \notin Claimed
    BY <2>2 DEF ClaimHolds
  <2>3. QED
    BY <2>1, <2>2
<1>2. OneClaimPerMessage'
  BY DEF ClaimsHold, OneClaimPerMessage, HoldsClaim
<1>3. \A n \in Messages : FlagIsStamped(n)'  BY DEF ClaimsHold, FlagIsStamped
<1>4. QED
  BY <1>1, <1>2, <1>3 DEF ClaimsHold, KeepsAmbiguous

LEMMA HandlerKeepsClaims ==
  ASSUME TypeOK, Linked, ClaimsHold, NEW w \in Workers, HandlerStep(w)
  PROVE  ClaimsHold' /\ KeepsAmbiguous
<1>1. CASE Claim(w)
  <2>1. PICK m \in Messages : m = worker[w].msg  BY <1>1 DEF Claim, Linked
  <2>2. msg[m].state = "queued" /\ msg[m] \in MessageRow
    BY <1>1, <2>1 DEF Claim, TypeOK
  <2>3. /\ ClaimedRow(msg[m]).state = "sending" /\ ClaimedRow(msg[m]).transportAt = FALSE
        /\ ClaimedRow(msg[m]).attempt = msg[m].attempt + 1
        /\ ClaimedRow(msg[m]).flag = msg[m].flag
    BY <2>2 DEF ClaimedRow, MessageRow
  <2>4. /\ msg'[m] = ClaimedRow(msg[m]) /\ \A n \in Messages \ {m} : msg'[n] = msg[n]
        /\ \A v \in Workers \ {w} : worker'[v] = worker[v]
        /\ worker'[w].pc = "claimed" /\ worker'[w].msg = m
        /\ worker'[w].attempt = msg[m].attempt + 1
    BY <1>1, <2>1 DEF Claim, TypeOK, WorkerRow
  <2>5. (\A v \in Workers : ~HoldsClaim(v, m)) /\ msg[m].flag # "ambiguous"
    BY <2>2, NotSendingIsFree
  <2>6. ClaimHolds(w)'  BY <2>3, <2>4, <2>5 DEF ClaimHolds
  <2>7. QED
    BY <2>1, <2>3, <2>4, <2>5, <2>6, HolderKeepsClaims
<1>2. ASSUME worker[w].pc \in Claimed
      PROVE  \E m \in Messages :
               /\ m = worker[w].msg /\ msg[m] \in MessageRow
               /\ msg[m].state = "sending" /\ msg[m].flag # "ambiguous"
               /\ msg[m].attempt = worker[w].attempt
               /\ msg[m].transportAt <=> worker[w].pc \in {"submitting", "answered", "exhausted"}
               /\ \A v \in Workers \ {w} : ~HoldsClaim(v, m)
  <2>1. worker[w].msg \in Messages  BY <1>2 DEF Claimed, Linked
  <2>2. ClaimHolds(w) /\ OneClaimPerMessage  BY DEF ClaimsHold
  <2>3. QED
    BY <1>2, <2>1, <2>2 DEF TypeOK, ClaimHolds, OneClaimPerMessage, HoldsClaim
<1>3. CASE StartAttempt(w)
  <2>1. worker[w].pc = "claimed" /\ UNCHANGED msg /\ Move(w, "started")
    BY <1>3 DEF StartAttempt
  <2>2. PICK m \in Messages : /\ m = worker[w].msg
               /\ msg[m].state = "sending" /\ msg[m].flag # "ambiguous"
               /\ msg[m].attempt = worker[w].attempt /\ ~msg[m].transportAt
               /\ \A v \in Workers \ {w} : ~HoldsClaim(v, m)
    BY <1>2, <2>1 DEF Claimed
  <2>3. /\ \A v \in Workers \ {w} : worker'[v] = worker[v]
        /\ worker'[w].pc = "started" /\ worker'[w].msg = m
        /\ worker'[w].attempt = worker[w].attempt
    BY <2>1, <2>2, Moved
  <2>4. ClaimHolds(w)'  BY <2>1, <2>2, <2>3 DEF ClaimHolds
  <2>5. \A n \in Messages : msg'[n] = msg[n]  BY <2>1
  <2>6. QED
    BY <2>2, <2>3, <2>4, <2>5, HolderKeepsClaims
<1>4. CASE Exhaust(w)
  <2>1. worker[w].pc = "answered" /\ UNCHANGED msg /\ Move(w, "exhausted")
    BY <1>4 DEF Exhaust
  <2>2. PICK m \in Messages : /\ m = worker[w].msg
               /\ msg[m].state = "sending" /\ msg[m].flag # "ambiguous"
               /\ msg[m].attempt = worker[w].attempt /\ msg[m].transportAt
               /\ \A v \in Workers \ {w} : ~HoldsClaim(v, m)
    BY <1>2, <2>1 DEF Claimed
  <2>3. /\ \A v \in Workers \ {w} : worker'[v] = worker[v]
        /\ worker'[w].pc = "exhausted" /\ worker'[w].msg = m
        /\ worker'[w].attempt = worker[w].attempt
    BY <2>1, <2>2, Moved
  <2>4. ClaimHolds(w)'  BY <2>1, <2>2, <2>3 DEF ClaimHolds
  <2>5. \A n \in Messages : msg'[n] = msg[n]  BY <2>1
  <2>6. QED
    BY <2>2, <2>3, <2>4, <2>5, HolderKeepsClaims
<1>5. CASE StampTransport(w)
  <2>1. PICK m \in Messages : /\ m = worker[w].msg /\ msg[m] \in MessageRow
               /\ msg[m].state = "sending" /\ msg[m].flag # "ambiguous"
               /\ msg[m].attempt = worker[w].attempt
               /\ \A v \in Workers \ {w} : ~HoldsClaim(v, m)
    BY <1>2, <1>5 DEF StampTransport, Claimed
  <2> DEFINE row == [msg[m] EXCEPT !.transportAt = @ \/ msg[m].state = "sending"]
  <2>2. /\ row.state = "sending" /\ row.attempt = worker[w].attempt
        /\ row.transportAt = TRUE /\ row.flag = msg[m].flag
    BY <2>1 DEF MessageRow
  <2>3. msg' = [msg EXCEPT ![m] = row] /\ Move(w, "submitting")
    BY <1>5, <2>1 DEF StampTransport
  <2> HIDE DEF row
  <2>4. msg'[m] = row /\ \A n \in Messages \ {m} : msg'[n] = msg[n]
    BY <2>3 DEF TypeOK
  <2>5. /\ \A v \in Workers \ {w} : worker'[v] = worker[v]
        /\ worker'[w].pc = "submitting" /\ worker'[w].msg = m
        /\ worker'[w].attempt = worker[w].attempt
    BY <2>1, <2>3, Moved
  <2>6. ClaimHolds(w)'  BY <2>1, <2>2, <2>4, <2>5 DEF ClaimHolds
  <2>7. QED
    BY <2>1, <2>2, <2>4, <2>5, <2>6, HolderKeepsClaims
<1>6. CASE Send(w)
  <2>1. PICK m \in Messages : /\ m = worker[w].msg
               /\ msg[m].state = "sending" /\ msg[m].flag # "ambiguous"
               /\ msg[m].attempt = worker[w].attempt /\ msg[m].transportAt
               /\ \A v \in Workers \ {w} : ~HoldsClaim(v, m)
    BY <1>2, <1>6 DEF Send, Claimed
  <2>2. UNCHANGED msg  BY <1>6 DEF Send, deliveryVars
  <2>3. PICK result : worker' = [worker EXCEPT ![w].pc = "answered", ![w].result = result]
    BY <1>6 DEF Send
  <2>4. /\ \A v \in Workers \ {w} : worker'[v] = worker[v]
        /\ worker'[w].pc = "answered" /\ worker'[w].msg = m
        /\ worker'[w].attempt = worker[w].attempt
    BY <2>1, <2>3 DEF TypeOK, WorkerRow
  <2>5. ClaimHolds(w)'  BY <2>1, <2>2, <2>4 DEF ClaimHolds
  <2>6. QED
    BY <2>1, <2>2, <2>4, <2>5, HolderKeepsClaims
<1>7. CASE RefuseBeforeTransport(w) \/ MarkSent(w) \/ Requeue(w) \/ MarkFailed(w)
  <2>1. PICK m \in Messages : /\ m = worker[w].msg /\ msg[m] \in MessageRow
               /\ msg[m].flag # "ambiguous" /\ \A v \in Workers \ {w} : ~HoldsClaim(v, m)
    BY <1>2, <1>7 DEF RefuseBeforeTransport, MarkSent, Requeue, MarkFailed, Claimed
  <2>2. \A code : FailedRow(msg[m], code).flag = msg[m].flag
    BY <2>1 DEF FailedRow, MessageRow
  <2>3. /\ SentRow(msg[m]).flag = msg[m].flag
        /\ [msg[m] EXCEPT !.state = "queued", !.failure = "other"].flag = msg[m].flag
    BY <2>1 DEF SentRow, MessageRow
  <2>4. PICK row : msg' = [msg EXCEPT ![m] = row] /\ row.flag = msg[m].flag
    <3>1. CASE RefuseBeforeTransport(w) \/ MarkFailed(w)
      <4>1. UNCHANGED msg \/ \E code : msg' = [msg EXCEPT ![m] = FailedRow(@, code)]
        BY <2>1, <3>1 DEF RefuseBeforeTransport, MarkFailed
      <4>2. msg = [msg EXCEPT ![m] = msg[m]]  BY DEF TypeOK
      <4>3. QED
        BY <2>2, <4>1, <4>2
    <3>2. CASE MarkSent(w)
      <4>1. UNCHANGED msg \/ msg' = [msg EXCEPT ![m] = SentRow(msg[m])]
        BY <2>1, <3>2 DEF MarkSent
      <4>2. msg = [msg EXCEPT ![m] = msg[m]]  BY DEF TypeOK
      <4>3. QED
        BY <2>3, <4>1, <4>2
    <3>3. CASE Requeue(w)
      BY <2>1, <2>3, <3>3 DEF Requeue
    <3>4. QED
      BY <1>7, <3>1, <3>2, <3>3
  <2>5. \E place \in {"done", "refused", "sent", "requeued", "failed"} : Move(w, place)
    BY <1>7 DEF RefuseBeforeTransport, MarkSent, Requeue, MarkFailed
  <2>6. /\ \A v \in Workers \ {w} : worker'[v] = worker[v]
        /\ worker'[w].pc \notin Claimed /\ worker'[w].msg = m
    BY <2>1, <2>5, Moved DEF Claimed
  <2>7. msg'[m].flag = msg[m].flag /\ \A n \in Messages \ {m} : msg'[n] = msg[n]
    BY <2>4 DEF TypeOK
  <2>8. ClaimHolds(w)'  BY <2>6 DEF ClaimHolds
  <2>9. QED
    BY <2>1, <2>6, <2>7, <2>8, HolderKeepsClaims
<1>8. CASE \/ StopCheck(w) \/ NothingToClaim(w) \/ CommitUsage(w) \/ CompleteAccepted(w)
           \/ CompleteTemporary(w) \/ ReleaseUsage(w) \/ CompletePermanent(w)
           \/ FinishJob(w) \/ JobThrew(w)
  <2>1. UNCHANGED msg
    BY <1>8 DEF StopCheck, NothingToClaim, CommitUsage, CompleteAccepted, CompleteTemporary,
                ReleaseUsage, CompletePermanent, FinishJob, JobThrew, deliveryVars
  <2>2. \/ worker' = [worker EXCEPT ![w] = IdleWorker]
        \/ \E place \in {"cleared", "done", "charged", "threw", "released"} : Move(w, place)
    BY <1>8 DEF StopCheck, NothingToClaim, CommitUsage, CompleteAccepted, CompleteTemporary,
                ReleaseUsage, CompletePermanent, FinishJob, JobThrew
  <2>3. \A v \in Workers : worker'[v] = worker[v] \/ worker'[v].pc \notin Claimed
    BY <2>2, Moved DEF TypeOK, IdleWorker, Claimed
  <2>4. QED
    BY <2>1, <2>3, QuietKeepsClaims
<1>9. QED
  BY <1>1, <1>3, <1>4, <1>5, <1>6, <1>7, <1>8 DEF HandlerStep

LEMMA NextKeepsClaims ==
  ASSUME PromptWorkers, TypeOK, Linked, ClaimsHold, [Next]_vars
  PROVE  ClaimsHold' /\ KeepsAmbiguous
<1>1. ASSUME NEW m \in Messages,
             \/ RequestStep(m) \/ AdminStep(m) \/ StaleStep(m) \/ RepairStep(m)
             \/ ProviderDelivers(m) \/ ProviderBounces(m)
      PROVE  ClaimsHold' /\ KeepsAmbiguous
  BY <1>1, RequestKeepsClaims, ReconcilersKeepClaims
<1>2. ASSUME NEW w \in Workers, HandlerStep(w)
      PROVE  ClaimsHold' /\ KeepsAmbiguous
  BY <1>2, HandlerKeepsClaims
<1>3. ASSUME NEW w \in Workers,
             (\E j \in Jobs : Pop(w, j)) \/ HandlerError(w) \/ WorkerDies(w)
      PROVE  ClaimsHold' /\ KeepsAmbiguous
  <2>1. UNCHANGED msg
    <3>1. CASE \E j \in Jobs : Pop(w, j)
      <4>1. PICK j \in Jobs : Pop(w, j)  BY <3>1
      <4>2. QED
        BY <4>1 DEF Pop, deliveryVars
    <3>2. QED
      BY <1>3, <3>1 DEF HandlerError, WorkerDies, deliveryVars
  <2>2. \A v \in Workers : worker'[v] = worker[v] \/ worker'[v].pc \notin Claimed
    <3>1. CASE \E j \in Jobs : Pop(w, j)
      <4>1. PICK j \in Jobs : Pop(w, j)  BY <3>1
      <4> DEFINE popped == [IdleWorker EXCEPT !.pc = "popped", !.job = j, !.msg = jobs[j].msg,
                                              !.tries = jobs[j].tries + 1]
      <4>2. UNCHANGED worker \/ worker' = [worker EXCEPT ![w] = popped]
        BY <4>1 DEF Pop
      <4>3. popped.pc = "popped"  BY DEF IdleWorker
      <4> HIDE DEF popped
      <4>4. QED
        BY <4>2, <4>3 DEF TypeOK, Claimed
    <3>2. CASE HandlerError(w)
      BY <3>2, Moved DEF HandlerError, Claimed
    <3>3. CASE WorkerDies(w)
      BY <3>3 DEF WorkerDies, TypeOK, IdleWorker, Claimed
    <3>4. QED
      BY <1>3, <3>1, <3>2, <3>3
  <2>3. QED
    BY <2>1, <2>2, QuietKeepsClaims
<1>4. CASE \/ \E m \in Messages : LockExpires(m)
           \/ \E j \in Jobs : Redeliver(j)
           \/ EmergencyStop \/ EmergencyResume
           \/ UNCHANGED vars
  BY <1>4, QuietKeepsClaims
     DEF LockExpires, Redeliver, EmergencyStop, EmergencyResume, vars, deliveryVars, queueVars
<1>5. QED
  BY <1>1, <1>2, <1>3, <1>4 DEF Next

LEMMA ClaimsAlwaysHold == ASSUME PromptWorkers PROVE Spec => [](TypeOK /\ Linked /\ ClaimsHold)
<1>1. Init => ClaimsHold
  BY DEF Init, IdleWorker, ClaimsHold, ClaimHolds, OneClaimPerMessage, FlagIsStamped, Claimed
<1>2. TypeOK /\ Linked /\ ClaimsHold /\ [Next]_vars => ClaimsHold'
  BY NextKeepsClaims
<1>3. QED
  BY <1>1, <1>2, TypeCorrect, PTL DEF Spec

(* A worker has its message to itself from the claim to the outcome, even  *)
(* when a provider retry dies inside its transaction.                      *)
THEOREM ClaimIsExclusiveAlways == ASSUME PromptWorkers PROVE Spec => []ExclusiveDelivery
<1>1. ClaimsHold => ExclusiveDelivery
  BY DEF ClaimsHold, ClaimHolds, OneClaimPerMessage, ExclusiveDelivery, HoldsClaim
<1>2. QED
  BY <1>1, ClaimsAlwaysHold, PTL

(* Nobody hands over a flagged message: the worker that stamped it is gone *)
(* and an admin's retry takes failed messages only.                        *)
LEMMA FlaggedIsNotOffered ==
  ASSUME TypeOK, Linked, ClaimsHold, [Next]_vars, NEW m \in Messages,
         msg[m].flag = "ambiguous", NEW k \in AttemptNumbers, reply[m][k] = "none"
  PROVE  reply'[m][k] = "none"
<1>1. msg[m].state = "sending"
  BY DEF ClaimsHold, FlagIsStamped
<1>2. ASSUME NEW n \in Messages, ProviderRetry(n) \/ ProviderRetryDies(n)
      PROVE  reply'[m] = reply[m]
  <2>1. msg[n].state = "failed"
    BY <1>2 DEF ProviderRetry, ProviderRetryDies
  <2>2. n # m
    BY <1>1, <2>1
  <2>3. \E i, answer : reply' = [reply EXCEPT ![n][i] = answer]
    BY <1>2 DEF ProviderRetry, ProviderRetryDies
  <2>4. QED
    BY <2>2, <2>3 DEF TypeOK
<1>3. ASSUME NEW n \in Messages, ProviderBounces(n)
      PROVE  reply'[m] = reply[m]
  <2>1. n # m
    BY <1>1, <1>3 DEF ProviderBounces
  <2>2. QED
    BY <1>3, <2>1 DEF ProviderBounces, TypeOK
<1>4. ASSUME NEW w \in Workers, Send(w)
      PROVE  reply'[m] = reply[m]
  <2>1. worker[w].pc = "submitting"
    BY <1>4 DEF Send
  <2>2. worker[w].msg \in Messages /\ worker[w].msg # m
    BY <2>1 DEF Linked, ClaimsHold, ClaimHolds, Claimed
  <2>3. \E answer : reply' = [reply EXCEPT ![worker[w].msg][worker[w].attempt] = answer]
    BY <1>4 DEF Send
  <2>4. QED
    BY <2>2, <2>3 DEF TypeOK
<1>5. ASSUME NEW n \in Messages,
             \/ RequestStep(n) \/ StaleStep(n) \/ RepairStep(n) \/ ProviderDelivers(n)
             \/ LockExpires(n) \/ ProviderRetryCheck(n) \/ ProviderRetryRefused(n)
      PROVE  UNCHANGED reply
  BY <1>5 DEF RequestStep, StaleStep, RepairStep, ProviderDelivers, LockExpires,
              ProviderRetryCheck, ProviderRetryRefused, Submit, Cancel, Retry, Dispatch,
              RequestDies, FlagAmbiguous, FailExhausted, RequeueStale, RepairAttempt,
              FlagImpossible, RepairCommit, ExpiryScan, Expire
<1>6. ASSUME NEW w \in Workers,
             \/ StopCheck(w) \/ Claim(w) \/ NothingToClaim(w) \/ StartAttempt(w)
             \/ RefuseBeforeTransport(w) \/ StampTransport(w) \/ MarkSent(w)
             \/ CommitUsage(w) \/ CompleteAccepted(w) \/ Requeue(w)
             \/ CompleteTemporary(w) \/ Exhaust(w) \/ MarkFailed(w) \/ ReleaseUsage(w)
             \/ CompletePermanent(w) \/ FinishJob(w) \/ JobThrew(w)
             \/ HandlerError(w) \/ WorkerDies(w) \/ \E j \in Jobs : Pop(w, j)
      PROVE  UNCHANGED reply
  BY <1>6 DEF StopCheck, Claim, NothingToClaim, StartAttempt, RefuseBeforeTransport,
              StampTransport, MarkSent, CommitUsage, CompleteAccepted, Requeue,
              CompleteTemporary, Exhaust, MarkFailed, ReleaseUsage, CompletePermanent,
              FinishJob, JobThrew, HandlerError, WorkerDies, Pop
<1>7. CASE \/ \E j \in Jobs : Redeliver(j)
           \/ EmergencyStop \/ EmergencyResume \/ UNCHANGED vars
  BY <1>7 DEF Redeliver, EmergencyStop, EmergencyResume, vars
<1>8. QED
  BY <1>2, <1>3, <1>4, <1>5, <1>6, <1>7 DEF Next, AdminStep, HandlerStep

(* A message flagged ambiguous is neither queued nor handed over again as  *)
(* long as it is flagged, whoever dies within the timeouts, a provider     *)
(* retry inside its transaction included.                                  *)
THEOREM AmbiguousStaysUnsent == ASSUME PromptWorkers PROVE Spec => AmbiguousIsNotResent
<1>1. TypeOK /\ Linked /\ ClaimsHold /\ [Next]_vars => [OffersNoFlagged]_vars
  <2>1. SUFFICES ASSUME TypeOK, Linked, ClaimsHold, [Next]_vars,
                        NEW m \in Messages, msg[m].flag = "ambiguous"
                 PROVE  /\ msg'[m].state # "queued"
                        /\ \A k \in AttemptNumbers : reply[m][k] = "none" => reply'[m][k] = "none"
    BY DEF OffersNoFlagged
  <2>2. msg'[m] = msg[m] /\ msg[m].state = "sending"
    BY <2>1, NextKeepsClaims DEF KeepsAmbiguous, ClaimsHold, FlagIsStamped
  <2>3. QED
    BY <2>1, <2>2, FlaggedIsNotOffered
<1>2. QED
  BY <1>1, ClaimsAlwaysHold, PTL DEF AmbiguousIsNotResent, Spec

-----------------------------------------------------------------------------
(* A queued message is in hand.                                            *)

(* What a step does to rows that it neither queues nor makes younger.      *)
RowsAge ==
    \A m \in Messages :
      /\ msg'[m].attempt >= msg[m].attempt
      /\ msg'[m].state = "queued" => msg[m].state = "queued"
      /\ msg'[m].state = "draft" => msg[m].state = "draft"

LEMMA Counts ==
  ASSUME TypeOK
  PROVE  /\ \A m \in Messages : msg[m].attempt \in Nat
         /\ \A j \in Jobs : jobs[j].tries \in Nat
         /\ \A w \in Workers : worker[w].tries \in Nat /\ worker[w].attempt \in Nat
         /\ MaxAttempts \in Nat \ {0}
BY AttemptBoundAssumption, MaxAttemptsAssumption DEF TypeOK, MessageRow, JobRow, WorkerRow

LEMMA HeldJob ==
  ASSUME TypeOK, Linked, HandInv, NEW w \in Workers, worker[w].pc # "idle"
  PROVE  /\ worker[w].job \in Jobs /\ worker[w].msg \in Messages
         /\ OnQueue(worker[w].job, worker[w].msg)
         /\ jobs[worker[w].job].status = "reserved"
         /\ jobs[worker[w].job].tries = worker[w].tries
         /\ worker[w].msg \in uniqueLock
         /\ \A v \in Workers : worker[v].pc # "idle" /\ worker[v].job = worker[w].job => v = w
         /\ \A j \in Jobs : OnQueue(j, worker[w].msg) => j = worker[w].job
<1>1. HoldsJob(w) /\ LockIsJob  BY DEF HandInv
<1>2. worker[w].job \in Jobs /\ worker[w].msg \in Messages  BY DEF Linked
<1>3. OnQueue(worker[w].job, worker[w].msg)  BY <1>1 DEF HoldsJob, OnQueue
<1>4. QED
  BY <1>1, <1>2, <1>3 DEF HoldsJob, LockIsJob, OnQueue

(* No worker is busy with a message whose lock is free, no job is queued.  *)
LEMMA FreeLock ==
  ASSUME TypeOK, Linked, HandInv, NEW m \in Messages, m \notin uniqueLock
  PROVE  /\ \A w \in Workers : worker[w].pc # "idle" => worker[w].msg # m
         /\ \A j \in Jobs : ~OnQueue(j, m)
BY HeldJob DEF HandInv, LockIsJob

(* The row changes; queue, workers and dispatches do not.                  *)
LEMMA AgingKeepsHand ==
  ASSUME TypeOK, Linked, TypeOK', HandInv, RowsAge, UNCHANGED <<queueVars, pending, stopped>>
  PROVE  HandInv'
<1> USE DEF HandInv, queueVars
<1>1. ASSUME NEW w \in Workers
      PROVE  HoldsJob(w)' /\ SpentIsNotQueued(w)' /\ TriesAreAttempts(w)'
  <2>1. HoldsJob(w)'  BY DEF HoldsJob
  <2>2. worker[w].pc # "idle" => worker[w].msg \in Messages  BY DEF Linked
  <2>3. SpentIsNotQueued(w)'  BY <2>2 DEF SpentIsNotQueued, Spent, RowsAge
  <2>4. TriesAreAttempts(w)'
    <3>1. ASSUME worker[w].pc \in Claimed
          PROVE  worker[w].tries <= worker[w].attempt
                 /\ worker[w].attempt <= msg'[worker[w].msg].attempt
      <4>1. worker[w].msg \in Messages  BY <2>2, <3>1 DEF Claimed
      <4>2. /\ msg[worker[w].msg].attempt \in Nat /\ msg'[worker[w].msg].attempt \in Nat
            /\ worker[w].attempt \in Nat
            /\ msg'[worker[w].msg].attempt >= msg[worker[w].msg].attempt
        BY <4>1, Counts, AttemptBoundAssumption DEF RowsAge, TypeOK, MessageRow
      <4>3. QED
        BY <3>1, <4>2 DEF TriesAreAttempts
    <3>2. QED
      BY <3>1 DEF TriesAreAttempts
  <2>5. QED
    BY <2>1, <2>3, <2>4
<1>2. LockIsJob'  BY DEF LockIsJob, OnQueue
<1>3. QueuedIsTriable'
  <2>1. ASSUME NEW m \in Messages, msg'[m].state = "queued", NEW j \in Jobs, OnQueue(j, m)
        PROVE  Triable(j)'
    <3>1. Triable(j) /\ jobs[j].msg = m
      BY <2>1 DEF QueuedIsTriable, RowsAge, OnQueue
    <3>2. /\ msg[m].attempt \in Nat /\ msg'[m].attempt \in Nat /\ jobs[j].tries \in Nat
          /\ msg'[m].attempt >= msg[m].attempt
      BY Counts, AttemptBoundAssumption DEF RowsAge, TypeOK, MessageRow
    <3>3. QED
      BY <3>1, <3>2 DEF Triable, AboutToClaim
  <2>2. QED
    BY <2>1 DEF QueuedIsTriable, RowsAge, OnQueue
<1>4. DraftsAreNew'  BY DEF DraftsAreNew, RowsAge
<1>5. QED
  BY <1>1, <1>2, <1>3, <1>4

(* A message is queued while its lock is free, its dispatch to come.       *)
LEMMA QueueingKeepsHand ==
  ASSUME TypeOK, Linked, HandInv, NEW m \in Messages, NEW s \in Sources, m \notin uniqueLock,
         \A n \in Messages \ {m} : msg'[n] = msg[n],
         msg'[m].state = "queued", msg'[m].attempt = msg[m].attempt,
         pending' = pending \cup {<<m, s>>}, UNCHANGED <<queueVars, stopped>>
  PROVE  HandInv'
<1> USE DEF HandInv, queueVars
<1>0. /\ \A w \in Workers : worker[w].pc # "idle" => worker[w].msg \in Messages \ {m}
      /\ \A j \in Jobs : ~OnQueue(j, m)
  BY FreeLock DEF Linked
<1>1. ASSUME NEW w \in Workers
      PROVE  HoldsJob(w)' /\ SpentIsNotQueued(w)' /\ TriesAreAttempts(w)'
  <2>1. HoldsJob(w)'  BY DEF HoldsJob
  <2>2. SpentIsNotQueued(w)'  BY <1>0 DEF SpentIsNotQueued, Spent
  <2>3. TriesAreAttempts(w)'  BY <1>0 DEF TriesAreAttempts, Claimed
  <2>4. QED
    BY <2>1, <2>2, <2>3
<1>2. LockIsJob'  BY DEF LockIsJob, OnQueue
<1>3. QueuedIsTriable'
  <2>1. ASSUME NEW n \in Messages, msg'[n].state = "queued", NEW j \in Jobs, OnQueue(j, n)
        PROVE  Triable(j)'
    <3>1. n # m /\ msg'[n] = msg[n]  BY <1>0, <2>1
    <3>2. Triable(j) /\ jobs[j].msg = n  BY <2>1, <3>1 DEF QueuedIsTriable, OnQueue
    <3>3. QED
      BY <3>1, <3>2 DEF Triable, AboutToClaim
  <2>2. QED
    BY <2>1 DEF QueuedIsTriable, OnQueue
<1>4. DraftsAreNew'  BY DEF DraftsAreNew
<1>5. QED
  BY <1>1, <1>2, <1>3, <1>4

LEMMA RequestStepKeepsHand ==
  ASSUME OnlyClaimedDie, TypeOK, Linked, TypeOK', HandInv, NEW m \in Messages, RequestStep(m)
  PROVE  HandInv'
<1>t. msg[m] \in MessageRow  BY DEF TypeOK
<1>1. CASE Submit(m)
  <2>1. /\ \A n \in Messages \ {m} : msg'[n] = msg[n]
        /\ msg'[m].state = "queued" /\ msg'[m].attempt = msg[m].attempt
    BY <1>t, <1>1 DEF Submit, TypeOK, MessageRow
  <2>2. m \notin uniqueLock  BY <1>1 DEF Submit, HandInv, DraftsAreNew
  <2>3. QED
    BY <1>1, <2>1, <2>2, QueueingKeepsHand DEF Submit, Sources
<1>2. CASE Cancel(m)
  <2>1. RowsAge
    BY <1>t, <1>2, Counts DEF Cancel, TypeOK, MessageRow, RowsAge
  <2>2. QED
    BY <1>2, <2>1, AgingKeepsHand DEF Cancel
<1>3. CASE Retry(m)
  <2>1. /\ \A n \in Messages \ {m} : msg'[n] = msg[n]
        /\ msg'[m].state = "queued" /\ msg'[m].attempt = msg[m].attempt
    BY <1>t, <1>3 DEF Retry, TypeOK, MessageRow
  <2>2. m \notin uniqueLock  BY <1>3 DEF Retry, OnlyClaimedDie
  <2>3. QED
    BY <1>3, <2>1, <2>2, QueueingKeepsHand DEF Retry, Sources
<1>4. ASSUME NEW s \in Sources, Dispatch(m, s) PROVE HandInv'
  <2> USE DEF HandInv
  <2>1. CASE m \in uniqueLock
    <3>1. UNCHANGED <<msg, jobs, uniqueLock, worker, stopped>> /\ pending' = pending \ {<<m, s>>}
      BY <1>4, <2>1 DEF Dispatch, deliveryVars
    <3>2. \A n \in Messages, x \in Sources : <<n, x>> \in pending /\ n \notin uniqueLock => <<n, x>> \in pending'
      BY <2>1, <3>1
    <3>3. QueuedIsTriable'
      BY <3>1, <3>2 DEF QueuedIsTriable, OnQueue, Triable, AboutToClaim
    <3>4. DraftsAreNew'  BY <3>1 DEF DraftsAreNew
    <3>5. \A w \in Workers : HoldsJob(w)' /\ SpentIsNotQueued(w)' /\ TriesAreAttempts(w)'
      BY <3>1 DEF HoldsJob, SpentIsNotQueued, Spent, TriesAreAttempts
    <3>6. LockIsJob'  BY <3>1 DEF LockIsJob, OnQueue
    <3>7. QED
      BY <3>1, <3>3, <3>4, <3>5, <3>6
  <2>2. CASE m \notin uniqueLock
    <3>1. PICK j \in Jobs :
            /\ Unused(j)
            /\ jobs' = [jobs EXCEPT ![j] = [status |-> "available", msg |-> m, tries |-> 0]]
      BY <1>4, <2>2 DEF Dispatch
    <3>2. UNCHANGED <<msg, worker, stopped>> /\ uniqueLock' = uniqueLock \cup {m}
          /\ pending' = pending \ {<<m, s>>}
      BY <1>4, <2>2 DEF Dispatch, deliveryVars
    <3>3. /\ jobs'[j].status = "available" /\ jobs'[j].msg = m /\ jobs'[j].tries = 0
          /\ jobs[j].status = "absent"
          /\ \A i \in Jobs \ {j} : jobs'[i] = jobs[i]
          /\ \A w \in Workers : worker[w].job # j
      BY <3>1 DEF TypeOK, Unused
    <3>4. \A n \in Messages : \A i \in Jobs : OnQueue(i, n)' <=> OnQueue(i, n) \/ (i = j /\ n = m)
      BY <3>3 DEF OnQueue
    <3>5. \A i \in Jobs : ~OnQueue(i, m)  BY <2>2, FreeLock
    <3>6. ASSUME NEW w \in Workers
          PROVE  HoldsJob(w)' /\ SpentIsNotQueued(w)' /\ TriesAreAttempts(w)'
      <4>1. worker[w].pc # "idle" => worker[w].job \in Jobs \ {j}
        BY <3>3 DEF Linked
      <4>2. HoldsJob(w)'  BY <3>2, <3>3, <4>1 DEF HoldsJob
      <4>3. QED
        BY <3>2, <4>2 DEF SpentIsNotQueued, Spent, TriesAreAttempts
    <3>7. LockIsJob'
      <4>1. \A n \in Messages : n \in uniqueLock' <=> \E i \in Jobs : OnQueue(i, n)'
        BY <3>2, <3>4 DEF LockIsJob
      <4>2. ASSUME NEW i \in Jobs, NEW k \in Jobs, jobs'[i].status # "absent",
                   jobs'[k].status # "absent", jobs'[i].msg = jobs'[k].msg
            PROVE  i = k
        BY <3>3, <3>5, <4>2 DEF LockIsJob, OnQueue
      <4>3. QED
        BY <4>1, <4>2 DEF LockIsJob
    <3>8. QueuedIsTriable'
      <4>1. ASSUME NEW n \in Messages, msg'[n].state = "queued", NEW i \in Jobs, OnQueue(i, n)'
            PROVE  Triable(i)'
        <5>1. CASE i = j
          <6>1. msg[m].attempt \in Nat /\ 0 < MaxAttempts
            BY Counts
          <6>2. QED
            BY <3>2, <3>3, <5>1, <6>1 DEF Triable
        <5>2. CASE i # j
          <6>1. OnQueue(i, n) /\ jobs'[i] = jobs[i]  BY <3>3, <3>4, <4>1, <5>2
          <6>2. Triable(i) /\ jobs[i].msg = n
            BY <3>2, <4>1, <6>1 DEF QueuedIsTriable, OnQueue
          <6>3. QED
            BY <3>2, <6>1, <6>2 DEF Triable, AboutToClaim
        <5>3. QED
          BY <5>1, <5>2
      <4>2. \A n \in Messages : msg[n].state = "queued" /\ n \notin uniqueLock' =>
              \E x \in Sources : <<n, x>> \in pending'
        BY <3>2 DEF QueuedIsTriable
      <4>3. QED
        BY <3>2, <4>1, <4>2 DEF QueuedIsTriable
    <3>9. DraftsAreNew'
      <4>1. <<m, s>> \in pending  BY <1>4 DEF Dispatch
      <4>2. QED
        BY <3>2, <4>1 DEF DraftsAreNew
    <3>10. QED
      BY <3>2, <3>6, <3>7, <3>8, <3>9
  <2>3. QED
    BY <2>1, <2>2
<1>5. ASSUME NEW s \in Sources, RequestDies(m, s) PROVE HandInv'
  BY <1>5 DEF RequestDies, OnlyClaimedDie
<1>6. QED
  BY <1>1, <1>2, <1>3, <1>4, <1>5 DEF RequestStep

(* The other steps on rows: only the stale reconciler queues a message,    *)
(* and only one whose lock is free.                                        *)
LEMMA RowStepKeepsHand ==
  ASSUME OnlyClaimedDie, TypeOK, Linked, TypeOK', HandInv, NEW m \in Messages,
         \/ AdminStep(m) \/ StaleStep(m) \/ RepairStep(m)
         \/ ProviderDelivers(m) \/ ProviderBounces(m) \/ LockExpires(m)
  PROVE  HandInv'
<1>t. msg[m] \in MessageRow  BY DEF TypeOK
<1>n. \A n \in Messages : msg[n].attempt \in Nat  BY Counts
<1>1. CASE UNCHANGED <<msg, queueVars, pending, stopped>>
  <2>1. RowsAge  BY <1>1, <1>n DEF RowsAge
  <2>2. QED
    BY <1>1, <2>1, AgingKeepsHand
<1>2. CASE RequeueStale(m)
  <2>1. /\ \A n \in Messages \ {m} : msg'[n] = msg[n]
        /\ msg'[m].state = "queued" /\ msg'[m].attempt = msg[m].attempt
    BY <1>t, <1>2 DEF RequeueStale, TypeOK, MessageRow
  <2>2. m \notin uniqueLock  BY <1>2 DEF RequeueStale, Stale, OnlyClaimedDie
  <2>3. QED
    BY <1>2, <2>1, <2>2, QueueingKeepsHand DEF RequeueStale, Sources
<1>3. CASE FlagAmbiguous(m) \/ FlagImpossible(m) \/ ProviderDelivers(m)
  <2>1. CASE FlagAmbiguous(m) \/ FlagImpossible(m)
    <3>1. PICK f \in Flags : msg' = [msg EXCEPT ![m].flag = f]
      BY <2>1 DEF FlagAmbiguous, FlagImpossible, Flags
    <3>2. [msg[m] EXCEPT !.flag = f].state = msg[m].state
          /\ [msg[m] EXCEPT !.flag = f].attempt = msg[m].attempt
      BY <1>t DEF MessageRow
    <3>3. RowsAge  BY <1>n, <3>1, <3>2 DEF TypeOK, RowsAge
    <3>4. QED
      BY <2>1, <3>3, AgingKeepsHand DEF FlagAmbiguous, FlagImpossible
  <2>2. CASE ProviderDelivers(m)
    <3> DEFINE row == [msg[m] EXCEPT !.state = "delivered", !.deliveredAt = TRUE]
    <3>1. msg' = [msg EXCEPT ![m] = row]  BY <2>2 DEF ProviderDelivers
    <3>2. row.state = "delivered" /\ row.attempt = msg[m].attempt
      BY <1>t DEF MessageRow
    <3> HIDE DEF row
    <3>3. RowsAge  BY <1>n, <3>1, <3>2 DEF TypeOK, RowsAge
    <3>4. QED
      BY <2>2, <3>3, AgingKeepsHand DEF ProviderDelivers
  <2>3. QED
    BY <1>3, <2>1, <2>2
<1>4. CASE FailExhausted(m) \/ ProviderBounces(m)
  <2>1. FailedRow(msg[m], "other").state = "failed"
        /\ FailedRow(msg[m], "other").attempt = msg[m].attempt
    BY <1>t DEF FailedRow, MessageRow
  <2>2. msg' = [msg EXCEPT ![m] = FailedRow(msg[m], "other")]
    BY <1>4 DEF FailExhausted, ProviderBounces
  <2>3. RowsAge
    BY <1>n, <2>1, <2>2 DEF TypeOK, RowsAge
  <2>4. QED
    BY <1>4, <2>3, AgingKeepsHand DEF FailExhausted, ProviderBounces
<1>5. CASE ProviderRetry(m)
  <2> DEFINE row == [ClaimedRow(msg[m]) EXCEPT !.transportAt = TRUE]
  <2>1. PICK result, code : msg' = [msg EXCEPT ![m] =
          IF result = "accepted" THEN SentRow(row) ELSE FailedRow(row, code)]
    BY <1>5 DEF ProviderRetry
  <2>2. /\ SentRow(row).state = "sent" /\ FailedRow(row, code).state = "failed"
        /\ SentRow(row).attempt = msg[m].attempt + 1
        /\ FailedRow(row, code).attempt = msg[m].attempt + 1
    BY <1>t DEF SentRow, FailedRow, ClaimedRow, MessageRow
  <2> HIDE DEF row
  <2>3. msg'[m].state \in {"sent", "failed"} /\ msg'[m].attempt = msg[m].attempt + 1
        /\ \A n \in Messages \ {m} : msg'[n] = msg[n]
    BY <2>1, <2>2 DEF TypeOK
  <2>4. RowsAge  BY <1>n, <2>3 DEF RowsAge
  <2>5. QED
    BY <1>5, <2>4, AgingKeepsHand DEF ProviderRetry
<1>6. CASE \/ ProviderRetryCheck(m) \/ ProviderRetryRefused(m) \/ ProviderRetryDies(m)
           \/ RepairAttempt(m) \/ RepairCommit(m) \/ ExpiryScan(m) \/ Expire(m)
  BY <1>1, <1>6
     DEF ProviderRetryCheck, ProviderRetryRefused, ProviderRetryDies, RepairAttempt,
         RepairCommit, ExpiryScan, Expire, deliveryVars
<1>7. CASE LockExpires(m)
  BY <1>7 DEF LockExpires, OnlyClaimedDie
<1>8. QED
  BY <1>2, <1>3, <1>4, <1>5, <1>6, <1>7 DEF AdminStep, StaleStep, RepairStep

(* A busy worker shares neither its job nor its message.                   *)
LEMMA Alone ==
  ASSUME TypeOK, Linked, HandInv, NEW w \in Workers, worker[w].pc # "idle"
  PROVE  \A v \in Workers \ {w} : worker[v].pc # "idle" =>
           worker[v].msg # worker[w].msg /\ worker[v].job # worker[w].job
<1>1. ASSUME NEW v \in Workers \ {w}, worker[v].pc # "idle"
      PROVE  worker[v].msg # worker[w].msg /\ worker[v].job # worker[w].job
  <2>1. OnQueue(worker[v].job, worker[v].msg) /\ worker[v].job \in Jobs
    BY <1>1, HeldJob
  <2>2. worker[v].job # worker[w].job  BY <1>1, HeldJob
  <2>3. \A j \in Jobs : OnQueue(j, worker[w].msg) => j = worker[w].job  BY HeldJob
  <2>4. QED
    BY <2>1, <2>2, <2>3
<1>2. QED
  BY <1>1

(* A busy worker goes on, dies or writes its message's row; its job stays  *)
(* reserved.                                                               *)
LEMMA WorkerStepKeepsHand ==
  ASSUME TypeOK, Linked, TypeOK', HandInv, NEW w \in Workers, worker[w].pc # "idle",
         NEW m \in Messages, m = worker[w].msg, NEW j \in Jobs, j = worker[w].job,
         \A v \in Workers \ {w} : worker'[v] = worker[v],
         \A n \in Messages \ {m} : msg'[n] = msg[n],
         UNCHANGED <<jobs, uniqueLock, pending, stopped>>,
         HoldsJob(w)', SpentIsNotQueued(w)', TriesAreAttempts(w)',
         msg'[m].state # "draft",
         msg'[m].state = "queued" => Triable(j)'
  PROVE  HandInv'
<1> USE DEF HandInv
<1>0. /\ m \in uniqueLock /\ jobs[j].msg = m
      /\ \A i \in Jobs : OnQueue(i, m) => i = j
      /\ \A v \in Workers \ {w} : worker[v].pc # "idle" =>
           worker[v].msg \in Messages \ {m} /\ worker[v].job # j
  BY HeldJob, Alone DEF OnQueue, Linked
<1>1. ASSUME NEW v \in Workers \ {w}
      PROVE  HoldsJob(v)' /\ SpentIsNotQueued(v)' /\ TriesAreAttempts(v)'
  <2>1. HoldsJob(v)'
    BY <1>1 DEF HoldsJob
  <2>2. SpentIsNotQueued(v)'
    BY <1>0 DEF SpentIsNotQueued, Spent
  <2>3. TriesAreAttempts(v)'
    BY <1>0 DEF TriesAreAttempts, Claimed
  <2>4. QED
    BY <2>1, <2>2, <2>3
<1>2. LockIsJob'  BY DEF LockIsJob, OnQueue
<1>3. QueuedIsTriable'
  <2>1. ASSUME NEW n \in Messages, msg'[n].state = "queued", NEW i \in Jobs, OnQueue(i, n)
        PROVE  Triable(i)'
    <3>1. CASE n = m
      BY <1>0, <2>1, <3>1
    <3>2. CASE n # m
      <4>1. msg'[n] = msg[n] /\ jobs[i].msg = n /\ i # j
        BY <1>0, <2>1, <3>2 DEF OnQueue
      <4>2. Triable(i)  BY <2>1, <4>1 DEF QueuedIsTriable
      <4>3. \A v \in Workers : AboutToClaim(v) /\ worker[v].job = i => worker'[v] = worker[v]
        BY <4>1
      <4>4. QED
        BY <4>1, <4>2, <4>3 DEF Triable, AboutToClaim
    <3>3. QED
      BY <3>1, <3>2
  <2>2. \A n \in Messages : n \notin uniqueLock => msg'[n] = msg[n]
    BY <1>0
  <2>3. QED
    BY <2>1, <2>2 DEF QueuedIsTriable, OnQueue
<1>4. DraftsAreNew'
  BY DEF DraftsAreNew
<1>5. QED
  BY <1>1, <1>2, <1>3, <1>4

(* A job leaves the queue with its lock, when its message is not queued.   *)
LEMMA FreeingKeepsHand ==
  ASSUME TypeOK, Linked, TypeOK', HandInv, NEW j \in Jobs, NEW m \in Messages,
         OnQueue(j, m), msg[m].state # "queued",
         Free(j), uniqueLock' = uniqueLock \ {m},
         \A v \in Workers :
           \/ worker'[v] = worker[v]
           \/ worker'[v] = IdleWorker /\ worker[v].job = j,
         \A v \in Workers : worker'[v].pc # "idle" => worker'[v].job # j,
         UNCHANGED <<msg, pending, stopped>>
  PROVE  HandInv'
<1> USE DEF HandInv
<1>0. /\ jobs'[j].status = "absent"
      /\ \A i \in Jobs \ {j} : jobs'[i] = jobs[i]
      /\ \A n \in Messages, i \in Jobs : OnQueue(i, n)' <=> OnQueue(i, n) /\ i # j
      /\ IdleWorker.pc = "idle"
  BY DEF Free, NoJobRow, OnQueue, TypeOK, IdleWorker
<1>1. ASSUME NEW w \in Workers
      PROVE  HoldsJob(w)' /\ SpentIsNotQueued(w)' /\ TriesAreAttempts(w)'
  <2>1. CASE worker'[w].pc = "idle"
    BY <2>1 DEF HoldsJob, SpentIsNotQueued, Spent, TriesAreAttempts, Claimed
  <2>2. CASE worker'[w].pc # "idle"
    <3>1. worker'[w] = worker[w] /\ worker[w].job \in Jobs \ {j}
      BY <1>0, <2>2 DEF Linked
    <3>2. HoldsJob(w)'  BY <1>0, <2>2, <3>1 DEF HoldsJob
    <3>3. QED
      BY <3>1, <3>2 DEF SpentIsNotQueued, Spent, TriesAreAttempts
  <2>3. QED
    BY <2>1, <2>2
<1>2. LockIsJob'
  <2>1. \A n \in Messages : n \in uniqueLock' <=> \E i \in Jobs : OnQueue(i, n)'
    <3>1. \A i \in Jobs \ {j} : ~OnQueue(i, m)  BY DEF LockIsJob, OnQueue
    <3>2. \A n \in Messages \ {m} : ~OnQueue(j, n)  BY DEF OnQueue
    <3>3. QED
      BY <1>0, <3>1, <3>2 DEF LockIsJob
  <2>2. QED
    BY <1>0, <2>1 DEF LockIsJob
<1>3. QueuedIsTriable'
  <2>1. ASSUME NEW n \in Messages, msg[n].state = "queued", NEW i \in Jobs, OnQueue(i, n)'
        PROVE  Triable(i)'
    <3>1. OnQueue(i, n) /\ i # j /\ jobs'[i] = jobs[i]  BY <1>0, <2>1
    <3>2. Triable(i) /\ jobs[i].msg = n  BY <2>1, <3>1 DEF QueuedIsTriable, OnQueue
    <3>3. \A v \in Workers : AboutToClaim(v) /\ worker[v].job = i => worker'[v] = worker[v]
      BY <3>1
    <3>4. QED
      BY <3>1, <3>2, <3>3 DEF Triable, AboutToClaim
  <2>2. \A n \in Messages : n \notin uniqueLock' /\ msg[n].state = "queued" => n \notin uniqueLock
    OBVIOUS
  <2>3. QED
    BY <2>1, <2>2 DEF QueuedIsTriable
<1>4. DraftsAreNew'  BY DEF DraftsAreNew
<1>5. QED
  BY <1>1, <1>2, <1>3, <1>4


(* A job nobody holds any more is offered again, its tries kept.           *)
LEMMA OfferingKeepsHand ==
  ASSUME TypeOK, Linked, TypeOK', HandInv, NEW j \in Jobs, NEW m \in Messages,
         OnQueue(j, m),
         jobs' = [jobs EXCEPT ![j] = [status |-> "available", msg |-> m,
                                      tries |-> jobs[j].tries]],
         msg[m].state = "queued" =>
           jobs[j].tries < MaxAttempts /\ jobs[j].tries <= msg[m].attempt,
         \A v \in Workers :
           \/ worker'[v] = worker[v]
           \/ worker'[v] = IdleWorker /\ worker[v].job = j,
         \A v \in Workers : worker'[v].pc # "idle" => worker'[v].job # j,
         UNCHANGED <<msg, uniqueLock, pending, stopped>>
  PROVE  HandInv'
<1> USE DEF HandInv
<1>0. /\ jobs'[j].status = "available" /\ jobs'[j].msg = m /\ jobs'[j].tries = jobs[j].tries
      /\ \A i \in Jobs \ {j} : jobs'[i] = jobs[i]
      /\ \A n \in Messages, i \in Jobs : OnQueue(i, n)' <=> OnQueue(i, n)
      /\ \A i \in Jobs : jobs'[i].msg = jobs[i].msg
                         /\ (jobs'[i].status = "absent" <=> jobs[i].status = "absent")
      /\ IdleWorker.pc = "idle"
  BY DEF OnQueue, TypeOK, IdleWorker
<1>1. ASSUME NEW w \in Workers
      PROVE  HoldsJob(w)' /\ SpentIsNotQueued(w)' /\ TriesAreAttempts(w)'
  <2>1. CASE worker'[w].pc = "idle"
    BY <2>1 DEF HoldsJob, SpentIsNotQueued, Spent, TriesAreAttempts, Claimed
  <2>2. CASE worker'[w].pc # "idle"
    <3>1. worker'[w] = worker[w] /\ worker[w].job \in Jobs \ {j}
      BY <1>0, <2>2 DEF Linked
    <3>2. HoldsJob(w)'  BY <1>0, <2>2, <3>1 DEF HoldsJob
    <3>3. QED
      BY <3>1, <3>2 DEF SpentIsNotQueued, Spent, TriesAreAttempts
  <2>3. QED
    BY <2>1, <2>2
<1>2. LockIsJob'  BY <1>0 DEF LockIsJob
<1>3. QueuedIsTriable'
  <2>1. ASSUME NEW n \in Messages, msg[n].state = "queued", NEW i \in Jobs, OnQueue(i, n)
        PROVE  Triable(i)'
    <3>1. CASE i = j
      <4>1. n = m  BY <2>1, <3>1 DEF OnQueue
      <4>2. QED
        BY <1>0, <2>1, <3>1, <4>1 DEF Triable
    <3>2. CASE i # j
      <4>1. Triable(i) /\ jobs[i].msg = n /\ jobs'[i] = jobs[i]
        BY <1>0, <2>1, <3>2 DEF QueuedIsTriable, OnQueue
      <4>2. \A v \in Workers : AboutToClaim(v) /\ worker[v].job = i => worker'[v] = worker[v]
        BY <3>2
      <4>3. QED
        BY <4>1, <4>2 DEF Triable, AboutToClaim
    <3>3. QED
      BY <3>1, <3>2
  <2>2. QED
    BY <1>0, <2>1 DEF QueuedIsTriable
<1>4. DraftsAreNew'  BY DEF DraftsAreNew
<1>5. QED
  BY <1>1, <1>2, <1>3, <1>4

(* A job whose last holder is gone, or whose tries are spent, has a try    *)
(* left exactly when that is what Triable says.                            *)
LEMMA TriableAlone ==
  ASSUME TypeOK, Linked, HandInv, NEW j \in Jobs, NEW m \in Messages, OnQueue(j, m),
         msg[m].state = "queued",
         \A w \in Workers : worker[w].job = j => ~AboutToClaim(w)
  PROVE  jobs[j].tries < MaxAttempts /\ jobs[j].tries <= msg[m].attempt
<1>1. Triable(j) /\ jobs[j].msg = m  BY DEF HandInv, QueuedIsTriable, OnQueue
<1>2. QED
  BY <1>1 DEF Triable

(* A job on offer has no holder.                                           *)
LEMMA OfferedIsFree ==
  ASSUME TypeOK, Linked, HandInv, NEW j \in Jobs, jobs[j].status = "available"
  PROVE  /\ \A w \in Workers : worker[w].pc # "idle" => worker[w].job # j
         /\ \A w \in Workers : worker[w].job = j => ~AboutToClaim(w)
         /\ jobs[j].msg \in Messages /\ OnQueue(j, jobs[j].msg)
<1>1. \A w \in Workers : worker[w].pc # "idle" => worker[w].job # j
  BY DEF HandInv, HoldsJob
<1>2. QED
  BY <1>1 DEF AboutToClaim, Linked, OnQueue

LEMMA PopKeepsHand ==
  ASSUME TypeOK, Linked, TypeOK', HandInv, NEW w \in Workers, NEW j \in Jobs, Pop(w, j)
  PROVE  HandInv'
<1> DEFINE m == jobs[j].msg
<1>1. /\ worker[w].pc = "idle" /\ jobs[j].status = "available"
      /\ UNCHANGED <<msg, pending, stopped>>
  BY DEF Pop, deliveryVars
<1>2. /\ \A v \in Workers : worker[v].pc # "idle" => worker[v].job # j
      /\ \A v \in Workers : worker[v].job = j => ~AboutToClaim(v)
      /\ m \in Messages /\ OnQueue(j, m)
  BY <1>1, OfferedIsFree
<1>3. msg[m].state = "queued" => jobs[j].tries < MaxAttempts /\ jobs[j].tries <= msg[m].attempt
  BY <1>2, TriableAlone
<1>n. jobs[j].tries \in Nat /\ MaxAttempts \in Nat /\ msg[m].attempt \in Nat
  BY <1>2, Counts
<1>4. CASE jobs[j].tries >= MaxAttempts
  <2>1. Free(j) /\ uniqueLock' = uniqueLock \ {m} /\ UNCHANGED worker
    BY <1>4 DEF Pop
  <2>2. msg[m].state # "queued"  BY <1>3, <1>4, <1>n
  <2> HIDE DEF m
  <2>3. \A v \in Workers : worker'[v] = worker[v]  BY <2>1
  <2>4. QED
    BY <1>1, <1>2, <2>1, <2>2, <2>3, FreeingKeepsHand
<1>5. CASE ~(jobs[j].tries >= MaxAttempts)
  <2> USE DEF HandInv
  <2> DEFINE popped == [IdleWorker EXCEPT !.pc = "popped", !.job = j,
                          !.msg = m, !.tries = jobs[j].tries + 1]
  <2>1. /\ jobs' = [jobs EXCEPT ![j].status = "reserved", ![j].tries = @ + 1]
        /\ worker' = [worker EXCEPT ![w] = popped] /\ UNCHANGED uniqueLock
    BY <1>5 DEF Pop
  <2>2. /\ jobs'[j].status = "reserved" /\ jobs'[j].msg = m
        /\ jobs'[j].tries = jobs[j].tries + 1
        /\ \A i \in Jobs \ {j} : jobs'[i] = jobs[i]
    BY <2>1 DEF TypeOK, JobRow
  <2>3. /\ popped.pc = "popped" /\ popped.job = j /\ popped.msg = m
        /\ popped.tries = jobs[j].tries + 1
    BY DEF IdleWorker
  <2> HIDE DEF popped, m
  <2>4. worker'[w] = popped /\ \A v \in Workers \ {w} : worker'[v] = worker[v]
    BY <2>1 DEF TypeOK
  <2>5. /\ \A n \in Messages, i \in Jobs : OnQueue(i, n)' <=> OnQueue(i, n)
        /\ \A i \in Jobs : jobs'[i].msg = jobs[i].msg
                           /\ (jobs'[i].status = "absent" <=> jobs[i].status = "absent")
    BY <1>1, <2>2 DEF OnQueue, m
  <2>6. ASSUME NEW v \in Workers
        PROVE  HoldsJob(v)' /\ SpentIsNotQueued(v)' /\ TriesAreAttempts(v)'
    <3>1. CASE v = w
      <4>1. HoldsJob(v)'  BY <1>2, <2>2, <2>3, <2>4, <3>1 DEF HoldsJob
      <4>2. QED
        BY <2>3, <2>4, <3>1, <4>1 DEF SpentIsNotQueued, Spent, TriesAreAttempts, Claimed
    <3>2. CASE v # w
      <4>1. worker[v].pc # "idle" => worker[v].job \in Jobs \ {j}  BY <1>2 DEF Linked
      <4>2. HoldsJob(v)'  BY <2>2, <2>3, <2>4, <3>2, <4>1 DEF HoldsJob
      <4>3. QED
        BY <1>1, <2>4, <3>2, <4>2 DEF SpentIsNotQueued, Spent, TriesAreAttempts
    <3>3. QED
      BY <3>1, <3>2
  <2>7. LockIsJob'  BY <2>1, <2>5 DEF LockIsJob
  <2>8. QueuedIsTriable'
    <3>1. ASSUME NEW n \in Messages, msg[n].state = "queued", NEW i \in Jobs, OnQueue(i, n)
          PROVE  Triable(i)'
      <4>1. CASE i = j
        <5>1. n = m  BY <3>1, <4>1 DEF OnQueue, m
        <5>2. jobs'[j].tries <= msg'[m].attempt + 1
          BY <1>1, <1>3, <1>n, <2>2, <3>1, <5>1 DEF m
        <5>3. worker'[w].job = j /\ AboutToClaim(w)'  BY <2>3, <2>4 DEF AboutToClaim
        <5>4. QED
          BY <2>2, <4>1, <5>2, <5>3 DEF Triable
      <4>2. CASE i # j
        <5>1. Triable(i) /\ jobs[i].msg = n /\ jobs'[i] = jobs[i]
          BY <2>2, <3>1, <4>2 DEF QueuedIsTriable, OnQueue
        <5>2. \A v \in Workers : AboutToClaim(v) => worker'[v] = worker[v]
          BY <1>1, <2>4 DEF AboutToClaim
        <5>3. QED
          BY <1>1, <5>1, <5>2 DEF Triable, AboutToClaim
      <4>3. QED
        BY <4>1, <4>2
    <3>2. QED
      BY <1>1, <2>1, <2>5, <3>1 DEF QueuedIsTriable
  <2>9. DraftsAreNew'  BY <1>1, <2>1 DEF DraftsAreNew
  <2>10. QED
    BY <1>1, <2>6, <2>7, <2>8, <2>9
<1>6. QED
  BY <1>4, <1>5

LEMMA MovedHolding ==
  ASSUME TypeOK, NEW w \in Workers, NEW place, Move(w, place)
  PROVE  /\ \A v \in Workers \ {w} : worker'[v] = worker[v]
         /\ worker'[w].pc = place /\ worker'[w].job = worker[w].job
         /\ worker'[w].msg = worker[w].msg /\ worker'[w].tries = worker[w].tries
         /\ place \notin {"done", "threw"} => worker'[w].attempt = worker[w].attempt
BY DEF TypeOK, Move, WorkerRow

(* A worker moves on with its job; only a place from which the message is  *)
(* still claimed, or retried, may leave it queued.                         *)
LEMMA GoingOnKeepsHand ==
  ASSUME TypeOK, Linked, TypeOK', HandInv, NEW w \in Workers, worker[w].pc # "idle",
         NEW m \in Messages, m = worker[w].msg, NEW j \in Jobs, j = worker[w].job,
         \A v \in Workers \ {w} : worker'[v] = worker[v],
         worker'[w].pc # "idle", worker'[w].job = j, worker'[w].msg = m,
         worker'[w].tries = worker[w].tries,
         worker'[w].pc \in Claimed =>
           worker[w].pc \in Claimed /\ worker'[w].attempt = worker[w].attempt,
         \A n \in Messages \ {m} : msg'[n] = msg[n],
         msg'[m].attempt >= msg[m].attempt,
         msg'[m].state # "draft",
         msg'[m].state = "queued" => ~Spent(w)' /\ Triable(j)',
         UNCHANGED <<jobs, uniqueLock, pending, stopped>>
  PROVE  HandInv'
<1>1. HoldsJob(w)'
  <2>1. HoldsJob(w) /\ \A v \in Workers \ {w} : worker[v].pc # "idle" => worker[v].job # j
    BY Alone DEF HandInv
  <2>2. QED
    BY <2>1 DEF HoldsJob
<1>2. SpentIsNotQueued(w)'  BY DEF SpentIsNotQueued
<1>3. TriesAreAttempts(w)'
  <2>1. /\ msg[m].attempt \in Nat /\ msg'[m].attempt \in Nat /\ worker[w].attempt \in Nat
        /\ TriesAreAttempts(w)
    BY Counts, AttemptBoundAssumption DEF TypeOK, MessageRow, HandInv
  <2>2. QED
    BY <2>1 DEF TriesAreAttempts
<1>4. QED
  BY <1>1, <1>2, <1>3, WorkerStepKeepsHand

(* What the holder of m's job knows of m.                                  *)
LEMMA HeldRow ==
  ASSUME TypeOK, Linked, HandInv, NEW w \in Workers, worker[w].pc # "idle"
  PROVE  /\ worker[w].msg \in Messages /\ worker[w].job \in Jobs
         /\ msg[worker[w].msg] \in MessageRow
         /\ msg[worker[w].msg].attempt \in Nat
         /\ msg[worker[w].msg].state # "draft"
         /\ Spent(w) => msg[worker[w].msg].state # "queued"
         /\ msg[worker[w].msg].state = "queued" =>
              /\ Triable(worker[w].job)
              /\ ~AboutToClaim(w) => worker[w].tries < MaxAttempts
                                     /\ worker[w].tries <= msg[worker[w].msg].attempt
              /\ AboutToClaim(w) => worker[w].tries <= msg[worker[w].msg].attempt + 1
<1> DEFINE m == worker[w].msg
           j == worker[w].job
<1>1. /\ m \in Messages /\ j \in Jobs /\ m \in uniqueLock /\ OnQueue(j, m)
      /\ jobs[j].tries = worker[w].tries
      /\ \A v \in Workers : worker[v].pc # "idle" /\ worker[v].job = j => v = w
  BY HeldJob
<1>2. /\ msg[m] \in MessageRow /\ msg[m].attempt \in Nat
      /\ jobs[j].tries \in Nat /\ MaxAttempts \in Nat
  BY <1>1, Counts DEF TypeOK
<1>3. msg[m].state # "draft"  BY <1>1 DEF HandInv, DraftsAreNew
<1>4. Spent(w) => msg[m].state # "queued"  BY DEF HandInv, SpentIsNotQueued
<1>5. ASSUME msg[m].state = "queued"
      PROVE  /\ Triable(j)
             /\ ~AboutToClaim(w) => worker[w].tries < MaxAttempts
                                    /\ worker[w].tries <= msg[m].attempt
             /\ AboutToClaim(w) => worker[w].tries <= msg[m].attempt + 1
  <2>1. Triable(j) /\ jobs[j].msg = m
    BY <1>1, <1>5 DEF HandInv, QueuedIsTriable, OnQueue
  <2>2. ~AboutToClaim(w) => \A v \in Workers : worker[v].job = j => ~AboutToClaim(v)
    BY <1>1 DEF AboutToClaim
  <2> HIDE DEF m, j
  <2>3. QED
    BY <1>1, <1>2, <2>1, <2>2 DEF Triable
<1>6. QED
  BY <1>1, <1>2, <1>3, <1>4, <1>5

(* A worker past the claim, or with nothing to claim, goes to another such *)
(* place, perhaps writing an outcome to its row.                           *)
LEMMA SpentMoveKeepsHand ==
  ASSUME TypeOK, Linked, TypeOK', HandInv, NEW w \in Workers, Spent(w),
         NEW place \in Places \ {"idle", "popped", "cleared", "requeued", "threw"},
         Move(w, place), place \in Claimed => worker[w].pc \in Claimed,
         \/ UNCHANGED msg
         \/ \E row \in MessageRow :
              /\ msg' = [msg EXCEPT ![worker[w].msg] = row]
              /\ row.attempt = msg[worker[w].msg].attempt
              /\ row.state \notin {"draft", "queued"},
         UNCHANGED <<jobs, uniqueLock, pending, stopped>>
  PROVE  HandInv'
<1>1. worker[w].pc # "idle"  BY DEF Spent
<1>2. PICK m \in Messages, j \in Jobs : m = worker[w].msg /\ j = worker[w].job
  BY <1>1 DEF Linked
<1>3. /\ msg[m].attempt \in Nat /\ msg[m].state \notin {"draft", "queued"}
  BY <1>1, <1>2, HeldRow
<1>4. /\ \A n \in Messages \ {m} : msg'[n] = msg[n]
      /\ msg'[m].attempt >= msg[m].attempt
      /\ msg'[m].state \notin {"draft", "queued"}
  <2>1. CASE UNCHANGED msg
    BY <1>3, <2>1
  <2>2. CASE \E row \in MessageRow : /\ msg' = [msg EXCEPT ![m] = row]
                                     /\ row.attempt = msg[m].attempt
                                     /\ row.state \notin {"draft", "queued"}
    BY <1>3, <2>2 DEF TypeOK
  <2>3. QED
    BY <1>2, <2>1, <2>2
<1>5. /\ \A v \in Workers \ {w} : worker'[v] = worker[v]
      /\ worker'[w].pc = place /\ worker'[w].job = j /\ worker'[w].msg = m
      /\ worker'[w].tries = worker[w].tries
      /\ place \in Claimed => worker'[w].attempt = worker[w].attempt
  BY <1>2, MovedHolding DEF Claimed
<1>6. QED
  BY <1>1, <1>2, <1>4, <1>5, GoingOnKeepsHand

LEMMA ClaimKeepsHand ==
  ASSUME TypeOK, Linked, TypeOK', HandInv, NEW w \in Workers, Claim(w)
  PROVE  HandInv'
<1>1. worker[w].pc = "cleared"  BY DEF Claim
<1>2. PICK m \in Messages, j \in Jobs : m = worker[w].msg /\ j = worker[w].job
  BY <1>1 DEF Linked
<1>3. /\ msg[m] \in MessageRow /\ msg[m].attempt \in Nat /\ msg[m].state = "queued"
      /\ worker[w].tries <= msg[m].attempt + 1
  BY <1>1, <1>2, HeldRow DEF Claim, AboutToClaim
<1>4. /\ ClaimedRow(msg[m]).state = "sending"
      /\ ClaimedRow(msg[m]).attempt = msg[m].attempt + 1
  BY <1>3 DEF ClaimedRow, MessageRow
<1>5. /\ \A n \in Messages \ {m} : msg'[n] = msg[n]
      /\ msg'[m].state = "sending" /\ msg'[m].attempt = msg[m].attempt + 1
  BY <1>2, <1>4 DEF Claim, TypeOK
<1>6. /\ \A v \in Workers \ {w} : worker'[v] = worker[v]
      /\ worker'[w].pc = "claimed" /\ worker'[w].job = j /\ worker'[w].msg = m
      /\ worker'[w].tries = worker[w].tries
      /\ worker'[w].attempt = msg[m].attempt + 1
  BY <1>2 DEF Claim, TypeOK, WorkerRow
<1>7. UNCHANGED <<jobs, uniqueLock, pending, stopped>>  BY DEF Claim
<1>8. HoldsJob(w)'
  <2>1. HoldsJob(w) /\ \A v \in Workers \ {w} : worker[v].pc # "idle" => worker[v].job # j
    BY <1>1, <1>2, Alone DEF HandInv
  <2>2. QED
    BY <1>1, <1>2, <1>6, <1>7, <2>1 DEF HoldsJob
<1>9. SpentIsNotQueued(w)'  BY <1>5, <1>6 DEF SpentIsNotQueued
<1>10. TriesAreAttempts(w)'
  BY <1>3, <1>5, <1>6 DEF TriesAreAttempts
<1>11. QED
  BY <1>1, <1>2, <1>5, <1>6, <1>7, <1>8, <1>9, <1>10, WorkerStepKeepsHand

LEMMA HandlerStartKeepsHand ==
  ASSUME TypeOK, Linked, TypeOK', HandInv, NEW w \in Workers,
         \/ StopCheck(w) \/ NothingToClaim(w) \/ StartAttempt(w)
         \/ RefuseBeforeTransport(w) \/ StampTransport(w) \/ Send(w)
  PROVE  HandInv'
<1>1. worker[w].pc # "idle"
  BY DEF StopCheck, NothingToClaim, StartAttempt, RefuseBeforeTransport, StampTransport, Send
<1>2. PICK m \in Messages, j \in Jobs : m = worker[w].msg /\ j = worker[w].job
  BY <1>1 DEF Linked
<1>3. /\ msg[m] \in MessageRow /\ msg[m].attempt \in Nat /\ msg[m].state # "draft"
      /\ Spent(w) => msg[m].state # "queued"
      /\ msg[m].state = "queued" => Triable(j) /\ worker[w].tries <= msg[m].attempt + 1
  <2>1. worker[w].tries \in Nat  BY Counts
  <2>2. QED
    BY <1>1, <1>2, <2>1, HeldRow
<1>4. CASE StopCheck(w)
  <2>1. /\ worker[w].pc = "popped" /\ Move(w, "cleared")
        /\ UNCHANGED <<msg, jobs, uniqueLock, pending, stopped>>
    BY <1>4 DEF StopCheck, HandInv, deliveryVars
  <2>2. /\ \A v \in Workers \ {w} : worker'[v] = worker[v]
        /\ worker'[w].pc = "cleared" /\ worker'[w].job = j /\ worker'[w].msg = m
        /\ worker'[w].tries = worker[w].tries
    BY <1>2, <2>1, MovedHolding
  <2>3. jobs[j].tries = worker[w].tries  BY <1>1, <1>2, HeldJob
  <2>4. jobs[j].msg = m  BY <1>1, <1>2, HeldJob DEF OnQueue
  <2>5. msg[m].state = "queued" => Triable(j)'
    BY <1>3, <2>1, <2>2, <2>3, <2>4 DEF Triable, AboutToClaim
  <2>6. ~Spent(w)' /\ worker'[w].pc \notin Claimed  BY <2>2 DEF Spent, Claimed
  <2>7. \A n \in Messages : msg'[n] = msg[n]  BY <2>1
  <2>8. msg'[m].attempt >= msg[m].attempt  BY <1>3, <2>7
  <2>9. QED
    BY <1>1, <1>2, <1>3, <2>1, <2>2, <2>5, <2>6, <2>7, <2>8, GoingOnKeepsHand
<1>5. CASE NothingToClaim(w)
  <2>1. /\ worker[w].pc = "cleared" /\ msg[m].state # "queued" /\ Move(w, "done")
        /\ UNCHANGED <<msg, jobs, uniqueLock, pending, stopped>>
    BY <1>2, <1>5 DEF NothingToClaim, deliveryVars
  <2>2. /\ \A v \in Workers \ {w} : worker'[v] = worker[v]
        /\ worker'[w].pc = "done" /\ worker'[w].job = j /\ worker'[w].msg = m
        /\ worker'[w].tries = worker[w].tries
    BY <1>2, <2>1, MovedHolding
  <2>3. worker'[w].pc \notin Claimed  BY <2>2 DEF Claimed
  <2>4. \A n \in Messages : msg'[n] = msg[n]  BY <2>1
  <2>5. msg'[m].attempt >= msg[m].attempt  BY <1>3, <2>4
  <2>6. QED
    BY <1>1, <1>2, <1>3, <2>1, <2>2, <2>3, <2>4, <2>5, GoingOnKeepsHand
<1>6. CASE StartAttempt(w)
  <2>1. /\ Spent(w) /\ worker[w].pc \in Claimed /\ Move(w, "started")
        /\ UNCHANGED <<msg, jobs, uniqueLock, pending, stopped>>
    BY <1>6 DEF StartAttempt, Spent, Claimed
  <2>2. QED
    BY <2>1, SpentMoveKeepsHand DEF Places, Claimed
<1>7. CASE RefuseBeforeTransport(w)
  <2>1. /\ Spent(w) /\ worker[w].pc \in Claimed
        /\ UNCHANGED <<jobs, uniqueLock, pending, stopped>>
    BY <1>7 DEF RefuseBeforeTransport, Spent, Claimed
  <2>2. CASE UNCHANGED msg /\ Move(w, "done")
    BY <2>1, <2>2, SpentMoveKeepsHand DEF Places, Claimed
  <2>3. ASSUME NEW code \in {"blocked", "other"}, Move(w, "refused"),
               msg' = [msg EXCEPT ![m] = FailedRow(@, code)]
        PROVE  HandInv'
    <3>1. FailedRow(msg[m], code).state = "failed"
          /\ FailedRow(msg[m], code).attempt = msg[m].attempt
          /\ FailedRow(msg[m], code) \in MessageRow
      BY <1>3 DEF FailedRow, MessageRow, FailureClasses, States
    <3>2. QED
      BY <1>2, <2>1, <2>3, <3>1, SpentMoveKeepsHand DEF Places, Settling, Claimed
  <2>4. QED
    BY <1>2, <1>7, <2>2, <2>3 DEF RefuseBeforeTransport
<1>8. CASE StampTransport(w)
  <2> DEFINE row == [msg[m] EXCEPT !.transportAt = @ \/ msg[m].state = "sending"]
  <2>1. /\ Spent(w) /\ worker[w].pc \in Claimed /\ Move(w, "submitting")
        /\ msg' = [msg EXCEPT ![m] = row]
        /\ UNCHANGED <<jobs, uniqueLock, pending, stopped>>
    BY <1>2, <1>8 DEF StampTransport, Spent, Claimed
  <2>2. row.state = msg[m].state /\ row.attempt = msg[m].attempt /\ row \in MessageRow
    BY <1>3 DEF MessageRow
  <2> HIDE DEF row
  <2>3. QED
    BY <1>2, <1>3, <2>1, <2>2, SpentMoveKeepsHand DEF Places, Claimed
<1>9. CASE Send(w)
  <2>1. /\ worker[w].pc = "submitting"
        /\ UNCHANGED <<msg, jobs, uniqueLock, pending, stopped>>
    BY <1>9 DEF Send, deliveryVars
  <2>2. PICK result \in Results \ {"none"} :
          worker' = [worker EXCEPT ![w].pc = "answered", ![w].result = result]
    BY <1>9 DEF Send
  <2>3. /\ \A v \in Workers \ {w} : worker'[v] = worker[v]
        /\ worker'[w].pc = "answered" /\ worker'[w].job = j /\ worker'[w].msg = m
        /\ worker'[w].tries = worker[w].tries /\ worker'[w].attempt = worker[w].attempt
    BY <1>2, <2>2 DEF TypeOK, WorkerRow
  <2>4. worker[w].pc \in Claimed /\ msg[m].state # "queued"
    BY <1>3, <2>1 DEF Claimed, Spent
  <2>5. \A n \in Messages : msg'[n] = msg[n]  BY <2>1
  <2>6. msg'[m].attempt >= msg[m].attempt  BY <1>3, <2>5
  <2>7. QED
    BY <1>1, <1>2, <1>3, <2>1, <2>3, <2>4, <2>5, <2>6, GoingOnKeepsHand
<1>10. QED
  BY <1>4, <1>5, <1>6, <1>7, <1>8, <1>9

LEMMA HandlerEndKeepsHand ==
  ASSUME TypeOK, Linked, TypeOK', HandInv, NEW w \in Workers,
         \/ MarkSent(w) \/ CommitUsage(w) \/ CompleteAccepted(w) \/ Requeue(w)
         \/ CompleteTemporary(w) \/ Exhaust(w) \/ MarkFailed(w)
         \/ ReleaseUsage(w) \/ CompletePermanent(w)
  PROVE  HandInv'
<1>1. worker[w].pc # "idle"
  BY DEF MarkSent, CommitUsage, CompleteAccepted, Requeue, CompleteTemporary, Exhaust,
         MarkFailed, ReleaseUsage, CompletePermanent
<1>2. PICK m \in Messages, j \in Jobs : m = worker[w].msg /\ j = worker[w].job
  BY <1>1 DEF Linked
<1>3. /\ msg[m] \in MessageRow /\ msg[m].attempt \in Nat /\ msg[m].state # "draft"
      /\ Spent(w) => msg[m].state # "queued"
      /\ msg[m].state = "queued" /\ ~AboutToClaim(w) =>
           worker[w].tries < MaxAttempts /\ worker[w].tries <= msg[m].attempt
      /\ jobs[j].tries = worker[w].tries /\ jobs[j].msg = m
  BY <1>1, <1>2, HeldRow, HeldJob DEF OnQueue
<1>4. CASE MarkSent(w)
  <2>1. Spent(w) /\ UNCHANGED <<jobs, uniqueLock, pending, stopped>>
    BY <1>4 DEF MarkSent, Spent
  <2>2. SentRow(msg[m]).state = "sent" /\ SentRow(msg[m]).attempt = msg[m].attempt
        /\ SentRow(msg[m]) \in MessageRow
    BY <1>3 DEF SentRow, MessageRow, States, FailureClasses
  <2>3. \/ Move(w, "sent") /\ msg' = [msg EXCEPT ![m] = SentRow(@)]
        \/ Move(w, "done") /\ UNCHANGED msg
    BY <1>2, <1>4 DEF MarkSent
  <2>4. QED
    BY <1>2, <2>1, <2>2, <2>3, SpentMoveKeepsHand DEF Places, Settling, Claimed
<1>5. CASE \/ CommitUsage(w) \/ CompleteAccepted(w) \/ Exhaust(w)
           \/ ReleaseUsage(w) \/ CompletePermanent(w)
  <2>1. Spent(w) /\ UNCHANGED <<msg, jobs, uniqueLock, pending, stopped>>
    BY <1>5 DEF CommitUsage, CompleteAccepted, Exhaust, ReleaseUsage, CompletePermanent, Spent
  <2>2. \/ \E place \in {"charged", "done", "released"} : Move(w, place)
        \/ Move(w, "exhausted") /\ worker[w].pc = "answered"
    BY <1>5 DEF CommitUsage, CompleteAccepted, Exhaust, ReleaseUsage, CompletePermanent
  <2>3. QED
    BY <2>1, <2>2, SpentMoveKeepsHand DEF Places, Settling, Claimed
<1>6. CASE Requeue(w)
  <2> DEFINE row == IF msg[m].state = "sending"
                      THEN [msg[m] EXCEPT !.state = "queued", !.failure = "other"]
                      ELSE msg[m]
  <2>1. /\ worker[w].pc = "answered" /\ worker[w].attempt < MaxAttempts
        /\ Move(w, "requeued") /\ UNCHANGED <<jobs, uniqueLock, pending, stopped>>
        /\ msg' = [msg EXCEPT ![m] = row]
    BY <1>2, <1>6 DEF Requeue
  <2>2. row.attempt = msg[m].attempt /\ row.state \in {"queued", msg[m].state}
    BY <1>3 DEF MessageRow
  <2> HIDE DEF row
  <2>3. /\ \A n \in Messages \ {m} : msg'[n] = msg[n]
        /\ msg'[m].attempt = msg[m].attempt /\ msg'[m].state # "draft"
    BY <1>3, <2>1, <2>2 DEF TypeOK
  <2>4. /\ \A v \in Workers \ {w} : worker'[v] = worker[v]
        /\ worker'[w].pc = "requeued" /\ worker'[w].job = j /\ worker'[w].msg = m
        /\ worker'[w].tries = worker[w].tries
    BY <1>2, <2>1, MovedHolding
  <2>5. worker[w].tries <= worker[w].attempt /\ worker[w].attempt <= msg[m].attempt
    BY <1>2, <2>1 DEF HandInv, TriesAreAttempts, Claimed
  <2>6. worker[w].tries < MaxAttempts /\ worker[w].tries <= msg[m].attempt
    BY <1>3, <2>1, <2>5, Counts
  <2>7. Triable(j)'
    BY <1>3, <2>1, <2>3, <2>6 DEF Triable
  <2>8. ~Spent(w)' /\ worker'[w].pc \notin Claimed  BY <2>4 DEF Spent, Claimed
  <2>9. msg'[m].attempt >= msg[m].attempt  BY <1>3, <2>3
  <2>10. QED
    BY <1>1, <1>2, <2>1, <2>3, <2>4, <2>7, <2>8, <2>9, GoingOnKeepsHand
<1>7. CASE CompleteTemporary(w)
  <2>1. /\ worker[w].pc = "requeued" /\ Move(w, "threw")
        /\ UNCHANGED <<msg, jobs, uniqueLock, pending, stopped>>
    BY <1>7 DEF CompleteTemporary
  <2>2. /\ \A v \in Workers \ {w} : worker'[v] = worker[v]
        /\ worker'[w].pc = "threw" /\ worker'[w].job = j /\ worker'[w].msg = m
        /\ worker'[w].tries = worker[w].tries
    BY <1>2, <2>1, MovedHolding
  <2>3. msg[m].state = "queued" => Triable(j)'
    BY <1>3, <2>1 DEF Triable, AboutToClaim
  <2>4. ~Spent(w)' /\ worker'[w].pc \notin Claimed  BY <2>2 DEF Spent, Claimed
  <2>5. \A n \in Messages : msg'[n] = msg[n]  BY <2>1
  <2>6. msg'[m].attempt >= msg[m].attempt  BY <1>3, <2>5
  <2>7. QED
    BY <1>1, <1>2, <1>3, <2>1, <2>2, <2>3, <2>4, <2>5, <2>6, GoingOnKeepsHand
<1>8. CASE MarkFailed(w)
  <2>1. Spent(w) /\ UNCHANGED <<jobs, uniqueLock, pending, stopped>>
    BY <1>8 DEF MarkFailed, Spent
  <2>2. CASE UNCHANGED msg /\ Move(w, "done")
    BY <2>1, <2>2, SpentMoveKeepsHand DEF Places, Claimed
  <2>3. ASSUME NEW code \in FailureClasses, NEW place \in {"done", "failed"}, Move(w, place),
               msg' = [msg EXCEPT ![m] = FailedRow(@, code)]
        PROVE  HandInv'
    <3>1. FailedRow(msg[m], code).state = "failed"
          /\ FailedRow(msg[m], code).attempt = msg[m].attempt
          /\ FailedRow(msg[m], code) \in MessageRow
      BY <1>3 DEF FailedRow, MessageRow, States
    <3>2. QED
      BY <1>2, <2>1, <2>3, <3>1, SpentMoveKeepsHand DEF Places, Settling, Claimed
  <2>4. QED
    BY <1>2, <1>8, <2>2, <2>3 DEF MarkFailed, CodesFor
<1>9. QED
  BY <1>4, <1>5, <1>6, <1>7, <1>8

(* A worker becomes idle, or a reserved job is offered again.              *)
LEMMA JobEndsKeepsHand ==
  ASSUME OnlyClaimedDie, TypeOK, Linked, TypeOK', HandInv, NEW w \in Workers,
         FinishJob(w) \/ JobThrew(w) \/ WorkerDies(w)
  PROVE  HandInv'
<1>1. /\ worker[w].pc # "idle" /\ worker' = [worker EXCEPT ![w] = IdleWorker]
      /\ UNCHANGED <<msg, pending, stopped>>
  BY DEF FinishJob, JobThrew, WorkerDies, deliveryVars
<1>2. PICK m \in Messages, j \in Jobs : m = worker[w].msg /\ j = worker[w].job
  BY <1>1 DEF Linked
<1>3. /\ OnQueue(j, m) /\ jobs[j].tries = worker[w].tries
      /\ \A v \in Workers \ {w} : worker[v].pc # "idle" => worker[v].job # j
  BY <1>1, <1>2, HeldJob
<1>4. /\ msg[m].state # "draft"
      /\ Spent(w) => msg[m].state # "queued"
      /\ msg[m].state = "queued" /\ ~AboutToClaim(w) =>
           worker[w].tries < MaxAttempts /\ worker[w].tries <= msg[m].attempt
      /\ worker[w].tries \in Nat /\ MaxAttempts \in Nat
  BY <1>1, <1>2, HeldRow, Counts
<1>5. /\ worker'[w] = IdleWorker /\ IdleWorker.pc = "idle"
      /\ \A v \in Workers \ {w} : worker'[v] = worker[v]
  BY <1>1 DEF TypeOK, IdleWorker
<1>6. /\ \A v \in Workers :
           \/ worker'[v] = worker[v]
           \/ worker'[v] = IdleWorker /\ worker[v].job = j
      /\ \A v \in Workers : worker'[v].pc # "idle" => worker'[v].job # j
  BY <1>2, <1>3, <1>5
<1>7. CASE FinishJob(w)
  <2>1. msg[m].state # "queued"  BY <1>4, <1>7 DEF FinishJob, Spent
  <2>2. Free(j) /\ uniqueLock' = uniqueLock \ {m}  BY <1>2, <1>7 DEF FinishJob
  <2>3. QED
    BY <1>1, <1>3, <1>6, <2>1, <2>2, FreeingKeepsHand
<1>8. CASE JobThrew(w)
  <2>1. ~AboutToClaim(w)  BY <1>8 DEF JobThrew, AboutToClaim
  <2>2. CASE worker[w].tries >= MaxAttempts
    <3>1. msg[m].state # "queued"  BY <1>4, <2>1, <2>2
    <3>2. Free(j) /\ uniqueLock' = uniqueLock \ {m}  BY <1>2, <1>8, <2>2 DEF JobThrew
    <3>3. QED
      BY <1>1, <1>3, <1>6, <3>1, <3>2, FreeingKeepsHand
  <2>3. CASE ~(worker[w].tries >= MaxAttempts)
    <3>1. /\ jobs' = [jobs EXCEPT ![j] = [status |-> "available", msg |-> m,
                                          tries |-> jobs[j].tries]]
          /\ UNCHANGED uniqueLock
      BY <1>2, <1>3, <1>8, <2>3 DEF JobThrew, Release
    <3>2. msg[m].state = "queued" =>
            jobs[j].tries < MaxAttempts /\ jobs[j].tries <= msg[m].attempt
      BY <1>3, <1>4, <2>1
    <3>3. QED
      BY <1>1, <1>3, <1>6, <3>1, <3>2, OfferingKeepsHand
  <2>4. QED
    BY <2>2, <2>3
<1>9. CASE WorkerDies(w)
  <2>1. /\ ~AboutToClaim(w) /\ UNCHANGED <<jobs, uniqueLock>>
    BY <1>9 DEF WorkerDies, AboutToClaim, OnlyClaimedDie
  <2>2. HoldsJob(w)' /\ SpentIsNotQueued(w)' /\ TriesAreAttempts(w)'
    BY <1>5 DEF HoldsJob, SpentIsNotQueued, Spent, TriesAreAttempts, Claimed
  <2>3. jobs[j].msg = m  BY <1>3 DEF OnQueue
  <2>4. msg[m].state = "queued" => Triable(j)'
    BY <1>1, <1>3, <1>4, <2>1, <2>3 DEF Triable
  <2>5. QED
    BY <1>1, <1>2, <1>4, <1>5, <2>1, <2>2, <2>4, WorkerStepKeepsHand
<1>10. QED
  BY <1>7, <1>8, <1>9

LEMMA RedeliverKeepsHand ==
  ASSUME OnlyClaimedDie, TypeOK, Linked, TypeOK', HandInv, NEW j \in Jobs, Redeliver(j)
  PROVE  HandInv'
<1>1. /\ jobs[j].status = "reserved" /\ \A w \in Workers : worker[w].job # j
      /\ jobs' = [jobs EXCEPT ![j].status = "available"]
      /\ UNCHANGED <<msg, uniqueLock, worker, pending, stopped>>
  BY DEF Redeliver, OnlyClaimedDie, deliveryVars
<1>2. PICK m \in Messages : m = jobs[j].msg  BY <1>1 DEF Linked
<1>3. OnQueue(j, m)  BY <1>1, <1>2 DEF OnQueue
<1>4. msg[m].state = "queued" => jobs[j].tries < MaxAttempts /\ jobs[j].tries <= msg[m].attempt
  BY <1>1, <1>3, TriableAlone
<1>5. jobs' = [jobs EXCEPT ![j] = [status |-> "available", msg |-> m, tries |-> jobs[j].tries]]
  <2>1. jobs[j] \in JobRow /\ jobs[j].msg = m  BY <1>2 DEF TypeOK
  <2>2. [jobs[j] EXCEPT !.status = "available"]
          = [status |-> "available", msg |-> m, tries |-> jobs[j].tries]
    BY <2>1 DEF JobRow
  <2>3. QED
    BY <1>1, <2>2
<1>6. QED
  BY <1>1, <1>3, <1>4, <1>5, OfferingKeepsHand

LEMMA NextKeepsHand ==
  ASSUME OnlyClaimedDie, TypeOK, Linked, TypeOK', HandInv, [Next]_vars
  PROVE  HandInv'
<1>1. ASSUME NEW m \in Messages,
             \/ RequestStep(m) \/ AdminStep(m) \/ StaleStep(m) \/ RepairStep(m)
             \/ ProviderDelivers(m) \/ ProviderBounces(m) \/ LockExpires(m)
      PROVE  HandInv'
  BY <1>1, RequestStepKeepsHand, RowStepKeepsHand
<1>2. ASSUME NEW w \in Workers,
             \/ \E j \in Jobs : Pop(w, j)
             \/ HandlerStep(w) \/ HandlerError(w) \/ WorkerDies(w)
      PROVE  HandInv'
  <2>1. CASE \E j \in Jobs : Pop(w, j)
    BY <2>1, PopKeepsHand
  <2>2. CASE Claim(w)
    BY <2>2, ClaimKeepsHand
  <2>3. CASE \/ StopCheck(w) \/ NothingToClaim(w) \/ StartAttempt(w)
             \/ RefuseBeforeTransport(w) \/ StampTransport(w) \/ Send(w)
    BY <2>3, HandlerStartKeepsHand
  <2>4. CASE \/ MarkSent(w) \/ CommitUsage(w) \/ CompleteAccepted(w) \/ Requeue(w)
             \/ CompleteTemporary(w) \/ Exhaust(w) \/ MarkFailed(w)
             \/ ReleaseUsage(w) \/ CompletePermanent(w)
    BY <2>4, HandlerEndKeepsHand
  <2>5. CASE FinishJob(w) \/ JobThrew(w) \/ WorkerDies(w)
    BY <2>5, JobEndsKeepsHand
  <2>6. CASE HandlerError(w)
    BY <2>6 DEF HandlerError, OnlyClaimedDie
  <2>7. QED
    BY <1>2, <2>1, <2>2, <2>3, <2>4, <2>5, <2>6 DEF HandlerStep
<1>3. ASSUME NEW j \in Jobs, Redeliver(j) PROVE HandInv'
  BY <1>3, RedeliverKeepsHand
<1>4. CASE EmergencyStop \/ EmergencyResume
  BY <1>4 DEF EmergencyStop, EmergencyResume, OnlyClaimedDie, HandInv
<1>5. CASE UNCHANGED vars
  <2>1. RowsAge  BY <1>5, Counts DEF RowsAge, vars
  <2>2. QED
    BY <1>5, <2>1, AgingKeepsHand DEF vars, queueVars
<1>6. QED
  BY <1>1, <1>2, <1>3, <1>4, <1>5 DEF Next

LEMMA InitInHand == Init => HandInv
<1> SUFFICES ASSUME Init PROVE HandInv
  OBVIOUS
<1>1. ~stopped /\ \A w \in Workers : HoldsJob(w) /\ SpentIsNotQueued(w) /\ TriesAreAttempts(w)
  BY DEF Init, IdleWorker, HoldsJob, SpentIsNotQueued, Spent, TriesAreAttempts, Claimed
<1>2. LockIsJob  BY DEF Init, NoJobRow, LockIsJob, OnQueue
<1>3. QueuedIsTriable /\ DraftsAreNew  BY DEF Init, QueuedIsTriable, DraftsAreNew
<1>4. QED
  BY <1>1, <1>2, <1>3 DEF HandInv

LEMMA HandImplies == ASSUME HandInv PROVE QueuedIsInHand
<1>1. ASSUME NEW m \in Messages, msg[m].state = "queued", m \in uniqueLock
      PROVE  \E j \in Jobs : WillClaim(j, m)
  <2>1. PICK j \in Jobs : OnQueue(j, m)  BY <1>1 DEF HandInv, LockIsJob
  <2>2. Triable(j)  BY <1>1, <2>1 DEF HandInv, QueuedIsTriable
  <2>3. QED
    BY <2>1, <2>2 DEF Triable, WillClaim
<1>2. QED
  BY <1>1 DEF QueuedIsInHand, HandInv, LockIsJob, QueuedIsTriable

(* A queued message is never forgotten, whatever users, admins, the        *)
(* provider and the reconcilers do, and wherever a worker past its claim   *)
(* dies: its dispatch is still to come, or its job will be claimed, and no *)
(* lock outlives its job.                                                  *)
THEOREM QueuedIsExpected == ASSUME OnlyClaimedDie PROVE Spec => []QueuedIsInHand
<1>1. Init => HandInv
  BY InitInHand
<1>2. TypeOK /\ Linked /\ TypeOK' /\ HandInv /\ [Next]_vars => HandInv'
  BY NextKeepsHand
<1>3. HandInv => QueuedIsInHand
  BY HandImplies
<1>4. QED
  BY <1>1, <1>2, <1>3, TypeCorrect, PTL DEF Spec

=============================================================================
