------------------------- MODULE EventSafety_proofs -------------------------
(***************************************************************************)
(* The safety of provider events for any number of messages, events        *)
(* and providers, whatever webhook requests and jobs are lost or       *)
(* repeated: EInv is inductive, and ReportInv and ReportsAreCarried on top *)
(* of it.  Steps of the delivery side and of the webhook leave event rows  *)
(* alone; every step of the processor is a case of Apply, treated once.    *)
(***************************************************************************)
EXTENDS EventInvariant, FiniteSetTheorems, TLAPS

Row == [state : MessageStates, attempt : 0 .. AttemptBound, ticket : Tickets \cup {NoTicket}]

LEMMA TransitionType ==
  ASSUME NEW type \in EventTypes, NEW state \in MessageStates
  PROVE  /\ Transition(type, state) \in Outcomes \ {"unmatched"}
         /\ Transition(type, state) = "delivered" => type = "delivered" /\ state = "sent"
         /\ Transition(type, state) = "failed" => type = "bounced" /\ state = "sent"
BY DEF Transition, EventTypes, MessageStates, Outcomes

(* Whatever resolveMessage returns carries the event's ticket.             *)
LEMMA ResolvedMatches ==
  ASSUME NEW e \in Events, ResolveMessage(e) # NoMessage
  PROVE  /\ ResolveMessage(e) \in Messages
         /\ msg[ResolveMessage(e)].ticket = said[e].ticket
<1>1. Cardinality(Matches(e)) = 1
  BY DEF ResolveMessage
<1>2. Matches(e) # {}
  BY <1>1, FS_EmptySet
<1>3. \E m \in Messages : m \in Matches(e)
  BY <1>2 DEF Matches
<1>4. ResolveMessage(e) \in Matches(e)
  BY <1>1, <1>3 DEF ResolveMessage
<1>5. QED
  BY <1>4 DEF Matches

-----------------------------------------------------------------------------
(* Steps that leave event rows and their effects alone.                    *)

(* The ticket of a stored event is a real one.                             *)
LEMMA StoredTicket ==
  ASSUME EInv, NEW e \in Events, applied[e] # {} \/ row[e].msg # NoMessage
  PROVE  row[e].stored /\ said[e] \in Reports /\ said[e].ticket # NoTicket
<1>1. row[e].msg # NoMessage
  BY DEF EInv, OneEffectPerEvent, RowsHaveReports
<1>2. row[e].stored /\ said[e] \in Reports
  BY <1>1 DEF EInv, RowsHaveReports, TypeOK, EventRow
<1>3. QED
  BY <1>2, NoValueAssumption DEF Reports, Tickets

(* A step that only adds to what rows have carried keeps events with their *)
(* messages.                                                               *)
LEMMA CarriedKept ==
  ASSUME EInv, UNCHANGED <<said, row, applied>>,
         \A n \in Messages : carried[n] \subseteq carried'[n]
  PROVE  RightMessage'
<1>1. ASSUME NEW e \in Events, NEW change \in applied[e]
      PROVE  said[e].ticket \in carried'[change[1]]
  <2>1. change[1] \in Messages
    BY DEF EInv, TypeOK
  <2>2. QED
    BY <2>1 DEF EInv, RightMessage
<1>2. ASSUME NEW e \in Events, row[e].msg # NoMessage
      PROVE  said[e].ticket \in carried'[row[e].msg]
  <2>1. row[e].msg \in Messages
    BY <1>2 DEF EInv, TypeOK, EventRow
  <2>2. QED
    BY <1>2, <2>1 DEF EInv, RightMessage
<1>3. QED
  BY <1>1, <1>2 DEF RightMessage

LEMMA DeliveryStepSafe ==
  ASSUME EInv, NEW m \in Messages, DeliveryStep(m)
  PROVE  EInv'
<1>t. TypeOK
  BY DEF EInv
<1>1. UNCHANGED <<said, webhookVars, eventJobs, row, listed, applied>>
  BY DEF DeliveryStep, Claim, Accept, MarkSent, EndUntried, Refuse, Retry,
         Cancel, Unsuppress
<1>2. CASE Accept(m)
  <2>1. /\ msg[m].attempt \in AttemptNumbers
        /\ UNCHANGED <<msg, suppressed, carried>>
    BY <1>2 DEF Accept, EInv, SendingHasAttempt
  <2>2. PICK p \in Providers : ticket' = [ticket EXCEPT ![m][msg[m].attempt] = <<p, m>>]
    BY <1>2 DEF Accept
  <2>3. <<p, m>> \in Tickets
    BY DEF Tickets
  <2>4. ticket' \in [Messages -> [AttemptNumbers -> Tickets \cup {NoTicket}]]
    BY <1>t, <2>1, <2>2, <2>3 DEF TypeOK
  <2>5. TypeOK'
    BY <1>t, <1>1, <2>1, <2>4 DEF TypeOK, webhookVars
  <2>6. TicketsAreOwn'
    <3>1. \A n \in Messages : \A k \in AttemptNumbers :
            ticket'[n][k] = ticket[n][k] \/ (n = m /\ ticket'[n][k] = <<p, m>>)
      BY <1>t, <2>1, <2>2 DEF TypeOK
    <3>2. QED
      BY <2>1, <3>1 DEF EInv, TicketsAreOwn
  <2>7. RightMessage'
    BY <1>1, <2>1, CarriedKept
  <2>8. /\ SendingHasAttempt' /\ RowsHaveReports' /\ ListedHasRoom'
        /\ OneEffectPerEvent' /\ DeliveredIsReported'
    BY <1>1, <2>1 DEF EInv, SendingHasAttempt, RowsHaveReports, ListedHasRoom,
       OneEffectPerEvent, DeliveredIsReported, webhookVars
  <2>9. QED
    BY <2>5, <2>6, <2>7, <2>8 DEF EInv
<1>3. CASE ~Accept(m)
  <2>1. UNCHANGED ticket /\ suppressed' \subseteq Messages
    BY <1>t, <1>3 DEF DeliveryStep, Claim, MarkSent, EndUntried, Refuse, Retry,
         Cancel, Unsuppress, TypeOK
  <2>0. /\ msg \in [Messages -> Row]
        /\ carried \in [Messages -> SUBSET Tickets]
        /\ \A n \in Messages : msg[n].state = "sending" => msg[n].attempt \in AttemptNumbers
        /\ \A n \in Messages : \A t \in carried[n] : t[2] = n
        /\ \A n \in Messages : msg[n].ticket # NoTicket => msg[n].ticket \in carried[n]
    BY DEF EInv, TypeOK, SendingHasAttempt, TicketsAreOwn, Row
  <2>2. /\ msg' \in [Messages -> Row]
        /\ \A n \in Messages :
             /\ msg'[n].state = "delivered" => msg'[n] = msg[n]
             /\ msg'[n].state = "sending" => msg'[n].attempt \in AttemptNumbers
    <3> USE BoundsAssumption DEF Row, MessageStates
    <3>1. CASE Claim(m)
      <4>1. msg[m].attempt + 1 \in AttemptNumbers
        BY <2>0, <3>1 DEF Claim, AttemptNumbers
      <4>2. QED
        BY <2>0, <3>1, <4>1 DEF Claim, AttemptNumbers
    <3>2. CASE MarkSent(m)
      <4>1. msg[m].attempt \in AttemptNumbers
        BY <2>0, <3>2 DEF MarkSent
      <4>2. ticket[m][msg[m].attempt] \in Tickets \cup {NoTicket}
        BY <1>t, <4>1 DEF TypeOK
      <4>3. PICK t \in Tickets \cup {NoTicket} :
              msg' = [msg EXCEPT ![m].state = "sent", ![m].ticket = t]
        BY <3>2, <4>2 DEF MarkSent
      <4>4. /\ \A n \in Messages \ {m} : msg'[n] = msg[n]
            /\ msg'[m].state = "sent" /\ msg'[m].attempt = msg[m].attempt
            /\ msg' \in [Messages -> Row]
        <5>1. [msg[m] EXCEPT !.state = "sent", !.ticket = t] \in Row
          <6>1. msg[m] \in Row
            BY <2>0
          <6>2. QED
            BY <6>1
        <5>2. msg' = [msg EXCEPT ![m] = [msg[m] EXCEPT !.state = "sent", !.ticket = t]]
          BY <4>3
        <5>3. msg'[m] = [msg[m] EXCEPT !.state = "sent", !.ticket = t]
          BY <2>0, <5>2
        <5>4. QED
          BY <2>0, <5>1, <5>2, <5>3
      <4>5. QED
        BY <2>0, <4>1, <4>4
    <3>3. CASE EndUntried(m) \/ Retry(m) \/ Cancel(m)
      <4>1. PICK s \in {"failed", "queued", "cancelled"} : msg' = [msg EXCEPT ![m].state = s]
        BY <3>3 DEF EndUntried, Retry, Cancel
      <4>2. QED
        BY <2>0, <4>1
    <3>r. CASE Refuse(m)
      <4>1. PICK s \in {"failed", "queued"}, t \in Tickets \cup {NoTicket} :
              msg' = [msg EXCEPT ![m].state = s, ![m].ticket = t]
        BY <3>r DEF Refuse, Tickets
      <4>2. /\ \A n \in Messages \ {m} : msg'[n] = msg[n]
            /\ msg'[m].state = s /\ msg' \in [Messages -> Row]
        <5>1. [msg[m] EXCEPT !.state = s, !.ticket = t] \in Row
          <6>1. msg[m] \in Row
            BY <2>0
          <6>2. QED
            BY <6>1
        <5>2. msg' = [msg EXCEPT ![m] = [msg[m] EXCEPT !.state = s, !.ticket = t]]
          BY <4>1
        <5>3. msg'[m] = [msg[m] EXCEPT !.state = s, !.ticket = t]
          BY <2>0, <5>2
        <5>4. QED
          BY <2>0, <5>1, <5>2, <5>3
      <4>3. QED
        BY <2>0, <4>2
    <3>4. CASE Unsuppress(m)
      BY <2>0, <3>4 DEF Unsuppress
    <3>5. QED
      BY <1>3, <3>1, <3>2, <3>3, <3>r, <3>4 DEF DeliveryStep
  <2>c. /\ carried' \in [Messages -> SUBSET Tickets]
        /\ \A n \in Messages : carried[n] \subseteq carried'[n]
        /\ \A n \in Messages : \A t \in carried'[n] : t[2] = n
        /\ \A n \in Messages : msg'[n].ticket # NoTicket => msg'[n].ticket \in carried'[n]
    <3>1. CASE MarkSent(m)
      <4>1. PICK t : t = ticket[m][msg[m].attempt]
        OBVIOUS
      <4>2. t \in Tickets /\ t[2] = m
        <5>1. msg[m].attempt \in AttemptNumbers /\ t # NoTicket
          BY <2>0, <3>1, <4>1 DEF MarkSent
        <5>2. QED
          BY <1>t, <4>1, <5>1 DEF TypeOK, EInv, TicketsAreOwn
      <4>3. /\ msg' = [msg EXCEPT ![m].state = "sent", ![m].ticket = t]
            /\ carried' = [carried EXCEPT ![m] = @ \cup {t}]
        BY <3>1, <4>1 DEF MarkSent
      <4>4. /\ carried'[m] = carried[m] \cup {t}
            /\ \A n \in Messages \ {m} : carried'[n] = carried[n]
            /\ carried' \in [Messages -> SUBSET Tickets]
        <5>1. carried[m] \cup {t} \in SUBSET Tickets
          BY <2>0, <4>2
        <5>2. QED
          BY <2>0, <4>3, <5>1
      <4>5. /\ msg'[m].ticket = t
            /\ \A n \in Messages \ {m} : msg'[n] = msg[n]
        BY <2>0, <4>3 DEF Row
      <4>6. \A n \in Messages : carried[n] \subseteq carried'[n]
        BY <4>4
      <4>7. ASSUME NEW n \in Messages, NEW u \in carried'[n] PROVE u[2] = n
        BY <2>0, <4>2, <4>4
      <4>8. ASSUME NEW n \in Messages, msg'[n].ticket # NoTicket
            PROVE  msg'[n].ticket \in carried'[n]
        BY <2>0, <4>4, <4>5, <4>8
      <4>9. QED
        BY <4>4, <4>6, <4>7, <4>8
    <3>2. CASE Refuse(m)
      <4>1. PICK t \in Tickets \cup {NoTicket}, s \in {"failed", "queued"} :
              /\ t # NoTicket => t[2] = m
              /\ msg' = [msg EXCEPT ![m].state = s, ![m].ticket = t]
              /\ carried' = [carried EXCEPT ![m] = @ \cup ({t} \ {NoTicket})]
        <5>1. PICK p \in Providers, s \in {"failed", "queued"} :
                LET named == IF msg[m].ticket = NoTicket THEN NoTicket ELSE <<p, m>>
                IN /\ msg' = [msg EXCEPT ![m].state = s, ![m].ticket = named]
                   /\ carried' = [carried EXCEPT ![m] = @ \cup ({named} \ {NoTicket})]
          BY <3>2 DEF Refuse
        <5>2. <<p, m>> \in Tickets /\ <<p, m>>[2] = m
          BY DEF Tickets
        <5>3. CASE msg[m].ticket = NoTicket
          BY <5>1, <5>3
        <5>4. CASE msg[m].ticket # NoTicket
          BY <5>1, <5>2, <5>4
        <5>5. QED
          BY <5>3, <5>4
      <4>2. /\ carried'[m] = carried[m] \cup ({t} \ {NoTicket})
            /\ \A n \in Messages \ {m} : carried'[n] = carried[n]
            /\ carried' \in [Messages -> SUBSET Tickets]
        <5>1. carried[m] \cup ({t} \ {NoTicket}) \in SUBSET Tickets
          BY <2>0
        <5>2. QED
          BY <2>0, <4>1, <5>1
      <4>3. /\ msg'[m].ticket = t
            /\ \A n \in Messages \ {m} : msg'[n] = msg[n]
        BY <2>0, <4>1 DEF Row
      <4>4. ASSUME NEW n \in Messages, NEW u \in carried'[n] PROVE u[2] = n
        BY <2>0, <4>1, <4>2
      <4>5. ASSUME NEW n \in Messages, msg'[n].ticket # NoTicket
            PROVE  msg'[n].ticket \in carried'[n]
        BY <2>0, <4>2, <4>3, <4>5
      <4>6. \A n \in Messages : carried[n] \subseteq carried'[n]
        BY <4>2
      <4>7. QED
        BY <4>2, <4>4, <4>5, <4>6
    <3>3. CASE ~MarkSent(m) /\ ~Refuse(m)
      <4>1. /\ UNCHANGED carried
            /\ \A n \in Messages : msg'[n].ticket = msg[n].ticket
        <5>1. CASE UNCHANGED msg
          BY <1>3, <3>3, <5>1 DEF DeliveryStep, Claim, EndUntried, Retry, Cancel, Unsuppress
        <5>2. CASE Claim(m) \/ EndUntried(m) \/ Retry(m) \/ Cancel(m)
          BY <2>0, <5>2 DEF Claim, EndUntried, Retry, Cancel, Row
        <5>3. QED
          BY <1>3, <3>3, <5>1, <5>2 DEF DeliveryStep, Unsuppress
      <4>2. QED
        BY <2>0, <4>1
    <3>4. QED
      BY <3>1, <3>2, <3>3
  <2>3. TypeOK'
    BY <1>t, <1>1, <2>1, <2>2, <2>c DEF TypeOK, Row, webhookVars
  <2>4. TicketsAreOwn' /\ SendingHasAttempt'
    BY <2>1, <2>2, <2>c DEF EInv, TicketsAreOwn, SendingHasAttempt
  <2>5. RightMessage'
    BY <1>1, <2>c, CarriedKept
  <2>6. DeliveredIsReported'
    BY <1>1, <2>2 DEF EInv, DeliveredIsReported
  <2>7. RowsHaveReports' /\ ListedHasRoom' /\ OneEffectPerEvent'
    BY <1>1 DEF EInv, RowsHaveReports, ListedHasRoom, OneEffectPerEvent, webhookVars
  <2>8. QED
    BY <2>3, <2>4, <2>5, <2>6, <2>7 DEF EInv
<1>4. QED
  BY <1>2, <1>3

(* The provider, the webhook, and the reconcilers' bookkeeping.            *)
LEMMA CarrierStepSafe ==
  ASSUME EInv, NEW e \in Events, NEW p \in Passes,
         \/ Emit(e) \/ WebhookStep(e) \/ DispatchFails(e) \/ ReplayKeyExpires(e)
         \/ List(p, e) \/ FinalizeExpiredUnmatched(e) \/ Age(e)
  PROVE  EInv'
<1>t. TypeOK
  BY DEF EInv
<1>1. UNCHANGED <<messageVars, applied>>
  BY DEF Emit, WebhookStep, Post, PostReplayed, DispatchEvent, DispatchFails,
         ReplayKeyExpires, List, FinalizeExpiredUnmatched, Age
<1>2. CASE Emit(e)
  <2>1. said[e] = NoReport /\ said[e] \notin Reports
    BY <1>2, NoReportAssumption DEF Emit
  <2>2. PICK report \in Reports : said' = [said EXCEPT ![e] = report]
    <3>1. PICK m \in Messages, k \in AttemptNumbers, type \in EventTypes :
            /\ ticket[m][k] # NoTicket
            /\ said' = [said EXCEPT ![e] = [type |-> type, ticket |-> ticket[m][k],
                                            attempt |-> k]]
      BY <1>2 DEF Emit
    <3>2. ticket[m][k] \in Tickets
      BY <1>t, <3>1 DEF TypeOK
    <3>3. [type |-> type, ticket |-> ticket[m][k], attempt |-> k] \in Reports
      BY <3>2 DEF Reports
    <3>4. QED
      BY <3>1, <3>3
  <2>3. /\ posting' = posting \cup {e}
        /\ UNCHANGED <<msg, suppressed, carried, ticket, replayKeys, requests, died, eventJobs,
                      row, listed>>
    BY <1>1, <1>2 DEF Emit, messageVars
  <2>4. /\ ~row[e].stored /\ row[e].msg = NoMessage /\ applied[e] = {}
    <3>0. RowsHaveReports
      BY DEF EInv
    <3>1. ~row[e].stored /\ row[e].msg = NoMessage
      BY <3>0, <2>1 DEF RowsHaveReports
    <3>2. QED
      BY <3>1, <2>1, StoredTicket
  <2>5. TypeOK'
    BY <1>t, <1>1, <2>2, <2>3 DEF TypeOK
  <2>6. \A f \in Events \ {e} : said'[f] = said[f]
    BY <1>t, <2>2 DEF TypeOK
  <2>7. said'[e] \in Reports
    BY <1>t, <2>2 DEF TypeOK
  <2>8. RowsHaveReports'
    BY <2>3, <2>6, <2>7 DEF EInv, RowsHaveReports
  <2>9. RightMessage'
    BY <1>1, <2>3, <2>4, <2>6 DEF EInv, RightMessage
  <2>10. DeliveredIsReported'
    <3>1. ASSUME NEW m \in Messages, msg[m].state = "delivered"
          PROVE  \E f \in Events \ {e} : /\ said[f] # NoReport
                                         /\ said[f].type = "delivered"
                                         /\ row[f].outcome = "delivered"
                                         /\ <<m, msg[m].attempt>> \in applied[f]
      BY <2>4, <3>1 DEF EInv, DeliveredIsReported
    <3>2. QED
      BY <1>1, <2>3, <2>6, <3>1 DEF DeliveredIsReported
  <2>11. TicketsAreOwn' /\ SendingHasAttempt' /\ ListedHasRoom' /\ OneEffectPerEvent'
    BY <1>1, <2>3 DEF EInv, TicketsAreOwn, SendingHasAttempt, ListedHasRoom,
       OneEffectPerEvent
  <2>12. QED
    BY <2>5, <2>8, <2>9, <2>10, <2>11 DEF EInv
<1>3. CASE ~Emit(e)
  <2>1. UNCHANGED said
    BY <1>3 DEF WebhookStep, Post, PostReplayed, DispatchEvent, DispatchFails,
       ReplayKeyExpires, List, FinalizeExpiredUnmatched, Age
  <2>2. /\ posting' \subseteq posting
        /\ requests' \cup eventJobs' \subseteq requests \cup eventJobs \cup posting
        /\ replayKeys' \subseteq Events /\ died' \subseteq Events /\ listed' \subseteq Passes \X Events
    BY <1>t, <1>3 DEF WebhookStep, Post, PostReplayed, DispatchEvent, DispatchFails,
       ReplayKeyExpires, List, FinalizeExpiredUnmatched, Age, webhookVars, TypeOK
  <2>3. /\ row' \in [Events -> EventRow]
        /\ \A f \in Events :
             /\ row'[f].stored = row[f].stored /\ row'[f].msg = row[f].msg
             /\ row'[f].outcome = row[f].outcome /\ row'[f].tries = row[f].tries
    <3>1. CASE UNCHANGED row
      BY <1>t, <3>1 DEF TypeOK
    <3>2. CASE \/ row' = [row EXCEPT ![e].terminal = TRUE]
               \/ row' = [row EXCEPT ![e].aged = TRUE]
      <4>1. row \in [Events -> EventRow]
        BY <1>t DEF TypeOK
      <4>2. CASE row' = [row EXCEPT ![e].terminal = TRUE]
        BY <4>1, <4>2 DEF EventRow
      <4>3. CASE row' = [row EXCEPT ![e].aged = TRUE]
        BY <4>1, <4>3 DEF EventRow
      <4>4. QED
        BY <3>2, <4>2, <4>3
    <3>3. QED
      BY <1>3, <3>1, <3>2 DEF WebhookStep, Post, PostReplayed, DispatchEvent, DispatchFails,
         ReplayKeyExpires, List, FinalizeExpiredUnmatched, Age
  <2>4. TypeOK'
    BY <1>t, <1>1, <2>1, <2>2, <2>3 DEF TypeOK, messageVars
  <2>5. RowsHaveReports'
    BY <2>1, <2>2, <2>3 DEF EInv, RowsHaveReports
  <2>6. ListedHasRoom'
    <3>1. CASE List(p, e)
      <4>1. p = "out_of_order" => row[e].tries < ReconcileLimit
        BY <3>1 DEF List, Selects, Matchers
      <4>2. listed' = listed \cup {<<p, e>>}
        BY <3>1 DEF List
      <4>3. QED
        BY <2>3, <4>1, <4>2 DEF EInv, ListedHasRoom
    <3>2. CASE ~List(p, e)
      <4>1. listed' \subseteq listed
        BY <1>3, <3>2 DEF WebhookStep, Post, PostReplayed, DispatchEvent, DispatchFails,
           ReplayKeyExpires, FinalizeExpiredUnmatched, Age
      <4>2. QED
        BY <2>3, <4>1 DEF EInv, ListedHasRoom
    <3>3. QED
      BY <3>1, <3>2
  <2>7. RightMessage' /\ OneEffectPerEvent' /\ DeliveredIsReported'
    BY <1>1, <2>1, <2>3 DEF EInv, RightMessage, OneEffectPerEvent, DeliveredIsReported,
       messageVars
  <2>8. TicketsAreOwn' /\ SendingHasAttempt'
    BY <1>1 DEF EInv, TicketsAreOwn, SendingHasAttempt, messageVars
  <2>9. QED
    BY <2>4, <2>5, <2>6, <2>7, <2>8 DEF EInv
<1>4. QED
  BY <1>2, <1>3

-----------------------------------------------------------------------------
(* The processor.                                                          *)

(* A stored event whose row has no message, or was ignored for its state,  *)
(* has moved nothing yet, so applying it keeps the invariant.              *)
LEMMA ApplySafe ==
  ASSUME EInv, NEW e \in Events, NEW m \in Messages,
         NEW tries \in 0 .. ReconcileLimit, Apply(e, m, tries),
         UNCHANGED <<carried, ticket, said, webhookVars>>,
         eventJobs' \subseteq eventJobs, listed' \subseteq listed,
         said[e] \in Reports, applied[e] = {},
         said[e].ticket \in carried[m],
         <<"out_of_order", e>> \in listed' => tries < ReconcileLimit
  PROVE  EInv'
<1> DEFINE outcome == Transition(said[e].type, msg[m].state)
<1> DEFINE moves == outcome \in {"delivered", "failed"}
<1>t. TypeOK
  BY DEF EInv
<1>1. /\ msg \in [Messages -> Row]
      /\ row \in [Events -> EventRow]
      /\ said[e].type \in EventTypes /\ msg[m].state \in MessageStates
  BY <1>t DEF TypeOK, Row, Reports
<1>2. /\ outcome \in Outcomes \ {"unmatched"}
      /\ outcome = "delivered" => said[e].type = "delivered"
      /\ moves => msg[m].state = "sent"
  BY <1>1, TransitionType
<1>3. /\ msg' = [msg EXCEPT ![m].state = IF moves THEN outcome ELSE @]
      /\ suppressed' \subseteq suppressed \cup {m}
      /\ applied' = IF moves THEN [applied EXCEPT ![e] = @ \cup {<<m, msg[m].attempt>>}]
                             ELSE applied
      /\ row' = [row EXCEPT ![e] = [@ EXCEPT !.stored = TRUE, !.msg = m,
                                     !.outcome = outcome, !.tries = tries]]
  BY DEF Apply
<1> HIDE DEF outcome
<1>4. /\ msg' \in [Messages -> Row]
      /\ \A n \in Messages : msg'[n].attempt = msg[n].attempt /\ msg'[n].ticket = msg[n].ticket
      /\ \A n \in Messages \ {m} : msg'[n].state = msg[n].state
      /\ msg'[m].state = IF moves THEN outcome ELSE msg[m].state
  BY <1>1, <1>3 DEF Row, MessageStates
<1>5. /\ row' \in [Events -> EventRow]
      /\ \A f \in Events \ {e} : row'[f] = row[f]
      /\ row'[e].stored /\ row'[e].msg = m /\ row'[e].outcome = outcome /\ row'[e].tries = tries
  <2>1. [row[e] EXCEPT !.stored = TRUE, !.msg = m, !.outcome = outcome, !.tries = tries]
          \in EventRow
    BY <1>1, <1>2 DEF EventRow
  <2>2. QED
    BY <1>1, <1>3, <2>1 DEF EventRow
<1>6. /\ \A f \in Events \ {e} : applied'[f] = applied[f]
      /\ applied'[e] = IF moves THEN {<<m, msg[m].attempt>>} ELSE {}
  BY <1>t, <1>3 DEF TypeOK
<1>7. TypeOK'
  <2>1. applied' \in [Events -> SUBSET (Messages \X (0 .. AttemptBound))]
    <3>1. msg[m].attempt \in 0 .. AttemptBound
      BY <1>1 DEF Row
    <3>2. QED
      BY <1>t, <1>3, <3>1 DEF TypeOK
  <2>2. /\ suppressed' \subseteq Messages /\ eventJobs' \subseteq Events
        /\ listed' \subseteq Passes \X Events
    BY <1>t, <1>3 DEF TypeOK
  <2>3. QED
    BY <1>t, <1>4, <1>5, <2>1, <2>2 DEF TypeOK, Row, webhookVars
<1>8. TicketsAreOwn' /\ SendingHasAttempt'
  BY <1>2, <1>4 DEF EInv, TicketsAreOwn, SendingHasAttempt
<1>9. RowsHaveReports'
  <2>1. ASSUME NEW f \in Events \ {e}
        PROVE  /\ f \in posting' \cup requests' \cup eventJobs' \/ row'[f].stored
                    => said'[f] \in Reports
               /\ ~row'[f].stored => row'[f].msg = NoMessage
               /\ row'[f].msg = NoMessage => row'[f].outcome = "unmatched" /\ row'[f].tries = 0
    BY <1>5 DEF EInv, RowsHaveReports, webhookVars
  <2>2. m # NoMessage
    BY NoValueAssumption
  <2>3. QED
    BY <1>5, <2>1, <2>2 DEF RowsHaveReports
<1>10. ListedHasRoom'
  BY <1>5 DEF EInv, ListedHasRoom
<1>11. RightMessage'
  <2>1. ASSUME NEW f \in Events \ {e}
        PROVE  /\ \A change \in applied'[f] : said'[f].ticket \in carried'[change[1]]
               /\ row'[f].msg # NoMessage => said'[f].ticket \in carried'[row'[f].msg]
    BY <1>5, <1>6 DEF EInv, RightMessage
  <2>2. /\ \A change \in applied'[e] : said'[e].ticket \in carried'[change[1]]
        /\ said'[e].ticket \in carried'[row'[e].msg]
    BY <1>5, <1>6
  <2>3. QED
    BY <2>1, <2>2 DEF RightMessage
<1>12. OneEffectPerEvent'
  <2>1. /\ \A one, other \in applied'[e] : one = other
        /\ applied'[e] # {} => row'[e].outcome \in {"delivered", "failed"}
    BY <1>5, <1>6
  <2>2. ASSUME NEW f \in Events \ {e}
        PROVE  /\ \A one, other \in applied'[f] : one = other
               /\ applied'[f] # {} => row'[f].outcome \in {"delivered", "failed"}
    BY <1>5, <1>6 DEF EInv, OneEffectPerEvent
  <2>3. QED
    BY <2>1, <2>2 DEF OneEffectPerEvent
<1>13. DeliveredIsReported'
  <2>1. ASSUME NEW n \in Messages, msg'[n].state = "delivered"
        PROVE  \E f \in Events : /\ said'[f] # NoReport
                                 /\ said'[f].type = "delivered"
                                 /\ row'[f].outcome = "delivered"
                                 /\ <<n, msg'[n].attempt>> \in applied'[f]
    <3>1. CASE msg[n].state = "delivered"
      <4>1. PICK f \in Events : /\ said[f] # NoReport
                                /\ said[f].type = "delivered"
                                /\ row[f].outcome = "delivered"
                                /\ <<n, msg[n].attempt>> \in applied[f]
        BY <3>1 DEF EInv, DeliveredIsReported
      <4>2. f # e
        BY <4>1
      <4>3. QED
        BY <1>4, <1>5, <1>6, <4>1, <4>2
    <3>2. CASE msg[n].state # "delivered"
      <4>1. n = m /\ moves /\ outcome = "delivered"
        BY <1>4, <2>1, <3>2
      <4>2. <<n, msg'[n].attempt>> \in applied'[e]
        BY <1>4, <1>6, <4>1
      <4>3. said[e] # NoReport /\ said[e].type = "delivered"
        BY <1>2, <4>1, NoReportAssumption
      <4>4. QED
        BY <1>5, <4>1, <4>2, <4>3
    <3>3. QED
      BY <3>1, <3>2
  <2>2. QED
    BY <2>1 DEF DeliveredIsReported
<1>14. QED
  BY <1>7, <1>8, <1>9, <1>10, <1>11, <1>12, <1>13 DEF EInv

LEMMA UnmatchedMovedNothing ==
  ASSUME EInv, NEW e \in Events,
         row[e].msg = NoMessage \/ row[e].outcome = "ignored_state"
  PROVE  applied[e] = {}
BY DEF EInv, OneEffectPerEvent, RowsHaveReports

LEMMA ProcessorStepSafe ==
  ASSUME EInv, NEW e \in Events, NEW p \in Passes,
         Ingest(e) \/ ReconcileUnmatched(p, e) \/ ReconcileOutOfOrder(p, e)
  PROVE  EInv'
<1>t. TypeOK
  BY DEF EInv
<1>0. /\ UNCHANGED <<carried, ticket, said, webhookVars>>
      /\ eventJobs' \subseteq eventJobs /\ listed' \subseteq listed
  BY DEF Ingest, FinishEventJob, ReconcileUnmatched, ReconcileOutOfOrder
<1>1. e \in eventJobs \/ row[e].stored => said[e] \in Reports
  BY DEF EInv, RowsHaveReports
<1>2. ASSUME said[e] \in Reports, ResolveMessage(e) # NoMessage
      PROVE
        /\ ResolveMessage(e) \in Messages
        /\ said[e].ticket \in carried[ResolveMessage(e)]
  <2>1. said[e].ticket # NoTicket
    BY <1>2, NoValueAssumption DEF Reports, Tickets
  <2>2. QED
    BY <1>2, <2>1, ResolvedMatches DEF EInv, TicketsAreOwn
<1>3. CASE UNCHANGED <<msg, suppressed, row, applied>>
  <2>1. TypeOK'
    BY <1>t, <1>0, <1>3 DEF TypeOK, webhookVars
  <2>2. QED
    BY <1>0, <1>3, <2>1 DEF EInv, TicketsAreOwn, SendingHasAttempt, RowsHaveReports,
       ListedHasRoom, RightMessage, OneEffectPerEvent, DeliveredIsReported, webhookVars
<1>4. CASE /\ said[e] \in Reports
           /\ row' = [row EXCEPT ![e].stored = TRUE]
           /\ UNCHANGED <<msg, suppressed, applied>>
  <2>1. /\ row' \in [Events -> EventRow]
        /\ row'[e].stored
        /\ \A f \in Events :
             /\ f # e => row'[f].stored = row[f].stored
             /\ row'[f].msg = row[f].msg
             /\ row'[f].outcome = row[f].outcome /\ row'[f].tries = row[f].tries
    <3>1. row \in [Events -> EventRow]
      BY <1>t DEF TypeOK
    <3>2. QED
      BY <3>1, <1>4 DEF EventRow
  <2>2. TypeOK'
    BY <1>t, <1>0, <1>4, <2>1 DEF TypeOK, webhookVars
  <2>3. RowsHaveReports'
    BY <1>0, <1>4, <2>1 DEF EInv, RowsHaveReports, webhookVars
  <2>4. ListedHasRoom'
    BY <1>0, <2>1 DEF EInv, ListedHasRoom
  <2>5. RightMessage' /\ OneEffectPerEvent' /\ DeliveredIsReported'
    BY <1>0, <1>4, <2>1 DEF EInv, RightMessage, OneEffectPerEvent, DeliveredIsReported
  <2>6. TicketsAreOwn' /\ SendingHasAttempt'
    BY <1>0, <1>4 DEF EInv, TicketsAreOwn, SendingHasAttempt
  <2>7. QED
    BY <2>2, <2>3, <2>4, <2>5, <2>6 DEF EInv
<1>5. CASE Ingest(e)
  <2>0. said[e] \in Reports
    BY <1>1, <1>5 DEF Ingest
  <2>1. CASE row[e].stored \/ ResolveMessage(e) = NoMessage
    BY <1>3, <1>4, <1>5, <2>0, <2>1 DEF Ingest
  <2>2. CASE ~row[e].stored /\ ResolveMessage(e) # NoMessage
    <3>1. Apply(e, ResolveMessage(e), 0)
      BY <1>5, <2>2 DEF Ingest
    <3>2. applied[e] = {}
      BY <2>2, UnmatchedMovedNothing DEF EInv, RowsHaveReports
    <3>3. 0 \in 0 .. ReconcileLimit /\ 0 < ReconcileLimit
      BY BoundsAssumption
    <3>4. QED
      BY <1>0, <1>2, <2>0, <2>2, <3>1, <3>2, <3>3, ApplySafe
  <2>3. QED
    BY <2>1, <2>2
<1>6. CASE ReconcileUnmatched(p, e)
  <2>1. CASE ~Unmatched(e) \/ ResolveMessage(e) = NoMessage
    BY <1>3, <1>6, <2>1 DEF ReconcileUnmatched
  <2>2. CASE Unmatched(e) /\ ResolveMessage(e) # NoMessage
    <3>1. Apply(e, ResolveMessage(e), row[e].tries)
      BY <1>6, <2>2 DEF ReconcileUnmatched
    <3>2. applied[e] = {} /\ said[e] \in Reports
      BY <1>1, <2>2, UnmatchedMovedNothing DEF Unmatched
    <3>3. row[e].tries = 0
      BY <2>2 DEF Unmatched, EInv, RowsHaveReports
    <3>4. row[e].tries \in 0 .. ReconcileLimit /\ row[e].tries < ReconcileLimit
      BY <3>3, BoundsAssumption
    <3>5. QED
      BY <1>0, <1>2, <2>2, <3>1, <3>2, <3>4, ApplySafe
  <2>3. QED
    BY <2>1, <2>2
<1>7. CASE ReconcileOutOfOrder(p, e)
  <2>0. p = "out_of_order" /\ <<p, e>> \in listed /\ <<p, e>> \notin listed'
    BY <1>7 DEF ReconcileOutOfOrder, Passes
  <2>1. CASE ~OutOfOrder(e)
    BY <1>3, <1>7, <2>1 DEF ReconcileOutOfOrder
  <2>2. CASE OutOfOrder(e)
    <3>1. Apply(e, row[e].msg, row[e].tries + 1)
      BY <1>7, <2>2 DEF ReconcileOutOfOrder
    <3>2. applied[e] = {}
      BY <2>2, UnmatchedMovedNothing DEF OutOfOrder
    <3>3. row[e] \in EventRow
      BY <1>t DEF TypeOK
    <3>4. row[e].msg \in Messages
      BY <2>2, <3>3 DEF OutOfOrder, EventRow
    <3>5. /\ said[e] \in Reports
          /\ said[e].ticket \in carried[row[e].msg]
      BY <2>2, StoredTicket DEF OutOfOrder, EInv, RightMessage
    <3>6. row[e].tries < ReconcileLimit /\ row[e].tries \in 0 .. ReconcileLimit
      BY <2>0, <3>3 DEF EInv, ListedHasRoom, EventRow
    <3>7. row[e].tries + 1 \in 0 .. ReconcileLimit
      BY <3>6, BoundsAssumption
    <3>8. QED
      BY <1>0, <2>0, <3>1, <3>2, <3>4, <3>5, <3>7, ApplySafe
  <2>3. QED
    BY <2>1, <2>2
<1>8. QED
  BY <1>5, <1>6, <1>7

-----------------------------------------------------------------------------
(* The invariant and what follows from it.                                 *)

LEMMA InitEvents == Init => EInv
<1> SUFFICES ASSUME Init PROVE EInv
  OBVIOUS
<1>1. TypeOK
  BY BoundsAssumption DEF Init, TypeOK, MessageStates, EventRow, Outcomes
<1>2. TicketsAreOwn /\ SendingHasAttempt /\ DeliveredIsReported
  BY DEF Init, TicketsAreOwn, SendingHasAttempt, DeliveredIsReported
<1>3. RowsHaveReports /\ ListedHasRoom /\ RightMessage /\ OneEffectPerEvent
  BY DEF Init, RowsHaveReports, ListedHasRoom, RightMessage, OneEffectPerEvent
<1>4. QED
  BY <1>1, <1>2, <1>3 DEF EInv

LEMMA NextEvents == EInv /\ [Next]_vars => EInv'
<1> SUFFICES ASSUME EInv, [Next]_vars PROVE EInv'
  OBVIOUS
<1>1. CASE UNCHANGED vars
  <2>1. TypeOK'
    BY <1>1 DEF vars, EInv, TypeOK
  <2>2. QED
    BY <1>1, <2>1 DEF vars, EInv, TicketsAreOwn, SendingHasAttempt, RowsHaveReports,
       ListedHasRoom, RightMessage, OneEffectPerEvent, DeliveredIsReported
<1>2. ASSUME NEW m \in Messages, DeliveryStep(m) PROVE EInv'
  BY <1>2, DeliveryStepSafe
<1>3. ASSUME NEW e \in Events,
             \/ Emit(e) \/ WebhookStep(e) \/ DispatchFails(e) \/ ReplayKeyExpires(e)
             \/ Ingest(e) \/ FinalizeExpiredUnmatched(e) \/ Age(e)
      PROVE  EInv'
  <2>1. "out_of_order" \in Passes
    BY DEF Passes
  <2>2. QED
    BY <1>3, <2>1, CarrierStepSafe, ProcessorStepSafe
<1>4. ASSUME NEW p \in Passes, NEW e \in Events, List(p, e) \/ ReconcileStep(p, e)
      PROVE  EInv'
  BY <1>4, CarrierStepSafe, ProcessorStepSafe DEF ReconcileStep
<1>5. QED
  BY <1>1, <1>2, <1>3, <1>4 DEF Next

(* Ids, reports, event rows and their effects stay consistent, whatever    *)
(* is lost, repeated or delayed.                                           *)
THEOREM EventInvariant_Holds == Spec => []EInv
<1>1. Init => EInv
  BY InitEvents
<1>2. EInv /\ [Next]_vars => EInv'
  BY NextEvents
<1>3. QED
  BY <1>1, <1>2, PTL DEF Spec

(* Every message, stored event and list of the reconcilers keeps its type; *)
(* in particular no race takes an event past its attempt cap.              *)
THEOREM EventTypeCorrect == Spec => []TypeOK
<1>1. EInv => TypeOK
  BY DEF EInv
<1>2. QED
  BY <1>1, EventInvariant_Holds, PTL

(* No event moves a message that its provider was never heard to accept,   *)
(* although every provider knows the message by the same id.               *)
THEOREM EventsReachTheRightMessage == Spec => []RightMessage
<1>1. EInv => RightMessage
  BY DEF EInv
<1>2. QED
  BY <1>1, EventInvariant_Holds, PTL

(* Repeated posts, repeated jobs and reconciler passes apply an event once. *)
THEOREM EventsApplyOnce == Spec => []OneEffectPerEvent
<1>1. EInv => OneEffectPerEvent
  BY DEF EInv
<1>2. QED
  BY <1>1, EventInvariant_Holds, PTL

(* Delivered is only ever shown on the strength of a stored report.        *)
THEOREM DeliveredNeedsReport == Spec => []DeliveredIsReported
<1>1. EInv => DeliveredIsReported
  BY DEF EInv
<1>2. QED
  BY <1>1, EventInvariant_Holds, PTL

-----------------------------------------------------------------------------
(* Reports about sent messages stay in hand.                               *)

(* What an event row points at is the message the event names.             *)
LEMMA MatchedTicket ==
  ASSUME EInv, NEW e \in Events, row[e].msg # NoMessage
  PROVE  /\ row[e].msg \in Messages
         /\ said[e] \in Reports
         /\ said[e].ticket[2] = row[e].msg
<1>1. row[e].msg \in Messages
  BY DEF EInv, TypeOK, EventRow
<1>2. said[e].ticket \in carried[row[e].msg]
  BY DEF EInv, RightMessage
<1>3. QED
  BY <1>1, <1>2, StoredTicket DEF EInv, TicketsAreOwn

(* A delivery step never takes an attempt back into "sending".             *)
LEMMA RowStepKeepsReports ==
  ASSUME EInv, ReportInv, NEW m \in Messages,
         UNCHANGED said,
         \A e \in Events : row'[e].msg = row[e].msg /\ row'[e].outcome = row[e].outcome,
         \A n \in Messages \ {m} : msg'[n] = msg[n],
         \A n \in Messages : \A k \in AttemptNumbers :
           ticket'[n][k] = ticket[n][k] \/ k <= msg[n].attempt,
         \/ /\ msg'[m].attempt = msg[m].attempt
            /\ msg'[m].state \in {"sending", "sent"} => msg[m].state \in {"sending", "sent"}
         \/ msg'[m].attempt = msg[m].attempt + 1
  PROVE  ReportInv'
<1>t. /\ \A n \in Messages : msg[n].attempt \in Nat
      /\ AttemptNumbers \subseteq Nat
  BY DEF EInv, TypeOK, AttemptNumbers
<1>0. \A n \in Messages : msg'[n].attempt \in Nat /\ msg[n].attempt <= msg'[n].attempt
  BY <1>t
<1>1. LaterAttemptsHaveNone'
  <2>1. ASSUME NEW n \in Messages, NEW k \in AttemptNumbers, k > msg'[n].attempt
        PROVE  ticket'[n][k] = NoTicket
    <3>1. k > msg[n].attempt
      BY <1>t, <1>0, <2>1
    <3>2. ~(k <= msg[n].attempt)
      BY <1>t, <3>1
    <3>3. QED
      BY <3>1, <3>2 DEF ReportInv, LaterAttemptsHaveNone
  <2>2. QED
    BY <2>1 DEF LaterAttemptsHaveNone
<1>2. ReportsAreOfThePast'
  <2>1. ASSUME NEW e \in Events, said[e] \in Reports
        PROVE  said[e].attempt <= msg'[said[e].ticket[2]].attempt
    <3>1. said[e].ticket[2] \in Messages /\ said[e].attempt \in Nat
      BY <1>t, <2>1 DEF Reports, Tickets
    <3>2. said[e].attempt <= msg[said[e].ticket[2]].attempt
      BY <2>1 DEF ReportInv, ReportsAreOfThePast
    <3>3. QED
      BY <1>t, <1>0, <3>1, <3>2
  <2>2. QED
    BY <2>1 DEF ReportsAreOfThePast
<1>3. EarlyIsInHand'
  <2>1. ASSUME NEW e \in Events, row[e].msg # NoMessage,
               said[e].type \in {"delivered", "bounced"},
               said[e].attempt = msg'[row[e].msg].attempt,
               msg'[row[e].msg].state \in {"sending", "sent"}
        PROVE  row[e].outcome = "ignored_state"
    <3>1. /\ row[e].msg \in Messages /\ said[e] \in Reports
          /\ said[e].ticket[2] = row[e].msg
      BY <2>1, MatchedTicket
    <3>2. said[e].attempt <= msg[row[e].msg].attempt
      BY <3>1 DEF ReportInv, ReportsAreOfThePast
    <3>3. /\ msg'[row[e].msg].attempt = msg[row[e].msg].attempt
          /\ msg[row[e].msg].state \in {"sending", "sent"}
      BY <1>t, <2>1, <3>1, <3>2
    <3>4. QED
      BY <2>1, <3>3 DEF ReportInv, EarlyIsInHand
  <2>2. QED
    BY <2>1 DEF EarlyIsInHand
<1>4. QED
  BY <1>1, <1>2, <1>3 DEF ReportInv

LEMMA DeliveryStepKeepsReports ==
  ASSUME EInv, ReportInv, NEW m \in Messages, DeliveryStep(m)
  PROVE  ReportInv'
<1>t. /\ msg \in [Messages -> Row]
      /\ ticket \in [Messages -> [AttemptNumbers -> Tickets \cup {NoTicket}]]
  BY DEF EInv, TypeOK, Row
<1>1. UNCHANGED <<said, row>>
  BY DEF DeliveryStep, Claim, Accept, MarkSent, EndUntried, Refuse, Retry,
         Cancel, Unsuppress
<1>2. CASE Accept(m)
  <2>1. msg[m].attempt \in AttemptNumbers /\ UNCHANGED msg
    BY <1>2 DEF Accept, EInv, SendingHasAttempt
  <2>2. PICK t : ticket' = [ticket EXCEPT ![m][msg[m].attempt] = t]
    BY <1>2 DEF Accept
  <2>3. msg[m].attempt <= msg[m].attempt
    BY <2>1 DEF AttemptNumbers
  <2>4. \A n \in Messages : \A k \in AttemptNumbers :
          ticket'[n][k] = ticket[n][k] \/ k <= msg[n].attempt
    BY <1>t, <2>1, <2>2, <2>3
  <2>5. QED
    BY <1>1, <2>1, <2>4, RowStepKeepsReports
<1>3. CASE ~Accept(m)
  <2>1. UNCHANGED ticket
    BY <1>3 DEF DeliveryStep, Claim, MarkSent, EndUntried, Refuse, Retry,
         Cancel, Unsuppress
  <2>2. /\ \A n \in Messages \ {m} : msg'[n] = msg[n]
        /\ \/ /\ msg'[m].attempt = msg[m].attempt
              /\ msg'[m].state \in {"sending", "sent"} => msg[m].state \in {"sending", "sent"}
           \/ msg'[m].attempt = msg[m].attempt + 1
    BY <1>t, <1>3 DEF DeliveryStep, Claim, MarkSent, EndUntried, Refuse, Retry,
         Cancel, Unsuppress, Row
  <2>3. QED
    BY <1>1, <2>1, <2>2, RowStepKeepsReports
<1>4. QED
  BY <1>2, <1>3

(* The provider, the webhook, and the reconcilers' bookkeeping.            *)
LEMMA CarrierStepKeepsReports ==
  ASSUME EInv, ReportInv, UNCHANGED <<msg, ticket>>,
         \A e \in Events :
           /\ row'[e].msg = row[e].msg /\ row'[e].outcome = row[e].outcome
           /\ \/ said'[e] = said[e]
              \/ /\ row[e].msg = NoMessage
                 /\ said'[e].attempt <= msg[said'[e].ticket[2]].attempt
  PROVE  ReportInv'
<1>1. LaterAttemptsHaveNone' /\ ReportsAreOfThePast'
  BY DEF ReportInv, LaterAttemptsHaveNone, ReportsAreOfThePast
<1>2. EarlyIsInHand'
  BY DEF ReportInv, EarlyIsInHand
<1>3. QED
  BY <1>1, <1>2 DEF ReportInv

(* Applying a report to a message that is being sent ignores it for its    *)
(* state; applied to a sent one, it moves it on.                           *)
LEMMA ApplyKeepsReports ==
  ASSUME EInv, ReportInv, NEW e \in Events, NEW m \in Messages, NEW tries,
         Apply(e, m, tries), UNCHANGED <<ticket, said>>, said[e] \in Reports
  PROVE  ReportInv'
<1> DEFINE outcome == Transition(said[e].type, msg[m].state)
<1>1. /\ msg \in [Messages -> Row] /\ row \in [Events -> EventRow]
      /\ said[e].type \in EventTypes /\ msg[m].state \in MessageStates
  BY DEF EInv, TypeOK, Row, Reports
<1>2. /\ \A n \in Messages \ {m} : msg'[n] = msg[n]
      /\ msg'[m].attempt = msg[m].attempt
      /\ msg'[m].state = IF outcome \in {"delivered", "failed"} THEN outcome
                         ELSE msg[m].state
  BY <1>1 DEF Apply, Row
<1>3. /\ row'[e].msg = m /\ row'[e].outcome = outcome
      /\ \A f \in Events \ {e} : row'[f] = row[f]
  BY <1>1 DEF Apply, EventRow
<1>4. said[e].type \in {"delivered", "bounced"} /\ msg'[m].state \in {"sending", "sent"}
        => outcome = "ignored_state"
  BY <1>1, <1>2 DEF Transition
<1> HIDE DEF outcome
<1>5. \A n \in Messages :
        /\ msg'[n].attempt = msg[n].attempt
        /\ msg'[n].state \in {"sending", "sent"} => msg'[n].state = msg[n].state
  BY <1>2
<1>6. LaterAttemptsHaveNone'
  BY <1>5 DEF ReportInv, LaterAttemptsHaveNone
<1>7. ReportsAreOfThePast'
  <2>1. \A f \in Events : said[f] \in Reports => said[f].ticket[2] \in Messages
    BY DEF Reports, Tickets
  <2>2. QED
    BY <1>5, <2>1 DEF ReportInv, ReportsAreOfThePast
<1>8. EarlyIsInHand'
  <2>1. ASSUME NEW f \in Events \ {e}, row'[f].msg # NoMessage,
               said[f].type \in {"delivered", "bounced"},
               said[f].attempt = msg'[row'[f].msg].attempt,
               msg'[row'[f].msg].state \in {"sending", "sent"}
        PROVE  row'[f].outcome = "ignored_state"
    <3>1. row'[f] = row[f] /\ row[f].msg \in Messages
      BY <1>3, <2>1, MatchedTicket
    <3>2. QED
      BY <1>5, <2>1, <3>1 DEF ReportInv, EarlyIsInHand
  <2>2. QED
    BY <1>3, <1>4, <2>1 DEF EarlyIsInHand
<1>9. QED
  BY <1>6, <1>7, <1>8 DEF ReportInv

LEMMA ProcessorStepKeepsReports ==
  ASSUME EInv, ReportInv, NEW e \in Events, NEW p \in Passes,
         Ingest(e) \/ ReconcileUnmatched(p, e) \/ ReconcileOutOfOrder(p, e)
  PROVE  ReportInv'
<1>1. /\ UNCHANGED <<ticket, said>>
      /\ row \in [Events -> EventRow]
  BY DEF Ingest, ReconcileUnmatched, ReconcileOutOfOrder, EInv, TypeOK
<1>2. e \in eventJobs \/ row[e].stored => said[e] \in Reports
  BY DEF EInv, RowsHaveReports
<1>3. CASE UNCHANGED msg /\ (row' = row \/ row' = [row EXCEPT ![e].stored = TRUE])
  <2>1. \A f \in Events : row'[f].msg = row[f].msg /\ row'[f].outcome = row[f].outcome
    BY <1>1, <1>3 DEF EventRow
  <2>2. QED
    BY <1>1, <1>3, <2>1, CarrierStepKeepsReports
<1>4. CASE /\ said[e] \in Reports /\ ResolveMessage(e) # NoMessage
           /\ \E tries : Apply(e, ResolveMessage(e), tries)
  BY <1>1, <1>4, ResolvedMatches, ApplyKeepsReports
<1>5. CASE /\ said[e] \in Reports /\ row[e].msg # NoMessage
           /\ \E tries : Apply(e, row[e].msg, tries)
  <2>1. row[e].msg \in Messages
    BY <1>5, MatchedTicket
  <2>2. QED
    BY <1>1, <1>5, <2>1, ApplyKeepsReports
<1>6. CASE Ingest(e)
  BY <1>2, <1>3, <1>4, <1>6 DEF Ingest
<1>7. CASE ReconcileUnmatched(p, e)
  BY <1>2, <1>3, <1>4, <1>7 DEF ReconcileUnmatched, Unmatched
<1>8. CASE ReconcileOutOfOrder(p, e)
  BY <1>2, <1>3, <1>5, <1>8, StoredTicket DEF ReconcileOutOfOrder, OutOfOrder
<1>9. QED
  BY <1>6, <1>7, <1>8

LEMMA NextKeepsReports ==
  ASSUME EInv, ReportInv, [Next]_vars
  PROVE  ReportInv'
<1>1. ASSUME NEW m \in Messages, DeliveryStep(m) PROVE ReportInv'
  BY <1>1, DeliveryStepKeepsReports
<1>2. ASSUME NEW e \in Events, Emit(e) PROVE ReportInv'
  <2>1. said[e] = NoReport /\ UNCHANGED <<msg, ticket, row>>
    BY <1>2 DEF Emit, messageVars
  <2>2. row[e].msg = NoMessage
    BY <2>1, NoReportAssumption, StoredTicket
  <2>3. PICK m \in Messages, k \in AttemptNumbers, type \in EventTypes :
          /\ ticket[m][k] # NoTicket
          /\ said' = [said EXCEPT ![e] = [type |-> type, ticket |-> ticket[m][k],
                                          attempt |-> k]]
    BY <1>2 DEF Emit
  <2>4. /\ said'[e].attempt = k /\ said'[e].ticket = ticket[m][k]
        /\ \A f \in Events \ {e} : said'[f] = said[f]
    BY <2>3 DEF EInv, TypeOK
  <2>5. ticket[m][k][2] = m /\ k <= msg[m].attempt
    <3>1. ~(k > msg[m].attempt)
      BY <2>3 DEF ReportInv, LaterAttemptsHaveNone
    <3>2. msg[m].attempt \in Nat /\ k \in Nat
      BY DEF EInv, TypeOK, AttemptNumbers
    <3>3. QED
      BY <2>3, <3>1, <3>2 DEF EInv, TicketsAreOwn
  <2>6. QED
    BY <2>1, <2>2, <2>4, <2>5, CarrierStepKeepsReports
<1>3. ASSUME NEW e \in Events, FinalizeExpiredUnmatched(e) \/ Age(e) PROVE ReportInv'
  <2>1. /\ UNCHANGED <<msg, ticket, said>>
        /\ \/ row' = [row EXCEPT ![e].terminal = TRUE]
           \/ row' = [row EXCEPT ![e].aged = TRUE]
    BY <1>3 DEF FinalizeExpiredUnmatched, Age, messageVars
  <2>2. \A f \in Events : row'[f].msg = row[f].msg /\ row'[f].outcome = row[f].outcome
    <3>1. row \in [Events -> EventRow]
      BY DEF EInv, TypeOK
    <3>2. QED
      BY <2>1, <3>1 DEF EventRow
  <2>3. QED
    BY <2>1, <2>2, CarrierStepKeepsReports
<1>4. CASE \/ UNCHANGED vars
           \/ \E e \in Events : WebhookStep(e) \/ DispatchFails(e) \/ ReplayKeyExpires(e)
           \/ \E p \in Passes : \E e \in Events : List(p, e)
  <2>1. UNCHANGED <<msg, ticket, said, row>>
    BY <1>4 DEF vars, WebhookStep, Post, PostReplayed, DispatchEvent, DispatchFails,
       ReplayKeyExpires, List, messageVars
  <2>2. QED
    BY <2>1, CarrierStepKeepsReports
<1>5. ASSUME NEW e \in Events, Ingest(e) PROVE ReportInv'
  <2>1. "out_of_order" \in Passes
    BY DEF Passes
  <2>2. QED
    BY <1>5, <2>1, ProcessorStepKeepsReports
<1>6. ASSUME NEW p \in Passes, NEW e \in Events, ReconcileStep(p, e) PROVE ReportInv'
  BY <1>6, ProcessorStepKeepsReports DEF ReconcileStep
<1>7. QED
  BY <1>1, <1>2, <1>3, <1>4, <1>5, <1>6 DEF Next

(* A report about the attempt a message is being sent for, matched early   *)
(* by what an earlier attempt left on the row, is ignored for its state    *)
(* and for nothing else, which is what reconcileOutOfOrder selects.        *)
THEOREM EarlyReportsComeBack == Spec => []ReportInv
<1>1. Init => ReportInv
  <2> SUFFICES ASSUME Init PROVE ReportInv
    OBVIOUS
  <2>1. LaterAttemptsHaveNone
    BY DEF Init, LaterAttemptsHaveNone
  <2>2. ReportsAreOfThePast
    BY NoReportAssumption DEF Init, ReportsAreOfThePast
  <2>3. EarlyIsInHand
    BY DEF Init, EarlyIsInHand
  <2>4. QED
    BY <2>1, <2>2, <2>3 DEF ReportInv
<1>2. EInv /\ ReportInv /\ [Next]_vars => ReportInv'
  BY NextKeepsReports
<1>3. QED
  BY <1>1, <1>2, EventInvariant_Holds, PTL DEF Spec

-----------------------------------------------------------------------------
(* Reports are carried until they are stored.                              *)

LEMMA NextCarries ==
  ASSUME EInv, ReportsAreCarried, [Next]_vars
  PROVE  ReportsAreCarried'
<1> DEFINE OnItsWay(e) == e \in requests \cup eventJobs \cup died \/ row[e].stored
<1>t. /\ said \in [Events -> Reports \cup {NoReport}]
      /\ row \in [Events -> EventRow]
      /\ replayKeys \subseteq Events
  BY DEF EInv, TypeOK
<1>1. /\ \A e \in Events : said[e] # NoReport => e \in posting \/ OnItsWay(e)
      /\ \A e \in replayKeys : OnItsWay(e)
  BY DEF ReportsAreCarried
<1>2. SUFFICES /\ \A e \in Events : said'[e] # NoReport => e \in posting' \/ OnItsWay(e)'
               /\ \A e \in replayKeys' : OnItsWay(e)'
  BY DEF ReportsAreCarried
<1>3. CASE UNCHANGED <<said, webhookVars, eventJobs, row>>
  BY <1>1, <1>3 DEF webhookVars
<1>4. ASSUME NEW e \in Events, Emit(e)
      PROVE  /\ \A f \in Events : said'[f] # NoReport => f \in posting' \/ OnItsWay(f)'
             /\ \A f \in replayKeys' : OnItsWay(f)'
  <2>1. /\ posting' = posting \cup {e}
        /\ UNCHANGED <<replayKeys, requests, died, eventJobs, row>>
        /\ \A f \in Events \ {e} : said'[f] = said[f]
    BY <1>t, <1>4 DEF Emit
  <2>2. QED
    BY <1>1, <2>1
<1>5. ASSUME NEW e \in Events, WebhookStep(e) \/ DispatchFails(e) \/ ReplayKeyExpires(e)
      PROVE  /\ \A f \in Events : said'[f] # NoReport => f \in posting' \/ OnItsWay(f)'
             /\ \A f \in replayKeys' : OnItsWay(f)'
  <2>1. UNCHANGED <<said, row>>
    BY <1>5 DEF WebhookStep, Post, PostReplayed, DispatchEvent, DispatchFails,
       ReplayKeyExpires
  <2>2. CASE Post(e)
    BY <1>1, <2>1, <2>2 DEF Post
  <2>3. CASE PostReplayed(e)
    BY <1>1, <2>1, <2>3 DEF PostReplayed
  <2>4. CASE DispatchEvent(e)
    BY <1>1, <2>1, <2>4 DEF DispatchEvent
  <2>5. CASE ReplayKeyExpires(e)
    BY <1>1, <2>1, <2>5 DEF ReplayKeyExpires
  <2>6. CASE DispatchFails(e)
    BY <1>1, <2>1, <2>6 DEF DispatchFails
  <2>7. QED
    BY <1>5, <2>2, <2>3, <2>4, <2>5, <2>6 DEF WebhookStep
<1>6. ASSUME NEW e \in Events,
             UNCHANGED <<said, webhookVars>>, eventJobs \ eventJobs' \subseteq {e},
             \A f \in Events \ {e} : row[f].stored => row'[f].stored,
             row[e].stored => row'[e].stored,
             e \in eventJobs' \/ e \notin eventJobs \/ row'[e].stored
      PROVE  /\ \A f \in Events : said'[f] # NoReport => f \in posting' \/ OnItsWay(f)'
             /\ \A f \in replayKeys' : OnItsWay(f)'
  BY <1>t, <1>1, <1>6 DEF webhookVars
<1>7. ASSUME NEW e \in Events, NEW m, NEW tries, Apply(e, m, tries)
      PROVE  row'[e].stored /\ \A f \in Events \ {e} : row'[f] = row[f]
  BY <1>t, <1>7 DEF Apply, EventRow
<1>8. ASSUME NEW e \in Events, Ingest(e)
      PROVE  /\ \A f \in Events : said'[f] # NoReport => f \in posting' \/ OnItsWay(f)'
             /\ \A f \in replayKeys' : OnItsWay(f)'
  <2>1. UNCHANGED <<said, webhookVars>> /\ eventJobs \ eventJobs' \subseteq {e}
    BY <1>8 DEF Ingest, FinishEventJob
  <2>2. row'[e].stored /\ \A f \in Events \ {e} : row'[f] = row[f]
    <3>1. CASE row[e].stored
      BY <1>8, <3>1 DEF Ingest
    <3>2. CASE ~row[e].stored /\ ResolveMessage(e) = NoMessage
      BY <1>t, <1>8, <3>2 DEF Ingest, EventRow
    <3>3. CASE ~row[e].stored /\ ResolveMessage(e) # NoMessage
      BY <1>7, <1>8, <3>3 DEF Ingest
    <3>4. QED
      BY <3>1, <3>2, <3>3
  <2>3. QED
    BY <1>6, <2>1, <2>2
<1>9. ASSUME NEW e \in Events, NEW p \in Passes,
             \/ ReconcileStep(p, e) \/ FinalizeExpiredUnmatched(e) \/ Age(e)
      PROVE  /\ \A f \in Events : said'[f] # NoReport => f \in posting' \/ OnItsWay(f)'
             /\ \A f \in replayKeys' : OnItsWay(f)'
  <2>1. UNCHANGED <<said, webhookVars, eventJobs>>
    BY <1>9 DEF ReconcileStep, ReconcileUnmatched, ReconcileOutOfOrder,
       FinalizeExpiredUnmatched, Age
  <2>2. \A f \in Events : row[f].stored => row'[f].stored
    <3>1. CASE ReconcileStep(p, e)
      BY <1>7, <3>1 DEF ReconcileStep, ReconcileUnmatched, ReconcileOutOfOrder
    <3>2. CASE FinalizeExpiredUnmatched(e) \/ Age(e)
      BY <1>t, <3>2 DEF FinalizeExpiredUnmatched, Age, EventRow
    <3>3. QED
      BY <1>9, <3>1, <3>2
  <2>3. QED
    BY <1>6, <2>1, <2>2
<1>10. ASSUME NEW m \in Messages, DeliveryStep(m)
       PROVE  UNCHANGED <<said, webhookVars, eventJobs, row>>
  BY <1>10 DEF DeliveryStep, Claim, Accept, MarkSent, EndUntried, Refuse, Retry,
         Cancel, Unsuppress
<1>11. CASE \/ UNCHANGED vars
            \/ \E p \in Passes : \E e \in Events : List(p, e)
  <2>1. UNCHANGED <<said, webhookVars, eventJobs, row>>
    BY <1>11 DEF vars, webhookVars, List
  <2>2. QED
    BY <1>3, <2>1
<1> HIDE DEF OnItsWay
<1>12. QED
  <2>1. "out_of_order" \in Passes
    BY DEF Passes
  <2>2. QED
    BY <1>3, <1>4, <1>5, <1>8, <1>9, <1>10, <1>11, <2>1 DEF Next

LEMMA PendingFollows ==
  ASSUME EInv, ReportInv, ReportsAreCarried
  PROVE  ReportIsPending
<1> SUFFICES ASSUME NEW m \in Messages, NEW e \in Events, Reported(m, e),
                    e \notin posting \cup requests \cup eventJobs
             PROVE  Unmatched(e) \/ OutOfOrder(e)
  BY DEF ReportIsPending
<1>1. row[e].stored
  BY DEF Reported, ReportsAreCarried
<1>2. CASE row[e].msg = NoMessage
  BY <1>1, <1>2 DEF Unmatched
<1>3. CASE row[e].msg # NoMessage
  <2>1. said[e] \in Reports /\ said[e].ticket[2] = row[e].msg
    BY <1>3, MatchedTicket
  <2>2. msg[m].attempt \in AttemptNumbers /\ ticket[m][msg[m].attempt] # NoTicket
    BY <2>1, NoValueAssumption DEF Reported, Reports, Tickets
  <2>3. row[e].msg = m
    BY <2>1, <2>2 DEF Reported, EInv, TicketsAreOwn
  <2>4. QED
    BY <1>3, <2>3 DEF Reported, ReportInv, EarlyIsInHand, OutOfOrder
<1>4. QED
  BY <1>2, <1>3

(* A report about the attempt a sent message is on is on its way, looks    *)
(* for a message, or is one reconcileOutOfOrder selects, however early it  *)
(* came, unless a webhook request died for it after the replay key.        *)
THEOREM ReportsStayInHand == Spec => []ReportIsPending
<1>1. Init => ReportsAreCarried
  BY DEF Init, ReportsAreCarried
<1>2. EInv /\ ReportsAreCarried /\ [Next]_vars => ReportsAreCarried'
  BY NextCarries
<1>3. EInv /\ ReportInv /\ ReportsAreCarried => ReportIsPending
  BY PendingFollows
<1>4. QED
  BY <1>1, <1>2, <1>3, EventInvariant_Holds, EarlyReportsComeBack, PTL DEF Spec

=============================================================================
