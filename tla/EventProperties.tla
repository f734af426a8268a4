-------------------------- MODULE EventProperties --------------------------
(***************************************************************************)
(* What provider events may do to messages, what must become of them, and  *)
(* what the code and its documentation say of late and repeated events.    *)
(***************************************************************************)
EXTENDS ProviderEvents

(* An event only ever moves, and its row only ever points at, a message    *)
(* whose row has named the event's provider next to the id.  A message has *)
(* the same id with every provider it was handed to, so a report of one    *)
(* that accepted it unheard must not settle it for another.                *)
RightMessage ==
    \A e \in Events :
      /\ \A change \in applied[e] : said[e].ticket \in carried[change[1]]
      /\ row[e].msg # NoMessage => said[e].ticket \in carried[row[e].msg]

(* However often an event is posted, queued, run or reconciled, it moves a *)
(* message at most once, and then for good: its row says so.               *)
OneEffectPerEvent ==
    \A e \in Events :
      /\ \A one, other \in applied[e] : one = other
      /\ applied[e] # {} => row[e].outcome \in {"delivered", "failed"}

(* A message is shown as delivered only because an event that reports a    *)
(* delivery is stored and was applied to its current attempt.              *)
DeliveredIsReported ==
    \A m \in Messages : msg[m].state = "delivered" =>
      \E e \in Events : /\ said[e] # NoReport
                        /\ said[e].type = "delivered"
                        /\ row[e].outcome = "delivered"
                        /\ <<m, msg[m].attempt>> \in applied[e]

(* m is sent, and e reports the delivery or a bounce of the attempt it is  *)
(* on; no request died for e after it took the replay key (then the        *)
(* provider is answered that it was seen before, and it is lost).          *)
Reported(m, e) ==
    /\ msg[m].state = "sent"
    /\ said[e] # NoReport
    /\ said[e].type \in {"delivered", "bounced"}
    /\ said[e].ticket = ticket[m][msg[m].attempt]
    /\ said[e].attempt = msg[m].attempt
    /\ e \notin died

(* Such an event is on its way, looks for a message, or is one the         *)
(* out-of-order reconciler selects: it was not answered as a replay nor    *)
(* dropped for good when it came too early, before the message was sent    *)
(* and perhaps matched by what an earlier attempt left on the row.         *)
ReportIsPending ==
    \A m \in Messages : \A e \in Events :
      Reported(m, e) => e \in posting \cup requests \cup eventJobs
                        \/ Unmatched(e) \/ OutOfOrder(e)

(* It is not lost either: the message leaves "sent", unless the event      *)
(* outlives the correlation window first, or used up the reconciler's      *)
(* tries before the message was sent (the two bounds reconcileOutOfOrder's *)
(* comment states).                                                        *)
ReportsReachTheirMessage ==
    \A m \in Messages : \A e \in Events :
      Reported(m, e) ~> (~Reported(m, e) \/ row[e].aged \/ row[e].tries = ReconcileLimit)

=============================================================================
