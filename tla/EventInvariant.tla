--------------------------- MODULE EventInvariant ---------------------------
(***************************************************************************)
(* The inductive invariant behind the safety of provider events: how ids,  *)
(* reports, event rows and their effects hang together.                    *)
(***************************************************************************)
EXTENDS EventProperties

(* Providers accept a message under its own id, and the ticket on its row  *)
(* is one it has carried.                                                  *)
TicketsAreOwn ==
    \A m \in Messages :
      /\ \A k \in AttemptNumbers : ticket[m][k] # NoTicket => ticket[m][k][2] = m
      /\ \A t \in carried[m] : t[2] = m
      /\ msg[m].ticket # NoTicket => msg[m].ticket \in carried[m]

SendingHasAttempt ==
    \A m \in Messages : msg[m].state = "sending" => msg[m].attempt \in AttemptNumbers

(* An event is stored or on its way only after the provider reported it;   *)
(* until it has found its message it is unmatched and was never retried.   *)
RowsHaveReports ==
    \A e \in Events :
      /\ e \in posting \cup requests \cup eventJobs \/ row[e].stored => said[e] \in Reports
      /\ ~row[e].stored => row[e].msg = NoMessage
      /\ row[e].msg = NoMessage => row[e].outcome = "unmatched" /\ row[e].tries = 0

(* A retry is listed only while the attempt cap leaves room for it.        *)
ListedHasRoom ==
    \A e \in Events : <<"out_of_order", e>> \in listed => row[e].tries < ReconcileLimit

EInv ==
    /\ TypeOK
    /\ TicketsAreOwn
    /\ SendingHasAttempt
    /\ RowsHaveReports
    /\ ListedHasRoom
    /\ RightMessage
    /\ OneEffectPerEvent
    /\ DeliveredIsReported

-----------------------------------------------------------------------------
(* What keeps a report about a sent message in hand, whatever fails.       *)

LaterAttemptsHaveNone ==
    \A m \in Messages : \A k \in AttemptNumbers :
      k > msg[m].attempt => ticket[m][k] = NoTicket

(* A report is about an attempt the message has reached.                   *)
ReportsAreOfThePast ==
    \A e \in Events : said[e] \in Reports =>
      said[e].attempt <= msg[said[e].ticket[2]].attempt

(* A report about the attempt a message is being, or was, sent for that    *)
(* found the message, and did not move it, was only ignored for its state. *)
EarlyIsInHand ==
    \A e \in Events :
      LET m == row[e].msg
      IN /\ m # NoMessage
         /\ said[e].type \in {"delivered", "bounced"}
         /\ said[e].attempt = msg[m].attempt
         /\ msg[m].state \in {"sending", "sent"}
         => row[e].outcome = "ignored_state"

(* Inductive together with EInv.                                           *)
ReportInv ==
    /\ LaterAttemptsHaveNone
    /\ ReportsAreOfThePast
    /\ EarlyIsInHand

(* Until an event is stored it is on its way, and its replay key is taken  *)
(* only on behalf of a request that is, or of one that died.               *)
ReportsAreCarried ==
    /\ \A e \in Events : said[e] # NoReport =>
         e \in posting \cup requests \cup eventJobs \cup died \/ row[e].stored
    /\ \A e \in replayKeys : e \in requests \cup eventJobs \cup died \/ row[e].stored

=============================================================================
