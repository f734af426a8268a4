--------------------------- MODULE ProviderEvents ---------------------------
(***************************************************************************)
(* What the mail provider reports about messages it accepted, and what the *)
(* application makes of it: the signed webhook (OutboundWebhookController),*)
(* the queued job that stores an event and applies it to its message       *)
(* (OutboundProviderEventProcessor), and the reconcilers that come back to *)
(* events that found no message or a message in another state.             *)
(*                                                                         *)
(* The delivery side is reduced to the writes events depend on: state,     *)
(* attempt, provider and provider_message_id (OutboundDelivery has the     *)
(* rest).  provider_message_id is the Message-ID header the application    *)
(* itself makes from the message's key (OutboundHeaderGuard::buildMessageId,*)
(* returned by LaravelMailOutboundTransport): every attempt of a message   *)
(* has the same one, and the message stands for it.  Together with the     *)
(* provider it is the ticket an event is matched by.  ticket and said are  *)
(* the providers' own knowledge: who accepted each attempt, and what each  *)
(* event reports.                                                          *)
(***************************************************************************)
EXTENDS Naturals, FiniteSets

CONSTANTS
    Messages, Events, Providers,
    NoMessage, NoTicket, NoReport,
    AttemptBound,    \* bound: attempts per message
    ReconcileLimit,  \* config out_of_order_max_attempts
    Failures         \* what may go wrong in this instance (see FailureKinds)

(***************************************************************************)
(* dispatch_failure: the webhook's request dies, or cannot queue the job,  *)
(*   after it took the replay key;                                         *)
(* answer_lost: the provider does not see the webhook's answer;            *)
(* job_redelivered: the queue runs a job again after it committed;         *)
(* ageing: events grow older than the correlation window.                  *)
(***************************************************************************)
FailureKinds == {"dispatch_failure", "answer_lost", "job_redelivered", "ageing"}

ASSUME FailuresAssumption == Failures \subseteq FailureKinds
ASSUME BoundsAssumption == AttemptBound \in Nat \ {0} /\ ReconcileLimit \in Nat \ {0}
ASSUME NoValueAssumption ==
    /\ NoMessage \notin Messages
    /\ NoTicket \notin Providers \X Messages

AttemptNumbers == 1 .. AttemptBound
Tickets == Providers \X Messages

VARIABLES
    msg,         \* state, attempt and the ticket on the outbound_messages row
    suppressed,  \* messages with a suppressed recipient
    carried,     \* the tickets m's row has carried so far, for the properties
    ticket,      \* the provider that accepted attempt k of m, with m's id
    said,        \* what event e reports
    posting,     \* events the provider still has to post (or to post again)
    replayKeys,  \* replay fingerprints in the cache
    requests,    \* webhook requests between the replay key and the dispatch
    died,        \* events a request died for, for the properties
    eventJobs,   \* queued ProcessOutboundProviderEventJobs
    row,         \* outbound_provider_events
    listed,      \* <<pass, event>>: events a pass has read and not handled yet
    applied      \* the attempts an event moved, for the properties

messageVars == <<msg, suppressed, carried, ticket>>
webhookVars == <<posting, replayKeys, requests, died>>
vars == <<msg, suppressed, carried, ticket, said, posting, replayKeys, requests, died,
          eventJobs, row, listed, applied>>

-----------------------------------------------------------------------------
MessageStates == {"queued", "sending", "sent", "delivered", "failed", "cancelled"}

(* OutboundProviderEventType, by what applyTransition does with it:        *)
(* "bounced" stands for bounced, rejected and permanent_failure, "other"   *)
(* for accepted, temporary_failure and unknown.                            *)
EventTypes == {"delivered", "bounced", "complained", "other"}

Outcomes == {"unmatched", "ignored", "ignored_state", "ignored_cancelled",
             "ignored_after_delivered", "already_delivered", "already_failed",
             "delivered", "failed", "complaint_recorded"}

(* The passes over stored events: reconcileUnmatched in two commands,      *)
(* reconcileOutOfOrder in one.                                             *)
Matchers == {"unmatched_command", "events_command"}
Passes == Matchers \cup {"out_of_order"}

(* A report names its message only; the attempt is what the provider knows. *)
Reports == [type : EventTypes, ticket : Tickets, attempt : AttemptNumbers]

ASSUME NoReportAssumption == NoReport \notin Reports

EventRow == [stored : BOOLEAN, msg : Messages \cup {NoMessage}, outcome : Outcomes,
             tries : 0 .. ReconcileLimit,  \* reconciliation_attempts
             terminal : BOOLEAN,           \* terminal_unmatched_at IS NOT NULL
             aged : BOOLEAN]               \* received_at is before the window

TypeOK ==
    /\ msg \in [Messages -> [state : MessageStates, attempt : 0 .. AttemptBound,
                             ticket : Tickets \cup {NoTicket}]]
    /\ suppressed \subseteq Messages
    /\ carried \in [Messages -> SUBSET Tickets]
    /\ ticket \in [Messages -> [AttemptNumbers -> Tickets \cup {NoTicket}]]
    /\ said \in [Events -> Reports \cup {NoReport}]
    /\ posting \subseteq Events
    /\ replayKeys \subseteq Events
    /\ requests \subseteq Events
    /\ died \subseteq Events
    /\ eventJobs \subseteq Events
    /\ row \in [Events -> EventRow]
    /\ listed \subseteq Passes \X Events
    /\ applied \in [Events -> SUBSET (Messages \X (0 .. AttemptBound))]

Init ==
    /\ msg = [m \in Messages |-> [state |-> "queued", attempt |-> 0, ticket |-> NoTicket]]
    /\ suppressed = {}
    /\ carried = [m \in Messages |-> {}]
    /\ ticket = [m \in Messages |-> [k \in AttemptNumbers |-> NoTicket]]
    /\ said = [e \in Events |-> NoReport]
    /\ posting = {}
    /\ replayKeys = {}
    /\ requests = {}
    /\ died = {}
    /\ eventJobs = {}
    /\ row = [e \in Events |-> [stored |-> FALSE, msg |-> NoMessage,
                                outcome |-> "unmatched", tries |-> 0,
                                terminal |-> FALSE, aged |-> FALSE]]
    /\ listed = {}
    /\ applied = [e \in Events |-> {}]

-----------------------------------------------------------------------------
(* Delivery, as far as events can see it.                                  *)

Claim(m) ==
    /\ msg[m].state = "queued"
    /\ msg[m].attempt < AttemptBound
    /\ msg' = [msg EXCEPT ![m].state = "sending", ![m].attempt = @ + 1]
    /\ UNCHANGED <<suppressed, carried, ticket, said, webhookVars, eventJobs, row, listed, applied>>

(* A provider accepts the current attempt, whichever is configured or      *)
(* chosen for it; no suppressed recipient gets this far.                   *)
Accept(m) ==
    /\ msg[m].state = "sending"
    /\ m \notin suppressed
    /\ ticket[m][msg[m].attempt] = NoTicket
    /\ \E p \in Providers : ticket' = [ticket EXCEPT ![m][msg[m].attempt] = <<p, m>>]
    /\ UNCHANGED <<msg, suppressed, carried, said, webhookVars, eventJobs, row, listed, applied>>

(* markSent writes provider and provider_message_id with the state; the    *)
(* ticket of an earlier attempt stays on the row until then.               *)
MarkSent(m) ==
    /\ msg[m].state = "sending"
    /\ ticket[m][msg[m].attempt] # NoTicket
    /\ msg' = [msg EXCEPT ![m].state = "sent", ![m].ticket = ticket[m][msg[m].attempt]]
    /\ carried' = [carried EXCEPT ![m] = @ \cup {ticket[m][msg[m].attempt]}]
    /\ UNCHANGED <<suppressed, ticket, said, webhookVars, eventJobs, row, listed, applied>>

(* Ended before the transport was called: failed, or queued again by the   *)
(* stale reconciler.                                                       *)
EndUntried(m) ==
    /\ msg[m].state = "sending"
    /\ ticket[m][msg[m].attempt] = NoTicket
    /\ \E state \in {"failed", "queued"} : msg' = [msg EXCEPT ![m].state = state]
    /\ UNCHANGED <<suppressed, carried, ticket, said, webhookVars, eventJobs, row, listed, applied>>

(* Anything but an acceptance the worker heard of, a timeout after the     *)
(* provider accepted included: failed, or queued for another try.  The     *)
(* provider is written to the row; the id an earlier attempt left there    *)
(* stays next to it.                                                       *)
Refuse(m) ==
    /\ msg[m].state = "sending"
    /\ \E p \in Providers : \E state \in {"failed", "queued"} :
         LET named == IF msg[m].ticket = NoTicket THEN NoTicket ELSE <<p, m>>
         IN /\ ticket[m][msg[m].attempt] \in {NoTicket, <<p, m>>}
            /\ msg' = [msg EXCEPT ![m].state = state, ![m].ticket = named]
            /\ carried' = [carried EXCEPT ![m] = @ \cup ({named} \ {NoTicket})]
    /\ UNCHANGED <<suppressed, ticket, said, webhookVars, eventJobs, row, listed, applied>>

Retry(m) ==
    /\ msg[m].state = "failed"
    /\ msg' = [msg EXCEPT ![m].state = "queued"]
    /\ UNCHANGED <<suppressed, carried, ticket, said, webhookVars, eventJobs, row, listed, applied>>

Cancel(m) ==
    /\ msg[m].state = "queued"
    /\ msg' = [msg EXCEPT ![m].state = "cancelled"]
    /\ UNCHANGED <<suppressed, carried, ticket, said, webhookVars, eventJobs, row, listed, applied>>

(* An administrator lifts the suppression.                                 *)
Unsuppress(m) ==
    /\ m \in suppressed
    /\ suppressed' = suppressed \ {m}
    /\ UNCHANGED <<msg, carried, ticket, said, webhookVars, eventJobs, row, listed, applied>>

-----------------------------------------------------------------------------
(* The provider and the webhook.                                           *)

(* The provider reports on an attempt it accepted: any number of events,   *)
(* in any order, of any type (a message may have several recipients).      *)
Emit(e) ==
    /\ said[e] = NoReport
    /\ \E m \in Messages : \E k \in AttemptNumbers : \E type \in EventTypes :
         /\ ticket[m][k] # NoTicket
         /\ said' = [said EXCEPT ![e] = [type |-> type, ticket |-> ticket[m][k],
                                         attempt |-> k]]
    /\ posting' = posting \cup {e}
    /\ UNCHANGED <<messageVars, replayKeys, requests, died, eventJobs, row, listed, applied>>

(* A verified request takes the replay key before the job is dispatched.   *)
Post(e) ==
    /\ e \in posting
    /\ e \notin requests
    /\ e \notin replayKeys
    /\ replayKeys' = replayKeys \cup {e}
    /\ requests' = requests \cup {e}
    /\ UNCHANGED <<messageVars, said, posting, died, eventJobs, row, listed, applied>>

(* The key is taken: answered 202, the provider will not post it again.    *)
PostReplayed(e) ==
    /\ e \in posting
    /\ e \in replayKeys
    /\ posting' = posting \ {e}
    /\ UNCHANGED <<messageVars, said, replayKeys, requests, died, eventJobs, row, listed, applied>>

DispatchEvent(e) ==
    /\ e \in requests
    /\ requests' = requests \ {e}
    /\ eventJobs' = eventJobs \cup {e}
    /\ \/ posting' = posting \ {e}
       \/ "answer_lost" \in Failures /\ UNCHANGED posting
    /\ UNCHANGED <<messageVars, said, replayKeys, died, row, listed, applied>>

(* 503, or a process that dies: the provider will post again, and the      *)
(* replay key stays.                                                       *)
DispatchFails(e) ==
    /\ "dispatch_failure" \in Failures
    /\ e \in requests
    /\ requests' = requests \ {e}
    /\ died' = died \cup {e}
    /\ UNCHANGED <<messageVars, said, posting, replayKeys, eventJobs, row, listed, applied>>

ReplayKeyExpires(e) ==
    /\ e \in replayKeys
    /\ e \notin requests
    /\ replayKeys' = replayKeys \ {e}
    /\ UNCHANGED <<messageVars, said, posting, requests, died, eventJobs, row, listed, applied>>

-----------------------------------------------------------------------------
(* OutboundProviderEventProcessor.                                         *)

(* Mutation: events are matched by id alone, whichever provider sent them. *)
MatchesById(e) == {m \in Messages : msg[m].ticket # NoTicket
                                    /\ msg[m].ticket[2] = said[e].ticket[2]}

(* resolveMessage: the rows that carry the event's provider and id.        *)
Matches(e) == {m \in Messages : msg[m].ticket = said[e].ticket}

(* More than one match changes nothing.                                    *)
ResolveMessage(e) ==
    IF Cardinality(Matches(e)) = 1 THEN CHOOSE m \in Messages : m \in Matches(e)
                                   ELSE NoMessage

(* Mutation: any report about a sent message counts as its delivery.       *)
TransitionLoose(type, state) ==
    CASE type = "complained" -> "complaint_recorded"
      [] type = "bounced" /\ state = "sent" -> "failed"
      [] state = "sent" -> "delivered"
      [] OTHER -> "ignored_state"

(* Mutation: a report that finds its message in another state is dropped.  *)
TransitionDrops(type, state) ==
    CASE type = "complained" -> "complaint_recorded"
      [] type = "delivered" /\ state = "sent" -> "delivered"
      [] type = "bounced" /\ state = "sent" -> "failed"
      [] OTHER -> "ignored"

(* applyTransition: markDelivered, markFailed, recordComplaint.            *)
Transition(type, state) ==
    CASE type = "other"      -> "ignored"
      [] type = "complained" -> "complaint_recorded"
      [] type = "delivered"  -> (CASE state = "cancelled" -> "ignored_cancelled"
                                   [] state = "delivered" -> "already_delivered"
                                   [] state = "sent"      -> "delivered"
                                   [] OTHER               -> "ignored_state")
      [] type = "bounced"    -> (CASE state = "delivered" -> "ignored_after_delivered"
                                   [] state = "cancelled" -> "ignored_cancelled"
                                   [] state = "failed"    -> "already_failed"
                                   [] state = "sent"      -> "failed"
                                   [] OTHER               -> "ignored_state")

(* What applying event e to message m does to the message, its recipients  *)
(* and the event's row.  Delivered and failed are the outcomes that move   *)
(* the message, and they carry the name of the new state.                  *)
Apply(e, m, tries) ==
    LET outcome == Transition(said[e].type, msg[m].state)
        moves == outcome \in {"delivered", "failed"}
    IN /\ msg' = [msg EXCEPT ![m].state = IF moves THEN outcome ELSE @]
       /\ suppressed' = IF outcome \in {"failed", "complaint_recorded"}
                          THEN suppressed \cup {m} ELSE suppressed
       /\ applied' = IF moves
                       THEN [applied EXCEPT ![e] = @ \cup {<<m, msg[m].attempt>>}]
                       ELSE applied
       /\ row' = [row EXCEPT ![e] = [@ EXCEPT !.stored = TRUE, !.msg = m,
                                      !.outcome = outcome, !.tries = tries]]

(* The job is done with, unless the queue runs it again.                   *)
FinishEventJob(e) ==
    \/ eventJobs' = eventJobs \ {e}
    \/ "job_redelivered" \in Failures /\ UNCHANGED eventJobs

(* ingest: a duplicate changes nothing.                                    *)
Ingest(e) ==
    /\ e \in eventJobs
    /\ FinishEventJob(e)
    /\ CASE row[e].stored -> UNCHANGED <<msg, suppressed, row, applied>>
         [] ~row[e].stored /\ ResolveMessage(e) = NoMessage ->
              /\ row' = [row EXCEPT ![e].stored = TRUE]
              /\ UNCHANGED <<msg, suppressed, applied>>
         [] OTHER -> Apply(e, ResolveMessage(e), 0)
    /\ UNCHANGED <<carried, ticket, said, webhookVars, listed>>

(* What the reconcilers' queries select and their transactions check again *)
(* under the event's lock.  Two scheduled commands run reconcileUnmatched, *)
(* at the same time if it so happens; one of them reconcileOutOfOrder too. *)
Unmatched(e) == row[e].stored /\ row[e].msg = NoMessage

OutOfOrder(e) == row[e].outcome = "ignored_state" /\ row[e].msg # NoMessage

(* Mutation: only events that already found their message come back.       *)
SelectsMatched(p, e) == OutOfOrder(e) /\ row[e].tries < ReconcileLimit

Selects(p, e) ==
    IF p \in Matchers THEN Unmatched(e)
                      ELSE OutOfOrder(e) /\ row[e].tries < ReconcileLimit

(* A pass reads the ids of recent events first, then handles each one in a *)
(* transaction of its own.                                                 *)
List(p, e) ==
    /\ <<p, e>> \notin listed
    /\ ~row[e].aged
    /\ Selects(p, e)
    /\ listed' = listed \cup {<<p, e>>}
    /\ UNCHANGED <<messageVars, said, webhookVars, eventJobs, row, applied>>

(* Mutation: the event is not looked at again under its lock.              *)
ReconcileUnchecked(p, e) ==
    /\ <<p, e>> \in listed
    /\ p \in Matchers
    /\ listed' = listed \ {<<p, e>>}
    /\ IF ResolveMessage(e) # NoMessage
         THEN Apply(e, ResolveMessage(e), row[e].tries)
         ELSE UNCHANGED <<msg, suppressed, row, applied>>
    /\ UNCHANGED <<carried, ticket, said, webhookVars, eventJobs>>

ReconcileUnmatched(p, e) ==
    /\ <<p, e>> \in listed
    /\ p \in Matchers
    /\ listed' = listed \ {<<p, e>>}
    /\ IF Unmatched(e) /\ ResolveMessage(e) # NoMessage
         THEN Apply(e, ResolveMessage(e), row[e].tries)
         ELSE UNCHANGED <<msg, suppressed, row, applied>>
    /\ UNCHANGED <<carried, ticket, said, webhookVars, eventJobs>>

ReconcileOutOfOrder(p, e) ==
    /\ <<p, e>> \in listed
    /\ p \notin Matchers
    /\ listed' = listed \ {<<p, e>>}
    /\ IF OutOfOrder(e)
         THEN Apply(e, row[e].msg, row[e].tries + 1)
         ELSE UNCHANGED <<msg, suppressed, row, applied>>
    /\ UNCHANGED <<carried, ticket, said, webhookVars, eventJobs>>

FinalizeExpiredUnmatched(e) ==
    /\ Unmatched(e)
    /\ row[e].aged
    /\ ~row[e].terminal
    /\ row' = [row EXCEPT ![e].terminal = TRUE]
    /\ UNCHANGED <<messageVars, said, webhookVars, eventJobs, listed, applied>>

Age(e) ==
    /\ "ageing" \in Failures
    /\ row[e].stored
    /\ ~row[e].aged
    /\ row' = [row EXCEPT ![e].aged = TRUE]
    /\ UNCHANGED <<messageVars, said, webhookVars, eventJobs, listed, applied>>

-----------------------------------------------------------------------------
DeliveryStep(m) ==
    \/ Claim(m) \/ Accept(m) \/ MarkSent(m) \/ EndUntried(m) \/ Refuse(m)
    \/ Retry(m) \/ Cancel(m) \/ Unsuppress(m)

WebhookStep(e) == Post(e) \/ PostReplayed(e) \/ DispatchEvent(e)

ReconcileStep(p, e) == ReconcileUnmatched(p, e) \/ ReconcileOutOfOrder(p, e)

Next ==
    \/ \E m \in Messages : DeliveryStep(m)
    \/ \E e \in Events :
         \/ Emit(e) \/ WebhookStep(e) \/ DispatchFails(e) \/ ReplayKeyExpires(e)
         \/ Ingest(e) \/ FinalizeExpiredUnmatched(e) \/ Age(e)
    \/ \E p \in Passes : \E e \in Events : List(p, e) \/ ReconcileStep(p, e)

Spec == Init /\ [][Next]_vars

(* The provider posts until it is answered, requests and jobs run, and the *)
(* scheduler keeps running both reconcilers.  Nothing is assumed of the    *)
(* delivery side, of users or of administrators.                           *)
Fairness ==
    \A e \in Events :
      /\ WF_vars(WebhookStep(e))
      /\ WF_vars(Ingest(e))
      /\ \A p \in Passes : WF_vars(List(p, e)) /\ WF_vars(ReconcileStep(p, e))

FairSpec == Spec /\ Fairness

=============================================================================
