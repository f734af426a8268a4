------------------------- MODULE DeliveryProperties -------------------------
(***************************************************************************)
(* What outbound delivery must never do, what it must eventually do, the   *)
(* contract it implements, and what the documentation says of it.          *)
(***************************************************************************)
EXTENDS OutboundDelivery

-----------------------------------------------------------------------------
(* Safety, as long as workers die within the documented timeouts.          *)

(* An acceptance the transport reported is the last offer of its message,  *)
(* until a bounce is reported: no worker loss, whether or not the worker   *)
(* wrote the acceptance down, no requeue, user's retry or admin's provider *)
(* retry hands the message over again.                                     *)
AcceptedIsLast ==
    \A m \in Messages : \A i, k \in AttemptNumbers :
      reply[m][i] = "accepted" /\ k > i => reply[m][k] = "none"

(* Between its claim and its outcome a worker has the message to itself:   *)
(* the row is still sending, still on the worker's attempt, and no other   *)
(* worker is between claim and outcome of the same message.                *)
ExclusiveDelivery ==
    \A w \in Workers : worker[w].pc \in Claimed =>
      /\ msg[worker[w].msg].state = "sending"
      /\ msg[worker[w].msg].attempt = worker[w].attempt
      /\ \A v \in Workers : HoldsClaim(v, worker[w].msg) => v = w

(* What the user sees is what the transport reported: a message shown as   *)
(* sent or delivered was accepted on its current attempt, and of a         *)
(* cancelled one no acceptance was reported.                               *)
StateMatchesProvider ==
    \A m \in Messages :
      /\ msg[m].state \in {"sent", "delivered"} => reply[m][msg[m].attempt] = "accepted"
      /\ msg[m].state = "cancelled" => \A k \in AttemptNumbers : reply[m][k] # "accepted"

(* The plan is charged only for a message the provider accepted, whether   *)
(* the worker or the usage reconciler charges it.                          *)
ChargedOnlyIfAccepted ==
    \A m \in Messages : reservation[m] = "committed" =>
      \E k \in AttemptNumbers : reply[m][k] \in {"accepted", "bounced"}

(* A row marked accepted, by the worker or by the backfill that guesses it *)
(* from the message's state, belongs to an attempt reported accepted; one  *)
(* marked temporary_failure to an attempt reported failed.                 *)
RowsAreTrue ==
    \A m \in Messages : \A k \in AttemptNumbers :
      /\ attempts[m][k] = "accepted" => reply[m][k] \in {"accepted", "bounced"}
      /\ attempts[m][k] = "temporary_failure" => reply[m][k] \in ReportedFailed

OffersNoFlagged ==
    \A m \in Messages : msg[m].flag = "ambiguous" =>
      /\ msg'[m].state # "queued"
      /\ \A k \in AttemptNumbers : reply[m][k] = "none" => reply'[m][k] = "none"

(* A message flagged ambiguous is never blindly resent: as long as it is   *)
(* flagged nobody queues it or hands it over, neither a redelivered job    *)
(* nor a reconciler nor, were it failed, a retry.  How a provider event or *)
(* an admin may settle it is left open.                                    *)
AmbiguousIsNotResent == [][OffersNoFlagged]_vars

-----------------------------------------------------------------------------
(* Safety that survives workers outliving every timeout.                   *)

AllowedTransitions ==
    [draft |-> {"queued"}, queued |-> {"sending", "cancelled"},
     sending |-> {"sent", "failed", "queued"}, sent |-> {"delivered", "failed"},
     failed |-> {"queued"}, delivered |-> {}, cancelled |-> {}]

MovesAlongLifecycle ==
    \A m \in Messages : msg'[m].state # msg[m].state =>
      \/ msg'[m].state \in AllowedTransitions[msg[m].state]
      \/ msg[m].state = "failed" /\ msg'[m].state = "sent"

(* Whatever a late worker or a racing request does, a row moves only along *)
(* OutboundMessageState::allowedTransitions or by the provider retry's     *)
(* transaction (failed to sent).                                           *)
OnlyAllowedTransitions == [][MovesAlongLifecycle]_vars

KeepsTerminalRows ==
    \A m \in Messages : \A k \in AttemptNumbers :
      attempts[m][k] \in TerminalRow => attempts'[m][k] = attempts[m][k]

(* A terminal attempt row is never overwritten, so neither a late worker   *)
(* nor a reconciler rewrites the history of an attempt.                    *)
TerminalRowsAreFinal == [][KeepsTerminalRows]_vars

-----------------------------------------------------------------------------
(* Safety behind liveness, for workers that die after their claim only.    *)

OnQueue(j, m) == jobs[j].status # "absent" /\ jobs[j].msg = m

AboutToClaim(w) == worker[w].pc \in {"popped", "cleared"}

WillClaim(j, m) ==
    /\ OnQueue(j, m)
    /\ \/ jobs[j].tries < MaxAttempts
       \/ \E w \in Workers : worker[w].job = j /\ AboutToClaim(w)

(* A queued message is never forgotten: its dispatch is still to come, or  *)
(* its lock is held and so is a job that has a try left or is about to     *)
(* claim.  No lock outlives its job; it would silence every later dispatch *)
(* of the message, the stale reconciler's included.                        *)
QueuedIsInHand ==
    \A m \in Messages :
      /\ msg[m].state = "queued" =>
           IF m \in uniqueLock THEN \E j \in Jobs : WillClaim(j, m)
                               ELSE \E s \in Sources : <<m, s>> \in pending
      /\ m \in uniqueLock => \E j \in Jobs : OnQueue(j, m)

-----------------------------------------------------------------------------
(* Liveness.                                                               *)

(* A claimed message does not stay sending for ever unless it is flagged   *)
(* for manual review, wherever its worker died.                            *)
SendingResolves ==
    \A m \in Messages :
      msg[m].state = "sending" ~> (msg[m].state # "sending" \/ msg[m].flag # "none")

(* A queued message is eventually claimed or cancelled.                    *)
QueuedProgresses ==
    \A m \in Messages : msg[m].state = "queued" ~> msg[m].state # "queued"

-----------------------------------------------------------------------------
(* The contract delivery implements.                                       *)

Unsettled(m) == msg[m].state = "sending" /\ msg[m].transportAt

talkOf == [m \in Messages |->
    CASE Unsettled(m)                 -> "offering"
      [] msg[m].state = "sent"        -> "accepted"
      [] msg[m].state = "delivered"   -> "delivered"
      [] msg[m].state = "cancelled"   -> "withdrawn"
      [] OTHER                        -> "unsent"]

Reported(answer) == IF answer \in ReportedFailed THEN "failed" ELSE answer

answerOf == [m \in Messages |->
    IF Unsettled(m) THEN Reported(reply[m][msg[m].attempt]) ELSE "none"]

Conversation == INSTANCE ProviderConversation WITH talk <- talkOf, answer <- answerOf

(* Every step of delivery is a step of the provider conversation, or none  *)
(* of its business: no crash, retry or repair offers a message whose       *)
(* earlier offer is unanswered or was reported accepted.                   *)
ImplementsConversation == Conversation!ConversationSpec

-----------------------------------------------------------------------------
(* What the documentation promises and the code does not keep.             *)

(* The provider never holds two copies of a message: an acceptance that is *)
(* in doubt is flagged for review, never resent (OUTBOUND_EMAIL_CONTRACT,  *)
(* "State precedence").                                                    *)
AtMostOneCopy ==
    \A m \in Messages :
      Cardinality({k \in AttemptNumbers : reply[m][k] \in {"accepted", "unheard"}}) <= 1

=============================================================================
