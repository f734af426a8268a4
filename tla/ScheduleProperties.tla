------------------------- MODULE ScheduleProperties -------------------------
(***************************************************************************)
(* What scheduling must never do, what the dispatcher must get done, and   *)
(* what the documentation says of version tokens.                          *)
(***************************************************************************)
EXTENDS OutboundSchedule

(* Usage is reserved exactly while a message is queued: scheduling,        *)
(* deferring, a dispatch that rolls back and a cancel never leave a        *)
(* reservation behind, and nothing is queued without one.                  *)
ReservedIffQueued ==
    \A m \in Messages : reservation[m] = "reserved" <=> msg[m].state = "queued"

(* As long as a message was not back in draft since a client read it, the  *)
(* client's schedule version is good only for the very schedule it saw,    *)
(* whatever other clients and the dispatcher did in between.               *)
TokenNamesSchedule ==
    \A c \in Clients : view[c] # NoView =>
      LET m == view[c].msg
      IN (/\ msg[m].state = "scheduled"
          /\ view[c].lives = lives[m]
          /\ view[c].scheduleVersion = msg[m].scheduleVersion) => view[c].serial = serial[m]

(* A scheduled message is queued when its time has come and it is not      *)
(* deferred, or by send-now.                                               *)
QueuedInTime ==
    \A m \in Messages : msg[m].state = "scheduled" /\ msg'[m].state = "queued" =>
      IsDue(m) \/ \E c \in Clients : SendNow(c, m)

(* A message the owner rescheduled, unscheduled or cancelled after the     *)
(* dispatcher listed it is not sent on the strength of that listing.       *)
NeverEarly == [][QueuedInTime]_vars

(* Out of queued there is only cancelled, and nothing beyond.              *)
StaysFinal ==
    \A m \in Messages :
      /\ msg[m].state = "queued" => msg'[m].state \in {"queued", "cancelled"}
      /\ msg[m].state \in {"cancelled", "deleted"} => msg'[m].state = msg[m].state

(* A message is final once it is queued, cancelled or deleted: no late     *)
(* dispatcher pass, deferral or request brings it back to a schedule.      *)
NoWayBack == [][StaysFinal]_vars

(* A message whose time has come is sent, or given back as a draft, unless *)
(* its owner decides otherwise or something that is not the message's own  *)
(* fault stands in the way for ever.                                       *)
DueIsHandled ==
    \A m \in Messages : \A d \in 1 .. DecisionBound :
      <>[](block[m] \in {"none", "content"}) =>
        (msg[m].state = "scheduled" /\ msg[m].due /\ serial[m] = d
           ~> msg[m].state # "scheduled" \/ serial[m] # d)

=============================================================================
