-------------------------- MODULE OutboundSchedule --------------------------
(***************************************************************************)
(* Drafts and scheduled sending: what the owner's clients do to a message  *)
(* with the version they last read (update, delete, submit, schedule,      *)
(* reschedule, unschedule, send now, cancel), and the dispatcher that      *)
(* hands due messages to delivery (DispatchDueOutboundMessagesAction).     *)
(*                                                                         *)
(* Every request is one transaction under the message's row lock, so each  *)
(* is one step.  scheduled_claimed_at is set and cleared within the        *)
(* dispatcher's transaction, so no other step ever sees it and it is left  *)
(* out.  Time is two facts: whether scheduled_at has come (due) and        *)
(* whether schedule_next_attempt_at is still ahead (deferred).             *)
(*                                                                         *)
(* serial and lives are not program state: serial numbers the decisions to *)
(* send a message at some time, lives counts its returns to draft.         *)
(***************************************************************************)
EXTENDS Naturals

CONSTANTS
    Messages, Clients,
    Passes,         \* dispatcher passes that may overlap (its lock lasts 55 seconds)
    NoView,
    VersionBound,   \* bound: updates of a draft
    DecisionBound   \* bound: decisions to schedule a message

ASSUME BoundsAssumption == VersionBound \in Nat \ {0} /\ DecisionBound \in Nat

VARIABLES
    msg,          \* the outbound_messages row
    reservation,  \* outbound_usage_reservations.state
    block,        \* what stands in the way of sending, see Blocks
    view,         \* what each client last read
    listed,       \* <<pass, message>>: due ids a pass has read
    failing,      \* <<pass, message>>: dispatch rolled back, not deferred yet
    serial, lives

vars == <<msg, reservation, block, view, listed, failing, serial, lives>>

-----------------------------------------------------------------------------
States == {"draft", "deleted", "scheduled", "queued", "cancelled"}

(***************************************************************************)
(* content: prepareSendableContent refuses for good; held: it refuses for  *)
(* now (emergency stop, rollout, domain authentication); limit: the rate   *)
(* limiter refuses for now; error: reserve refuses, or the database fails. *)
(* A block comes and goes at any time, also between two requests.          *)
(***************************************************************************)
Blocks == {"none", "content", "held", "limit", "error"}

MessageRow == [state : States, draftVersion : 1 .. VersionBound,
               scheduleVersion : 0 .. DecisionBound,
               due : BOOLEAN, deferred : BOOLEAN]

Views == [msg : Messages, draftVersion : 1 .. VersionBound,
          scheduleVersion : 0 .. DecisionBound,
          serial : 0 .. DecisionBound, lives : Nat]

TypeOK ==
    /\ msg \in [Messages -> MessageRow]
    /\ reservation \in [Messages -> {"none", "reserved", "released"}]
    /\ block \in [Messages -> Blocks]
    /\ view \in [Clients -> Views \cup {NoView}]
    /\ listed \subseteq Passes \X Messages
    /\ failing \subseteq Passes \X Messages
    /\ serial \in [Messages -> 0 .. DecisionBound]
    /\ lives \in [Messages -> Nat]

Init ==
    /\ msg = [m \in Messages |-> [state |-> "draft", draftVersion |-> 1,
                                  scheduleVersion |-> 0, due |-> FALSE, deferred |-> FALSE]]
    /\ reservation = [m \in Messages |-> "none"]
    /\ block = [m \in Messages |-> "none"]
    /\ view = [c \in Clients |-> NoView]
    /\ listed = {}
    /\ failing = {}
    /\ serial = [m \in Messages |-> 0]
    /\ lives = [m \in Messages |-> 0]

-----------------------------------------------------------------------------
(* What the transactions write.                                            *)

(* OutboundScheduleFieldHelper::cleared, with the new state.               *)
Cleared(m, state) ==
    [msg[m] EXCEPT !.state = state, !.scheduleVersion = 0, !.due = FALSE, !.deferred = FALSE]

(* Mutation: a reschedule keeps the version.                               *)
ScheduledSame(m) ==
    [msg[m] EXCEPT !.state = "scheduled",
                   !.scheduleVersion = IF @ = 0 THEN 1 ELSE @,
                   !.due = FALSE, !.deferred = FALSE]

(* A new time, always in the future, and the next version.                 *)
Scheduled(m) ==
    [msg[m] EXCEPT !.state = "scheduled", !.scheduleVersion = @ + 1,
                   !.due = FALSE, !.deferred = FALSE]

(* reserve is part of the transaction that queues the message.  (submit    *)
(* clears nothing: the schedule fields of a draft are clear already.)      *)
HandOver(m) ==
    /\ msg' = [msg EXCEPT ![m] = Cleared(m, "queued")]
    /\ reservation' = [reservation EXCEPT ![m] = "reserved"]

-----------------------------------------------------------------------------
(* The owner's clients.                                                    *)

Read(c, m) ==
    /\ view' = [view EXCEPT ![c] =
                  [msg |-> m, draftVersion |-> msg[m].draftVersion,
                   scheduleVersion |-> msg[m].scheduleVersion,
                   serial |-> serial[m], lives |-> lives[m]]]
    /\ UNCHANGED <<msg, reservation, block, listed, failing, serial, lives>>

(* c's request names a draft, with the draft version c read.               *)
DraftRequest(c, m) ==
    /\ view[c] # NoView
    /\ view[c].msg = m
    /\ msg[m].state = "draft"
    /\ msg[m].draftVersion = view[c].draftVersion

UpdateDraft(c, m) ==
    /\ DraftRequest(c, m)
    /\ msg[m].draftVersion < VersionBound
    /\ msg' = [msg EXCEPT ![m].draftVersion = @ + 1]
    /\ UNCHANGED <<reservation, block, view, listed, failing, serial, lives>>

(* The version is optional here, so a request can always do without.       *)
DeleteDraft(m) ==
    /\ msg[m].state = "draft"
    /\ msg' = [msg EXCEPT ![m].state = "deleted"]
    /\ UNCHANGED <<reservation, block, view, listed, failing, serial, lives>>

Submit(c, m) ==
    /\ DraftRequest(c, m)
    /\ block[m] = "none"
    /\ HandOver(m)
    /\ UNCHANGED <<block, view, listed, failing, serial, lives>>

Schedule(c, m) ==
    /\ DraftRequest(c, m)
    /\ block[m] \notin {"content", "held"}
    /\ serial[m] < DecisionBound
    /\ msg' = [msg EXCEPT ![m] = Scheduled(m)]
    /\ serial' = [serial EXCEPT ![m] = @ + 1]
    /\ UNCHANGED <<reservation, block, view, listed, failing, lives>>

(* c's request names a scheduled message, with the version c read.         *)
ScheduleRequest(c, m) ==
    /\ view[c] # NoView
    /\ view[c].msg = m
    /\ msg[m].state = "scheduled"
    /\ msg[m].scheduleVersion = view[c].scheduleVersion

Reschedule(c, m) ==
    /\ ScheduleRequest(c, m)
    /\ block[m] \notin {"content", "held"}
    /\ serial[m] < DecisionBound
    /\ msg' = [msg EXCEPT ![m] = Scheduled(m)]
    /\ serial' = [serial EXCEPT ![m] = @ + 1]
    /\ UNCHANGED <<reservation, block, view, listed, failing, lives>>

Unschedule(c, m) ==
    /\ ScheduleRequest(c, m)
    /\ msg' = [msg EXCEPT ![m] = Cleared(m, "draft")]
    /\ lives' = [lives EXCEPT ![m] = @ + 1]
    /\ UNCHANGED <<reservation, block, view, listed, failing, serial>>

SendNow(c, m) ==
    /\ ScheduleRequest(c, m)
    /\ block[m] = "none"
    /\ HandOver(m)
    /\ UNCHANGED <<block, view, listed, failing, serial, lives>>

(* Mutation: the reservation of a queued message is kept.                  *)
CancelKeeping(m) ==
    /\ msg[m].state \in {"queued", "scheduled"}
    /\ msg' = [msg EXCEPT ![m] = Cleared(m, "cancelled")]
    /\ UNCHANGED <<reservation, block, view, listed, failing, serial, lives>>

(* Cancelling takes no version.                                            *)
Cancel(m) ==
    /\ msg[m].state \in {"queued", "scheduled"}
    /\ msg' = [msg EXCEPT ![m] = Cleared(m, "cancelled")]
    /\ reservation' = [reservation EXCEPT ![m] =
                         IF msg[m].state = "queued" THEN "released" ELSE @]
    /\ UNCHANGED <<block, view, listed, failing, serial, lives>>

-----------------------------------------------------------------------------
(* The dispatcher.                                                         *)

IsDue(m) == msg[m].state = "scheduled" /\ msg[m].due /\ ~msg[m].deferred

ListDue(p, m) ==
    /\ <<p, m>> \notin listed \cup failing
    /\ IsDue(m)
    /\ listed' = listed \cup {<<p, m>>}
    /\ UNCHANGED <<msg, reservation, block, view, failing, serial, lives>>

(* Mutation: what the query said is not checked again under the lock.      *)
TakeUnchecked(p, m) ==
    /\ <<p, m>> \in listed
    /\ listed' = listed \ {<<p, m>>}
    /\ msg[m].state = "scheduled"
    /\ UNCHANGED <<block, view, serial>>

(* Mutation: the message's state is not checked either.                    *)
TakeBlindly(p, m) ==
    /\ <<p, m>> \in listed
    /\ listed' = listed \ {<<p, m>>}
    /\ UNCHANGED <<block, view, serial>>

(* dispatchOne looks at the message again, now under its lock.             *)
Take(p, m) ==
    /\ <<p, m>> \in listed
    /\ listed' = listed \ {<<p, m>>}
    /\ IsDue(m)
    /\ UNCHANGED <<block, view, serial>>

NotDueAnyMore(p, m) ==
    /\ <<p, m>> \in listed
    /\ ~IsDue(m)
    /\ listed' = listed \ {<<p, m>>}
    /\ UNCHANGED <<msg, reservation, block, view, failing, serial, lives>>

Dispatch(p, m) ==
    /\ Take(p, m)
    /\ block[m] = "none"
    /\ HandOver(m)
    /\ UNCHANGED <<failing, lives>>

Defer(p, m) ==
    /\ Take(p, m)
    /\ block[m] \in {"held", "limit"}
    /\ msg' = [msg EXCEPT ![m].deferred = TRUE]
    /\ UNCHANGED <<reservation, failing, lives>>

(* Mutation: the failure is reported and the message left as it is.        *)
FailInPlace(p, m) ==
    /\ Take(p, m)
    /\ block[m] = "content"
    /\ UNCHANGED <<msg, reservation, failing, lives>>

FailToDraft(p, m) ==
    /\ Take(p, m)
    /\ block[m] = "content"
    /\ msg' = [msg EXCEPT ![m] = Cleared(m, "draft")]
    /\ lives' = [lives EXCEPT ![m] = @ + 1]
    /\ UNCHANGED <<reservation, failing>>

(* reserve, which the inner try does not cover, or anything else throws.   *)
RollBack(p, m) ==
    /\ Take(p, m)
    /\ block[m] = "error"
    /\ failing' = failing \cup {<<p, m>>}
    /\ UNCHANGED <<msg, reservation, lives>>

(* releaseClaimSafely, after the rollback and outside its transaction.     *)
ReleaseClaimSafely(p, m) ==
    /\ <<p, m>> \in failing
    /\ failing' = failing \ {<<p, m>>}
    /\ msg' = IF msg[m].state = "scheduled" THEN [msg EXCEPT ![m].deferred = TRUE] ELSE msg
    /\ UNCHANGED <<reservation, block, view, listed, serial, lives>>

(* The command dies: what it had listed is listed again by the next pass.  *)
PassDies(p) ==
    /\ \E m \in Messages : <<p, m>> \in listed \cup failing
    /\ listed' = {e \in listed : e[1] # p}
    /\ failing' = {e \in failing : e[1] # p}
    /\ UNCHANGED <<msg, reservation, block, view, serial, lives>>

-----------------------------------------------------------------------------
(* Time, and what stands in the way of sending.                            *)

TimeComes(m) ==
    /\ msg[m].state = "scheduled"
    /\ ~msg[m].due
    /\ msg' = [msg EXCEPT ![m].due = TRUE]
    /\ UNCHANGED <<reservation, block, view, listed, failing, serial, lives>>

DeferralEnds(m) ==
    /\ msg[m].deferred
    /\ msg' = [msg EXCEPT ![m].deferred = FALSE]
    /\ UNCHANGED <<reservation, block, view, listed, failing, serial, lives>>

BlockChanges(m, kind) ==
    /\ kind # block[m]
    /\ block' = [block EXCEPT ![m] = kind]
    /\ UNCHANGED <<msg, reservation, view, listed, failing, serial, lives>>

-----------------------------------------------------------------------------
ClientStep(c, m) ==
    \/ UpdateDraft(c, m) \/ Submit(c, m) \/ Schedule(c, m)
    \/ Reschedule(c, m) \/ Unschedule(c, m) \/ SendNow(c, m)

DispatcherStep(p, m) ==
    \/ NotDueAnyMore(p, m) \/ Dispatch(p, m) \/ Defer(p, m) \/ FailToDraft(p, m)
    \/ RollBack(p, m) \/ ReleaseClaimSafely(p, m)

Next ==
    \/ \E c \in Clients : \E m \in Messages : Read(c, m) \/ ClientStep(c, m)
    \/ \E p \in Passes : \E m \in Messages : ListDue(p, m) \/ DispatcherStep(p, m)
    \/ \E p \in Passes : PassDies(p)
    \/ \E m \in Messages : DeleteDraft(m) \/ Cancel(m) \/ TimeComes(m) \/ DeferralEnds(m)
    \/ \E m \in Messages : \E kind \in Blocks : BlockChanges(m, kind)

Spec == Init /\ [][Next]_vars

(* The scheduler runs the dispatcher every minute and time passes; a pass  *)
(* may be killed often, but not every time it has come to the message.     *)
Fairness ==
    /\ \A m \in Messages : WF_vars(DeferralEnds(m))
    /\ \A p \in Passes : \A m \in Messages :
         WF_vars(ListDue(p, m)) /\ SF_vars(DispatcherStep(p, m))

FairSpec == Spec /\ Fairness

=============================================================================
