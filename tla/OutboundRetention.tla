--------------------------- MODULE OutboundRetention ---------------------------
(***************************************************************************)
(* Retention of outbound messages: OutboundPruneService, which erases      *)
(* content and removes rows category by category, against administrators   *)
(* who hold messages, owners who edit, hide and retry them, and delivery.  *)
(*                                                                         *)
(* Every category reads its candidates first and handles them later:       *)
(* messages one by one under the lock of the row, attempt and event rows   *)
(* in one statement without it.  The lock of the command expires, so       *)
(* passes may overlap.                                                     *)
(*                                                                         *)
(* Ages are "young" or "old" against the window of their category, and     *)
(* grow only while no pass runs: windows are days, a pass is minutes.      *)
(***************************************************************************)
EXTENDS Integers

CONSTANTS
    Messages, Passes, NoPass,
    ReportBound,   \* bound: provider events per message
    FaultBound     \* bound: passes that die, are overtaken, pass a message over,
                   \* or meet the repair of attempt rows

ASSUME BoundsAssumption == ReportBound \in Nat /\ FaultBound \in Nat
ASSUME NoPassAssumption == NoPass \notin Passes

VARIABLES
    row,       \* the outbound_messages rows
    attempts,  \* the ages of a message's delivery attempt rows
    events,    \* the ages of its provider event rows
    pass,      \* what each run of the command is doing
    lock,      \* the run that holds the command's lock
    reports, faults

vars == <<row, attempts, events, pass, lock, reports, faults>>

-----------------------------------------------------------------------------
Ages == {"young", "old"}

Terminal == {"delivered", "cancelled", "failed"}

(* claimed: a worker has taken the message and not recorded the attempt.   *)
States == {"draft", "scheduled", "queued", "claimed", "sending", "sent", "gone"} \cup Terminal

(* stamp: content_redacted_at; discarded: draft_deleted_at; hidden:        *)
(* user_deleted_at; created and updated: the ages of these timestamps.     *)
Row == [state : States, content : {"present", "erased"}, stamp : BOOLEAN,
        discarded : BOOLEAN, hidden : BOOLEAN, hold : {"none", "timed", "indefinite"},
        created : Ages, updated : Ages]

Categories == {"drafts", "content", "attempts", "events", "hard"}

Pass == [pc : Categories \cup {"idle"}, todo : SUBSET Messages]

TypeOK ==
    /\ row \in [Messages -> Row]
    /\ attempts \in [Messages -> SUBSET Ages]
    /\ events \in [Messages -> SUBSET Ages]
    /\ pass \in [Passes -> Pass]
    /\ lock \in Passes \cup {NoPass}
    /\ reports \in [Messages -> 0 .. ReportBound]
    /\ faults \in 0 .. FaultBound

NewRow(state) ==
    [state |-> state, content |-> "present", stamp |-> FALSE, discarded |-> FALSE,
     hidden |-> FALSE, hold |-> "none", created |-> "young", updated |-> "young"]

IdlePass == [pc |-> "idle", todo |-> {}]

(* A message begins as a draft, or is queued at once.                      *)
Init ==
    /\ row \in [Messages -> {NewRow("draft"), NewRow("queued")}]
    /\ attempts = [m \in Messages |-> {}]
    /\ events = [m \in Messages |-> {}]
    /\ pass = [p \in Passes |-> IdlePass]
    /\ lock = NoPass
    /\ reports = [m \in Messages |-> 0]
    /\ faults = 0

-----------------------------------------------------------------------------
(* Rows.                                                                   *)

Exists(m) == row[m].state # "gone"

(* isRetentionHeld: a timed hold ends by itself.                           *)
Held(m) == row[m].hold # "none"

(* Saving a row touches updated_at.                                        *)
Save(m, changed) == row' = [row EXCEPT ![m] = [changed EXCEPT !.updated = "young"]]

Only(m, from, to) == row[m].state \in from /\ Save(m, [row[m] EXCEPT !.state = to])

-----------------------------------------------------------------------------
(* The owner.                                                              *)

EditDraft(m) ==
    /\ row[m].state = "draft" /\ ~row[m].discarded
    /\ Save(m, [row[m] EXCEPT !.content = "present"])
    /\ UNCHANGED <<attempts, events, pass, lock, reports, faults>>

DiscardDraft(m) ==
    /\ row[m].state = "draft" /\ ~row[m].discarded
    /\ Save(m, [row[m] EXCEPT !.discarded = TRUE])
    /\ UNCHANGED <<attempts, events, pass, lock, reports, faults>>

(* Submitting and scheduling validate the content, and so does the         *)
(* dispatch of a scheduled message, which goes back to draft without it.   *)
Submit(m, state) ==
    /\ row[m].content = "present" /\ ~row[m].discarded
    /\ \/ state \in {"scheduled", "queued"} /\ Only(m, {"draft"}, state)
       \/ state \in {"draft", "queued"} /\ Only(m, {"scheduled"}, state)
    /\ UNCHANGED <<attempts, events, pass, lock, reports, faults>>

BackToDraft(m) ==
    /\ row[m].content = "erased"
    /\ Only(m, {"scheduled"}, "draft")
    /\ UNCHANGED <<attempts, events, pass, lock, reports, faults>>

(* A failed message may be retried, hidden or erased as it may be.         *)
Retry(m) ==
    /\ Only(m, {"failed"}, "queued")
    /\ UNCHANGED <<attempts, events, pass, lock, reports, faults>>

Cancel(m) ==
    /\ Only(m, {"scheduled", "queued"}, "cancelled")
    /\ UNCHANGED <<attempts, events, pass, lock, reports, faults>>

(* DeleteOutboundMessageAction: what would still be sent is cancelled.     *)
Hide(m) ==
    /\ Exists(m) /\ ~row[m].hidden
    /\ Save(m, [row[m] EXCEPT !.hidden = TRUE,
                              !.state = IF @ \in {"queued", "scheduled"} THEN "cancelled" ELSE @])
    /\ UNCHANGED <<attempts, events, pass, lock, reports, faults>>

-----------------------------------------------------------------------------
(* Delivery, and what the provider reports.                                *)

ClaimMessage(m) ==
    /\ Only(m, {"queued"}, "claimed")
    /\ UNCHANGED <<attempts, events, pass, lock, reports, faults>>

(* The attempt row is written after the claim has committed.               *)
StartAttempt(m) ==
    /\ Only(m, {"claimed"}, "sending")
    /\ attempts' = [attempts EXCEPT ![m] = @ \cup {"young"}]
    /\ UNCHANGED <<events, pass, lock, reports, faults>>

(* Without its content a message fails; one that waits for a retry is      *)
(* queued again.                                                           *)
EndAttempt(m, state) ==
    /\ state \in {"sent", "failed", "queued"}
    /\ row[m].content = "erased" => state = "failed"
    /\ Only(m, {"sending"}, state)
    /\ UNCHANGED <<attempts, events, pass, lock, reports, faults>>

Report(m) ==
    /\ row[m].state \in {"sent", "delivered", "failed"}
    /\ reports[m] < ReportBound
    /\ reports' = [reports EXCEPT ![m] = @ + 1]
    /\ events' = [events EXCEPT ![m] = @ \cup {"young"}]
    /\ \E state \in {row[m].state} \cup (IF row[m].state = "sent" THEN {"delivered", "failed"} ELSE {}) :
         Only(m, {row[m].state}, state)
    /\ UNCHANGED <<attempts, pass, lock, faults>>

Running == \E p \in Passes : pass[p].pc # "idle"

(* repairMissingDeliveryAttempts, of another command: a settled message    *)
(* whose attempt row is gone, pruned or not, gets a new one, which is      *)
(* young.  The scheduler runs the two commands one after the other; only a *)
(* pass that is still at work when the repair is due again meets it.       *)
RepairMissingAttempt(m) ==
    /\ row[m].state \in {"sent", "delivered", "failed"}
    /\ attempts[m] = {}
    /\ attempts' = [attempts EXCEPT ![m] = {"young"}]
    /\ \/ ~Running /\ UNCHANGED faults
       \/ Running /\ faults < FaultBound /\ faults' = faults + 1
    /\ UNCHANGED <<row, events, pass, lock, reports>>

-----------------------------------------------------------------------------
(* Administrators.                                                         *)

SetHold(m, hold) ==
    /\ Exists(m)
    /\ hold \in {"timed", "indefinite"}
    /\ Save(m, [row[m] EXCEPT !.hold = hold])
    /\ UNCHANGED <<attempts, events, pass, lock, reports, faults>>

ReleaseHold(m) ==
    /\ Exists(m) /\ Held(m)
    /\ Save(m, [row[m] EXCEPT !.hold = "none"])
    /\ UNCHANGED <<attempts, events, pass, lock, reports, faults>>

-----------------------------------------------------------------------------
(* The prune command.                                                      *)

(* What a category lists when it begins.                                   *)
Candidates(category) ==
    {m \in Messages :
       /\ Exists(m) /\ ~Held(m)
       /\ CASE category = "drafts" ->
                 row[m].state = "draft" /\ ~row[m].discarded /\ row[m].updated = "old"
            [] category = "content" -> ~row[m].stamp /\ row[m].created = "old"
            [] category = "attempts" -> "old" \in attempts[m]
            [] category = "events" -> "old" \in events[m]
            [] category = "hard" -> /\ row[m].hidden /\ row[m].stamp
                                    /\ row[m].state \in Terminal
                                    /\ attempts[m] = {} /\ events[m] = {}}

After == [drafts |-> "content", content |-> "attempts", attempts |-> "events", events |-> "hard"]

Enter(p, category) ==
    pass' = [pass EXCEPT ![p] = [pc |-> category, todo |-> Candidates(category)]]

StartPass(p) ==
    /\ pass[p].pc = "idle"
    /\ lock = NoPass
    /\ lock' = p
    /\ Enter(p, "drafts")
    /\ UNCHANGED <<row, attempts, events, reports, faults>>

NextCategory(p) ==
    /\ pass[p].pc \notin {"idle", "hard"} /\ pass[p].todo = {}
    /\ Enter(p, After[pass[p].pc])
    /\ UNCHANGED <<row, attempts, events, lock, reports, faults>>

EndPass(p) ==
    /\ pass[p].pc = "hard" /\ pass[p].todo = {}
    /\ pass' = [pass EXCEPT ![p] = IdlePass]
    /\ lock' = IF lock = p THEN NoPass ELSE lock
    /\ UNCHANGED <<row, attempts, events, reports, faults>>

Handle(p, m, category) ==
    /\ pass[p].pc = category /\ m \in pass[p].todo
    /\ pass' = [pass EXCEPT ![p].todo = @ \ {m}]

(* Mutation: the erasure leaves content_redacted_at out.                   *)
ErasedUnstamped(m) == [row[m] EXCEPT !.content = "erased"]

Erased(m) == [row[m] EXCEPT !.content = "erased", !.stamp = TRUE]

(* pruneDrafts: whether the draft is still old is not asked again.         *)
PruneDraft(p, m) ==
    /\ Handle(p, m, "drafts")
    /\ \/ /\ row[m].state = "draft" /\ ~row[m].discarded /\ ~Held(m)
          /\ Save(m, [Erased(m) EXCEPT !.discarded = TRUE])
       \/ /\ row[m].state # "draft" \/ row[m].discarded \/ Held(m)
          /\ UNCHANGED row
    /\ UNCHANGED <<attempts, events, lock, reports, faults>>

(* Mutation: the hold is asked for only when the candidates are read.      *)
RedactListed(p, m) ==
    /\ Handle(p, m, "content")
    /\ \/ Exists(m) /\ ~row[m].stamp /\ Save(m, Erased(m))
       \/ (~Exists(m) \/ row[m].stamp) /\ UNCHANGED row
    /\ UNCHANGED <<attempts, events, lock, reports, faults>>

RedactOne(p, m) ==
    /\ Handle(p, m, "content")
    /\ \/ Exists(m) /\ ~row[m].stamp /\ ~Held(m) /\ Save(m, Erased(m))
       \/ (~Exists(m) \/ row[m].stamp \/ Held(m)) /\ UNCHANGED row
    /\ UNCHANGED <<attempts, events, lock, reports, faults>>

(* One statement deletes the listed rows of every message.                 *)
PruneDeliveryAttempts(p) ==
    /\ pass[p].pc = "attempts" /\ pass[p].todo # {}
    /\ pass' = [pass EXCEPT ![p].todo = {}]
    /\ attempts' = [m \in Messages |-> IF m \in pass[p].todo THEN attempts[m] \ {"old"}
                                       ELSE attempts[m]]
    /\ UNCHANGED <<row, events, lock, reports, faults>>

PruneProviderEvents(p) ==
    /\ pass[p].pc = "events" /\ pass[p].todo # {}
    /\ pass' = [pass EXCEPT ![p].todo = {}]
    /\ events' = [m \in Messages |-> IF m \in pass[p].todo THEN events[m] \ {"old"}
                                     ELSE events[m]]
    /\ UNCHANGED <<row, attempts, lock, reports, faults>>

(* Mutation: the children are asked for only when the candidates are read. *)
HardDeleteListed(p, m) ==
    /\ Handle(p, m, "hard")
    /\ \/ /\ Exists(m) /\ row[m].hidden /\ row[m].stamp /\ ~Held(m)
          /\ Save(m, [row[m] EXCEPT !.state = "gone"])
       \/ /\ ~Exists(m) \/ ~row[m].hidden \/ ~row[m].stamp \/ Held(m)
          /\ UNCHANGED row
    /\ UNCHANGED <<attempts, events, lock, reports, faults>>

(* hardDeleteOne: the state is not asked again.                            *)
HardDeleteOne(p, m) ==
    /\ Handle(p, m, "hard")
    /\ LET mayGo == /\ Exists(m) /\ row[m].hidden /\ row[m].stamp /\ ~Held(m)
                    /\ attempts[m] = {} /\ events[m] = {}
       IN \/ mayGo /\ Save(m, [row[m] EXCEPT !.state = "gone"])
          \/ ~mayGo /\ UNCHANGED row
    /\ UNCHANGED <<attempts, events, lock, reports, faults>>

(* What raises is counted as failed and passed over: one message, or all   *)
(* the rows of a statement.  In pruneDrafts it ends the pass.              *)
Skip(p) ==
    /\ faults < FaultBound
    /\ faults' = faults + 1
    /\ \/ \E m \in Messages, category \in {"content", "hard"} : Handle(p, m, category)
       \/ /\ pass[p].pc \in {"attempts", "events"} /\ pass[p].todo # {}
          /\ pass' = [pass EXCEPT ![p].todo = {}]
    /\ UNCHANGED <<row, attempts, events, lock, reports>>

(* The pass is killed; its lock stays until it expires.                    *)
KillPass(p) ==
    /\ pass[p].pc # "idle"
    /\ faults < FaultBound
    /\ faults' = faults + 1
    /\ pass' = [pass EXCEPT ![p] = IdlePass]
    /\ UNCHANGED <<row, attempts, events, lock, reports>>

-----------------------------------------------------------------------------
(* Time.                                                                   *)

(* The lock outlives the run that took it, or a slow run outlives its lock *)
(* and is overtaken by the next.                                           *)
LockExpires ==
    /\ lock # NoPass
    /\ lock' = NoPass
    /\ \/ pass[lock].pc = "idle" /\ UNCHANGED faults
       \/ pass[lock].pc # "idle" /\ faults < FaultBound /\ faults' = faults + 1
    /\ UNCHANGED <<row, attempts, events, pass, reports>>

HoldEnds(m) ==
    /\ row[m].hold = "timed"
    /\ row' = [row EXCEPT ![m].hold = "none"]
    /\ UNCHANGED <<attempts, events, pass, lock, reports, faults>>

Old(ages) == IF ages = {} THEN {} ELSE {"old"}

TimePasses(m) ==
    /\ ~Running
    /\ row' = [row EXCEPT ![m].created = "old", ![m].updated = "old"]
    /\ attempts' = [attempts EXCEPT ![m] = Old(@)]
    /\ events' = [events EXCEPT ![m] = Old(@)]
    /\ UNCHANGED <<pass, lock, reports, faults>>

-----------------------------------------------------------------------------
RunOn(p) ==
    \/ NextCategory(p) \/ EndPass(p)
    \/ PruneDeliveryAttempts(p) \/ PruneProviderEvents(p)
    \/ \E m \in Messages : PruneDraft(p, m) \/ RedactOne(p, m) \/ HardDeleteOne(p, m)

Next ==
    \/ \E m \in Messages :
         \/ EditDraft(m) \/ DiscardDraft(m) \/ BackToDraft(m) \/ Retry(m) \/ Cancel(m) \/ Hide(m)
         \/ \E state \in {"draft", "scheduled", "queued"} : Submit(m, state)
         \/ ClaimMessage(m) \/ StartAttempt(m) \/ Report(m) \/ RepairMissingAttempt(m)
         \/ \E state \in {"sent", "failed", "queued"} : EndAttempt(m, state)
         \/ \E hold \in {"timed", "indefinite"} : SetHold(m, hold)
         \/ ReleaseHold(m) \/ HoldEnds(m) \/ TimePasses(m)
    \/ \E p \in Passes :
         \/ StartPass(p) \/ RunOn(p) \/ Skip(p) \/ KillPass(p)
    \/ LockExpires

Spec == Init /\ [][Next]_vars

(* The scheduler keeps starting the command and passes run on; time passes *)
(* between them.  Nothing is assumed of owners, administrators, delivery,  *)
(* or the repair of attempt rows.                                          *)
Fairness ==
    /\ WF_vars(\E p \in Passes : StartPass(p))
    /\ \A p \in Passes : WF_vars(RunOn(p))
    /\ WF_vars(LockExpires)
    /\ \A m \in Messages : SF_vars(TimePasses(m))

FairSpec == Spec /\ Fairness

=============================================================================
