----------------------- MODULE ScheduleSafety_proofs -----------------------
(***************************************************************************)
(* Scheduling, for every number of messages, clients and passes: usage is  *)
(* reserved exactly while a message is queued, and within one life of a    *)
(* draft a schedule version names one schedule.                            *)
(***************************************************************************)
EXTENDS ScheduleProperties, TLAPS

(* A version is at least 1 while the message is scheduled, 0 otherwise,    *)
(* and never ahead of the number of decisions.                             *)
VersionsCount ==
    \A m \in Messages :
      /\ msg[m].state = "scheduled" <=> msg[m].scheduleVersion # 0
      /\ msg[m].scheduleVersion <= serial[m]

(* A view of the current life of a message shows version 0 while it is a   *)
(* draft, and later lags by as many versions as decisions.                 *)
ViewsKeepStep ==
    \A c \in Clients : view[c] # NoView =>
      LET m == view[c].msg
      IN /\ view[c].lives <= lives[m]
         /\ view[c].lives = lives[m] /\ msg[m].state = "draft" => view[c].scheduleVersion = 0
         /\ (/\ view[c].lives = lives[m]
             /\ msg[m].state = "scheduled"
             /\ view[c].scheduleVersion # 0) =>
              serial[m] + view[c].scheduleVersion = view[c].serial + msg[m].scheduleVersion

SInv == TypeOK /\ VersionsCount /\ ReservedIffQueued /\ ViewsKeepStep

-----------------------------------------------------------------------------
(* What the transactions write is a row.                                   *)
LEMMA ClearedIsRow ==
    ASSUME TypeOK, NEW m \in Messages, NEW state \in States
    PROVE  Cleared(m, state) \in MessageRow
<1>1. msg[m] \in MessageRow  BY DEF TypeOK
<1>2. 0 \in 0 .. DecisionBound  BY BoundsAssumption
<1>3. [msg[m] EXCEPT !.state = state] \in MessageRow  BY <1>1 DEF MessageRow
<1>4. [msg[m] EXCEPT !.state = state, !.scheduleVersion = 0] \in MessageRow
    BY <1>2, <1>3 DEF MessageRow
<1> QED  BY <1>4 DEF Cleared, MessageRow

LEMMA ScheduledIsRow ==
    ASSUME SInv, NEW m \in Messages, serial[m] < DecisionBound
    PROVE  Scheduled(m) \in MessageRow
<1>1. msg[m] \in MessageRow /\ serial[m] \in 0 .. DecisionBound  BY DEF SInv, TypeOK
<1>2. msg[m].scheduleVersion + 1 \in 0 .. DecisionBound
    BY <1>1, BoundsAssumption DEF SInv, VersionsCount, MessageRow
<1> QED  BY <1>1, <1>2 DEF Scheduled, MessageRow, States

LEMMA DeferredIsRow ==
    ASSUME TypeOK, NEW m \in Messages, NEW b \in BOOLEAN
    PROVE  [msg[m] EXCEPT !.deferred = b] \in MessageRow
<1>1. msg[m] \in MessageRow  BY DEF TypeOK
<1> QED  BY <1>1 DEF MessageRow

LEMMA DueIsRow ==
    ASSUME TypeOK, NEW m \in Messages
    PROVE  [msg[m] EXCEPT !.due = TRUE] \in MessageRow
<1>1. msg[m] \in MessageRow  BY DEF TypeOK
<1> QED  BY <1>1 DEF MessageRow

(* Each action keeps each part of the invariant.                           *)
LEMMA ReadKeeps ==
    ASSUME SInv, NEW c \in Clients, NEW m \in Messages, Read(c, m)
    PROVE  SInv'
<1>1. TypeOK'
    BY BoundsAssumption DEF SInv, TypeOK, MessageRow, States, Blocks, Views, Read
<1>2. VersionsCount'
    BY BoundsAssumption DEF SInv, TypeOK, VersionsCount, MessageRow, Read
<1>3. ReservedIffQueued'
    BY DEF SInv, TypeOK, ReservedIffQueued, MessageRow, Read
<1>4. ViewsKeepStep'
    BY BoundsAssumption DEF SInv, TypeOK, VersionsCount, ViewsKeepStep, MessageRow, Views, Read
<1> QED  BY <1>1, <1>2, <1>3, <1>4 DEF SInv

LEMMA UpdateDraftKeeps ==
    ASSUME SInv, NEW c \in Clients, NEW m \in Messages, UpdateDraft(c, m)
    PROVE  SInv'
<1>1. TypeOK'
    BY BoundsAssumption DEF SInv, TypeOK, MessageRow, States, Blocks, Views, UpdateDraft, DraftRequest
<1>2. VersionsCount'
    BY BoundsAssumption DEF SInv, TypeOK, VersionsCount, MessageRow, UpdateDraft, DraftRequest
<1>3. ReservedIffQueued'
    BY DEF SInv, TypeOK, ReservedIffQueued, MessageRow, UpdateDraft, DraftRequest
<1>4. ViewsKeepStep'
    BY BoundsAssumption DEF SInv, TypeOK, VersionsCount, ViewsKeepStep, MessageRow, Views, UpdateDraft, DraftRequest
<1> QED  BY <1>1, <1>2, <1>3, <1>4 DEF SInv

LEMMA DeleteDraftKeeps ==
    ASSUME SInv, NEW m \in Messages, DeleteDraft(m)
    PROVE  SInv'
<1>1. TypeOK'
    BY BoundsAssumption DEF SInv, TypeOK, MessageRow, States, Blocks, Views, DeleteDraft
<1>2. VersionsCount'
    BY BoundsAssumption DEF SInv, TypeOK, VersionsCount, MessageRow, DeleteDraft
<1>3. ReservedIffQueued'
    BY DEF SInv, TypeOK, ReservedIffQueued, MessageRow, DeleteDraft
<1>4. ViewsKeepStep'
    BY BoundsAssumption DEF SInv, TypeOK, VersionsCount, ViewsKeepStep, MessageRow, Views, DeleteDraft
<1> QED  BY <1>1, <1>2, <1>3, <1>4 DEF SInv

LEMMA SubmitKeeps ==
    ASSUME SInv, NEW c \in Clients, NEW m \in Messages, Submit(c, m)
    PROVE  SInv'
<1>1. TypeOK'
    BY ClearedIsRow DEF SInv, TypeOK, States, Submit, HandOver
<1>2. VersionsCount'
    BY BoundsAssumption DEF SInv, TypeOK, VersionsCount, MessageRow, Submit, DraftRequest, HandOver, Cleared
<1>3. ReservedIffQueued'
    BY DEF SInv, TypeOK, ReservedIffQueued, MessageRow, Submit, DraftRequest, HandOver, Cleared
<1>4. ViewsKeepStep'
    BY BoundsAssumption DEF SInv, TypeOK, VersionsCount, ViewsKeepStep, MessageRow, Views, Submit, DraftRequest, HandOver, Cleared
<1> QED  BY <1>1, <1>2, <1>3, <1>4 DEF SInv

LEMMA ScheduleKeeps ==
    ASSUME SInv, NEW c \in Clients, NEW m \in Messages, Schedule(c, m)
    PROVE  SInv'
<1>1. TypeOK'
    BY ScheduledIsRow, BoundsAssumption DEF SInv, TypeOK, States, Schedule
<1>2. VersionsCount'
    BY BoundsAssumption DEF SInv, TypeOK, VersionsCount, MessageRow, Schedule, DraftRequest, Scheduled
<1>3. ReservedIffQueued'
    BY DEF SInv, TypeOK, ReservedIffQueued, MessageRow, Schedule, DraftRequest, Scheduled
<1>4. ViewsKeepStep'
    BY BoundsAssumption DEF SInv, TypeOK, VersionsCount, ViewsKeepStep, MessageRow, Views, Schedule, DraftRequest, Scheduled
<1> QED  BY <1>1, <1>2, <1>3, <1>4 DEF SInv

LEMMA RescheduleKeeps ==
    ASSUME SInv, NEW c \in Clients, NEW m \in Messages, Reschedule(c, m)
    PROVE  SInv'
<1>1. TypeOK'
    BY ScheduledIsRow, BoundsAssumption DEF SInv, TypeOK, States, Reschedule
<1>2. VersionsCount'
    BY BoundsAssumption DEF SInv, TypeOK, VersionsCount, MessageRow, Reschedule, ScheduleRequest, Scheduled
<1>3. ReservedIffQueued'
    BY DEF SInv, TypeOK, ReservedIffQueued, MessageRow, Reschedule, ScheduleRequest, Scheduled
<1>4. ViewsKeepStep'
    BY BoundsAssumption DEF SInv, TypeOK, VersionsCount, ViewsKeepStep, MessageRow, Views, Reschedule, ScheduleRequest, Scheduled
<1> QED  BY <1>1, <1>2, <1>3, <1>4 DEF SInv

LEMMA UnscheduleKeeps ==
    ASSUME SInv, NEW c \in Clients, NEW m \in Messages, Unschedule(c, m)
    PROVE  SInv'
<1>1. TypeOK'
    BY ClearedIsRow DEF SInv, TypeOK, States, Unschedule
<1>2. VersionsCount'
    BY BoundsAssumption DEF SInv, TypeOK, VersionsCount, MessageRow, Unschedule, ScheduleRequest, Cleared
<1>3. ReservedIffQueued'
    BY DEF SInv, TypeOK, ReservedIffQueued, MessageRow, Unschedule, ScheduleRequest, Cleared
<1>4. ViewsKeepStep'
    BY BoundsAssumption DEF SInv, TypeOK, VersionsCount, ViewsKeepStep, MessageRow, Views, Unschedule, ScheduleRequest, Cleared
<1> QED  BY <1>1, <1>2, <1>3, <1>4 DEF SInv

LEMMA SendNowKeeps ==
    ASSUME SInv, NEW c \in Clients, NEW m \in Messages, SendNow(c, m)
    PROVE  SInv'
<1>1. TypeOK'
    BY ClearedIsRow DEF SInv, TypeOK, States, SendNow, HandOver
<1>2. VersionsCount'
    BY BoundsAssumption DEF SInv, TypeOK, VersionsCount, MessageRow, SendNow, ScheduleRequest, HandOver, Cleared
<1>3. ReservedIffQueued'
    BY DEF SInv, TypeOK, ReservedIffQueued, MessageRow, SendNow, ScheduleRequest, HandOver, Cleared
<1>4. ViewsKeepStep'
    BY BoundsAssumption DEF SInv, TypeOK, VersionsCount, ViewsKeepStep, MessageRow, Views, SendNow, ScheduleRequest, HandOver, Cleared
<1> QED  BY <1>1, <1>2, <1>3, <1>4 DEF SInv

LEMMA CancelKeeps ==
    ASSUME SInv, NEW m \in Messages, Cancel(m)
    PROVE  SInv'
<1>1. TypeOK'
    BY ClearedIsRow DEF SInv, TypeOK, States, Cancel
<1>2. VersionsCount'
    BY BoundsAssumption DEF SInv, TypeOK, VersionsCount, MessageRow, Cancel, Cleared
<1>3. ReservedIffQueued'
    BY DEF SInv, TypeOK, ReservedIffQueued, MessageRow, Cancel, Cleared
<1>4. ViewsKeepStep'
    BY BoundsAssumption DEF SInv, TypeOK, VersionsCount, ViewsKeepStep, MessageRow, Views, Cancel, Cleared
<1> QED  BY <1>1, <1>2, <1>3, <1>4 DEF SInv

LEMMA ListDueKeeps ==
    ASSUME SInv, NEW p \in Passes, NEW m \in Messages, ListDue(p, m)
    PROVE  SInv'
<1>1. TypeOK'
    BY BoundsAssumption DEF SInv, TypeOK, MessageRow, States, Blocks, Views, ListDue, IsDue
<1>2. VersionsCount'
    BY BoundsAssumption DEF SInv, TypeOK, VersionsCount, MessageRow, ListDue, IsDue
<1>3. ReservedIffQueued'
    BY DEF SInv, TypeOK, ReservedIffQueued, MessageRow, ListDue, IsDue
<1>4. ViewsKeepStep'
    BY BoundsAssumption DEF SInv, TypeOK, VersionsCount, ViewsKeepStep, MessageRow, Views, ListDue, IsDue
<1> QED  BY <1>1, <1>2, <1>3, <1>4 DEF SInv

LEMMA NotDueAnyMoreKeeps ==
    ASSUME SInv, NEW p \in Passes, NEW m \in Messages, NotDueAnyMore(p, m)
    PROVE  SInv'
<1>1. TypeOK'
    BY BoundsAssumption DEF SInv, TypeOK, MessageRow, States, Blocks, Views, NotDueAnyMore
<1>2. VersionsCount'
    BY BoundsAssumption DEF SInv, TypeOK, VersionsCount, MessageRow, NotDueAnyMore
<1>3. ReservedIffQueued'
    BY DEF SInv, TypeOK, ReservedIffQueued, MessageRow, NotDueAnyMore
<1>4. ViewsKeepStep'
    BY BoundsAssumption DEF SInv, TypeOK, VersionsCount, ViewsKeepStep, MessageRow, Views, NotDueAnyMore
<1> QED  BY <1>1, <1>2, <1>3, <1>4 DEF SInv

LEMMA DispatchKeeps ==
    ASSUME SInv, NEW p \in Passes, NEW m \in Messages, Dispatch(p, m)
    PROVE  SInv'
<1>1. TypeOK'
    BY ClearedIsRow DEF SInv, TypeOK, States, Dispatch, Take, HandOver
<1>2. VersionsCount'
    BY BoundsAssumption DEF SInv, TypeOK, VersionsCount, MessageRow, Dispatch, Take, IsDue, HandOver, Cleared
<1>3. ReservedIffQueued'
    BY DEF SInv, TypeOK, ReservedIffQueued, MessageRow, Dispatch, Take, IsDue, HandOver, Cleared
<1>4. ViewsKeepStep'
    BY BoundsAssumption DEF SInv, TypeOK, VersionsCount, ViewsKeepStep, MessageRow, Views, Dispatch, Take, IsDue, HandOver, Cleared
<1> QED  BY <1>1, <1>2, <1>3, <1>4 DEF SInv

LEMMA DeferKeeps ==
    ASSUME SInv, NEW p \in Passes, NEW m \in Messages, Defer(p, m)
    PROVE  SInv'
<1>1. TypeOK'
    BY DeferredIsRow DEF SInv, TypeOK, States, Defer, Take
<1>2. VersionsCount'
    BY BoundsAssumption DEF SInv, TypeOK, VersionsCount, MessageRow, Defer, Take, IsDue
<1>3. ReservedIffQueued'
    BY DEF SInv, TypeOK, ReservedIffQueued, MessageRow, Defer, Take, IsDue
<1>4. ViewsKeepStep'
    BY BoundsAssumption DEF SInv, TypeOK, VersionsCount, ViewsKeepStep, MessageRow, Views, Defer, Take, IsDue
<1> QED  BY <1>1, <1>2, <1>3, <1>4 DEF SInv

LEMMA FailToDraftKeeps ==
    ASSUME SInv, NEW p \in Passes, NEW m \in Messages, FailToDraft(p, m)
    PROVE  SInv'
<1>1. TypeOK'
    BY ClearedIsRow DEF SInv, TypeOK, States, FailToDraft, Take
<1>2. VersionsCount'
    BY BoundsAssumption DEF SInv, TypeOK, VersionsCount, MessageRow, FailToDraft, Take, IsDue, Cleared
<1>3. ReservedIffQueued'
    BY DEF SInv, TypeOK, ReservedIffQueued, MessageRow, FailToDraft, Take, IsDue, Cleared
<1>4. ViewsKeepStep'
    BY BoundsAssumption DEF SInv, TypeOK, VersionsCount, ViewsKeepStep, MessageRow, Views, FailToDraft, Take, IsDue, Cleared
<1> QED  BY <1>1, <1>2, <1>3, <1>4 DEF SInv

LEMMA RollBackKeeps ==
    ASSUME SInv, NEW p \in Passes, NEW m \in Messages, RollBack(p, m)
    PROVE  SInv'
<1>1. TypeOK'
    BY BoundsAssumption DEF SInv, TypeOK, MessageRow, States, Blocks, Views, RollBack, Take, IsDue
<1>2. VersionsCount'
    BY BoundsAssumption DEF SInv, TypeOK, VersionsCount, MessageRow, RollBack, Take, IsDue
<1>3. ReservedIffQueued'
    BY DEF SInv, TypeOK, ReservedIffQueued, MessageRow, RollBack, Take, IsDue
<1>4. ViewsKeepStep'
    BY BoundsAssumption DEF SInv, TypeOK, VersionsCount, ViewsKeepStep, MessageRow, Views, RollBack, Take, IsDue
<1> QED  BY <1>1, <1>2, <1>3, <1>4 DEF SInv

LEMMA ReleaseClaimSafelyKeeps ==
    ASSUME SInv, NEW p \in Passes, NEW m \in Messages, ReleaseClaimSafely(p, m)
    PROVE  SInv'
<1>1. TypeOK'
    BY DeferredIsRow DEF SInv, TypeOK, ReleaseClaimSafely
<1>2. VersionsCount'
    BY BoundsAssumption DEF SInv, TypeOK, VersionsCount, MessageRow, ReleaseClaimSafely
<1>3. ReservedIffQueued'
    BY DEF SInv, TypeOK, ReservedIffQueued, MessageRow, ReleaseClaimSafely
<1>4. ViewsKeepStep'
    BY BoundsAssumption DEF SInv, TypeOK, VersionsCount, ViewsKeepStep, MessageRow, Views, ReleaseClaimSafely
<1> QED  BY <1>1, <1>2, <1>3, <1>4 DEF SInv

LEMMA PassDiesKeeps ==
    ASSUME SInv, NEW p \in Passes, PassDies(p)
    PROVE  SInv'
<1>1. TypeOK'
    BY BoundsAssumption DEF SInv, TypeOK, MessageRow, States, Blocks, Views, PassDies
<1>2. VersionsCount'
    BY BoundsAssumption DEF SInv, TypeOK, VersionsCount, MessageRow, PassDies
<1>3. ReservedIffQueued'
    BY DEF SInv, TypeOK, ReservedIffQueued, MessageRow, PassDies
<1>4. ViewsKeepStep'
    BY BoundsAssumption DEF SInv, TypeOK, VersionsCount, ViewsKeepStep, MessageRow, Views, PassDies
<1> QED  BY <1>1, <1>2, <1>3, <1>4 DEF SInv

LEMMA TimeComesKeeps ==
    ASSUME SInv, NEW m \in Messages, TimeComes(m)
    PROVE  SInv'
<1>1. TypeOK'
    BY DueIsRow DEF SInv, TypeOK, TimeComes
<1>2. VersionsCount'
    BY BoundsAssumption DEF SInv, TypeOK, VersionsCount, MessageRow, TimeComes
<1>3. ReservedIffQueued'
    BY DEF SInv, TypeOK, ReservedIffQueued, MessageRow, TimeComes
<1>4. ViewsKeepStep'
    BY BoundsAssumption DEF SInv, TypeOK, VersionsCount, ViewsKeepStep, MessageRow, Views, TimeComes
<1> QED  BY <1>1, <1>2, <1>3, <1>4 DEF SInv

LEMMA DeferralEndsKeeps ==
    ASSUME SInv, NEW m \in Messages, DeferralEnds(m)
    PROVE  SInv'
<1>1. TypeOK'
    BY DeferredIsRow DEF SInv, TypeOK, States, DeferralEnds
<1>2. VersionsCount'
    BY BoundsAssumption DEF SInv, TypeOK, VersionsCount, MessageRow, DeferralEnds
<1>3. ReservedIffQueued'
    BY DEF SInv, TypeOK, ReservedIffQueued, MessageRow, DeferralEnds
<1>4. ViewsKeepStep'
    BY BoundsAssumption DEF SInv, TypeOK, VersionsCount, ViewsKeepStep, MessageRow, Views, DeferralEnds
<1> QED  BY <1>1, <1>2, <1>3, <1>4 DEF SInv

LEMMA BlockChangesKeeps ==
    ASSUME SInv, NEW m \in Messages, NEW kind \in Blocks, BlockChanges(m, kind)
    PROVE  SInv'
<1>1. TypeOK'
    BY BoundsAssumption DEF SInv, TypeOK, MessageRow, States, Blocks, Views, BlockChanges
<1>2. VersionsCount'
    BY BoundsAssumption DEF SInv, TypeOK, VersionsCount, MessageRow, BlockChanges
<1>3. ReservedIffQueued'
    BY DEF SInv, TypeOK, ReservedIffQueued, MessageRow, BlockChanges
<1>4. ViewsKeepStep'
    BY BoundsAssumption DEF SInv, TypeOK, VersionsCount, ViewsKeepStep, MessageRow, Views, BlockChanges
<1> QED  BY <1>1, <1>2, <1>3, <1>4 DEF SInv
-----------------------------------------------------------------------------
LEMMA InitEstablishes == Init => SInv
<1> SUFFICES ASSUME Init PROVE SInv  OBVIOUS
<1>1. TypeOK
    BY BoundsAssumption DEF Init, TypeOK, MessageRow, States, Blocks
<1>2. VersionsCount /\ ReservedIffQueued /\ ViewsKeepStep
    BY DEF Init, VersionsCount, ReservedIffQueued, ViewsKeepStep
<1> QED  BY <1>1, <1>2 DEF SInv

LEMMA NextKeeps == SInv /\ [Next]_vars => SInv'
<1> SUFFICES ASSUME SInv, [Next]_vars PROVE SInv'  OBVIOUS
<1>1. CASE \E c \in Clients : \E m \in Messages : Read(c, m) \/ ClientStep(c, m)
    BY <1>1, ReadKeeps, UpdateDraftKeeps, SubmitKeeps, ScheduleKeeps, RescheduleKeeps,
       UnscheduleKeeps, SendNowKeeps DEF ClientStep
<1>2. CASE \E p \in Passes : \E m \in Messages : ListDue(p, m) \/ DispatcherStep(p, m)
    BY <1>2, ListDueKeeps, NotDueAnyMoreKeeps, DispatchKeeps, DeferKeeps, FailToDraftKeeps,
       RollBackKeeps, ReleaseClaimSafelyKeeps DEF DispatcherStep
<1>3. CASE \E p \in Passes : PassDies(p)
    BY <1>3, PassDiesKeeps
<1>4. CASE \E m \in Messages : DeleteDraft(m) \/ Cancel(m) \/ TimeComes(m) \/ DeferralEnds(m)
    BY <1>4, DeleteDraftKeeps, CancelKeeps, TimeComesKeeps, DeferralEndsKeeps
<1>5. CASE \E m \in Messages : \E kind \in Blocks : BlockChanges(m, kind)
    BY <1>5, BlockChangesKeeps
<1>6. CASE UNCHANGED vars
    BY <1>6 DEF vars, SInv, TypeOK, VersionsCount, ReservedIffQueued, ViewsKeepStep
<1> QED  BY <1>1, <1>2, <1>3, <1>4, <1>5, <1>6 DEF Next

(* The invariant of scheduling always holds: versions count decisions      *)
(* within a life, whatever order requests, passes, rollbacks and deaths    *)
(* come in.                                                                *)
THEOREM ScheduleInvariant_Holds == Spec => []SInv
<1>1. Init => SInv  BY InitEstablishes
<1>2. SInv /\ [Next]_vars => SInv'  BY NextKeeps
<1> QED  BY <1>1, <1>2, PTL DEF Spec

(* Every row, view, claim and counter of the scheduler keeps its type.     *)
THEOREM ScheduleTypeCorrect == Spec => []TypeOK
<1>1. SInv => TypeOK  BY DEF SInv
<1> QED  BY <1>1, ScheduleInvariant_Holds, PTL

(* Usage is reserved exactly while a message is queued.                    *)
THEOREM ReservationsFollowTheQueue == Spec => []ReservedIffQueued
<1>1. SInv => ReservedIffQueued  BY DEF SInv
<1> QED  BY <1>1, ScheduleInvariant_Holds, PTL

(* Within one life of a draft, OutboundMessage::schedule_version names the *)
(* schedule a client saw.                                                  *)
THEOREM VersionNamesSchedule == Spec => []TokenNamesSchedule
<1>1. SInv => TokenNamesSchedule
  <2> SUFFICES ASSUME SInv, NEW c \in Clients, view[c] # NoView,
                      msg[view[c].msg].state = "scheduled",
                      view[c].lives = lives[view[c].msg],
                      view[c].scheduleVersion = msg[view[c].msg].scheduleVersion
               PROVE  view[c].serial = serial[view[c].msg]
      BY DEF TokenNamesSchedule
  <2>1. view[c] \in Views /\ view[c].msg \in Messages  BY DEF SInv, TypeOK, Views
  <2>2. view[c].scheduleVersion # 0  BY <2>1 DEF SInv, VersionsCount
  <2>3. serial[view[c].msg] + view[c].scheduleVersion
          = view[c].serial + msg[view[c].msg].scheduleVersion
      BY <2>1, <2>2 DEF SInv, ViewsKeepStep
  <2>4. serial[view[c].msg] \in Nat /\ view[c].serial \in Nat /\ view[c].scheduleVersion \in Nat
      BY <2>1, BoundsAssumption DEF SInv, TypeOK, Views
  <2> QED  BY <2>3, <2>4
<1> QED  BY <1>1, ScheduleInvariant_Holds, PTL

(* A scheduled message is queued only when its time has come or by         *)
(* send-now.                                                               *)
THEOREM NeverSentEarly == Spec => NeverEarly
<1>1. SInv /\ [Next]_vars => [QueuedInTime]_vars
  <2> SUFFICES ASSUME SInv, Next, NEW m \in Messages,
                      msg[m].state = "scheduled", msg'[m].state = "queued"
               PROVE  IsDue(m) \/ \E c \in Clients : SendNow(c, m)
      BY DEF QueuedInTime
  <2>1. msg \in [Messages -> MessageRow]  BY DEF SInv, TypeOK
  <2>2. CASE \E c \in Clients : \E n \in Messages : Read(c, n) \/ ClientStep(c, n)
    <3>1. PICK c \in Clients, n \in Messages : Read(c, n) \/ ClientStep(c, n)  BY <2>2
    <3>2. CASE SendNow(c, n)
        BY <2>1, <3>2 DEF SendNow, HandOver
    <3>3. CASE Submit(c, n)
        BY <2>1, <3>3 DEF Submit, DraftRequest, HandOver
    <3>4. CASE Read(c, n)         BY <3>4 DEF Read
    <3>5. CASE UpdateDraft(c, n)  BY <2>1, <3>5 DEF UpdateDraft, MessageRow
    <3>6. CASE Unschedule(c, n)   BY <2>1, <3>6 DEF Unschedule, Cleared, MessageRow
    <3>7. CASE Schedule(c, n)     BY <2>1, <3>7 DEF Schedule, Scheduled, MessageRow
    <3>8. CASE Reschedule(c, n)   BY <2>1, <3>8 DEF Reschedule, Scheduled, MessageRow
    <3> QED  BY <3>1, <3>2, <3>3, <3>4, <3>5, <3>6, <3>7, <3>8 DEF ClientStep
  <2>3. CASE \E p \in Passes : \E n \in Messages : ListDue(p, n) \/ DispatcherStep(p, n)
    <3>1. PICK p \in Passes, n \in Messages : ListDue(p, n) \/ DispatcherStep(p, n)  BY <2>3
    <3>2. CASE Dispatch(p, n)
        BY <2>1, <3>2 DEF Dispatch, Take, HandOver
    <3>3. CASE ListDue(p, n) \/ NotDueAnyMore(p, n) \/ RollBack(p, n)
        BY <3>3 DEF ListDue, NotDueAnyMore, RollBack
    <3>4. CASE Defer(p, n)
        BY <2>1, <3>4 DEF Defer, MessageRow
    <3>5. CASE FailToDraft(p, n)
        BY <2>1, <3>5 DEF FailToDraft, Cleared, MessageRow
    <3>6. CASE ReleaseClaimSafely(p, n)
        BY <2>1, <3>6 DEF ReleaseClaimSafely, MessageRow
    <3> QED  BY <3>1, <3>2, <3>3, <3>4, <3>5, <3>6 DEF DispatcherStep
  <2>4. CASE \E p \in Passes : PassDies(p)
      BY <2>4 DEF PassDies
  <2>5. CASE \E n \in Messages : DeleteDraft(n) \/ Cancel(n) \/ TimeComes(n) \/ DeferralEnds(n)
    <3>1. PICK n \in Messages : DeleteDraft(n) \/ Cancel(n) \/ TimeComes(n) \/ DeferralEnds(n)
        BY <2>5
    <3>2. CASE DeleteDraft(n)   BY <2>1, <3>2 DEF DeleteDraft, MessageRow
    <3>3. CASE Cancel(n)        BY <2>1, <3>3 DEF Cancel, Cleared, MessageRow
    <3>4. CASE TimeComes(n)     BY <2>1, <3>4 DEF TimeComes, MessageRow
    <3>5. CASE DeferralEnds(n)  BY <2>1, <3>5 DEF DeferralEnds, MessageRow
    <3> QED  BY <3>1, <3>2, <3>3, <3>4, <3>5
  <2>6. CASE \E n \in Messages : \E kind \in Blocks : BlockChanges(n, kind)
      BY <2>6 DEF BlockChanges
  <2> QED  BY <2>2, <2>3, <2>4, <2>5, <2>6 DEF Next
<1> QED  BY <1>1, ScheduleInvariant_Holds, PTL DEF Spec, NeverEarly

(* A message that is queued, cancelled or deleted never goes back to a     *)
(* draft or a schedule.                                                    *)
THEOREM FinalStaysFinal == Spec => NoWayBack
<1>1. SInv /\ [Next]_vars => [StaysFinal]_vars
  <2> SUFFICES ASSUME SInv, Next, NEW m \in Messages,
                      msg[m].state \notin {"draft", "scheduled"}
               PROVE  \/ msg'[m].state = msg[m].state
                      \/ msg[m].state = "queued" /\ msg'[m].state = "cancelled"
      BY DEF StaysFinal
  <2>1. msg \in [Messages -> MessageRow]  BY DEF SInv, TypeOK
  <2>2. CASE \E c \in Clients : \E n \in Messages : Read(c, n) \/ ClientStep(c, n)
    <3>1. PICK c \in Clients, n \in Messages : Read(c, n) \/ ClientStep(c, n)  BY <2>2
    <3>2. CASE Read(c, n)         BY <3>2 DEF Read
    <3>3. CASE Submit(c, n)       BY <2>1, <3>3 DEF Submit, DraftRequest, HandOver
    <3>4. CASE UpdateDraft(c, n)  BY <2>1, <3>4 DEF UpdateDraft, DraftRequest, MessageRow
    <3>5. CASE Schedule(c, n)     BY <2>1, <3>5 DEF Schedule, DraftRequest
    <3>6. CASE Reschedule(c, n)   BY <2>1, <3>6 DEF Reschedule, ScheduleRequest
    <3>7. CASE Unschedule(c, n)   BY <2>1, <3>7 DEF Unschedule, ScheduleRequest
    <3>8. CASE SendNow(c, n)      BY <2>1, <3>8 DEF SendNow, ScheduleRequest, HandOver
    <3> QED  BY <3>1, <3>2, <3>3, <3>4, <3>5, <3>6, <3>7, <3>8 DEF ClientStep
  <2>3. CASE \E p \in Passes : \E n \in Messages : ListDue(p, n) \/ DispatcherStep(p, n)
    <3>1. PICK p \in Passes, n \in Messages : ListDue(p, n) \/ DispatcherStep(p, n)  BY <2>3
    <3>2. CASE Dispatch(p, n)     BY <2>1, <3>2 DEF Dispatch, Take, IsDue, HandOver
    <3>3. CASE ListDue(p, n) \/ NotDueAnyMore(p, n) \/ RollBack(p, n)
        BY <3>3 DEF ListDue, NotDueAnyMore, RollBack
    <3>4. CASE Defer(p, n)        BY <2>1, <3>4 DEF Defer, MessageRow
    <3>5. CASE FailToDraft(p, n)  BY <2>1, <3>5 DEF FailToDraft, Take, IsDue
    <3>6. CASE ReleaseClaimSafely(p, n)
        BY <2>1, <3>6 DEF ReleaseClaimSafely, MessageRow
    <3> QED  BY <3>1, <3>2, <3>3, <3>4, <3>5, <3>6 DEF DispatcherStep
  <2>4. CASE \E p \in Passes : PassDies(p)
      BY <2>4 DEF PassDies
  <2>5. CASE \E n \in Messages : DeleteDraft(n) \/ Cancel(n) \/ TimeComes(n) \/ DeferralEnds(n)
    <3>1. PICK n \in Messages : DeleteDraft(n) \/ Cancel(n) \/ TimeComes(n) \/ DeferralEnds(n)
        BY <2>5
    <3>2. CASE DeleteDraft(n)   BY <2>1, <3>2 DEF DeleteDraft
    <3>3. CASE Cancel(n)        BY <2>1, <3>3 DEF Cancel, Cleared, MessageRow
    <3>4. CASE TimeComes(n)     BY <2>1, <3>4 DEF TimeComes, MessageRow
    <3>5. CASE DeferralEnds(n)  BY <2>1, <3>5 DEF DeferralEnds, MessageRow
    <3> QED  BY <3>1, <3>2, <3>3, <3>4, <3>5
  <2>6. CASE \E n \in Messages : \E kind \in Blocks : BlockChanges(n, kind)
      BY <2>6 DEF BlockChanges
  <2> QED  BY <2>2, <2>3, <2>4, <2>5, <2>6 DEF Next
<1> QED  BY <1>1, ScheduleInvariant_Holds, PTL DEF Spec, NoWayBack

=============================================================================
