---------------------------- MODULE OutboundUsage ----------------------------
(***************************************************************************)
(* Usage accounting of one subscription (OutboundUsageService): a message  *)
(* reserves its units of every limited dimension in the transaction that   *)
(* queues it, and the reservation is committed, released or expired later. *)
(*                                                                         *)
(* reserve is the one operation that is not a single step: the usage row   *)
(* of a dimension is locked only if there is one, and the transactions of  *)
(* two messages overlap.  Everything else runs under the lock of the       *)
(* reservation and of the usage rows it touches, and is one step.          *)
(*                                                                         *)
(* A usage row is named by the message whose transaction created it and    *)
(* the dimension.  corrected is not program state: it adds up what         *)
(* administrators changed a counter by.                                    *)
(***************************************************************************)
EXTENDS Integers, FiniteSets

CONSTANTS
    Messages,
    Dims,           \* the metered dimensions
    Units,          \* Units[m][d]: what message m costs in dimension d
    MaxUnits,       \* bound: the largest of them
    Unlimited,      \* a dimension the plan does not limit
    Limits,         \* the limits a plan may set
    Corrections,    \* the values an administrator may set a counter to
    PeriodLength, TimeBound,  \* bound: the clock stops there
    RetryBound,     \* bound: retries of a message
    RepeatableRead, \* is the database MySQL at its default isolation?
    NoRow

ASSUME UnitsAssumption ==
    /\ MaxUnits \in Nat
    /\ Units \in [Messages -> [Dims -> 0 .. MaxUnits]]
ASSUME LimitsAssumption ==
    /\ Limits \subseteq Nat
    /\ Unlimited \notin Nat
    /\ Corrections \subseteq Int
ASSUME TimeAssumption ==
    PeriodLength \in Nat \ {0} /\ TimeBound \in Nat /\ RetryBound \in Nat
ASSUME SetsAssumption ==
    /\ IsFiniteSet(Messages)
    /\ NoRow \notin Messages \X Dims
    /\ RepeatableRead \in BOOLEAN

VARIABLES
    clock,
    plan,         \* what the plan allows in each dimension
    usage,        \* the subscription_usage rows that are committed
    reservation,  \* the outbound_usage_reservations rows
    msg,          \* the state of each message, as far as usage depends on it
    tx,           \* the transaction that queues a message
    calls,        \* commit and release calls a delivery job has still to make
    listed,       \* what the expiry pass has read and will expire
    corrected,
    retries       \* how often a message was queued again

vars == <<clock, plan, usage, reservation, msg, tx, calls, listed, corrected, retries>>

-----------------------------------------------------------------------------
Rows == Messages \X Dims

Times == 0 .. TimeBound

(* failed: before any transport attempt; spent: after one.                 *)
MessageStates == {"new", "queued", "sent", "failed", "spent", "cancelled"}

UsageRow == [exists : BOOLEAN, start : Times, end : Nat, used : Nat, limit : Nat]

Reservation == [state : {"none", "reserved", "committed", "released", "expired"},
                at : Times, row : [Dims -> Rows \cup {NoRow}]]

(* seen and plan: reservations and limits when the transaction began.      *)
Transaction == [pc : {"none", "open", "checked"}, seen : SUBSET Messages,
                plan : [Dims -> Limits \cup {Unlimited}],
                row : [Dims -> Rows \cup {NoRow}], limit : [Dims -> Nat], at : Times]

TypeOK ==
    /\ clock \in Times
    /\ plan \in [Dims -> Limits \cup {Unlimited}]
    /\ usage \in [Rows -> UsageRow]
    /\ reservation \in [Messages -> Reservation]
    /\ msg \in [Messages -> MessageStates]
    /\ tx \in [Messages -> Transaction]
    /\ calls \subseteq {"commit", "release"} \X Messages
    /\ listed \subseteq Messages
    /\ corrected \in [Rows -> Int]
    /\ retries \in [Messages -> 0 .. RetryBound]

Uncharged == [d \in Dims |-> NoRow]

NoTransaction ==
    [pc |-> "none", seen |-> {}, plan |-> [d \in Dims |-> Unlimited], row |-> Uncharged, limit |-> [d \in Dims |-> 0], at |-> 0]

Init ==
    /\ clock = 0
    /\ plan \in [Dims -> Limits \cup {Unlimited}]
    /\ usage = [r \in Rows |-> [exists |-> FALSE, start |-> 0, end |-> 0, used |-> 0, limit |-> 0]]
    /\ reservation = [m \in Messages |-> [state |-> "none", at |-> 0, row |-> Uncharged]]
    /\ msg = [m \in Messages |-> "new"]
    /\ tx = [m \in Messages |-> NoTransaction]
    /\ calls = {}
    /\ listed = {}
    /\ corrected = [r \in Rows |-> 0]
    /\ retries = [m \in Messages |-> 0]

-----------------------------------------------------------------------------
(* Sums and periods.                                                       *)

(* The units of dimension d that the messages of S cost together.          *)
Cost(S, d) ==
    Cardinality({u \in S \X (1 .. MaxUnits) : u[2] <= Units[u[1]][d]})

PeriodStart(t) == t - (t % PeriodLength)

InState(state) == {m \in Messages : reservation[m].state = state}

ChargedTo(r) == {m \in Messages : reservation[m].row[r[2]] = r}

(* The rows of d whose period is not over, its last instant included.      *)
Current(d) == {r \in Rows : r[2] = d /\ usage[r].exists /\ usage[r].end >= clock}

(* The transactions that hold a usage row from their check to their end.   *)
Locked(r) == \E m \in Messages : tx[m].pc = "checked" /\ tx[m].row[r[2]] = r

(* Plain reads of a transaction: at repeatable read they see its first     *)
(* snapshot, at read committed what is committed when they are made.       *)
Known(m) == IF RepeatableRead THEN tx[m].seen ELSE InState("reserved")

PlanOf(m) == IF RepeatableRead THEN tx[m].plan ELSE plan

(* Mutation: only what is committed counts against the limit.              *)
OutstandingIgnored(m, d, start) == 0

(* outstandingReservedUnits, a plain read.                                 *)
Outstanding(m, d, start) == Cost({x \in Known(m) : reservation[x].at >= start}, d)

-----------------------------------------------------------------------------
(* reserve.                                                                *)

(* The transaction that queues m has begun and found no reservation of it. *)
(* That read, or an earlier one, fixes the snapshot of its plain reads.    *)
Begin(m) ==
    /\ msg[m] = "new"
    /\ tx[m].pc = "none"
    /\ tx' = [tx EXCEPT ![m] = [NoTransaction EXCEPT !.pc = "open", !.seen = InState("reserved"),
                                                    !.plan = plan]]
    /\ UNCHANGED <<clock, plan, usage, reservation, msg, calls, listed, corrected, retries>>

(* The row m is charged to in d: none, a current one, or one of its own.   *)
(* This read locks, and so it sees what is committed in any case.          *)
RowChoices(m, d) ==
    IF PlanOf(m)[d] = Unlimited THEN {NoRow}
    ELSE IF Current(d) = {} THEN {<<m, d>>} ELSE Current(d)

(* At MySQL's default isolation a locking read that finds no row waits for *)
(* the row another transaction has inserted, or one of the two is rolled   *)
(* back; at read committed it does not see that row.                       *)
Awaited(m, d, r) ==
    /\ RepeatableRead /\ r = <<m, d>>
    /\ \E x \in Messages : tx[x].pc = "checked" /\ tx[x].row[d] = <<x, d>>

Allowed(m, d, r) ==
    r # NoRow =>
      LET own   == r = <<m, d>>
          used  == IF own THEN 0 ELSE usage[r].used
          start == IF own THEN PeriodStart(clock) ELSE usage[r].start
      IN used + Outstanding(m, d, start) + Units[m][d] <= PlanOf(m)[d]

(* checkAllowance, when every dimension has room.                          *)
CheckAllowance(m) ==
    /\ tx[m].pc = "open"
    /\ \E row \in [Dims -> Rows \cup {NoRow}] :
         /\ \A d \in Dims : row[d] \in RowChoices(m, d)
         /\ \A d \in Dims : row[d] # NoRow => ~Locked(row[d]) /\ ~Awaited(m, d, row[d])
         /\ \A d \in Dims : Allowed(m, d, row[d])
         /\ tx' = [tx EXCEPT ![m].pc = "checked", ![m].row = row, ![m].at = clock,
                             ![m].limit = [d \in Dims |-> IF row[d] = NoRow THEN 0
                                                          ELSE PlanOf(m)[d]]]
    /\ UNCHANGED <<clock, plan, usage, reservation, msg, calls, listed, corrected, retries>>

(* A dimension has no room, or the transaction fails for another reason:   *)
(* the message is not queued and all the transaction wrote is undone.      *)
RollBack(m) ==
    /\ tx[m].pc # "none"
    /\ tx' = [tx EXCEPT ![m] = NoTransaction]
    /\ UNCHANGED <<clock, plan, usage, reservation, msg, calls, listed, corrected, retries>>

(* A row as m's transaction leaves it: created, or its limit brought up to *)
(* date.                                                                   *)
RowAfter(m, r) ==
    IF r = <<m, r[2]>>
    THEN [exists |-> TRUE, start |-> PeriodStart(tx[m].at),
          end |-> PeriodStart(tx[m].at) + PeriodLength, used |-> 0, limit |-> tx[m].limit[r[2]]]
    ELSE [usage[r] EXCEPT !.limit = tx[m].limit[r[2]]]

Reserve(m) ==
    /\ tx[m].pc = "checked"
    /\ usage' = [r \in Rows |-> IF tx[m].row[r[2]] = r THEN RowAfter(m, r) ELSE usage[r]]
    /\ reservation' = [reservation EXCEPT ![m] =
                         [state |-> "reserved", at |-> clock, row |-> tx[m].row]]
    /\ msg' = [msg EXCEPT ![m] = "queued"]
    /\ tx' = [tx EXCEPT ![m] = NoTransaction]
    /\ UNCHANGED <<clock, plan, calls, listed, corrected, retries>>

-----------------------------------------------------------------------------
(* commit, release and the delivery job that calls them.                   *)

(* Mutation: a reservation that is not reserved any more is charged too.   *)
CommitAgain(m) ==
    /\ reservation[m].state # "none"
    /\ \A r \in Rows : m \in ChargedTo(r) => ~Locked(r)
    /\ usage' = [r \in Rows |-> IF m \in ChargedTo(r)
                                THEN [usage[r] EXCEPT !.used = @ + Units[m][r[2]]] ELSE usage[r]]
    /\ reservation' = [reservation EXCEPT ![m].state = "committed"]

Commit(m) ==
    /\ reservation[m].state = "reserved"
    /\ \A r \in Rows : m \in ChargedTo(r) => ~Locked(r)
    /\ usage' = [r \in Rows |-> IF m \in ChargedTo(r)
                                THEN [usage[r] EXCEPT !.used = @ + Units[m][r[2]]] ELSE usage[r]]
    /\ reservation' = [reservation EXCEPT ![m].state = "committed"]

Release(m) ==
    reservation' = [reservation EXCEPT ![m].state = IF @ = "reserved" THEN "released" ELSE @]

(* The job has recorded how the message ended and calls usage next.  A     *)
(* call may come at any time later, or never: the worker may die first.    *)
Delivered(m, outcome) ==
    /\ msg[m] = "queued"
    /\ msg' = [msg EXCEPT ![m] = outcome]
    /\ calls' = calls \cup IF outcome = "sent" THEN {<<"commit", m>>}
                           ELSE IF outcome = "failed" THEN {<<"release", m>>} ELSE {}
    /\ UNCHANGED <<clock, plan, usage, reservation, tx, listed, corrected, retries>>

CommitCall(m) ==
    /\ <<"commit", m>> \in calls
    /\ calls' = calls \ {<<"commit", m>>}
    /\ \/ Commit(m)
       \/ reservation[m].state # "reserved" /\ UNCHANGED <<usage, reservation>>
    /\ UNCHANGED <<clock, plan, msg, tx, listed, corrected, retries>>

ReleaseCall(m) ==
    /\ <<"release", m>> \in calls
    /\ calls' = calls \ {<<"release", m>>}
    /\ Release(m)
    /\ UNCHANGED <<clock, plan, usage, msg, tx, listed, corrected, retries>>

(* Cancelling releases in the transaction that cancels.                    *)
Cancel(m) ==
    /\ msg[m] = "queued"
    /\ msg' = [msg EXCEPT ![m] = "cancelled"]
    /\ Release(m)
    /\ UNCHANGED <<clock, plan, usage, tx, calls, listed, corrected, retries>>

(* A retry queues the same message under the same reservation.             *)
Retry(m) ==
    /\ msg[m] \in {"failed", "spent"}
    /\ retries[m] < RetryBound
    /\ msg' = [msg EXCEPT ![m] = "queued"]
    /\ retries' = [retries EXCEPT ![m] = @ + 1]
    /\ UNCHANGED <<clock, plan, usage, reservation, tx, calls, listed, corrected>>

-----------------------------------------------------------------------------
(* The reconcile-usage command, and administrators.                        *)

(* repairMissingCommittedUsage.                                            *)
RepairMissingCommittedUsage(m) ==
    /\ msg[m] = "sent"
    /\ Commit(m)
    /\ UNCHANGED <<clock, plan, msg, tx, calls, listed, corrected, retries>>

(* expireReservations reads the reservations past their time together with *)
(* their messages and keeps those whose message ended without an attempt.  *)
ListAbandoned(m) ==
    /\ reservation[m].state = "reserved"
    /\ msg[m] \in {"cancelled", "failed"}
    /\ listed' = listed \cup {m}
    /\ UNCHANGED <<clock, plan, usage, reservation, msg, tx, calls, corrected, retries>>

(* Mutation: the reservation is not read again under the lock.             *)
ExpireListed(m) ==
    /\ m \in listed
    /\ listed' = listed \ {m}
    /\ reservation' = [reservation EXCEPT ![m].state = "expired"]
    /\ UNCHANGED <<clock, plan, usage, msg, tx, calls, corrected, retries>>

(* Of these it expires, one by one, what is still reserved.                *)
Expire(m) ==
    /\ m \in listed
    /\ listed' = listed \ {m}
    /\ reservation' = [reservation EXCEPT ![m].state = IF @ = "reserved" THEN "expired" ELSE @]
    /\ UNCHANGED <<clock, plan, usage, msg, tx, calls, corrected, retries>>

CorrectedValue(value) == IF value < 0 THEN 0 ELSE value

(* correctUsage sets the counter, whatever was reserved against it.        *)
CorrectUsage(r, value) ==
    /\ r \in Current(r[2])
    /\ plan[r[2]] # Unlimited
    /\ ~Locked(r)
    /\ usage' = [usage EXCEPT ![r].used = CorrectedValue(value)]
    /\ corrected' = [corrected EXCEPT ![r] = @ + CorrectedValue(value) - usage[r].used]
    /\ UNCHANGED <<clock, plan, reservation, msg, tx, calls, listed, retries>>

ChangePlan(d, limit) ==
    /\ limit # plan[d]
    /\ plan' = [plan EXCEPT ![d] = limit]
    /\ UNCHANGED <<clock, usage, reservation, msg, tx, calls, listed, corrected, retries>>

Tick ==
    /\ clock < TimeBound
    /\ clock' = clock + 1
    /\ UNCHANGED <<plan, usage, reservation, msg, tx, calls, listed, corrected, retries>>

-----------------------------------------------------------------------------
Next ==
    \/ \E m \in Messages :
         \/ Begin(m) \/ CheckAllowance(m) \/ RollBack(m) \/ Reserve(m)
         \/ CommitCall(m) \/ ReleaseCall(m) \/ Cancel(m) \/ Retry(m)
         \/ RepairMissingCommittedUsage(m) \/ ListAbandoned(m) \/ Expire(m)
    \/ \E m \in Messages : \E outcome \in {"sent", "failed", "spent"} : Delivered(m, outcome)
    \/ \E r \in Rows : \E value \in Corrections : CorrectUsage(r, value)
    \/ \E d \in Dims : \E limit \in Limits \cup {Unlimited} : ChangePlan(d, limit)
    \/ Tick

Spec == Init /\ [][Next]_vars

=============================================================================
