-------------------------- MODULE UsageSafety_proofs --------------------------
(***************************************************************************)
(* Usage accounting, for every number of messages, dimensions, units and   *)
(* periods and at either isolation level: counters add up, a settled       *)
(* reservation stays settled, and a usage row is booked past its limit     *)
(* only by requests that overlap.                                          *)
(***************************************************************************)
EXTENDS UsageProperties, FiniteSetTheorems, TLAPS

-----------------------------------------------------------------------------
(* What sets of messages cost.                                             *)

Parts(S, d) == {u \in S \X (1 .. MaxUnits) : u[2] <= Units[u[1]][d]}

LEMMA PartsAreFinite ==
    ASSUME NEW S \in SUBSET Messages, NEW d \in Dims
    PROVE  IsFiniteSet(Parts(S, d)) /\ Cost(S, d) = Cardinality(Parts(S, d)) /\ Cost(S, d) \in Nat
<1>1. IsFiniteSet(S)  BY SetsAssumption, FS_Subset
<1>2. IsFiniteSet(1 .. MaxUnits)  BY UnitsAssumption, FS_Interval
<1>3. IsFiniteSet(S \X (1 .. MaxUnits))  BY <1>1, <1>2, FS_Product
<1>4. Parts(S, d) \in SUBSET (S \X (1 .. MaxUnits))  BY DEF Parts
<1>5. IsFiniteSet(Parts(S, d))  BY <1>3, <1>4, FS_Subset
<1>6. Cost(S, d) = Cardinality(Parts(S, d))  BY DEF Cost, Parts
<1> QED  BY <1>5, <1>6, FS_CardinalityType

(* More messages cost no less.                                             *)
LEMMA CostGrows ==
    ASSUME NEW T \in SUBSET Messages, NEW S \in SUBSET T, NEW d \in Dims
    PROVE  Cost(S, d) \in Nat /\ Cost(T, d) \in Nat /\ Cost(S, d) <= Cost(T, d)
<1>1. S \in SUBSET Messages  OBVIOUS
<1>2. Parts(S, d) \in SUBSET Parts(T, d)  BY DEF Parts
<1> QED  BY <1>1, <1>2, PartsAreFinite, FS_Subset

LEMMA PartsOfOne ==
    ASSUME NEW m \in Messages, NEW d \in Dims
    PROVE  Cardinality(Parts({m}, d)) = Units[m][d]
<1> DEFINE n == Units[m][d]
           f == [i \in 1 .. n |-> <<m, i>>]
<1>1. n \in 0 .. MaxUnits /\ MaxUnits \in Nat  BY UnitsAssumption
<1>2. Parts({m}, d) = {<<m, i>> : i \in 1 .. n}
  <2>1. ASSUME NEW u \in Parts({m}, d) PROVE \E i \in 1 .. n : u = <<m, i>>
    <3>1. u = <<m, u[2]>> /\ u[2] \in 1 .. MaxUnits /\ u[2] <= n  BY DEF Parts
    <3> QED  BY <1>1, <3>1
  <2>2. ASSUME NEW i \in 1 .. n PROVE <<m, i>> \in Parts({m}, d)  BY <1>1 DEF Parts
  <2> QED  BY <2>1, <2>2
<1>3. f \in [1 .. n -> Parts({m}, d)]  BY <1>2
<1>4. ASSUME NEW i \in 1 .. n, NEW j \in 1 .. n, f[i] = f[j] PROVE i = j  BY <1>4
<1>5. ASSUME NEW u \in Parts({m}, d) PROVE \E i \in 1 .. n : f[i] = u  BY <1>2
<1> HIDE DEF f
<1>6. f \in Bijection(1 .. n, Parts({m}, d))
    BY <1>3, <1>4, <1>5 DEF Bijection, Injection, Surjection, IsInjective
<1>7. ExistsBijection(1 .. n, Parts({m}, d))  BY <1>6 DEF ExistsBijection
<1>8. n \in Nat  BY <1>1
<1> HIDE DEF n
<1>9. IsFiniteSet(1 .. n) /\ Cardinality(1 .. n) = IF 1 > n THEN 0 ELSE n - 1 + 1
    BY <1>8, FS_Interval
<1>10. Cardinality(Parts({m}, d)) = n  BY <1>7, <1>8, <1>9, FS_Bijection
<1> QED  BY <1>10 DEF n

(* Messages of which none is counted twice.                                *)
LEMMA CostOfBoth ==
    ASSUME NEW S \in SUBSET Messages, NEW T \in SUBSET Messages, S \cap T = {}, NEW d \in Dims
    PROVE  Cost(S \cup T, d) = Cost(S, d) + Cost(T, d)
<1>1. Parts(S \cup T, d) = Parts(S, d) \cup Parts(T, d)  BY DEF Parts
<1>2. Parts(S, d) \cap Parts(T, d) = {}  BY DEF Parts
<1>3. /\ IsFiniteSet(Parts(S, d)) /\ Cost(S, d) = Cardinality(Parts(S, d)) /\ Cost(S, d) \in Nat
      /\ IsFiniteSet(Parts(T, d)) /\ Cost(T, d) = Cardinality(Parts(T, d)) /\ Cost(T, d) \in Nat
      /\ Cost(S \cup T, d) = Cardinality(Parts(S \cup T, d))
    BY PartsAreFinite
<1>4. Cardinality(Parts(S, d) \cup Parts(T, d))
        = Cardinality(Parts(S, d)) + Cardinality(Parts(T, d)) - Cardinality(Parts(S, d) \cap Parts(T, d))
    BY <1>3, FS_Union
<1>5. Cardinality(Parts(S, d) \cap Parts(T, d)) = 0  BY <1>2, FS_EmptySet
<1>6. Cost(S \cup T, d) = Cardinality(Parts(S, d) \cup Parts(T, d))  BY <1>1, <1>3
<1>7. Cost(S \cup T, d) = Cost(S, d) + Cost(T, d) - 0  BY <1>3, <1>4, <1>5, <1>6
<1> QED  BY <1>3, <1>7

(* One message more costs its units more.                                  *)
LEMMA CostOfOneMore ==
    ASSUME NEW S \in SUBSET Messages, NEW m \in Messages \ S, NEW d \in Dims
    PROVE  Cost(S \cup {m}, d) = Cost(S, d) + Units[m][d]
<1>1. {m} \in SUBSET Messages /\ S \cap {m} = {}  OBVIOUS
<1>2. Cost(S \cup {m}, d) = Cost(S, d) + Cost({m}, d)  BY <1>1, CostOfBoth
<1>3. Cost({m}, d) = Units[m][d]  BY <1>1, PartsAreFinite, PartsOfOne
<1> QED  BY <1>2, <1>3

LEMMA PeriodHasBegun ==
    ASSUME NEW t \in Times
    PROVE  PeriodStart(t) \in Times /\ PeriodStart(t) <= t
<1>1. t \in Nat /\ PeriodLength \in Nat \ {0}  BY TimeAssumption DEF Times
<1>2. t % PeriodLength \in 0 .. t  BY <1>1
<1> QED  BY <1>1, <1>2, TimeAssumption DEF PeriodStart, Times

-----------------------------------------------------------------------------
(* The inductive invariant.                                                *)

(* A message is queued by one transaction, which creates its rows.         *)
QueuedOnce(m) ==
    /\ tx[m].pc # "none" => msg[m] = "new"
    /\ msg[m] = "new" <=> reservation[m].state = "none"
    /\ msg[m] = "new" => \A d \in Dims : ~usage[<<m, d>>].exists

(* Rows that are charged exist, or are about to be created.                *)
RowsExist(m) ==
    \A d \in Dims :
      /\ tx[m].pc = "checked" /\ tx[m].row[d] # NoRow =>
           /\ tx[m].row[d][2] = d
           /\ tx[m].row[d] = <<m, d>> \/ usage[tx[m].row[d]].exists
      /\ reservation[m].row[d] # NoRow => usage[reservation[m].row[d]].exists

UnusedRows == \A r \in Rows : ~usage[r].exists => usage[r].used = 0

UInv ==
    /\ TypeOK
    /\ \A m \in Messages : QueuedOnce(m) /\ RowsExist(m)
    /\ UnusedRows
    /\ LedgerAddsUp

Committed(r) == ChargedTo(r) \cap InState("committed")

LEMMA NoTransactionIsOne ==
    /\ NoTransaction \in Transaction /\ NoTransaction.pc = "none"
    /\ Uncharged \in [Dims -> Rows \cup {NoRow}]
<1>1. Uncharged \in [Dims -> Rows \cup {NoRow}]  BY DEF Uncharged
<1>2. 0 \in Times  BY TimeAssumption DEF Times
<1>3. [d \in Dims |-> 0] \in [Dims -> Nat]  OBVIOUS
<1>4. [d \in Dims |-> Unlimited] \in [Dims -> Limits \cup {Unlimited}]  OBVIOUS
<1> QED  BY <1>1, <1>2, <1>3, <1>4 DEF NoTransaction, Transaction

LEMMA InitUsage ==
    ASSUME Init
    PROVE  UInv
<1>1. TypeOK
  <2>1. 0 \in Times  BY TimeAssumption DEF Times
  <2>2. [exists |-> FALSE, start |-> 0, end |-> 0, used |-> 0, limit |-> 0] \in UsageRow
      BY <2>1 DEF UsageRow
  <2>3. [state |-> "none", at |-> 0, row |-> Uncharged] \in Reservation
      BY <2>1, NoTransactionIsOne DEF Reservation
  <2> QED  BY <2>1, <2>2, <2>3, NoTransactionIsOne, TimeAssumption DEF Init, TypeOK, MessageStates
<1>2. ASSUME NEW m \in Messages PROVE QueuedOnce(m) /\ RowsExist(m)
  <2>1. tx[m].pc = "none" /\ msg[m] = "new"  BY NoTransactionIsOne DEF Init
  <2>2. reservation[m].state = "none" /\ reservation[m].row = Uncharged  BY DEF Init
  <2>3. \A d \in Dims : ~usage[<<m, d>>].exists  BY DEF Init, Rows
  <2> QED  BY <2>1, <2>2, <2>3 DEF QueuedOnce, RowsExist, Uncharged
<1>3. UnusedRows  BY DEF Init, UnusedRows
<1>4. LedgerAddsUp
  <2> SUFFICES ASSUME NEW r \in Rows
               PROVE  usage[r].used = Cost(ChargedTo(r) \cap InState("committed"), r[2]) + corrected[r]
      BY DEF LedgerAddsUp
  <2>1. ChargedTo(r) \cap InState("committed") = {}  BY DEF Init, InState
  <2>2. Cost({}, r[2]) = 0
    <3>1. {u \in {} \X (1 .. MaxUnits) : u[2] <= Units[u[1]][r[2]]} = {}  OBVIOUS
    <3> QED  BY <3>1, FS_EmptySet DEF Cost
  <2>3. usage[r].used = 0 /\ corrected[r] = 0  BY DEF Init
  <2> QED  BY <2>1, <2>2, <2>3
<1> QED  BY <1>1, <1>2, <1>3, <1>4 DEF UInv

-----------------------------------------------------------------------------
(* What most steps leave alone.                                            *)

LEMMA LedgerUndisturbed ==
    ASSUME UInv, corrected' = corrected, \A r \in Rows : usage'[r].used = usage[r].used,
           \A m \in Messages :
             \/ /\ reservation'[m].row = reservation[m].row
                /\ reservation'[m].state = "committed" <=> reservation[m].state = "committed"
             \/ reservation[m].state # "committed" /\ reservation'[m].state # "committed"
    PROVE  LedgerAddsUp'
<1> SUFFICES ASSUME NEW r \in Rows
             PROVE  usage'[r].used = Cost(Committed(r)', r[2]) + corrected[r]
    BY DEF LedgerAddsUp, Committed
<1>1. Committed(r)' = Committed(r)  BY DEF Committed, ChargedTo, InState
<1> QED  BY <1>1 DEF UInv, LedgerAddsUp, Committed

LEMMA BooksKept ==
    ASSUME UInv, tx' = tx,
           \A m \in Messages : msg'[m] = "new" <=> msg[m] = "new",
           \A m \in Messages : /\ reservation'[m].row = reservation[m].row
                               /\ reservation'[m].state = "none" <=> reservation[m].state = "none",
           \A r \in Rows : usage'[r].exists = usage[r].exists
    PROVE  \A m \in Messages : QueuedOnce(m)' /\ RowsExist(m)'
<1> SUFFICES ASSUME NEW m \in Messages PROVE QueuedOnce(m)' /\ RowsExist(m)'
    OBVIOUS
<1>1. QueuedOnce(m) /\ RowsExist(m)  BY DEF UInv
<1>2. \A d \in Dims : <<m, d>> \in Rows  BY DEF Rows
<1>3. /\ \A d \in Dims : tx[m].row[d] \in Rows \cup {NoRow}
      /\ \A d \in Dims : reservation[m].row[d] \in Rows \cup {NoRow}
    BY DEF UInv, TypeOK, Transaction, Reservation
<1>4. QueuedOnce(m)'  BY <1>1, <1>2 DEF QueuedOnce
<1>5. RowsExist(m)'  BY <1>1, <1>3 DEF RowsExist
<1> QED  BY <1>4, <1>5

(* Steps that change neither rows nor reservations.                        *)
LEMMA LedgerUnchanged ==
    ASSUME UInv, UNCHANGED <<usage, reservation, corrected>>
    PROVE  LedgerAddsUp' /\ UnusedRows'
<1>1. LedgerAddsUp'  BY LedgerUndisturbed
<1> QED  BY <1>1 DEF UInv, UnusedRows

-----------------------------------------------------------------------------
(* reserve.                                                                *)

(* A transaction that queues a message moves on or is undone.              *)
LEMMA TransactionMoves ==
    ASSUME UInv, NEW m \in Messages, NEW new \in Transaction, tx' = [tx EXCEPT ![m] = new],
           UNCHANGED <<clock, plan, usage, reservation, msg, calls, listed, corrected, retries>>,
           new.pc # "none" => msg[m] = "new",
           new.pc = "checked" => \A d \in Dims : new.row[d] # NoRow =>
             new.row[d][2] = d /\ (new.row[d] = <<m, d>> \/ usage[new.row[d]].exists)
    PROVE  UInv'
<1>1. TypeOK  BY DEF UInv
<1>2. /\ tx' \in [Messages -> Transaction] /\ tx'[m] = new
      /\ \A x \in Messages \ {m} : tx'[x] = tx[x]
    BY <1>1 DEF TypeOK
<1>3. TypeOK'  BY <1>1, <1>2 DEF TypeOK
<1>4. ASSUME NEW x \in Messages PROVE QueuedOnce(x)' /\ RowsExist(x)'
  <2>1. QueuedOnce(x) /\ RowsExist(x)  BY DEF UInv
  <2>2. CASE x = m  BY <1>2, <2>1, <2>2 DEF QueuedOnce, RowsExist
  <2>3. CASE x # m  BY <1>2, <2>1, <2>3 DEF QueuedOnce, RowsExist
  <2> QED  BY <2>2, <2>3
<1>5. LedgerAddsUp' /\ UnusedRows'  BY LedgerUnchanged
<1> QED  BY <1>3, <1>4, <1>5 DEF UInv

LEMMA BeginKeeps ==
    ASSUME UInv, NEW m \in Messages, Begin(m)
    PROVE  UInv'
<1> DEFINE new == [NoTransaction EXCEPT !.pc = "open", !.seen = InState("reserved"), !.plan = plan]
<1>1. InState("reserved") \in SUBSET Messages /\ plan \in [Dims -> Limits \cup {Unlimited}]
    BY DEF InState, UInv, TypeOK
<1>2. new \in Transaction /\ new.pc = "open"
    BY <1>1, NoTransactionIsOne DEF Transaction
<1>3. tx' = [tx EXCEPT ![m] = new] /\ msg[m] = "new"  BY DEF Begin
<1> HIDE DEF new
<1> QED  BY <1>2, <1>3, TransactionMoves DEF Begin

LEMMA RollBackKeeps ==
    ASSUME UInv, NEW m \in Messages, RollBack(m)
    PROVE  UInv'
BY NoTransactionIsOne, TransactionMoves DEF RollBack

(* What a plain read of the transaction knows of.                          *)
LEMMA KnownPlan ==
    ASSUME UInv, NEW m \in Messages
    PROVE  PlanOf(m) \in [Dims -> Limits \cup {Unlimited}] /\ Known(m) \in SUBSET Messages
BY DEF UInv, TypeOK, Transaction, PlanOf, Known, InState

LEMMA CheckAllowanceKeeps ==
    ASSUME UInv, NEW m \in Messages, CheckAllowance(m)
    PROVE  UInv'
<1>1. PICK row \in [Dims -> Rows \cup {NoRow}] :
         /\ \A d \in Dims : row[d] \in RowChoices(m, d)
         /\ tx' = [tx EXCEPT ![m].pc = "checked", ![m].row = row, ![m].at = clock,
                             ![m].limit = [d \in Dims |-> IF row[d] = NoRow THEN 0
                                                          ELSE PlanOf(m)[d]]]
    BY DEF CheckAllowance
<1> DEFINE limit == [d \in Dims |-> IF row[d] = NoRow THEN 0 ELSE PlanOf(m)[d]]
           new == [tx[m] EXCEPT !.pc = "checked", !.row = row, !.at = clock, !.limit = limit]
<1>2. TypeOK /\ tx[m] \in Transaction /\ QueuedOnce(m) /\ tx[m].pc = "open"
    BY DEF UInv, TypeOK, CheckAllowance
<1>3. ASSUME NEW d \in Dims, row[d] # NoRow
      PROVE  /\ row[d][2] = d /\ (row[d] = <<m, d>> \/ usage[row[d]].exists)
             /\ PlanOf(m)[d] \in Nat
  <2>1. PlanOf(m)[d] # Unlimited /\ row[d] \in {<<m, d>>} \cup Current(d)
      BY <1>1, <1>3 DEF RowChoices
  <2>2. PlanOf(m)[d] \in Nat  BY <2>1, KnownPlan, LimitsAssumption
  <2> QED  BY <2>1, <2>2 DEF Current
<1>4. limit \in [Dims -> Nat]  BY <1>3
<1> HIDE DEF limit
<1>5. new \in Transaction /\ new.pc = "checked" /\ new.row = row
  <2>1. clock \in Times  BY <1>2 DEF TypeOK
  <2> QED  BY <1>2, <1>4, <2>1 DEF Transaction
<1>6. tx' = [tx EXCEPT ![m] = new]  BY <1>1 DEF limit
<1> HIDE DEF new
<1>7. msg[m] = "new"  BY <1>2 DEF QueuedOnce
<1> QED  BY <1>3, <1>5, <1>6, <1>7, TransactionMoves DEF CheckAllowance

(* The rows as the transaction leaves them.                                *)
LEMMA RowsAfterReserve ==
    ASSUME UInv, NEW m \in Messages, Reserve(m), NEW r \in Rows
    PROVE  /\ usage'[r] \in UsageRow
           /\ usage'[r].used = usage[r].used
           /\ usage[r].exists => usage'[r].exists /\ usage'[r].start = usage[r].start
           /\ tx[m].row[r[2]] = r =>
                usage'[r].exists /\ usage'[r].limit = tx[m].limit[r[2]]
           /\ tx[m].row[r[2]] # r => usage'[r] = usage[r]
           /\ ~usage[r].exists /\ usage'[r].exists =>
                r = <<m, r[2]>> /\ usage'[r].start = PeriodStart(tx[m].at)
<1>1. TypeOK /\ QueuedOnce(m) /\ RowsExist(m)  BY DEF UInv
<1>2. tx[m] \in Transaction /\ tx[m].pc = "checked"  BY <1>1 DEF TypeOK, Reserve
<1>3. r[2] \in Dims /\ usage[r] \in UsageRow  BY <1>1 DEF TypeOK, Rows
<1>4. usage'[r] = IF tx[m].row[r[2]] = r THEN RowAfter(m, r) ELSE usage[r]  BY DEF Reserve
<1>5. tx[m].limit[r[2]] \in Nat /\ tx[m].at \in Times  BY <1>2, <1>3 DEF Transaction
<1>6. PeriodStart(tx[m].at) \in Times  BY <1>5, PeriodHasBegun
<1>7. PeriodStart(tx[m].at) + PeriodLength \in Nat  BY <1>6, TimeAssumption DEF Times
<1>8. CASE tx[m].row[r[2]] = r /\ r = <<m, r[2]>>
  <2>1. usage'[r] = [exists |-> TRUE, start |-> PeriodStart(tx[m].at),
                     end |-> PeriodStart(tx[m].at) + PeriodLength, used |-> 0,
                     limit |-> tx[m].limit[r[2]]]
      BY <1>4, <1>8 DEF RowAfter
  <2>2. ~usage[r].exists  BY <1>1, <1>2, <1>3, <1>8 DEF QueuedOnce
  <2>3. usage[r].used = 0  BY <2>2 DEF UInv, UnusedRows
  <2>4. usage'[r] \in UsageRow  BY <1>5, <1>6, <1>7, <2>1 DEF UsageRow
  <2> QED  BY <1>8, <2>1, <2>2, <2>3, <2>4
<1>9. CASE tx[m].row[r[2]] = r /\ r # <<m, r[2]>>
  <2>1. usage'[r] = [usage[r] EXCEPT !.limit = tx[m].limit[r[2]]]  BY <1>4, <1>9 DEF RowAfter
  <2>2. r # NoRow  BY SetsAssumption DEF Rows
  <2>3. usage[r].exists  BY <1>1, <1>2, <1>3, <1>9, <2>2 DEF RowsExist
  <2> QED  BY <1>3, <1>5, <1>9, <2>1, <2>3 DEF UsageRow
<1>10. CASE tx[m].row[r[2]] # r  BY <1>3, <1>4, <1>10
<1> QED  BY <1>8, <1>9, <1>10

LEMMA ReserveKeeps ==
    ASSUME UInv, NEW m \in Messages, Reserve(m)
    PROVE  UInv'
<1>1. TypeOK /\ QueuedOnce(m) /\ RowsExist(m)  BY DEF UInv
<1>2. tx[m] \in Transaction /\ tx[m].pc = "checked" /\ msg[m] = "new" /\ reservation[m].state = "none"
    BY <1>1 DEF TypeOK, Reserve, QueuedOnce
<1> DEFINE new == [state |-> "reserved", at |-> clock, row |-> tx[m].row]
<1>3. new \in Reservation  BY <1>1, <1>2 DEF Reservation, Transaction, TypeOK
<1>4. /\ reservation' \in [Messages -> Reservation] /\ reservation'[m] = new
      /\ \A x \in Messages \ {m} : reservation'[x] = reservation[x]
    BY <1>1, <1>3 DEF TypeOK, Reserve
<1>5. reservation'[m].state = "reserved" /\ reservation'[m].row = tx[m].row  BY <1>4
<1> HIDE DEF new
<1>6. msg' \in [Messages -> MessageStates] /\ msg'[m] = "queued"
      /\ \A x \in Messages \ {m} : msg'[x] = msg[x]
    BY <1>1 DEF TypeOK, Reserve, MessageStates
<1>7. tx' \in [Messages -> Transaction] /\ tx'[m].pc = "none"
      /\ \A x \in Messages \ {m} : tx'[x] = tx[x]
    BY <1>1, NoTransactionIsOne DEF TypeOK, Reserve
<1>8. usage' \in [Rows -> UsageRow]  BY RowsAfterReserve DEF Reserve
<1>9. TypeOK'  BY <1>1, <1>4, <1>6, <1>7, <1>8 DEF TypeOK, Reserve
<1>10. ASSUME NEW x \in Messages PROVE QueuedOnce(x)' /\ RowsExist(x)'
  <2>1. QueuedOnce(x) /\ RowsExist(x)  BY DEF UInv
  <2>2. CASE x = m
    <3>1. ASSUME NEW d \in Dims, tx[m].row[d] # NoRow PROVE usage'[tx[m].row[d]].exists
      <4>1. tx[m].row[d] \in Rows /\ tx[m].row[d][2] = d
          BY <1>1, <1>2, <3>1 DEF Transaction, RowsExist
      <4> QED  BY <4>1, RowsAfterReserve
    <3> QED  BY <1>5, <1>6, <1>7, <2>2, <3>1 DEF QueuedOnce, RowsExist
  <2>3. CASE x # m
    <3>1. \A d \in Dims : <<x, d>> \in Rows /\ <<x, d>>[2] = d /\ <<x, d>> # <<m, d>>
        BY <2>3 DEF Rows
    <3>2. \A d \in Dims : ~usage[<<x, d>>].exists => ~usage'[<<x, d>>].exists
        BY <3>1, RowsAfterReserve
    <3>3. /\ \A d \in Dims : tx[x].row[d] \in Rows \cup {NoRow}
          /\ \A d \in Dims : reservation[x].row[d] \in Rows \cup {NoRow}
        BY <1>1 DEF TypeOK, Transaction, Reservation
    <3>4. \A r \in Rows : usage[r].exists => usage'[r].exists  BY RowsAfterReserve
    <3>5. tx'[x] = tx[x] /\ msg'[x] = msg[x] /\ reservation'[x] = reservation[x]
        BY <1>4, <1>6, <1>7, <2>3
    <3> QED  BY <2>1, <3>2, <3>3, <3>4, <3>5 DEF QueuedOnce, RowsExist
  <2> QED  BY <2>2, <2>3
<1>11. UnusedRows'
  <2>1. \A r \in Rows : usage'[r].used = usage[r].used /\ (usage[r].exists => usage'[r].exists)
      BY RowsAfterReserve
  <2> QED  BY <2>1 DEF UInv, UnusedRows
<1>13. LedgerAddsUp'
  <2>1. \A r \in Rows : usage'[r].used = usage[r].used  BY RowsAfterReserve
  <2> QED  BY <1>2, <1>4, <1>5, <2>1, LedgerUndisturbed DEF Reserve
<1> QED  BY <1>9, <1>10, <1>11, <1>13 DEF UInv

-----------------------------------------------------------------------------
(* commit, release and expiry.                                             *)

(* What commit does to reservations, rows and the set it moves m into.     *)
LEMMA CommitWrites ==
    ASSUME UInv, NEW m \in Messages, Commit(m)
    PROVE  /\ reservation' \in [Messages -> Reservation] /\ usage' \in [Rows -> UsageRow]
           /\ reservation[m].state = "reserved" /\ reservation'[m].state = "committed"
           /\ \A x \in Messages : /\ reservation'[x].row = reservation[x].row
                                  /\ reservation'[x].at = reservation[x].at
           /\ \A x \in Messages \ {m} : reservation'[x] = reservation[x]
           /\ \A r \in Rows : /\ usage'[r].exists = usage[r].exists
                              /\ usage'[r].start = usage[r].start
                              /\ usage'[r].limit = usage[r].limit
                              /\ usage'[r].used = IF m \in ChargedTo(r)
                                                  THEN usage[r].used + Units[m][r[2]] ELSE usage[r].used
<1>1. TypeOK  BY DEF UInv
<1>2. [reservation[m] EXCEPT !.state = "committed"] \in Reservation  BY <1>1 DEF TypeOK, Reservation
<1>3. /\ reservation' \in [Messages -> Reservation]
      /\ reservation'[m] = [reservation[m] EXCEPT !.state = "committed"]
      /\ \A x \in Messages \ {m} : reservation'[x] = reservation[x]
    BY <1>1, <1>2 DEF TypeOK, Commit
<1>4. reservation'[m].state = "committed" /\ reservation'[m].row = reservation[m].row
      /\ reservation'[m].at = reservation[m].at
    BY <1>1, <1>3 DEF TypeOK, Reservation
<1>5. ASSUME NEW r \in Rows
      PROVE  /\ usage'[r] \in UsageRow
             /\ usage'[r].exists = usage[r].exists /\ usage'[r].start = usage[r].start
             /\ usage'[r].limit = usage[r].limit
             /\ usage'[r].used = IF m \in ChargedTo(r)
                                 THEN usage[r].used + Units[m][r[2]] ELSE usage[r].used
  <2>1. usage[r] \in UsageRow /\ r[2] \in Dims  BY <1>1 DEF TypeOK, Rows
  <2>2. usage[r].used + Units[m][r[2]] \in Nat  BY <2>1, UnitsAssumption DEF UsageRow
  <2>3. usage'[r] = IF m \in ChargedTo(r)
                    THEN [usage[r] EXCEPT !.used = usage[r].used + Units[m][r[2]]] ELSE usage[r]
      BY DEF Commit
  <2> QED  BY <2>1, <2>2, <2>3 DEF UsageRow
<1>6. usage' \in [Rows -> UsageRow]  BY <1>5 DEF Commit
<1>7. reservation[m].state = "reserved"  BY DEF Commit
<1> QED  BY <1>3, <1>4, <1>5, <1>6, <1>7

LEMMA CommitKeeps ==
    ASSUME UInv, NEW m \in Messages, Commit(m), calls' \subseteq calls,
           UNCHANGED <<clock, plan, msg, tx, listed, corrected, retries>>
    PROVE  UInv'
<1>1. TypeOK  BY DEF UInv
<1>2. TypeOK'  BY <1>1, CommitWrites DEF TypeOK
<1>3. \A x \in Messages : QueuedOnce(x)' /\ RowsExist(x)'
  <2>1. \A x \in Messages : reservation'[x].state = "none" <=> reservation[x].state = "none"
      BY CommitWrites
  <2> QED  BY <2>1, CommitWrites, BooksKept
<1>5. UnusedRows'
  <2> SUFFICES ASSUME NEW r \in Rows, ~usage'[r].exists PROVE usage'[r].used = 0
      BY DEF UnusedRows
  <2>1. ~usage[r].exists /\ usage[r].used = 0  BY CommitWrites DEF UInv, UnusedRows
  <2>2. m \notin ChargedTo(r)
    <3>1. RowsExist(m) /\ r[2] \in Dims /\ r # NoRow  BY SetsAssumption DEF UInv, Rows
    <3> QED  BY <2>1, <3>1 DEF RowsExist, ChargedTo
  <2> QED  BY <2>1, <2>2, CommitWrites
<1>6. LedgerAddsUp'
  <2> SUFFICES ASSUME NEW r \in Rows
               PROVE  usage'[r].used = Cost(Committed(r)', r[2]) + corrected[r]
      BY DEF LedgerAddsUp, Committed
  <2>1. usage[r].used = Cost(Committed(r), r[2]) + corrected[r]  BY DEF UInv, LedgerAddsUp, Committed
  <2>2. r[2] \in Dims /\ Committed(r) \in SUBSET Messages /\ corrected[r] \in Int
      BY <1>1 DEF Rows, Committed, ChargedTo, TypeOK
  <2>3. CASE m \in ChargedTo(r)
    <3>1. m \notin Committed(r) /\ Committed(r)' = Committed(r) \cup {m}
        BY <2>3, CommitWrites DEF Committed, ChargedTo, InState
    <3>2. Cost(Committed(r) \cup {m}, r[2]) = Cost(Committed(r), r[2]) + Units[m][r[2]]
        BY <2>2, <3>1, CostOfOneMore
    <3>3. Cost(Committed(r), r[2]) \in Nat /\ Units[m][r[2]] \in Nat
        BY <2>2, PartsAreFinite, UnitsAssumption
    <3>4. usage'[r].used = usage[r].used + Units[m][r[2]]  BY <2>3, CommitWrites
    <3> QED  BY <2>1, <2>2, <3>1, <3>2, <3>3, <3>4
  <2>4. CASE m \notin ChargedTo(r)
    <3>1. Committed(r)' = Committed(r)  BY <2>4, CommitWrites DEF Committed, ChargedTo, InState
    <3> QED  BY <2>1, <2>4, <3>1, CommitWrites
  <2> QED  BY <2>3, <2>4
<1> QED  BY <1>2, <1>3, <1>5, <1>6 DEF UInv

(* A reservation that is given up, if it is still reserved.                *)
GivesUp(m, to) ==
    reservation' = [reservation EXCEPT ![m].state = IF @ = "reserved" THEN to ELSE @]

LEMMA GiveUpWrites ==
    ASSUME UInv, NEW m \in Messages, NEW to \in {"released", "expired"}, GivesUp(m, to)
    PROVE  /\ reservation' \in [Messages -> Reservation]
           /\ \A x \in Messages : /\ reservation'[x].row = reservation[x].row
                                  /\ reservation'[x].at = reservation[x].at
           /\ \A x \in Messages :
                \/ reservation'[x] = reservation[x]
                \/ x = m /\ reservation[x].state = "reserved" /\ reservation'[x].state = to
<1>1. reservation \in [Messages -> Reservation]  BY DEF UInv, TypeOK
<1> DEFINE state == IF reservation[m].state = "reserved" THEN to ELSE reservation[m].state
           new == [reservation[m] EXCEPT !.state = state]
<1>2. reservation[m] \in Reservation /\ state \in {"none", "reserved", "committed", "released", "expired"}
    BY <1>1 DEF Reservation
<1>3. reservation' = [reservation EXCEPT ![m] = new]  BY DEF GivesUp
<1>4. state = reservation[m].state \/ (reservation[m].state = "reserved" /\ state = to)  OBVIOUS
<1> HIDE DEF state
<1>5. new \in Reservation /\ new.row = reservation[m].row /\ new.at = reservation[m].at /\ new.state = state
    BY <1>2 DEF Reservation
<1>6. state = reservation[m].state => new = reservation[m]  BY <1>2 DEF Reservation
<1> HIDE DEF new
<1> QED  BY <1>1, <1>3, <1>4, <1>5, <1>6

LEMMA GiveUpKeeps ==
    ASSUME UInv, NEW m \in Messages, NEW to \in {"released", "expired"}, GivesUp(m, to),
           calls' \subseteq calls, listed' \subseteq listed,
           msg' \in [Messages -> MessageStates],
           \A x \in Messages : msg'[x] = msg[x] \/ (msg[x] = "queued" /\ msg'[x] = "cancelled"),
           UNCHANGED <<clock, plan, usage, tx, corrected, retries>>
    PROVE  UInv'
<1>1. TypeOK  BY DEF UInv
<1>2. TypeOK'  BY <1>1, GiveUpWrites DEF TypeOK
<1>3. \A x \in Messages : QueuedOnce(x)' /\ RowsExist(x)'
  <2>1. \A x \in Messages : reservation'[x].state = "none" <=> reservation[x].state = "none"
      BY GiveUpWrites
  <2> QED  BY <2>1, GiveUpWrites, BooksKept
<1>5. LedgerAddsUp'
  <2>1. \A x \in Messages : reservation'[x].state = "committed" <=> reservation[x].state = "committed"
      BY GiveUpWrites
  <2> QED  BY <2>1, GiveUpWrites, LedgerUndisturbed
<1>6. UnusedRows'  BY DEF UInv, UnusedRows
<1> QED  BY <1>2, <1>3, <1>5, <1>6 DEF UInv

LEMMA CancelKeeps ==
    ASSUME UInv, NEW m \in Messages, Cancel(m)
    PROVE  UInv'
<1>1. GivesUp(m, "released")  BY DEF Cancel, Release, GivesUp
<1>2. /\ msg' \in [Messages -> MessageStates]
      /\ \A x \in Messages : msg'[x] = msg[x] \/ (msg[x] = "queued" /\ msg'[x] = "cancelled")
    BY DEF Cancel, UInv, TypeOK, MessageStates
<1> QED  BY <1>1, <1>2, GiveUpKeeps DEF Cancel

LEMMA ReleaseCallKeeps ==
    ASSUME UInv, NEW m \in Messages, ReleaseCall(m)
    PROVE  UInv'
<1>1. GivesUp(m, "released")  BY DEF ReleaseCall, Release, GivesUp
<1>2. msg' \in [Messages -> MessageStates] /\ msg' = msg  BY DEF ReleaseCall, UInv, TypeOK
<1>3. calls' \subseteq calls /\ listed' \subseteq listed
      /\ UNCHANGED <<clock, plan, usage, tx, corrected, retries>>
    BY DEF ReleaseCall
<1> QED  BY <1>1, <1>2, <1>3, GiveUpKeeps

LEMMA ExpireKeeps ==
    ASSUME UInv, NEW m \in Messages, Expire(m)
    PROVE  UInv'
<1>1. GivesUp(m, "expired")  BY DEF Expire, GivesUp
<1>2. msg' \in [Messages -> MessageStates] /\ msg' = msg  BY DEF Expire, UInv, TypeOK
<1>3. calls' \subseteq calls /\ listed' \subseteq listed
      /\ UNCHANGED <<clock, plan, usage, tx, corrected, retries>>
    BY DEF Expire
<1> QED  BY <1>1, <1>2, <1>3, GiveUpKeeps

LEMMA CommitCallKeeps ==
    ASSUME UInv, NEW m \in Messages, CommitCall(m)
    PROVE  UInv'
<1>1. calls' \subseteq calls /\ UNCHANGED <<clock, plan, msg, tx, listed, corrected, retries>>
    BY DEF CommitCall
<1>2. CASE Commit(m)  BY <1>1, <1>2, CommitKeeps
<1>3. CASE UNCHANGED <<usage, reservation>>
  <2>1. TypeOK'  BY <1>1, <1>3 DEF UInv, TypeOK
  <2>2. \A x \in Messages : QueuedOnce(x)' /\ RowsExist(x)'  BY <1>1, <1>3, BooksKept
  <2>3. LedgerAddsUp' /\ UnusedRows'  BY <1>1, <1>3, LedgerUnchanged
  <2> QED  BY <2>1, <2>2, <2>3 DEF UInv
<1> QED  BY <1>2, <1>3 DEF CommitCall

LEMMA RepairKeeps ==
    ASSUME UInv, NEW m \in Messages, RepairMissingCommittedUsage(m)
    PROVE  UInv'
<1>1. Commit(m) /\ calls' \subseteq calls /\ UNCHANGED <<clock, plan, msg, tx, listed, corrected, retries>>
    BY DEF RepairMissingCommittedUsage
<1> QED  BY <1>1, CommitKeeps

-----------------------------------------------------------------------------
(* Messages, corrections and the clock.                                    *)

(* Steps that write neither reservations nor transactions nor rows.        *)
LEMMA OutsideKeeps ==
    ASSUME UInv, TypeOK', UNCHANGED <<usage, reservation, tx, corrected>>,
           \A m \in Messages : msg'[m] = "new" <=> msg[m] = "new"
    PROVE  UInv'
<1>1. \A x \in Messages : QueuedOnce(x)' /\ RowsExist(x)'  BY BooksKept
<1>2. LedgerAddsUp' /\ UnusedRows'  BY LedgerUnchanged
<1> QED  BY <1>1, <1>2 DEF UInv

LEMMA DeliveredKeeps ==
    ASSUME UInv, NEW m \in Messages, NEW outcome \in {"sent", "failed", "spent"},
           Delivered(m, outcome)
    PROVE  UInv'
<1>1. TypeOK  BY DEF UInv
<1>2. /\ msg' \in [Messages -> MessageStates]
      /\ \A x \in Messages : msg'[x] = msg[x] \/ (msg[x] = "queued" /\ msg'[x] = outcome)
    BY <1>1 DEF TypeOK, Delivered, MessageStates
<1>3. calls' \subseteq {"commit", "release"} \X Messages  BY <1>1 DEF TypeOK, Delivered
<1>4. TypeOK'  BY <1>1, <1>2, <1>3 DEF TypeOK, Delivered
<1> QED  BY <1>2, <1>4, OutsideKeeps DEF Delivered

LEMMA RetryKeeps ==
    ASSUME UInv, NEW m \in Messages, Retry(m)
    PROVE  UInv'
<1>1. TypeOK  BY DEF UInv
<1>2. /\ msg' \in [Messages -> MessageStates]
      /\ \A x \in Messages : msg'[x] = msg[x] \/ (x = m /\ msg[x] # "new" /\ msg'[x] = "queued")
    BY <1>1 DEF TypeOK, Retry, MessageStates
<1>3. /\ retries' \in [Messages -> 0 .. RetryBound] /\ retries'[m] = retries[m] + 1
      /\ \A x \in Messages \ {m} : retries'[x] = retries[x]
    BY <1>1, TimeAssumption DEF TypeOK, Retry
<1>4. TypeOK'  BY <1>1, <1>2, <1>3 DEF TypeOK, Retry
<1> QED  BY <1>2, <1>4, OutsideKeeps DEF Retry

LEMMA ListAbandonedKeeps ==
    ASSUME UInv, NEW m \in Messages, ListAbandoned(m)
    PROVE  UInv'
<1>1. TypeOK  BY DEF UInv
<1>2. TypeOK'  BY <1>1 DEF TypeOK, ListAbandoned
<1> QED  BY <1>2, OutsideKeeps DEF ListAbandoned

LEMMA ChangePlanKeeps ==
    ASSUME UInv, NEW d \in Dims, NEW limit \in Limits \cup {Unlimited}, ChangePlan(d, limit)
    PROVE  UInv'
<1>1. TypeOK'  BY DEF UInv, TypeOK, ChangePlan
<1> QED  BY <1>1, OutsideKeeps DEF ChangePlan

LEMMA TickKeeps ==
    ASSUME UInv, Tick
    PROVE  UInv'
<1>1. TypeOK'  BY TimeAssumption DEF UInv, TypeOK, Tick, Times
<1> QED  BY <1>1, OutsideKeeps DEF Tick

LEMMA CorrectionWrites ==
    ASSUME UInv, NEW r \in Rows, NEW value \in Corrections, CorrectUsage(r, value)
    PROVE  /\ usage' \in [Rows -> UsageRow] /\ corrected' \in [Rows -> Int]
           /\ usage[r].exists
           /\ corrected'[r] = corrected[r] + usage'[r].used - usage[r].used
           /\ \A x \in Rows : /\ usage'[x].exists = usage[x].exists
                              /\ usage'[x].start = usage[x].start
                              /\ usage'[x].limit = usage[x].limit
           /\ \A x \in Rows \ {r} : usage'[x] = usage[x] /\ corrected'[x] = corrected[x]
<1>1. TypeOK  BY DEF UInv
<1>2. usage[r] \in UsageRow /\ corrected[r] \in Int  BY <1>1 DEF TypeOK
<1>3. usage[r].used \in Nat  BY <1>2 DEF UsageRow
<1>4. CorrectedValue(value) \in Nat  BY LimitsAssumption DEF CorrectedValue
<1> DEFINE new == [usage[r] EXCEPT !.used = CorrectedValue(value)]
<1>5. /\ new \in UsageRow /\ new.used = CorrectedValue(value)
      /\ new.exists = usage[r].exists /\ new.start = usage[r].start /\ new.limit = usage[r].limit
    BY <1>2, <1>4 DEF UsageRow
<1>6. usage' = [usage EXCEPT ![r] = new]  BY DEF CorrectUsage
<1> HIDE DEF new
<1>7. /\ usage' \in [Rows -> UsageRow] /\ usage'[r] = new
      /\ \A x \in Rows \ {r} : usage'[x] = usage[x]
    BY <1>1, <1>5, <1>6 DEF TypeOK
<1>8. corrected' = [corrected EXCEPT ![r] = corrected[r] + CorrectedValue(value) - usage[r].used]
    BY DEF CorrectUsage
<1>9. corrected[r] + CorrectedValue(value) - usage[r].used \in Int  BY <1>2, <1>3, <1>4
<1>10. /\ corrected' \in [Rows -> Int]
       /\ corrected'[r] = corrected[r] + CorrectedValue(value) - usage[r].used
       /\ \A x \in Rows \ {r} : corrected'[x] = corrected[x]
    BY <1>1, <1>8, <1>9 DEF TypeOK
<1>11. usage[r].exists  BY DEF CorrectUsage, Current
<1>12. corrected'[r] = corrected[r] + usage'[r].used - usage[r].used  BY <1>5, <1>7, <1>10
<1> QED  BY <1>5, <1>7, <1>10, <1>11, <1>12

LEMMA CorrectUsageKeeps ==
    ASSUME UInv, NEW r \in Rows, NEW value \in Corrections, CorrectUsage(r, value)
    PROVE  UInv'
<1>1. TypeOK  BY DEF UInv
<1>2. UNCHANGED <<clock, plan, reservation, msg, tx, calls, listed, retries>>  BY DEF CorrectUsage
<1>3. TypeOK'  BY <1>1, <1>2, CorrectionWrites DEF TypeOK
<1>4. \A m \in Messages : QueuedOnce(m)' /\ RowsExist(m)'  BY <1>2, CorrectionWrites, BooksKept
<1>6. UnusedRows'
  <2> SUFFICES ASSUME NEW x \in Rows, ~usage'[x].exists PROVE usage'[x].used = 0
      BY DEF UnusedRows
  <2>1. x # r /\ ~usage[x].exists  BY CorrectionWrites
  <2> QED  BY <2>1, CorrectionWrites DEF UInv, UnusedRows
<1>7. LedgerAddsUp'
  <2> SUFFICES ASSUME NEW x \in Rows
               PROVE  usage'[x].used = Cost(Committed(x)', x[2]) + corrected'[x]
      BY DEF LedgerAddsUp, Committed
  <2>1. usage[x].used = Cost(Committed(x), x[2]) + corrected[x]  BY DEF UInv, LedgerAddsUp, Committed
  <2>2. Committed(x)' = Committed(x)  BY <1>2 DEF Committed, ChargedTo, InState
  <2>3. x[2] \in Dims /\ Committed(x) \in SUBSET Messages  BY DEF Rows, Committed, ChargedTo
  <2>4. Cost(Committed(x), x[2]) \in Nat  BY <2>3, PartsAreFinite
  <2>5. corrected[x] \in Int /\ usage[x].used \in Nat /\ usage'[x].used \in Nat
      BY <1>1, <1>3 DEF TypeOK, UsageRow
  <2>6. CASE x = r
    <3>1. corrected'[x] = corrected[x] + usage'[x].used - usage[x].used  BY <2>6, CorrectionWrites
    <3> QED  BY <2>1, <2>2, <2>4, <2>5, <3>1
  <2>7. CASE x # r  BY <2>1, <2>2, <2>7, CorrectionWrites
  <2> QED  BY <2>6, <2>7
<1> QED  BY <1>3, <1>4, <1>6, <1>7 DEF UInv

-----------------------------------------------------------------------------
(* Every step.                                                             *)

LEMMA NextKeepsUsage ==
    ASSUME UInv, [Next]_vars
    PROVE  UInv'
<1>1. ASSUME NEW m \in Messages, Begin(m) \/ CheckAllowance(m) \/ RollBack(m) \/ Reserve(m)
      PROVE  UInv'
    BY <1>1, BeginKeeps, CheckAllowanceKeeps, RollBackKeeps, ReserveKeeps
<1>2. ASSUME NEW m \in Messages,
             \/ CommitCall(m) \/ ReleaseCall(m) \/ Cancel(m) \/ Retry(m)
             \/ RepairMissingCommittedUsage(m) \/ ListAbandoned(m) \/ Expire(m)
      PROVE  UInv'
    BY <1>2, CommitCallKeeps, ReleaseCallKeeps, CancelKeeps, RetryKeeps, RepairKeeps,
       ListAbandonedKeeps, ExpireKeeps
<1>3. ASSUME NEW m \in Messages, NEW outcome \in {"sent", "failed", "spent"}, Delivered(m, outcome)
      PROVE  UInv'
    BY <1>3, DeliveredKeeps
<1>4. CASE UNCHANGED vars
  <2>1. UNCHANGED <<clock, plan, usage, reservation, msg, tx, calls, listed, corrected, retries>>
      BY <1>4 DEF vars
  <2>2. TypeOK'  BY <2>1 DEF UInv, TypeOK
  <2> QED  BY <2>1, <2>2, OutsideKeeps
<1> QED  BY <1>1, <1>2, <1>3, <1>4, CorrectUsageKeeps, ChangePlanKeeps, TickKeeps DEF Next

(* Reservations, usage rows and transactions agree: the inductive          *)
(* invariant of usage accounting.                                          *)
THEOREM UsageInvariant_Holds == Spec => []UInv
<1>1. Init => UInv  BY InitUsage
<1>2. UInv /\ [Next]_vars => UInv'  BY NextKeepsUsage
<1> QED  BY <1>1, <1>2, PTL DEF Spec

(* Counters stay natural numbers, whatever is corrected, and rows,         *)
(* reservations and transactions keep their types.                         *)
THEOREM UsageTypeCorrect == Spec => []TypeOK
<1>1. UInv => TypeOK  BY DEF UInv
<1> QED  BY <1>1, UsageInvariant_Holds, PTL

(* commit charges a reservation once, under its lock: every counter is the *)
(* sum of what was committed and what was corrected.                       *)
THEOREM CountersAddUp == Spec => []LedgerAddsUp
<1>1. UInv => LedgerAddsUp  BY DEF UInv
<1> QED  BY <1>1, UsageInvariant_Holds, PTL

LEMMA StepKeepsSettled ==
    ASSUME UInv, [Next]_vars, NEW m \in Messages,
           reservation[m].state \in {"committed", "released", "expired"}
    PROVE  reservation'[m] = reservation[m]
<1>1. CASE reservation' = reservation  BY <1>1
<1>2. ASSUME NEW x \in Messages, Reserve(x) PROVE reservation'[m] = reservation[m]
  <2>1. reservation[x].state = "none"
      BY <1>2 DEF Reserve, UInv, QueuedOnce
  <2>2. m # x => reservation'[m] = reservation[m]  BY <1>2 DEF Reserve, UInv, TypeOK
  <2> QED  BY <2>1, <2>2
<1>3. ASSUME NEW x \in Messages, Commit(x) PROVE reservation'[m] = reservation[m]  BY <1>3, CommitWrites
<1>4. ASSUME NEW x \in Messages, NEW to \in {"released", "expired"}, GivesUp(x, to)
      PROVE  reservation'[m] = reservation[m]
    BY <1>4, GiveUpWrites
<1>5. \A x \in Messages : Expire(x) => GivesUp(x, "expired")  BY DEF Expire, GivesUp
<1>6. \A x \in Messages : Cancel(x) \/ ReleaseCall(x) => GivesUp(x, "released")
    BY DEF Cancel, ReleaseCall, Release, GivesUp
<1>7. \A x \in Messages :
        CommitCall(x) \/ RepairMissingCommittedUsage(x) => Commit(x) \/ reservation' = reservation
    BY DEF CommitCall, RepairMissingCommittedUsage
<1>8. \A x \in Messages :
        Begin(x) \/ CheckAllowance(x) \/ RollBack(x) \/ Retry(x) \/ ListAbandoned(x) =>
          reservation' = reservation
    BY DEF Begin, CheckAllowance, RollBack, Retry, ListAbandoned
<1>9. \A x \in Messages : \A outcome \in {"sent", "failed", "spent"} :
        Delivered(x, outcome) => reservation' = reservation
    BY DEF Delivered
<1>10. /\ \A r \in Rows : \A value \in Corrections : CorrectUsage(r, value) => reservation' = reservation
       /\ \A d \in Dims : \A limit \in Limits \cup {Unlimited} :
            ChangePlan(d, limit) => reservation' = reservation
       /\ Tick => reservation' = reservation
       /\ UNCHANGED vars => reservation' = reservation
    BY DEF CorrectUsage, ChangePlan, Tick, vars
<1> QED  BY <1>1, <1>2, <1>3, <1>4, <1>5, <1>6, <1>7, <1>8, <1>9, <1>10 DEF Next

(* Whichever of commit, release and expiry comes first settles a           *)
(* reservation for good.                                                   *)
THEOREM SettledForGood == Spec => SettlementIsFinal
<1>1. UInv /\ [Next]_vars =>
        [\A m \in Messages : reservation[m].state \in {"committed", "released", "expired"} =>
           reservation'[m] = reservation[m]]_vars
    BY StepKeepsSettled
<1> QED  BY <1>1, UsageInvariant_Holds, PTL DEF Spec, SettlementIsFinal

-----------------------------------------------------------------------------
(* Limits.                                                                 *)

(* What m's transaction knows to be booked on a row.                       *)
Counted(m, r) == usage[r].used + Cost(Reserved(r) \cap Known(m), r[2])

(* What a transaction has found room for still fits, as far as it knows,   *)
(* and its rows are its own until it ends.                                 *)
RoomIsKept(m) ==
    tx[m].pc = "checked" =>
      /\ tx[m].at <= clock
      /\ \A d \in Dims : \A r \in Rows : tx[m].row[d] = r =>
           /\ Counted(m, r) + Units[m][d] <= tx[m].limit[d]
           /\ \A x \in Messages : tx[x].pc = "checked" /\ tx[x].row[d] = r => x = m

(* A row is in use from its start on.                                      *)
RowsHaveBegun ==
    /\ \A r \in Rows : usage[r].exists => usage[r].start <= clock
    /\ \A m \in Messages : \A d \in Dims :
         reservation[m].row[d] # NoRow =>
           usage[reservation[m].row[d]].start <= reservation[m].at

BInv == (\A m \in Messages : RoomIsKept(m)) /\ RowsHaveBegun

LEMMA BookedIsNat ==
    ASSUME UInv, NEW r \in Rows
    PROVE  /\ Booked(r) = usage[r].used + Cost(Reserved(r), r[2])
           /\ Booked(r) \in Nat /\ usage[r].used \in Nat /\ Cost(Reserved(r), r[2]) \in Nat
           /\ Reserved(r) \in SUBSET Messages /\ r[2] \in Dims
<1>1. Reserved(r) \in SUBSET Messages /\ r[2] \in Dims  BY DEF Reserved, ChargedTo, Rows
<1>2. Cost(Reserved(r), r[2]) \in Nat  BY <1>1, PartsAreFinite
<1>3. usage[r].used \in Nat  BY DEF UInv, TypeOK, UsageRow
<1> QED  BY <1>1, <1>2, <1>3 DEF Booked, Reserved

(* What a transaction knows of, and what it does not, cost what is booked. *)
LEMMA CountedIsNat ==
    ASSUME UInv, NEW m \in Messages, NEW r \in Rows
    PROVE  /\ Counted(m, r) \in Nat /\ Cost(Reserved(r) \ Known(m), r[2]) \in Nat
           /\ Booked(r) = Counted(m, r) + Cost(Reserved(r) \ Known(m), r[2])
<1> DEFINE S == Reserved(r) \cap Known(m)
           T == Reserved(r) \ Known(m)
<1>1. /\ S \in SUBSET Messages /\ T \in SUBSET Messages /\ S \cup T = Reserved(r) /\ S \cap T = {}
      /\ r[2] \in Dims
    BY BookedIsNat
<1> HIDE DEF S, T
<1>2. Cost(S \cup T, r[2]) = Cost(S, r[2]) + Cost(T, r[2])  BY <1>1, CostOfBoth
<1>3. Cost(S, r[2]) \in Nat /\ Cost(T, r[2]) \in Nat  BY <1>1, PartsAreFinite
<1>4. Counted(m, r) = usage[r].used + Cost(S, r[2])  BY DEF Counted, S
<1>5. Booked(r) = usage[r].used + Cost(S \cup T, r[2]) /\ usage[r].used \in Nat  BY <1>1, BookedIsNat
<1>6. Counted(m, r) \in Nat /\ Booked(r) = Counted(m, r) + Cost(T, r[2])  BY <1>2, <1>3, <1>4, <1>5
<1> QED  BY <1>3, <1>6 DEF T

LEMMA BookedIsNatNext ==
    ASSUME UInv', NEW r \in Rows
    PROVE  /\ Booked(r)' = usage'[r].used + Cost(Reserved(r)', r[2])
           /\ Booked(r)' \in Nat /\ usage'[r].used \in Nat /\ Cost(Reserved(r)', r[2]) \in Nat
           /\ Reserved(r)' \in SUBSET Messages
<1>1. Reserved(r)' \in SUBSET Messages /\ r[2] \in Dims  BY DEF Reserved, ChargedTo, Rows
<1>2. Cost(Reserved(r)', r[2]) \in Nat  BY <1>1, PartsAreFinite
<1>3. usage'[r].used \in Nat  BY DEF UInv, TypeOK, UsageRow
<1> QED  BY <1>1, <1>2, <1>3 DEF Booked, Reserved

(* Rows that a transaction has checked stay as they are, or lose           *)
(* reservations, and no transaction is further than it was.                *)
LEMMA RoomUndisturbed ==
    ASSUME UInv, UInv', BInv, clock <= clock', clock' \in Nat,
           \A m \in Messages : tx'[m] = tx[m] \/ tx'[m].pc # "checked",
           \A m \in Messages : \A d \in Dims : \A r \in Rows :
             tx'[m].pc = "checked" /\ tx[m].row[d] = r =>
               usage'[r].used = usage[r].used /\ Reserved(r)' \subseteq Reserved(r)
    PROVE  \A m \in Messages : RoomIsKept(m)'
<1> SUFFICES ASSUME NEW m \in Messages, tx'[m].pc = "checked"
             PROVE  /\ tx'[m].at <= clock'
                    /\ \A d \in Dims : \A r \in Rows : tx'[m].row[d] = r =>
                         /\ Counted(m, r)' + Units[m][d] <= tx'[m].limit[d]
                         /\ \A x \in Messages : tx'[x].pc = "checked" /\ tx'[x].row[d] = r => x = m
    BY DEF RoomIsKept
<1>1. tx'[m] = tx[m] /\ RoomIsKept(m)  BY DEF BInv
<1>2. tx[m].at \in Nat /\ clock \in Nat  BY TimeAssumption DEF UInv, TypeOK, Transaction, Times
<1>3. tx'[m].at <= clock'  BY <1>1, <1>2 DEF RoomIsKept
<1>4. ASSUME NEW d \in Dims, NEW r \in Rows, tx[m].row[d] = r
      PROVE  Counted(m, r)' + Units[m][d] <= tx[m].limit[d]
  <2>1. usage'[r].used = usage[r].used /\ Reserved(r)' \subseteq Reserved(r)  BY <1>4
  <2>2. Reserved(r)' \cap Known(m)' \subseteq Reserved(r) \cap Known(m)
      BY <1>1, <2>1 DEF Known, Reserved
  <2>3. Reserved(r) \cap Known(m) \in SUBSET Messages /\ r[2] \in Dims /\ usage[r].used \in Nat
      BY BookedIsNat
  <2>4. Cost(Reserved(r)' \cap Known(m)', r[2]) \in Nat /\ Cost(Reserved(r) \cap Known(m), r[2]) \in Nat
        /\ Cost(Reserved(r)' \cap Known(m)', r[2]) <= Cost(Reserved(r) \cap Known(m), r[2])
      BY <2>2, <2>3, CostGrows
  <2>5. Counted(m, r)' = usage'[r].used + Cost(Reserved(r)' \cap Known(m)', r[2])  BY DEF Counted
  <2>6. Counted(m, r) + Units[m][d] <= tx[m].limit[d]  BY <1>1, <1>4 DEF RoomIsKept
  <2>7. Units[m][d] \in Nat /\ tx[m].limit[d] \in Nat  BY UnitsAssumption DEF UInv, TypeOK, Transaction
  <2> QED  BY <2>1, <2>3, <2>4, <2>5, <2>6, <2>7 DEF Counted
<1>5. ASSUME NEW d \in Dims, NEW r \in Rows, tx[m].row[d] = r, NEW x \in Messages,
             tx'[x].pc = "checked", tx'[x].row[d] = r
      PROVE  x = m
    BY <1>1, <1>5 DEF RoomIsKept
<1> QED  BY <1>1, <1>3, <1>4, <1>5

LEMMA BegunKept ==
    ASSUME UInv, BInv, clock <= clock', clock' \in Nat,
           \A r \in Rows : usage'[r].exists = usage[r].exists /\ usage'[r].start = usage[r].start,
           \A m \in Messages : /\ reservation'[m].row = reservation[m].row
                               /\ reservation'[m].at = reservation[m].at
    PROVE  RowsHaveBegun'
<1>1. \A r \in Rows : usage[r].start \in Nat  BY TimeAssumption DEF UInv, TypeOK, UsageRow, Times
<1>2. clock \in Nat  BY TimeAssumption DEF UInv, TypeOK, Times
<1>3. \A r \in Rows : usage'[r].exists => usage'[r].start <= clock'
    BY <1>1, <1>2 DEF BInv, RowsHaveBegun
<1>4. \A m \in Messages : \A d \in Dims : reservation[m].row[d] \in Rows \cup {NoRow}
    BY DEF UInv, TypeOK, Reservation
<1>5. \A m \in Messages : \A d \in Dims : reservation'[m].row[d] # NoRow =>
        usage'[reservation'[m].row[d]].start <= reservation'[m].at
    BY <1>4 DEF BInv, RowsHaveBegun
<1> QED  BY <1>3, <1>5 DEF RowsHaveBegun

(* A step that books nothing.                                              *)
LEMMA NothingBooked ==
    ASSUME UInv, UInv', BInv, clock <= clock',
           \A r \in Rows : usage'[r].exists = usage[r].exists /\ usage'[r].start = usage[r].start,
           \A m \in Messages : /\ reservation'[m].row = reservation[m].row
                               /\ reservation'[m].at = reservation[m].at,
           \A m \in Messages : tx'[m] = tx[m] \/ tx'[m].pc # "checked",
           \A r \in Rows : Booked(r)' <= Booked(r),
           \A r \in Rows : Locked(r) =>
             usage'[r].used = usage[r].used /\ Reserved(r)' \subseteq Reserved(r)
    PROVE  BInv' /\ BookedWithinLimit
<1>1. clock' \in Nat  BY TimeAssumption DEF UInv, TypeOK, Times
<1>5. ASSUME NEW m \in Messages, NEW d \in Dims, NEW r \in Rows, tx'[m].pc = "checked", tx[m].row[d] = r
      PROVE  usage'[r].used = usage[r].used /\ Reserved(r)' \subseteq Reserved(r)
  <2>1. tx[m].pc = "checked" /\ r # NoRow  BY <1>5, SetsAssumption DEF Rows
  <2>2. r[2] = d  BY <1>5, <2>1 DEF UInv, RowsExist
  <2>3. Locked(r)  BY <1>5, <2>1, <2>2 DEF Locked
  <2> QED  BY <2>3
<1>2. \A m \in Messages : RoomIsKept(m)'  BY <1>1, <1>5, RoomUndisturbed
<1>3. RowsHaveBegun'  BY <1>1, BegunKept
<1>4. BookedWithinLimit
  <2> SUFFICES ASSUME NEW r \in Rows, Booked(r)' > Booked(r) PROVE FALSE
      BY DEF BookedWithinLimit
  <2>1. Booked(r) \in Nat /\ Booked(r)' \in Nat /\ Booked(r)' <= Booked(r)
      BY BookedIsNat, BookedIsNatNext
  <2> QED  BY <2>1
<1> QED  BY <1>2, <1>3, <1>4 DEF BInv

LEMMA BookedUnchanged ==
    ASSUME UInv, UNCHANGED <<usage, reservation>>, NEW r \in Rows
    PROVE  Booked(r)' = Booked(r) /\ Booked(r)' <= Booked(r) /\ Reserved(r)' = Reserved(r)
<1>1. Booked(r)' = Booked(r) /\ Reserved(r)' = Reserved(r)
    BY DEF Booked, Reserved, ChargedTo, InState
<1>2. Booked(r) \in Nat  BY BookedIsNat
<1> QED  BY <1>1, <1>2

LEMMA RowsUntouchedKeeps ==
    ASSUME UInv, UInv', BInv, clock <= clock', UNCHANGED <<usage, reservation>>,
           \A m \in Messages : tx'[m] = tx[m] \/ tx'[m].pc # "checked"
    PROVE  BInv' /\ BookedWithinLimit
<1>1. \A r \in Rows : Booked(r)' <= Booked(r) /\ Reserved(r)' = Reserved(r)  BY BookedUnchanged
<1> QED  BY <1>1, NothingBooked

LEMMA GiveUpBooks ==
    ASSUME UInv, UInv', BInv, NEW m \in Messages, NEW to \in {"released", "expired"}, GivesUp(m, to),
           UNCHANGED <<clock, usage, tx>>
    PROVE  BInv' /\ BookedWithinLimit
<1>1. ASSUME NEW r \in Rows PROVE Booked(r)' <= Booked(r) /\ Reserved(r)' \subseteq Reserved(r)
  <2>1. Reserved(r)' \subseteq Reserved(r)
      BY GiveUpWrites DEF Reserved, ChargedTo, InState
  <2>2. Reserved(r) \in SUBSET Messages /\ r[2] \in Dims  BY BookedIsNat
  <2>3. Cost(Reserved(r)', r[2]) <= Cost(Reserved(r), r[2])  BY <2>1, <2>2, CostGrows
  <2> QED  BY <2>1, <2>3, BookedIsNat, BookedIsNatNext
<1>2. clock <= clock'  BY TimeAssumption DEF UInv, TypeOK, Times
<1> QED  BY <1>1, <1>2, GiveUpWrites, NothingBooked

LEMMA CommitBooks ==
    ASSUME UInv, UInv', BInv, NEW m \in Messages, Commit(m), UNCHANGED <<clock, tx>>
    PROVE  BInv' /\ BookedWithinLimit
<1>1. ASSUME NEW r \in Rows PROVE Booked(r)' <= Booked(r)
  <2>1. /\ Reserved(r) \in SUBSET Messages /\ r[2] \in Dims /\ usage[r].used \in Nat
        /\ Booked(r) = usage[r].used + Cost(Reserved(r), r[2])
      BY BookedIsNat
  <2>2. /\ Reserved(r)' \in SUBSET Messages /\ Cost(Reserved(r)', r[2]) \in Nat
        /\ Booked(r)' = usage'[r].used + Cost(Reserved(r)', r[2])
      BY BookedIsNatNext
  <2>3. CASE m \in ChargedTo(r)
    <3>1. m \notin Reserved(r)' /\ Reserved(r) = Reserved(r)' \cup {m}
        BY <2>3, CommitWrites DEF Reserved, ChargedTo, InState
    <3>2. Cost(Reserved(r)' \cup {m}, r[2]) = Cost(Reserved(r)', r[2]) + Units[m][r[2]]
        BY <2>1, <2>2, <3>1, CostOfOneMore
    <3>3. usage'[r].used = usage[r].used + Units[m][r[2]]  BY <2>3, CommitWrites
    <3>4. Units[m][r[2]] \in Nat  BY <2>1, UnitsAssumption
    <3>5. Cost(Reserved(r), r[2]) = Cost(Reserved(r)', r[2]) + Units[m][r[2]]  BY <3>1, <3>2
    <3> QED  BY <2>1, <2>2, <3>3, <3>4, <3>5
  <2>4. CASE m \notin ChargedTo(r)
    <3>1. Reserved(r)' = Reserved(r) /\ usage'[r].used = usage[r].used
        BY <2>4, CommitWrites DEF Reserved, ChargedTo, InState
    <3> QED  BY <2>1, <2>2, <3>1
  <2> QED  BY <2>3, <2>4
<1>2. clock <= clock'  BY TimeAssumption DEF UInv, TypeOK, Times
<1>3. ASSUME NEW r \in Rows, Locked(r)
      PROVE  usage'[r].used = usage[r].used /\ Reserved(r)' \subseteq Reserved(r)
  <2>1. m \notin ChargedTo(r)  BY <1>3 DEF Commit
  <2> QED  BY <2>1, CommitWrites DEF Reserved, ChargedTo, InState
<1> QED  BY <1>1, <1>2, <1>3, CommitWrites, NothingBooked

(* A correction changes a row that no transaction holds.                   *)
LEMMA CorrectionBooks ==
    ASSUME UInv, UInv', BInv, NEW r \in Rows, NEW value \in Corrections, CorrectUsage(r, value)
    PROVE  BInv' /\ BookedWithinLimit
<1>1. UNCHANGED <<clock, reservation, tx>> /\ ~Locked(r)  BY DEF CorrectUsage
<1>2. clock <= clock' /\ clock' \in Nat  BY <1>1, TimeAssumption DEF UInv, TypeOK, Times
<1>3. \A x \in Rows : Reserved(x)' = Reserved(x)  BY <1>1 DEF Reserved, ChargedTo, InState
<1>4. ASSUME NEW x \in Rows, x # r PROVE Booked(x)' = Booked(x) /\ Booked(x)' <= Booked(x)
    BY <1>3, <1>4, CorrectionWrites, BookedIsNat, BookedIsNatNext
<1>5. ASSUME NEW m \in Messages, NEW d \in Dims, NEW x \in Rows, tx'[m].pc = "checked", tx[m].row[d] = x
      PROVE  usage'[x].used = usage[x].used /\ Reserved(x)' \subseteq Reserved(x)
  <2>1. tx[m].pc = "checked" /\ x # NoRow  BY <1>1, <1>5, SetsAssumption DEF Rows
  <2>2. x[2] = d  BY <1>5, <2>1 DEF UInv, RowsExist
  <2>3. x # r  BY <1>1, <1>5, <2>1, <2>2 DEF Locked
  <2> QED  BY <1>3, <2>3, CorrectionWrites
<1>6. \A m \in Messages : RoomIsKept(m)'  BY <1>1, <1>2, <1>5, RoomUndisturbed
<1>7. RowsHaveBegun'  BY <1>1, <1>2, CorrectionWrites, BegunKept
<1>8. BookedWithinLimit
  <2> SUFFICES ASSUME NEW x \in Rows, Booked(x)' > Booked(x) PROVE corrected'[x] # corrected[x]
      BY DEF BookedWithinLimit
  <2>1. Booked(x) \in Nat /\ Booked(x)' \in Nat  BY BookedIsNat, BookedIsNatNext
  <2>2. x = r  BY <1>4, <2>1
  <2>3. usage'[x].used > usage[x].used  BY <1>3, BookedIsNat, BookedIsNatNext
  <2>4. corrected'[x] = corrected[x] + usage'[x].used - usage[x].used  BY <2>2, CorrectionWrites
  <2>5. corrected[x] \in Int /\ usage'[x].used \in Nat /\ usage[x].used \in Nat
      BY BookedIsNat, BookedIsNatNext DEF UInv, TypeOK
  <2> QED  BY <2>3, <2>4, <2>5
<1> QED  BY <1>6, <1>7, <1>8 DEF BInv

(* A row nobody has created yet is not booked.                             *)
LEMMA NewRowIsEmpty ==
    ASSUME UInv, NEW m \in Messages, NEW r \in Rows, ~usage[r].exists
    PROVE  Counted(m, r) = 0
<1>1. Reserved(r) = {}
  <2>1. r[2] \in Dims /\ r # NoRow  BY SetsAssumption DEF Rows
  <2>2. \A x \in Messages : reservation[x].row[r[2]] # r  BY <2>1 DEF UInv, RowsExist
  <2> QED  BY <2>2 DEF Reserved, ChargedTo
<1>2. Cost({}, r[2]) = 0
  <2>1. {u \in {} \X (1 .. MaxUnits) : u[2] <= Units[u[1]][r[2]]} = {}  OBVIOUS
  <2> QED  BY <2>1, FS_EmptySet DEF Cost
<1>3. usage[r].used = 0  BY DEF UInv, UnusedRows
<1>4. Reserved(r) \cap Known(m) = {}  BY <1>1
<1> QED  BY <1>2, <1>3, <1>4 DEF Counted

(* checkAllowance counts all that it knows to be booked on the row.        *)
LEMMA AllowedFits ==
    ASSUME UInv, BInv, NEW m \in Messages, NEW d \in Dims, NEW r \in Rows,
           msg[m] = "new", r \in RowChoices(m, d), Allowed(m, d, r)
    PROVE  PlanOf(m)[d] \in Nat /\ r[2] = d /\ Counted(m, r) + Units[m][d] <= PlanOf(m)[d]
<1>1. r # NoRow  BY SetsAssumption DEF Rows
<1>2. PlanOf(m)[d] # Unlimited /\ (r = <<m, d>> \/ r \in Current(d))  BY <1>1 DEF RowChoices
<1>3. PlanOf(m)[d] \in Nat  BY <1>2, KnownPlan, LimitsAssumption
<1>4. Units[m][d] \in Nat  BY UnitsAssumption
<1>5. r[2] = d  BY <1>2 DEF Current
<1>6. CASE r = <<m, d>>
  <2> DEFINE S == {x \in Known(m) : reservation[x].at >= PeriodStart(clock)}
  <2>1. 0 + Outstanding(m, d, PeriodStart(clock)) + Units[m][d] <= PlanOf(m)[d]
      BY <1>1, <1>6 DEF Allowed
  <2>2. Outstanding(m, d, PeriodStart(clock)) = Cost(S, d)  BY DEF Outstanding
  <2>3. S \in SUBSET Messages  BY KnownPlan
  <2> HIDE DEF S
  <2>4. Cost(S, d) \in Nat  BY <2>3, PartsAreFinite
  <2>5. ~usage[r].exists  BY <1>6 DEF UInv, QueuedOnce
  <2>6. Counted(m, r) = 0  BY <2>5, NewRowIsEmpty
  <2> QED  BY <1>3, <1>4, <1>5, <2>1, <2>2, <2>4, <2>6
<1>7. CASE r # <<m, d>>
  <2> DEFINE S == {x \in Known(m) : reservation[x].at >= usage[r].start}
  <2>1. usage[r].used + Outstanding(m, d, usage[r].start) + Units[m][d] <= PlanOf(m)[d]
      BY <1>1, <1>7 DEF Allowed
  <2>2. Outstanding(m, d, usage[r].start) = Cost(S, d)  BY DEF Outstanding
  <2>3. S \in SUBSET Messages  BY KnownPlan
  <2>4. Reserved(r) \cap Known(m) \subseteq S
    <3> SUFFICES ASSUME NEW x \in Reserved(r) \cap Known(m) PROVE reservation[x].at >= usage[r].start
        OBVIOUS
    <3>1. x \in Messages /\ reservation[x].row[d] = r  BY <1>5 DEF Reserved, ChargedTo
    <3>2. usage[r].start <= reservation[x].at  BY <1>1, <3>1 DEF BInv, RowsHaveBegun
    <3>3. usage[r].start \in Nat /\ reservation[x].at \in Nat
        BY <3>1, TimeAssumption DEF UInv, TypeOK, UsageRow, Reservation, Times
    <3> QED  BY <3>2, <3>3
  <2> HIDE DEF S
  <2>5. Cost(Reserved(r) \cap Known(m), d) \in Nat /\ Cost(S, d) \in Nat
        /\ Cost(Reserved(r) \cap Known(m), d) <= Cost(S, d)
      BY <2>3, <2>4, CostGrows
  <2>6. Counted(m, r) = usage[r].used + Cost(Reserved(r) \cap Known(m), d) /\ usage[r].used \in Nat
      BY <1>5, BookedIsNat DEF Counted
  <2> QED  BY <1>3, <1>4, <1>5, <2>1, <2>2, <2>5, <2>6
<1> QED  BY <1>6, <1>7

LEMMA CheckBooks ==
    ASSUME UInv, UInv', BInv, NEW m \in Messages, CheckAllowance(m)
    PROVE  BInv' /\ BookedWithinLimit
<1>1. PICK row \in [Dims -> Rows \cup {NoRow}] :
         /\ \A d \in Dims : row[d] \in RowChoices(m, d)
         /\ \A d \in Dims : row[d] # NoRow => ~Locked(row[d])
         /\ \A d \in Dims : Allowed(m, d, row[d])
         /\ tx' = [tx EXCEPT ![m].pc = "checked", ![m].row = row, ![m].at = clock,
                             ![m].limit = [d \in Dims |-> IF row[d] = NoRow THEN 0
                                                          ELSE PlanOf(m)[d]]]
    BY DEF CheckAllowance
<1>2. UNCHANGED <<clock, usage, reservation>> /\ tx[m].pc = "open"  BY DEF CheckAllowance
<1> DEFINE limit == [d \in Dims |-> IF row[d] = NoRow THEN 0 ELSE PlanOf(m)[d]]
<1>3. tx \in [Messages -> Transaction] /\ tx[m] \in Transaction  BY DEF UInv, TypeOK
<1>4. /\ tx'[m] = [tx[m] EXCEPT !.pc = "checked", !.row = row, !.at = clock, !.limit = limit]
      /\ \A x \in Messages \ {m} : tx'[x] = tx[x]
    BY <1>1, <1>3
<1> HIDE DEF limit
<1>5. tx'[m].pc = "checked" /\ tx'[m].row = row /\ tx'[m].at = clock /\ tx'[m].limit = limit
      /\ tx'[m].seen = tx[m].seen
    BY <1>3, <1>4 DEF Transaction
<1>6. clock \in Nat  BY TimeAssumption DEF UInv, TypeOK, Times
<1>7. msg[m] = "new"  BY <1>2 DEF UInv, QueuedOnce
<1>8. ASSUME NEW x \in Messages, NEW r \in Rows PROVE Counted(x, r)' = Counted(x, r)
  <2>1. Known(x)' = Known(x)  BY <1>2, <1>4, <1>5 DEF Known, InState
  <2>2. Reserved(r)' = Reserved(r)  BY <1>2, BookedUnchanged
  <2> QED  BY <1>2, <2>1, <2>2 DEF Counted
(* No other transaction has checked a row of this one.                     *)
<1>9. ASSUME NEW x \in Messages \ {m}, NEW d \in Dims, NEW r \in Rows, row[d] = r,
             tx[x].pc = "checked", tx[x].row[d] = r
      PROVE  FALSE
  <2>1. r # NoRow  BY SetsAssumption DEF Rows
  <2>2. r[2] = d  BY <1>9, <2>1 DEF UInv, RowsExist
  <2> QED  BY <1>1, <1>9, <2>1, <2>2 DEF Locked
<1>10. ASSUME NEW x \in Messages, tx'[x].pc = "checked"
       PROVE  RoomIsKept(x)'
  <2>1. CASE x = m
    <3>1. ASSUME NEW d \in Dims, NEW r \in Rows, row[d] = r
          PROVE  Counted(m, r)' + Units[m][d] <= limit[d]
      <4>1. r \in RowChoices(m, d) /\ Allowed(m, d, r)  BY <1>1, <3>1
      <4>2. Counted(m, r) + Units[m][d] <= PlanOf(m)[d]  BY <1>7, <4>1, AllowedFits
      <4>3. limit[d] = PlanOf(m)[d]  BY <3>1, SetsAssumption DEF limit, Rows
      <4> QED  BY <1>8, <4>2, <4>3
    <3>2. tx'[m].at <= clock'  BY <1>2, <1>5, <1>6
    <3>3. ASSUME NEW d \in Dims, NEW r \in Rows, row[d] = r, NEW y \in Messages,
                 tx'[y].pc = "checked", tx'[y].row[d] = r
          PROVE  y = m
        BY <1>4, <1>9, <3>3
    <3> QED  BY <1>5, <2>1, <3>1, <3>2, <3>3 DEF RoomIsKept
  <2>2. CASE x # m
    <3>1. tx'[x] = tx[x] /\ RoomIsKept(x) /\ tx[x].pc = "checked"  BY <1>4, <1>10, <2>2 DEF BInv
    <3>2. ASSUME NEW d \in Dims, NEW r \in Rows, tx[x].row[d] = r
          PROVE  Counted(x, r)' + Units[x][d] <= tx[x].limit[d]
      <4>1. Counted(x, r) + Units[x][d] <= tx[x].limit[d]  BY <3>1, <3>2 DEF RoomIsKept
      <4> QED  BY <1>8, <4>1
    <3>3. ASSUME NEW d \in Dims, NEW r \in Rows, tx[x].row[d] = r, NEW y \in Messages,
                 tx'[y].pc = "checked", tx'[y].row[d] = r
          PROVE  y = x
      <4>1. CASE y = m  BY <1>5, <1>9, <2>2, <3>1, <3>3, <4>1
      <4>2. CASE y # m  BY <1>4, <3>1, <3>3, <4>2 DEF RoomIsKept
      <4> QED  BY <4>1, <4>2
    <3>4. tx'[x].at <= clock'  BY <1>2, <3>1 DEF RoomIsKept
    <3> QED  BY <3>1, <3>2, <3>3, <3>4 DEF RoomIsKept
  <2> QED  BY <2>1, <2>2
<1>11. \A x \in Messages : RoomIsKept(x)'  BY <1>10 DEF RoomIsKept
<1>12. RowsHaveBegun'  BY <1>2, <1>6, BegunKept
<1>13. BookedWithinLimit
  <2>1. \A r \in Rows : Booked(r) \in Nat /\ Booked(r)' = Booked(r)  BY <1>2, BookedIsNat, BookedUnchanged
  <2> QED  BY <2>1 DEF BookedWithinLimit
<1> QED  BY <1>11, <1>12, <1>13 DEF BInv

LEMMA ReserveBooks ==
    ASSUME UInv, UInv', BInv, NEW m \in Messages, Reserve(m)
    PROVE  BInv' /\ BookedWithinLimit
<1>1. TypeOK /\ RowsExist(m) /\ RoomIsKept(m)  BY DEF UInv, BInv
<1>2. tx[m].pc = "checked" /\ tx[m] \in Transaction /\ reservation[m].state = "none"
    BY DEF UInv, TypeOK, QueuedOnce, Reserve
<1>3. clock' = clock /\ clock \in Nat  BY TimeAssumption DEF UInv, TypeOK, Times, Reserve
<1>4. /\ reservation'[m].state = "reserved" /\ reservation'[m].row = tx[m].row
      /\ reservation'[m].at = clock
      /\ \A x \in Messages \ {m} : reservation'[x] = reservation[x]
    BY <1>1 DEF TypeOK, Reserve
<1>5. tx'[m].pc = "none" /\ \A x \in Messages \ {m} : tx'[x] = tx[x]
    BY <1>1, NoTransactionIsOne DEF TypeOK, Reserve
<1>6. ASSUME NEW r \in Rows, tx[m].row[r[2]] # r
      PROVE  /\ Booked(r)' = Booked(r)
             /\ Reserved(r)' = Reserved(r) /\ usage'[r].used = usage[r].used
  <2>1. Reserved(r)' = Reserved(r)  BY <1>2, <1>4, <1>6 DEF Reserved, ChargedTo, InState
  <2>2. usage'[r].used = usage[r].used  BY RowsAfterReserve
  <2> QED  BY <2>1, <2>2, BookedIsNat, BookedIsNatNext
<1>7. ASSUME NEW r \in Rows, tx[m].row[r[2]] = r
      PROVE  /\ m \in Reserved(r)' \ Reserved(r)
             /\ Booked(r)' <= usage'[r].limit + Cost(Reserved(r) \ Known(m), r[2])
  <2>1. r[2] \in Dims  BY DEF Rows
  <2>2. Counted(m, r) + Units[m][r[2]] <= tx[m].limit[r[2]]  BY <1>1, <1>2, <1>7, <2>1 DEF RoomIsKept
  <2>3. m \notin Reserved(r) /\ Reserved(r)' = Reserved(r) \cup {m}
      BY <1>2, <1>4, <1>7 DEF Reserved, ChargedTo, InState
  <2>4. Reserved(r) \in SUBSET Messages  BY BookedIsNat
  <2>5. Cost(Reserved(r) \cup {m}, r[2]) = Cost(Reserved(r), r[2]) + Units[m][r[2]]
      BY <2>1, <2>3, <2>4, CostOfOneMore
  <2>6. Cost(Reserved(r)', r[2]) = Cost(Reserved(r), r[2]) + Units[m][r[2]]  BY <2>3, <2>5
  <2>7. usage'[r].used = usage[r].used /\ usage'[r].limit = tx[m].limit[r[2]]
      BY <1>7, RowsAfterReserve
  <2>8. Units[m][r[2]] \in Nat /\ tx[m].limit[r[2]] \in Nat
      BY <1>2, <2>1, UnitsAssumption DEF Transaction
  <2>9. Booked(r)' = Booked(r) + Units[m][r[2]]
      BY <2>6, <2>7, <2>8, BookedIsNat, BookedIsNatNext
  <2>10. /\ Counted(m, r) \in Nat /\ Cost(Reserved(r) \ Known(m), r[2]) \in Nat
         /\ Booked(r) = Counted(m, r) + Cost(Reserved(r) \ Known(m), r[2])
      BY CountedIsNat
  <2>11. Booked(r)' <= tx[m].limit[r[2]] + Cost(Reserved(r) \ Known(m), r[2])
      BY <2>2, <2>8, <2>9, <2>10
  <2> QED  BY <2>3, <2>7, <2>11
<1>8. BookedWithinLimit
  <2> SUFFICES ASSUME NEW r \in Rows, Booked(r)' > Booked(r)
               PROVE  \E x \in Reserved(r)' \ Reserved(r) :
                        Booked(r)' <= usage'[r].limit + Cost(Reserved(r) \ Known(x), r[2])
      BY DEF BookedWithinLimit
  <2>1. Booked(r) \in Nat  BY BookedIsNat
  <2>2. tx[m].row[r[2]] = r  BY <1>6, <2>1
  <2> QED  BY <1>7, <2>2
<1>9. ASSUME NEW x \in Messages, NEW d \in Dims, NEW r \in Rows, tx'[x].pc = "checked", tx[x].row[d] = r
      PROVE  usage'[r].used = usage[r].used /\ Reserved(r)' \subseteq Reserved(r)
  <2>1. x # m /\ tx[x].pc = "checked" /\ r # NoRow  BY <1>5, <1>9, SetsAssumption DEF Rows
  <2>2. r[2] = d /\ RoomIsKept(x)  BY <1>9, <2>1 DEF UInv, RowsExist, BInv
  <2>3. tx[m].row[d] # r  BY <1>2, <1>9, <2>1, <2>2 DEF RoomIsKept
  <2> QED  BY <1>6, <2>2, <2>3
<1>10. \A x \in Messages : RoomIsKept(x)'
  <2>1. \A x \in Messages : tx'[x] = tx[x] \/ tx'[x].pc # "checked"  BY <1>5
  <2>2. clock <= clock' /\ clock' \in Nat  BY <1>3
  <2> QED  BY <1>9, <2>1, <2>2, RoomUndisturbed
<1>11. ASSUME NEW r \in Rows, usage'[r].exists PROVE usage'[r].start <= clock
  <2>1. CASE usage[r].exists  BY <2>1, RowsAfterReserve DEF BInv, RowsHaveBegun
  <2>2. CASE ~usage[r].exists
    <3>1. usage'[r].start = PeriodStart(tx[m].at)  BY <1>11, <2>2, RowsAfterReserve
    <3>2. tx[m].at \in Times /\ tx[m].at <= clock  BY <1>1, <1>2 DEF Transaction, RoomIsKept
    <3>3. PeriodStart(tx[m].at) \in Times /\ PeriodStart(tx[m].at) <= tx[m].at  BY <3>2, PeriodHasBegun
    <3> QED  BY <1>3, <3>1, <3>2, <3>3, TimeAssumption DEF Times
  <2> QED  BY <2>1, <2>2
<1>12. ASSUME NEW x \in Messages, NEW d \in Dims, reservation'[x].row[d] # NoRow
       PROVE  usage'[reservation'[x].row[d]].start <= reservation'[x].at
  <2>1. reservation'[x].row[d] \in Rows /\ usage'[reservation'[x].row[d]].exists
      BY <1>12 DEF UInv, TypeOK, Reservation, RowsExist
  <2>2. CASE x = m  BY <1>4, <1>11, <2>1, <2>2
  <2>3. CASE x # m
    <3>1. reservation'[x] = reservation[x]  BY <1>4, <2>3
    <3>2. usage[reservation[x].row[d]].exists  BY <1>12, <3>1 DEF UInv, RowsExist
    <3>3. usage'[reservation[x].row[d]].start = usage[reservation[x].row[d]].start
        BY <2>1, <3>1, <3>2, RowsAfterReserve
    <3> QED  BY <1>12, <3>1, <3>3 DEF BInv, RowsHaveBegun
  <2> QED  BY <2>2, <2>3
<1>13. RowsHaveBegun'  BY <1>3, <1>11, <1>12 DEF RowsHaveBegun
<1> QED  BY <1>8, <1>10, <1>13 DEF BInv

LEMMA InitBooks ==
    ASSUME Init
    PROVE  BInv
<1>1. ASSUME NEW m \in Messages PROVE RoomIsKept(m)
  <2>1. tx[m].pc = "none"  BY NoTransactionIsOne DEF Init
  <2> QED  BY <2>1 DEF RoomIsKept
<1>2. RowsHaveBegun  BY DEF Init, RowsHaveBegun, Uncharged
<1> QED  BY <1>1, <1>2 DEF BInv

LEMMA NextBooks ==
    ASSUME UInv, BInv, [Next]_vars
    PROVE  BInv' /\ BookedWithinLimit
<1>1. UInv'  BY NextKeepsUsage
<1>2. clock <= clock /\ clock \in Nat  BY TimeAssumption DEF UInv, TypeOK, Times
<1>3. ASSUME NEW m \in Messages, Begin(m) \/ RollBack(m)
      PROVE  BInv' /\ BookedWithinLimit
  <2>1. \A x \in Messages : tx'[x] = tx[x] \/ tx'[x].pc # "checked"
    <3> DEFINE new == [NoTransaction EXCEPT !.pc = "open", !.seen = InState("reserved"), !.plan = plan]
    <3>1. new.pc = "open" /\ NoTransaction.pc = "none"  BY DEF NoTransaction
    <3>2. tx' = [tx EXCEPT ![m] = new] \/ tx' = [tx EXCEPT ![m] = NoTransaction]
        BY <1>3 DEF Begin, RollBack
    <3> HIDE DEF new
    <3> QED  BY <3>1, <3>2 DEF UInv, TypeOK
  <2>2. UNCHANGED <<clock, usage, reservation>>  BY <1>3 DEF Begin, RollBack
  <2> QED  BY <1>1, <1>2, <2>1, <2>2, RowsUntouchedKeeps
<1>4. ASSUME NEW m \in Messages, CheckAllowance(m) PROVE BInv' /\ BookedWithinLimit
    BY <1>1, <1>4, CheckBooks
<1>5. ASSUME NEW m \in Messages, Reserve(m) PROVE BInv' /\ BookedWithinLimit
    BY <1>1, <1>5, ReserveBooks
<1>6. ASSUME NEW m \in Messages, ReleaseCall(m) \/ Cancel(m) PROVE BInv' /\ BookedWithinLimit
  <2>1. GivesUp(m, "released") /\ UNCHANGED <<clock, usage, tx>>
      BY <1>6 DEF ReleaseCall, Cancel, Release, GivesUp
  <2> QED  BY <1>1, <2>1, GiveUpBooks
<1>7. ASSUME NEW m \in Messages, CommitCall(m) \/ RepairMissingCommittedUsage(m)
      PROVE  BInv' /\ BookedWithinLimit
  <2>1. UNCHANGED <<clock, tx>> /\ (Commit(m) \/ UNCHANGED <<usage, reservation>>)
      BY <1>7 DEF CommitCall, RepairMissingCommittedUsage
  <2>2. CASE Commit(m)  BY <1>1, <2>1, <2>2, CommitBooks
  <2>3. CASE UNCHANGED <<usage, reservation>>  BY <1>1, <1>2, <2>1, <2>3, RowsUntouchedKeeps
  <2> QED  BY <2>1, <2>2, <2>3
<1>8. ASSUME NEW m \in Messages, Retry(m) \/ ListAbandoned(m) PROVE BInv' /\ BookedWithinLimit
    BY <1>1, <1>2, <1>8, RowsUntouchedKeeps DEF Retry, ListAbandoned
<1>9. ASSUME NEW m \in Messages, NEW outcome \in {"sent", "failed", "spent"}, Delivered(m, outcome)
      PROVE  BInv' /\ BookedWithinLimit
    BY <1>1, <1>2, <1>9, RowsUntouchedKeeps DEF Delivered
<1>10. ASSUME NEW m \in Messages, Expire(m) PROVE BInv' /\ BookedWithinLimit
  <2>1. GivesUp(m, "expired") /\ UNCHANGED <<clock, usage, tx>>  BY <1>10 DEF Expire, GivesUp
  <2> QED  BY <1>1, <2>1, GiveUpBooks
<1>11. ASSUME NEW r \in Rows, NEW value \in Corrections, CorrectUsage(r, value)
       PROVE  BInv' /\ BookedWithinLimit
    BY <1>1, <1>11, CorrectionBooks
<1>12. ASSUME NEW d \in Dims, NEW limit \in Limits \cup {Unlimited}, ChangePlan(d, limit)
       PROVE  BInv' /\ BookedWithinLimit
    BY <1>1, <1>2, <1>12, RowsUntouchedKeeps DEF ChangePlan
<1>13. CASE Tick
  <2>1. clock <= clock' /\ UNCHANGED <<usage, reservation, tx>>  BY <1>2, <1>13 DEF Tick
  <2> QED  BY <1>1, <2>1, RowsUntouchedKeeps
<1>14. CASE UNCHANGED vars  BY <1>1, <1>2, <1>14, RowsUntouchedKeeps DEF vars
<1> QED
    BY <1>3, <1>4, <1>5, <1>6, <1>7, <1>8, <1>9, <1>10, <1>11, <1>12, <1>13, <1>14 DEF Next

(* A request checks and books a row under its lock: whatever goes past the *)
(* limit was reserved by transactions that overlap.                        *)
THEOREM OverbookingIsOverlap == Spec => OnlyOverlapOverbooks
<1>1. Init => BInv  BY InitBooks
<1>2. UInv /\ BInv /\ [Next]_vars => BInv' /\ BookedWithinLimit  BY NextBooks
<1> QED  BY <1>1, <1>2, UsageInvariant_Holds, PTL DEF Spec, OnlyOverlapOverbooks

=============================================================================
