--------------------------- MODULE UsageProperties ---------------------------
(***************************************************************************)
(* What usage accounting promises: counters that add up, and limits that   *)
(* requests do not pass.                                                   *)
(***************************************************************************)
EXTENDS OutboundUsage

Reserved(r) == ChargedTo(r) \cap InState("reserved")

(* What is used of a row, or reserved against it.                          *)
Booked(r) == usage[r].used + Cost(Reserved(r), r[2])

(* A counter is what the committed messages cost, each once, and what      *)
(* administrators changed: no retry, lost or repeated call, repair, expiry *)
(* or change of period charges a message twice or loses a charge.          *)
LedgerAddsUp ==
    \A r \in Rows :
      usage[r].used = Cost(ChargedTo(r) \cap InState("committed"), r[2]) + corrected[r]

(* Apart from corrections, only a reservation raises what is booked on a   *)
(* row, and it stays within the limit written there, not counting what its *)
(* transaction could not know of.                                          *)
BookedWithinLimit ==
    \A r \in Rows :
      Booked(r)' > Booked(r) =>
        \/ corrected'[r] # corrected[r]
        \/ \E m \in Reserved(r)' \ Reserved(r) :
             Booked(r)' <= usage'[r].limit + Cost(Reserved(r) \ Known(m), r[2])

(* reserve adds what is used, read under the lock of the row, and what is  *)
(* reserved, read from a snapshot that may be older: requests pass the     *)
(* limit of a row by no more than what was reserved on it since then, and  *)
(* at read committed not at all.                                           *)
OnlyOverlapOverbooks == [][BookedWithinLimit]_vars

(* commit, release and expireReservations may come late, twice and in any  *)
(* order, for a message that was queued again or not: the first of them    *)
(* settles the reservation, and nothing reopens or resettles it.           *)
SettlementIsFinal ==
    [][\A m \in Messages :
         reservation[m].state \in {"committed", "released", "expired"} =>
           reservation'[m] = reservation[m]]_vars

-----------------------------------------------------------------------------
(* docs/OUTBOUND_USAGE_ACCOUNTING.md:81: two concurrent requests cannot    *)
(* both reserve past the limit, so a reservation leaves all that is        *)
(* charged to its period within the limit it was checked against.          *)
PeriodWithinLimit ==
    [][\A m \in Messages : \A d \in Dims : Reserve(m) /\ tx[m].row[d] # NoRow =>
         LET row == tx[m].row[d]
             period == {r \in Rows : r[2] = d /\ usage'[r].start = usage'[row].start}
         IN Cost({x \in Messages : /\ reservation'[x].state \in {"reserved", "committed"}
                                   /\ reservation'[x].row[d] \in period}, d) <= tx[m].limit[d]]_vars

=============================================================================
