--------------------------- MODULE AccountProperties ---------------------------
(***************************************************************************)
(* What concurrent requests on accounts, keys and inboxes never bring      *)
(* about.                                                                  *)
(***************************************************************************)
EXTENDS Accounts

(* The platform always has an active administrator: no two of them can     *)
(* demote or suspend each other at once.                                   *)
AdminRemains == \E u \in Users : IsPlatformAdmin(user[u])

(* A live key with scopes has an owner who is active and whose role allows *)
(* them, however its creation or update raced a demotion or a suspension.  *)
KeyWithinOwner ==
    \A k \in Keys :
      key[k].state = "live" => key[k].owner \in Users /\ OwnerAllows(user[key[k].owner], key[k].scope)

(* Concurrent requests never get past the limits of the owner's plan.      *)
QuotasHold ==
    \A u \in Users :
      Cardinality(KeysOf(u)) <= KeyLimit /\ Cardinality(InboxesOf(u)) <= InboxLimit

(* The mail server never serves more inboxes than it may: a renewal that   *)
(* is decided just before the expiry and written after it still counts.    *)
CapacityHolds == Cardinality(Used) <= Capacity

(* What r waits for among the users' rows.                                 *)
WaitsFor(r) == IF req[r].pc = "users" THEN NextUser(r) ELSE NoUser

(* No two requests wait for a user the other one holds.                    *)
UsersNeverCross ==
    \A r, s \in Requests :
      ~ (r # s /\ WaitsFor(r) \in Users /\ WaitsFor(s) \in Users
               /\ lock[WaitsFor(r)] = s /\ lock[WaitsFor(s)] = r)

(* An inbox that is expired has run out at that moment, whatever the pass  *)
(* saw when it listed it.                                                  *)
ExpiresOnlyPast ==
    \A i \in Inboxes :
      inbox[i].state = "live" /\ inbox'[i].state = "expired" => inbox[i].past

(* A renewal that commits first keeps its inbox.                           *)
RenewedIsKept == [][ExpiresOnlyPast]_vars

=============================================================================
