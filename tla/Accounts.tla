------------------------------- MODULE Accounts -------------------------------
(***************************************************************************)
(* Platform roles, user statuses, API keys and inboxes, changed by         *)
(* concurrent requests that serialize on row locks: ChangePlatformRole,    *)
(* ChangeUserStatus, the ApiKey actions, the Inbox actions and the pass    *)
(* that expires inboxes.                                                   *)
(*                                                                         *)
(* A request is a database transaction.  lockForUpdate()->first() takes a  *)
(* row's lock and a copy of the row, the handler decides on its copies,    *)
(* and what it writes is seen, and its locks are free, when it commits.    *)
(* Counts are reads of their own between the lock and the insert.          *)
(***************************************************************************)
EXTENDS Integers, FiniteSets

CONSTANTS
    Users,       \* ids, locked in ascending order
    Keys,        \* bound: API key rows
    Inboxes,     \* bound: inbox rows
    Requests,    \* bound: requests that are served
    KeyLimit,    \* the plan's max_api_keys
    InboxLimit,  \* the plan's max_inboxes
    Capacity,    \* the mail server's max_inboxes
    Server,      \* the lock of the server rows of the pool
    Nobody, NoUser

ASSUME UsersAssumption == Users \subseteq Nat
ASSUME SetsAssumption == IsFiniteSet(Keys) /\ IsFiniteSet(Inboxes)
ASSUME LimitsAssumption == KeyLimit \in Nat /\ InboxLimit \in Nat /\ Capacity \in Nat
ASSUME NamesAssumption ==
    /\ Nobody \notin Requests \cup {Server} /\ NoUser \notin Users
    /\ Users \cap (Keys \cup Inboxes \cup {Server}) = {}
    /\ Keys \cap (Inboxes \cup {Server}) = {} /\ Server \notin Inboxes

VARIABLES
    user,    \* users rows
    key,     \* api_keys rows
    inbox,   \* inboxes rows
    lock,    \* who holds the lock of a row
    req      \* what each request is doing

vars == <<user, key, inbox, lock, req>>

-----------------------------------------------------------------------------
Roles == {"user", "operator", "admin"}
Statuses == {"active", "inactive"}  \* pending, suspended and banned are alike

User == [role : Roles, status : Statuses]

(* A key's scopes, by the highest capability they require; "null" is a key *)
(* without scopes.                                                         *)
Scopes == {"null", "user", "operator", "admin"}

Key == [state : {"none", "live", "revoked", "deleted"}, owner : Users \cup {NoUser}, scope : Scopes]

(* past: expires_at has passed, which the program finds out later.         *)
Inbox == [state : {"none", "live", "deleted", "expired"}, owner : Users \cup {NoUser},
          past : BOOLEAN]

Operations == {"role", "status", "createKey", "updateKey", "revokeKey",
               "createInbox", "renew", "deleteInbox", "expire"}

Rows == Users \cup Keys \cup Inboxes \cup {Server}

(* todo: the users still to be locked; saw: the copies of the users.       *)
Request == [pc : {"new", "users", "row", "ready", "done"},
            op : Operations \cup {"none"},
            actor : Users \cup {NoUser}, on : Rows \cup {Nobody},
            to : Roles \cup Statuses \cup Scopes \cup {"none"},
            todo : SUBSET Users, saw : [Users -> User]]

TypeOK ==
    /\ user \in [Users -> User]
    /\ key \in [Keys -> Key]
    /\ inbox \in [Inboxes -> Inbox]
    /\ lock \in [Rows -> Requests \cup {Nobody}]
    /\ req \in [Requests -> Request]

NoKey == [state |-> "none", owner |-> NoUser, scope |-> "null"]
NoInbox == [state |-> "none", owner |-> NoUser, past |-> FALSE]
Unseen == [u \in Users |-> [role |-> "user", status |-> "inactive"]]
NewRequest == [pc |-> "new", op |-> "none", actor |-> NoUser, on |-> Nobody, to |-> "none",
               todo |-> {}, saw |-> Unseen]

(* An installation with an administrator, before keys and inboxes.         *)
Init ==
    /\ user \in [Users -> [role : Roles, status : {"active"}]]
    /\ \E u \in Users : user[u].role = "admin"
    /\ key = [k \in Keys |-> NoKey]
    /\ inbox = [i \in Inboxes |-> NoInbox]
    /\ lock = [x \in Rows |-> Nobody]
    /\ req = [r \in Requests |-> NewRequest]

-----------------------------------------------------------------------------
(* Capabilities.                                                           *)

IsPlatformAdmin(u) == u.status = "active" /\ u.role = "admin"

Rank == [null |-> 0, user |-> 0, operator |-> 1, admin |-> 2]

(* authorizeForOwner: without scopes nothing is asked, with some the owner *)
(* is active and has the role.                                             *)
OwnerAllows(u, scope) ==
    scope # "null" => u.status = "active" /\ Rank[u.role] >= Rank[scope]

Stored(k) == key[k].state \in {"live", "revoked"}

KeysOf(u) == {k \in Keys : key[k].state = "live" /\ key[k].owner = u}
InboxesOf(u) == {i \in Inboxes : inbox[i].state = "live" /\ inbox[i].owner = u}
Used == {i \in Inboxes : inbox[i].state = "live" /\ ~inbox[i].past}

-----------------------------------------------------------------------------
(* Transactions.                                                           *)

Free(r, rows) == \A x \in rows : lock[x] \in {Nobody, r}

Take(r, rows) == lock' = [x \in Rows |-> IF x \in rows THEN r ELSE lock[x]]

(* Commit, refusal and rollback all end the transaction.                   *)
End(r) ==
    /\ lock' = [x \in Rows |-> IF lock[x] = r THEN Nobody ELSE lock[x]]
    /\ req' = [req EXCEPT ![r] = [NewRequest EXCEPT !.pc = "done"]]

Refuse(r) == End(r) /\ UNCHANGED <<user, key, inbox>>

Begin(r, op, actor, on, to, todo) ==
    /\ req[r].pc = "new"
    /\ req' = [req EXCEPT ![r] = [pc |-> IF todo = {} THEN "row" ELSE "users", op |-> op,
                                  actor |-> actor, on |-> on, to |-> to,
                                  todo |-> todo, saw |-> Unseen]]
    /\ UNCHANGED <<user, key, inbox, lock>>

(* Mutation: the actor is locked first, the target after it.               *)
ActorFirst(r) ==
    IF req[r].actor \in req[r].todo THEN req[r].actor ELSE CHOOSE u \in req[r].todo : TRUE

(* sort($ids).                                                             *)
NextUser(r) == CHOOSE u \in req[r].todo : \A v \in req[r].todo : u <= v

LockUser(r) ==
    /\ req[r].pc = "users"
    /\ LET u == NextUser(r)
       IN /\ Free(r, {u})
          /\ Take(r, {u})
          /\ req' = [req EXCEPT ![r].todo = @ \ {u}, ![r].saw[u] = user[u],
                                ![r].pc = IF req[r].todo = {u} THEN "row" ELSE "users"]
    /\ UNCHANGED <<user, key, inbox>>

(* A lock wait that times out or closes a cycle, a lost connection, an     *)
(* error of the database: everything is rolled back.                       *)
Abort(r) ==
    /\ req[r].pc \notin {"new", "done"}
    /\ Refuse(r)

-----------------------------------------------------------------------------
(* Roles and statuses.                                                     *)

(* Mutation: an administrator may change their own account.                *)
MayChangeSelf(r) == IsPlatformAdmin(req[r].saw[req[r].actor])

MayChange(r) == IsPlatformAdmin(req[r].saw[req[r].actor]) /\ req[r].actor # req[r].on

(* Keys are revoked by one update.                                         *)
Revoke(keys) ==
    key' = [k \in Keys |-> IF k \in keys THEN [key[k] EXCEPT !.state = "revoked"] ELSE key[k]]

(* Mutation: only the keys of the role that is left are revoked.           *)
LostScopesOfRole(from, to) ==
    IF Rank[to] < Rank[from] THEN {from} ELSE {}

(* revokeForTransition.                                                    *)
LostScopes(from, to) ==
    CASE from = "admin" /\ to = "operator" -> {"admin"}
      [] from \in {"admin", "operator"} /\ to = "user" -> {"operator", "admin"}
      [] OTHER -> {}

ChangePlatformRole(r) ==
    /\ req[r].op = "role" /\ req[r].pc = "row"
    /\ LET u == req[r].on
           old == req[r].saw[u].role
       IN \/ /\ MayChange(r) /\ old # req[r].to
             /\ Free(r, KeysOf(u))
             /\ Revoke({k \in KeysOf(u) : key[k].scope \in LostScopes(old, req[r].to)})
             /\ user' = [user EXCEPT ![u].role = req[r].to]
             /\ End(r)
             /\ UNCHANGED inbox
          \/ (~MayChange(r) \/ old = req[r].to) /\ Refuse(r)

ChangeUserStatus(r) ==
    /\ req[r].op = "status" /\ req[r].pc = "row"
    /\ LET u == req[r].on
       IN \/ /\ MayChange(r) /\ req[r].saw[u].status # req[r].to
             /\ Free(r, KeysOf(u))
             /\ Revoke({k \in KeysOf(u) : req[r].to # "active"})
             /\ user' = [user EXCEPT ![u].status = req[r].to]
             /\ End(r)
             /\ UNCHANGED inbox
          \/ (~MayChange(r) \/ req[r].saw[u].status = req[r].to) /\ Refuse(r)

-----------------------------------------------------------------------------
(* API keys.                                                               *)

(* Authorization and quota, on the locked owner.                           *)
CountKeys(r) ==
    /\ req[r].op = "createKey" /\ req[r].pc = "row"
    /\ LET u == req[r].actor
           mayCreate == OwnerAllows(req[r].saw[u], req[r].to) /\ Cardinality(KeysOf(u)) < KeyLimit
       IN \/ /\ mayCreate
             /\ req' = [req EXCEPT ![r].pc = "ready"]
             /\ UNCHANGED <<user, key, inbox, lock>>
          \/ ~mayCreate /\ Refuse(r)

CreateKey(r, k) ==
    /\ req[r].op = "createKey" /\ req[r].pc = "ready"
    /\ key[k].state = "none"
    /\ key' = [key EXCEPT ![k] = [state |-> "live", owner |-> req[r].actor, scope |-> req[r].to]]
    /\ End(r)
    /\ UNCHANGED <<user, inbox>>

(* The key row is locked after the user; it may be gone.                   *)
LockKey(r) ==
    /\ req[r].op \in {"updateKey", "revokeKey"} /\ req[r].pc = "row"
    /\ LET k == req[r].on
       IN \/ /\ Stored(k) /\ Free(r, {k})
             /\ Take(r, {k})
             /\ req' = [req EXCEPT ![r].pc = "ready"]
             /\ UNCHANGED <<user, key, inbox>>
          \/ ~Stored(k) /\ Refuse(r)

(* A revoked key may be given scopes and stays revoked.                    *)
UpdateKey(r) ==
    /\ req[r].op = "updateKey" /\ req[r].pc = "ready"
    /\ LET allowed == OwnerAllows(req[r].saw[req[r].actor], req[r].to)
       IN \/ /\ allowed
             /\ key' = [key EXCEPT ![req[r].on].scope = req[r].to]
             /\ End(r)
             /\ UNCHANGED <<user, inbox>>
          \/ ~allowed /\ Refuse(r)

RevokeKey(r) ==
    /\ req[r].op = "revokeKey" /\ req[r].pc = "ready"
    /\ \/ /\ IsPlatformAdmin(req[r].saw[req[r].actor])
          /\ key' = [key EXCEPT ![req[r].on].state = "revoked"]
          /\ End(r)
          /\ UNCHANGED <<user, inbox>>
       \/ ~IsPlatformAdmin(req[r].saw[req[r].actor]) /\ Refuse(r)

DeleteKey(k) ==
    /\ Stored(k) /\ lock[k] = Nobody
    /\ key' = [key EXCEPT ![k].state = "deleted"]
    /\ UNCHANGED <<user, inbox, lock, req>>

-----------------------------------------------------------------------------
(* Inboxes.                                                                *)

(* Mutation: one inbox more than the plan has.                             *)
CountInboxesOff(r) ==
    /\ req[r].op = "createInbox" /\ req[r].pc = "row" /\ req[r].on # Server
    /\ LET u == req[r].actor
           mayCreate == u = NoUser \/ Cardinality(InboxesOf(u)) <= InboxLimit
       IN \/ /\ mayCreate
             /\ req' = [req EXCEPT ![r].on = Server]
             /\ UNCHANGED <<user, key, inbox, lock>>
          \/ ~mayCreate /\ Refuse(r)

(* enforceQuota; an anonymous visitor has no quota.                        *)
CountInboxes(r) ==
    /\ req[r].op = "createInbox" /\ req[r].pc = "row" /\ req[r].on # Server
    /\ LET u == req[r].actor
           mayCreate == u = NoUser \/ Cardinality(InboxesOf(u)) < InboxLimit
       IN \/ /\ mayCreate
             /\ req' = [req EXCEPT ![r].on = Server]
             /\ UNCHANGED <<user, key, inbox, lock>>
          \/ ~mayCreate /\ Refuse(r)

(* Mutation: the inboxes are counted without waiting for their locks.      *)
SelectServerUnlocked(r) ==
    /\ req[r].op = "createInbox" /\ req[r].pc = "row" /\ req[r].on = Server
    /\ Free(r, {Server})
    /\ \/ /\ Cardinality(Used) < Capacity
          /\ Take(r, {Server})
          /\ req' = [req EXCEPT ![r].pc = "ready"]
          /\ UNCHANGED <<user, key, inbox>>
       \/ Cardinality(Used) >= Capacity /\ Refuse(r)

(* selectAvailableForPoolsForUpdate: the server's row is locked, and the   *)
(* count of its inboxes waits for and takes their locks.                   *)
SelectServer(r) ==
    /\ req[r].op = "createInbox" /\ req[r].pc = "row" /\ req[r].on = Server
    /\ LET rows == {Server} \cup {i \in Inboxes : inbox[i].state = "live"}
       IN /\ Free(r, rows)
          /\ \/ /\ Cardinality(Used) < Capacity
                /\ Take(r, rows)
                /\ req' = [req EXCEPT ![r].pc = "ready"]
                /\ UNCHANGED <<user, key, inbox>>
             \/ Cardinality(Used) >= Capacity /\ Refuse(r)

CreateInbox(r, i) ==
    /\ req[r].op = "createInbox" /\ req[r].pc = "ready"
    /\ inbox[i].state = "none"
    /\ inbox' = [inbox EXCEPT ![i] = [state |-> "live", owner |-> req[r].actor, past |-> FALSE]]
    /\ End(r)
    /\ UNCHANGED <<user, key>>

(* Mutation: what the pass has listed is not looked at again.              *)
LockListedInbox(r) ==
    /\ req[r].op \in {"renew", "deleteInbox", "expire"} /\ req[r].pc = "row"
    /\ LET i == req[r].on
       IN /\ Free(r, {i})
          /\ \/ /\ inbox[i].state = "live" /\ (req[r].op = "renew" => ~inbox[i].past)
                /\ Take(r, {i})
                /\ req' = [req EXCEPT ![r].pc = "ready"]
                /\ UNCHANGED <<user, key, inbox>>
             \/ inbox[i].state # "live" /\ Refuse(r)

(* A renewal wants an inbox that has not expired, the pass one that has:   *)
(* both ask again once they hold the lock.                                 *)
LockInbox(r) ==
    /\ req[r].op \in {"renew", "deleteInbox", "expire"} /\ req[r].pc = "row"
    /\ LET i == req[r].on
           wanted == /\ inbox[i].state = "live"
                     /\ req[r].op = "renew" => ~inbox[i].past
                     /\ req[r].op = "expire" => inbox[i].past
       IN /\ Free(r, {i})
          /\ \/ /\ wanted
                /\ Take(r, {i})
                /\ req' = [req EXCEPT ![r].pc = "ready"]
                /\ UNCHANGED <<user, key, inbox>>
             \/ ~wanted /\ Refuse(r)

RenewInbox(r) ==
    /\ req[r].op = "renew" /\ req[r].pc = "ready"
    /\ inbox' = [inbox EXCEPT ![req[r].on].past = FALSE]
    /\ End(r)
    /\ UNCHANGED <<user, key>>

(* The audit entry refers to the owner, whose row must be free for it.     *)
DeleteInbox(r) ==
    /\ req[r].op = "deleteInbox" /\ req[r].pc = "ready"
    /\ Free(r, {req[r].actor})
    /\ inbox' = [inbox EXCEPT ![req[r].on].state = "deleted"]
    /\ End(r)
    /\ UNCHANGED <<user, key>>

ExpireInbox(r) ==
    /\ req[r].op = "expire" /\ req[r].pc = "ready"
    /\ inbox' = [inbox EXCEPT ![req[r].on].state = "expired"]
    /\ End(r)
    /\ UNCHANGED <<user, key>>

(* expires_at passes.                                                      *)
TimePasses(i) ==
    /\ inbox[i].state = "live" /\ ~inbox[i].past
    /\ inbox' = [inbox EXCEPT ![i].past = TRUE]
    /\ UNCHANGED <<user, key, lock, req>>

-----------------------------------------------------------------------------
(* What a request asks for; what it was shown may be out of date when it   *)
(* gets its locks.                                                         *)
BeginAny(r) ==
    \/ \E a \in Users, t \in Users :
         \/ \E role \in Roles : Begin(r, "role", a, t, role, {a, t})
         \/ \E status \in Statuses : Begin(r, "status", a, t, status, {a, t})
    \/ \E u \in Users, scope \in Scopes : Begin(r, "createKey", u, u, scope, {u})
    \/ \E k \in Keys :
         /\ Stored(k)
         /\ \/ \E scope \in Scopes \ {"null"} :
                 Begin(r, "updateKey", key[k].owner, k, scope, {key[k].owner})
            \/ \E a \in Users : Begin(r, "revokeKey", a, k, "none", {a})
    \/ Begin(r, "createInbox", NoUser, Nobody, "none", {})
    \/ \E u \in Users : Begin(r, "createInbox", u, Nobody, "none", {u})
    \/ \E i \in Inboxes :
         /\ inbox[i].state = "live"
         /\ \/ \E u \in {inbox[i].owner} \ {NoUser} :
                 \/ Begin(r, "renew", u, i, "none", {u})
                 \/ Begin(r, "deleteInbox", u, i, "none", {})
            \/ inbox[i].past /\ Begin(r, "expire", NoUser, i, "none", {})

Next ==
    \/ \E r \in Requests :
         \/ BeginAny(r) \/ LockUser(r) \/ Abort(r)
         \/ ChangePlatformRole(r) \/ ChangeUserStatus(r)
         \/ CountKeys(r) \/ LockKey(r) \/ UpdateKey(r) \/ RevokeKey(r)
         \/ \E k \in Keys : CreateKey(r, k)
         \/ CountInboxes(r) \/ SelectServer(r) \/ LockInbox(r)
         \/ RenewInbox(r) \/ DeleteInbox(r) \/ ExpireInbox(r)
         \/ \E i \in Inboxes : CreateInbox(r, i)
    \/ \E k \in Keys : DeleteKey(k)
    \/ \E i \in Inboxes : TimePasses(i)

Spec == Init /\ [][Next]_vars

=============================================================================
