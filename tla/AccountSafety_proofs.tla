------------------------- MODULE AccountSafety_proofs -------------------------
(***************************************************************************)
(* Accounts, for every number of users, keys, inboxes and requests: an     *)
(* administrator remains, keys stay within their owner's role, requests    *)
(* never deadlock on users, a renewed inbox is not expired, and quotas and *)
(* the server's capacity hold.                                             *)
(***************************************************************************)
EXTENDS AccountProperties, FiniteSetTheorems, TLAPS

Active == {"users", "row", "ready"}

(* The users a request locks before it decides.                            *)
Needs(r) ==
    IF req[r].op \in {"role", "status"} THEN {req[r].actor, req[r].on}
    ELSE IF req[r].op \in {"deleteInbox", "expire"} THEN {} ELSE {req[r].actor} \ {NoUser}

(* Locks are taken in ascending order and kept, and a copy that was taken  *)
(* under a lock stays true.                                                *)
LocksInOrder(r) ==
    req[r].pc \in Active =>
      /\ req[r].todo \subseteq Needs(r)
      /\ req[r].pc = "users" <=> req[r].todo # {}
      /\ Needs(r) \subseteq Users
      /\ \A u \in Needs(r) \ req[r].todo : lock[u] = r /\ req[r].saw[u] = user[u]
      /\ \A u \in Needs(r) \ req[r].todo : \A v \in req[r].todo : u < v

(* What a request is about.                                                *)
AboutRows(r) ==
    req[r].pc \in Active =>
      /\ req[r].op \in {"role", "status"} => req[r].actor \in Users /\ req[r].on \in Users
      /\ req[r].op = "role" => req[r].to \in Roles
      /\ req[r].op = "status" => req[r].to \in Statuses
      /\ req[r].op \in {"createKey", "updateKey", "revokeKey"} => req[r].actor \in Users
      /\ req[r].op \in {"createKey", "updateKey"} => req[r].to \in Scopes
      /\ req[r].op \in {"updateKey", "revokeKey"} =>
           req[r].on \in Keys /\ key[req[r].on].state # "none"
      /\ req[r].op = "updateKey" => req[r].actor = key[req[r].on].owner
      /\ req[r].op \in {"renew", "deleteInbox", "expire"} =>
           req[r].on \in Inboxes /\ inbox[req[r].on].state # "none"

(* What a request has made sure of before its last step.                   *)
Assured(r) ==
    req[r].pc = "ready" =>
      /\ req[r].op = "createKey" => OwnerAllows(req[r].saw[req[r].actor], req[r].to)
      /\ req[r].op \in {"renew", "deleteInbox", "expire"} => lock[req[r].on] = r
      /\ req[r].op = "expire" => inbox[req[r].on].past
      /\ req[r].op = "createInbox" => lock[Server] = r

(* Who holds the lock of a user has asked for it.                          *)
LocksAreAskedFor ==
    \A u \in Users : \A r \in Requests :
      lock[u] = r => req[r].pc \in Active /\ u \in Needs(r) \ req[r].todo

(* A key that was issued has an owner.                                     *)
OwnedKeys == \A k \in Keys : key[k].state # "none" => key[k].owner \in Users

AInv ==
    /\ TypeOK
    /\ \A r \in Requests : LocksInOrder(r) /\ AboutRows(r) /\ Assured(r)
    /\ LocksAreAskedFor
    /\ OwnedKeys
    /\ AdminRemains
    /\ KeyWithinOwner

-----------------------------------------------------------------------------
(* A request is not disturbed by a step that leaves its locks alone, does  *)
(* not write what it has locked, and removes no row for good.              *)
LEMMA Undisturbed ==
    ASSUME AInv, NEW s \in Requests, req'[s] = req[s],
           \A x \in Rows : lock[x] = s => lock'[x] = s,
           \A u \in Users : lock[u] = s => user'[u] = user[u],
           \A k \in Keys : key[k].state # "none" => key'[k].state # "none" /\ key'[k].owner = key[k].owner,
           \A i \in Inboxes : inbox[i].state # "none" =>
             inbox'[i].state # "none" /\ (lock[i] = s /\ inbox[i].past => inbox'[i].past)
    PROVE  LocksInOrder(s)' /\ AboutRows(s)' /\ Assured(s)'
<1>1. TypeOK /\ LocksInOrder(s) /\ AboutRows(s) /\ Assured(s)  BY DEF AInv
<1>2. Needs(s)' = Needs(s)  BY DEF Needs
<1>3. LocksInOrder(s)'
  <2> SUFFICES ASSUME req[s].pc \in Active
               PROVE  /\ req[s].todo \subseteq Needs(s)
                      /\ req[s].pc = "users" <=> req[s].todo # {}
                      /\ Needs(s) \subseteq Users
                      /\ \A u \in Needs(s) \ req[s].todo : lock'[u] = s /\ req[s].saw[u] = user'[u]
                      /\ \A u \in Needs(s) \ req[s].todo : \A v \in req[s].todo : u < v
      BY <1>2 DEF LocksInOrder
  <2>1. /\ Needs(s) \subseteq Users
        /\ \A u \in Needs(s) \ req[s].todo : lock[u] = s /\ req[s].saw[u] = user[u]
      BY <1>1 DEF LocksInOrder
  <2> QED  BY <1>1, <2>1 DEF LocksInOrder, Rows
<1>4. AboutRows(s)'  BY <1>1 DEF AboutRows
<1>5. Assured(s)'
  <2>1. ASSUME req[s].pc = "ready", req[s].op \in {"renew", "deleteInbox", "expire"}
        PROVE  req[s].on \in Inboxes /\ lock[req[s].on] = s /\ inbox[req[s].on].state # "none"
      BY <1>1, <2>1 DEF AboutRows, Assured, Active
  <2> QED  BY <1>1, <2>1 DEF Assured, Rows, OwnerAllows
<1> QED  BY <1>3, <1>4, <1>5

(* The end of a transaction.                                               *)
LEMMA EndFrees ==
    ASSUME TypeOK, NEW r \in Requests, End(r)
    PROVE  /\ lock' \in [Rows -> Requests \cup {Nobody}]
           /\ req' \in [Requests -> Request]
           /\ req'[r].pc = "done"
           /\ \A s \in Requests \ {r} : req'[s] = req[s]
           /\ \A x \in Rows : lock'[x] # r
           /\ \A x \in Rows : \A s \in Requests \ {r} : lock'[x] = s <=> lock[x] = s
<1>1. [NewRequest EXCEPT !.pc = "done"] \in Request
  <2>1. Unseen \in [Users -> User]  BY DEF Unseen, User, Roles, Statuses
  <2> QED  BY <2>1 DEF NewRequest, Request
<1>2. [NewRequest EXCEPT !.pc = "done"].pc = "done"  BY DEF NewRequest
<1>3. req' \in [Requests -> Request] /\ req'[r].pc = "done"
      /\ \A s \in Requests \ {r} : req'[s] = req[s]
    BY <1>1, <1>2 DEF End, TypeOK
<1> QED  BY <1>3, NamesAssumption DEF End, TypeOK

(* A transaction that ends and, if it writes, writes what it has locked.   *)
LEMMA EndKeepsRequests ==
    ASSUME AInv, NEW r \in Requests, End(r),
           \A u \in Users : user'[u] = user[u] \/ lock[u] = r,
           \A k \in Keys : key[k].state # "none" => key'[k].state # "none" /\ key'[k].owner = key[k].owner,
           \A i \in Inboxes : inbox[i].state # "none" =>
             inbox'[i].state # "none" /\ (lock[i] # r /\ inbox[i].past => inbox'[i].past)
    PROVE  /\ \A s \in Requests : LocksInOrder(s)' /\ AboutRows(s)' /\ Assured(s)'
           /\ LocksAreAskedFor'
<1>1. TypeOK /\ LocksAreAskedFor  BY DEF AInv
<1>2. /\ req'[r].pc = "done"
      /\ \A s \in Requests \ {r} : req'[s] = req[s]
      /\ \A x \in Rows : lock'[x] # r
      /\ \A x \in Rows : \A s \in Requests \ {r} : lock'[x] = s <=> lock[x] = s
    BY <1>1, EndFrees
<1>3. LocksInOrder(r)' /\ AboutRows(r)' /\ Assured(r)'
    BY <1>2 DEF LocksInOrder, AboutRows, Assured, Active
<1>4. ASSUME NEW s \in Requests \ {r}
      PROVE  LocksInOrder(s)' /\ AboutRows(s)' /\ Assured(s)'
    BY <1>2, Undisturbed DEF Rows
<1>5. LocksAreAskedFor'
  <2> SUFFICES ASSUME NEW u \in Users, NEW s \in Requests, lock'[u] = s
               PROVE  req'[s].pc \in Active /\ u \in Needs(s)' \ req'[s].todo
      BY DEF LocksAreAskedFor
  <2>1. s # r /\ lock[u] = s /\ req'[s] = req[s]  BY <1>2 DEF Rows
  <2> QED  BY <1>1, <2>1 DEF LocksAreAskedFor, Needs
<1> QED  BY <1>3, <1>4, <1>5

-----------------------------------------------------------------------------
(* Initial states.                                                         *)

LEMMA NewRequestIsRequest == NewRequest \in Request /\ Unseen \in [Users -> User]
<1>1. Unseen \in [Users -> User]  BY DEF Unseen, User, Roles, Statuses
<1> QED  BY <1>1 DEF NewRequest, Request

LEMMA InitAccounts ==
    ASSUME Init
    PROVE  AInv
<1>1. TypeOK
  <2>1. NoKey \in Key /\ NoInbox \in Inbox  BY DEF NoKey, Key, Scopes, NoInbox, Inbox
  <2>2. [role : Roles, status : {"active"}] \subseteq User  BY DEF User, Statuses
  <2>3. user \in [Users -> User]  BY <2>2 DEF Init
  <2> QED  BY <2>1, <2>3, NewRequestIsRequest DEF Init, TypeOK
<1>2. \A r \in Requests : LocksInOrder(r) /\ AboutRows(r) /\ Assured(r)
    BY DEF Init, NewRequest, LocksInOrder, AboutRows, Assured, Active
<1>3. LocksAreAskedFor  BY NamesAssumption DEF Init, LocksAreAskedFor, Rows
<1>4. AdminRemains  BY DEF Init, AdminRemains, IsPlatformAdmin
<1>5. KeyWithinOwner /\ OwnedKeys  BY DEF Init, KeyWithinOwner, OwnedKeys, NoKey
<1> QED  BY <1>1, <1>2, <1>3, <1>4, <1>5 DEF AInv

-----------------------------------------------------------------------------
(* Requests begin and lock users.                                          *)

(* Only the request of r changes, no row and no lock.                      *)
LEMMA OnlyRequestChanges ==
    ASSUME AInv, NEW r \in Requests, req' \in [Requests -> Request],
           \A s \in Requests \ {r} : req'[s] = req[s],
           UNCHANGED <<user, key, inbox, lock>>,
           LocksInOrder(r)' /\ AboutRows(r)' /\ Assured(r)',
           \A u \in Users : lock[u] = r => req'[r].pc \in Active /\ u \in Needs(r)' \ req'[r].todo
    PROVE  AInv'
<1>1. TypeOK'  BY DEF AInv, TypeOK
<1>2. ASSUME NEW s \in Requests PROVE LocksInOrder(s)' /\ AboutRows(s)' /\ Assured(s)'
  <2>1. CASE s # r  BY <2>1, Undisturbed
  <2> QED  BY <2>1
<1>3. LocksAreAskedFor'
  <2> SUFFICES ASSUME NEW u \in Users, NEW s \in Requests, lock[u] = s
               PROVE  req'[s].pc \in Active /\ u \in Needs(s)' \ req'[s].todo
      BY DEF LocksAreAskedFor
  <2>1. CASE s = r  BY <2>1
  <2>2. CASE s # r  BY <2>2 DEF AInv, LocksAreAskedFor, Needs
  <2> QED  BY <2>1, <2>2
<1>4. AdminRemains' /\ KeyWithinOwner' /\ OwnedKeys'
    BY DEF AInv, AdminRemains, KeyWithinOwner, OwnedKeys, IsPlatformAdmin, OwnerAllows
<1> QED  BY <1>1, <1>2, <1>3, <1>4 DEF AInv

(* The users a request of this kind has to lock.                           *)
Asks(op, actor, on) ==
    IF op \in {"role", "status"} THEN {actor, on}
    ELSE IF op \in {"deleteInbox", "expire"} THEN {} ELSE {actor} \ {NoUser}

LEMMA BeginKeeps ==
    ASSUME AInv, NEW r \in Requests, NEW op \in Operations, NEW actor \in Users \cup {NoUser},
           NEW on \in Rows \cup {Nobody}, NEW to \in Roles \cup Statuses \cup Scopes \cup {"none"},
           NEW todo \in SUBSET Users, Begin(r, op, actor, on, to, todo),
           todo = Asks(op, actor, on),
           op \in {"role", "status"} => actor \in Users /\ on \in Users,
           op = "role" => to \in Roles,
           op = "status" => to \in Statuses,
           op \in {"createKey", "updateKey", "revokeKey"} => actor \in Users,
           op \in {"createKey", "updateKey"} => to \in Scopes,
           op \in {"updateKey", "revokeKey"} => on \in Keys /\ key[on].state # "none",
           op = "updateKey" => actor = key[on].owner,
           op \in {"renew", "deleteInbox", "expire"} => on \in Inboxes /\ inbox[on].state # "none"
    PROVE  AInv'
<1> DEFINE new == [pc |-> IF todo = {} THEN "row" ELSE "users", op |-> op, actor |-> actor,
                   on |-> on, to |-> to, todo |-> todo, saw |-> Unseen]
<1>1. new \in Request  BY NewRequestIsRequest DEF Request
<1>2. req' = [req EXCEPT ![r] = new]  BY DEF Begin
<1>3. /\ req' \in [Requests -> Request] /\ req'[r] = new
      /\ \A s \in Requests \ {r} : req'[s] = req[s]
    BY <1>1, <1>2 DEF AInv, TypeOK
<1>4. /\ req'[r].pc = IF todo = {} THEN "row" ELSE "users"
      /\ req'[r].op = op /\ req'[r].actor = actor /\ req'[r].on = on /\ req'[r].to = to
      /\ req'[r].todo = todo
    BY <1>3
<1> HIDE DEF new
<1>5. UNCHANGED <<user, key, inbox, lock>>  BY DEF Begin
<1>6. Needs(r)' = todo  BY <1>4 DEF Needs, Asks
<1>7. LocksInOrder(r)'  BY <1>4, <1>6 DEF LocksInOrder, Active
<1>8. AboutRows(r)'  BY <1>4, <1>5 DEF AboutRows
<1>9. Assured(r)'  BY <1>4 DEF Assured
<1>10. \A u \in Users : lock[u] # r
    BY DEF AInv, LocksAreAskedFor, Begin, Active
<1> QED  BY <1>3, <1>5, <1>7, <1>8, <1>9, <1>10, OnlyRequestChanges

LEMMA BeginAnyKeeps ==
    ASSUME AInv, NEW r \in Requests, BeginAny(r)
    PROVE  AInv'
<1>1. ASSUME NEW a \in Users, NEW t \in Users, NEW role \in Roles,
             Begin(r, "role", a, t, role, {a, t})
      PROVE  AInv'
  <2>1. "role" \in Operations /\ {a, t} = Asks("role", a, t) /\ {a, t} \in SUBSET Users
      BY DEF Operations, Asks
  <2> QED  BY <1>1, <2>1, BeginKeeps DEF Rows
<1>2. ASSUME NEW a \in Users, NEW t \in Users, NEW status \in Statuses,
             Begin(r, "status", a, t, status, {a, t})
      PROVE  AInv'
  <2>1. "status" \in Operations /\ {a, t} = Asks("status", a, t) /\ {a, t} \in SUBSET Users
      BY DEF Operations, Asks
  <2> QED  BY <1>2, <2>1, BeginKeeps DEF Rows
<1>3. ASSUME NEW u \in Users, NEW scope \in Scopes, Begin(r, "createKey", u, u, scope, {u})
      PROVE  AInv'
  <2>1. "createKey" \in Operations /\ {u} = Asks("createKey", u, u) /\ {u} \in SUBSET Users
      BY NamesAssumption DEF Operations, Asks
  <2> QED  BY <1>3, <2>1, BeginKeeps DEF Rows
<1>4. ASSUME NEW k \in Keys, Stored(k), NEW scope \in Scopes \ {"null"},
             Begin(r, "updateKey", key[k].owner, k, scope, {key[k].owner})
      PROVE  AInv'
  <2>1. key[k].state # "none"  BY <1>4 DEF Stored
  <2>2. key[k].owner \in Users  BY <2>1 DEF AInv, OwnedKeys
  <2>3. "updateKey" \in Operations /\ {key[k].owner} = Asks("updateKey", key[k].owner, k)
        /\ {key[k].owner} \in SUBSET Users
      BY <2>2, NamesAssumption DEF Operations, Asks
  <2> QED  BY <1>4, <2>1, <2>2, <2>3, BeginKeeps DEF Rows
<1>5. ASSUME NEW k \in Keys, Stored(k), NEW a \in Users, Begin(r, "revokeKey", a, k, "none", {a})
      PROVE  AInv'
  <2>1. key[k].state # "none"  BY <1>5 DEF Stored
  <2>2. "revokeKey" \in Operations /\ {a} = Asks("revokeKey", a, k) /\ {a} \in SUBSET Users
      BY NamesAssumption DEF Operations, Asks
  <2> QED  BY <1>5, <2>1, <2>2, BeginKeeps DEF Rows
<1>6. ASSUME NEW u \in Users \cup {NoUser},
             Begin(r, "createInbox", u, Nobody, "none", {u} \ {NoUser})
      PROVE  AInv'
  <2>1. /\ "createInbox" \in Operations /\ {u} \ {NoUser} = Asks("createInbox", u, Nobody)
        /\ {u} \ {NoUser} \in SUBSET Users
      BY DEF Operations, Asks
  <2> QED  BY <1>6, <2>1, BeginKeeps
<1>7. ASSUME NEW i \in Inboxes, inbox[i].state = "live", NEW u \in Users,
             Begin(r, "renew", u, i, "none", {u}) \/ Begin(r, "deleteInbox", u, i, "none", {})
      PROVE  AInv'
  <2>1. /\ "renew" \in Operations /\ {u} = Asks("renew", u, i) /\ {u} \in SUBSET Users
        /\ "deleteInbox" \in Operations /\ {} = Asks("deleteInbox", u, i)
      BY NamesAssumption DEF Operations, Asks
  <2>2. CASE Begin(r, "renew", u, i, "none", {u})  BY <1>7, <2>1, <2>2, BeginKeeps DEF Rows
  <2>3. CASE Begin(r, "deleteInbox", u, i, "none", {})  BY <1>7, <2>1, <2>3, BeginKeeps DEF Rows
  <2> QED  BY <1>7, <2>2, <2>3
<1>8. ASSUME NEW i \in Inboxes, inbox[i].state = "live", Begin(r, "expire", NoUser, i, "none", {})
      PROVE  AInv'
  <2>1. "expire" \in Operations /\ {} = Asks("expire", NoUser, i)  BY DEF Operations, Asks
  <2> QED  BY <1>8, <2>1, BeginKeeps DEF Rows
<1>9. CASE Begin(r, "createInbox", NoUser, Nobody, "none", {})
  <2>1. {NoUser} \ {NoUser} = {}  OBVIOUS
  <2> QED  BY <1>6, <1>9, <2>1
<1>10. ASSUME NEW u \in Users, Begin(r, "createInbox", u, Nobody, "none", {u})
       PROVE  AInv'
  <2>1. {u} \ {NoUser} = {u}  BY NamesAssumption
  <2> QED  BY <1>6, <1>10, <2>1
<1>11. \A i \in Inboxes : {inbox[i].owner} \ {NoUser} \subseteq Users  BY DEF AInv, TypeOK, Inbox
<1> QED  BY <1>1, <1>2, <1>3, <1>4, <1>5, <1>7, <1>8, <1>9, <1>10, <1>11 DEF BeginAny

(* sort($ids): the next user is the smallest of those to be locked.        *)
LEMMA NextUserIsSmallest ==
    ASSUME AInv, NEW r \in Requests, req[r].pc = "users"
    PROVE  NextUser(r) \in req[r].todo /\ \A v \in req[r].todo : NextUser(r) <= v
<1>1. req[r].todo # {} /\ req[r].todo \subseteq Needs(r) /\ Needs(r) \subseteq Users
    BY DEF AInv, LocksInOrder, Active
<1>2. PICK a, b \in Users : req[r].todo \subseteq {a, b}
  <2>1. CASE req[r].op \in {"role", "status"}  BY <1>1, <2>1 DEF Needs
  <2>2. CASE req[r].op \notin {"role", "status"}
    <3>1. req[r].todo = {req[r].actor}  BY <1>1, <2>2 DEF Needs
    <3> QED  BY <1>1, <3>1
  <2> QED  BY <2>1, <2>2
<1>3. \A u \in Users : u \in Nat  BY UsersAssumption
<1>4. \E u \in req[r].todo : \A v \in req[r].todo : u <= v
  <2>1. CASE a \in req[r].todo /\ (b \in req[r].todo => a <= b)  BY <1>2, <1>3, <2>1
  <2>2. CASE b \in req[r].todo /\ (a \in req[r].todo => b <= a)  BY <1>2, <1>3, <2>2
  <2> QED  BY <1>1, <1>2, <1>3, <2>1, <2>2
<1> QED  BY <1>4 DEF NextUser

LEMMA LockUserKeeps ==
    ASSUME AInv, NEW r \in Requests, LockUser(r)
    PROVE  AInv'
<1>1. TypeOK /\ LocksInOrder(r) /\ AboutRows(r)  BY DEF AInv
<1> DEFINE u == NextUser(r)
<1>2. u \in req[r].todo /\ \A v \in req[r].todo : u <= v  BY NextUserIsSmallest DEF LockUser
<1>3. /\ Needs(r) \subseteq Users /\ req[r].todo \subseteq Needs(r) /\ req[r].pc \in Active
      /\ \A x \in Needs(r) \ req[r].todo : lock[x] = r /\ req[r].saw[x] = user[x]
      /\ \A x \in Needs(r) \ req[r].todo : \A v \in req[r].todo : x < v
    BY <1>1 DEF LocksInOrder, LockUser, Active
<1>4. u \in Users  BY <1>2, <1>3
<1>5. /\ lock[u] \in {Nobody, r} /\ lock' = [x \in Rows |-> IF x \in {u} THEN r ELSE lock[x]]
      /\ req' = [req EXCEPT ![r].todo = @ \ {u}, ![r].saw[u] = user[u],
                            ![r].pc = IF req[r].todo = {u} THEN "row" ELSE "users"]
      /\ UNCHANGED <<user, key, inbox>>
    BY DEF LockUser, Free, Take
<1> HIDE DEF u
<1>6. req[r] \in Request  BY <1>1 DEF TypeOK
<1> DEFINE pc == IF req[r].todo = {u} THEN "row" ELSE "users"
           saw == [req[r].saw EXCEPT ![u] = user[u]]
           new == [req[r] EXCEPT !.todo = req[r].todo \ {u}, !.saw = saw, !.pc = pc]
<1>7. new \in Request
  <2>1. saw \in [Users -> User]
      BY <1>1, <1>4, <1>6 DEF TypeOK, Request
  <2>2. pc \in {"row", "users"}  OBVIOUS
  <2> HIDE DEF saw, pc
  <2>3. [req[r] EXCEPT !.todo = req[r].todo \ {u}] \in Request  BY <1>6 DEF Request
  <2>4. [req[r] EXCEPT !.todo = req[r].todo \ {u}, !.saw = saw] \in Request
      BY <2>1, <2>3 DEF Request
  <2> QED  BY <2>2, <2>4 DEF Request
<1>8. req' = [req EXCEPT ![r] = new]  BY <1>5
<1>9. /\ req' \in [Requests -> Request] /\ req'[r] = new
      /\ \A s \in Requests \ {r} : req'[s] = req[s]
    BY <1>1, <1>7, <1>8 DEF TypeOK
<1>10. /\ req'[r].pc = IF req[r].todo = {u} THEN "row" ELSE "users"
       /\ req'[r].op = req[r].op /\ req'[r].actor = req[r].actor /\ req'[r].on = req[r].on
       /\ req'[r].to = req[r].to /\ req'[r].todo = req[r].todo \ {u}
       /\ req'[r].saw = [req[r].saw EXCEPT ![u] = user[u]]
    BY <1>6, <1>9 DEF Request
<1> HIDE DEF new
<1>11. lock' \in [Rows -> Requests \cup {Nobody}] /\ lock'[u] = r
       /\ \A x \in Rows \ {u} : lock'[x] = lock[x]
    BY <1>1, <1>4, <1>5 DEF TypeOK, Rows
<1>12. TypeOK'  BY <1>1, <1>5, <1>9, <1>11 DEF TypeOK
<1>13. Needs(r)' = Needs(r)  BY <1>10 DEF Needs
<1>14. LocksInOrder(r)'
  <2>1. req'[r].todo \subseteq Needs(r) /\ (req'[r].pc = "users" <=> req'[r].todo # {})
      BY <1>2, <1>3, <1>10
  <2>2. ASSUME NEW x \in Needs(r) \ req'[r].todo
        PROVE  lock'[x] = r /\ req'[r].saw[x] = user'[x]
    <3>1. CASE x = u  BY <1>4, <1>5, <1>6, <1>10, <1>11, <3>1 DEF Request
    <3>2. CASE x # u
      <4>1. x \in Needs(r) \ req[r].todo /\ x \in Users  BY <1>3, <1>10, <3>2
      <4>2. lock[x] = r /\ req[r].saw[x] = user[x]  BY <1>3, <4>1
      <4> QED  BY <1>5, <1>6, <1>10, <1>11, <3>2, <4>1, <4>2 DEF Request, Rows
    <3> QED  BY <3>1, <3>2
  <2>3. ASSUME NEW x \in Needs(r) \ req'[r].todo, NEW v \in req'[r].todo
        PROVE  x < v
    <3>1. v \in req[r].todo /\ v # u /\ v \in Nat /\ u \in Nat
        BY <1>3, <1>4, <1>10, UsersAssumption
    <3>2. CASE x = u  BY <1>2, <3>1, <3>2
    <3>3. CASE x # u  BY <1>3, <1>10, <3>1, <3>3
    <3> QED  BY <3>2, <3>3
  <2> QED  BY <1>3, <1>13, <2>1, <2>2, <2>3 DEF LocksInOrder
<1>15. AboutRows(r)'  BY <1>1, <1>3, <1>5, <1>10 DEF AboutRows
<1>16. Assured(r)'  BY <1>10 DEF Assured
<1>17. ASSUME NEW s \in Requests \ {r} PROVE LocksInOrder(s)' /\ AboutRows(s)' /\ Assured(s)'
  <2>1. lock[u] # s  BY <1>5, NamesAssumption
  <2> QED  BY <1>5, <1>9, <1>11, <2>1, Undisturbed
<1>18. LocksAreAskedFor'
  <2> SUFFICES ASSUME NEW x \in Users, NEW s \in Requests, lock'[x] = s
               PROVE  req'[s].pc \in Active /\ x \in Needs(s)' \ req'[s].todo
      BY DEF LocksAreAskedFor
  <2>1. CASE x = u
    <3>1. s = r  BY <1>11, <2>1
    <3> QED  BY <1>2, <1>3, <1>10, <1>13, <2>1, <3>1 DEF Active
  <2>2. CASE x # u
    <3>1. lock[x] = s  BY <1>11, <2>2 DEF Rows
    <3>2. req[s].pc \in Active /\ x \in Needs(s) \ req[s].todo
        BY <3>1 DEF AInv, LocksAreAskedFor
    <3>3. CASE s = r  BY <1>10, <1>13, <3>2, <3>3 DEF Active
    <3>4. CASE s # r  BY <1>9, <3>2, <3>4 DEF Needs
    <3> QED  BY <3>3, <3>4
  <2> QED  BY <2>1, <2>2
<1>19. AdminRemains' /\ KeyWithinOwner' /\ OwnedKeys'
    BY <1>5 DEF AInv, AdminRemains, KeyWithinOwner, OwnedKeys, IsPlatformAdmin, OwnerAllows
<1> QED  BY <1>12, <1>14, <1>15, <1>16, <1>17, <1>18, <1>19 DEF AInv

(* A request that has its users locks rows of another kind.                *)
LEMMA RowLockKeeps ==
    ASSUME AInv, NEW r \in Requests, req[r].pc = "row", NEW rows \in SUBSET (Rows \ Users),
           Free(r, rows), Take(r, rows), req' = [req EXCEPT ![r].pc = "ready"],
           UNCHANGED <<user, key, inbox>>,
           req[r].op \in {"renew", "deleteInbox", "expire"} => req[r].on \in rows,
           req[r].op = "expire" => inbox[req[r].on].past,
           req[r].op = "createInbox" => Server \in rows,
           req[r].op # "createKey"
    PROVE  AInv'
<1>1. TypeOK /\ LocksInOrder(r) /\ AboutRows(r)  BY DEF AInv
<1>2. req[r] \in Request  BY <1>1 DEF TypeOK
<1>3. [req[r] EXCEPT !.pc = "ready"] \in Request  BY <1>2 DEF Request
<1>4. /\ req' \in [Requests -> Request]
      /\ \A s \in Requests \ {r} : req'[s] = req[s]
      /\ req'[r] = [req[r] EXCEPT !.pc = "ready"]
    BY <1>1, <1>3 DEF TypeOK
<1>5. /\ req'[r].pc = "ready" /\ req'[r].op = req[r].op /\ req'[r].actor = req[r].actor
      /\ req'[r].on = req[r].on /\ req'[r].to = req[r].to /\ req'[r].todo = req[r].todo
      /\ req'[r].saw = req[r].saw
    BY <1>2, <1>4 DEF Request
<1>6. /\ lock' \in [Rows -> Requests \cup {Nobody}]
      /\ \A x \in rows : lock'[x] = r /\ lock[x] \in {Nobody, r}
      /\ \A x \in Rows \ rows : lock'[x] = lock[x]
    BY <1>1 DEF TypeOK, Take, Free
<1>7. \A u \in Users : lock'[u] = lock[u]  BY <1>6 DEF Rows
<1>8. TypeOK'  BY <1>1, <1>4, <1>6 DEF TypeOK
<1>9. Needs(r)' = Needs(r)  BY <1>5 DEF Needs
<1>10. LocksInOrder(r)'
  <2>1. /\ req[r].todo = {} /\ req[r].todo \subseteq Needs(r) /\ Needs(r) \subseteq Users
        /\ \A u \in Needs(r) \ req[r].todo : lock[u] = r /\ req[r].saw[u] = user[u]
      BY <1>1 DEF LocksInOrder, Active
  <2> QED  BY <1>5, <1>7, <1>9, <2>1 DEF LocksInOrder
<1>11. AboutRows(r)'  BY <1>1, <1>5 DEF AboutRows, Active
<1>12. Assured(r)'  BY <1>5, <1>6 DEF Assured
<1>13. ASSUME NEW s \in Requests \ {r} PROVE LocksInOrder(s)' /\ AboutRows(s)' /\ Assured(s)'
  <2>1. \A x \in Rows : lock[x] = s => lock'[x] = s  BY <1>6, NamesAssumption
  <2> QED  BY <1>4, <2>1, Undisturbed
<1>14. LocksAreAskedFor'
  <2> SUFFICES ASSUME NEW x \in Users, NEW s \in Requests, lock[x] = s
               PROVE  req'[s].pc \in Active /\ x \in Needs(s)' \ req'[s].todo
      BY <1>7 DEF LocksAreAskedFor
  <2>1. req[s].pc \in Active /\ x \in Needs(s) \ req[s].todo  BY DEF AInv, LocksAreAskedFor
  <2>2. CASE s = r  BY <1>5, <1>9, <2>1, <2>2 DEF Active
  <2>3. CASE s # r  BY <1>4, <2>1, <2>3 DEF Needs
  <2> QED  BY <2>2, <2>3
<1>15. AdminRemains' /\ KeyWithinOwner' /\ OwnedKeys'
    BY DEF AInv, AdminRemains, KeyWithinOwner, OwnedKeys, IsPlatformAdmin, OwnerAllows
<1> QED  BY <1>8, <1>10, <1>11, <1>12, <1>13, <1>14, <1>15 DEF AInv

LEMMA RefuseKeeps ==
    ASSUME AInv, NEW r \in Requests, Refuse(r)
    PROVE  AInv'
<1>1. TypeOK  BY DEF AInv
<1>2. End(r) /\ UNCHANGED <<user, key, inbox>>  BY DEF Refuse
<1>3. TypeOK'  BY <1>1, <1>2, EndFrees DEF TypeOK
<1>4. /\ \A s \in Requests : LocksInOrder(s)' /\ AboutRows(s)' /\ Assured(s)'
      /\ LocksAreAskedFor'
    BY <1>2, EndKeepsRequests
<1>5. AdminRemains' /\ KeyWithinOwner' /\ OwnedKeys'
    BY <1>2 DEF AInv, AdminRemains, KeyWithinOwner, OwnedKeys, IsPlatformAdmin, OwnerAllows
<1> QED  BY <1>3, <1>4, <1>5 DEF AInv

-----------------------------------------------------------------------------
(* Roles and statuses.                                                     *)

(* Once its users are locked, a request's copies of them are true.         *)
LEMMA CopiesAreTrue ==
    ASSUME AInv, NEW r \in Requests, req[r].pc \in {"row", "ready"}, NEW u \in Needs(r)
    PROVE  u \in Users /\ lock[u] = r /\ req[r].saw[u] = user[u]
BY DEF AInv, LocksInOrder, Active

LEMMA LostScopesSuffice ==
    ASSUME NEW old \in Roles, NEW new \in Roles, NEW scope \in Scopes \ {"null"},
           scope \notin LostScopes(old, new), Rank[old] >= Rank[scope]
    PROVE  Rank[new] >= Rank[scope]
BY DEF Roles, Scopes, LostScopes, Rank

(* A change of a user that revokes what the user may no longer have.       *)
LEMMA UserChangeKeeps ==
    ASSUME AInv, NEW r \in Requests, NEW u \in Users, NEW keys \in SUBSET KeysOf(u),
           NEW changed \in User, lock[u] = r,
           user' = [user EXCEPT ![u] = changed], Revoke(keys), End(r), UNCHANGED inbox,
           \E a \in Users \ {u} : IsPlatformAdmin(user[a]),
           \A k \in KeysOf(u) \ keys :
             OwnerAllows(user[u], key[k].scope) => OwnerAllows(changed, key[k].scope)
    PROVE  AInv'
<1>1. TypeOK /\ OwnedKeys /\ KeyWithinOwner  BY DEF AInv
<1>2. user' \in [Users -> User] /\ user'[u] = changed /\ \A v \in Users \ {u} : user'[v] = user[v]
    BY <1>1 DEF TypeOK
<1>3. \A k \in Keys : /\ key'[k] \in Key /\ key'[k].owner = key[k].owner
                      /\ key'[k].scope = key[k].scope
                      /\ key'[k].state = IF k \in keys THEN "revoked" ELSE key[k].state
    BY <1>1 DEF TypeOK, Key, Revoke
<1>4. key' \in [Keys -> Key]  BY <1>3 DEF Revoke
<1>5. TypeOK'  BY <1>1, <1>2, <1>4, EndFrees DEF TypeOK
<1>6. \A k \in Keys : key[k].state # "none" => key'[k].state # "none" /\ key'[k].owner = key[k].owner
    BY <1>3
<1>7. /\ \A s \in Requests : LocksInOrder(s)' /\ AboutRows(s)' /\ Assured(s)'
      /\ LocksAreAskedFor'
    BY <1>2, <1>6, EndKeepsRequests
<1>8. OwnedKeys'
  <2>1. \A k \in keys : key[k].state = "live"  BY DEF KeysOf
  <2> QED  BY <1>1, <1>3, <2>1 DEF OwnedKeys
<1>9. AdminRemains'  BY <1>2 DEF AdminRemains
<1>10. KeyWithinOwner'
  <2> SUFFICES ASSUME NEW k \in Keys, key'[k].state = "live"
               PROVE  key'[k].owner \in Users /\ OwnerAllows(user'[key'[k].owner], key'[k].scope)
      BY DEF KeyWithinOwner
  <2>1. k \notin keys /\ key[k].state = "live"  BY <1>3
  <2>2. key[k].owner \in Users /\ OwnerAllows(user[key[k].owner], key[k].scope)
      BY <1>1, <2>1 DEF KeyWithinOwner
  <2>3. CASE key[k].owner = u
    <3>1. k \in KeysOf(u) \ keys  BY <2>1, <2>3 DEF KeysOf
    <3> QED  BY <1>2, <1>3, <2>2, <2>3, <3>1
  <2>4. CASE key[k].owner # u  BY <1>2, <1>3, <2>2, <2>4
  <2> QED  BY <2>3, <2>4
<1> QED  BY <1>5, <1>7, <1>8, <1>9, <1>10 DEF AInv

LEMMA ChangePlatformRoleKeeps ==
    ASSUME AInv, NEW r \in Requests, ChangePlatformRole(r)
    PROVE  AInv'
<1> DEFINE u == req[r].on
           old == req[r].saw[u].role
           keys == {k \in KeysOf(u) : key[k].scope \in LostScopes(old, req[r].to)}
<1>1. CASE Refuse(r)  BY <1>1, RefuseKeeps
<1>2. CASE /\ MayChange(r) /\ Revoke(keys)
           /\ user' = [user EXCEPT ![u].role = req[r].to]
           /\ End(r) /\ UNCHANGED inbox
  <2>1. req[r].op = "role" /\ req[r].pc = "row"  BY DEF ChangePlatformRole
  <2>2. req[r].actor \in Users /\ u \in Users /\ req[r].to \in Roles /\ Needs(r) = {req[r].actor, u}
      BY <2>1 DEF AInv, AboutRows, Active, Needs
  <2>3. lock[u] = r /\ req[r].saw[u] = user[u] /\ req[r].saw[req[r].actor] = user[req[r].actor]
      BY <2>1, <2>2, CopiesAreTrue
  <2>4. user[u] \in User /\ old = user[u].role  BY <2>2, <2>3 DEF AInv, TypeOK
  <2>5. req[r].actor \in Users \ {u} /\ IsPlatformAdmin(user[req[r].actor])
      BY <1>2, <2>2, <2>3 DEF MayChange
  <2> DEFINE changed == [user[u] EXCEPT !.role = req[r].to]
  <2>6. changed \in User /\ changed.status = user[u].status /\ changed.role = req[r].to
      BY <2>2, <2>4 DEF User
  <2>7. user' = [user EXCEPT ![u] = changed]  BY <1>2
  <2>8. ASSUME NEW k \in KeysOf(u) \ keys, OwnerAllows(user[u], key[k].scope)
        PROVE  OwnerAllows(changed, key[k].scope)
    <3>1. key[k].scope \in Scopes /\ key[k].scope \notin LostScopes(old, req[r].to)
        BY <2>8 DEF AInv, TypeOK, Key, KeysOf
    <3>2. old \in Roles  BY <2>4 DEF User
    <3> HIDE DEF changed, old
    <3> QED  BY <2>2, <2>4, <2>6, <2>8, <3>1, <3>2, LostScopesSuffice DEF OwnerAllows
  <2>9. keys \in SUBSET KeysOf(u)  OBVIOUS
  <2> HIDE DEF changed, keys
  <2> QED  BY <1>2, <2>2, <2>3, <2>5, <2>6, <2>7, <2>8, <2>9, UserChangeKeeps
<1> QED  BY <1>1, <1>2 DEF ChangePlatformRole

LEMMA ChangeUserStatusKeeps ==
    ASSUME AInv, NEW r \in Requests, ChangeUserStatus(r)
    PROVE  AInv'
<1> DEFINE u == req[r].on
           keys == {k \in KeysOf(u) : req[r].to # "active"}
<1>1. CASE Refuse(r)  BY <1>1, RefuseKeeps
<1>2. CASE /\ MayChange(r) /\ req[r].saw[u].status # req[r].to /\ Revoke(keys)
           /\ user' = [user EXCEPT ![u].status = req[r].to]
           /\ End(r) /\ UNCHANGED inbox
  <2>1. req[r].op = "status" /\ req[r].pc = "row"  BY DEF ChangeUserStatus
  <2>2. req[r].actor \in Users /\ u \in Users /\ req[r].to \in Statuses /\ Needs(r) = {req[r].actor, u}
      BY <2>1 DEF AInv, AboutRows, Active, Needs
  <2>3. lock[u] = r /\ req[r].saw[u] = user[u] /\ req[r].saw[req[r].actor] = user[req[r].actor]
      BY <2>1, <2>2, CopiesAreTrue
  <2>4. user[u] \in User  BY <2>2 DEF AInv, TypeOK
  <2>5. req[r].actor \in Users \ {u} /\ IsPlatformAdmin(user[req[r].actor])
      BY <1>2, <2>2, <2>3 DEF MayChange
  <2> DEFINE changed == [user[u] EXCEPT !.status = req[r].to]
  <2>6. changed \in User /\ changed.role = user[u].role /\ changed.status = req[r].to
      BY <2>2, <2>4 DEF User
  <2>7. user' = [user EXCEPT ![u] = changed]  BY <1>2
  <2>8. ASSUME NEW k \in KeysOf(u) \ keys, OwnerAllows(user[u], key[k].scope)
        PROVE  OwnerAllows(changed, key[k].scope)
    <3>1. req[r].to = "active"  BY <2>8
    <3> HIDE DEF changed
    <3> QED  BY <2>6, <2>8, <3>1 DEF OwnerAllows
  <2>9. keys \in SUBSET KeysOf(u)  OBVIOUS
  <2> HIDE DEF changed, keys
  <2> QED  BY <1>2, <2>2, <2>3, <2>5, <2>6, <2>7, <2>8, <2>9, UserChangeKeeps
<1> QED  BY <1>1, <1>2 DEF ChangeUserStatus

-----------------------------------------------------------------------------
(* API keys.                                                               *)

(* A request that writes one key, within what its owner may have.          *)
LEMMA KeyWriteKeeps ==
    ASSUME AInv, NEW r \in Requests, NEW k \in Keys, NEW changed \in Key,
           key' = [key EXCEPT ![k] = changed], End(r), UNCHANGED <<user, inbox>>,
           changed.state # "none", changed.owner \in Users,
           key[k].state # "none" => changed.owner = key[k].owner,
           changed.state = "live" => OwnerAllows(user[changed.owner], changed.scope)
    PROVE  AInv'
<1>1. TypeOK /\ OwnedKeys /\ KeyWithinOwner /\ AdminRemains  BY DEF AInv
<1>2. key' \in [Keys -> Key] /\ key'[k] = changed /\ \A j \in Keys \ {k} : key'[j] = key[j]
    BY <1>1 DEF TypeOK
<1>3. TypeOK'  BY <1>1, <1>2, EndFrees DEF TypeOK
<1>4. \A j \in Keys : key[j].state # "none" => key'[j].state # "none" /\ key'[j].owner = key[j].owner
    BY <1>2
<1>5. /\ \A s \in Requests : LocksInOrder(s)' /\ AboutRows(s)' /\ Assured(s)'
      /\ LocksAreAskedFor'
    BY <1>4, EndKeepsRequests
<1>6. OwnedKeys'  BY <1>1, <1>2 DEF OwnedKeys
<1>7. KeyWithinOwner'
  <2> SUFFICES ASSUME NEW j \in Keys, key'[j].state = "live"
               PROVE  key'[j].owner \in Users /\ OwnerAllows(user[key'[j].owner], key'[j].scope)
      BY DEF KeyWithinOwner, OwnerAllows
  <2>1. CASE j = k  BY <1>2, <2>1
  <2>2. CASE j # k  BY <1>1, <1>2, <2>2 DEF KeyWithinOwner
  <2> QED  BY <2>1, <2>2
<1>8. AdminRemains'  BY <1>1 DEF AdminRemains, IsPlatformAdmin
<1> QED  BY <1>3, <1>5, <1>6, <1>7, <1>8 DEF AInv

LEMMA CountKeysKeeps ==
    ASSUME AInv, NEW r \in Requests, CountKeys(r)
    PROVE  AInv'
<1>1. CASE Refuse(r)  BY <1>1, RefuseKeeps
<1>2. CASE /\ OwnerAllows(req[r].saw[req[r].actor], req[r].to)
           /\ req' = [req EXCEPT ![r].pc = "ready"]
           /\ UNCHANGED <<user, key, inbox, lock>>
  <2>1. req[r].op = "createKey" /\ req[r].pc = "row"  BY DEF CountKeys
  <2>2. TypeOK /\ LocksInOrder(r) /\ AboutRows(r) /\ LocksAreAskedFor  BY DEF AInv
  <2>3. req[r] \in Request /\ [req[r] EXCEPT !.pc = "ready"] \in Request
      BY <2>2 DEF TypeOK, Request
  <2>4. /\ req' \in [Requests -> Request] /\ req'[r] = [req[r] EXCEPT !.pc = "ready"]
        /\ \A s \in Requests \ {r} : req'[s] = req[s]
      BY <1>2, <2>2, <2>3 DEF TypeOK
  <2>5. /\ req'[r].pc = "ready" /\ req'[r].op = req[r].op /\ req'[r].actor = req[r].actor
        /\ req'[r].on = req[r].on /\ req'[r].to = req[r].to /\ req'[r].todo = req[r].todo
        /\ req'[r].saw = req[r].saw
      BY <2>3, <2>4 DEF Request
  <2>6. Needs(r)' = Needs(r)  BY <2>5 DEF Needs
  <2>7. LocksInOrder(r)'  BY <1>2, <2>1, <2>2, <2>5, <2>6 DEF LocksInOrder, Active
  <2>8. AboutRows(r)'  BY <1>2, <2>1, <2>2, <2>5 DEF AboutRows, Active
  <2>9. Assured(r)'  BY <1>2, <2>1, <2>5 DEF Assured, OwnerAllows
  <2>10. \A u \in Users : lock[u] = r => req'[r].pc \in Active /\ u \in Needs(r)' \ req'[r].todo
      BY <2>2, <2>5, <2>6 DEF LocksAreAskedFor, Active
  <2> QED  BY <1>2, <2>4, <2>7, <2>8, <2>9, <2>10, OnlyRequestChanges
<1> QED  BY <1>1, <1>2 DEF CountKeys

LEMMA CreateKeyKeeps ==
    ASSUME AInv, NEW r \in Requests, NEW k \in Keys, CreateKey(r, k)
    PROVE  AInv'
<1> DEFINE changed == [state |-> "live", owner |-> req[r].actor, scope |-> req[r].to]
<1>1. req[r].op = "createKey" /\ req[r].pc = "ready" /\ key[k].state = "none"  BY DEF CreateKey
<1>2. req[r].actor \in Users /\ req[r].to \in Scopes /\ OwnerAllows(req[r].saw[req[r].actor], req[r].to)
    BY <1>1 DEF AInv, AboutRows, Assured, Active
<1>3. Needs(r) = {req[r].actor}  BY <1>1, <1>2, NamesAssumption DEF Needs
<1>4. req[r].saw[req[r].actor] = user[req[r].actor]  BY <1>1, <1>3, CopiesAreTrue
<1>5. changed \in Key  BY <1>2 DEF Key
<1>6. changed.state = "live" /\ changed.owner = req[r].actor /\ changed.scope = req[r].to  OBVIOUS
<1>7. key' = [key EXCEPT ![k] = changed] /\ End(r) /\ UNCHANGED <<user, inbox>>  BY DEF CreateKey
<1> HIDE DEF changed
<1>8. OwnerAllows(user[changed.owner], changed.scope)  BY <1>2, <1>4, <1>6
<1> QED  BY <1>1, <1>2, <1>5, <1>6, <1>7, <1>8, KeyWriteKeeps

LEMMA LockKeyKeeps ==
    ASSUME AInv, NEW r \in Requests, LockKey(r)
    PROVE  AInv'
<1> DEFINE k == req[r].on
<1>1. req[r].op \in {"updateKey", "revokeKey"} /\ req[r].pc = "row"  BY DEF LockKey
<1>2. k \in Keys  BY <1>1 DEF AInv, AboutRows, Active
<1>3. {k} \in SUBSET (Rows \ Users)  BY <1>2, NamesAssumption DEF Rows
<1>4. CASE Refuse(r)  BY <1>4, RefuseKeeps
<1>5. CASE /\ Free(r, {k}) /\ Take(r, {k})
           /\ req' = [req EXCEPT ![r].pc = "ready"]
           /\ UNCHANGED <<user, key, inbox>>
    BY <1>1, <1>3, <1>5, RowLockKeeps
<1> QED  BY <1>4, <1>5 DEF LockKey

LEMMA UpdateKeyKeeps ==
    ASSUME AInv, NEW r \in Requests, UpdateKey(r)
    PROVE  AInv'
<1> DEFINE k == req[r].on
           changed == [key[k] EXCEPT !.scope = req[r].to]
<1>1. req[r].op = "updateKey" /\ req[r].pc = "ready"  BY DEF UpdateKey
<1>2. CASE Refuse(r)  BY <1>2, RefuseKeeps
<1>3. CASE /\ OwnerAllows(req[r].saw[req[r].actor], req[r].to)
           /\ key' = [key EXCEPT ![k].scope = req[r].to]
           /\ End(r) /\ UNCHANGED <<user, inbox>>
  <2>1. /\ k \in Keys /\ key[k].state # "none" /\ req[r].actor = key[k].owner
        /\ req[r].actor \in Users /\ req[r].to \in Scopes
      BY <1>1 DEF AInv, AboutRows, Active
  <2>2. Needs(r) = {req[r].actor}  BY <1>1, <2>1, NamesAssumption DEF Needs
  <2>3. req[r].saw[req[r].actor] = user[req[r].actor]  BY <1>1, <2>2, CopiesAreTrue
  <2>4. key[k] \in Key  BY <2>1 DEF AInv, TypeOK
  <2>5. changed \in Key /\ changed.state = key[k].state /\ changed.owner = key[k].owner
        /\ changed.scope = req[r].to
      BY <2>1, <2>4 DEF Key
  <2>6. key' = [key EXCEPT ![k] = changed]  BY <1>3
  <2> HIDE DEF changed
  <2>7. OwnerAllows(user[changed.owner], changed.scope)  BY <1>3, <2>1, <2>3, <2>5
  <2> QED  BY <1>3, <2>1, <2>5, <2>6, <2>7, KeyWriteKeeps
<1> QED  BY <1>2, <1>3 DEF UpdateKey

LEMMA RevokeKeyKeeps ==
    ASSUME AInv, NEW r \in Requests, RevokeKey(r)
    PROVE  AInv'
<1> DEFINE k == req[r].on
           changed == [key[k] EXCEPT !.state = "revoked"]
<1>1. req[r].op = "revokeKey" /\ req[r].pc = "ready"  BY DEF RevokeKey
<1>2. CASE Refuse(r)  BY <1>2, RefuseKeeps
<1>3. CASE /\ key' = [key EXCEPT ![k].state = "revoked"]
           /\ End(r) /\ UNCHANGED <<user, inbox>>
  <2>1. k \in Keys /\ key[k].state # "none"  BY <1>1 DEF AInv, AboutRows, Active
  <2>2. key[k] \in Key /\ key[k].owner \in Users  BY <2>1 DEF AInv, TypeOK, OwnedKeys
  <2>3. changed \in Key /\ changed.state = "revoked" /\ changed.owner = key[k].owner
      BY <2>2 DEF Key
  <2>4. key' = [key EXCEPT ![k] = changed]  BY <1>3
  <2> HIDE DEF changed
  <2> QED  BY <1>3, <2>1, <2>2, <2>3, <2>4, KeyWriteKeeps
<1> QED  BY <1>2, <1>3 DEF RevokeKey

LEMMA DeleteKeyKeeps ==
    ASSUME AInv, NEW k \in Keys, DeleteKey(k)
    PROVE  AInv'
<1>1. TypeOK /\ OwnedKeys /\ KeyWithinOwner /\ AdminRemains /\ LocksAreAskedFor  BY DEF AInv
<1>2. key[k].state # "none" /\ UNCHANGED <<user, inbox, lock, req>>  BY DEF DeleteKey, Stored
<1>3. [key[k] EXCEPT !.state = "deleted"] \in Key  BY <1>1 DEF TypeOK, Key
<1>4. /\ key' \in [Keys -> Key] /\ key'[k] = [key[k] EXCEPT !.state = "deleted"]
      /\ \A j \in Keys \ {k} : key'[j] = key[j]
    BY <1>1, <1>3 DEF TypeOK, DeleteKey
<1>5. key'[k].state = "deleted" /\ key'[k].owner = key[k].owner  BY <1>1, <1>4 DEF TypeOK, Key
<1>6. TypeOK'  BY <1>1, <1>2, <1>4 DEF TypeOK
<1>7. \A s \in Requests : LocksInOrder(s)' /\ AboutRows(s)' /\ Assured(s)'
    BY <1>2, <1>4, <1>5, Undisturbed
<1>8. LocksAreAskedFor'  BY <1>1, <1>2 DEF LocksAreAskedFor, Needs
<1>9. OwnedKeys'  BY <1>1, <1>2, <1>4, <1>5 DEF OwnedKeys
<1>10. KeyWithinOwner' /\ AdminRemains'
    BY <1>1, <1>2, <1>4, <1>5 DEF KeyWithinOwner, OwnerAllows, AdminRemains, IsPlatformAdmin
<1> QED  BY <1>6, <1>7, <1>8, <1>9, <1>10 DEF AInv

-----------------------------------------------------------------------------
(* Inboxes.                                                                *)

(* A request that writes one inbox: a new one, or one it has locked.       *)
LEMMA InboxWriteKeeps ==
    ASSUME AInv, NEW r \in Requests, NEW i \in Inboxes, NEW changed \in Inbox,
           inbox' = [inbox EXCEPT ![i] = changed], End(r), UNCHANGED <<user, key>>,
           changed.state # "none", inbox[i].state = "none" \/ lock[i] = r
    PROVE  AInv'
<1>1. TypeOK  BY DEF AInv
<1>2. inbox' \in [Inboxes -> Inbox] /\ inbox'[i] = changed
      /\ \A j \in Inboxes \ {i} : inbox'[j] = inbox[j]
    BY <1>1 DEF TypeOK
<1>3. TypeOK'  BY <1>1, <1>2, EndFrees DEF TypeOK
<1>4. \A j \in Inboxes : inbox[j].state # "none" =>
        inbox'[j].state # "none" /\ (lock[j] # r /\ inbox[j].past => inbox'[j].past)
    BY <1>2
<1>5. /\ \A s \in Requests : LocksInOrder(s)' /\ AboutRows(s)' /\ Assured(s)'
      /\ LocksAreAskedFor'
    BY <1>4, EndKeepsRequests
<1>6. AdminRemains' /\ KeyWithinOwner' /\ OwnedKeys'
    BY DEF AInv, AdminRemains, KeyWithinOwner, OwnedKeys, IsPlatformAdmin, OwnerAllows
<1> QED  BY <1>3, <1>5, <1>6 DEF AInv

LEMMA CountInboxesKeeps ==
    ASSUME AInv, NEW r \in Requests, CountInboxes(r)
    PROVE  AInv'
<1>1. CASE Refuse(r)  BY <1>1, RefuseKeeps
<1>2. CASE /\ req' = [req EXCEPT ![r].on = Server]
           /\ UNCHANGED <<user, key, inbox, lock>>
  <2>1. req[r].op = "createInbox" /\ req[r].pc = "row"  BY DEF CountInboxes
  <2>2. TypeOK /\ LocksInOrder(r) /\ LocksAreAskedFor  BY DEF AInv
  <2>3. req[r] \in Request /\ [req[r] EXCEPT !.on = Server] \in Request
      BY <2>2 DEF TypeOK, Request, Rows
  <2>4. /\ req' \in [Requests -> Request] /\ req'[r] = [req[r] EXCEPT !.on = Server]
        /\ \A s \in Requests \ {r} : req'[s] = req[s]
      BY <1>2, <2>2, <2>3 DEF TypeOK
  <2>5. /\ req'[r].pc = req[r].pc /\ req'[r].op = req[r].op /\ req'[r].actor = req[r].actor
        /\ req'[r].todo = req[r].todo /\ req'[r].saw = req[r].saw
      BY <2>3, <2>4 DEF Request
  <2>6. Needs(r)' = Needs(r)  BY <2>1, <2>5 DEF Needs
  <2>7. LocksInOrder(r)'  BY <1>2, <2>1, <2>2, <2>5, <2>6 DEF LocksInOrder, Active
  <2>8. AboutRows(r)' /\ Assured(r)'  BY <2>1, <2>5 DEF AboutRows, Assured
  <2>9. \A u \in Users : lock[u] = r => req'[r].pc \in Active /\ u \in Needs(r)' \ req'[r].todo
      BY <2>2, <2>5, <2>6 DEF LocksAreAskedFor
  <2> QED  BY <1>2, <2>4, <2>7, <2>8, <2>9, OnlyRequestChanges
<1> QED  BY <1>1, <1>2 DEF CountInboxes

LEMMA SelectServerKeeps ==
    ASSUME AInv, NEW r \in Requests, SelectServer(r)
    PROVE  AInv'
<1> DEFINE rows == {Server} \cup {i \in Inboxes : inbox[i].state = "live"}
<1>1. req[r].op = "createInbox" /\ req[r].pc = "row" /\ Server \in rows  BY DEF SelectServer
<1>2. rows \in SUBSET (Rows \ Users)  BY NamesAssumption DEF Rows
<1>3. CASE Refuse(r)  BY <1>3, RefuseKeeps
<1>4. CASE /\ Free(r, rows) /\ Take(r, rows)
           /\ req' = [req EXCEPT ![r].pc = "ready"]
           /\ UNCHANGED <<user, key, inbox>>
  <2> HIDE DEF rows
  <2> QED  BY <1>1, <1>2, <1>4, RowLockKeeps
<1> QED  BY <1>3, <1>4 DEF SelectServer

LEMMA LockInboxKeeps ==
    ASSUME AInv, NEW r \in Requests, LockInbox(r)
    PROVE  AInv'
<1> DEFINE i == req[r].on
<1>1. req[r].op \in {"renew", "deleteInbox", "expire"} /\ req[r].pc = "row"  BY DEF LockInbox
<1>2. i \in Inboxes  BY <1>1 DEF AInv, AboutRows, Active
<1>3. {i} \in SUBSET (Rows \ Users)  BY <1>2, NamesAssumption DEF Rows
<1>4. CASE Refuse(r)  BY <1>4, RefuseKeeps
<1>5. CASE /\ req[r].op = "expire" => inbox[i].past
           /\ Free(r, {i}) /\ Take(r, {i})
           /\ req' = [req EXCEPT ![r].pc = "ready"]
           /\ UNCHANGED <<user, key, inbox>>
    BY <1>1, <1>3, <1>5, RowLockKeeps
<1> QED  BY <1>4, <1>5 DEF LockInbox

LEMMA CreateInboxKeeps ==
    ASSUME AInv, NEW r \in Requests, NEW i \in Inboxes, CreateInbox(r, i)
    PROVE  AInv'
<1> DEFINE changed == [state |-> "live", owner |-> req[r].actor, past |-> FALSE]
<1>1. inbox' = [inbox EXCEPT ![i] = changed] /\ End(r) /\ UNCHANGED <<user, key>>
      /\ inbox[i].state = "none"
    BY DEF CreateInbox
<1>2. changed \in Inbox /\ changed.state # "none"  BY DEF AInv, TypeOK, Request, Inbox
<1> HIDE DEF changed
<1> QED  BY <1>1, <1>2, InboxWriteKeeps

(* A request that has locked the inbox it is about.                        *)
LEMMA OwnInboxLocked ==
    ASSUME AInv, NEW r \in Requests, req[r].pc = "ready",
           req[r].op \in {"renew", "deleteInbox", "expire"}
    PROVE  /\ req[r].on \in Inboxes /\ inbox[req[r].on] \in Inbox
           /\ inbox[req[r].on].state # "none" /\ lock[req[r].on] = r
           /\ req[r].op = "expire" => inbox[req[r].on].past
BY DEF AInv, TypeOK, AboutRows, Assured, Active

LEMMA RenewInboxKeeps ==
    ASSUME AInv, NEW r \in Requests, RenewInbox(r)
    PROVE  AInv'
<1> DEFINE i == req[r].on
           changed == [inbox[i] EXCEPT !.past = FALSE]
<1>1. i \in Inboxes /\ inbox[i] \in Inbox /\ inbox[i].state # "none" /\ lock[i] = r
    BY OwnInboxLocked DEF RenewInbox
<1>2. changed \in Inbox /\ changed.state # "none"  BY <1>1 DEF Inbox
<1>3. inbox' = [inbox EXCEPT ![i] = changed] /\ End(r) /\ UNCHANGED <<user, key>>
    BY DEF RenewInbox
<1> HIDE DEF changed
<1> QED  BY <1>1, <1>2, <1>3, InboxWriteKeeps

LEMMA DeleteInboxKeeps ==
    ASSUME AInv, NEW r \in Requests, DeleteInbox(r)
    PROVE  AInv'
<1> DEFINE i == req[r].on
           changed == [inbox[i] EXCEPT !.state = "deleted"]
<1>1. i \in Inboxes /\ inbox[i] \in Inbox /\ inbox[i].state # "none" /\ lock[i] = r
    BY OwnInboxLocked DEF DeleteInbox
<1>2. changed \in Inbox /\ changed.state # "none"  BY <1>1 DEF Inbox
<1>3. inbox' = [inbox EXCEPT ![i] = changed] /\ End(r) /\ UNCHANGED <<user, key>>
    BY DEF DeleteInbox
<1> HIDE DEF changed
<1> QED  BY <1>1, <1>2, <1>3, InboxWriteKeeps

LEMMA ExpireInboxKeeps ==
    ASSUME AInv, NEW r \in Requests, ExpireInbox(r)
    PROVE  AInv'
<1> DEFINE i == req[r].on
           changed == [inbox[i] EXCEPT !.state = "expired"]
<1>1. i \in Inboxes /\ inbox[i] \in Inbox /\ inbox[i].state # "none" /\ lock[i] = r
    BY OwnInboxLocked DEF ExpireInbox
<1>2. changed \in Inbox /\ changed.state # "none"  BY <1>1 DEF Inbox
<1>3. inbox' = [inbox EXCEPT ![i] = changed] /\ End(r) /\ UNCHANGED <<user, key>>
    BY DEF ExpireInbox
<1> HIDE DEF changed
<1> QED  BY <1>1, <1>2, <1>3, InboxWriteKeeps

LEMMA TimePassesKeeps ==
    ASSUME AInv, NEW i \in Inboxes, TimePasses(i)
    PROVE  AInv'
<1>1. TypeOK /\ LocksAreAskedFor  BY DEF AInv
<1>2. UNCHANGED <<user, key, lock, req>>  BY DEF TimePasses
<1>3. [inbox[i] EXCEPT !.past = TRUE] \in Inbox  BY <1>1 DEF TypeOK, Inbox
<1>4. /\ inbox' \in [Inboxes -> Inbox] /\ inbox'[i] = [inbox[i] EXCEPT !.past = TRUE]
      /\ \A j \in Inboxes \ {i} : inbox'[j] = inbox[j]
    BY <1>1, <1>3 DEF TypeOK, TimePasses
<1>5. inbox'[i].state = inbox[i].state /\ inbox'[i].past  BY <1>1, <1>4 DEF TypeOK, Inbox
<1>6. TypeOK'  BY <1>1, <1>2, <1>4 DEF TypeOK
<1>7. \A s \in Requests : LocksInOrder(s)' /\ AboutRows(s)' /\ Assured(s)'
    BY <1>2, <1>4, <1>5, Undisturbed
<1>8. LocksAreAskedFor'  BY <1>1, <1>2 DEF LocksAreAskedFor, Needs
<1>9. AdminRemains' /\ KeyWithinOwner' /\ OwnedKeys'
    BY <1>2 DEF AInv, AdminRemains, KeyWithinOwner, OwnedKeys, IsPlatformAdmin, OwnerAllows
<1> QED  BY <1>6, <1>7, <1>8, <1>9 DEF AInv

-----------------------------------------------------------------------------
(* Every step.                                                             *)

LEMMA StutterKeepsAccounts ==
    ASSUME AInv, UNCHANGED vars
    PROVE  AInv'
<1>1. UNCHANGED <<user, key, inbox, lock, req>>  BY DEF vars
<1>2. \A s \in Requests : LocksInOrder(s)' /\ AboutRows(s)' /\ Assured(s)'  BY <1>1, Undisturbed
<1>3. TypeOK' /\ LocksAreAskedFor'  BY <1>1 DEF AInv, TypeOK, LocksAreAskedFor, Needs
<1>4. AdminRemains' /\ KeyWithinOwner' /\ OwnedKeys'
    BY <1>1 DEF AInv, AdminRemains, KeyWithinOwner, OwnedKeys, IsPlatformAdmin, OwnerAllows
<1> QED  BY <1>2, <1>3, <1>4 DEF AInv

LEMMA NextKeepsAccounts ==
    ASSUME AInv, [Next]_vars
    PROVE  AInv'
<1>1. ASSUME NEW r \in Requests,
             BeginAny(r) \/ LockUser(r) \/ ChangePlatformRole(r) \/ ChangeUserStatus(r)
      PROVE  AInv'
    BY <1>1, BeginAnyKeeps, LockUserKeeps, ChangePlatformRoleKeeps, ChangeUserStatusKeeps
<1>2. ASSUME NEW r \in Requests, Abort(r) PROVE AInv'  BY <1>2, RefuseKeeps DEF Abort
<1>3. ASSUME NEW r \in Requests,
             \/ CountKeys(r) \/ LockKey(r) \/ UpdateKey(r) \/ RevokeKey(r)
             \/ \E k \in Keys : CreateKey(r, k)
      PROVE  AInv'
    BY <1>3, CountKeysKeeps, LockKeyKeeps, UpdateKeyKeeps, RevokeKeyKeeps, CreateKeyKeeps
<1>4. ASSUME NEW r \in Requests,
             \/ CountInboxes(r) \/ SelectServer(r) \/ LockInbox(r)
             \/ \E i \in Inboxes : CreateInbox(r, i)
      PROVE  AInv'
    BY <1>4, CountInboxesKeeps, SelectServerKeeps, LockInboxKeeps, CreateInboxKeeps
<1>5. ASSUME NEW r \in Requests, RenewInbox(r) \/ DeleteInbox(r) \/ ExpireInbox(r)
      PROVE  AInv'
    BY <1>5, RenewInboxKeeps, DeleteInboxKeeps, ExpireInboxKeeps
<1>6. CASE UNCHANGED vars  BY <1>6, StutterKeepsAccounts
<1> QED  BY <1>1, <1>2, <1>3, <1>4, <1>5, <1>6, DeleteKeyKeeps, TimePassesKeeps DEF Next

(* What requests hold and have seen stays true: the inductive invariant of *)
(* the transactions.                                                       *)
THEOREM AccountInvariant_Holds == Spec => []AInv
<1>1. Init => AInv  BY InitAccounts
<1>2. AInv /\ [Next]_vars => AInv'  BY NextKeepsAccounts
<1> QED  BY <1>1, <1>2, PTL DEF Spec

(* Rows, locks and requests keep their types.                              *)
THEOREM AccountTypeCorrect == Spec => []TypeOK
<1>1. AInv => TypeOK  BY DEF AInv
<1> QED  BY <1>1, AccountInvariant_Holds, PTL

(* ChangePlatformRole and ChangeUserStatus lock both users and refuse to   *)
(* change the one who asks: some active administrator is always left.      *)
THEOREM AdministratorRemains == Spec => []AdminRemains
<1>1. AInv => AdminRemains  BY DEF AInv
<1> QED  BY <1>1, AccountInvariant_Holds, PTL

(* A key is created and updated under its owner's lock, and the change of  *)
(* a role revokes what it outgrew: no live key exceeds its owner.          *)
THEOREM KeysStayWithinOwner == Spec => []KeyWithinOwner
<1>1. AInv => KeyWithinOwner  BY DEF AInv
<1> QED  BY <1>1, AccountInvariant_Holds, PTL

LEMMA AscendingNeverCross ==
    ASSUME AInv
    PROVE  UsersNeverCross
<1> SUFFICES ASSUME NEW r \in Requests, NEW s \in Requests, r # s,
                    WaitsFor(r) \in Users, WaitsFor(s) \in Users,
                    lock[WaitsFor(r)] = s, lock[WaitsFor(s)] = r
             PROVE  FALSE
    BY DEF UsersNeverCross
<1> DEFINE u == WaitsFor(r)
           v == WaitsFor(s)
<1>1. req[r].pc = "users" /\ req[s].pc = "users"  BY NamesAssumption DEF WaitsFor
<1>2. req[r].todo # {} /\ req[r].todo \subseteq Users /\ req[s].todo # {} /\ req[s].todo \subseteq Users
    BY <1>1 DEF AInv, LocksInOrder, Active
<1>3. u \in req[r].todo /\ v \in req[s].todo
    BY <1>1, <1>2, NextUserIsSmallest DEF WaitsFor
<1>4. u \in Needs(s) \ req[s].todo /\ v \in Needs(r) \ req[r].todo
    BY DEF AInv, LocksAreAskedFor
<1>5. v < u /\ u < v  BY <1>1, <1>3, <1>4 DEF AInv, LocksInOrder, Active
<1>6. u \in Nat /\ v \in Nat  BY UsersAssumption
<1> QED  BY <1>5, <1>6

(* Users are locked in ascending order of their ids: two requests never    *)
(* wait for each other's users.                                            *)
THEOREM UsersAreNeverCrossed == Spec => []UsersNeverCross
<1>1. AInv => UsersNeverCross  BY AscendingNeverCross
<1> QED  BY <1>1, AccountInvariant_Holds, PTL

LEMMA OnlyExpireExpires ==
    ASSUME AInv, [Next]_vars
    PROVE  ExpiresOnlyPast
<1> SUFFICES ASSUME NEW i \in Inboxes, inbox[i].state = "live", inbox'[i].state = "expired"
             PROVE  inbox[i].past
    BY DEF ExpiresOnlyPast
<1>1. inbox \in [Inboxes -> Inbox]  BY DEF AInv, TypeOK
<1>2. inbox' # inbox  OBVIOUS
<1>3. ASSUME NEW r \in Requests, ExpireInbox(r) PROVE inbox[i].past
  <2>1. req[r].on \in Inboxes /\ inbox[req[r].on].past  BY <1>3, OwnInboxLocked DEF ExpireInbox
  <2>2. req[r].on = i  BY <1>1, <1>3 DEF ExpireInbox
  <2> QED  BY <2>1, <2>2
<1>4. ASSUME NEW r \in Requests, RenewInbox(r) PROVE inbox[i].past
  <2>1. inbox'[i].state = inbox[i].state  BY <1>1, <1>4 DEF RenewInbox, Inbox
  <2> QED  BY <2>1
<1>5. ASSUME NEW r \in Requests, DeleteInbox(r) PROVE inbox[i].past
  <2>1. inbox'[i].state \in {"live", "deleted"}  BY <1>1, <1>5 DEF DeleteInbox, Inbox
  <2> QED  BY <2>1
<1>6. ASSUME NEW r \in Requests, NEW j \in Inboxes, CreateInbox(r, j) PROVE inbox[i].past
  <2>1. inbox'[i].state = "live"  BY <1>1, <1>6 DEF CreateInbox
  <2> QED  BY <2>1
<1>7. ASSUME NEW j \in Inboxes, TimePasses(j) PROVE inbox[i].past
  <2>1. inbox'[i].state = inbox[i].state  BY <1>1, <1>7 DEF TimePasses, Inbox
  <2> QED  BY <2>1
<1>8. ASSUME NEW r \in Requests, BeginAny(r) PROVE FALSE  BY <1>2, <1>8 DEF BeginAny, Begin
<1>9. ASSUME NEW r \in Requests,
             \/ LockUser(r) \/ Abort(r) \/ ChangePlatformRole(r) \/ ChangeUserStatus(r)
      PROVE  FALSE
    BY <1>2, <1>9 DEF LockUser, Abort, Refuse, ChangePlatformRole, ChangeUserStatus
<1>10. ASSUME NEW r \in Requests,
              \/ CountKeys(r) \/ LockKey(r) \/ UpdateKey(r) \/ RevokeKey(r)
              \/ \E k \in Keys : CreateKey(r, k)
       PROVE  FALSE
    BY <1>2, <1>10 DEF CountKeys, LockKey, UpdateKey, RevokeKey, CreateKey, Refuse
<1>11. ASSUME NEW r \in Requests, CountInboxes(r) \/ SelectServer(r) \/ LockInbox(r) PROVE FALSE
    BY <1>2, <1>11 DEF CountInboxes, SelectServer, LockInbox, Refuse
<1>12. ASSUME NEW k \in Keys, DeleteKey(k) PROVE FALSE  BY <1>2, <1>12 DEF DeleteKey
<1>13. CASE UNCHANGED vars  BY <1>2, <1>13 DEF vars
<1> QED  BY <1>3, <1>4, <1>5, <1>6, <1>7, <1>8, <1>9, <1>10, <1>11, <1>12, <1>13 DEF Next

(* ExpireInbox looks at the inbox again under its lock: one that was       *)
(* renewed after the pass listed it is not expired.                        *)
THEOREM RenewedInboxIsKept == Spec => RenewedIsKept
<1>1. AInv /\ [Next]_vars => ExpiresOnlyPast  BY OnlyExpireExpires
<1> QED  BY <1>1, AccountInvariant_Holds, PTL DEF Spec, RenewedIsKept

-----------------------------------------------------------------------------
(* Quotas and capacity.                                                    *)

CreatingKey(r) == req[r].op = "createKey" /\ req[r].pc = "ready"
Counted(r) == req[r].op = "createInbox" /\ req[r].on = Server
Creating(r) == req[r].op = "createInbox" /\ req[r].pc = "ready"
Renewing(r, i) == req[r].op = "renew" /\ req[r].pc = "ready" /\ req[r].on = i

Live == {i \in Inboxes : inbox[i].state = "live"}

(* The inboxes that use the server's capacity or are about to do so again. *)
Booked == {i \in Live : ~inbox[i].past \/ \E r \in Requests : Renewing(r, i)}

(* Room that was found under a lock is still there.                        *)
RoomIsLeft(r) ==
    /\ CreatingKey(r) => Cardinality(KeysOf(req[r].actor)) < KeyLimit
    /\ Counted(r) =>
         /\ req[r].pc \in {"row", "ready"}
         /\ req[r].actor # NoUser => Cardinality(InboxesOf(req[r].actor)) < InboxLimit
    /\ Creating(r) =>
         /\ Counted(r)
         /\ \A i \in Live : lock[i] = r
         /\ Cardinality(Booked) < Capacity

QInv ==
    /\ \A r \in Requests : RoomIsLeft(r)
    /\ QuotasHold
    /\ Cardinality(Booked) <= Capacity

RequestStep(r) ==
    \/ BeginAny(r) \/ LockUser(r) \/ Abort(r)
    \/ ChangePlatformRole(r) \/ ChangeUserStatus(r)
    \/ CountKeys(r) \/ LockKey(r) \/ UpdateKey(r) \/ RevokeKey(r)
    \/ \E k \in Keys : CreateKey(r, k)
    \/ CountInboxes(r) \/ SelectServer(r) \/ LockInbox(r)
    \/ RenewInbox(r) \/ DeleteInbox(r) \/ ExpireInbox(r)
    \/ \E i \in Inboxes : CreateInbox(r, i)

LEMMA NoMoreElements ==
    ASSUME NEW B, IsFiniteSet(B), NEW A \in SUBSET B
    PROVE  Cardinality(A) \in Nat /\ Cardinality(B) \in Nat /\ Cardinality(A) <= Cardinality(B)
BY FS_Subset, FS_CardinalityType

LEMMA OneMoreElement ==
    ASSUME NEW B, IsFiniteSet(B), NEW x, NEW A \in SUBSET (B \cup {x})
    PROVE  Cardinality(A) \in Nat /\ Cardinality(B) \in Nat /\ Cardinality(A) <= Cardinality(B) + 1
<1>1. IsFiniteSet(B \cup {x}) /\ Cardinality(B \cup {x}) = IF x \in B THEN Cardinality(B) ELSE Cardinality(B) + 1
    BY FS_AddElement
<1>2. /\ Cardinality(A) \in Nat /\ Cardinality(B \cup {x}) \in Nat
      /\ Cardinality(A) <= Cardinality(B \cup {x})
    BY <1>1, NoMoreElements
<1>3. Cardinality(B) \in Nat  BY FS_CardinalityType
<1> QED  BY <1>1, <1>2, <1>3

LEMMA CountsAreFinite ==
    /\ \A u : IsFiniteSet(KeysOf(u)) /\ IsFiniteSet(InboxesOf(u))
    /\ IsFiniteSet(Booked) /\ IsFiniteSet(Used)
<1>1. \A u : KeysOf(u) \in SUBSET Keys /\ InboxesOf(u) \in SUBSET Inboxes  BY DEF KeysOf, InboxesOf
<1>2. Booked \in SUBSET Inboxes /\ Used \in SUBSET Inboxes  BY DEF Booked, Live, Used
<1> QED  BY <1>1, <1>2, SetsAssumption, FS_Subset

(* Nothing that is counted grows and no request moves.                     *)
LEMMA NothingGrows ==
    ASSUME QInv, UNCHANGED <<lock, req>>,
           \A u \in Users : KeysOf(u)' \subseteq KeysOf(u) /\ InboxesOf(u)' \subseteq InboxesOf(u),
           Live' \subseteq Live, Booked' \subseteq Booked, AInv
    PROVE  QInv'
<1>1. \A u \in Users : /\ Cardinality(KeysOf(u)') \in Nat /\ Cardinality(KeysOf(u)) \in Nat
                       /\ Cardinality(KeysOf(u)') <= Cardinality(KeysOf(u))
                       /\ Cardinality(InboxesOf(u)') \in Nat /\ Cardinality(InboxesOf(u)) \in Nat
                       /\ Cardinality(InboxesOf(u)') <= Cardinality(InboxesOf(u))
    BY CountsAreFinite, NoMoreElements
<1>2. Cardinality(Booked') \in Nat /\ Cardinality(Booked) \in Nat /\ Cardinality(Booked') <= Cardinality(Booked)
    BY CountsAreFinite, NoMoreElements
<1>3. ASSUME NEW r \in Requests PROVE RoomIsLeft(r)'
  <2>1. RoomIsLeft(r)  BY DEF QInv
  <2>2. CreatingKey(r) => req[r].actor \in Users
      BY DEF AInv, AboutRows, CreatingKey, Active
  <2>3. req[r].actor \in Users \cup {NoUser}  BY DEF AInv, TypeOK, Request
  <2>4. CreatingKey(r)' => Cardinality(KeysOf(req[r].actor)') < KeyLimit
      BY <1>1, <2>1, <2>2, LimitsAssumption DEF RoomIsLeft, CreatingKey
  <2>5. Counted(r)' =>
         /\ req[r].pc \in {"row", "ready"}
         /\ req[r].actor # NoUser => Cardinality(InboxesOf(req[r].actor)') < InboxLimit
      BY <1>1, <2>1, <2>3, LimitsAssumption DEF RoomIsLeft, Counted
  <2>6. Creating(r)' => Counted(r)' /\ (\A i \in Live' : lock[i] = r) /\ Cardinality(Booked') < Capacity
      BY <1>2, <2>1, LimitsAssumption DEF RoomIsLeft, Counted, Creating
  <2> QED  BY <2>4, <2>5, <2>6 DEF RoomIsLeft, KeysOf, InboxesOf
<1>4. QuotasHold'  BY <1>1, LimitsAssumption DEF QInv, QuotasHold
<1>5. Cardinality(Booked') <= Capacity  BY <1>2, LimitsAssumption DEF QInv
<1> QED  BY <1>3, <1>4, <1>5 DEF QInv

(* What a step of r makes r promise.                                       *)
Promises(r) ==
    /\ \A s \in Requests \ {r} : req'[s] = req[s]
    /\ CreatingKey(r)' =>
         /\ req'[r].actor = req[r].actor /\ key' = key
         /\ Cardinality(KeysOf(req[r].actor)) < KeyLimit
    /\ Counted(r)' =>
         /\ req'[r].pc \in {"row", "ready"} /\ req'[r].actor = req[r].actor /\ inbox' = inbox
         /\ req[r].actor # NoUser => Cardinality(InboxesOf(req[r].actor)) < InboxLimit
    /\ Creating(r)' =>
         /\ Counted(r)' /\ inbox' = inbox
         /\ \A i \in Live : lock'[i] = r /\ lock[i] \in {Nobody, r}
         /\ Cardinality(Used) < Capacity
    /\ \A i \in Inboxes : Renewing(r, i)' =>
         inbox' = inbox /\ inbox[i].state = "live" /\ ~inbox[i].past /\ lock[i] \in {Nobody, r}

LEMMA EndPromises ==
    ASSUME AInv, NEW r \in Requests, End(r)
    PROVE  Promises(r)
<1>1. TypeOK  BY DEF AInv
<1>2. req'[r] = [NewRequest EXCEPT !.pc = "done"] /\ \A s \in Requests \ {r} : req'[s] = req[s]
    BY <1>1 DEF End, TypeOK
<1>3. req'[r].op = "none"  BY <1>2 DEF NewRequest
<1> QED  BY <1>2, <1>3 DEF Promises, CreatingKey, Counted, Creating, Renewing

LEMMA RefusePromises ==
    ASSUME AInv, NEW r \in Requests, Refuse(r)
    PROVE  Promises(r)
BY EndPromises DEF Refuse

LEMMA BeginPromises ==
    ASSUME AInv, NEW r \in Requests, NEW op, NEW actor, NEW on, NEW to, NEW todo,
           Begin(r, op, actor, on, to, todo), op = "createInbox" => on = Nobody
    PROVE  Promises(r)
<1>1. TypeOK  BY DEF AInv
<1>2. /\ req'[r] = [pc |-> IF todo = {} THEN "row" ELSE "users", op |-> op, actor |-> actor,
                    on |-> on, to |-> to, todo |-> todo, saw |-> Unseen]
      /\ \A s \in Requests \ {r} : req'[s] = req[s]
    BY <1>1 DEF Begin, TypeOK
<1>3. req'[r].pc \in {"row", "users"} /\ req'[r].op = op /\ req'[r].on = on  BY <1>2
<1> QED  BY <1>2, <1>3, NamesAssumption DEF Promises, CreatingKey, Counted, Creating, Renewing

(* A step of r that keeps what r is about and only moves its pc.           *)
LEMMA PcMoves ==
    ASSUME AInv, NEW r \in Requests, req' = [req EXCEPT ![r].pc = "ready"]
    PROVE  /\ req'[r].pc = "ready" /\ req'[r].op = req[r].op /\ req'[r].actor = req[r].actor
           /\ req'[r].on = req[r].on
           /\ \A s \in Requests \ {r} : req'[s] = req[s]
BY DEF AInv, TypeOK, Request

LEMMA StepPromises ==
    ASSUME AInv, QInv, NEW r \in Requests, RequestStep(r)
    PROVE  Promises(r)
<1>1. CASE BeginAny(r)
  <2>1. ASSUME NEW a \in Users, NEW t \in Users, NEW to,
               Begin(r, "role", a, t, to, {a, t}) \/ Begin(r, "status", a, t, to, {a, t})
        PROVE  Promises(r)
      BY <2>1, BeginPromises
  <2>2. ASSUME NEW u, NEW to, Begin(r, "createKey", u, u, to, {u})  PROVE Promises(r)
      BY <2>2, BeginPromises
  <2>3. ASSUME NEW k, NEW to, Begin(r, "updateKey", key[k].owner, k, to, {key[k].owner})
        PROVE  Promises(r)
    <3>1. PICK u : u = key[k].owner  OBVIOUS
    <3> QED  BY <2>3, <3>1, BeginPromises
  <2>4. ASSUME NEW k, NEW a, Begin(r, "revokeKey", a, k, "none", {a})  PROVE Promises(r)
      BY <2>4, BeginPromises
  <2>5. ASSUME NEW u, NEW todo, Begin(r, "createInbox", u, Nobody, "none", todo)  PROVE Promises(r)
      BY <2>5, BeginPromises
  <2>6. ASSUME NEW u, NEW i,
               \/ Begin(r, "renew", u, i, "none", {u}) \/ Begin(r, "deleteInbox", u, i, "none", {})
               \/ Begin(r, "expire", u, i, "none", {})
        PROVE  Promises(r)
      BY <2>6, BeginPromises
  <2> QED  BY <1>1, <2>1, <2>2, <2>3, <2>4, <2>5, <2>6 DEF BeginAny
<1>2. CASE LockUser(r)
  <2>1. RoomIsLeft(r)  BY DEF QInv
  <2>2. req[r].pc = "users"  BY <1>2 DEF LockUser
  <2>3. ~Counted(r)  BY <2>1, <2>2 DEF RoomIsLeft
  <2>4. /\ req'[r].pc \in {"row", "users"} /\ req'[r].op = req[r].op /\ req'[r].on = req[r].on
        /\ \A s \in Requests \ {r} : req'[s] = req[s]
    <3>1. PICK u : req' = [req EXCEPT ![r].todo = @ \ {u}, ![r].saw[u] = user[u],
                                      ![r].pc = IF req[r].todo = {u} THEN "row" ELSE "users"]
        BY <1>2 DEF LockUser
    <3>2. req \in [Requests -> Request] /\ req[r] \in Request  BY DEF AInv, TypeOK
    <3> DEFINE pc == IF req[r].todo = {u} THEN "row" ELSE "users"
               saw == [req[r].saw EXCEPT ![u] = user[u]]
    <3>3. req'[r] = [req[r] EXCEPT !.todo = req[r].todo \ {u}, !.saw = saw, !.pc = pc]
          /\ \A s \in Requests \ {r} : req'[s] = req[s]
        BY <3>1, <3>2
    <3>4. pc \in {"row", "users"}  OBVIOUS
    <3> HIDE DEF pc, saw
    <3> QED  BY <3>2, <3>3, <3>4 DEF Request
  <2> QED  BY <2>3, <2>4 DEF Promises, CreatingKey, Counted, Creating, Renewing
<1>3. CASE Abort(r)  BY <1>3, RefusePromises DEF Abort
<1>4. CASE ChangePlatformRole(r) \/ ChangeUserStatus(r)
    BY <1>4, EndPromises DEF ChangePlatformRole, ChangeUserStatus, Refuse
<1>5. CASE CountKeys(r)
  <2>1. CASE Refuse(r)  BY <2>1, RefusePromises
  <2>2. CASE /\ Cardinality(KeysOf(req[r].actor)) < KeyLimit
             /\ req' = [req EXCEPT ![r].pc = "ready"] /\ key' = key
    <3>1. req[r].op = "createKey"  BY <1>5 DEF CountKeys
    <3> QED  BY <2>2, <3>1, PcMoves DEF Promises, CreatingKey, Counted, Creating, Renewing
  <2> QED  BY <1>5, <2>1, <2>2 DEF CountKeys
<1>6. CASE LockKey(r)
  <2>1. CASE Refuse(r)  BY <2>1, RefusePromises
  <2>2. CASE req' = [req EXCEPT ![r].pc = "ready"]
    <3>1. req[r].op \in {"updateKey", "revokeKey"}  BY <1>6 DEF LockKey
    <3> QED  BY <2>2, <3>1, PcMoves DEF Promises, CreatingKey, Counted, Creating, Renewing
  <2> QED  BY <1>6, <2>1, <2>2 DEF LockKey
<1>7. CASE UpdateKey(r) \/ RevokeKey(r) \/ \E k \in Keys : CreateKey(r, k)
    BY <1>7, EndPromises DEF UpdateKey, RevokeKey, CreateKey, Refuse
<1>8. CASE CountInboxes(r)
  <2>1. CASE Refuse(r)  BY <2>1, RefusePromises
  <2>2. CASE /\ req[r].actor = NoUser \/ Cardinality(InboxesOf(req[r].actor)) < InboxLimit
             /\ req' = [req EXCEPT ![r].on = Server] /\ inbox' = inbox
    <3>1. req[r].op = "createInbox" /\ req[r].pc = "row"  BY <1>8 DEF CountInboxes
    <3>2. /\ req'[r].pc = req[r].pc /\ req'[r].op = req[r].op /\ req'[r].actor = req[r].actor
          /\ \A s \in Requests \ {r} : req'[s] = req[s]
        BY <2>2 DEF AInv, TypeOK, Request
    <3> QED  BY <2>2, <3>1, <3>2 DEF Promises, CreatingKey, Counted, Creating, Renewing
  <2> QED  BY <1>8, <2>1, <2>2 DEF CountInboxes
<1>9. CASE SelectServer(r)
  <2> DEFINE rows == {Server} \cup {i \in Inboxes : inbox[i].state = "live"}
  <2>1. CASE Refuse(r)  BY <2>1, RefusePromises
  <2>2. CASE /\ Cardinality(Used) < Capacity /\ Free(r, rows) /\ Take(r, rows)
             /\ req' = [req EXCEPT ![r].pc = "ready"] /\ inbox' = inbox
    <3>1. req[r].op = "createInbox" /\ req[r].on = Server  BY <1>9 DEF SelectServer
    <3>2. req[r].actor # NoUser => Cardinality(InboxesOf(req[r].actor)) < InboxLimit
        BY <3>1 DEF QInv, RoomIsLeft, Counted
    <3>3. \A i \in Live : lock'[i] = r /\ lock[i] \in {Nobody, r}
        BY <2>2 DEF Live, Take, Free, Rows
    <3> QED  BY <2>2, <3>1, <3>2, <3>3, PcMoves DEF Promises, CreatingKey, Counted, Creating, Renewing
  <2> QED  BY <1>9, <2>1, <2>2 DEF SelectServer
<1>10. CASE LockInbox(r)
  <2> DEFINE i == req[r].on
  <2>1. CASE Refuse(r)  BY <2>1, RefusePromises
  <2>2. CASE /\ inbox[i].state = "live" /\ (req[r].op = "renew" => ~inbox[i].past) /\ Free(r, {i})
             /\ req' = [req EXCEPT ![r].pc = "ready"] /\ inbox' = inbox
    <3>1. req[r].op \in {"renew", "deleteInbox", "expire"}  BY <1>10 DEF LockInbox
    <3> QED  BY <2>2, <3>1, PcMoves DEF Promises, CreatingKey, Counted, Creating, Renewing, Free
  <2> QED  BY <1>10, <2>1, <2>2 DEF LockInbox
<1>11. CASE RenewInbox(r) \/ DeleteInbox(r) \/ ExpireInbox(r) \/ \E i \in Inboxes : CreateInbox(r, i)
    BY <1>11, EndPromises DEF RenewInbox, DeleteInbox, ExpireInbox, CreateInbox
<1> QED  BY <1>1, <1>2, <1>3, <1>4, <1>5, <1>6, <1>7, <1>8, <1>9, <1>10, <1>11 DEF RequestStep

(* The locks of the others stay.                                           *)
LEMMA OthersKeepLocks ==
    ASSUME AInv, NEW r \in Requests, RequestStep(r)
    PROVE  \A x \in Rows : \A s \in Requests \ {r} : lock[x] = s => lock'[x] = s
<1>1. ASSUME End(r) PROVE \A x \in Rows : \A s \in Requests \ {r} : lock[x] = s => lock'[x] = s
    BY <1>1 DEF End
<1>2. ASSUME NEW rows, Free(r, rows), Take(r, rows)
      PROVE  \A x \in Rows : \A s \in Requests \ {r} : lock[x] = s => lock'[x] = s
    BY <1>2, NamesAssumption DEF Free, Take
<1>3. CASE BeginAny(r)  BY <1>3 DEF BeginAny, Begin
<1>4. CASE LockUser(r)  BY <1>2, <1>4 DEF LockUser
<1>5. CASE Abort(r) \/ ChangePlatformRole(r) \/ ChangeUserStatus(r)
    BY <1>1, <1>5 DEF Abort, ChangePlatformRole, ChangeUserStatus, Refuse
<1>6. CASE CountKeys(r) \/ LockKey(r)  BY <1>1, <1>2, <1>6 DEF CountKeys, LockKey, Refuse
<1>7. CASE UpdateKey(r) \/ RevokeKey(r) \/ \E k \in Keys : CreateKey(r, k)
    BY <1>1, <1>7 DEF UpdateKey, RevokeKey, CreateKey, Refuse
<1>8. CASE CountInboxes(r)  BY <1>1, <1>8 DEF CountInboxes, Refuse
<1>9. CASE SelectServer(r)
  <2> DEFINE rows == {Server} \cup {i \in Inboxes : inbox[i].state = "live"}
  <2>1. End(r) \/ (Free(r, rows) /\ Take(r, rows))  BY <1>9 DEF SelectServer, Refuse
  <2> HIDE DEF rows
  <2> QED  BY <1>1, <2>1, NamesAssumption DEF Free, Take
<1>10. CASE LockInbox(r)  BY <1>1, <1>2, <1>10 DEF LockInbox, Refuse
<1>11. CASE RenewInbox(r) \/ DeleteInbox(r) \/ ExpireInbox(r) \/ \E i \in Inboxes : CreateInbox(r, i)
    BY <1>1, <1>11 DEF RenewInbox, DeleteInbox, ExpireInbox, CreateInbox
<1> QED  BY <1>3, <1>4, <1>5, <1>6, <1>7, <1>8, <1>9, <1>10, <1>11 DEF RequestStep

LEMMA KeysGrow ==
    ASSUME AInv, NEW r \in Requests, RequestStep(r), NEW u \in Users
    PROVE  \/ KeysOf(u)' \subseteq KeysOf(u)
           \/ CreatingKey(r) /\ req[r].actor = u /\ \E k : KeysOf(u)' \subseteq KeysOf(u) \cup {k}
<1>1. key \in [Keys -> Key]  BY DEF AInv, TypeOK
<1>2. ASSUME \A k \in Keys : key'[k].state = "live" => key[k].state = "live" /\ key'[k].owner = key[k].owner
      PROVE  KeysOf(u)' \subseteq KeysOf(u)
    BY <1>2 DEF KeysOf
<1>3. CASE key' = key  BY <1>2, <1>3
<1>4. ASSUME NEW keys, Revoke(keys)
      PROVE  KeysOf(u)' \subseteq KeysOf(u)
  <2>1. \A k \in Keys : key'[k].state = "live" => key[k].state = "live" /\ key'[k].owner = key[k].owner
      BY <1>1, <1>4 DEF Revoke, Key
  <2> QED  BY <1>2, <2>1
<1>5. CASE ChangePlatformRole(r)
  <2>1. key' = key \/ Revoke({k \in KeysOf(req[r].on) :
                                key[k].scope \in LostScopes(req[r].saw[req[r].on].role, req[r].to)})
      BY <1>5 DEF ChangePlatformRole, Refuse
  <2>2. \A k \in Keys : key'[k].state = "live" => key[k].state = "live" /\ key'[k].owner = key[k].owner
      BY <1>1, <2>1 DEF Revoke, Key
  <2> QED  BY <1>2, <2>2
<1>6. CASE ChangeUserStatus(r)
  <2>1. key' = key \/ Revoke({k \in KeysOf(req[r].on) : req[r].to # "active"})
      BY <1>6 DEF ChangeUserStatus, Refuse
  <2>2. \A k \in Keys : key'[k].state = "live" => key[k].state = "live" /\ key'[k].owner = key[k].owner
      BY <1>1, <2>1 DEF Revoke, Key
  <2> QED  BY <1>2, <2>2
<1>7. CASE UpdateKey(r)
  <2>1. key' = key \/ key' = [key EXCEPT ![req[r].on].scope = req[r].to]
      BY <1>7 DEF UpdateKey, Refuse
  <2>2. \A k \in Keys : key'[k].state = key[k].state /\ key'[k].owner = key[k].owner
      BY <1>1, <2>1 DEF Key
  <2> QED  BY <1>2, <2>2
<1>8. CASE RevokeKey(r)
  <2>1. key' = key \/ key' = [key EXCEPT ![req[r].on].state = "revoked"]
      BY <1>8 DEF RevokeKey, Refuse
  <2>2. \A k \in Keys : key'[k].state \in {key[k].state, "revoked"} /\ key'[k].owner = key[k].owner
      BY <1>1, <2>1 DEF Key
  <2> QED  BY <1>2, <2>2
<1>9. ASSUME NEW k \in Keys, CreateKey(r, k)
      PROVE  \/ KeysOf(u)' \subseteq KeysOf(u)
             \/ CreatingKey(r) /\ req[r].actor = u /\ \E j : KeysOf(u)' \subseteq KeysOf(u) \cup {j}
  <2>1. CreatingKey(r) /\ key'[k].owner = req[r].actor /\ \A j \in Keys \ {k} : key'[j] = key[j]
      BY <1>1, <1>9 DEF CreateKey, CreatingKey
  <2>2. KeysOf(u)' \subseteq KeysOf(u) \cup {k}  BY <2>1 DEF KeysOf
  <2>3. CASE req[r].actor # u  BY <2>1, <2>3 DEF KeysOf
  <2> QED  BY <2>1, <2>2, <2>3
<1>10. key' = key \/ ~ (\/ BeginAny(r) \/ LockUser(r) \/ Abort(r) \/ CountKeys(r) \/ LockKey(r)
                        \/ CountInboxes(r) \/ SelectServer(r) \/ LockInbox(r)
                        \/ RenewInbox(r) \/ DeleteInbox(r) \/ ExpireInbox(r)
                        \/ \E i \in Inboxes : CreateInbox(r, i))
    BY DEF BeginAny, Begin, LockUser, Abort, Refuse, CountKeys, LockKey, CountInboxes, SelectServer,
           LockInbox, RenewInbox, DeleteInbox, ExpireInbox, CreateInbox
<1> QED  BY <1>3, <1>5, <1>6, <1>7, <1>8, <1>9, <1>10 DEF RequestStep

(* How a request writes inboxes.                                           *)
LEMMA InboxWrites ==
    ASSUME AInv, NEW r \in Requests, RequestStep(r)
    PROVE  \/ inbox' = inbox
           \/ /\ \A i \in Inboxes : inbox'[i].state = "live" => inbox[i].state = "live"
              /\ \A i \in Inboxes : inbox'[i].owner = inbox[i].owner
              /\ \A i \in Inboxes : inbox[i].past /\ ~inbox'[i].past => Renewing(r, i)
           \/ /\ Creating(r)
              /\ \E i \in Inboxes : /\ inbox[i].state = "none" /\ inbox'[i].owner = req[r].actor
                                    /\ \A j \in Inboxes \ {i} : inbox'[j] = inbox[j]
<1>1. inbox \in [Inboxes -> Inbox]  BY DEF AInv, TypeOK
<1>2. CASE RenewInbox(r)
  <2>1. Renewing(r, req[r].on) /\ inbox' = [inbox EXCEPT ![req[r].on].past = FALSE]
      BY <1>2 DEF RenewInbox, Renewing
  <2>2. /\ \A i \in Inboxes : inbox'[i].state = inbox[i].state /\ inbox'[i].owner = inbox[i].owner
        /\ \A i \in Inboxes : i # req[r].on => inbox'[i].past = inbox[i].past
      BY <1>1, <2>1 DEF Inbox
  <2> QED  BY <2>1, <2>2
<1>3. CASE DeleteInbox(r)
  <2>1. inbox' = [inbox EXCEPT ![req[r].on].state = "deleted"]  BY <1>3 DEF DeleteInbox
  <2>2. \A i \in Inboxes : /\ inbox'[i].state \in {inbox[i].state, "deleted"}
                           /\ inbox'[i].owner = inbox[i].owner /\ inbox'[i].past = inbox[i].past
      BY <1>1, <2>1 DEF Inbox
  <2> QED  BY <2>2
<1>4. CASE ExpireInbox(r)
  <2>1. inbox' = [inbox EXCEPT ![req[r].on].state = "expired"]  BY <1>4 DEF ExpireInbox
  <2>2. \A i \in Inboxes : /\ inbox'[i].state \in {inbox[i].state, "expired"}
                           /\ inbox'[i].owner = inbox[i].owner /\ inbox'[i].past = inbox[i].past
      BY <1>1, <2>1 DEF Inbox
  <2> QED  BY <2>2
<1>5. ASSUME NEW i \in Inboxes, CreateInbox(r, i)
      PROVE  /\ Creating(r) /\ inbox[i].state = "none" /\ inbox'[i].owner = req[r].actor
             /\ \A j \in Inboxes \ {i} : inbox'[j] = inbox[j]
    BY <1>1, <1>5 DEF CreateInbox, Creating
<1>6. inbox' = inbox \/ ~ (\/ BeginAny(r) \/ LockUser(r) \/ Abort(r)
                           \/ ChangePlatformRole(r) \/ ChangeUserStatus(r))
    BY DEF BeginAny, Begin, LockUser, Abort, Refuse, ChangePlatformRole, ChangeUserStatus
<1>7. inbox' = inbox \/ ~ (\/ CountKeys(r) \/ LockKey(r) \/ UpdateKey(r) \/ RevokeKey(r)
                           \/ \E k \in Keys : CreateKey(r, k))
    BY DEF CountKeys, LockKey, UpdateKey, RevokeKey, CreateKey, Refuse
<1>8. inbox' = inbox \/ ~ (CountInboxes(r) \/ SelectServer(r) \/ LockInbox(r))
    BY DEF CountInboxes, SelectServer, LockInbox, Refuse
<1> QED  BY <1>2, <1>3, <1>4, <1>5, <1>6, <1>7, <1>8 DEF RequestStep

LEMMA InboxesGrow ==
    ASSUME AInv, NEW r \in Requests, RequestStep(r)
    PROVE  /\ \A u : \/ InboxesOf(u)' \subseteq InboxesOf(u)
                     \/ Creating(r) /\ req[r].actor = u
                        /\ \E i : InboxesOf(u)' \subseteq InboxesOf(u) \cup {i}
           /\ Live' \subseteq Live \/ Creating(r)
<1>1. CASE inbox' = inbox  BY <1>1 DEF InboxesOf, Live
<1>2. CASE /\ \A i \in Inboxes : inbox'[i].state = "live" => inbox[i].state = "live"
           /\ \A i \in Inboxes : inbox'[i].owner = inbox[i].owner
    BY <1>2 DEF InboxesOf, Live
<1>3. ASSUME Creating(r), NEW i \in Inboxes, inbox'[i].owner = req[r].actor,
             \A j \in Inboxes \ {i} : inbox'[j] = inbox[j], NEW u
      PROVE  \/ InboxesOf(u)' \subseteq InboxesOf(u)
             \/ req[r].actor = u /\ InboxesOf(u)' \subseteq InboxesOf(u) \cup {i}
    BY <1>3 DEF InboxesOf
<1> QED  BY <1>1, <1>2, <1>3, InboxWrites

LEMMA BookedGrows ==
    ASSUME AInv, NEW r \in Requests, RequestStep(r), Promises(r)
    PROVE  Booked' \subseteq Booked \/ (Creating(r) /\ \E i : Booked' \subseteq Booked \cup {i})
<1>1. ASSUME NEW i \in Inboxes, NEW s \in Requests, Renewing(s, i)',
             inbox'[i].state = "live" => inbox[i].state = "live", inbox'[i].state = "live"
      PROVE  i \in Booked
  <2>1. CASE s = r  BY <1>1, <2>1 DEF Promises, Booked, Live
  <2>2. CASE s # r
    <3>1. Renewing(s, i)  BY <1>1, <2>2 DEF Promises, Renewing
    <3> QED  BY <1>1, <3>1 DEF Booked, Live
  <2> QED  BY <2>1, <2>2
<1>2. ASSUME NEW i \in Inboxes, inbox'[i].state = "live" => inbox[i].state = "live",
             inbox[i].past /\ ~inbox'[i].past => Renewing(r, i), i \in Booked'
      PROVE  i \in Booked
  <2>1. inbox'[i].state = "live" /\ inbox[i].state = "live"  BY <1>2 DEF Booked, Live
  <2>2. CASE ~inbox'[i].past  BY <1>2, <2>1, <2>2 DEF Booked, Live
  <2>3. CASE \E s \in Requests : Renewing(s, i)'  BY <1>1, <2>1, <2>3
  <2> QED  BY <1>2, <2>2, <2>3 DEF Booked
<1>3. \A i \in Booked' : i \in Inboxes  BY DEF Booked, Live
<1>4. CASE inbox' = inbox  BY <1>2, <1>3, <1>4
<1>5. CASE /\ \A i \in Inboxes : inbox'[i].state = "live" => inbox[i].state = "live"
           /\ \A i \in Inboxes : inbox[i].past /\ ~inbox'[i].past => Renewing(r, i)
    BY <1>2, <1>3, <1>5
<1>6. ASSUME NEW i \in Inboxes, \A j \in Inboxes \ {i} : inbox'[j] = inbox[j]
      PROVE  Booked' \subseteq Booked \cup {i}
    BY <1>2, <1>3, <1>6
<1> QED  BY <1>4, <1>5, <1>6, InboxWrites

LEMMA RequestStepKeepsRoom ==
    ASSUME AInv, QInv, NEW r \in Requests, RequestStep(r)
    PROVE  QInv'
<1>1. Promises(r)  BY StepPromises
<1>2. \A s \in Requests \ {r} : req'[s] = req[s]  BY <1>1 DEF Promises
(* Who may create a key or an inbox for a user holds the user's lock.      *)
<1>3. ASSUME NEW s \in Requests, CreatingKey(s)
      PROVE  req[s].actor \in Users /\ lock[req[s].actor] = s
  <2>1. req[s].actor \in Users  BY <1>3 DEF AInv, AboutRows, CreatingKey, Active
  <2>2. req[s].actor \in Needs(s)  BY <1>3, <2>1, NamesAssumption DEF CreatingKey, Needs
  <2> QED  BY <1>3, <2>1, <2>2, CopiesAreTrue DEF CreatingKey
<1>4. ASSUME NEW s \in Requests, Counted(s), req[s].actor # NoUser
      PROVE  req[s].actor \in Users /\ lock[req[s].actor] = s
  <2>1. req[s].actor \in Users  BY <1>4 DEF AInv, TypeOK, Request
  <2>2. req[s].actor \in Needs(s)  BY <1>4, <2>1 DEF Counted, Needs
  <2>3. req[s].pc \in {"row", "ready"}  BY <1>4 DEF QInv, RoomIsLeft
  <2> QED  BY <2>1, <2>2, <2>3, CopiesAreTrue
<1>5. ASSUME NEW s \in Requests, Creating(s) PROVE lock[Server] = s /\ Counted(s)
    BY <1>5 DEF AInv, Assured, Creating, QInv, RoomIsLeft
<1>6. \A u : IsFiniteSet(KeysOf(u)) /\ IsFiniteSet(InboxesOf(u))  BY CountsAreFinite
<1>7. IsFiniteSet(Booked) /\ IsFiniteSet(Used)  BY CountsAreFinite
<1>8. ASSUME NEW s \in Requests, CreatingKey(s)'
      PROVE  Cardinality(KeysOf(req[s].actor)') < KeyLimit
  <2>1. CASE s = r
    <3>1. /\ req'[r].actor = req[r].actor /\ key' = key
          /\ Cardinality(KeysOf(req[r].actor)) < KeyLimit
        BY <1>1, <1>8, <2>1 DEF Promises
    <3>2. KeysOf(req[r].actor)' = KeysOf(req[r].actor)  BY <3>1 DEF KeysOf
    <3> QED  BY <2>1, <3>1, <3>2
  <2>2. CASE s # r
    <3>1. req'[s] = req[s] /\ CreatingKey(s)  BY <1>2, <1>8, <2>2 DEF CreatingKey
    <3>2. PICK u \in Users : u = req[s].actor  BY <1>3, <3>1
    <3>3. KeysOf(req[s].actor)' = KeysOf(u)'  BY <3>1, <3>2 DEF KeysOf
    <3>4. KeysOf(u)' \subseteq KeysOf(u)  BY <1>3, <2>2, <3>1, <3>2, KeysGrow
    <3>5. /\ Cardinality(KeysOf(u)') \in Nat /\ Cardinality(KeysOf(u)) \in Nat
          /\ Cardinality(KeysOf(u)') <= Cardinality(KeysOf(u))
        BY <1>6, <3>4, NoMoreElements
    <3>6. Cardinality(KeysOf(u)) < KeyLimit  BY <3>1, <3>2 DEF QInv, RoomIsLeft
    <3> QED  BY <3>3, <3>5, <3>6, LimitsAssumption
  <2> QED  BY <2>1, <2>2
<1>9. ASSUME NEW s \in Requests, Counted(s)'
      PROVE  /\ req'[s].pc \in {"row", "ready"}
             /\ req'[s].actor # NoUser => Cardinality(InboxesOf(req[s].actor)') < InboxLimit
  <2>1. CASE s = r
    <3>1. /\ req'[r].pc \in {"row", "ready"} /\ req'[r].actor = req[r].actor /\ inbox' = inbox
          /\ req[r].actor # NoUser => Cardinality(InboxesOf(req[r].actor)) < InboxLimit
        BY <1>1, <1>9, <2>1 DEF Promises
    <3>2. InboxesOf(req[r].actor)' = InboxesOf(req[r].actor)  BY <3>1 DEF InboxesOf
    <3> QED  BY <2>1, <3>1, <3>2
  <2>2. CASE s # r
    <3>1. req'[s] = req[s] /\ Counted(s)  BY <1>2, <1>9, <2>2 DEF Counted
    <3>2. RoomIsLeft(s)  BY DEF QInv
    <3>3. ASSUME req[s].actor # NoUser PROVE Cardinality(InboxesOf(req[s].actor)') < InboxLimit
      <4>1. PICK u \in Users : u = req[s].actor  BY <1>4, <3>1, <3>3
      <4>2. InboxesOf(req[s].actor)' = InboxesOf(u)'  BY <3>1, <4>1 DEF InboxesOf
      <4>3. lock[u] = s  BY <1>4, <3>1, <3>3, <4>1
      <4>4. ~ (Creating(r) /\ req[r].actor = u)
          BY <1>4, <1>5, <2>2, <4>1, <4>3, NamesAssumption
      <4>5. InboxesOf(u)' \subseteq InboxesOf(u)  BY <4>4, InboxesGrow
      <4>6. /\ Cardinality(InboxesOf(u)') \in Nat /\ Cardinality(InboxesOf(u)) \in Nat
            /\ Cardinality(InboxesOf(u)') <= Cardinality(InboxesOf(u))
          BY <1>6, <4>5, NoMoreElements
      <4>7. Cardinality(InboxesOf(u)) < InboxLimit  BY <3>1, <3>2, <3>3, <4>1 DEF RoomIsLeft
      <4> QED  BY <4>2, <4>6, <4>7, LimitsAssumption
    <3> QED  BY <3>1, <3>2, <3>3 DEF RoomIsLeft
  <2> QED  BY <2>1, <2>2
<1>10. ASSUME NEW s \in Requests, Creating(s)'
       PROVE  Counted(s)' /\ (\A i \in Live' : lock'[i] = s) /\ Cardinality(Booked') < Capacity
  <2>1. CASE s = r
    <3>1. /\ Counted(r)' /\ inbox' = inbox /\ Cardinality(Used) < Capacity
          /\ \A i \in Live : lock'[i] = r /\ lock[i] \in {Nobody, r}
        BY <1>1, <1>10, <2>1 DEF Promises
    <3>2. Live' = Live  BY <3>1 DEF Live
    <3>3. ASSUME NEW i \in Live, NEW t \in Requests, Renewing(t, i)' PROVE FALSE
      <4>1. CASE t = r  BY <1>10, <2>1, <3>3, <4>1 DEF Creating, Renewing
      <4>2. CASE t # r
        <5>1. Renewing(t, i)  BY <1>2, <3>3, <4>2 DEF Renewing
        <5>2. lock[i] = t  BY <5>1, OwnInboxLocked DEF Renewing
        <5> QED  BY <3>1, <4>2, <5>2, NamesAssumption
      <4> QED  BY <4>1, <4>2
    <3>4. Booked' \subseteq Used  BY <3>1, <3>2, <3>3 DEF Booked, Used, Live
    <3>5. /\ Cardinality(Booked') \in Nat /\ Cardinality(Used) \in Nat
          /\ Cardinality(Booked') <= Cardinality(Used)
        BY <1>7, <3>4, NoMoreElements
    <3> QED  BY <2>1, <3>1, <3>2, <3>5, LimitsAssumption
  <2>2. CASE s # r
    <3>1. req'[s] = req[s] /\ Creating(s)  BY <1>2, <1>10, <2>2 DEF Creating
    <3>2. ~Creating(r)  BY <1>5, <2>2, <3>1
    <3>3. Live' \subseteq Live /\ Booked' \subseteq Booked
        BY <1>1, <3>2, InboxesGrow, BookedGrows
    <3>4. Counted(s) /\ (\A i \in Live : lock[i] = s) /\ Cardinality(Booked) < Capacity
        BY <3>1 DEF QInv, RoomIsLeft
    <3>5. \A i \in Live' : lock'[i] = s
      <4>1. Live \subseteq Rows  BY DEF Live, Rows
      <4> QED  BY <2>2, <3>3, <3>4, <4>1, OthersKeepLocks
    <3>6. /\ Cardinality(Booked') \in Nat /\ Cardinality(Booked) \in Nat
          /\ Cardinality(Booked') <= Cardinality(Booked)
        BY <1>7, <3>3, NoMoreElements
    <3>7. Counted(s)'  BY <3>1, <3>4 DEF Counted
    <3> QED  BY <3>4, <3>5, <3>6, <3>7, LimitsAssumption
  <2> QED  BY <2>1, <2>2
<1>11. ASSUME NEW s \in Requests PROVE RoomIsLeft(s)'
  <2>1. CreatingKey(s)' => Cardinality(KeysOf(req[s].actor)') < KeyLimit  BY <1>8
  <2>2. Counted(s)' =>
          /\ req'[s].pc \in {"row", "ready"}
          /\ req'[s].actor # NoUser => Cardinality(InboxesOf(req[s].actor)') < InboxLimit
      BY <1>9
  <2>3. Creating(s)' => Counted(s)' /\ (\A i \in Live' : lock'[i] = s) /\ Cardinality(Booked') < Capacity
      BY <1>10
  <2> QED  BY <2>1, <2>2, <2>3 DEF RoomIsLeft
<1>12. QuotasHold'
  <2> SUFFICES ASSUME NEW u \in Users
               PROVE  /\ Cardinality(KeysOf(u)') <= KeyLimit
                      /\ Cardinality(InboxesOf(u)') <= InboxLimit
      BY DEF QuotasHold
  <2>1. Cardinality(KeysOf(u)) <= KeyLimit /\ Cardinality(InboxesOf(u)) <= InboxLimit
      BY DEF QInv, QuotasHold
  <2>2. ASSUME KeysOf(u)' \subseteq KeysOf(u) PROVE Cardinality(KeysOf(u)') <= KeyLimit
    <3>1. /\ Cardinality(KeysOf(u)') \in Nat /\ Cardinality(KeysOf(u)) \in Nat
          /\ Cardinality(KeysOf(u)') <= Cardinality(KeysOf(u))
        BY <1>6, <2>2, NoMoreElements
    <3> QED  BY <2>1, <3>1, LimitsAssumption
  <2>3. ASSUME CreatingKey(r), req[r].actor = u, NEW k, KeysOf(u)' \subseteq KeysOf(u) \cup {k}
        PROVE  Cardinality(KeysOf(u)') <= KeyLimit
    <3>1. /\ Cardinality(KeysOf(u)') \in Nat /\ Cardinality(KeysOf(u)) \in Nat
          /\ Cardinality(KeysOf(u)') <= Cardinality(KeysOf(u)) + 1
        BY <1>6, <2>3, OneMoreElement
    <3>2. Cardinality(KeysOf(u)) < KeyLimit  BY <2>3 DEF QInv, RoomIsLeft
    <3> QED  BY <3>1, <3>2, LimitsAssumption
  <2>4. Cardinality(KeysOf(u)') <= KeyLimit  BY <2>2, <2>3, KeysGrow
  <2>5. ASSUME InboxesOf(u)' \subseteq InboxesOf(u) PROVE Cardinality(InboxesOf(u)') <= InboxLimit
    <3>1. /\ Cardinality(InboxesOf(u)') \in Nat /\ Cardinality(InboxesOf(u)) \in Nat
          /\ Cardinality(InboxesOf(u)') <= Cardinality(InboxesOf(u))
        BY <1>6, <2>5, NoMoreElements
    <3> QED  BY <2>1, <3>1, LimitsAssumption
  <2>6. ASSUME Creating(r), req[r].actor = u, NEW i, InboxesOf(u)' \subseteq InboxesOf(u) \cup {i}
        PROVE  Cardinality(InboxesOf(u)') <= InboxLimit
    <3>1. /\ Cardinality(InboxesOf(u)') \in Nat /\ Cardinality(InboxesOf(u)) \in Nat
          /\ Cardinality(InboxesOf(u)') <= Cardinality(InboxesOf(u)) + 1
        BY <1>6, <2>6, OneMoreElement
    <3>2. Cardinality(InboxesOf(u)) < InboxLimit
        BY <1>5, <2>6, NamesAssumption DEF QInv, RoomIsLeft
    <3> QED  BY <3>1, <3>2, LimitsAssumption
  <2> QED  BY <2>4, <2>5, <2>6, InboxesGrow
<1>13. Cardinality(Booked') <= Capacity
  <2>1. CASE Booked' \subseteq Booked
    <3>1. /\ Cardinality(Booked') \in Nat /\ Cardinality(Booked) \in Nat
          /\ Cardinality(Booked') <= Cardinality(Booked)
        BY <1>7, <2>1, NoMoreElements
    <3> QED  BY <3>1, LimitsAssumption DEF QInv
  <2>2. ASSUME Creating(r), NEW i, Booked' \subseteq Booked \cup {i}
        PROVE  Cardinality(Booked') <= Capacity
    <3>1. /\ Cardinality(Booked') \in Nat /\ Cardinality(Booked) \in Nat
          /\ Cardinality(Booked') <= Cardinality(Booked) + 1
        BY <1>7, <2>2, OneMoreElement
    <3>2. Cardinality(Booked) < Capacity  BY <2>2 DEF QInv, RoomIsLeft
    <3> QED  BY <3>1, <3>2, LimitsAssumption
  <2> QED  BY <1>1, <2>1, <2>2, BookedGrows
<1> QED  BY <1>11, <1>12, <1>13 DEF QInv

LEMMA InitHasRoom ==
    ASSUME Init
    PROVE  QInv
<1>1. \A u : KeysOf(u) = {} /\ InboxesOf(u) = {}  BY DEF Init, NoKey, NoInbox, KeysOf, InboxesOf
<1>2. Booked = {}  BY DEF Init, NoInbox, Booked, Live
<1>3. Cardinality({}) = 0  BY FS_EmptySet
<1>4. \A r \in Requests : req[r].op = "none"  BY DEF Init, NewRequest
<1>5. \A r \in Requests : RoomIsLeft(r)  BY <1>4 DEF RoomIsLeft, CreatingKey, Counted, Creating
<1> QED  BY <1>1, <1>2, <1>3, <1>5, LimitsAssumption DEF QInv, QuotasHold

LEMMA NextKeepsRoom ==
    ASSUME AInv, QInv, [Next]_vars
    PROVE  QInv'
<1>1. ASSUME NEW r \in Requests, RequestStep(r) PROVE QInv'  BY <1>1, RequestStepKeepsRoom
<1>2. ASSUME NEW k \in Keys, DeleteKey(k) PROVE QInv'
  <2>1. \A j \in Keys : key'[j].owner = key[j].owner /\ key'[j].state \in {key[j].state, "deleted"}
      BY <1>2 DEF AInv, TypeOK, DeleteKey, Key
  <2>2. UNCHANGED <<user, inbox, lock, req>>  BY <1>2 DEF DeleteKey
  <2>3. \A u \in Users : KeysOf(u)' \subseteq KeysOf(u) /\ InboxesOf(u)' \subseteq InboxesOf(u)
      BY <2>1, <2>2 DEF KeysOf, InboxesOf
  <2>4. Live' \subseteq Live /\ Booked' \subseteq Booked  BY <2>2 DEF Live, Booked, Renewing
  <2> QED  BY <2>2, <2>3, <2>4, NothingGrows
<1>3. ASSUME NEW i \in Inboxes, TimePasses(i) PROVE QInv'
  <2>1. \A j \in Inboxes : /\ inbox'[j].owner = inbox[j].owner /\ inbox'[j].state = inbox[j].state
                           /\ inbox[j].past => inbox'[j].past
      BY <1>3 DEF AInv, TypeOK, TimePasses, Inbox
  <2>2. UNCHANGED <<user, key, lock, req>>  BY <1>3 DEF TimePasses
  <2>3. \A u \in Users : KeysOf(u)' \subseteq KeysOf(u) /\ InboxesOf(u)' \subseteq InboxesOf(u)
      BY <2>1, <2>2 DEF KeysOf, InboxesOf
  <2>4. Live' \subseteq Live /\ Booked' \subseteq Booked  BY <2>1, <2>2 DEF Live, Booked, Renewing
  <2> QED  BY <2>2, <2>3, <2>4, NothingGrows
<1>4. CASE UNCHANGED vars
  <2>1. UNCHANGED <<user, key, inbox, lock, req>>  BY <1>4 DEF vars
  <2>2. \A u \in Users : KeysOf(u)' \subseteq KeysOf(u) /\ InboxesOf(u)' \subseteq InboxesOf(u)
      BY <2>1 DEF KeysOf, InboxesOf
  <2>3. Live' \subseteq Live /\ Booked' \subseteq Booked  BY <2>1 DEF Live, Booked, Renewing
  <2> QED  BY <2>1, <2>2, <2>3, NothingGrows
<1> QED  BY <1>1, <1>2, <1>3, <1>4 DEF Next, RequestStep

LEMMA RoomInvariant == Spec => [](AInv /\ QInv)
<1>1. Init => AInv /\ QInv  BY InitAccounts, InitHasRoom
<1>2. AInv /\ QInv /\ [Next]_vars => AInv' /\ QInv'  BY NextKeepsAccounts, NextKeepsRoom
<1> QED  BY <1>1, <1>2, PTL DEF Spec

(* The count and the insert of CreateApiKeyAction and CreateInboxAction    *)
(* are made under the lock of the owner: no plan is exceeded.              *)
THEOREM QuotasAreKept == Spec => []QuotasHold
<1>1. AInv /\ QInv => QuotasHold  BY DEF QInv
<1> QED  BY <1>1, RoomInvariant, PTL

(* selectAvailableForPoolsForUpdate locks the server and its inboxes:      *)
(* neither creations nor renewals overfill it.                             *)
THEOREM CapacityIsKept == Spec => []CapacityHolds
<1>1. ASSUME QInv PROVE CapacityHolds
  <2>1. Used \subseteq Booked  BY DEF Used, Booked, Live
  <2>2. /\ Cardinality(Used) \in Nat /\ Cardinality(Booked) \in Nat
        /\ Cardinality(Used) <= Cardinality(Booked)
      BY <2>1, CountsAreFinite, NoMoreElements
  <2> QED  BY <1>1, <2>2, LimitsAssumption DEF QInv, CapacityHolds
<1>2. AInv /\ QInv => CapacityHolds  BY <1>1
<1> QED  BY <1>2, RoomInvariant, PTL

=============================================================================
