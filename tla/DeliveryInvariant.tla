------------------------- MODULE DeliveryInvariant -------------------------
(***************************************************************************)
(* The inductive invariants behind delivery's safety properties: what a    *)
(* worker may rely on between its claim and its outcome, what it still     *)
(* knows while it settles, how a message's row is tied to what the         *)
(* transport reported, and what keeps a queued message in hand.  Each is stated *)
(* with the assumption on Faults under which it holds.                     *)
(***************************************************************************)
EXTENDS DeliveryProperties

(* The deployment's timeouts hold and no provider retry dies half way.     *)
WithinTimeouts == "slow_worker" \notin Faults /\ "admin_crash" \notin Faults

(* A busy worker has a job and a message; a job on the queue has a message.*)
Linked ==
    /\ \A w \in Workers : worker[w].pc # "idle" =>
         worker[w].msg \in Messages /\ worker[w].job \in Jobs
    /\ \A j \in Jobs : jobs[j].status # "absent" => jobs[j].msg \in Messages

(* From the claim to the outcome the row is the worker's: still sending,   *)
(* on its attempt, stamped exactly when the worker stamped it.             *)
ClaimHolds(w) ==
    LET m == worker[w].msg
        k == worker[w].attempt
    IN worker[w].pc \in Claimed =>
         /\ msg[m].state = "sending"
         /\ msg[m].attempt = k
         /\ msg[m].flag # "ambiguous"
         /\ msg[m].transportAt <=> worker[w].pc \in {"submitting", "answered", "exhausted"}

(* The worker's place and result agree with what the transport told it.    *)
PlaceMatchesReply(w) ==
    LET m == worker[w].msg
        k == worker[w].attempt
    IN /\ worker[w].pc \in Claimed => k \in AttemptNumbers
       /\ worker[w].pc \in {"claimed", "started", "submitting"} => reply[m][k] = "none"
       /\ worker[w].pc = "answered" =>
            /\ worker[w].result # "none"
            /\ reply[m][k] \in AnswersFor(worker[w].result)
       /\ worker[w].pc \in {"exhausted", "requeued"} => reply[m][k] \in ReportedFailed
       /\ worker[w].pc \in {"requeued", "sent", "charged"} => k \in AttemptNumbers
       /\ worker[w].pc \in {"sent", "charged"} => reply[m][k] \in {"accepted", "bounced"}

OneClaimPerMessage ==
    \A v, w \in Workers :
      worker[v].pc \in Claimed /\ worker[w].pc \in Claimed
        /\ worker[v].msg = worker[w].msg => v = w

(* The row of m and what was reported of its attempts.                     *)
RowMatchesReply(m) ==
    LET row == msg[m] IN
    /\ row.state \in {"sending", "sent", "delivered"} => row.attempt \in AttemptNumbers
    /\ row.state \in {"sent", "delivered"} => reply[m][row.attempt] = "accepted"
    /\ row.state = "sending" /\ ~row.transportAt => reply[m][row.attempt] = "none"
    /\ row.flag = "ambiguous" => row.state = "sending" /\ row.transportAt
    /\ \A k \in AttemptNumbers :
         /\ k > row.attempt => reply[m][k] = "none"
         /\ reply[m][k] = "accepted" =>
              /\ k = row.attempt
              /\ \/ row.state \in {"sent", "delivered"}
                 \/ row.state = "sending" /\ row.transportAt

(* The inductive invariant.  RowsAreTrue and ChargedOnlyIfAccepted are     *)
(* inductive together with the rest.                                       *)
IInv ==
    /\ TypeOK
    /\ Linked
    /\ \A w \in Workers : ClaimHolds(w)
    /\ \A w \in Workers : PlaceMatchesReply(w)
    /\ OneClaimPerMessage
    /\ \A m \in Messages : RowMatchesReply(m)
    /\ RowsAreTrue
    /\ ChargedOnlyIfAccepted

-----------------------------------------------------------------------------
(* The part of it that speaks of no answer; it survives a provider retry   *)
(* that dies, as long as workers die within the timeouts.                  *)
PromptWorkers == "slow_worker" \notin Faults

FlagIsStamped(m) ==
    msg[m].flag = "ambiguous" => msg[m].state = "sending" /\ msg[m].transportAt

(* Inductive together with TypeOK and Linked.                              *)
ClaimsHold ==
    /\ \A w \in Workers : ClaimHolds(w)
    /\ OneClaimPerMessage
    /\ \A m \in Messages : FlagIsStamped(m)

-----------------------------------------------------------------------------
(* What keeps a queued message in hand, when nothing but workers past      *)
(* their claim and provider retries die: handler errors, stops, crashes    *)
(* before the claim and stray locks each spend a job's tries, or its lock, *)
(* without moving the message.                                             *)
OnlyClaimedDie == Faults \subseteq {"claimed_crash", "admin_crash"}

(* A busy worker's job is its own, reserved, and as it was popped.         *)
HoldsJob(w) ==
    LET j == worker[w].job IN
    worker[w].pc # "idle" =>
      /\ jobs[j].status = "reserved"
      /\ jobs[j].msg = worker[w].msg
      /\ jobs[j].tries = worker[w].tries
      /\ \A v \in Workers : worker[v].pc # "idle" /\ worker[v].job = j => v = w

(* One job per message, and the lock is held exactly while it exists.      *)
LockIsJob ==
    /\ \A i, j \in Jobs :
         jobs[i].status # "absent" /\ jobs[j].status # "absent" /\ jobs[i].msg = jobs[j].msg
           => i = j
    /\ \A m \in Messages : m \in uniqueLock <=> \E j \in Jobs : OnQueue(j, m)

(* A worker that neither is about to claim nor has just requeued.          *)
Spent(w) == worker[w].pc \notin {"idle", "popped", "cleared", "requeued", "threw"}

SpentIsNotQueued(w) == Spent(w) => msg[worker[w].msg].state # "queued"

(* Every try of a job that claimed was an attempt of its message.          *)
TriesAreAttempts(w) ==
    worker[w].pc \in Claimed =>
      worker[w].tries <= worker[w].attempt /\ worker[w].attempt <= msg[worker[w].msg].attempt

Triable(j) ==
    LET row == msg[jobs[j].msg] IN
    \/ jobs[j].tries < MaxAttempts /\ jobs[j].tries <= row.attempt
    \/ \E w \in Workers : /\ worker[w].job = j /\ AboutToClaim(w)
                          /\ jobs[j].tries <= row.attempt + 1

QueuedIsTriable ==
    \A m \in Messages : msg[m].state = "queued" =>
      /\ \A j \in Jobs : OnQueue(j, m) => Triable(j)
      /\ m \notin uniqueLock => \E s \in Sources : <<m, s>> \in pending

DraftsAreNew ==
    \A m \in Messages : msg[m].state = "draft" =>
      m \notin uniqueLock /\ \A s \in Sources : <<m, s>> \notin pending

(* Inductive together with TypeOK and Linked.                              *)
HandInv ==
    /\ ~stopped
    /\ \A w \in Workers : HoldsJob(w) /\ SpentIsNotQueued(w) /\ TriesAreAttempts(w)
    /\ LockIsJob
    /\ QueuedIsTriable
    /\ DraftsAreNew

=============================================================================
