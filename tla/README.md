# TampEmail: specification and proofs

TampEmail is a Laravel application for temporary mailboxes. It takes inbound
mail from a provider's webhook, shows it in inboxes that expire, and lets users
send, reply, forward and schedule outbound mail through a mail provider,
metered by subscription plans. This directory holds TLA+ modules for the parts
whose correctness depends on the order of events, TLC configurations that
model-check them, and proofs that TLAPS checks for every size of the system.

## Inventory

| Part | State it keeps | Operations | What makes it hard |
|---|---|---|---|
| Delivery job (`app/Jobs/DeliverOutboundMessageJob.php`, attempt recorder) | `outbound_messages` row, `outbound_delivery_attempts`, the queue's job and its unique lock | claim, start attempt, refuse, stamp, send, mark sent / requeue / mark failed, throw for retry | several commits per delivery, a crash between any two; redelivery after `retry_after`; tries; the unique lock |
| User and admin actions (`app/Actions/Outbound`) | the same row | submit, cancel, retry, retry through another provider, delete | race with a running handler; dispatch after commit |
| Reconcilers (`OutboundStaleSendingReconciliationService`, `OutboundEventReconciliationService`, `OutboundUsageReconciliationService`) | the same rows, `reconciliation_flagged_at` | requeue, fail, flag ambiguous, backfill rows, flag conflicts, repair charges | act on what a dead (or merely slow) worker left |
| Usage accounting (`OutboundUsageService`) | `outbound_usage_reservations`, `subscription_usage` | reserve, commit, release, expire, correct | several dimensions and periods; locks; commit and release from different actors |
| Scheduling (`Schedule…`, `Reschedule…`, `Unschedule…`, `SendScheduledMessageNow…`, `DispatchDueOutboundMessages…`) | `scheduled_*`, `schedule_version`, claim token | schedule, reschedule, unschedule, send now, dispatch due | optimistic versions held by clients while a dispatcher pass works off a list it read earlier |
| Provider events (`OutboundWebhookController`, `ProcessOutboundProviderEventJob`, `OutboundProviderEventProcessor`) | `outbound_provider_events`, replay cache, suppressions | receive, ingest, reconcile unmatched and out-of-order, finalize | duplicated, reordered and lost events |
| Launch control, canary, readiness, rate limiting, abuse | cache overrides, canary rows | emergency stop, rollout, limits | stop while jobs are queued |
| Sender profiles, domain authentication, suppressions, drafts | their own rows | CRUD with versions | mostly data validation |
| Notifications (`OutboundNotificationService`) | `outbound_notifications` | notify with a dedupe key | at most one per key |
| Retention and pruning (`OutboundPruneService`, retention holds, inbound holds, audit-log holds) | hold columns, deleted rows | prune, hold, release | a hold placed while a prune runs |
| Inbound pipeline (`IngestInboundEmailAction`, `ProcessInboundMessageJob`, `ReplayInboundFailureAction`) | `emails`, `inbound_failures` | receive, ingest, fail, replay | duplicate webhooks, replay of what succeeded |
| Attachment scanning (`ScanInboundAttachmentJob`, `AttachmentScanService`) | `attachments.scan_status` | scan, retry, rescan, quarantine | a worker that dies while `scanning` |
| Inboxes (`Create/Renew/DeleteInboxAction`, `ExpireInboxesService`) | `inboxes` | create within quota, renew, expire, delete | quota check, expiry against renewal |
| API keys (`app/Actions/ApiKey`) | `api_keys` | create within limit, revoke, authenticate | limit check under concurrency |
| Users and platform roles (`ChangeUserStatusAction`, `ChangePlatformRoleAction`) | `users` | change status or role | the last administrator |
| Plans, features, subscriptions, domains, mail servers, emails, audit log | their own rows | CRUD through repositories | none beyond unique keys |
| Ops (heartbeats, readiness, backup checks), Filament admin, HTTP resources and requests, DTOs | none of their own | reports and forms | none |

How they interact: requests and the scheduler commit rows in a transaction and
dispatch a job after it; the job runs in a queue worker that may die anywhere;
the reconcilers, run by the scheduler, read the rows and repair them; provider
events arrive by webhook at any time and move rows that were handed over;
usage is reserved with the message and settled by whoever ends its delivery.

## Modules

| Module | What it is |
|---|---|
| `OutboundDelivery` | The delivery state machine: requests, queue, `handle()`, admin retry, reconcilers, provider outcomes, reservation and emergency stop. |
| `ProviderConversation` | The abstract contract, from the caller's side: a message is offered to the provider, an answer is reported, and recorded; it is never offered while an offer is unanswered or was reported accepted. |
| `DeliveryProperties` | The properties of delivery, the refinement mapping to `ProviderConversation`, and what the documentation says. |
| `DeliveryInvariant` | The inductive invariants `IInv`, `ClaimsHold` and `HandInv` and their parts, with the assumption on `Faults` that each needs. |
| `OutboundDelivery_proofs` | Type correctness, the lifecycle and the attempts' history, proved. |
| `DeliverySafety_proofs` | The three invariants proved inductive, the safety theorems that follow, and the refinement of `ProviderConversation`. |
| `ProviderEvents` | Reports of the provider: webhook, event job, matching, transitions, reconcilers. |
| `EventProperties`, `EventInvariant` | What events may do and must do; the inductive invariants `EInv`, `ReportInv` and `ReportsAreCarried`. |
| `EventSafety_proofs` | The three proved inductive, and the safety theorems that follow. |
| `OutboundSchedule` | Drafts and scheduled sending: requests with the version a client read, and the dispatcher. |
| `ScheduleProperties` | What scheduling may never do and must get done. |
| `ScheduleSafety_proofs` | Its inductive invariant `SInv`, proved, and the theorems that follow. |
| `OutboundUsage` | Usage accounting of one subscription: the transaction that reserves, commit, release, expiry, repair, corrections, periods and plan changes. |
| `UsageProperties` | Counters, limits and settlement; what the documentation says of two requests. |
| `UsageSafety_proofs` | The inductive invariant `UInv`, and `BInv` on top of it for limits, proved. |
| `AttachmentScan` | An inbound attachment from its webhook deliveries to its verdict: storing, scan jobs, workers, rescans, deletion. |
| `ScanProperties`, `ScanSafety_proofs` | What the quarantine promises; its inductive invariant `ScanInv`, proved. |
| `OutboundRetention` | The prune command's passes against holds, owners and delivery. |
| `RetentionProperties`, `RetentionSafety_proofs` | What the policy promises; its inductive invariant `RInv`, proved. |
| `Accounts` | Roles, statuses, API keys and inboxes: concurrent requests that serialize on row locks. |
| `AccountProperties`, `AccountSafety_proofs` | What they never bring about; the inductive invariant `AInv`, and `QInv` on top of it for quotas and capacity, proved. |
| `MCOutboundDelivery`, `MCProviderEvents`, `MCOutboundUsage`, `MCAccounts` | Symmetry, and constants a .cfg cannot write, for TLC. `schedule`, `scan` and `retention` run the properties modules directly. |

### How `OutboundDelivery` corresponds to the code

Each statement or transaction that commits on its own is one action, so a
crash, another worker, a user or a reconciler can come between any two.

| Code | Actions |
|---|---|
| `OutboundDraftService::submit` (and the create actions) | `Submit`, then `Dispatch` after the commit, or `RequestDies` |
| `CancelOutboundMessageAction`, `RetryOutboundMessageAction` | `Cancel`, `Retry` |
| `RetryOutboundMessageWithProviderAction` | `ProviderRetryCheck` (the policy, outside the transaction), then `ProviderRetry`, `ProviderRetryRefused` or `ProviderRetryDies` |
| `DeliverOutboundMessageJob::handle` | `StopCheck`, `Claim` or `NothingToClaim`, `StartAttempt`, `RefuseBeforeTransport`, `StampTransport`, `Send`, then `MarkSent`, `CommitUsage`, `CompleteAccepted`, or `Requeue`, `CompleteTemporary`, or `Exhaust`, `MarkFailed`, or `MarkFailed`, `CompletePermanent`; `ReleaseUsage` follows a refusal |
| the queue | `Pop`, `FinishJob`, `JobThrew`, `Redeliver`, `LockExpires`, `WorkerDies`, `HandlerError` |
| `OutboundStaleSendingReconciliationService` | `FlagAmbiguous`, `FailExhausted`, `RequeueStale` (its dispatch is a `Dispatch` of source `reconciler`) |
| `OutboundEventReconciliationService` | `RepairAttempt`, `FlagImpossible` |
| `OutboundUsageReconciliationService`, `OutboundUsageService::expireReservations` | `RepairCommit`, `ExpiryScan` then `Expire` |
| `OutboundProviderEventProcessor` on the message | `ProviderDelivers`, `ProviderBounces` |
| `OutboundLaunchControlService::setEmergencyStop` | `EmergencyStop`, `EmergencyResume` |

`msg` keeps of an `outbound_messages` row its state, `attempt_count`, whether
`transport_attempted_at`, `sent_at`, `delivered_at` and `failed_at` are set, the
class of `failure_code` that the retry policies tell apart, and the
reconciliation flag with its note. `worker` is what a process remembers in
`handle()`. `reply` is not program state: it is what became of each attempt,
kept so that properties can compare the two. `accepted` is an acceptance the
transport reported. A reported failure is `refused` or `unheard`: the provider
took the message before the connection timed out or was reset, and
`OutboundTransportFailureMapper` calls that a temporary failure, or a permanent
one when it does not know the text. Only the codes the failover policy trusts
(`FailoverEligible`) exclude it. No code can tell the two apart, so the properties
of `delivery_safety` speak of what was reported, and `AtMostOneCopy`, which
speaks of what the provider holds, is the one that `find_resend` refutes.

Abstractions. Usage is one reservation per message here; `OutboundUsage`
has its dimensions, periods and limits. Provider outcomes arrive as if matched at once:
`ProviderEvents` models how they really arrive, and `OutboundSchedule` what
happens before a message is queued. Notifications, audit entries and rate limits
are left out.

`Faults` names what may go wrong in an instance. `slow_worker` is a worker that
outlives `retry_after` and the stale threshold: `OutboundWorkerConfigValidator`
refuses a deployment in which that can happen, so the safety properties assume
it away (`WithinTimeouts`) and `delivery_slow` shows what survives it.
`admin_crash` is a process that dies inside the provider retry's transaction
after `transport->send`; it breaks `AcceptedIsLast` (see Divergences).
`early_retry` and `backlog` are two timings that matter only to the unique lock:
a user who retries in the instant between `markFailed` and the job's end, and a
redelivered job that waits in the queue longer than the stale threshold.

### How `ProviderEvents` corresponds to the code

| Code | Actions |
|---|---|
| `OutboundWebhookController` | `Post` (up to the replay key), `DispatchEvent` or `DispatchFails`; `PostReplayed` when the key is taken; `ReplayKeyExpires` |
| `ProcessOutboundProviderEventJob`, `ingest` | `Ingest`, whose job may run again (`FinishEventJob`) |
| `resolveMessage` | `Matches`, `ResolveMessage` |
| `applyTransition`, `markDelivered`, `markFailed`, `recordComplaint` | `Transition` (the outcome) and `Apply` (its effects on message, recipients and event row) |
| `reconcileUnmatched`, `reconcileOutOfOrder` | `List` (the query), then `ReconcileUnmatched` or `ReconcileOutOfOrder` per event |
| `finalizeExpiredUnmatched` | `FinalizeExpiredUnmatched` |
| `OutboundSuppressionService::unsuppress` | `Unsuppress` |
| delivery, as far as events see it | `Claim`, `Accept`, `MarkSent`, `EndUntried`, `Refuse`, `Retry`, `Cancel` |
| the provider | `Emit`: any report on any attempt it accepted, at any time |

An event is matched by the pair of provider and `provider_message_id` (a
*ticket*). The id is the `Message-ID` header the application makes from the
message's key (`OutboundHeaderGuard::buildMessageId`), so all attempts of a
message, with whatever provider, have the same one, and the message stands for
it. An event about a second attempt may therefore find its message by what the
first one left on the row, while the second is still being sent: it is ignored
for the message's state and left to `reconcileOutOfOrder` (`ReportIsPending`). And
a provider that took the message without being heard reports under the id that
another provider's acceptance put on the row: `RightMessage` says that only
providers the row has named are listened to. `reconcileUnmatched` is run by two scheduled commands
with different locks, so `listed` records which pass read the event; each
command runs once at a time (`withoutOverlapping`, `Cache::lock`). `ticket`,
`said`, `carried`, `died` and `applied` are not program state: they are what the
providers know, which providers a row has named, which events a webhook request
died for, and which attempts an event moved.

Abstractions. Provider aliases and the brackets around an id are taken as
already resolved; an event without an id is an event that never matches and is
left out; the outcome `race_ignored` cannot occur because the message is locked
by `resolveMessage`; queries have no batch limit. `EndUntried` covers the ways an
attempt ends before the transport, `Refuse` every answer other than an acceptance,
of a provider that took the message included. An attempt whose outcome is ambiguous stays in
`sending`, as the code leaves it.

### How `OutboundSchedule` corresponds to the code

| Code | Actions |
|---|---|
| `OutboundDraftService` | `UpdateDraft`, `DeleteDraft`, `Submit` |
| `ScheduleOutboundDraftAction`, `RescheduleOutboundMessageAction`, `UnscheduleOutboundMessageAction`, `SendScheduledMessageNowAction`, `CancelOutboundMessageAction` | `Schedule`, `Reschedule`, `Unschedule`, `SendNow`, `Cancel` |
| `DispatchDueOutboundMessagesAction::execute` | `ListDue` (the query), then one of the next row per id |
| `dispatchOne` | `NotDueAnyMore`, `Dispatch`, `Defer`, `FailToDraft`, or `RollBack` followed by `ReleaseClaimSafely` |
| `OutboundDispatchScheduledCommand` | passes that overlap (its lock lasts 55 seconds) and die (`PassDies`) |
| clients and the world | `Read`, `TimeComes`, `DeferralEnds`, `BlockChanges` |

A request carries what its client last read (`view`), however long ago. A request
that the code refuses changes nothing and is no step. `block` is what the checks
of `prepareSendableContent`, the rate limiter and `reserve` would say of the
message now, sorted by what the dispatcher does about it; `BlockChanges` lets it
change at any time. `scheduled_claimed_at` is set and cleared inside one
transaction, so nobody else sees it and it is left out. A queued message leaves
this model: `OutboundDelivery` takes it from there.

Abstractions. Times are the two facts the code tests (`due`, `deferred`); a new
time is in the future when it is written, but may have come at the next step.
Passes have no batch limit. Scheduling is enabled (`outbound.schedule.enabled`),
and owners exist: a message whose user is gone would be listed by every pass and
skipped, but no code deletes users.

### How `OutboundUsage` corresponds to the code

| Code | Actions |
|---|---|
| `OutboundUsageService::reserve`, inside the transaction that queues the message | `Begin` (its first read), `CheckAllowance` (`checkAllowance`: take the lock of each current usage row, count, compare), then `Reserve` (the commit) or `RollBack` |
| `commit`, `release`, as the delivery job calls them | `Delivered` (the outcome is recorded), then `CommitCall` or `ReleaseCall` at any time later, or never |
| `CancelOutboundMessageAction`, `RetryOutboundMessageAction` | `Cancel`, `Retry` |
| `OutboundUsageReconciliationService::repairMissingCommittedUsage` | `RepairMissingCommittedUsage` |
| `expireReservations` | `ListAbandoned` (the query and the judgement on the message), then `Expire` |
| `correctUsage` | `CorrectUsage` |
| plan and clock | `ChangePlan`, `Tick` |

`reserve` is the one operation that is not a single step. A row is locked only
if it exists; two transactions that find none each create one, since
`subscription_usage` has no unique key over subscription, dimension and period.
A row is therefore named by the message whose transaction created it.
`RepeatableRead` says what a plain read inside a transaction sees. TRUE, the
value both runs use, is the configured database: MySQL (`.env.example:26`, no
isolation override in `config/database.php`), where plain reads see the snapshot
of the transaction's first one. `reserve` has read (`OutboundUsageService.php:84`)
before it locks the usage row (`:572`), so the reservations and the plan it counts
with are those `Begin` kept in `seen` and `plan`, while the row's own counter comes
from the locking read and is current (`Known`, `PlanOf`). A locking read of InnoDB
also waits for rows that an open transaction is inserting (`Awaited`). FALSE is
READ COMMITTED, as on PostgreSQL; `docs/OUTBOUND_USAGE_ACCOUNTING.md:193` names both
databases for production. The theorems hold for either value.

Abstractions. One subscription: others share nothing with it. The clock counts
periods, not seconds. A reservation's counters of attempts and retries and the
threshold notices are left out: nothing reads them back.

### How `AttachmentScan` corresponds to the code

| Code | Actions |
|---|---|
| `IngestInboundEmailAction` | `Store` (the file, inside the transaction; the disk may refuse it silently), `CommitDelivery` or `FailDelivery` (with its cleanup), `Duplicate`, then `DispatchScan` after the commit; `CrashDelivery` anywhere |
| `ScanInboundAttachmentJob` | `Pick`, `Scan` (load, and claim `pending`), `Rethrow`, `EndJob`, and its `failed` hook (`JobFailed`) |
| `AttachmentScanService` | `Claim`, `Answer` (`applyTerminal`), `ScheduleRetryOrExhaust` |
| `RescanFailedAttachmentAction` | `Rescan`, then `PushRescan` or `LosePush` |
| `PermanentlyDeleteQuarantinedAttachmentAction` | `PermanentlyDelete`, whose transaction may roll back after the file is gone |
| the queue and the operator | `Redeliver`, `LockExpires`, `Die`, `Configure` |

One attachment: attachments share only workers. `said` and `stranded` are not
program state. `stranded` records the losses no job of the code makes up for: a
process that died between its commit and its dispatch, a worker that died after
it had marked the row `scanning`, a file the disk refused, and a rescan that met
a held lock. `UndecidedIsInHand` and `ScanDecides` say that there are no others.

Abstractions. The scanner is its answers, which may come arbitrarily late.
Backoff times, events and audit entries are left out.

### How `OutboundRetention` corresponds to the code

| Code | Actions |
|---|---|
| `PruneOutboundCommand`, `OutboundPruneService::prune` | `StartPass`, one category after another (`NextCategory`), `EndPass`; `LockExpires`, `KillPass` |
| the category queries | `Candidates`, evaluated when a category begins |
| `pruneDrafts`, `redactContent`, `hardDeleteOne` | `PruneDraft`, `RedactOne`, `HardDeleteOne`: one message under its lock |
| `pruneDeliveryAttempts`, `pruneProviderEvents` | one statement each, without the message's lock |
| a category's `catch` | `Skip` |
| `CreateOutboundRetentionHoldAction`, `ReleaseOutboundRetentionHoldAction` | `SetHold`, `ReleaseHold`, `HoldEnds` |
| `OutboundEventReconciliationService::repairMissingDeliveryAttempts` | `RepairMissingAttempt` |
| owners, delivery, the provider | `EditDraft`, `DiscardDraft`, `Submit`, `BackToDraft`, `Retry`, `Cancel`, `Hide`; `ClaimMessage`, `StartAttempt`, `EndAttempt`; `Report` |

An age is young or old against its category's window, and `TimePasses` only
while no pass runs: windows are days, a pass takes minutes. `Spec` proves
nothing about a pass that runs for days. The repair of attempt rows is another
scheduled command: it writes a young row for every settled message that has none,
also for one whose row the prune command has just removed. The scheduler runs the
two one after the other, so the repair meets a running pass only when that pass
is still at work a quarter of an hour later: that counts against `FaultBound`,
between passes the repair is free.

Abstractions. Passes have no batch or scan limit (see Divergences). Notifications
and audit entries of the prune command are left out.

### How `Accounts` corresponds to the code

A request is a database transaction: it takes row locks and copies of the rows,
decides on the copies, and writes and unlocks when it commits. It may be rolled
back anywhere (`Abort`), which is also how the database ends a deadlock.

| Code | Actions |
|---|---|
| `ChangePlatformRoleAction`, `ChangeUserStatusAction` | `LockUser` for the sorted ids, then `ChangePlatformRole` or `ChangeUserStatus` with the keys they revoke |
| `CreateApiKeyAction` and the scope guard | `LockUser`, `CountKeys`, `CreateKey` |
| `UpdateApiKeyAction`, `RevokeApiKeyAction`, `DeleteApiKeyAction` | `LockKey`, then `UpdateKey` or `RevokeKey`; `DeleteKey` |
| `CreateInboxAction` | `LockUser`, `CountInboxes`, `SelectServer` (the repository's lock and count), `CreateInbox` |
| `RenewInboxAction`, `DeleteInboxAction` | `LockUser`, `LockInbox`, `RenewInbox`; `LockInbox`, `DeleteInbox` |
| `ExpireInboxesService` | `BeginAny` with `expire` (the listing), `LockInbox` (which asks again), `ExpireInbox` |

Abstractions. A key's scopes are the highest capability they need. Pending,
suspended and banned users are alike. One lock and one capacity stand for the
mail servers of the pool. `lockForUpdate()->count()` in
`EloquentMailServerRepository.php:119` is refused by PostgreSQL, so `SelectServer`
follows MySQL. A request is served once.

## Runs

| Run | Question | Answer |
|---|---|---|
| `delivery_safety` | With crashes of workers and requests anywhere, handler errors, expired locks, emergency stops, early retries and a backlog, and transports that report a failure after the provider took the message: is a message handed over again after an acceptance was reported, does a claim protect it, do state, attempt rows and charges agree with what was reported, is an ambiguous message ever resent, does delivery implement the provider conversation? | Holds. |
| `find_resend` | Can the provider come to hold two copies of a message, without any fault? | Yes; see Divergences. |
| `delivery_slow` | What survives a worker that outlives every timeout and a provider retry that dies half way? | Rows still move only along the lifecycle and terminal attempt rows stay as written. |
| `delivery_live` | With workers dying anywhere after the claim: is a queued message always in hand, does it get claimed and a sending one resolved? | Holds; the last two under the fairness below. |
| `events_safety` | With a message that two providers take in turn under one id, one of them unheard, and every failure: can an event settle it for a provider its row never named, or settle it twice? | Holds. |
| `events_live` | With two reports about one message's attempts, repeated, early and late, before and after a retry with the same id: does delivered need a report about the current attempt, does a report about the attempt a sent message is on stay in hand, and reach it? | Holds; the last within the reconciler's bounds. |
| `schedule` | With two clients, two overlapping passes, blocks that come and go and passes that die: is usage reserved exactly while queued, is anything sent on a stale listing or brought back, does a version name one schedule, is a due message handled? | Holds; versions only within one life of the draft. |
| `usage` | With two overlapping requests on the configured database, lost and repeated calls, retries, repairs, the expiry pass, corrections, plan changes and periods that end: do the counters add up, by how much can a row be booked past its limit, is a reservation settled twice? | They do; by what overlapping requests reserved and no more; no. |
| `find_usage_race` | Can two requests together reserve past the period's limit? | Yes; see Divergences. |
| `scan` | With a message delivered twice, two workers, a redelivered job, deaths anywhere, a rescan and a backend that comes and goes: is anything unscanned served, a verdict overwritten, a stored file lost, an attachment forgotten, and does it get a verdict? | Holds; forgotten, and without a verdict, only through the named losses. |
| `retention` | With two overlapping passes that die or pass messages over, holds that come and go, owners who retry, and the repair that writes attempt rows anew: is held content touched, is a message deleted on which a provider may still report, is a hidden one kept for ever? | No. A message that is queued again, or claimed, after it was listed is deleted; see Divergences. |
| `accounts` | With three concurrent requests of any kind on two users, two keys, two inboxes: can the last administrator go, a key exceed its owner, a limit be passed, users' locks be crossed, a renewed inbox expire? | Holds. |

Bounds. Messages do not interact in delivery except through workers, job slots
and the emergency stop, so one message with two workers and two job slots shows
every race about it: two jobs of one message at once, a redelivered job next to a
new one, a late worker next to its successor. `MaxAttempts = 2` gives an attempt
that may be retried and one that exhausts the budget; `AttemptBound` (2 or 3)
leaves room for manual retries. In `events_safety` two providers share the id of one
message, and three attempts let one of them take it unheard before or after the
other was recorded; messages do not interact, since ids are theirs; `events_live` has two events because an event is ignored for its state only after
another one has failed the message. `ReconcileLimit = 1` puts the cap where the
runs reach it. In `schedule`, messages do not interact, so there is one; two
clients and two passes are what a stale version and a stale listing need, and
`DecisionBound = 3` lets a message be scheduled, rescheduled and scheduled again
after it was a draft. In `usage`, two messages of one and two units against a limit
of two are what an overbooking needs, one dimension because dimensions only share
the transaction, and three instants make two changes of period. `scan` has two
deliveries (one loses the unique key), two workers (a late one next to one that
runs the redelivered or the rescanned job), one job slot, which a rescan takes over,
and two tries. In `retention` messages do not interact;
two passes overlap and `FaultBound = 2` lets both be disturbed. In `accounts` two
users are what a cycle of demotions or locks needs, every limit is 1 so that two
requests compete for the last place, and the third request is the one that
demotes, renews or deletes meanwhile. The proofs remove these bounds for the properties they cover.
Every run switches deadlock checking off: a system whose messages are all
delivered or cancelled has nothing left to do.

Fairness. `delivery_live` assumes that workers take the next step of a handler
they started and pop available jobs (`queue:work` under a supervisor), that the
queue redelivers a job after `retry_after`, that a commit is followed by its
dispatch when the process lives, and that the scheduler runs the stale reconciler
(`bootstrap/app.php`, every five minutes); in runs with an emergency stop, that
the operator lifts it. `events_live` assumes that the provider posts until it is
answered, that requests and jobs run, and that the scheduler keeps running the
reconcilers (every fifteen minutes). `schedule` assumes that the scheduler keeps
starting passes (every minute), that deferrals end, and, the one use of strong
fairness, that a pass is not killed every single time it reaches the message.
`scan` assumes that a commit is followed by its dispatch while the process
lives, that workers pick jobs and go on, and that the queue redelivers; a worker
may still die at any step, and the scanner may fail every time. `retention`
assumes that the scheduler keeps starting passes, that passes run on and expired
locks are freed, and that time passes for a message between passes (strong, since
passes interrupt it). The rest is weak fairness; nothing is assumed of users, administrators, the provider's answers or the other
reconcilers, and a worker may die every time.

## Proofs

| Theorem | Module | Says |
|---|---|---|
| `TypeCorrect` | `OutboundDelivery_proofs` | `TypeOK` always holds, for every fault. |
| `LifecycleIsKept`, `HistoryIsKept` | `OutboundDelivery_proofs` | The two action properties of `delivery_slow`, for every fault. |
| `DeliveryInvariant_Holds` | `DeliverySafety_proofs` | `IInv` always holds within the timeouts. |
| `AcceptanceIsLast`, `StateIsHonest`, `ChargesAreTrue`, `RowsSayWhatWasReported` | `DeliverySafety_proofs` | The properties of `delivery_safety` that compare the database with what was reported of the attempts, within the timeouts. |
| `ClaimIsExclusiveAlways`, `AmbiguousStaysUnsent` | `DeliverySafety_proofs` | `ExclusiveDelivery` and the action property `AmbiguousIsNotResent`, as long as no worker is slow (`PromptWorkers`): a provider retry may die at any point. |
| `DeliveryImplementsConversation` | `DeliverySafety_proofs` | `Spec => ImplementsConversation`: every step of delivery is a step of `ProviderConversation` or keeps silent, within the timeouts. The contract speaks of what the caller was told: after a reported failure it may offer the message again, though the provider may have it. |
| `QueuedIsExpected` | `DeliverySafety_proofs` | `QueuedIsInHand`, the safety property of `delivery_live`, when only workers past their claim and provider retries die (`OnlyClaimedDie`). |
| `EventInvariant_Holds` | `EventSafety_proofs` | `EInv` always holds, for every failure. |
| `EventsReachTheRightMessage`, `EventsApplyOnce`, `DeliveredNeedsReport` | `EventSafety_proofs` | The safety properties of provider events. |
| `EarlyReportsComeBack`, `ReportsStayInHand` | `EventSafety_proofs` | `ReportInv` and `ReportIsPending`, for every failure. |
| `EventTypeCorrect`, `ScheduleTypeCorrect`, `UsageTypeCorrect`, `ScanTypeCorrect`, `RetentionTypeCorrect`, `AccountTypeCorrect` | each component's proofs | Its `TypeOK` always holds. |
| `ScheduleInvariant_Holds` | `ScheduleSafety_proofs` | `SInv` always holds. |
| `ReservationsFollowTheQueue`, `VersionNamesSchedule`, `NeverSentEarly`, `FinalStaysFinal` | `ScheduleSafety_proofs` | The safety properties of scheduling; the last two are action properties. |
| `UsageInvariant_Holds`, `CountersAddUp`, `SettledForGood` | `UsageSafety_proofs` | `UInv`; counters add up, a settled reservation is settled for good, at either isolation level. |
| `OverbookingIsOverlap` | `UsageSafety_proofs` | `OnlyOverlapOverbooks`, at either isolation level: a row goes past its limit by no more than what was reserved on it after the snapshot of the request, which at READ COMMITTED is nothing. |
| `ScanInvariant_Holds`, `NothingUnscannedIsServed`, `CommittedFileIsKept`, `UndecidedIsExpected`, `VerdictsStand` | `ScanSafety_proofs` | `ScanInv`, and every safety property of `scan`, whoever dies. |
| `RetentionInvariant_Holds`, `HeldIsKept`, `ReportableStays` | `RetentionSafety_proofs` | `RInv`, and the two action properties of `retention`. |
| `AccountInvariant_Holds`, `AdministratorRemains`, `KeysStayWithinOwner`, `UsersAreNeverCrossed`, `RenewedInboxIsKept`, `QuotasAreKept`, `CapacityIsKept` | `AccountSafety_proofs` | `AInv`, and every property of `accounts`. |

They hold for every number of messages, jobs, workers, events, providers, ids,
clients, passes, deliveries, users, keys, inboxes and requests and every value of
the bounds. Assumptions: the named `ASSUME`s of the
modules (bounds are positive, the "no value" constants are not values), and for
delivery's safety `WithinTimeouts`: workers die before `retry_after` and the
stale threshold, and no process dies inside the provider retry's transaction.
`ClaimIsExclusiveAlways` and `AmbiguousStaysUnsent` need only the first half,
`PromptWorkers`. The theorems about events, usage, scanning, retention and accounts
assume nothing about faults.
`QueuedIsExpected` assumes `OnlyClaimedDie`: of the kinds of fault, only crashes after
the claim and inside the provider retry. Each of the other eight kinds alone makes TLC find `QueuedIsInHand` violated on the instance of `delivery_live`,
so none of them can be left out: a crash before the claim, a handler error, an
emergency stop or a late worker spends a try without an attempt; a request that
dies loses its dispatch; an early retry and a backlog queue a message while another
job holds its lock, which drops the dispatch; and an expired lock leaves a message
to a job without one, which loses nothing by itself but is not what the property
says.

Why the invariants are what they are. That nothing is handed over after a reported
acceptance is not inductive: the next submission must know what was reported of the
earlier one. `IInv` therefore says what the row tells about it (`RowMatchesReply`: a
reported acceptance belongs to the current attempt of a row that is sent, delivered,
or sending with its transport stamp; a row without the stamp was never offered),
what a worker may rely on from claim to outcome (`ClaimHolds`, `OneClaimPerMessage`),
and what its place in `handle()` says about the report it got (`PlaceMatchesReply`).
It says nothing of a provider that took the message unheard, because nothing the
code keeps does. The requeue of a
stale message is the step where they meet: it needs an unstamped row, which by
`RowMatchesReply` was never offered. The proof shows for each group of actions
that rows, workers and reports keep their relation, one lemma per actor.

The refinement maps each row and its answers to a phase of the conversation. The
proof has one lemma that lists the moves of a row that are conversation steps
(`ConversationSteps`), one for each actor that shows which of them its action makes
about the one message it touches, and one that silence about all others is a
stutter; `IInv` is needed where an action's guard reads the row and the phase speaks
of the answer. A user retry of a message that failed with a timeout is a new offer
like any other.

A provider retry that dies after `transport->send` breaks `IInv`: its transaction is
rolled back, so the row no longer tells what was reported. Everything `IInv`
says of workers and rows alone survives it. That part is `ClaimsHold`: a worker's
claim matches its row, two workers never claim the same message, and a flagged row
is `sending` with its transport stamp (`FlagIsStamped`). It is inductive by itself:
a provider retry takes only a `failed` row, which nobody claims and nobody flagged.
`AmbiguousStaysUnsent` follows: a worker that hands a message over, or puts it back
in the queue, holds it, and what it holds is not flagged.

`QueuedIsInHand` is the safety half of `QueuedProgresses`, and `HandInv` makes it
inductive. A queued message whose lock is taken must have a job with a try left, but
tries are counted by the queue and attempts by the row, and both are compared with
the same budget in three places. `HandInv` ties them: every try of a job that
claimed was an attempt of its message (`TriesAreAttempts`), so a worker that
requeues below the attempt budget is below the tries too, and the queued message's
job is `Triable`. It also says that the lock is held exactly while the message's one
job exists (`LockIsJob`), that a busy worker has its job to itself (`HoldsJob`), and
that a worker past its claim has no queued message (`SpentIsNotQueued`), which is
why freeing its job strands nothing.

For events, `EInv` adds to the properties that an id is the message's own
(`TicketsAreOwn`), that whatever is stored or on its way was reported
(`RowsHaveReports`) and that a listed retry has room under the cap
(`ListedHasRoom`). An event is applied again only while it has moved nothing
(`UnmatchedMovedNothing`), which is why it takes effect once.

`ReportIsPending` is the safety half of `ReportsReachTheirMessage`: a report about the
attempt a sent message is on has not been dropped. The danger is an event that comes
early. All attempts have one id, so it may find its message by what an earlier
attempt left on the row, while the attempt it is about is still being sent.
`ReportInv` says what then becomes of it: a report is about an attempt the message
has reached (`ReportsAreOfThePast`), so when it meets the message on that attempt
and does not move it, the message is `sending` and the outcome is `ignored_state`
(`EarlyIsInHand`), which is what `reconcileOutOfOrder` selects until the cap or the
window is reached. `ReportsAreCarried` adds that an event that is not stored is on
its way and that a replay key is only taken for a request that is; `died` names the
events for which a request broke that.

For scheduling, that a version names one schedule needs to know how versions and
decisions move together: `SInv` says that a version is 0 exactly when nothing is
scheduled (`VersionsCount`), and that a view taken in the current life of the
draft lags by as many versions as decisions (`ViewsKeepStep`). The step that
would break it is the one that resets the version, and it ends the life.

For usage, `UInv` says that a message is queued by one transaction, which alone
creates its rows (`QueuedOnce`), and that rows which are charged exist
(`RowsExist`); the sum over a set of messages changes by one message at a time,
which the lemmas about `Cost` turn into arithmetic. Limits need a second layer: `BInv`
says that what a transaction found room for, with the reservations it knew of, still
fits until it commits (`RoomIsKept`), because it is the only one that holds the row,
and that a row starts before anything is charged to it (`RowsHaveBegun`), so that no
reservation against the row is left out of the count for its date. What it did not
know of is what `OnlyOverlapOverbooks` leaves open.

For scanning, `ScanInv` adds that the row says no more than the scanner did
(`RowIsHonest`) and that the delivery whose row is committed is past its cleanup
(`FilesAreOwned`), which is why a failing duplicate removes only its own file. That
an open attachment is in hand needs `Expected` besides: a pending row has a job whose
holders have at most loaded the row, a worker that is about to put its job back, or
a dispatch to come, and a scanning row has the worker that marked it. TLC checked it
as an invariant of `scan` before it was proved.

For retention, `RInv` says that a message listed for deletion has ended, or is on its
way to a worker, or has an attempt row too young for any pass (`ListedIsSettled`):
from the moment its attempt is recorded the listed message is safe, and until then it
is not.

For accounts, `AInv` says that users are locked in ascending order and that a copy
taken under a lock stays true (`LocksInOrder`), what a request has made sure of
before its last step (`Assured`), and that whoever holds a user's lock asked for it
(`LocksAreAskedFor`): the owner's copy that a key was checked against is then the
owner, and of two administrators one sees the other's change. `QInv`, above it,
says that a request that counted still has room (`RoomIsLeft`) while it holds the
owner's or the server's lock, and counts for the capacity the renewals that are
decided and not yet written.

Only model-checked: what is about liveness (`SendingResolves`, `QueuedProgresses`,
`ReportsReachTheirMessage`, `DueIsHandled`, `ScanDecides`, `HiddenIsDeleted`), which
the prover does not cover.

## Divergences

* **A timeout is resent** (`find_resend`). `OutboundTransportFailureMapper.php:73-89`
  calls timeouts, reset connections and broken pipes temporary failures, and the job
  requeues those (`DeliverOutboundMessageJob.php:238-250`), although the provider may
  have the message by then (`OutboundFailoverEligibility.php:45-50` says so and
  refuses another provider for that reason). The provider comes to hold two copies
  without any fault; a cancel of the requeued message leaves it cancelled and held.
  `docs/OUTBOUND_EMAIL_CONTRACT.md:526` says an ambiguous acceptance is never resent;
  so do `config/outbound.php:196` and the job's comment at `:221`.
* **Two requests pass the limit together** (`find_usage_race`). On MySQL as
  `.env.example:26` configures it, a request that waits for the usage row counts the
  reservations of a snapshot that is older than the lock
  (`OutboundUsageService.php:84`, `:572`, `:634`), and so does not see what the
  other reserved. At READ COMMITTED (`RepeatableRead = FALSE`) the same run finds the
  first two requests of a period: there is no row to lock yet, each creates one
  (the table has no unique key) and both reserve.
  `docs/OUTBOUND_USAGE_ACCOUNTING.md:81` says two concurrent requests cannot both
  reserve past the limit. `OnlyOverlapOverbooks` is what does hold.

Met while modelling, without a run of their own. Delivery, events, scheduling:

* An emergency stop strands queued messages: releasing the job keeps its
  `attempts()`, after `tries` stops the queue fails it and nothing dispatches
  another, where `DeliverOutboundMessageJob.php:85` and
  `docs/OUTBOUND_LAUNCH_RUNBOOK.md:175` say it is tried later.
* A retry reuses a reservation that a pre-transport failure released, and `commit`
  leaves it released: sent and not charged, against
  `docs/OUTBOUND_USAGE_ACCOUNTING.md:93`.
* `RetryOutboundMessageWithProviderAction.php:183` sends inside the transaction
  that records it: a process that dies there forgets the submission, which
  `OutboundFailoverEligibility.php:18` relies on.
* The failover policy is evaluated before that transaction, and asks only for the
  code of the last failure: a message whose earlier attempt timed out may go to
  another provider although the first one has it.
* The out-of-order reconciler (`OutboundProviderEventProcessor.php:243`) applies an
  event about an earlier attempt, once ignored for the message's state, to the
  attempt the message is on, even one that another provider accepted: it does not
  match again. Its docblock calls replays always safe, and the comment at `:371`
  says that matching by provider keeps one provider's events off another's attempt.
* The webhook takes the replay key before the dispatch and keeps it when that
  fails (`OutboundWebhookController.php:85`): the provider's repost is answered as
  a duplicate, against `docs/OUTBOUND_EMAIL_CONTRACT.md:432`.
* Unscheduling resets `schedule_version` to 0 (`OutboundScheduleFieldHelper.php:21`),
  so a version read before it is accepted for the schedule made after it;
  `docs/OUTBOUND_EMAIL_CONTRACT.md:135` relies on it for optimistic concurrency.

* `OutboundStaleSendingReconciliationService.php:24` and `:84` and
  `config/outbound.php:196` say a later provider event or an admin action resolves a
  flagged message. Nothing does: an event finds it `sending` and ignores it, no
  action accepts that state, and nothing clears the flag. `AmbiguousIsNotResent` asks
  only that it is not resent, and leaves room for the resolution.
* A temporary failure leaves `transport_attempted_at` on the queued row, against
  `docs/OUTBOUND_USAGE_ACCOUNTING.md:88`; a cancel then releases usage after a
  transport attempt.
* A message sent by a provider retry is not charged by that action; the usage
  reconciler finds it later.
* `detectConflict` flags rows that a bounce and a retry leave behind in normal
  operation, and the stale reconciler skips every flagged row, so such a message
  stays in `sending` when its worker dies before the transport.
* A provider retry moves `failed` to `sent`, which
  `OutboundMessageState::allowedTransitions` does not list.
* A bounce that arrives after the message was delivered or had failed suppresses
  no recipient, against `docs/OUTBOUND_EMAIL_CONTRACT.md:317`.
* A quota refusal in the dispatcher is thrown by `reserve`, outside the inner
  `try`, so it is deferred as `infra_error` again and again instead of returning
  the message to draft (`docs/OUTBOUND_EMAIL_CONTRACT.md:141`).
* The stale reconciler's dispatch after a requeue meets the unique lock of the
  dead worker's job and is ignored; the redelivered job usually takes its place,
  unless its tries are used up (`OutboundDelivery` with the fault `backlog`).
* `expireReservations` judges the message before the transaction and re-checks
  only the reservation in it (`OutboundUsageService.php:352`): a message that failed
  before any transport attempt, was listed and is retried in between loses its
  reservation while it is queued (`ExpiryScan`, `Retry`, `Expire` in
  `OutboundDelivery`; `ListAbandoned`, `Retry`, `Expire` in `OutboundUsage`), is sent,
  and is not charged. The docblock at `:311` and
  `docs/OUTBOUND_USAGE_ACCOUNTING.md:176-177` say that a queued message's reservation
  is never expired. `SettlementIsFinal` does not exclude it.

Scanning, retention, accounts, inbound:

* A worker that dies between the commit of a delivery and the dispatch of its scans
  (`IngestInboundEmailAction.php:92`) leaves a pending attachment: the redelivered job
  finds a duplicate (`:40`) and dispatches nothing.
* A rescan whose attachment still has a job, or its lock, is dropped by the unique
  lock after the row went back to pending (`RescanFailedAttachmentAction.php:81`).
* A worker that dies after it marked an attachment `scanning` leaves it so: its
  redelivered job claims only `pending` rows.
  `docs/ATTACHMENT_SCANNING_CONTRACT.md:50` allows `scanning` only while a lease is
  active.
* `hardDeleteOne` does not ask for the state again (`OutboundPruneService.php:423`):
  a hidden failed message that is listed and then retried is deleted while it is
  queued, or claimed by a worker that has not recorded the attempt, against
  `docs/OUTBOUND_RETENTION_POLICY.md:158-160`. `ReportableIsKept` asks for less: what is
  deleted is not `sending` or `sent`. `pruneDrafts` does not ask whether the draft
  is still stale, so an edit made after the listing is erased with it.
* `OutboundEventReconciliationService::repairMissingDeliveryAttempts` cannot tell a row
  that was never written from one that retention pruned: it writes a new one, and a
  hidden message that was not hard-deleted in the same pass waits for another
  window of attempts. It is deleted in the end (`HiddenIsDeleted`), because a later
  pass prunes the row and deletes the message before the repair runs again.
* `redactContent` has no state filter: a queued or scheduled message older than its
  owner's window is erased before it is sent. A draft that is edited after a
  redaction keeps `content_redacted_at` and is never redacted again.
* Attempt and event rows are deleted without the message's lock
  (`OutboundPruneService.php:320`, `:365`): a hold set after the listing does not
  protect them. `HoldKeepsContent` is about messages and their content.
* Only the oldest 2000 unredacted messages are looked at: held ones and those of
  plans without a window can fill that scan for good.
* A hidden message that is being sent when it is hidden, and fails temporarily, is
  queued again and sent.
* Deleting an inbox locks it first and reaches the owner through the audit entry's
  foreign key; renewal and creation lock the owner first. The database ends the
  cycle (`Abort`).
* An update of a key without permissions takes no lock and authorizes nothing,
  though its data may name another owner (`UpdateApiKeyAction.php:51`); `UpdateKey`
  is the update that changes permissions.
* `InboundRetentionService.php:39` asks for the next batch until it is empty and
  skips what is held or still being scanned: one such email old enough makes it
  loop.
* `ProcessInboundMessageJob::failed` names classes without their separators, so
  the hook that should record an exhausted delivery fails itself.

## Hazards

What is hard to test here, and the properties that watch it (`PROJECT.json` has
the lines): crashes between the commits of `handle()` (`AcceptedIsLast`,
`AmbiguousIsNotResent`, `SendingResolves`, `RowsAreTrue`, `ChargedOnlyIfAccepted`); a
timeout after the provider took the message (`AtMostOneCopy`, refuted); two jobs of
one message (`ExclusiveDelivery`); requests that land in the middle of a handler
(`StateMatchesProvider`, `OnlyAllowedTransitions`); the attempt budget counted in
three places (`QueuedIsInHand`, `SendingResolves`); late workers
(`TerminalRowsAreFinal`); repeated, early and late events (`OneEffectPerEvent`,
`DeliveredIsReported`, `ReportIsPending`, `ReportsReachTheirMessage`); one id with
several providers (`RightMessage`); a dispatcher pass that works off an old list, and
a dispatch that is rolled back (`NeverEarly`, `NoWayBack`, `ReservedIffQueued`,
`DueIsHandled`); requests that count and insert (`OnlyOverlapOverbooks`, `QuotasHold`,
`CapacityHolds`; `PeriodWithinLimit`, refuted); lost and repeated settlements
(`LedgerAddsUp`, `SettlementIsFinal`); scanners that answer late (`VerdictIsFinal`,
`ServedIsScanned`) and duplicates that clean up (`StoredFileIsKept`); prune passes
that overlap, die or work off an old list, and rows written anew behind them
(`HoldKeepsContent`, `ReportableIsKept`, `HiddenIsDeleted`); administrators who change
each other at once (`AdminRemains`, `UsersNeverCross`) and keys issued meanwhile
(`KeyWithinOwner`); inboxes renewed while they expire (`RenewedIsKept`).

Hazards that do bite in this code are listed without a property, since one that
asks for their absence fails: the provider retry that dies, the emergency stop that
spends tries, the version that starts again, the event whose request died, the
reservation that expires under a retry, the attachments nobody scans, the retried
message that is hard-deleted. The Divergences tell each; where a property exempts one
(`TokenNamesSchedule` by `lives`, `ReportIsPending` by `died`, `UndecidedIsInHand` and
`ScanDecides` by `stranded`, `QueuedIsInHand` by the faults of its run) the property
says that nothing else goes wrong, and is not a guard against that hazard.

## Not modelled

Signatures, payload parsing, MIME, HTML sanitising, DNS, transports, headers and
validation are data or I/O. Reports, forms, resources and DTOs keep no state.
Notifications are rows with a unique dedupe key; sender profiles, plans, features,
subscriptions, domains and mail servers are rows that administrators edit, and
appear as constants or inputs of the modules that read them. Of the inbound pipeline
the path of an attachment is modelled; failure records and their replay, and the
retention of inbound mail and logs, are not. Rate limits are counts before an
insert, without a lock, and promise nothing exact.

The browser code in this repository is not its own: the files under `public/js`
are the compiled assets of the Filament admin panel, and `vite.config.js` lists
build inputs. All of the application's logic is PHP, and that is what the modules
translate.

## Plan

In the order of what they protect:

1. Proofs: abstract specifications for events and usage, in the way
   `ProviderConversation` is one for delivery.
2. `InboundFailures`: failure records, replay and retention of inbound mail.
3. A batch limit in `ProviderEvents`, the dispatcher and the prune passes.
4. Notifications and domain authentication.
