# TheUGC.life in TLA+

This directory is a verification development for TheUGC.life: TLA+ modules that
model the parts of the application whose correctness depends on interleavings,
crashes, lost answers and time; TLC configurations that check them on small
instances; and proofs, checked by TLAPS, of the most important properties for
every value of the constants.

Paths below are relative to the repository root. Migrations are named by their
number (`0101` is `supabase/migrations/0101_gmail_inflight_sync_consent.sql`).
Where several migrations define one function, the last one counts.

## 1. The system

The application is a Next.js server in front of a Postgres database (Supabase).
Nearly every state change is a `security definer` SQL function; server actions
and Netlify scheduled functions call them one by one, as separate transactions.
Between two calls the caller can die (a scheduled function is stopped after 30
seconds) and any other caller can run. The outside world is Gmail, Hunter (a
contact lookup service), Rebill (payments) and Claude.

| Component | State | Operations | Hard behaviour | What makes it correct |
| --- | --- | --- | --- | --- |
| Gmail send queue (`0089`, `0091`, `0093`, `0101`, `src/lib/gmail/send`) | `gmail_send_attempts`, `gmail_sent_events`, `gmail_send_schedule` | reserve, claim, mark, arm, remember, commit, fail, sweeps | overlapping runs, runs killed between any two calls, lost answers, leases, daily cap, deletion of the account meanwhile | one message per attempt at most; an outcome once told stays; what Gmail accepted and returned ends up recorded |
| Follow-ups (`0092`, `0101`) | `gmail_followups` | schedule, cancel, settle, block, close on sent | slots that are reused while an earlier attempt is in flight | one live follow-up per thread, at most two sent, the follow-up and its attempt agree |
| Pauses and bounces (`0091`) | `gmail_send_pauses`, `gmail_send_bounces` | record bounce, unpause | a pause between claim and mark | nothing is called while paused |
| Gmail connection and consent (`0035`, `0036`, `0093`, `0101`, `connection.server.ts`) | `mail_accounts`, credentials, consent receipts, OAuth transactions | begin, consume, persist, consent, refresh, disconnect, reconnect | a callback after a disconnect, a refresh racing a revocation | no credential outlives its consent |
| Historical import (`0037`) | `gmail_import_runs`, raw messages | start, claim, page, checkpoint, cancel | leases, revoked authorization, crash between page and checkpoint | every message is imported once, none after a revocation |
| Incremental sync (`0047`, `0093`, `0101`) | `gmail_sync_runs`, history cursor | request, claim, commit, back off | a lease that expires while a commit is under way | the cursor never passes what was not stored |
| Normalization, outreach, replies, meaning (`0038`–`0048`) | derived private tables | interpret a thread | reinterpretation under a new version | a derived row belongs to the source it names |
| Contact credits (`0057`, `0076`, `0079`, `0100`, `0103`) | `credit_ledger`, `contact_unlocks`, `contact_cache`, `contact_reports` | grant, expire, unlock, report, review | two tabs, grants at a period boundary, replay by transaction start time | one debit per hotel, balance never below zero by an unlock |
| Hunter lookups (`0095`, `0096`, `hunter-lookup.ts`) | `contact_provider_lookups`, `contact_provider_budget` | claim, search, verify, complete, abandon, reserve, release, exhaust | stale claims, month rollover, lost answers | one search per domain, never above 50 a month |
| Rebill billing (`0077`–`0081`, `0100`, `0103`, `0106`, `0107`) | `subscriptions`, `access_entitlements`, `rebill_payment_effects`, refund and cancel queues | checkout, webhook, refund, chargeback, cancel | duplicated and reordered webhooks, a payment after the account is closed | every payment has one effect, a refund removes just its slice |
| AI budget (`0082`, `0083`, `0090`, `0106`) | `ai_usage`, pool | prepare, finish, charge | prepared and never finished usages | spending stays within the budget |
| Account deletion (`0088`, `0093`, `0106`) | `users.deletion_requested_at`, `delete_after` | request, erase, retry cancels | everything else that is going on for that creator | nothing is sent or charged after the request; erasure leaves nothing |
| Pipeline and collaborations (`0019`–`0023`) | `pipeline_items`, `collaborations` | save, transition, deal won, deliver | double submits, the free allowance | one item per hotel and trip, one collaboration per deal |
| Catalog import and publication, intelligence, trips, profiles, pages | – | – | operator batches, forms, rendering | – |

How the parts meet: the send queue reads plan, mailbox, pauses and contacts of
the creator at each of its steps; follow-ups feed the queue (settle inserts an
attempt) and the queue closes follow-ups (a trigger on the attempt); deletion
writes the mailbox and lets the next claim fail the creator's rows; an unlock
calls a Hunter lookup, writes the contact cache and asks again; billing writes
the entitlements and the ledger that grants, unlocks and the queue read.

`PROJECT.json` lists under `hazards` what is hard to test, at the line where it
bites, and the properties that watch it.

## 2. Modules

| Module | What it is |
| --- | --- |
| `GmailSend` | the send queue, the follow-ups, the dispatcher runs and Gmail |
| `SendPromise` | the abstract specification: what is promised for each attempt |
| `GmailSendProperties` | type invariant, safety, action and liveness properties, and the refinement mapping to `SendPromise` |
| `MCGmailSend` | the sets and functions of the small instances |
| `GmailSendProofs` | the inductive invariant and the proofs: of one attempt, and of what ties the attempts of a creator and of a thread together |
| `HunterLookup` | contact lookups: lookup rows, monthly buckets, the callers of `findWithHunter`, and what Hunter counts |
| `HunterProperties` | their type invariant, safety and action properties |
| `MCHunterLookup` | the small instances |
| `HunterProofs` | the inductive invariant of the lookups and the proofs |
| `LedgerReplay` | the two replays that read a credit ledger, and the order they read it in |
| `CreditLedger` | the ledger, its grants, the unlock with its two calls, drafts, reversals, reports |
| `Wallet` | the abstract specification: a purse of plan, weekly and durable credits |
| `CreditProperties`, `MCCredit`, `CreditProofs` | their properties with the refinement mapping to `Wallet`; the small instances; lemmas about ledgers and their replays, the inductive invariant and the proofs |
| `PlanSlices`, `PlanSlicesProofs` | the windows of plans, the slices of their payments and the periods of their grants, as both `CreditLedger` and `RebillBilling` compute them; what that arithmetic guarantees, proved |
| `GmailConnection` | one mailbox and its grant at Google: authorization flows, Disconnects, consent, callers that ask for an access token |
| `GmailConnectionProperties`, `MCGmailConnection`, `GmailConnectionProofs` | their properties, the small instances, the inductive invariant and the proofs |
| `GmailImport` | the historical import: it extends `GmailConnection`, so that every step of the connection is a step of it, with the trigger that carries a change of the mailbox into the runs |
| `GmailImportProperties`, `MCGmailImport`, `GmailImportProofs` | their properties, the small instances, the inductive invariant, that the import implements the connection, and the proofs |
| `GmailSync` | the incremental sync of a mailbox: cursor, run, lease, threads, workers, pipeline, and Gmail's history |
| `GmailSyncProperties`, `MCGmailSync`, `GmailSyncProofs` | their properties, the small instances, the inductive invariant and the proofs |
| `RebillBilling` | checkouts, webhooks, windows and slices, refunds, chargebacks, deletion, cancels |
| `BillingProperties`, `MCBilling`, `BillingProofs` | their properties, the small instances, the inductive invariant and the proofs |

### 2.1 GmailSend: state

| Variable | Code |
| --- | --- |
| `rows` | `private.gmail_send_attempts`: creator, key, kind, hotel, recipient, thread, status, failure code, `provider_message_id`, and three ages |
| `made` | rows inserted so far; ids grow with `created_at` |
| `fu` | `private.gmail_followups`: one slot per sent pitch and sequence number (a unique index allows one that is not cancelled) |
| `event` | `private.gmail_sent_events`, by attempt: the stored message id |
| `gap` | `private.gmail_send_schedule.next_eligible_at - now()` |
| `paused`, `blocked`, `standing` | an open pause, a requested deletion, and whether plan and mailbox allow a send |
| `halted`, `valid` | threads with a reply, a bounce or a closed deal; addresses that still match a contact |
| `hour` | the creator's local hour (all creators share a time zone in the model) |
| `run` | dispatcher runs: where they stand in `deliverReservedSend`, with what in their hands, and the attempts they have seen |
| `accepted` | Gmail: how many messages it accepted for an attempt |

Time is kept as what the code compares with `now()`: `age` of a row since
`updated_at`, `wait` until `dispatch_not_before`, `due` until
`earliest_send_at`, `gap`. Each is capped where no branch can tell values apart,
so `Tick` never stops. `today` says that `provider_started_at` lies in the
current local day, which is what the cap counts. The failure codes that the
code treats alike are one value: `refused` stands for `plan_required`,
`not_connected`, `scope_missing`, `token_revoked`, `mailbox_unusable`, `quota`,
`allowlist`, `kill_switch`, `invalid_recipient`.

### 2.2 GmailSend: actions

| Action | Code |
| --- | --- |
| `Reserve` | `gmail_send_reserve` (0101), called by `sendPitchFromGmailAction` and the reply form |
| `ScheduleFollowUp`, `CancelFollowUp` | `gmail_followup_schedule`, `gmail_followup_cancel` (0101) |
| `Settle` | `gmail_followup_settle` (0092), by the housekeeping job for all creators, or for one |
| `StartRun`, `EndRun`, `Killed` | the cron, the loop of `dispatchDueGmailSends`, the platform's time limit |
| `ClaimCommit`, `ClaimSend`, `ClaimNothing` | `gmail_send_claim_due` (0101) with its sweeps, the settle it calls, the deletion sweep, and one of its three outcomes for `p_limit = 1` |
| `Gate` | `followUpGate` with `gmail_followup_block_send`, the send guard and the MIME builder |
| `Mark` | `gmail_send_mark_provider` (0093) |
| `Token` | `getFreshGmailAccessToken` |
| `Arm` | `gmail_send_arm_provider` (0101) |
| `CallAccepted`, `CallRefused` | `sendMessage` and Gmail |
| `Remember`, `Commit`, `Fail` | `gmail_send_remember_provider`, `gmail_send_commit` with its trigger, `gmail_send_fail` |
| `…Unsent`, `heard = FALSE` | a call that never reached the database; a call that was applied and whose answer was lost |
| `ThreadStops`, `ContactChanges`, `PauseChanges`, `StandingChanges`, `RequestDeletion` | what other components do to what the queue reads |
| `Tick` | time |

A SQL function is one atomic step. That is justified by its locks: reserve,
mark, schedule, cancel, settle (per creator) and arm take the creator's `users`
row `for update` before they read what they decide on, remember, commit and
fail take the attempt row, and the claim's sweeps are single `update`
statements. The claim is modelled as one step although it locks creators one
after the other; what lies between its parts touches rows of other creators
only. A deadlock that Postgres breaks is a call that failed and is covered by
the `…Unsent` steps.

A tick is longer than the life of a run (a run lives at most 30 seconds, the
lease is 15 minutes), so a run sees at most one tick; overlapping runs, and
kills, are unrestricted. The model uses the clock at each call, where the
dispatcher passes the time it started at to its claims.

### 2.3 HunterLookup

`row` is `contact_provider_lookups` (`stale`: older than two minutes; `webmail`:
the stored note names an address off the hotel's domain), `budget` is
`contact_provider_budget` by month and bucket, and `counted` is Hunter's own
account. A caller of `findWithHunter` is the sequence of calls that remain for
it (`todo`) and what it holds of each bucket; each outcome of a call replaces
that sequence by what the code goes on to do. So the order of releases, abandons
and completions is the code's, and anybody can step in between any two.

| Action | Code |
| --- | --- |
| `Hit`, `Resume`, `Claim` | `claim_contact_provider_lookup` (0095) and the first branches of `findWithHunter` |
| `ReserveOk`, `ReserveRefused`, `ReserveUnheard` | `apply_contact_provider_budget` (0096), `reserveBudget`, `verifyCandidate` |
| `CoverOk`, `CoverRefused` | the reserve of verifications that Hunter has counted beyond the headroom |
| `ReleaseOne`, `ExhaustOne`, `AbandonClaim` | `releaseBudget`, `abandonClaim`; failures are swallowed |
| `CompleteLookup` | `complete_contact_provider_lookup` (0096); a failure ends the lookup |
| `SearchFails`, `SearchQuota`, `SearchClaimed`, `SearchAnswered` | the branches after Domain Search |
| `VerifierFails`, `VerifierQuota`, `VerifierUndecided`, `VerifierDecides` | `verifyCandidate` and the branches after it |
| `Killed`, `Age`, `NextMonth` | the platform's time limit, the two minutes, the UTC month |

A function is one step: it holds an advisory lock on the key or on the month.
Email Finder is left out, since the unlock passes no person's name. Which of the
returned addresses is chosen, and how, is a free choice. Hunter is taken to
count what D180 and the code take it to count: a search that returned addresses,
the verifications in it, and a verifier call that it answered; not a call that
timed out or was refused.

### 2.4 LedgerReplay and CreditLedger

`LedgerReplay` holds the two functions that read what is left of a grant from a
ledger, side by side: `Unspent` is the loop of `ensure_credit_grants` (0103) and
`Buckets` the one of `rebill_unused_credits` (0100). Neither is stored anywhere,
so that they have to agree. Both read the rows by `created_at` and then by
`idempotency_key`, and so a ledger is kept in that order (`After`, `Insert`): a row
goes where the time its transaction began puts it, not at the end, and rows of one
transaction, which share `created_at`, go in the order of their keys (`KeyOrder`).

`CreditLedger` keeps, by account, `ledger` (`credit_ledger`), `plan` (the Rebill
entitlement), `saved` and `reported` (open pipeline items, `contact_reports`),
`owned` (`contact_unlocks`), by payment `paid` (of a pack) and `effect`
(`rebill_payment_effects` of a plan's payment, with its slice and grant key), and by
hotel the status in `contact_cache`. A row's idempotency key is its kind and its ref.

A `call` is a transaction. It begins at an instant of its own, `at`, which is what
`now()` returns to its end and what its rows carry; it enters when it has its
locks and reads what it decides on, and commits later. Two calls overlap wherever
their locks let them: `credit_unlock` and `ai_draft` exclude calls of their own kind,
`credit_grant` is taken by the grants and kept to the end, `rebill_pay` excludes
other requests about the payment. How long a call waits is open, so that
it may commit after others that began later.

| Action | Code |
| --- | --- |
| `Begin`, `Die` | a transaction begins; a server dies, the transaction rolls back |
| `Refresh` | `ensure_credit_grants` (0103): `PlanRows`, `LapseRows`, `WeeklyRows` |
| `EnterUnlock`, `CommitUnlock` | `unlock_hotel_contact` (0100) before and after its balance check, with `save_hotel_to_pipeline` (0097) |
| `Lookup` | `unlockHotelContactAction`: the provider, `upsert_contact_cache`, and the second call |
| `EnterDraft`, `CommitDraft` | `charge_own_ai_draft` (0083) |
| `EnterPayment`, `GrantPack`, `GrantPlan` | `apply_rebill_event` (0106) for an approved payment: what it reads, and what it writes |
| `ReadReversal`, `ReversePack`, `ReversePlan` | the same for a refund or a chargeback: balance and unused credits (`Take`) are read under the locks of the log and the payment alone; the row, the window and its slices are written later, and the grants that follow wait for `credit_grant` |
| `SaveHotel`, `CloseItem`, `Report`, `ReviewReport`, `AdminGrant`, `RequestDeletion` | the functions of these names |

A refund of a month takes what is left of the grant its payment owns
(`grant_key`), that of a year and a chargeback what is left of the plan, that of a
pack what is left of the pack. What happens to the window (`Cut`, `MovedUp`,
`Renumbered`, `Terminated`) is in `PlanSlices`.

### 2.5 RebillBilling

A `log` is a webhook; it names a payment or a subscription, and the handler
asks Rebill for the present status before it applies anything, so that what a
log tells is the status at `Confirm`. `Enter` takes the advisory locks of the log
and the payment and makes every decision before the first write; `Grant` and
`Reverse` write. Between the two, handlers of other payments and the deletion may
commit. `ent` and `effect` in a handler are the rows as it read them.

| Action | Code |
| --- | --- |
| `CreateCheckout`, `AttachLink` | `startRebillCheckoutAction`: the row, then the link |
| `Charge`, `GiveBack`, `TellAgain`, `SubscriptionMoves` | Rebill, and the creator who pays a link |
| `Confirm`, `DropRequest` | the webhook route: signature, Rebill's status, a request that dies |
| `Enter`, `Grant`, `Reverse`, `EnterSubscription`, `WriteSubscription` | `apply_rebill_event` (0106) |
| `GrantRun` | the part of `ensure_credit_grants` that closes a window and claims a period |
| `RequestDeletion`, `ReadQueue`, `CancelAtRebill`, `RecordCancel`, `CancellerDies` | `requestAccountDeletion`, the daily `retryPendingRebillCancels`, and `cancelRebillSubscription` (0107) |
| `Erase` | the billing rows of `erase_creator_account` (0106) |

Time is in months; `ent` and `effect` carry windows and slices of whole months.
`Tick` waits for entered handlers, as a transaction is short beside a month.

### 2.6 GmailConnection

`mail` is the row of `mail_accounts` with its credential and its consent: `rev`
is `authorization_revision`, `intent` is `disconnect_intent_seq`, `seq` the
sequence that orders flows and Disconnects. A token is the flow whose exchange
issued it and how often Google has rotated it since, and so stands for
`credential_generation`. `alive` is what Google honours. There is one mailbox and one Google account; a
flow that comes back with another account, another owner's account or refused
scopes is a flow that gives up, since it writes nothing and revokes nothing.

| Action | Code |
| --- | --- |
| `Begin`, `Consume`, `Exchange`, `GiveUp` | `gmail_oauth_begin` (0093), `gmail_oauth_consume_transaction`, `exchangeCode`, and each early return of `completeGmailAuthorization` |
| `PersistLands`, `PersistRefused`, `PersistSuperseded` | `gmail_connection_persist` (0036), `gmail_send_scope_persist` (0089), the trigger that refuses a credential while the account closes (0093) |
| `Store`, `StoreRefused`, `StoreFails`, `RevokeFlow`, `RevokeFlowFails`, `FinalizeFlow` | the branch `superseded_by_disconnect`: store, revoke, finalize |
| `Prepare`, `RevokeStop`, `RevokeStopFails`, `FinalizeStop`, `StopDies` | `disconnectGmailAccount` |
| `Consent`, `CloseAccount` | `gmail_grant_private_processing_consent` (0101), `account_deletion_stop_gmail` (0088) |
| `Load`, `Refresh…`, `Replace`, `ReplaceFails`, `MarkReauth`, `HandOver`, `CallFails`, `Leave` | `getFreshGmailAccessToken` and the functions it calls |
| `RemovedAtGoogle` | the creator removes the application, or the grant lapses |

Each SQL function of this table locks the row of `mail_accounts` before it reads what
it decides on, and so is one step. (Those of the import lock the run's row; see 2.7.) A revoke at
Google of a token that works ends the whole
grant; of one that does not, it answers `invalid_token`, which the code takes as
success. `dropped` is history: tokens whose holder gave up with them, or that were
overwritten.

### 2.7 GmailImport

`run` is a row of `gmail_historical_import_runs` with its threads: cursor (`page`),
failures of the present page (`tries`), backoffs (`later`, `waiting`), and the
worker that has the lease. `work` is a worker in `runOneImportStep`: its claim with
the revision it was made under. A worker asks for its token as a caller of
`GmailConnection`, so that all that can happen there can happen between its claim
and its validation. `overtaken` is history.

| Action | Code |
| --- | --- |
| `Connection` | a step of the connection with `apply_gmail_lifecycle_to_import_runs`, in the same transaction |
| `Start` | `gmail_historical_import_start`, by an operator |
| `Resume`: `ResumeReads`, `ResumeEnds` | `_resume`, by an operator: it locks the run, looks at the mailbox, and writes |
| `ClaimPage`, `ClaimThread`, `ClaimCompletion`, `ClaimRefused` | `gmail_historical_import_claim_step` |
| `TokenAnswer`, `CarryOut` | `applyAuthorizationOutcome` with `_pause` and `_cancel_connection_stopped` |
| `Validate`, `Refused` | `_validate_claim`, `gmail_import_commit_guard`, `refusalOutcome` |
| `CommitPage`, `CommitThread`, `ThreadGone`, `RetryPage`, `RetryThread`, `Complete` | the commits |
| `LeaseExpires`, `Ready`, `Dies` | time, and the end of a process |

`_start` locks the mailbox. The functions about a run lock the run's row and read the
mailbox without a lock. A step of the connection that moves the mailbox meanwhile has to
write that row in its trigger, and waits for it, if the row as last committed has a
status the trigger looks for. It has for a claim and a commit, whose runs are
`runnable`: these come before the move as a whole, and are one step. It has not for
a resume while the move only pauses, since the trigger then looks for `runnable` rows and
this one is still paused: the move commits, and the resume after it (`TriggerGoes`). So a
resume is two steps.

The read at Gmail and the commit of what it answered are one step after
`Validate`: nobody else sees what lies between, and what Gmail answers is a free
choice when it is committed. Whether a thread has a sent message in the exact window
(`exact`) is a free choice as well. An expired lease is a free one: the code never
looks at who had it.

### 2.8 GmailSync

What Gmail holds is a sequence: message `i` is the `i`-th change of its history. So
the numbers of messages serve as history ids, as the clock (how much mail there is
when the clock is read), and as what a window's ends are compared with. One mailbox
has one run that is not over (a unique index); `run` is that run or the last one,
`thread` its rows.

| Variable | Code |
| --- | --- |
| `mail`, `now`, `deleted` | Gmail: messages with their thread and whether the creator sent them; what the creator removed |
| `mailbox` | state and `authorization_revision` of `mail_accounts` |
| `cursor` | `gmail_sync_cursors`: `history_id`, `horizon_end_at`, `pipeline_pending` and the pipeline's lease |
| `run`, `thread` | `gmail_sync_runs` with its window, list and lease; `gmail_sync_threads` |
| `raw`, `observed`, `covered` | `gmail_raw_messages`, `gmail_sync_thread_coverage`, the threads of the last completed run |
| `work` | the workers of `runAccountSync`: the claim each holds and what Gmail has answered |
| `unseen` | history: covered threads with which no pipeline has finished |

| Action | Code |
| --- | --- |
| `ClaimStep`, `BeginRun`, `ClaimPipeline` | `gmail_incremental_sync_claim_step` (0047): the next step of the run, a new run, the pipeline of the last one |
| `TokenDead`, `TokenRefused`, `TokenFails`, `CarriesOut` | `applyTokenOutcome` with `_pause` |
| `ReadHistory`, `HistoryGone`, `ReadProfile`, `ReadSent`, `ReadThread` | the reads of `dischargeStep` |
| `CommitHistory`, `CommitExpired`, `CommitProfile`, `CommitSent`, `CommitKnown`, `CommitThread`, `CommitGone`, `CommitCompletion`, `Retries`, `Fails` | the commits, each behind `gmail_sync_begin_commit` (`Valid`, `Refused`) |
| `PipelineDone`, `PipelinePending` | `_mark_pipeline_done`, `_release_pipeline` |
| `MailboxMoves`, `LeaseExpires`, `Dies` | the trigger on `mail_accounts`, time, the end of a process |
| `Arrives`, `Removes` | mail that arrives, mail that the creator removes |

A read and its commit are two steps, since the list that Gmail gave is compared with
a clock that is read in the commit. Mail may arrive at any time; `late` is history: the
messages that arrived while a worker held the last page of a list and had not committed it.

## 3. What is checked

### 3.1 Runs

| Run | Instance | Question |
| --- | --- | --- |
| `queue` (`GmailQueue.cfg`) | 1 creator, 2 keys, 2 overlapping runs, cap 1, lease 1 tick | Is an attempt ever sent twice, an outcome taken back, the cap passed? Does the queue implement `SendPromise`? |
| `follow_ups` (`GmailFollowUps.cfg`) | 1 sent pitch, follow-ups in both slots, 1 run, a thread that stops, contacts that change, a plan that lapses | Do follow-ups and their attempts agree? |
| `liveness` (`GmailLiveness.cfg`) | 2 sends, a deletion, kills and lost answers at any point | Do rows come to rest? |
| `hunter_budget` (`HunterBudget.cfg`) | 2 callers on a domain, cap 3, headroom 2, slow callers, kills and lost calls | Does a bucket ever fall below what was counted and is held? Is a credit lost without a failure? Do stored answers stay? |
| `hunter_claims` (`HunterClaims.cfg`) | 2 callers on a domain, kills, lost calls, 2 months, Hunter counts 2 where 1 was reserved | Is a domain ever searched for twice? |
| `credit_periods` (`CreditPeriods.cfg`) | 1 account, 1 call at a time, 5 instants, week and period of 2, a hotel, a draft, a pack, 2 monthly payments of which one may be charged back, refunds of all | Do expiries and reversals take what is left of their own grant, and only that? Do the replays agree, and is the ledger the purse of `Wallet`? |
| `credit_races` (`CreditRaces.cfg`) | 2 overlapping calls of every kind, 2 hotels, room for 1 saved hotel, a pack, an annual payment, a draft, refunds and a chargeback, reports, gifts, a deletion, kills; ledgers of at most 4 rows | Is a credit ever spent twice, a missing address charged, a pack reversed twice, a debit without its pipeline item? |
| `billing_slices` (`BillingSlices.cfg`) | 3 payments of one monthly subscription, 4 webhooks, 3 months, its own events | Has every payment days and a period of its own? Is access paid for? Does a refund revive anything? |
| `billing_cancels` (`BillingCancels.cfg`) | an annual plan and a pack, one payment, 2 overlapping handlers, 2 webhooks, refund and chargeback, deletion and erasure, the deletion action and the daily job, lost answers, kills | Is a payment granted twice, or granted and queued for a refund? Is a cancel forgotten? Is it done at last? |
| `gmail_connection` (`GmailConnection.cfg`) | a connected mailbox, 2 more flows of any purpose, a Disconnect, a deletion request, a caller, one rotation | Does an old flow undo a Disconnect, or work go on without a consent for it? Is "disconnected" told while Google still honours a token nobody gave up? |
| `gmail_import` (`GmailImport.cfg`) | a mailbox with the send scope, a second flow, a Disconnect, a deletion, 2 workers, resumes that overlap the mailbox's moves, 2 pages (the first one empty), 2 failures a page or thread | Do runs follow the mailbox? Is "completed" true? Does a worker whose claim was overtaken read or write? |
| `gmail_sync` (`GmailSync.cfg`) | 2 workers, 2 threads, 2 messages, and either one removed or a mailbox that moves once (`OneTrouble`) | Does the cursor, or an observed time, pass mail that is not stored? Is a completed run hidden from the pipeline? |

Section 5 lists configurations that are kept beside these and run by hand: each
has a property, or several, that a document states and the code does not keep, on the
smallest instance that shows it.

The bounds: `MaxRows` bounds the inserted attempts, `Request` the messages a
creator may ask for, `Pausable`, `Deletable`, `Haltable`, `Fickle` and
`Standings` say what the environment may do. Everything else is unbounded:
runs start, die and overlap for ever, time passes for ever. Two attempts of one
creator are enough for each of the interactions between attempts that the code
has (a second claim, the push-back of the others, the cap, the check for a send
in flight); two runs are enough since a third only meets what two already
leave behind; a lease of one tick lets a row go stale while its run may still
be alive.

### 3.2 Properties

`CalledOnce`, `RecordedBeforeCall`, `SentIsAccepted` are D157 and D158: the
attempt is on record before the call, one key never calls twice, a sent row has
the message Gmail accepted. `OneRunPerCall` says why: nobody
can take an attempt from a run that is about to call. `WithinDailyCap` is D168
under overlapping runs. `OutcomesStick` is an action property over all steps,
and `KeepsPromise` the refinement of `SendPromise`: `told` is what the creator
is shown of an attempt, `delivered` whether Gmail has accepted a message. The
abstract specification is deliberately frank: `failed` and `unknown` may be
told of a message that was delivered, `sent` may not be told of one that was
not. `FollowUpsAgree` relates the two tables: one live follow-up to a thread, and
each row with the attempt it names.

Liveness, under `LiveSpec`: `ComesToRest` (a stored message id ends as a sent event,
`StoredIdCommitted`, and no row stays reserved or called, `LeaseReleases`), and
`DeletionDrains` (after a request nothing of the creator waits or is called).

The fairness: time passes (`WF(Tick)`); the cron starts runs (every minute,
`netlify.toml`); a run does not hang, for every call has a timeout or the
platform ends it (`WF(Progress)`); and a claim and a commit that are tried
again and again are answered at last (`SF`), which says no more than that the
database is not down for ever. Nothing is assumed of kills, of Gmail, of the
creators, or that a run ever survives to its end.

For the lookups: `NeverUndercounts` is what makes the buckets fail closed, and
relates the bucket, Hunter's account and all callers; `LostByFailure` says that
the many paths of giving credits back are complete: only a death or a failed call
loses a credit; `SearchOwnsClaim` that a lookup row
is searched for once at a time; `StoredAnswerStays` that late completions and
abandons change nothing that is settled. `Slow` lets callers outlive the two
minutes of a claim; without it a pending row ages only when its caller is gone,
which the 20 seconds of a call to Hunter and the platform's limit justify. With
it two callers may search for one domain, and `SearchOwnsClaim` is not claimed.
Two callers are enough, since each pair of calls on one row or bucket can then
interleave; the headroom of 2 makes a reserve fail half way.

For the credits: `NothingTwice` says that no credit is spent twice (`SpentWasGranted`,
which sums a whole ledger over all interleavings) and no pack taken back twice
(`PackReversedOnce`);
`PaidForAddress` and `DebitSaves` relate a debit to the address it shows and to
the pipeline, which other calls change between the two calls of the unlock. An account
that is closing takes no `credit_grant` lock, so that `SpentWasGranted` excludes
one that is given credits after its request. These hold however calls overlap, and
do not depend on the order of the replay.

The others are about that order. `ReversalsFit` is what D140 promises of reversals:
the replay of a spend and that of a reversal leave the same of the plan
(`ReplaysAgree`), and no row took from a grant what was not in it (`BucketsHold`: what
the replay leaves is the balance). `KeepsWallet` is the refinement: the replay of
the ledger, with all its keys and expiry rows, behaves like a purse in which a
new period replaces what was left of the old one. Both are claimed while the
calls of an account do not overlap: each reads what the one before it left. What they are
claimed of includes drafts that open a period, refunds of months, and chargebacks of a
plan; what they exclude, the code does not keep (section 5):

* calls that overlap: a spend, a refresh or a reversal that read before another committed
  (`CreditLate.cfg`, `CreditRefund.cfg`);
* of `BucketsHold`, an account whose draft opened a period (`Early`). The draft was
  charged after the period's rows were written, and is replayed before them, by its key:
  it takes what the expiry has taken, and nothing of the new grant. `Wallet` has an action of
  its own for it (`SpendEarly`), so that `KeepsWallet` shows how far the damage goes: the
  next expiry takes the plan's credits again. `BalanceFloor` is violated in consequence
  (`CreditAlone.cfg`);
* the chargeback of a pack whose credits were spent, or that was refunded before
  (`CreditAlone.cfg`, `ReplaysAgree`).

One or two calls and one account are enough, since accounts share nothing but
the cache, and each pair of lock-free regions can overlap with two calls. Costs
and amounts of 1 or 2 let a balance run out within the bound; five instants, at one of
which each call begins, let a window open, be spent from, refunded and turn.

For billing: `OneAnswer` relates the outcomes of all webhooks of a payment to its
effect; `DaysArePaid` (`AccessIsPaid`, `OwnSlice`, `OwnPeriod`) says after any
order of renewals and refunds that a subscription's slices and periods are those
of its payments. A chargeback ends a plan, and leaves the slices of its other payments
as they are: for a monthly plan the first two therefore speak of subscriptions
without one, and `RenewedIsPaid` (section 5) is what goes wrong beyond it; `RefundRevivesNothing`
and `CancelStaysPending` say what a step
may never do; `CancelDone` is liveness. Its fairness is assumed of the daily job's
callers only, not of the deletion action: the scheduler runs the daily job
(`netlify.toml`), a caller goes on with what it holds, and Rebill neither fails for
ever for a subscription nor is every caller killed between its answer and the
bookkeeping (`SF` of `Cancelled` and `Finished`). Kills and lost answers are
otherwise unrestricted. With one handler at a time `OwnSlice` holds;
`BillingLostDays` has two.

For the connection: `DisconnectStands` is what the sequence of intents is for:
whatever credential a mailbox works with came from a flow begun after the last
Disconnect. `ConsentCovers` relates the consent to the scopes of the grant, which
other flows replace meanwhile. `RevokedUnlessLost` says what "disconnected" means at
Google, and names who can make it untrue: a flow that holds the token and has still to
store or revoke it, a caller between a rotation and its storing, and a token that was
given up (a process that died, a call that failed). Nothing else is excused, not even
a flow that began after the Disconnect. `HonouredStays` says that the credential is not taken away
while it works, by whoever acts on an old answer.

For the import: `RunsFollowMailbox` relates two tables that are written by different
parties and holds without any worker awake: no run is leased while the mailbox does not
work, and none goes on or waits in one that is being disconnected or closed. That no run
stays `runnable` in a mailbox that asks for its creator is what the code says and does
not keep (`RunsStopWithMailbox`, section 5): a resume can take back the pause; the claim's own look
at the mailbox is what keeps such a run from reading. `CompleteIsTrue` looks back from
"completed" over leases that were lost, pages replayed and threads that failed.
`OvertakenDoesNothing` is about a claim's whole life: a run that was stopped and
resumed, leased again, or whose mailbox was disconnected and connected again looks
as it did, and the lease and the revision tell it apart. One Disconnect, one
reconnect and one deletion are enough for that; two workers since a third meets only
what two leave behind; two pages, the first of them empty, since an empty page is not
the last one.

For the sync: `PassedIsStored` is what a cursor is for: what lies behind
the horizon, or behind what a completed run has observed of its thread, is not asked
for again, so all of it that the rule of inclusion wants is stored or was removed by
the creator. It relates the cursor to Gmail's history, to what workers were told and
to what the threads of several runs have stored. Of the horizon it excludes the messages
that arrived between the last page of a list and its commit (`late`), and no others;
`LateIsStored`, which says it of those as well, is violated (`GmailSyncLate.cfg`). Of the observed
times of threads it excludes nothing. `PipelineSeesAll` says that the flag which starts the
pipeline is not cleared by an overtaken one. Two workers, since a third only meets a
lease that was lost; two messages and two threads, since a message is lost by one that
passes it; a removal, or a move of the mailbox, for a thread that is gone and a run that ends or pauses
between any two steps. The two do not meet: a removal touches what is stored, a move the run and its lease.

Every property has a mutant in `PROJECT.json`: a plausible fault of a mapped
definition (kept next to it, marked as a fault) under which the run reports
that property violated.

## 4. What is proved

`GmailSendProofs` proves, for any creators, hotels, keys, runs, lease, spacing,
cap and hours, and any bound on rows: `TypeOK`, `CalledOnce`,
`RecordedBeforeCall`, `SentIsAccepted`, `OneRunPerCall` as invariants,
`OutcomesStick` as an action property, and `KeepsPromise`, the refinement of
`SendPromise`. The assumptions are those `GmailSend` declares on its constants
(`BoundsAssumption`, `NoneAssumption`, `StandingsAssumption`,
`RequestAssumption`, `SentBeforeAssumption`); TLC evaluates them in every run.

None of the invariants is inductive alone. `IInv` adds two agreements:

* `RowsAgree`, between a row and Gmail: a row still waiting has no accepted
  message and no id; a stored id is the accepted message; a sent row has its
  event; a failed row never has an id stored. A failed row has a failure code and a
  `provider_error` a recorded call (`Coded`, a CHECK of the table, 0091:22, which is part
  of `TypeOK`): each statement that writes a code keeps it.
* `RunsAgree` and `OneHolder`, between a run and its row: a run that holds an
  attempt (claimed, and Gmail has not accepted its message yet) works on a row
  without an accepted message, and no two runs hold one attempt with a recorded
  call; a run that remembers or commits holds the id of the accepted message.

The preservation proof is in two layers. `Moves`, `Requeues`, `GivesUp` and
`StoresId` describe what the tables' statements may do to one row; each SQL
operator is shown to be one of them (`SweepStaleMoves`, `FailBlockedMoves`,
`SettleRowsMoves`, `FailRowMoves`, …). Each action is then shown to preserve
`IInv` and to be an `Evolves` step: `Quiet` (rows move, Gmail does not),
`Accepts` or `Commits`. `OutcomesStick` and the refinement follow from
`Evolves` alone.

`HunterProofs` proves `TypeOK` of the lookups (with it, that no bucket is used
above its cap) and `StoredAnswerStays` for every value of the constants, and
`SearchOwnsClaim` under `~Slow`. What remains for a caller is either calls on the
budget and then the search or the abandon (`OwnerTodo`), or a sequence without
these two (`OtherTodo`); `Shaped` says so of every caller, and `Alone` that a
pending row with somebody at work on it is fresh and has nobody else. The only
assumption is `HunterAssumption`, with the set of callers finite so that what they
hold can be added up.

`CreditsAreCovered` is `NeverUndercounts` and `NothingIsLost` is `LostByFailure`, for
any number of callers and domains, any cap and headroom, whatever calls fail, whoever
dies and whoever outlives a claim. Both are about one month (`MaxMonth = 1`), and about a
Hunter that counts no more for a search than the verifications reserved before it
(`Returned \subseteq 0..Headroom`): these are the terms on which the properties hold of
the code, and those of the run `HunterBudget`; a credit reserved in one month and spent
in the next is a hazard of its own (section 6), and verifications counted beyond the
headroom are reserved after the fact (`CoverOk`), so that the bucket lags until they are.

The inequality is not inductive by itself: that a caller about to ask Hunter
holds the credit it spends has to come from what it reserved before. `Leads(R, t, h, e)`
says that a caller that holds `h` can make the calls `t` and ends with `e`, where each
call finds the credits it spends or gives back, an answer is stored and a claim
abandoned only by a caller that holds nothing, and a reserve comes only while it holds
one of `R` (`Onward`). `Planned` says that the remaining calls of every caller lead to
holding nothing, with every holding in `R` while a refused reserve undoes a claim and
only the empty one otherwise, since that refusal ends the lookup; the
ways through `GiveUp`, `ReleaseOpen`, `Balance` and `Follow` are lemmas
of their own. The invariant is `Covered`: `Planned` with `NeverUndercounts`. A step of
one caller moves the sum over callers by what that caller's own holdings move by
(`HeldMoves`), and the bucket by no less, and by more only if it is exhausted or a call
failed (`Fits`, `Lossless`). The sum is a fold over a set, which the
library says nothing about: `SumsExist` ties it to a function by a sum of its own over
the sizes of subsets, with `Induct` (induction with the set of sizes as its parameter, an
instance of well-founded minimality that the provers can use).

`GmailConnectionProofs` proves, for any flows, callers and scopes and any number
of Disconnects and rotations, `TypeOK`, `DisconnectStands`, `ConsentCovers` and the
action property `HonouredStays`. The inductive invariant is `IInv`:

* `Order`: flows and Disconnects take their numbers from one sequence, and a flow that
  still has the revision of the mailbox was begun after the last Disconnect. That is
  why a late persist, whose guard compares revisions, keeps `DisconnectStands`.
* `Granted`, `Fresh`, `Turns`: a grant says which scopes it holds, a token belongs to a
  flow that has come back from Google, and of the tokens of one flow Google honours
  the last at most.
* `Dead`: what was revoked, or refused by Google, is not honoured again. With it
  `HonouredStays` follows: the code acts on such an answer only if the stored
  credential is still the one it asked with.

`GmailImportProofs` proves two things. `ImplementsConnection`: every behaviour of
the import is, on the connection's variables, one of `GmailConnection`, so that all
that is proved there holds with the import beside it. And for any workers, pages,
attempts and lease, `ImportTypeOK`, `RunsFollowMailbox`, `CompleteIsTrue` and
`OvertakenDoesNothing`, from `ImportInv`. A resume is two steps, what it reads and what
it writes, with the mailbox free to move in between: what it writes is a status, and no
lease (`ResumeLeaves`), so that no worker of a run owes it anything. `ImportInv`
adds: `Aimed` (a thread is
fetched under its name), `BlockedMail` (a closing account has no mailbox that
works), `Pinned` (a claim whose run was stopped or leased again, or whose mailbox
moved, has lost its lease or its revision), `Holding` (a worker that owns its claim
holds a thread that waits, or a list read to its end) and `Progress` (pages that
were read have no thread unseen, an imported thread is stored, and one that failed
too often says so). The assumptions are `ConnectionAssumption` and
`ImportAssumption`.

The second half of `GmailSendProofs` adds what ties the rows of the queue
together, and proves `WithinDailyCap` and `FollowUpsAgree`:

* `ThreadInv`: an attempt is named by one follow-up at most (`OwnAttempt`), a thread has
  one open follow-up (`OneOpen`), and beside a live follow-up attempt its thread has
  nothing scheduled and nothing queued for another attempt (`AloneOnThread`); a
  follow-up attempt waits only while its follow-up is queued (`WaitsQueued`).
* `Fits`: the rows made and the follow-ups that are scheduled fit in `MaxRows`, so
  that the bound of the model keeps no settle from inserting its row.
* Every step but `ScheduleFollowUp` is `Tidy`: it carries the threads along (`Calm`) or
  settles them, and records at most one call. That one is `Mark`'s, which has counted
  the creator's calls of the day in the same step (`OneStarts`).

`GmailConnectionProofs` also proves `RevokedUnlessLost`, from `Accounted`: every token
that Google honours is the stored one, or a flow's or caller's to answer for, or was
given up.

`GmailSyncProofs` proves, for any threads, workers, mail and moves of the mailbox,
`TypeOK`, `PipelineSeesAll` (with `Piped`: between two runs the flag covers what
is unseen, and the holder of the pipeline's lease has all of it), and `PassedIsStored`,
whenever mail arrives.
Its inductive invariant has two parts. `Window` says what a
run's window means: `Clocks` orders the cursor, the window and Gmail's clock; `Listed`
says what the status of each thread proves of its mail; `Enumerated` that a list read to
its end has named all of the window. `Leased` says that whoever holds the lease is at the
step the run is at, and that its answer still holds (`Answer`), which is what
`gmail_sync_begin_commit` compares lease and revision for. What arrives between the last
page and its commit is outside of the list and inside the window: `Enumerated` and `Answer`
name it by `late`, and the window that is completed hands that exception to the horizon.

`CreditProofs` proves, for any accounts, hotels, drafts, packs, payments, calls, amounts and
lengths of ledgers, `TypeOK`, `NothingTwice`, and, where `credit_config` charges no
misses (`~ChargeOnMiss`, its default), `PaidForAddress` and `DebitSaves`, however calls
overlap. It has three layers.

* Lemmas about ledgers. Balance, grants and spends are sums over the rows, so that a
  row adds its value wherever the order of replay puts it (`InsertTotal`,
  `PostTotal`), and `Balance + SpentTotal <= Granted` for every ledger (`BalanceBound`).
  Of both replays it is shown that what they leave is a natural number
  (`UnspentLeft`, `UnusedNat`), which is what the rows a call writes are typed by. These go
  by induction over the length of a ledger; the library's induction theorems
  take an operator, so that the induction is stated with the set of lengths for
  which the fact holds (`Induct`, from `WFMin`), and `Recursion` says that what follows a
  rule from its beginning is the function the rule defines.
* Classes of steps: `Quiet` ones write no row of a pack, `Frugal` ones spend nothing. Each action is
  one or both, or the commit of a spend (`Commits`).
* The inductive invariant: `TypeInv`; `SpendInv`, in which a spend between its read and
  its commit holds its account's lock (`SpendLocked`), is therefore alone
  (`SpendAlone`), and fits what was granted (`SpendFits`), but for the spends of
  a closed account that was given credits by hand (`Loose`); `PackInv`, in which a
  reversal between its read and its write is the only one of its payment
  (`PayAlone`), takes what is still there (`ReversalFits`), and a pack that is not revoked
  has no reversal (`NotRevoked`). `Shown` adds what an unlock is about to show.

`ReversalsFit` and `KeepsWallet` are model-checked only. They depend on the order of replay
and are claimed of calls that do not overlap; a theorem would have to assume
what the code does not provide.

`BillingProofs` proves, for any accounts, checkouts, payments, handlers, callers and
events, and any length of a month and a year, `OneAnswer`, `CancelStaysPending`,
`RefundRevivesNothing`, `TypeOK` and `OwnPeriod`; and `DaysArePaid` as long as no two
requests are about to write payments of one subscription (`Apart`). The assumption is
`BillingConstants`. There are three invariants, each resting on the one before.

`IInv` leaves the amounts open (windows and slices have their fields, `Rows`, whatever is
in them) and says how the parties agree:

* `Wired` and `Checkouts`, between Rebill and the database: a log is about a payment
  Rebill has, and a checkout Rebill has is in the database or its account is erased and
  its id remembered.
* `Locks`, between handlers: two that are about to write have logs and payments of their
  own. `Ready` is what that buys: of what a handler has read, the effect of its payment,
  the results of its logs and the queue still hold when it writes, though the
  account may have been closed in between. `Applied`, `Queued` and `GrantStands` follow,
  which are `OneAnswer`.
* `CancelsTrue`, between the callers of the cancel and Rebill: "cancelled" is told of
  what is cancelled. A cancel leaves the queue only on being told so.

`TInv` adds the amounts (`Typed`: windows, slices and keys are of naturals) and what a
request has heard from Rebill (`Heard`). That a window which is extended, shifted or cut
is one again rests on the order of its ends, and that a key is one on there being a free
number at all: the payments are finite, so that `OwnKey` has a least period to take
(`WFMin`). A refund numbers what is left by rank (`Renumbered`, a recursive function along
the slices). What the arithmetic of periods computes is proved in `PlanSlicesProofs`, which
the proofs about credits use too: every slice has a rank (`Ranks`), and by induction
over the ranks each is given a period and one of its own. `OwnPeriod` follows, of any
requests, overlapping or not.

`DInv` is about days:

* `Tiled`: the slices of a monthly plan are disjoint, those that last end within the
  window, and from the first of these to the window's end there is no gap. Disjointness
  alone is not inductive: that a refund of a later slice moves the ones after it onto
  nobody's days takes the first two, and that the window may be cut to the first and last
  of what is left takes the third.
* `Paid`: each moment that is left of a window is in a slice. For an annual plan, which
  a refund or a chargeback ends, this is all that is needed.
* `Over` (a window that is not active has no time left), `Disputes` (a monthly window is
  revoked by a chargeback only), and `Fresh`: what a request has read of window and
  slice is what it writes from, or is as over as what there is. `Fresh` is where `Apart` is
  needed, and `BillingLostDays.cfg` shows that it is: two overlapping payments of one
  subscription do buy the same days.

The proof found that `AccessIsPaid`, as it stood, was false after a chargeback, at a
number of payments no run had: section 5, `RenewedIsPaid`.

Proofs also corrected the models. A CASE with overlapping guards means nothing to the
prover, although TLC takes the first: several in the connection, the import, the
sync and the replay were made exclusive.

Only model-checked are liveness, which is out of the prover's reach, as `ENABLED` is
(`ComesToRest`, `DeletionDrains` and `CancelDone`), and the two properties of the order of
replay, `ReversalsFit` and `KeepsWallet`. The other properties of the runs are
stated by theorems, `DaysArePaid` under the assumption named above.

## 5. Where documents and code disagree

Each of these is a configuration in this directory, run by hand as `tlc -config
X.cfg M` with the `MC` module of its component; TLC finds its properties violated.

* `GmailFollowUpLimit.cfg`, `AtMostTwoFollowUps`: D171 allows two follow-ups on a thread. A follow-up whose
  recipient is rejected while its message is being called is `stopped`; the
  commit then closes only `queued` follow-ups; the slot is free again.
* `GmailNotSent.cfg`, `ProviderErrorMeansNotSent`: a run killed after Gmail accepted the message
  leaves a called row
  without an id, which the sweep writes as `provider_error`, shown as "Gmail
  didn't accept the message. It was not sent."
* `GmailReplyHotel.cfg`, `NothingBesideInFlight`: a reply that names its pipeline item but no hotel passes the
  check for a send in flight, since the check precedes the filling-in of the
  hotel.
* `HunterMonth.cfg`, `FailsClosed`: the buckets are to stop at their cap in a month. A credit
  reserved before midnight UTC on the first is spent or released in the next
  month's row, so that Hunter counts more than the cap there.
* `CreditAlone.cfg` (with `-continue`), one call after the other. `BalanceFloor`: the
  balance does not go below zero but by a chargeback ("the balance does not go below zero",
  `docs/DECISIONS.md:4954`). A draft whose transaction opens a period is charged
  from the new grant and replayed before the old one's expiry (both carry one `created_at`, and
  `ai_draft:` precedes `plan_expire:`); the credits it took from the new grant expire
  with that once more. `ReplaysAgree`: one rule for reversals in both replays (D140). The
  chargeback of a pack that was refunded, or whose credits were spent, counts as plan credits in one
  of them.
* `CreditRefund.cfg`, `BalanceFloor`: as above, by a refund. It reads balance and
  unused credits (0106:928, 947) and writes the reversal (951) before it takes any lock
  that a spend takes (1197).
* `CreditLate.cfg` (with `-continue`), with two calls. `ActivePlanKept`: plan credits are
  reversed when the period is over (D135). A refresh that began before a plan was paid and
  waits for the lock reverses the new grant, since it compares with the time it began.
  `SpendOrder`: spends take plan credits first (D135). A spend that waited is replayed
  before the grant that it spent.
* A subscription that has come to its end at Rebill is never counted as cancelled: `cancelRebillSubscription`
  takes "cancelled" as the only answer that settles it (`rebill-checkout.ts:187`), so
  that its cancel stays queued for ever. With `"finish"` among the `Events` of
  `BillingCancels.cfg`, `CancelDone` is violated.
* `BillingLostDays.cfg`, `OwnSlice`: a payment extends the window by 30 days (D135). Two payments
  of one subscription that are applied at once buy the same days.
* `BillingLate.cfg` (with `-continue`, which goes on after the first of three):
  `ClosedNotGranted`: a closed account is not granted money (0106:812); the deletion
  can commit between the check and the grant. `ClosedNotRevived`: a closed account is
  not reactivated (0106:753); an event that was checked before the request is written
  after it. `ClosedIsCancelled`: deletion stops future charges (`account/actions.ts`); a
  link that is paid after the request starts a subscription nobody cancels.
* `BillingPastRefund.cfg` (with `-continue`): `RefundKeepsOthers`: other paid periods stay
  (D140). The refund of a slice that has passed moves the present slice into the past.
  `RenewedIsPaid`: access is bought by the period (D135). A chargeback of a slice between
  others leaves those granted while the window ends; a renewal opens a new window from now;
  the refund of a slice that is not the present one then sets the window's end to that
  of the last slice which is left (0106:1061), over days that nobody paid for. It takes
  five payments, so that the configuration looks at these histories only (`PastRefunds`).
* `GmailLostGrant.cfg`, `RetryMaterialStays`: what is retained after a Disconnect is the
  credential it tried to revoke (0036:2271). A slow callback that was superseded and
  whose own token is dead by then stores that token over it, so that no retry revokes
  the grant.
* `GmailStalePause.cfg` (with `-continue`): `PausesAreCurrent`: a worker pauses its run for what
  its guard has just told it (0037:1828). The creator can consent again and resume in between;
  the pause then lands on a run that has every right to go on. `RunsStopWithMailbox`: "the
  transition itself carries the run forward" (0037:559). A resume reads the mailbox without a
  lock (0037:1952) and writes `runnable` after it; when the mailbox moves in between, the
  trigger's statement does not see a run that is still paused, and the resume takes back its pause.
* `GmailSyncLate.cfg` (with `-continue`): `LateIsStored`: the end of a run's window is
  the clock of the commit (0047:1022) and its history id that of Gmail's earlier answer,
  so that mail which arrives in between lies behind the horizon and was not listed.
  `ConnectedGoesOn`: a run that was paused goes on once the mailbox is connected again
  (D076); the pause of a slow worker lands after that, as in the import.

## 6. Not modelled

Within what is modelled:

* Send queue: the wording of messages and results, the payload hash (an idempotency
  key used again with another payload inserts nothing), trips and drafts, more than
  one mailbox per creator, time zones that differ between creators, the order in
  which a claim looks at creators, the binding of a sent event to the inbox's
  threads, how bounces are counted up to a pause (one statement under a lock).
* Lookups: Email Finder, since the unlock passes no person's name; which of the
  returned addresses is taken.
* Credits: prices and wording; the rating of a report's evidence. Of the text of an
  idempotency key the order of the prefixes is modelled (`KeyOrder`); two rows of one kind in one
  transaction keep the order they are written in. The prefixes are in the order of their bytes;
  of those that meet in one transaction (`ai_draft`, `free_weekly`, `free_weekly_expire`,
  `plan_expire`, `plan_monthly`) a dictionary's order is the same.
* Billing: amounts and currencies and the mismatch of these; plan changes (the tier
  of a subscription and its `planUpdated` event); the two refusals of a webhook that
  names another user or needs a subscription that is not there; payments from before
  0080, which have no slices.
* Connection: other Google accounts and other owners (a flow that answers for one
  gives its token up, which is in the model); the re-encryption of a stored
  credential under a new key; the withdrawal of a consent without a Disconnect;
  several mailboxes of one creator.
* Import: the purge of a mailbox's mail, the text sanitizer, the quota pacer, what a
  stored message contains, several runs at a time (a unique index allows one that
  is active).

* Sync: the date of a message, Gmail's history id and the database's clock are numbers
  of one line, as if the clocks of Gmail and of the database agreed and ids grew with time; `late` is the only
  distance between them. When a run is due (a login, or an expired backoff, is always possible), the
  attempts that are counted and the backoffs between them, the purge of a closed
  account, what the pipeline does with a thread, several mailboxes.

Components:

* AI drafting budget (0090, 0106, `compose.server.ts`). The charge of a draft is in
  `CreditLedger`. Three things were met while reading that a module would have to
  state: allowance and free drafts are read in `prepare_ai_usage` and counted when a
  draft finishes, so that several prepared at once may be free (D166 allows three a
  month); a draft whose charge is refused for lack of credits counts as used; and the
  pool is exhausted at a rounded hundred percent (D163).
* Normalization, chronology, commercial meaning (0038–0048). Rules about the text of
  mails, and versions of their results; a write replaces the rows of one thread in one
  transaction. The rules are wording, which a model would only repeat.
* Pipeline and collaborations (0019–0023). What an unlock meets of them (the saving of
  a hotel, the free allowance, the closing of an item) is in `CreditLedger`; the stages
  are single-row updates under the row's lock.
* Account deletion. The request is an action of each module that meets it, and the
  erasure of billing's rows is in `RebillBilling`; the purge of mail is deletion by
  batch.
* Catalog import and promotion, intelligence: one operator's job over files, and
  aggregates that are computed anew. Trips, profiles, onboarding, brands, share links:
  forms of one user over row-level security. Pages and design: rendering. None of
  these has a protocol between parties.

## 7. Plan

Done: `GmailSend` with `SendPromise`, `HunterLookup`, `CreditLedger` with `Wallet`,
`RebillBilling`, `GmailConnection`, `GmailImport` composed with it, and `GmailSync`;
runs for all of them; proofs for all of them.

To come, in this order:

1. `AiBudget`: prepared usages against the month's budget and the pool.
2. `Pipeline`, composed with `CreditLedger`, and `AccountDeletion`, composed with the
   queue's drain and the purge.
3. The order in which the send functions take row locks, as a module of its own.
