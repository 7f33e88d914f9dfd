# Countersign guard: verification project

TLA+ models of the Countersign guard and of the services around it, TLC runs that
check them on small instances, and TLAPS proofs for every value of the constants.

Countersign is a paid co-signer. A treasury's key is a threshold of the agent's key
and the guard's key. The agent proposes a Hedera schedule (or a frozen transfer), and
asks the guard for its signature. The guard charges the request through x402, checks
it against a *mandate* signed by the treasury's owner, signs or refuses, publishes the
verdict on a Hedera topic (HCS) and keeps a durable replay ledger, so that a mandate
authorises at most one payment.

## 1. Inventory

| component | source | state it keeps | operations | talks to |
|---|---|---|---|---|
| guard request handlers | `src/src/server.ts` 393-775 | per request: where it stands, the schedule it read, the clock it read | `handleReviewRequest`, `handleCountersignRequest`, the dispatcher's error answers | everything below |
| replay ledger | `src/src/replay-store.ts` | SQLite table `mandate_reviews`, key (tenant, nonce) | `reserveMandateReview`, `completeMandateReview`, `getMandateReviewState` | the handlers; any other process with the same file |
| schedule review rules | `src/src/review-schedule.ts` | none | `reviewSchedule` | the handler of `/review` |
| transfer rules and signature | `src/src/countersign-transfer.ts` | none | `validateCountersignTransfer`, `countersignTransfer` | the handler of `/countersign`, the token query |
| verdict log | `src/src/verdict-log.ts` | an HCS topic | `openVerdictLog` (look the topic up and check it, or create it), `record` with its length limit | HCS |
| payment gate and meter | `src/src/payment-gate.ts`, `payment-meter.ts` | none of its own; the facilitator settles | configuration check, `requirePayment` (terms, identity filter, verify, settle), `quoteCountersignMeter` | x402 facilitator, the meter |
| start-up and network resolution | `src/src/server.ts` 851-1146 | configuration | `createProductionReviewServer`: configuration, accounts, key trees, store, gate, topic, in this order; `resolveSchedule`, `submitScheduleApproval` | Hedera |
| A2A adapter | `src/src/a2a.ts`, `scripts/serve-a2a.ts` | `tasks`, at most 256, in memory | `message/send`, `tasks/get`, `tasks/cancel` | A2A clients; the guard's `/review` |
| hosted sandbox | `src/scripts/serve-sandbox.ts` | durable `sandbox_runs`, `sandbox_identity`; in memory `tail`, `queued`, `buckets`, `storageFailed` | `POST /sandbox/run`, `GET /sandbox/runs`, restart | Hedera, `/review` |
| recurring controller | `src/scripts/recurring-payments.ts` | `previousNonce`, `results`, a journal | `runRecurring` | the sandbox, the mirror node |
| clients that pay | `cosigned-client-signer.ts`, `hosted-review.ts`, `guarded-purchase.ts`, `hts-purchase.ts`, `evidence-links.ts` | observations of one run, an evidence event | one review, or two purchases and a report | the guard, a seller, Hedera, the mirror node |
| narrated live flow | `scripts/live-flow.ts` | none that outlives a run | provision, review, return the balances | a guard in its own process, Hedera |
| mandate format | `src/src/mandate.ts` | none | parse, canonical digest, ed25519 verification | handlers, sandbox, scripts |
| evidence manifest and identifiers | `evidence-manifest.ts`, `hcs14.ts`, `build-evidence.ts` | none | pure validation and derivation | files |
| provisioning, serving, spikes | `scripts/provision-*`, `serve-guard.ts`, `sign-sandbox-mandates.ts`, `spike-*` | none | straight-line scripts against live accounts | Hedera |
| Python client, web pages | `src/python`, `src/web` | none | payload construction; static pages | the guard |

How they interact: the sandbox and the A2A adapter are HTTP clients of `/review`; the
recurring controller is an HTTP client of the sandbox; the purchase scripts are clients of
`/countersign`, the hosted review of `/review`. All of them read the mirror node, which lags. The handlers call the ledger
synchronously and every other collaborator through an `await`.

### Behaviours that are hard

- **Interleaving.** Two requests for one nonce, on one route or on both, run through the
  same awaits at once. The lookup, the review and the reservation are three different
  moments.
- **Stale reads.** The schedule, the ledger state and the clock are read once and used
  after further awaits. Consensus applies signatures and bytes long afterwards.
- **Partial failure.** Reserve, sign, receipt, publish, complete, answer: any of them may
  fail, or take effect and look as if it had failed.
- **Crash.** Only the ledger, the network and the topic survive. A signature in flight may
  land after the restart. The sandbox restarts over runs that were marked running.
- **Retries.** A client that lost its answer pays again and asks again. It must be served
  the stored approval, or told to wait, and not be refused what was signed.
- **Late evidence.** A settlement, a transfer or an execution may come after the answer was
  given up, and the mirror node shows it later still: what it does not show proves nothing yet.
- **What start-up trusts.** Keys, accounts and the topic are looked at once; whoever holds a key
  of the topic may change it afterwards.
- **Limits.** Task map, queue, address buckets, finite pool of signed envelopes, 1024 bytes of a
  published record, the bounds of the metered quote.

The individual hazards, each at its line, are the list `hazards` of `PROJECT.json`.

### What makes each component correct

- *Handlers and ledger*: one signature and one treasury movement per tenant nonce; a
  binding is permanent; signatures only for paid, authentic and reviewed requests;
  approvals only after publication and completion; money moves only while the mandate is
  active; a retry does not contradict what was signed; every request is answered.
- *Review and transfer rules*: an accepted transaction takes from the treasury no more
  than the mandate allows and pays an allowed recipient; no accepted transaction is
  usable after the mandate expires.
- *Payment gate*: work only for a settlement of its own, of exactly the fee of the body worked
  on; no treasury pays, signs for or receives a fee; a quote is the least that pays for the
  body, within its bounds.
- *Start-up and verdict log*: whatever is deployed, a treasury that start-up accepted opens, by the keys
  start-up found, for its owner or for agent and guard together and for nobody else; while the
  server serves, the topic takes the guard's messages alone and for nothing.
- *Clients that pay*: at most one fee per proposal, within the client's cap; what a report or an
  evidence event says of fees, purchases and absences is so and stays so; a run ends.
- *A2A adapter*: one call to the guard at a time per task; a task is paid at most once
  as far as the adapter can know; terminal states are final; capacity is given back only
  for rejected unpaid tasks.
- *Sandbox*: an envelope is used at most once, across restarts; consumption is durable
  before any effect; a visitor that was told 202 has a run that is kept, while a 202 that was lost
  may have cost an envelope all the same; runs are serial; the queue, the buckets and the pool account
  exactly; every admitted run ends.
- *Recurring controller*: at most one payment outstanding; no repeated POST; ascending
  nonces; stop at the first refusal or failure.

## 2. Plan

Modules in the order they are written; the most important behaviour comes first.

1. `ReplayStore`: the ledger at the grain of one transaction. **done**
2. `GuardServer` (extends `ReplayStore`): both handlers with clients, network, clock and
   crashes. **done**
3. `SingleUseMandate`, `GuardImplements`: the promise and the refinement. **done**
4. `GuardServer_proofs`, for the ledger, the guard and the refinement. **done**
5. `ReplayStoreTx` (extends `ReplayStore`): the transactions of the ledger opened up
   (BEGIN, COMMIT, ROLLBACK, busy, several processes, crash), refining the `StoreSpec` of
   `ReplayStore`, with its proofs. **done**
6. `A2aAdapter`: tasks, capacity, one payment per task, cancellation, lost answers, with
   its proofs. **done**
7. `Sandbox`: queue, buckets, durable runs, envelope pool, restart; `Recurring` (extends
   `Sandbox`): the controller over it; `Sandbox_proofs` for both. **done**
8. `Transfers`, `Validation` (extends `Transfers`), `TransferRules` and `ReviewRules` (both extend
   `Validation`): the two validators check by check, with what consensus makes of what they let
   through; `Transfers_proofs`, `TransferRules_proofs`, `ReviewRules_proofs`. **done**
9. `StartUp`, `PaymentGate` (extends `StartUp`): every check before the server serves, the topic,
   settlement before work, the identity filter, the metered quote. **done**
10. `Purchases` (extends `PaymentGate`), `HostedReview` (extends `Purchases`): the clients, their
    signer, the mirror node they believe; `PaymentGate_proofs` for modules 9 and 10. **done**

What could follow: `live-flow.ts`, whose provisioning creates an account that nothing returns to
when the answer to its creation is lost.

## 3. Modules and their correspondence to the code

`PROJECT.json` maps every definition to its lines. Definitions whose comment begins with
"Fault:" are seeded bugs: a variant of the definition they precede (a dropped guard, a
missing reset, a swapped order). They are part of no specification; each run property is
known to fail when one of them takes the place of the definition.

**`ReplayStore`**: `rows`, a function from (tenant, nonce) to a row or none, is the table
`mandate_reviews`. Digests are represented by the mandate itself. The completion columns are
written by one UPDATE and represented by one of them, the settlement. `Reserve`, `Complete`
and `ReviewState` are the three exported functions. Values that fail the row checks
(`validateCompletedReview`) cannot be written by this code and are left out.

**`GuardServer`**: one process per request. `pc` says which await the handler is at; what it
carries over an await is in `snap`. The steps of `/review` are Arrive, Settle, LookUp,
ReadSchedule, DecideReview, ReserveNonce, Sign, Receipt, PublishApproval, CompleteNonce;
`/countersign` goes over Validate and TokenInfo instead. A losing reservation goes over
Recheck or LookUpAgain. PublishRefusal is the other end. CallFails and StoreBusy are the
dispatcher's catch clause, at every await; a failed settlement or publication may have taken
effect. Crash ends every handler at once. The world is the clock, the agent's signature,
signatures that consensus has not applied, and executed targets: a schedule executes when the
guard's signature reaches it, a countersigned transfer when its bytes are out.

What the validators decide from the bytes alone is the constant `Clean`, with the two facts
`CleanPairs`: the target closes no later than the mandate expires, and `/review` refuses token
schedules. The memo of a schedule is the mandate's digest, so a schedule is clean for one
mandate; a transfer's memo is free (`countersign-transfer.ts` does not look at its value), so
the same bytes may be clean for several mandates and spend several nonces, and still move the
treasury once. What the validators decide from the clock, the signers and the network is in
the actions, at the step that reads it.

**`SingleUseMandate`**: what a treasury's owner is promised, without server, ledger or
network: bind, authorise, move, attest, seal, each at most once per nonce, in that order.
**`GuardImplements`** instantiates it over `GuardServer`.

**`ReplayStoreTx`**: `withReplayDatabase` in steps. A caller opens the file, begins (a write
takes the one write lock, a lookup none), runs its statements on a `draft`, commits, closes.
A dirty transaction commits only when no lookup holds its shared lock. Waiting may end in
`Busy`; a process may `Die` anywhere, also inside COMMIT, after which the file holds all of
the transaction or none of it.

**`A2aAdapter`**: `state`, `note` and `receipt` are the status and the metadata of a task in
the map `tasks`; `awaiting` is the handler that is inside its `fetch`. `job`, `answer` and
`settled` are the guard as seen from here. The answers are told apart as the code tells them
apart: 402 with terms, 402 without, another error, a usable verdict, a verdict whose
settlement is not this payment's, anything unreadable. `GiveUp` is the two-minute abort, after
which the guard may still settle.

**`Sandbox`**: `table` is `sandbox_runs`; `runs`, `storageFailed`, `queued`, `tail` and
`buckets` are the variables of `createSandbox`; `worker` and `current` are the callback at the
head of the promise chain. A run's record has the outcome and the three steps that can end in
more than one way (the step `envelope` is done from the start). Each action runs from one
answer to the next await, `OpenRun` and `StartSchedule` apart although nothing but a crash can
come between them. `client` is what each visitor was told. `OpenRun` makes the run durable and
resolves the promise of the answer (`accepted`); the 202 is delivered, or finds the visitor gone,
in a step of its own (`Answer`), while the worker goes on or after it has finished. A crash in
between leaves a run whose visitor was never told. The last five variables are the truth: what was sent to consensus and to
the guard for a position, and what came of it, possibly after the process died.

**`Recurring`**: the controller of `recurring-payments.ts` over the sandbox itself. `phase` is
where `runRecurring` waits; `results` is what it has journalled; `previousNonce` is the
variable of that name. Its posts are requests of the sandbox that reach it any time after
`Begin`, also after the controller gave up on the answer. `Observe` is one GET of the run with
all its checks, `NotIndexed` and `Verified` are the mirror node's answers, `Fail` the catch
clause. An occurrence whose 202 was lost may have spent an envelope; it is never sent again.
Nonces are positions, because the signed nonces are contiguous and ascending.

**`Transfers`**: a transfer list, what both validators ask of its two adjustments
(`AdjustmentsPass`), and the ledger's side: the change of every balance (`Applied`) and what a
mandate lets change (`WithinMandate`). The properties of the two modules below speak of
balances, not of the checks, so that a check that is missing or too weak shows as value that
moved. **`Validation`** is what a request to either has: its mandate, the clock, where it stands,
the balances. `MCValidators` runs the two side by side, one request each, over the same lists.

**`TransferRules`**: one request to `/countersign`. `Validate` is the synchronous part of
`validateCountersignTransfer`, `TokenInfo` its query, `Countersign` the signature on every
transaction of the list. Afterwards anybody submits any of them at any time; consensus
executes a transaction ID once. `plain` stands for the checks that only reviewed fields are
there (`onlyFields`, no scheduled flag, no nonce): a transaction that is not plain is let do
more. Decoding and re-encoding decide membership in `Submissions`. Time has a resolution of
its own, so that the whole seconds of the guard's clock and of the mandate differ from the
nanoseconds of a valid start.

**`ReviewRules`**: one request to `/review` over the three queries of `resolveSchedule`, while
the schedule is created, signed, deleted, executed or forgotten and the network is upgraded
at any point. `hidden` is what a later network version may put into a schedule and the audited
message definitions do not show; it is why the version is read before and after the schedule.

**`StartUp`**: `config` is a deployment (tenants with their key trees as consensus holds them,
guard, fee account, prices, meter), `boot` the next thing `createProductionReviewServer` looks
at, `topic` the topic as consensus holds it. One action per await: `CheckConfig`,
`QueryFeeAccount`, `QueryTenants`, `OpenStore`, `CreateGate`, `LookupTopic` or `CreateTopic`;
`CallFails` at each of them, `Crash`, `Restart`. Key trees are two levels of threshold lists;
`Opens` says what opens one on the ledger, independently of the code's check. The lengths of
published records (`ScheduleRecord`, `TransferRecord`) are sums of the lengths of their parts.
`AdminChangesTopic` and `FeesChange` are what the holders of a topic's keys may do at any time.

**`PaymentGate`**: `call` is the request at the guard and its answer, `fees` the payments signed
so far with their fate (signed, submitted, executed, seen on the mirror), `worked` what the guard
worked on. `Challenge`, `Verify`, `Settle`, `Decide`, `Publish` are the way of a request through
the gate and back; `SettleFails`, `SettleAnswerLost`, `WorkFails`, `AnswerLost`, `CrashAtWork` the
others. Terms are recomputed for every request, from its own body, as in the code.
`StrangerCalls` is anybody: no payment, a new one of any form, or one sent before, with terms
asked for any body. Handling is for one call at a time; concurrent requests are `GuardServer`'s.

**`Purchases`**: `script` is which client runs. `phase` and `turn` say where it stands,
`transfers` what became of its two proposals, `observed` is `PurchaseObservation`, `claims` what
it reported. `Ask`, `OnChallenge`, `OnApproval`, `OnRefusal`, `OnNoVerdict` are
`createPartiallySignedTransferTransaction` with its payment client; `Submit` is where the
countersigned bytes leave the process. The two scripts differ in who submits, in what a failure
ends, in the order of their looks and in the fee they expect. `Tick` is time; the mirror shows
what was executed at most `Lag` ticks later.

**`HostedReview`**: the review client of `hosted-review.ts` with the schedule it creates, and
`Next`, `Spec` of the whole paid service: server, gate, ledger, mirror and one client.

## 4. Runs, what they show, and their bounds

| run | shows | bounds |
|---|---|---|
| `guard_safety` | signatures, executions, ledger and answers are safe under any interleaving, failure and crash | three requests; a mandate over HBAR and one over a token on nonce 1, one over the token on nonce 2; a schedule, also asked for under the wrong mandate, and a transfer clean for both nonces; clock 0..2 |
| `guard_promise_and_liveness` | the guard implements `SingleUseMandate`; every paid request is answered; what was signed is not refused to a later request | two requests over both routes and two successive nonces, a token, a forged mandate; clock 0..2 |
| `replay_store_tx` | any number of processes on the file look like one transaction at a time | four callers; two mandates on nonce 1 and one on nonce 2, two targets, all three calls |
| `a2a_tasks` | one payment per task, true and retained receipts, final ends, no task at work for ever | three tasks, a map of two |
| `sandbox_and_controller` | an envelope is used once across restarts; records are durable, true and kept; the queue is exact; occurrences are spent in turn and the journal is true; requests are answered unless the answer is lost, runs and the controller end | two occurrences and one visitor from one address, two envelopes for the three, one place in the queue, one observation before a deadline |
| `validators` | what consensus makes of countersigned bytes and of signed schedules stays within the mandate, once and in time | an HBAR and a token mandate; transactions and schedules with up to two respects wrong, lists of two with up to one each; one network upgrade; two ticks a second, three seconds |
| `paid_service` | start-up lets only guarded treasuries and a held topic through; fees pay for work exactly and never from a treasury; clients pay once, report the truth and end | thirty-six deployments, most of them wrong in one respect or different in their fees, six kinds of topic, one client at a time, one payment of a stranger in thirteen forms, two purchases; validity 2 ticks, grace 1, lag 1 |
| `review_retry_after_expiry` | finding 1 | two requests for one schedule |
| `countersign_retry_race` | finding 2 | two requests for one token transfer |
| `sandbox_verdict_step` | finding 3 | as `sandbox_and_controller`, with three envelopes and without fairness |
| `guarded_fee` | finding 4 | as `paid_service` |
| `verdict_budget` | finding 5 | as `paid_service` |

Why the bounds are enough to be interesting: three requests are one that holds a nonce, one
that races it and one that retries after either ended; two nonces and two tenants exercise
the high-water mark and its scope. Mandate `m1` is active at time 1 only, so that the clock
passes its start and its end while a handler waits; the validity floor of 30 s is a number
of the model (0 here, any natural in the proofs). Four callers of the ledger are a writer, a
second writer that waits, a reader that blocks a COMMIT and one more that comes after. Two
tasks fill the map of two and a third finds it full. With one place, one
address and an envelope less than requests, the sandbox meets the full queue, the filled bucket
and the empty pool, and a visitor may come before, between or after the occurrences. Longer
queues and larger pools, in which more than one request waits in line, are left to the theorems
of `Sandbox_proofs`, which hold for every number of either. The submissions and
schedules of the rules differ from proper ones in payer, fee, window, asset, adjustments (14
lists, with a wrong sign, sum, order, recipient, debtor, count or flag), NFTs, signatures and
unreviewed fields; with two ticks in a second a window can end inside a second. The deployments of `MCPaidService` are wrong in one respect each, in the first tenant or
in the second, because start-up refuses at the first check that fails; the two bodies of a
stranger cost different fees, so that terms of one sent with the other are told apart, and a
third and a fourth meter hit both bounds. One payment is enough for a replay, which is the same
payment sent again. The constants of the
code these stand for (256 tasks, two places, 200 envelopes, 30 seconds) are parameters.
Request symmetry is used only where no liveness is checked.

Deadlock is not checked: every instance ends when its requests, tasks or envelopes are used
up. What must not stop is stated as a liveness property.

### Fairness

- Handlers of the guard: weak fairness per request. An await is an HTTP call, a Hedera query
  or an SQLite call, all with timeouts, and Node runs every settled promise.
- Handlers of the A2A adapter: weak fairness per task; the fetch is aborted after 120 s.
- The worker of the sandbox: weak fairness; its calls have timeouts of 30 s and 60 s. The delivery
  of an answer: weak fairness; the handler of a resolved promise runs, and the event loop writes the
  202 or finds the connection closed (both are `Answer`).
- The recurring controller: weak fairness; every call has a timeout and every loop a deadline,
  here a number of observations. Nothing is assumed of the sandbox for it to end.
- The paid service: weak fairness of the client that runs (every call and every loop of the
  scripts is bounded), of a call at the guard (it is answered or given up), of time and of the
  mirror node showing what was executed, which the scripts' constants assume as well.
- Nothing is assumed of other clients, the agent, consensus, the facilitator, crashes or
  start-ups.

## 5. Findings

1. `review_retry_after_expiry`. A review that failed after the signature executed leaves a
   pending row. Its retry resolves the schedule before anything else; once the schedule has
   expired, consensus no longer knows it and the guard publishes a refusal of what it signed
   (`server.ts:500-516`), which `test/server.test.ts:2026` says cannot happen.
   `SignedTupleNotRefusedAgain` states what does hold.
2. `countersign_retry_race`. `/countersign` reads the ledger before its token query and not
   again before a refusal; a sibling that reserved meanwhile is contradicted while its
   approval is being recorded (`test/server.test.ts:1960`).
3. `sandbox_verdict_step`. When the paid review's answer is lost, or the process dies during
   it, the step `verdict` is recorded as `never-happened` although the guard may have
   published its verdict; the service's own document calls that outcome unknown.

4. `guarded_fee`. `/countersign` is metered and the client accepts any quote between floor and
   ceiling, but the report of a guarded purchase passes the flat price for the fee it expects on
   the mirror (`guarded-purchase.ts:331`): a fee above the floor, correctly paid, fails it.
5. `verdict_budget`. `validateVerdictParticipantIdentifiers` leaves room for an approval of
   `/review` only (`verdict-log.ts:132`); with identifiers it accepts, the refusal of a transfer
   may be longer than a message and the paid decision is answered 500.

## 6. What is proved

For every value of the constants, from the assumptions named in the modules
(`StoreConstants`, `GuardConstants`, `CleanPairs`, `NoRowIsFree`, `TxConstants`,
`ValidationConstants`, `TransferConstants`, `ReviewConstants`, `SandboxConstants`,
`RecurringConstants`, `ConfigTypes`, `PaymentTypes`, `PurchaseConstants`):
TLAPS checks the theorems listed in `PROJECT.json`. `A2aAdapter` needs no assumption for its safety.
Every safety property and every action property of the passing runs is a theorem. Of the two rules
it is assumed that the treasury's, the guard's and all other accounts differ (`AccountConstants`;
start-up compares the keys) and that a mandate's numbers are naturals (`MandateConstants`; the
format's decimals are unsigned).

- **`GuardServer_proofs`**: `TypeCorrect`; `InductiveInvariant`; from it one signature and one
  movement per nonce (`MovesSpendNonces`), signatures only for reserved tuples, sealed rows attested, approvals
  sealed, movements inside the mandate, permanent bindings. The safety properties are not
  inductive: that a signature is unique needs that *whoever is about to sign* already owns the
  row. `Inductive` therefore lets a request claim its nonce from the reservation on: a claim
  is bound to the row (`ClaimsBound`), claims on one nonce are one request's (`ClaimsUnique`),
  signature, effect, publication and completion come in this order (`InOrder`), effects have
  signatures behind them (`Effects`), and each step has been through the earlier gates
  (`Gates`). `ApprovalNamesPayer` keeps a stored approval from quoting an open row.
  `SignedTuplesStay` follows one request: once its tuple is signed, a request that has not looked the
  ledger up yet finds a pending or a completed row, and on `/review` a schedule with the guard's
  signature, unless consensus has forgotten it (`Forgotten`); `FollowsSigned` says where it can stand,
  never at a reservation, and that it comes to a refusal for a forgotten schedule alone.
  `GuardUsesLedger` says that the guard writes the ledger by its two operations alone, which are
  what `ReplayStoreTx` implements by transactions. `GuardIsSingleUse` is the refinement. A step of the guard binds, authorises, moves, attests or
  seals one nonce, or is a stutter; `Inductive` supplies the guards of the abstract steps.
- **`ReplayStoreTx_proofs`**: `TransactionsImplementStore`, `OneCallerReserves`,
  `AnswersAreFinal`. The invariant `TxInductive` says that an open write holds the lock and
  that what it concluded from the rows it read is still so: nobody else can commit a write.
  Answers stay true because a row never loses its tuple and a nonce that was refused stays
  refused (`RefusalStable`).
- **`A2aAdapter_proofs`**: every action but the restart is one task's, so the invariant is
  proved for the task that acts (`TaskStep`) and framed for the others (`TaskFrame`).
  `CallInv` ties a task at work to the handler that awaits an answer, `SettleInv` ties what is
  shown to what was settled. `KeepsReceipts` and `KeepsPaidTasks` look at the one task a step is of
  (`OneTaskActs`): a handler leaves what it learnt, and a slot is given back only where `SettleInv`
  excludes a payment.
- **`Transfers_proofs`**: lemmas for both paths. The change of a balance is a sum over a list. The
  library defines it by recursion over the subsets of the list's positions; a list the guard signs
  has two of them (`TwoKinds`), and for none, one and two positions the recursion can be unfolded
  (`SumOfNone`, `SumOfOne`, `SumOfTwo`), which is why no induction over data is needed.
  `PaymentWithinMandate`: a transfer of that shape, at somebody else's charge, moves what the
  mandate allows and nothing else. `SecondsReached` is the step from whole seconds to ticks.
- **`TransferRules_proofs`**: `TransferInvariant`, and from it `ReleasesOnce` (one transaction
  ID behind the whole list), `SignsAsMandated` (two adjustments, equal and opposite, one
  allowed recipient, within the cap), `TransfersKeepMandate` (the balances) and `MovesInTime`. The
  invariant carries what the checks saw over the query, the signature and consensus; that the
  token's fee stays nothing needs that nobody holds its key any more (`FreeOfFeesForGood`).
- **`ReviewRules_proofs`**: `ReviewInvariant`, and from it `ApprovesWhatItSaw`,
  `SchedulesKeepMandate` and `SchedulesMoveInTime`. The guard's signature reaches only what it
  approved (`SignedIsApproved`); what it approved is what it read, because an ID is created once
  (`SeenIsCreated`); and a part it could not see means an upgrade before the creation
  (`HiddenIsLater`), which the second look at the version excludes.

- **`Sandbox_proofs`**: `SandboxInvariant`, and from it `EnvelopesAreSpentOnce`,
  `AdmissionIsDurable`, `QueueIsExact`, `ShownIsDurable`, `RecordsAreTrue`, for any number of
  visitors, envelopes and restarts. `AdmissionIsDurable` needs that a
  run is in the table before its 202 is on the way (`SpentInductive`), and that a request is with the
  worker or in the queue at most once, so that none spends two envelopes. The converse, that a
  visitor whose answer was lost has spent nothing, is not promised (`recurring-payments.ts:101`) and
  is false when the process ends between the insert and the answer. That a position is ordered and
  paid for once is not
  inductive: it needs that a record which calls a step pending has not begun it (`TrueRecord`),
  that the worker stands where the last record says (`StageRecord`), and that nothing was ordered
  for a position without a record (`WorldInductive`). `RecurringInvariant` adds what the controller
  knows of an occurrence (`OccurrenceIsTrue`) and where it stands (`TurnInductive`): it goes on only
  after an approval, and the next post has not left it, so that its record, if there ever is one,
  is appended later. `OccurrencesInTurn` and `JournalHolds` follow; `ControllerUsesSandbox` says
  that the sandbox's theorems hold of the two together.
- **`PaymentGate_proofs`**: `PaidServiceInvariant`, and from it `TreasuriesAreGuarded`,
  `TopicIsHeld`, `TreasuriesPayNoFees`, `PaidInFull`, `ClientsPayOnce` and `EventsAreTrue`, all of
  `Spec`, the service together with whichever client runs, for every deployment, every meter and
  any payment anybody can form. `GateInductive` ties `boot` to the checks already passed and to what
  the ledger still holds, a call past the gate to a payment that passed the filter under the same
  deployment, and each piece of work to a payment that was executed for it and cannot be executed
  again. `SpendInductive` says for which proposals a client may have signed, given where it stands;
  that it signs once needs that nothing leads back from a paid call to the proposal it was for
  (`MovesOn`). `AnswerInductive` says what a receipt and an outcome in an answer mean, and
  `ReviewInductive` that the schedule was executed only if the call at hand approved it or lost its
  answer; so a refusal that arrived excludes an execution. `ReportsAreTrue` rests on
  `PurchaseInductive`. A transfer executes before its window ends and is on the mirror at most `Lag`
  ticks later (`LedgerInductive`); as `Lag <= Grace`, one that the mirror does not show when `Grace`
  has passed since the window never executed and never will. What a script noted of fees and
  approvals is so (`NotedInductive`), and so is what it reported (`ClaimsInductive`); a pass further
  needs that a script which has not come to its second purchase has left it alone (`AtPurchase`,
  `Ahead`), and that two fees are then all there are (`OneFeeEach`). `QuoteIsFair` is about the quote
  itself, for every body and meter; its rounding is a lemma about `\div`. Assumed are the types of a deployment, of a payment and of a body, and that the flat
  price is below the cap the clients hold a quote to and `Lag` not above `Grace` (`PurchaseConstants`;
  1000000 and 10000000 in the code, which waits 30 seconds for the mirror).

**What ends.** Liveness under fairness is TLC's, but half of it is not about fairness: that what
goes on comes nearer to its end, by a measure in the natural numbers, and that nobody else takes
it back. These halves are theorems. `HandlersEndWithinBound`: ten steps of its own for a request
(`StepsLeft` by program counter; lost races, a busy ledger and failed calls lead forward).
`WaitsEndWithinBound`: a visitor that waits is in the queue or with the worker (`NobodyForgotten`),
`StepsAhead` of the decision on its request, the worker's steps with the current run and seven for each place in the
queue; uniqueness in the queue (`WaitingExact`) makes the place one. A run, which ends within five steps of the worker, is
the last part of that sum (`WorkMoves`). `ControllerEndsWithinBound`:
`2 * Looks + 5` steps an occurrence. `ScriptsEndWithinBound`: nineteen steps; that `hts-purchase`
does not go from the purchase to the fee and back for ever needs that it looks only for a fee that
was paid and a purchase that was made (`HtsLooksForSomething`). What is left to fairness is that
whoever has a step to take takes it.

Only model-checked: the six liveness properties (`EveryRequestAnswered`, `WorkEnds`,
`RequestsAreAnswered`, `RunsEnd`, `ControllerEnds`, `ScriptEnds`), because the prover has no rules
for fairness and `ENABLED`, and the findings, which are counterexamples.

## 7. What is not modelled

- `live-flow.ts`: its review is the one of `HostedReview`; the rest provisions accounts and
  returns balances in one straight line.
- Mandate parsing and signatures, the evidence manifest, identifiers, provisioning, spikes, web
  pages and the Python client: pure functions, static data or straight-line scripts over live
  accounts.
- The x402 library, the facilitator and Hedera below the answers the code tells apart; they are
  the external definitions of the map.
- Of the paid service: amounts near 2^63, a treasury's key rotated after start-up (the code looks
  at it once and so does the model), the token set-up in front of the first `hts-purchase`, the
  looks before the last one where only the last one decides, a client process that ends.
- What the guard makes of a request whose caller has left is `GuardServer`'s; in `PaymentGate`
  the call is over when its answer is lost.
- `CleanPairs` is an assumption of `GuardServer`; that the rules give it is what `TransferRules`
  and `ReviewRules` show (`EndsInMandate`, `ExpiresInMandate`, and `Body` on token schedules).
- How nonces are compared as decimal strings (`replay-store.ts:196`): they are naturals here. That the
  comparison by length and then by text is the numeric one needs canonical decimals, which the same
  file asserts (`:84`).
- The look at a mirror that is behind in `hosted-review.ts:575`: what the guard refused is never
  executed in the model, so that a late mirror could not contradict the refusal.
- The bodies of refused messages, their wording and HTTP status codes, except as far as a
  property needs them.
