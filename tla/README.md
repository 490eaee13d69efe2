# La Fusée — TLA+ models of its writes and payments

La Fusée is a Next.js / tRPC / Prisma / PostgreSQL application in which every
business mutation is an *intent*: it opens a row in the journal
`IntentEmission`, passes gates, runs a handler, and is closed and observed.
This directory models the parts of the program on which the rest relies — the
journal, the life of an emission, the pillars of a brand with their versions,
the Oracle compiled from them — and those that move money or spend a budget
while several requests run: payouts, subscriptions and the tasks of AI sellers.
They are TLA+ modules; TLC checks small instances of them, and TLAPS proves
their main properties for every instance.

- [How to run](#how-to-run)
- [Inventory of the system](#inventory-of-the-system)
- [Modules and how they correspond to the code](#modules-and-how-they-correspond-to-the-code)
- [Runs, bounds and what they show](#runs-bounds-and-what-they-show)
- [Fairness](#fairness)
- [Proofs](#proofs)
- [Where code and texts disagree](#where-code-and-texts-disagree)
- [Not modelled](#not-modelled)
- [Plan](#plan)

## How to run

    tlc -config MCEmissionChain.cfg MCEmissionChain     # one run
    tlapm EmissionChainProofs.tla                       # the proofs of one module

`PROJECT.json` lists every run with its module, configuration and properties,
the source lines each definition translates (`map`), a slip of the code that
breaks each property (`mutants`), the hazards and the theorems. Definitions
whose comment starts with "Slip:" are those slips; no specification uses them.

## Inventory of the system

Paths are relative to `src/src/`; `schema` is `src/prisma/schema.prisma`.

### The governed write path

| Part | State | Operations | Interacts with |
|---|---|---|---|
| Emission spine, `server/governance/emission-spine.ts` | rows of `IntentEmission` | `openEmission`, `closeEmission` | advisory locks of PostgreSQL; every lane |
| Hash chain, `server/governance/hash-chain.ts`, `scripts/verify-hash-chain.ts` | `prevHash`, `selfHash` of a row | seal, `verifyChain` over a history or a window | reads what the spine wrote |
| Governed procedures, `server/governance/governed-procedure.ts`, `post-conditions.ts` | none of their own | gates, handler, post-conditions, close | spine, gates, event bus |
| Mestor, `server/services/mestor/intents.ts` | none of its own | `emitIntent`: open, pre-flight, cost gate, dispatch, close | spine, Artemis, event bus |
| Seshat observation, `server/services/seshat/observe.ts`, `server/governance/bootstrap.ts`, `event-bus.ts` | `observationStatus` | `observeIntent` | in-memory event bus |
| Cancellation, `app/api/nsp/route.ts` | – | DELETE of a pending emission | journal |
| Ops sweep, `app/api/cron/ops-sweep/route.ts` | – | closes orphans, marks unobserved successes, and a dozen other clean-ups | journal |
| Sentinels, `app/api/cron/sentinels/route.ts`, `server/services/sentinel-handlers/` | pending sentinel rows | emit, run a batch, record | journal, sweep, ops daemon |
| Ops daemon, `lib/ops-daemon.ts` | buckets in memory, claims in Redis | calls the cron routes by cadence | sentinels, sweep, publication, digests |
| Gates: cost, readiness, phase, collaborators | cost log, phase cache | allow, downgrade, refuse | lanes |

What makes it hard: several processes write one chain; every step may fail with
the database having done it or not; the notices of the bus die with the process;
the sweep, the cancellation, the observer and the lane write the same row with
different conditions; runs of a cron route overlap.

What makes it correct: the chain of a strategy never forks and always verifies
while nobody tampers with it; no effect without a trace, no success in the
journal that did not happen, no outcome taken back; every emission settles and
every success is measured; every sentinel is executed or flagged, and one on
record is repeated by nobody but a run that had read it before.

### The content of a brand

| Part | State | Operations | Interacts with |
|---|---|---|---|
| Pillar gateway, `server/services/pillar-gateway/` | eight `Pillar` rows: content, version, status, stale mark; `Strategy.status` | `writePillar`, marks, restore | every writer; Oracle |
| Review, `pillar-gateway/validation-status.ts`, `review-invalidation.ts` | status of S and of the strategy | approve, lock, reopen; withdraw | gateway, project creation |
| RTIS calculations, `mestor/rtis-cascade.ts`, `rtis-protocols/`, `mestor/hyperviseur.ts` | – | read a snapshot, ask a model for minutes, write | gateway |
| Amendments, `mestor/operator-amend.ts`, `trpc/routers/pillar.ts` | – | edits by people and by agents for them | gateway |
| Sources and age, `ingestion-pipeline/source-usage.ts`, `staleness-propagator/` | documents, receipts | mark pillars stale | gateway, Oracle |
| Oracle sections, `server/services/oracle-section/` | `OracleSection`: status, lock, payload, mark | generate one section, invalidate all | gateway, Artemis |
| Notoria, `server/services/notoria/` | recommendations | accept, apply, revert | gateway |
| Versions and compensation, `pillar-versioning/`, `compensating-intents.ts` | `PillarVersion`, checkpoints | restore one write under later ones | gateway, journal |

What makes it hard: between the reading of a calculation or of a person and the
write stand minutes; an edit marks what is derived from it while that is being
recalculated; the lock of a section expires under a live generation; an
approval must not travel to another version.

What makes it correct: what is not marked stale follows its sources; an
approval is of what was read and of the current version; a live lock is not
taken, and a late result does not replace a newer one.

### Money and budgets

| Part | State | Operations | Interacts with |
|---|---|---|---|
| Payout, `server/services/mobile-money/` | `Commission.status`, `PaymentOrder` rows | `payCommission`, `handleWebhook` | provider; escrow |
| Escrow, `server/services/escrow-arbitration/`, `commission-engine/`, routers | `Escrow` rows, the two above | hold, release, refund, dispute, capture by hand, mark paid | payout |
| Cycles, `server/services/payment-providers/subscription-cycles.ts`, the web hooks of CinetPay and PayPal | `IntakePayment`, `Subscription.currentPeriodEnd` | start, verify, mark, extend | providers |
| AI sellers, `server/services/crm-engine/fleet.ts` | `SalesRepresentative` with the counters of its day, `SalesRun` rows | queue, claim, complete, resolve | remote workers, managers |

What makes it hard: a provider may have done what its lost answer does not say;
call backs come late, early, twice and out of order; a person does by hand what
a request is doing; a worker repeats its claim, reports after its lease, and a
manager closes the same task; transactions are READ COMMITTED, each statement
seeing what others have committed since the last.

What makes it correct: the money is transferred once, and again only where the
ledger has given a transfer up, and the ledger says so; a payment extends a
subscription once, a collected one does, and no day is given for nothing; one
task of a seller at a time, started within the budget of its day, with one final
result.

### Around it

Campaigns (`campaign-manager`, `campaign-change-request`, `campaign-tracker`),
offers, collections and messages of sales (`crm-engine`), approvals
(`approval-workflow`), processes (`process-scheduler`, `pipeline-orchestrator`),
the forge (`ptah`), tools and actions (`artemis`), communications (`anubis`),
the model gateway (`llm-gateway`), vault and deliverables (`brand-vault`,
`deliverable-orchestrator`), intake (`quick-intake`), scores and maturity,
financial models, documents and exports, tRPC routers, MCP servers, pages and
scripts. `PROJECT.json` lists each with its state of modelling and the reason.

## Modules and how they correspond to the code

    EmissionJournal          what the spine promises: append, once, before the answer
      ^ implemented by
    EmissionChain            openEmission, statement by statement; the mapping to
                             EmissionJournal, and HashChain on the rows it writes
      EmissionChainProofs      also of HashChain and JournalAudit
    HashChain                verifyChain and the windows of verify-hash-chain.ts
      JournalAudit             a journal over its life, with tampering
    MCEmissionChain          instances of EmissionChain and JournalAudit
    EmissionLifecycle        an emission: lanes, gates, close, sweep, cancel, observe
      EmissionLifecycleProofs  also of SentinelQueue
    SentinelQueue            emissions that are executed in batches by a cron route
    OracleSection            one section: requests, locks, edits, invalidation
      OracleSectionProofs
    PillarGateway            eight pillars: writers, marks, review
      MCPillarGateway
      PillarGatewayProofs
    PillarVersions           one pillar: archive, three-way restoration, marks, decisions
      MCPillarVersions
      PillarVersionsProofs
    PayoutPromise            what the payout of a commission promises
      ^ implemented by
    Payouts                  the composition, on shared Commission and PaymentOrder rows, of
      MobileMoney              payCommission, the provider and its call backs
      EscrowArbitration        escrows, and payouts made and recorded by hand
      MCPayouts
      PayoutsProofs
    SubscriptionCycles       manual cycles: start, web hooks, extension
      MCSubscriptionCycles
      SubscriptionCyclesProofs
    SalesFleet               the tasks of one AI seller, statement by statement
      MCSalesFleet
      SalesFleetProofs

**EmissionJournal / EmissionChain.** A call of `openEmission` is the sequence
`Call`, `TakeLock` (`pg_advisory_xact_lock(hashtext(bucket))`), `ReadHead`
(`findFirst ... selfHash not null orderBy emittedAt desc`), `Commit` (create and
commit, with an acknowledgement that may be lost); `Abort` ends the transaction
between any two of them. `bucket` is the strategy after normalisation of the
missing ones, `rows` the table, `last` what the transaction read. A digest is
the identifier of the row it seals: the identifier is in the sealed body, so
equal digests mean equal rows. `WriteUnhashed` is a writer that bypasses the
spine. In the abstract journal an emission enters once, at the end, before its
caller is told "opened". The journal of a bucket is its `Walk`: the sealed rows
listed by date, as the script reads them; `Table` gives them the columns the
verifier takes. The listing is chosen, not computed, so that the refinement can
be proved.

**HashChain / JournalAudit.** `Sealed`, `Window`, `VerifyWindow` and `VerifyAll`
are the queries of the script, as positions of a table. `VerifyChain` says in
sets what the loop over the rows finds: `Expected` is `prev` at a row, the least
of `Broken` the row at which the loop returns, the least of `Unverifiable` the
row it remembers. `JournalAudit` drives them over a journal that is emitted,
completed with a result, written around, inherited from version 1 of the seal,
edited and cut; `emitted` keeps the rows as they were first written. A row of
version 1 may be one whose bytes give its hash again, which the verifier takes as
any other, or one whose bytes were not kept, which it passes over and does not
approve (`hash-chain.ts:83-93`). `Edit` changes what a row says and none of its
hashes. Somebody who also writes the hash of the newest row anew, or of every row
from one on, makes a journal that the verifier accepts, as it accepts the loss of
the newest rows; `HeadPinsHistory` says what finds this out: a copy of the last
hash, kept elsewhere.

**EmissionLifecycle.** One record per emission. `lane` is the door: "governed"
(`governedProcedure`), "strangler" (`auditedProcedure`) or "bus" (`emitIntent`).
`pc` is where the lane stands; `effect` is what the handler has committed, known
only to the model; `row` has the columns `status`, `completedAt`,
`observationStatus`; `notices` are published events not yet handled; `decided`
is what Seshat has read and is about to write by id. `closing` is the
`closeEmission` a lane is making, which updates the row by its id, whatever it
holds by then (`emission-spine.ts:265`), and whose database call may fail before
or after it took effect.
`Crash` ends the process at any step, with its notices.

**SentinelQueue.** The cadence calls the routes in the order `Emit`, `StartRun`,
`SweepOrphans`; a run reads a batch of PENDING rows once, then for each row
dispatches and records. `age` counts rounds, since the cut-off of the sweep
(six hours) equals the period of the cadence, a row of the previous round may be
just above or just below it. `repeated` is history: how often the work of a row
was begun while the row was on record as OK. Runs overlap, since the workflow
calls the same route as the daemon.

**OracleSection.** One row, because every statement on sections either names one
row or treats each row by itself. A request is `CheckMode` (status allows the
mode), `ReadLock`, `TakeLock` (the conditional update), `Build` (reads the
content, runs for long), `Publish` or `Fail`, and `Release` if the content
changed meanwhile. `basis` is the version of the content a payload was built
from. An edit is its transaction (`Begin`, the two updates of
`markAllSectionsStale`, `Commit` or `Rollback`) and the second invalidation
after the commit; the row an open transaction has written blocks other writers
until then. `Lapse` passes `lockExpiresAt`; `overdue` are the requests that have
seen it pass. `slipped` is history: the payload was published between the
statements of an invalidation, or an invalidation missed the section; a new
generation clears it.

**PillarGateway.** `writePillar` holds the lock of the Strategy row for its
whole transaction, as do marks, reviews and the recalculation of S, so each is
one step; what interleaves is reading with the writing of others. A client
`Read`s (its task is what it has seen), and later `Write`s, `Decide`s or
`GiveUp`s. `Compared` is what each kind of writer wants unchanged
(`expectedPillarVersions`, `expectedVersion`), `Asked` the status it writes,
`Persist` the version, the cleared mark and the marks of the dependents,
`Draft` and `Withdrawn` the withdrawal of the review. `approved`, `outdated`
and `blind` are history: the version last approved, the pillars whose sources
moved after they were calculated, and those of them last written by a client
that names no version of the sources. Content is not in the model, and
neither are the refusals that depend on it: they are `GiveUp`.

**PillarVersions.** One pillar with its content, a function of `Leaves`; a leaf
is a path whose value is atomic, as an array is for the code. `archive[v]` is
the `PillarVersion` row of the write of version v: the content before, the
leaves it changed and their new values, the change of status and of mark, the
intention, and for a restoration the `effect` that names what it compensates.
`Write`, `Mark` and `Decide` hold the lock of the Strategy and are one step. A
restoration is `Plan` (a transaction that reads without a lock, finds the row by
history or by intention, refuses an ambiguous, compensated or conflicting one)
and later `Commit`, which takes the locks, compares version, content and
metadata with what was read, and writes the merge. `answered` is history: how
many marks a version of the content has answered.

**MobileMoney.** `call` is a `payCommission`: `Claim` (PENDING to PROCESSING),
`CreateOrder`, `Ask` the provider with the key `Reference`, `RecordOrder`,
`RecordCommission`; `InitiateThrows` and `CutCall` end it elsewhere. Each attempt
reads the number of the talent again, and the number names the provider
(`mobile-money/index.ts:50-55`, `:128`, `:148`): `Claim` chooses one of
`Providers`, and `call[c].to` is that provider until it is asked. `provider[p]`
is what became of a request at p, whose answer may be lost; `Settle` carries out
what it had accepted. The key is one per commission, so a request repeated at the
same provider is not a second transfer; another provider does not know it.
`Deliver` writes an order that has the reference, `Reconcile` then the
commission. `givenUp` is history: when the commission goes back from PROCESSING
to PENDING (`GiveBack`), the transfers that were `Alive` then.

**EscrowArbitration.** A request of the staff `Begin`s by reading its row and
writes later: `Hold`, the claim of `releaseEscrow` with its order and payment,
`refundEscrow`, `disputeEscrow`, `captureManualPayout`, `markPayoutFailed`,
`markPaid`; `Cut` stops it between. `opened` counts how often an escrow was held
or reopened, `made` the orders its releases created, and `vouched` that a person
has declared the commission paid.

**Payouts** instantiates both on the same `commission` and `order`, and
`PayoutPromise` on their history: a transfer, at another provider, only where
one was given up, and PAID once, backed and for good.

**SubscriptionCycles.** `pay[p]` is the `IntakePayment`, `truth[p]` what the
provider knows of it, `hook[h]` a delivery in hand: `Verify`, mark PAID or
FAILED, and the transaction of `applySubscriptionCycleIfPaid` in its three
statements (claim of the payment, read of the period, update). `StartFree` is
the cycle that costs nothing. PayPal's route captures an approved payment and
stops when the payment is PAID already; CinetPay's goes on.

**SalesFleet.** One seller. `claim[c]` is the transaction of `claimRun` for one
`claimRequestId`: `ReadProfile`, `TakeLock` (the update of the profile where
revision and status are as read), `MarkExpired`, then `AnswerNothingNew`, or
`Choose` (the day is computed) and `Take` (the row is started and everything
committed). What a transaction writes is seen at its commit. `report[f]` is a
`completeRun` or `resolveSalesRun`: the row is read, `WriteResult` updates it
where the status is the one read, `CommitResult` books the consumption.
`GiveUp` and `DropReport` roll back, among others the one of two transactions
that wait for each other: a claim holds the profile and wants a row, a result
holds the row and wants the profile. The revision is kept as the fact that a
claim's reading is "outdated". `terms` are what
`saveSalesRepresentative` writes together, the budget and the number of tasks of
a day and `maxTokens`; a task keeps in `reserved` what it was started with.
`booked`, `charge` and `spent` are history: on which day a task was put, what it
holds of that budget or has used by its latest result, and their sum for the
day; `unbooked` is the part of that sum that came with a result `finishIn` does
not book. DONE and FAILED are one status; which valid row is first in the queue is
a choice.

## Runs, bounds and what they show

| Run | Instance | Shows |
|---|---|---|
| `chain` | 3 calls, 2 strategies and none, 2 locks of which one is shared, 2 clock readings; beside it a journal of 3 rows with 2 bodies each | `ChainVerifies`, `HistoryVerifies`: the verifier accepts what the spine wrote, whole and in windows; the statements implement `EmissionJournal`; every caller is answered. No honest journal is called broken; an accepted journal, or window, is as it was emitted |
| `lifecycle` | 1 emission on each lane | trace before effect, no invented success, answers and outcomes are final, everything settles and is measured |
| `sentinels` | 3 rows, batches of 2, 2 runs that may overlap | a row on record is repeated once at most by each run that had read it, and by no later one; nothing waits for ever |
| `sentinels_overlap` | 2 rows, batches of 2, 2 runs | the disagreement [below](#where-code-and-texts-disagree) |
| `oracle` | 3 requests, an edit of any kind, crashes and lost invalidations | no live lock is taken; no late payload replaces a newer one; outdated and COMPLETE only through the gap below; a generation ends unless its process dies |
| `oracle_orphan` | 2 requests, 1 edit | the disagreement [below](#where-code-and-texts-disagree) |
| `pillars` | A, I, S; 2 clients of 6 kinds; 3 writes | approvals are current and informed; unmarked pillars follow their sources |
| `versions` | S with 2 leaves and 2 values, 2 restorations at a time, 3 writes, 1 mark, decision VALIDATED | the archive replays, a write is compensated once, later work is kept, no mark is lost, no approval comes back, the latest write is reversed in full |
| `payouts` | 2 workers with one request each, 1 provider, 1 escrow opened twice, 2 orders | one order per opening; the promise, which with one provider is one transfer |
| `mobile_money` | 2 workers, 2 providers, 2 orders, no escrow | a second transfer only where one was given up; a transfer ends up as PAID |
| `subscriptions` | a CinetPay, a PayPal and a free payment, 2 deliveries at a time, 2 instants, cycles of 2 | granted once, PAID is collected and final, no day for nothing, what CinetPay collected is granted |
| `sales_fleet` | 2 tasks, 2 claims, 2 reports, consumptions of 1 and 3, terms of 4 tokens with 2 for a task and 2 tasks a day, or of 5 with 3 and 1, 2 days | one open task, started within the day, final results |

Why the bounds are enough:

- *Three calls, two strategies.* A fork needs two rows on one predecessor and a
  third to be the predecessor; a shared value of `hashtext` needs two names, and
  the third bucket shows a lock that is not shared. Two clock readings give a
  tie, an advance and a step back; dates above them come from the `+ 1`.
- *Three rows in the audit.* A row with a predecessor and a successor, each of
  which can be edited or deleted; windows of every length.
- *One emission.* Emissions share no variable but the table, which is a
  function; the theorems hold for any number of them.
- *Three sentinels, batches of two, two runs.* One row more than a batch holds,
  and one run that is still at a row the other has put on record. How often the
  work is repeated has no bound in the model.
- *Three requests, one edit.* The takeover race needs a former holder and two
  that saw its lock expire. A second edit during the invalidation of the first
  does not fit in the time of a run with three requests; the proofs, which hold
  for any number of edits, cover it.
- *A, I, S.* A founding pillar, a calculated one between two others, and the
  reviewed one; the remaining pillars differ from these only in `Later`, and the
  theorems hold for all eight. `Reviewed` restricts decisions of people to S,
  whose status is the only one a property mentions. Three writes: one under the
  feet of a client, its own, and one to recover.
- *Versions.* Two leaves: one that the compensated write and a later one share,
  and one that they do not. Two values and absence give a conflict, a value that
  comes back and a deletion. `MaxVersions` allows three writes: one to compensate,
  one after it, and the restoration. `MaxChanged` bounds an ordinary write to one
  leaf, `Targets` and `Decisions` leave out statuses that nothing distinguishes
  from those that are there; the theorems hold for all of them.
- *Two workers, one escrow opened twice, two orders.* Two arbiters on one
  release, or a call of `payCommission` beside a person; an escrow that is
  reopened after its release; an order that fails and one that follows.
- *Two providers.* A second transfer needs another provider than the first. With
  the escrows they do not fit in the time of a run: `payouts` has one provider,
  `mobile_money` has no escrow, and the theorems, for any number of both, cover
  what is between.
- *Three payments, two deliveries.* A payment that is delivered twice at once,
  two of them that overlap, and one more on each rail. Two instants tell an
  extension of a running period from a new one.
- *Sellers.* A task that expires beside one that waits or is void; a claim
  beside a claim; a result beside a reconciliation. Consumptions below and above
  a reservation: one that is booked upwards leaves no room in a budget of 4, one
  that is booked downwards does, and an uncertain result may be corrected upwards.
  The terms differ in all three numbers, and the second allows fewer tasks than
  the day may already have; two days, for the counters that start again.

Deadlock is not checked where the bounded system really ends: all calls
answered, all emissions settled, all rows on record; every version written; all
tasks closed on the last day; a commission PAID, a section that nobody asks for
or edits any more. It is checked in `pillars` and `payouts`.

Type invariants are proved, not model-checked.

## Fairness

- A caller in `EmissionChain` keeps taking its next step, and the database
  grants a released lock to a waiting transaction: PostgreSQL queues them.
- A lane runs to its end unless its process crashes; a published notice is
  delivered unless its process crashes; time passes; the sweep, which a timer
  calls every six hours, runs again and again. No fairness is assumed for
  crashes, failures of the database, or cancellations.
- The daemon keeps calling its routes, and a run of the sentinel handlers keeps
  working unless it crashes.
- In `OracleSection` requests and edits proceed and locks expire; requests are
  not obliged to come, and a generation may die (`Orphaned` excuses it).
- In `Payouts`, `MomoSpec`: a delivery in hand ends, by itself or cut off; a
  provider that has carried out a transfer repeats its call back until it is
  answered with success, so it delivers again and again (strong fairness), and
  not every one of these deliveries is cut off between order and commission.
- In `SubscriptionCycles`, likewise for CinetPay, whose route answers 503 until
  the cycle is applied: no step is the one at which every delivery of a payment
  dies. Nothing is assumed of PayPal, of the start of a cycle, or of refusals.

The safety properties need none of this.

## Proofs

TLAPS proves, for every value of the constants:

| Theorems | Inductive invariant, and why it is needed |
|---|---|
| `EmissionChainProofs`, the spine: `TypeCorrect`, `ChainAlwaysVerifies`, `NeverForks` | `TypeOK`, `ChainVerifies` and three facts about open transactions: they hold the lock they need (`LockHeld`), the head they read is still the head (`HeadCurrent`), their row is their own (`RowOwned`). Type correctness is not inductive alone: the new date is computed from that of the head. `NoFork` follows from the order of the dates. |
| `EmissionChainProofs`, refinement: `ChainImplementsJournal`, `HistoryAlwaysVerifies` | The above with `Listed`: the walk of each bucket is a listing of its sealed rows. Since no two of them have one date there is only one such listing (`OneListing`), so a commit, dated after the head, appends to it (`CommitAppends`) and every other statement leaves it alone (`WalkKept`): `Commit` is `Enter`, `Abort` is `Refuse`, the others stutter. For `HistoryVerifies`: each row of the walk names the row before it (`WalkIsLinked`), hence so does each row of any window (`PartAccepted`). |
| `EmissionChainProofs`, the verifier: `HonestNeverBroken`, `AcceptedAsEmitted`, `WindowsOfAccepted`, `HeadPinsHistory` | `AuditInv` of `JournalAudit`: the seal of a row in the table is that of an emitted row whatever was edited (`Descends`), and an untouched table is chained from row to row (`Honest`). What `HonestNeverBroken` says of the approval is decided when the rows are first written: with `Honest` an untouched row still has the hash it was emitted with (`Kept`). The verdicts are stated over sets of positions, so what a loop would need induction for is an argument on least and greatest positions: `HeadPinsHistory` takes the last sealed row of one table that the other does not hold; the row after it names it and is held, or it is the head, which both share (`SealsCarriedOver`). |
| `EmissionLifecycleProofs`: `TypeCorrect`, `EffectAlwaysTraced`, `SuccessAlwaysReal`, `AnswerAlwaysTraced`, `ObservationAlwaysAgrees`, `OutcomeStaysFinal` | `Truthful(i)` for every emission: a row that is not yet closed is PENDING or flagged by others, the close under way is honest about the effect, what Seshat has decided agrees with what the row has become, and a veto announced early is one that the close will write. The sweep and the cancellation keep it because they write only a row that is PENDING. |
| `EmissionLifecycleProofs`, sentinels: `SentinelTypeCorrect`, `SentinelRepeatsBounded` | `TypeOK`, whose bound on a batch rests on `OldestAreFew`: at most `BatchSize` rows have fewer than `BatchSize` waiting rows before them. `Counted`: the runs that have filed a row as OK or repeated it since have no more of it to do (`Holders`), and they are one more than the repetitions; and a batch names no row twice (`OrderChosen`: an ordering of the batch exists). |
| `OracleSectionProofs`: `TypeCorrect`, `LiveLockIsSafe`, `PayloadNeverRegresses`, `GapOnly` | Only the holder's token is in the row while it works (`LockIsHeld`), whoever believes a lock expired is right (`OverdueIsLapsed`), what the holder builds is at least as new as the payload (`BuiltIsNewer`), and a marked row stays COMPLETE until the transaction ends (`DraftKeepsRow`). For `GapOnly` also `Watched`: whenever the payload, or the unmarked work of the holder, is outdated, an edit in progress will still look at the section or one has missed it (`slipped`); and `DraftKeepsRun`. |
| `PillarGatewayProofs`: `TypeCorrect`, `ReviewAlwaysCurrent`, `FreshAlwaysFollows`, `ApprovalIsOfWhatWasRead` | `TypeOK`, the two invariants and `ReadTogether`: as long as S has the version a reviewer has read, S is marked or none of its sources has moved since. It is what makes comparing the version of S alone sufficient, and it rests on S depending on every other pillar (`Graph`, `SourcesOfS`). |
| `PillarVersionsProofs`: `TypeCorrect`, `ArchiveReplays`, `OneCompensation`, `MarksSurvive`, `ApprovalStays`, `LaterWorkStands`, `LatestReversed` | `PlansStand`: what a restoration in hand has read is still archived, and its effect was not recorded when it read; comparing the row under the locks carries this to the commit. `TargetsAreNamed`: a compensation bears the effect of its target, whichever door was used (`OneEffect`). `LatestMark`, `MarksArePast`: what the latest row says of the mark, so that putting a mark back answers none. |
| `PayoutsProofs`: `TypeCorrect`, `PaysTwiceOnlyIfGivenUp`, `Backed`, `PromiseKept`, `OpeningsSpentOnce`, `CompletedAlwaysTrue`, `TransferAlwaysHasOrder` | `Once`: of two transfers that are `Alive`, under way, done or still to be asked for, one was given up, and while a commission is PENDING all of them were. It is about more than the transfers that are done, since a call that has claimed the commission will ask its provider whatever happens to the commission. `Told`: an answer "success" or a delivery COMPLETED in hand is of a transfer that was done. Each step then is a step of `PayoutPromise` or a stutter (`Shape`). `OpeningInv` counts the releases in hand that still owe their order against the openings. `AllSound`: every order, also while an answer is being recorded or a call back is in hand, is COMPLETED only with a reference that was executed or without one; a request at the provider has the order it was created for. |
| `SubscriptionCyclesProofs`: `TypeCorrect`, `CyclesGrantedOnce`, `OnlyCollectedIsPaid`, `PaidStays`, `NoFreeDays` | `OneGrantAtATime`: one delivery at a time is past the claim of a payment, and finds it not applied. `ToldCollected`: who is about to write PAID has it from the provider. `Bought`: the end of the period, and the end that a delivery has read and will extend, are within the cycles applied so far. |
| `SalesFleetProofs`: `TypeCorrect`, `OneOpen`, `CountersHold`, `DayIsKept`, `ResultsStay` | A claim that has updated the profile holds its row (`LockInv`), and works with the profile as it is (`SeenInv`): whatever changes it, new terms included, has outdated the claims that read it. While a claim has chosen, nothing is open and the day still bears the reservation by the terms in force (`ChosenInv`). An open task is booked on the day of the profile, in full until its first result and for no less than its reservation after an uncertain one (`BookedInv`), the counters cover the tasks of that day but for what is `unbooked` (`CountInv`), and a result being written keeps its row as it was read (`ReportInv`). |

Assumptions are those the modules name (`ClockAssumption`, `LockAssumption`,
`NoneAssumption`, `BucketAssumption`, `ConstantsOK`, `KindsOK`, `KeysOK`,
`BoundOK`, `VersionsAssumption`, `PayoutsAssumption`, `CyclesAssumption`,
`FleetAssumption`, `BatchAssumption`): ranges of constants, finite sets where
elements are counted, and that null is not a caller. One theorem has a
hypothesis of its own: `NoFreeDays` that the payments are finitely many.

The theorems of `JournalAudit` are in `EmissionChainProofs`, those of
`SentinelQueue` in `EmissionLifecycleProofs`: each pair is about the same rows.
Their specifications are named `AuditSpec` and `QueueSpec`
so that one module can extend both.

Proved and in no run: `NoFork` and `PaidIsBacked`, which follow from properties
that runs check; `CompletedIsTrue`, `TransferHasOrder` and `CountInv`, which
the same instances satisfy; `WindowsOfAccepted` and `HeadPinsHistory`, which are
about every table and not about the states of a run; and the type invariants.

Only model-checked: the liveness properties (`EveryCallAnswered`,
`EmissionSettles`, `SuccessIsMeasured`, `SentinelSettles`, `GenerationEnds`,
`TransferIsRecorded`, `CollectedIsGranted`), since fairness and `ENABLED` are
beyond the prover. Every safety property of a passing run is a theorem.

## Where code and texts disagree

`oracle_orphan`: a section whose generation died stays GENERATING for ever,
since the mode check refuses every request before the expired lock is seen, while
the header of `oracle-section/index.ts` says that a new caller can take it.

`sentinels_overlap`: two runs of the sentinel handlers have read the same batch,
and the slower one does the work of a row that the other has filed as OK, while
the header of the service says that it is idempotent because it treats PENDING
rows only (`sentinel-handlers/index.ts:17`, so too `ops-daemon.ts:5-7`).
`RepeatsAreBounded` says how far it goes.

Disagreements that the models show (change a bound or drop an excuse and TLC
produces them) but that no run states:

- `markAllSectionsStale` marks COMPLETE rows in one statement and GENERATING rows
  in the next (`oracle-section/index.ts:369-370`, `:383`); a generation that
  publishes between them is missed by both and stays COMPLETE with outdated
  content. `OutdatedOnlyThroughTheGap` says that nothing else does it.
- The protocols and the hyperviseur publish R, T, I without naming the versions
  they were calculated from (`rtis-protocols/index.ts:45`, `:52`,
  `mestor/hyperviseur.ts:472`, `:494`, `:516`, `rtis-cascade.ts:448-449`); an
  edit during the calculation is overwritten by an outdated pillar without a
  mark. `actualizePillar` names them, and for it `FreshFollowsSources` holds.
- The sweep fails sentinels that were still waiting for room in a batch
  (`ops-sweep:135-136`).
- A payout whose answer was lost at one provider may be carried out at another as
  well. The lost answer is read as a failure (`mobile-money/index.ts:100-107`),
  the commission becomes payable again (`:170-174`, which invites a retry with a
  corrected number), and the next attempt picks the provider by the number as it
  is then; the one reference per commission, on which the comments at `:137-141`
  and `:333-337` rely against a double payment, protects within one provider.
  `TwiceOnlyIfGivenUp` says that nothing else pays twice.
- Two payments of one subscription that are applied at once extend it by one
  cycle, or even bring its end forward: both read one end, and the later update
  writes what it computed from it. `subscription-cycles.ts:244-245` says that the
  customer never loses paid days. `DaysAreBought` is the other half only.
- A PayPal payment whose delivery died between PAID and the extension is never
  granted: the next event finds it PAID and stops (`paypal/route.ts:145`).
- An order of `generatePaymentOrder` (`commission-engine:145`) does not keep
  `payCommission` (`mobile-money:61`) from creating a second live order of the
  same commission; a refund may overwrite RELEASED, and a dispute reopens an
  escrow that is closed (`escrow-arbitration:182`, `:191`).
- A restoration compares values: a later write of the value that was there
  before the compensated write cannot be told from it (ADR-0207 speaks of later
  work in general), and under later writes status and mark are not brought back.
- A consumption reported after an uncertain result is booked nowhere
  (`fleet.ts:189` records it, `:195` books while `completedAt` is null), so that
  the next task may start although the day has used more than its budget;
  `WithinTheDay` counts what the tasks have used and leaves out exactly this
  part, `unbooked`. What a worker reports has no upper bound; two
  results prepared on the same expired row both book, which can only charge the
  day too much. A RUNNING task of a PAUSED seller becomes AMBIGUOUS by nobody,
  though `resolveSalesRun` asks to wait for the end of its time.

Also: an emission the sweep files as
FAILED keeps PENDING_OBSERVATION for ever (`ops-sweep/route.ts:149`); nothing
completes an emission closed as QUEUED (`emission-spine.ts:288`); a failed
post-condition reverts nothing (`post-conditions.ts:8`), which is why the model
lets a breached effect stand.

## Not modelled

- `SentinelQueue` has no cancellation by DELETE; it is in `EmissionLifecycle`.
- `releaseGenerationLock` and `forgetGenerationProgress` have no caller.
- The operations on parts of the content of a pillar; writers that touch a
  pillar's metadata without the gateway. In `PillarVersions`: receipts of
  sources, rights, certainty and confidence, the version that a door expects,
  and archives of older formats, all of which only refuse more.
- `strategy.update` accepts any status, so it could set VALIDATED by hand;
  `PillarGateway` has the changes of phase only.
- Around the payouts: the route in front of `handleWebhook`, escrows without a
  commission, contracts with two escrow rows, the calculation of a commission.
- Around the cycles: Stripe, the MOCK rail, the path of the former
  `lastCycleRef`, two `Subscription` rows of one brand, the web hook of members.
- Around the sellers: human ones, the effects of a task while its lease lasts,
  the validation of dates, two clocks; the start of a task may fall past
  midnight of the day that was computed, and does in the model.
- What the gates compute, what handlers and models answer, formats, tenants,
  pages: choices, or absent.

The program has some two thousand files of implementation, most of them pages,
prompts, seeds, schemas of content and queries without an order of their own.
The models cover services with state that several actors change, a small share
of its lines.

`PROJECT.json` names every component with its reason and, under `hazards`, what
in the code is hard to test, with the properties that cover it or a note.

## Plan

Done, in this order: the chain and its verifier; the life of an emission;
sentinels; Oracle sections; the pillar gateway and the review; payouts;
subscriptions; versions and compensation; the tasks of sellers; the proofs of
the safety properties of all of them.

Next, most important first:

1. **CostGate** — concurrent operations against a rolling budget, the overrun
   they can reach, and the log that is written afterwards.
2. **Effects of sellers** — messages, offers and collections under the lease of
   a task, composed with `SalesFleet`.
3. **Notoria** — accept, apply and revert with the versions of the gateway.
4. **Pillar content** — operations on the items of an array, read outside the
   transaction that writes them.
5. **Forge** — tasks of external generators, their call backs and expiry.
6. **Publication** — claims of scheduled posts and their retries.
7. **Approval workflow, processes, campaigns** — small state machines on shared
   rows without transactions.
8. **OpsDaemon** — claims of a window by several pods, composed with
   `SentinelQueue`.

Some properties excuse a case that the code lets happen, and name it: the gap of
`OutdatedOnlyThroughTheGap` by `slipped`, the writers that name no version in
`FreshFollowsSources` by `blind`, a reopened escrow in `OneOrderPerOpening` by
`opened`, a transfer in `TwiceOnlyIfGivenUp` by `givenUp`, a later report in
`WithinTheDay` by `unbooked`. Theorems still worth having are bounds on them: how
long a section stays outdated, how often a commission can be given up, how much
a day can use beyond its budget.
