# A verification model of Sinergy

Sinergy pays people in Latin America from a treasury in USDC. A company puts
together a *project* (in the code: a batch) of payments, gets a quote, has it
approved, sends USDC on Solana to the address of a *funding instruction*, and
the payments go to a banking partner, some of them after a compliance review.
People work with it in a web console. This directory holds TLA+ modules for the
core of `apps/api`, for the console in front of it and for the script that seeds
its database, the TLC runs that check them on small instances, and TLAPS proofs
for instances of any size.

Paths below are relative to `src/`; `demo-domain` stands for
`apps/api/src/demo/demo-domain.service.ts` and `funding` for
`apps/api/src/funding/funding.service.ts`, and `BatchesPage` and the like for the
pages and hooks of `apps/web/src`.

## Inventory

| Part | State | Operations | What is hard | What makes it correct |
|---|---|---|---|---|
| **Projects, payouts, quotes, approval** (`demo-domain`) | projects, payouts, quotes and decisions in memory | create a project, edit a line, quote, approve (or find the quote expired) | nine methods write a project's status, and none but the edit asks what happened before; a quote is kept in three places | a quote prices the approved people at today's amounts; a project's status is true of its payouts |
| **Beneficiaries** (`demo-domain`) | people, with a validation verdict | create, edit | lines keep the verdict of the moment they were written | a line with errors is never quoted |
| **Dispatch, compliance, partner callbacks** (`demo-domain`) | payout statuses, compliance cases, seen callbacks | dispatch one or all, automatic dispatch, resolve a case, callback | a loop that throws half way; callbacks that come late, or early; a review resolved twice | nothing is shown as paid that was neither dispatched nor reported on; no held payment is left without a case |
| **Corridors and prices** (`demo-domain`) | constants | limits, threshold, fee, price | rounding, limits at their ends | the price is that of the code |
| **Funding reconciliation** (`funding`, `funding.utils.ts`) | none of its own: everything is read from and written to the database between awaits | ensure an instruction, scan (timer or rescan), record by hand or by webhook | overlapping workers, sums read before an await and used after, failures and crashes half way, retries of what was half done | one signature is credited once; an instruction is reported as reconciled only when it is; enough money is reconciled in the end |
| **Funding database** (`funding.persistence.service.ts`, `prisma/schema.prisma`) | instructions, transactions (unique signature), ledger, exception cases, audit log, webhook events | single statements, no transactions | find-then-create | — |
| **Solana gateway** (`solana-funding.gateway.ts`) | none | find the transfers for a reference | a window of 25 signatures, nodes that lag, calls that fail half way | a transfer is found before newer ones push it out of the window |
| **Database in memory** (`memory-funding.persistence.service.ts`) | the same, in arrays | the same | lost on restart | — |
| **Snapshot** (`demo-domain`, `loadState`/`saveState`) | a JSON file or row | load at start, save after most changes | some changes are not saved, the file is written in place, and the database is not rolled back with it | a crash between two saves forgets no payment, and one in the middle of a save forgets whole projects |
| **Sessions, roles** (`common/auth.ts`) | none: the token is the user | check per request | — | — |
| **Company settings** (`demo-domain`) | authorized wallets | update | read while a transfer is judged | — |
| **Exceptions, audit, reports** | lists | read; close an exception by hand (the *funding incomplete* ones are part of `Funding`) | — | — |
| **Console: hooks** (`useSession`, `useWorkspace`, `useOperationsActions`) | the session, the list of projects, the project on display, one `loading` flag | log in and out, refresh, open, act; an effect opens the project of the address | answers out of order, lost, or after a logout; an answer put together from two moments | the page ends up showing what was written, says "Ready" when nothing runs, and reaches its address |
| **Console: page of a project** (`BatchesPage`, `ExceptionsPage`) | ticks, messages to sign, the wallet's transfer | edit cells, sign approvals, quote, approve, generate, fund, record by hand, rescan, send, clear a review | clicks on a page that is out of date; waits for the wallet; transfers sent twice | its advice is true; execution shows after the money; nobody is paid twice on one decision |
| **Console: forms** (`BeneficiariesPage`, `BeneficiaryFormFields`, the modal of `BatchesPage`) | the onboarding form, the draft of a project, a disabled button | fill, choose a country, create, import, cancel, leave | the form's checklist against the API's rules; answers after a cancel or on another page | who is "ready" is; one draft makes one project |
| **Console: dashboard, reports, company** | filters | read | — | — |
| **Seed script** (`scripts/seed-operations.mjs`, `prisma/schema.prisma`) | the database | delete what an earlier run left, insert row by row | killed between two statements, beside an API that writes | it can always be run again, and then leaves what a first run leaves |
| **Setup and infrastructure scripts** | — | — | — | — |

How they interact. The HTTP controllers call `DemoDomainService`, whose methods
are synchronous: in one Node process each of them is one indivisible step.
`FundingService` is asynchronous: every `await` on the database or the chain
gives other requests and the watcher's timer a turn. It reads the project
(`getBatch`), marks it (`markBatchAwaitingFunding`), reports to it
(`applyFundingStatus`, `autoDispatchFundedPayouts`) and reads the company's
wallets. Nothing calls back from the projects into funding. The domain keeps its
state in memory and a snapshot, funding in the database: two stores that no
transaction ties together. The console keeps copies of what the API answered and
offers its buttons by them; nothing tells it of changes, so every click may come
from an older page than the state it meets.

## Modules

| Module | Models |
|---|---|
| `Corridors` | limits, review threshold, fee and price of a corridor |
| `Projects` | `DemoDomainService`: one action per method, atomic as in the code |
| `Reconciliation` | the abstract promise of funding: money is credited, never leaves, and an instruction is reported as covered only when all it asks for is there |
| `Funding` | `FundingService`: one action per stretch between two awaits |
| `Gateway` | how a scan gets its transfers from the chain, call by call: `EXTENDS Funding` |
| `Platform` | both together, with the snapshot and restarts: `EXTENDS Funding`, `P == INSTANCE Projects` |
| `Workspace` | the console's hooks: one action per request, answer and failure |
| `Desk` | the page of a project: `EXTENDS Projects` with its clicks, signatures and transfers |
| `Intake` | the onboarding form, the modal for projects, and the API's verdicts behind them |
| `Seed` | the seed script, statement by statement, on the tables and keys of the schema |
| `MCProjects`, `MCFunding`, `MCGateway`, `MCPlatform`, `MCDesk`, `MCIntake`, `MCSeed` | the small instances for TLC (`Workspace` needs none) |
| `ProjectsProofs`, `FundingProofs`, `DeskProofs`, `IntakeProofs`, `WorkspaceProofs`, `SeedProofs` | theorems about the module they are named after, and their proofs |
| `ServiceProofs` | the same for `Gateway` and `Platform`, both on top of `FundingProofs` |
| `SumProofs` | lemmas about sums over finite sets, for the proofs that count money, prices or writes |

### Projects

A call the service refuses (an exception, a 404) changes nothing the module
keeps and is no step; the guards of an action are the code's early returns and
throws. Payouts are numbers, in the order of a project's lines, because a loop
over payouts may stop half way. Which payout pays whom is a constant: the code
never changes it after `createBatch`, and which ones get created is free.

| Variable | Code |
|---|---|
| `batchStatus`, `totalFundingUsdc` | `Batch.status`, `.totalFundingUsdc` |
| `quote`, `line` | the project's quote (`Quote.status`, its `expiresAt` passed or not) and `Quote.lines` |
| `status`, `approvalStatus`, `amountLocal`, `fundingAmountUsdc`, `invalid` | the fields of `Payout`; `invalid` are those with `validationErrors` |
| `openCases`, `reviewed` | `complianceCases` of a payout, by status |
| `dispatches` | `payout_dispatched` ledger entries |
| `webhookEvents` | the callbacks `recordPartnerWebhook` received: the id, and the payout it was about |
| `beneficiary` | whether a person is known, and valid |
| `instructed` | the projects `ensureFundingInstruction` has once found ready |

`AwaitFunding`, `ApplyFunded` and `AutoDispatch` are what `FundingService` calls.
In this module they may come at any time after the project was found ready:
that is all the asynchronous caller guarantees, and every order `Funding` can
produce is among them. `Dispatch` is the loop over `dispatchPayout`: a payment
above the threshold is held and puts the project in review, and the next call of
the loop then throws (`LoopReach`). The partner is a mock that answers inside the
call and refuses people named "luis" (`Refused`). Its callbacks are another matter:
the route that receives them asks for no session and `recordPartnerWebhook` for
no status, so that `RecordPartnerWebhook` settles any payout that exists, before
its approval, its money or its dispatch as well as after. `Approvals` bounds what
an edit may set a line's approval to.

Abstractions: amounts are whole units of local currency, prices are cents, in
exact arithmetic; display fields, names, comments, exception cases and the audit
log are left out; a person's validation is its verdict. A quote's time is the
step `ExpireQuote`, possible whenever the quote is live: it is the step of
`approveBatch` that finds the quote out of date and says so.

### Funding

| Variable | Code |
|---|---|
| `batchOf`, `expectedAmount`, `instrStatus` | a row of `FundingInstruction` |
| `recordedFor`, `typed`, `rejected`, `credited` | rows of `FundingTransaction`: the instruction of a signature's row, the amount if a person gave it, accepted or not; the sum of `reconciledAmount` |
| `received`, `reserved`, `surplus` | `funding_received`, `funding_reserved`, `funding_surplus` ledger entries |
| `incomplete` | projects with an open `funding_incomplete` exception |
| `authorized` | `company.authorizedWallets` |
| `sentTo` | the chain: transfers that carry an instruction's reference |
| `applied`, `covered` | what `applyFundingStatus` was told (last, ever) |
| `thrown` | instructions with an automatic dispatch that threw |
| `job` | a running request or scan: where it is, and what it has read so far |

A worker is one running call of the service. `ensureFundingInstruction` is
`EnsureLook` (the database knows none), `EnsureCheck` or `EnsureRefuse` (the
project is ready or not), `EnsureCreate`, `EnsureMark`. The other steps follow the
awaits of `applyObservation`: `Lookup` (signature known?), `ReadCredited` (the sum, and the
verdict on the wallet), `Insert` (the row, unique signature), `PostReceived`,
`UpdateStatus`, `Apply` (the synchronous call into the projects), `Notice` (the
exception), `PostReserved`, `PostSurplus`; a scan then turns to the next
transfer. `Fail` removes a worker at any await, when a call fails; what it stored
stays. `Restart` removes all of them, and the company has the wallets of its last
snapshot. `Apply(w, TRUE)` is the automatic dispatch throwing, which ends the
worker too, with whatever else its scan had found. It needs no failure: a project
with two payments above the review threshold is enough. `ResolveException` is the
operator who closes a *funding incomplete* case.

`RecordManual` is the modal and the funding webhook. Both take any text for a
signature (the modal asks for a "Solana signature or support reference"), for any
instruction, with any amount: the model has the signatures of the transfers sent,
texts of one's own (`Notes`) and typed amounts (`Typed`). The row is put down to a
wallet the company has authorized, so it is accepted whenever there is one.

Abstractions: amounts are small naturals (the code rounds to six decimals), and
amounts typed are positive, as the modal sees to; a scan finds any of the
transfers sent (`Gateway` says which); audit
rows, webhook rows, scan stamps and the exceptions of rejected transfers are left
out. Ledger entries carry a project and not an instruction in the code; the
model counts them for the instruction they were written for.

### Gateway

In `Funding` a scan is given some of the transfers on the chain. This module says
how it gets them: it adds the gateway's calls before the first step of
`applyObservation` and keeps everything else of `Funding`, dispatches that throw and
records by hand included, but its failures and restarts: here the chain fails,
and the database does not.

| Variable | Code |
|---|---|
| `blankTo` | the chain: transactions that name a reference and leave the treasury's balance as it was |
| `fetch` | a scan in `findFundingObservations`: its instruction, who asked, the `signatures` still to read, the `observations` made |
| `faults` | how often a call on the chain failed (bound `MaxFaults`) |

`Poll` and `Rescan` start a scan, the first only while the instruction is listed
(`Open`); both read the signatures, the newest `Window` of them (25 in the code).
`LookUp` is one turn of the loop, newest first. `LookUpTooEarly` is a node that
knows the signature and not yet the transaction (`null`, and the loop goes on);
`FetchFails` is a call that throws, which drops what was found. `HandOver` is the
end of the loop: the service has its observations. A blank transaction takes a
place in the window like any other. Transactions are confirmed in the order of
their slots.

### Platform

Each place where `FundingService` touches a project is a joint step: `Check` and
`Refuse` (`getBatch` and the status), `Mark` (`markBatchAwaitingFunding`), and `Tell`
(`applyFundingStatus` and, on the first reconciliation, `autoDispatchFundedPayouts`
in the same turn, which throws when its loop does not get through). `CallProjects`
is any method of the domain, `Work` any step of a worker that touches no project.
`instructed` of `Projects` is kept, so that every step of `Platform` is one of
`Projects` too, except a restart.

`saved` is the snapshot. `logAudit`, `raiseException` and `recordWebhook` save, and
one of them ends every method but these: `applyFundingStatus` does not save at all
(`TellPartial`, `TellFunded`), `resolveComplianceCase` saves before it summarises the
project (`ResolveCase`). `Reload` is a crash between two saves and the next start:
the projects are those of the snapshot, the database and the chain are what they
were. `StartOver` is a crash in the middle of one: the snapshot is written in place,
`loadState` cannot read what is left of it, deletes it, and the service begins with
no projects (`FirstSnapshot`). `forgotten` has the projects that went this way; the
database keeps their instructions, and a worker that tells such a project finds
nobody, which is `Fail`. Their ids are random and do not come back. Time passes
without a save (`PassTime`): a quote that ran out has run out on disk too.
`CloseCase` closes a *funding incomplete* case.

### Workspace

| Variable | Code |
|---|---|
| `rev`, `mine` | the API: writes to a project so far, and this console's last one |
| `session`, `url` | the token in `useSession`; the `batch` of the address |
| `data`, `selected`, `loading` | the state of `useWorkspace` |
| `call` | each running handler: the request it awaits, how far the API is with it, and the answer |
| `failures`, `disturbed` | for the properties: requests failed so far; whether an answer was lost or overtaken since a refresh from rest |

A handler is a chain of requests: `runAction` writes, reads the project again or
takes it from the answer (`AfterWrite`), then calls `refreshWorkspace`, which reads
the list (`ListAnswered`) and then the project on display *at that moment*. `Effect`
is the effect of `BatchesPage` that opens the project of the address. `TakeQuote`
and `Compose` are the two halves of `GET /batches/:id`: status and quote are read
before its two awaits, funding after them. `Fail` is any request that is refused
or lost, with the `catch` and `finally` of its handler.

What the API holds about a project is the number of its writes; `ShowsOwnWrites`
compares numbers. A page that shows too old a state after answers overtook each
other is possible in the code (`disturbed`); the property says when it is not.

### Desk

`Desk` is `Projects` with the page in front of it: each action is a handler of
`BatchesPage` and the API call it makes, as one joint step, or the wait between
the two where there is one (`AskSignature`, `Signed`, `ApproveSigned`; `AskPayment`,
`WalletPays`, `WalletDone`; `Scan`). The buttons' own conditions are not guards: a
page can be old. They appear where the page's *advice* is checked:
`NextActionDescription`, `ExecutionTicked`, `SendOffered`.

| Variable | Code |
|---|---|
| `instruction`, `credited`, `onChain` | whether there is an instruction, and money credited or on its way, in halves of what it asks for |
| `wallet` | `isWalletFunding` and where the wallet is |
| `signing`, `approving` | rows in the message to sign; signed approvals on their way |
| `decided` | for `PaidAgainOnlyIfDecided`: who was quoted, approved or cleared since being paid |

The amount cell shows USDC and stores local money, rounded both ways
(`ToUsdc`, `ToLocal`); leaving it is an edit when the rounding changed the amount.
A manual record may be of any amount (`ManualAmounts`), up to the bound on what is
sent at all. `PartnerReports` is the partner's callback, which the page knows nothing
of: it can come at any time, and makes a project *dispatching* whose money is not
there. Left out are the API's calls that have no button (to reject a project, to
send all of it) and what `Funding` has in detail.

### Intake

People and projects are what the API holds; `form`, `lines`, `csv`, `modal`,
`submitting` are the state of the two pages. A person has the fields of the code, one
by one (`Fields`); a text is empty, spaces, or something typed or chosen for one of
the three countries, and which one is what the properties ask. `RequiredFields` is
what the API asks for, `Checklist` what the form asks for, `Inputs` what it shows,
`Chosen` what it chooses with a country, `OwnFields` what a person of a country has in
the end. The key of a Mexican account is kept twice, by the form and by the API
(`WithKey`). A
submission is handled by the API in the step of the click, and answered, or lost,
later (`SubmitAnswered`, `SubmitFailed`); a submission of a page that was left has
`live = FALSE`. Numbers that are no number pass both limits, as they do in the code.

### Seed

The database is a set of rows, each with its key and the keys it points to.
`Script` is the sequence of statements `main` makes; `Step` does the next one,
`Crash` stops it anywhere, `Start` runs it again. `Delete` follows the schema:
deleting takes along what points to a row (`onDelete: Cascade`), but people with
payouts cannot go. `RecordTransaction` and `RecordOutcome` are the API, at work on
the one seeded instruction that is still open. `Upsert` leaves a row that is there as
it is: what the code updates of it (a name, a role, settings) is no key. The code
finds its user by e-mail; here the e-mail is the key.

`Foreign` is what others keep in the database; `ForeignAssumption` says it is about
other projects, with keys of its own, and points to nothing of the script's. Some
conditions of the clearing also match by the beginning of an id (`seed_pay_`,
`seed_`); the same assumption covers that nobody else's ids begin like that.
`WrittenAssumption` states what the proofs need to know of the script's own data
(unique keys, references only to earlier rows, no row whose table is not cleared).
It says nothing about a parameter: the data are constants of the module, and TLC
evaluates the statement on exactly them. It does not say that clearing works.

## Runs

| Run | Question | Bounds, and why they are enough |
|---|---|---|
| `review` | do statuses and quotes stay true, do held payments keep a case, is nothing shown as paid without a dispatch or a report? | one project, two payments, each small or above the threshold, one to a person the partner refuses: held, paid and failed in any order, which is where the loop throws; one callback, which may be early or late; one person may be absent or invalid; each goes out or is held once |
| `repaid` (violation) | is paid final? | the smallest counterexample needs one payment |
| `concurrent` | is money credited once, is *reconciled* true, does funding implement `Reconciliation`? | two workers, failures at every await, two transfers of 2 for an instruction of 3: one is not enough, both are too much; the second from a wallet that may become authorized; each may be recorded by hand as 1. Records under a text of one's own are in `alone` and in the proofs: with two workers they exceed the time. The workers are interchangeable (`SYMMETRY`); `KeepsPromise` is a safety property |
| `alone` | with one request at a time, and a chain whose calls fail, does everything agree at rest, is money recorded before it leaves the window and reconciled, does a rescan find a surplus? | three transfers 2, 2, 3: partial, surplus, several in one scan; a blank transaction after them and a window of 2, so that the newest and an old one can be missed; two failures, so that a scan after a failed one may fail too; records of 2 under each signature, for the last of which that is too little, and under a text of one's own; any dispatch may throw |
| `stale_read` (violation) | is credited money reconciled, with two overlapping workers? | no call fails, so that it is the overlap alone that loses it |
| `platform` | is every payment funded that went out, and what does a crash forget? | one project, one payment, small or above the threshold, edited and quoted again at will; one callback, at any time; approvals are only given, not taken back; one worker at a time, failing and restarting anywhere; a transfer one cent short of a small payment, and an amount to record by hand, under its signature or a text of one's own, that together with it makes up exactly a large one. Overlapping workers are left to the proof: two of them exceed what TLC finishes |
| `unapproved` (violation) | is an unapproved project kept from funding? | one payment, one worker |
| `console` | does the page show what was written, say "Ready" when it is, and reach its address? | two projects, two calls in flight (one overtakes the other), one write, which may be anybody's, one failure: every pair of handlers overlaps at every request |
| `desk` | is the advice true, does execution follow the money, is nobody paid twice on one decision? | two people in two countries, one amount that changes when its cell is touched beside one below the minimum, or one person alone whose payment needs review; one callback, about either; two transfers of the whole amount, or halves by hand, up to twice what is asked: enough for a second, late and superfluous one; two dispatches each. Two people paid side by side are in `review`, and here left to the proofs, which cover all three properties: with a callback they exceed the time |
| `released` (violation) | can a payment go on after its review? | one transfer |
| `people` | is who is "ready" ready, does one draft make one project, does the button come back? | one person known and one created, a form with every field typed or not, the bank as spaces too, and all three countries chosen in any order; the form is filled in while a person may still be created; one edit through the API, two projects, any number of answers due and lost |
| `seed` | can the script always be run again? | the script as it is, all of its statements; another project's rows in the tables it clears; the API's transfer at any moment |

`MaxDispatches` bounds how often a payment is handed over or held (once or
twice: a project can be paid again, see below), `Totals` the amounts asked for, `Events` the callbacks, `Workers` the
calls that run at once. Two workers show every race between two calls; races of
three are covered by the proofs.

**Fairness.** `FairSpec` has weak fairness of each worker's next step (`Proceed`:
the database and the chain answer, and Node resumes the call) and strong
fairness of `Watch`: `setInterval` scans every pending or partial instruction each
15 seconds for as long as the process lives, without regard to what else runs,
so a scan that is possible again and again happens. With one worker a scan is
possible whenever the worker is idle, hence strong and not weak. Nothing is
assumed of the treasury, of operators or of `Fail`. `FairSpec` of `Workspace` has weak
fairness of every call's next answer (the API handles requests and its answers
arrive, unless they fail) and strong fairness of the effect: React runs it after
every rendering whose list, address or selection changed, whatever else is in
flight. In the model it needs one of the `Calls` slots, which other handlers may
hold again and again; the code has no such limit, hence strong and not weak.
People, logouts and failures are under no obligation. `GatewayFairSpec` asks
the same of `Poll` as of `Watch`, and weak fairness of the answers of the chain; the
rescans of users are free, and calls on the chain fail at most `MaxFaults` times:
what is promised is promised once the node has recovered.

No run has a liveness property where an error stops the progress on purpose, and
deadlock is checked in all but the runs of `Desk`, whose bounds on dispatches and
transfers can be used up.

**Findings** (the violation runs)

* `repaid`: `createQuote` asks nothing of the project's status. Quoting a project
  after its payments went out turns paid payouts into quoted ones, which can be
  approved, funded and paid again; the docs promise a "final paid state".
* `stale_read`: two overlapping records compute the status from sums read before
  each other's row. Both may write `partial`, or the slower overwrites
  `reconciled`; the money is there and the project waits for ever.

* `unapproved`: `ensureFundingInstruction` looks at the project's status, stores the
  instruction, and then marks the project as awaiting funding without looking
  again. A project edited and quoted again meanwhile waits for approval, and is
  moved on without one, where the console says approval is required.
* `released`: clearing a review makes the payment funded, and its project
  *dispatching*. The row offers "Send" only in a *funded* project, so the page, which
  said that the review is required "before this payout can continue", has no way to
  continue it. Nor would the API: `dispatchPayout` holds an amount above the threshold
  again, whether or not it was reviewed.

Five more observations of the same kind are not runs, because no document
contradicts them.

* A failure after the transaction row is stored and before the
  status is written is never repaired: every later scan finds the signature and
  returns (`concurrent` takes these steps; `stale_read` has no failures and says nothing
  of them).
* When a project with two payments that need review becomes fully funded, the
  dispatch of the second throws out of `applyObservation`. The open *funding
  incomplete* case stays open, no `funding_reserved` entry is written, and the scan
  ends before the other transfers it had found, which the timer does not look for any
  more (`Apply(w, TRUE)`; `AtRestConsistent` and `RescanCatchesUp` say what is left right).
* The timer scans pending and partial instructions only: a transfer confirmed after
  the scan that reconciles its instruction has listed the signatures has no row and
  no `funding_surplus` entry until somebody asks for a rescan, which finds it
  (`RescanCatchesUp`).
* A transfer recorded under a support reference counts a second time when a scan
  finds it: its signature is another text, and nothing relates the two.
  `CreditedOnce` therefore speaks of signatures.
* A partner callback is believed in any state. One that comes before the money makes
  the project *dispatching*, and the page says that its funding is reconciled
  (`AdviceIsTrue`, `ExecutionFollowsFunding` and `PaidFromFunding` name this case and
  show that it is the only one).

Each property of a passing run has a mutant: a plausible bug, kept in the module
as an unused operator next to the definition it would replace, under which the
run finds the property violated.

The longest runs (`platform`, `review`, `console`) take two to three minutes with two
workers.

## Proofs

`tlapm` checks all of them, for any projects, people, amounts, workers and
transfers that meet the `ASSUME`s of the modules (payouts and transfers are
numbers, transfers pay something, links point to things that exist, payouts and
the console's projects are finitely many, `Nobody` and `None` are none of the
others, and the two of `Seed` above).

`SumProofs`: what `SumFunctionOnSet` adds up to. It is a fold, defined by recursion
over subsets, and the library's induction theorems take an operator that the
provers cannot instantiate. Here induction is over a *set* of subsets instead: if
a set belongs to `P` whenever it does less any one of its elements, then every
finite set belongs to `P` (`SubsetInduction`, by a least counterexample on the
cardinality). From it: the fold exists and is unique whichever element it picks,
so that a sum is unfolded at any element (`SumTakeOut`, `SumPutIn`), is a natural
number when its terms are (`SumNat`), and changes by what one term changes
(`SumChange`).

`ProjectsProofs`
* `Typing`: `TypeOK`. The part that is more than types (what was not created has
  no approval and no error) is needed since `createQuote` sums over approved
  payouts. A project's total is a natural number because it is such a sum.
* `QuoteIntegrity`: `QuoteMatchesApproved`, inductive with `TypeOK`. Each edit
  throws the quote away, each quote rebuilds it; every other action leaves the
  approved payouts, their amounts and the quote alone.
* `StatusIntegrity`: `BatchStatusSound`. `StatusSound(b)` says for each status what
  the approved payouts may be. It is inductive together with the two above: an
  approval acts on quoted payouts because there is a live quote, a summary
  (`ResolvedStatus`) is sound whatever it sums up, and a dispatch in one project
  touches no other.
* `NothingStranded`: a held payment has an open case, and one shown as paid was
  dispatched or reported on. A payment can be held only by opening a case, and a
  resolved case takes its payment out of review; a callback settles the payout it is
  about and, in the summary of its project, no other.
* `PriceIsExact`, `PriceGrows`, `NothingIsFree`, on the operators of `Corridors` that a
  quote is made of: rounding twice, the fee and then the price, stays less than
  a cent away from 101.5 % of the amount at the rate, keeps the order of amounts,
  and leaves no amount within the limits without a price.

`FundingProofs`
* `Typing`: `TypeOK`, which also ties each worker's step to the rows it relies on.
* `Backing`: `DecisionIsBacked /\ ReconciledIsBacked`. The second alone is not
  inductive: a worker writes a status it computed three awaits before. The first
  is the strengthening: what a worker read, plus its own transfer once recorded,
  is at most what is credited now. It survives the steps of the others because
  credited amounts only grow (`NextCredits`). `Decisions` states the first half.
* `Crediting`: `CreditedOnce`, from `CreditInv`: what is credited to an instruction is
  the sum over the rows that name it and are not rejected, each worth what was typed
  or what its transfer pays; a row that nobody typed is of a transfer to that
  very instruction, which a row cannot be moved away from. `Insert` is the one step
  that adds, and only under a signature that has no row.
* `Bookkeeping`: `LedgerNotOverstated`. By itself it is not inductive: a worker
  that has recorded a transfer posts its entries steps later. `LedgerInv` is the
  strengthening: what is posted *plus what every running worker has still to post*
  is at most what is credited, and the surplus at most the excess of it. A step of one
  worker changes one term of that sum (`OneWorkerLedger`), and the surplus deltas of
  overlapping workers add up to no more than the excess because the excess is
  convex in the sum (`ExcessConvex`) and each worker's sum is at most the real one
  (`DecisionIsBacked`).
* `AtRest`: `AtRestConsistent` when there is one worker and nothing fails, the
  two conditions of the property; transfers, instructions and wallets are any
  number. `AloneInv` says of each record which sum it agrees with at each step: the
  one the worker read, while that record is due, and what is credited from then on.
  Dispatches that throw are not excluded: they leave the records they skip behind
  (`thrown`), and the others right.
* `Refinement`: `Spec => KeepsPromise`, that `Funding` implements `Reconciliation`
  (`asked` is -1 until the instruction exists): `Insert` is `Credit`, `Apply` is
  `Cover`, `EnsureCreate` is `Ask`, every other step a stutter.

`ServiceProofs`, on `Gateway`
* `GatewayTyping`: `GatewayTypeOK`, inductive with `TypeOK`: a scan in the gateway holds
  signatures of its own instruction, and only transfers among its observations. It
  survives the steps of others because the chain and the instructions only grow
  (`Grows`, from `FundingProofs`).
* `GatewayImplementsFunding`: `GatewaySpec => Spec`. Handing over is `Scan` with what
  was found, by `GatewayTyping`; every other call of the gateway is a stutter.
  `Backing`, `Crediting`, `Bookkeeping` and `AtRest` therefore hold behind the gateway
  (`GatewayBacking`, `GatewayBookkeeping`, `GatewayAtRest`).

`ServiceProofs`, on `Platform`
* `NoUnfundedPayment`: `PaidFromFunding`. Every joint step is a step of `Funding`
  (`PlatformStep`), so `Backing` carries over. What is added is inductive: a payment
  that is ready, held, paid without a report, or has a case or a dispatch to its name,
  belongs to a project that was told of a reconciled instruction, in memory *and in
  the snapshot*, since a restart brings the snapshot back. The calls of people and of
  the partner make no payment owe that anew (`CallsOwe`); only `Tell` does, in the
  very step that covers the project.
* `NoForgottenPayment`: `PaymentsSurvive`, from the same invariant: a step either
  saves or adds nothing to what must be remembered, so that what a restart brings back
  has all of it; a forgotten project has none left and never comes back.
* `PlatformBookkeeping`: `CreditedOnce` and `LedgerNotOverstated` hold of the process
  too, with its restarts and the dispatches that throw between two entries.
* `PlatformKeepsPromise`: `PlatformSpec => KeepsPromise`. The process, too, implements
  `Reconciliation`, since its steps are steps of `Funding` and a restart leaves the
  database as it is.

`DeskProofs`
* `DeskImplementsProjects`: `DeskSpec => Spec`. Every handler of the page is a call of
  the API or leaves the project alone, so that the theorems of `ProjectsProofs` hold
  while the page is used. The one thing to show is that the amount a cell writes
  is one that lines may have, which needs that every existing line's amount is
  (`AmountsKnown`): the cell rounds the amount that is there.
* `MoneyFirst`: `ExecutionFollowsFunding`, from `MoneyInv`: a payment that is funded,
  held, or has a case presupposes the whole amount, and one that is paid or failed
  that, or a report on it; so do the project's statuses after the wait for money,
  while the wait presupposes that some is missing. A credit is the only step that moves money, and it tells the
  project what the sum is in the same step.
* `AdviceHolds`: `AdviceIsTrue`, from `MoneyInv` and `BatchStatusSound`.
* `PaidOncePerDecision`: `PaidAgainOnlyIfDecided`, from `PaidAreSettled`: who was paid and
  not decided about since is *paid* or *failed*, still approved, and in a project
  closed to edits. Only a quote opens it again, and it decides about all of them.
* `DeskTyping`: `DeskTypeOK`. That `onChain` stays a natural number needs that it is a
  number of whole transfers (`WholeTransfers`): a scan takes one away whenever there
  is money to find.
* `CellsSettle`: an amount that a cell shows in cents of USDC and takes back is
  what it was in Mexico and Argentina; in Colombia, where a cent is 41 pesos, it
  moves by at most 20, and leaving the cell again moves it no further. The edit
  nobody made (and the quote it throws away) therefore happens once per amount.

`IntakeProofs`
* `Typing`: `TypeOK`, for sequences of any length.
* `ButtonTellsTheTruth`: `DisabledWhileSubmitting`; inductive together with "at most
  one call was made by the page on display" (`OneLive`).
* `OneProjectPerDraft`: `TwiceOnlyIfInterrupted`, since a draft of which a project was
  made, with no interruption, has its button disabled (`MadeIsDisabled`).
* `FormIsClean`, `FormKeepsItsWord`: `NoForeignDetails` and `ReadyForProjects`, from
  `FormInv`: the form is `Clean` (a field of another country is empty, one of its own
  holds nothing typed for another), a person who came through it is `Whole`, and its
  checklist asks for whatever the API asks for (`ChecklistSuffices`).

`WorkspaceProofs`
* `Typing`: `TypeOK`. That revisions stay within `MaxRev` needs more than the guard of
  a click: the writes made and those sent and not carried out are together no
  more than the bound (`BudgetOK`), a sum over projects and a count of calls.
* `ReadyInTheEnd`: `ReadyWhenQuiet`, for any number of calls, since while `loading` is
  set some call is in flight (`BusyForAReason`).
* `OwnWritesShown`: `ShowsOwnWrites`, from `OrderInv`. Unless an answer was lost or
  overtaken, every answer under way either shows what this console wrote or is
  older than a write that was answered and whose own refresh is still to land;
  and a list, or details, that do not show it yet have a call under way that
  brings them. When nothing runs, no such call is left, so the page shows it.

`SeedProofs`, whatever others keep in the database:
* `SeedInvariant`: `SeedInv`, which the five theorems below follow from. While the
  script runs, what this run wrote so far is in the database (`Done`), and every
  other row that is cleared belongs to a table whose turn is still to come
  (`Uncleared`), except for what the API wrote since the run started (`RunInv`).
  The rows are only those of others, of the script and of the API (`RowsInv`), and
  a row of the script never outlives its project (`ProjectInv`).
* `AlwaysRunsAgain`: `NeverRefused`. A row that is inserted has a key no stored row has,
  since a stored one would be this run's or still to be cleared; what it points to
  was written before it. When people are deleted nobody points to them, since
  payouts were cleared before (`PeopleAreFree`).
* `RunsAreComplete`: `FinishedIsComplete`, since after the last statement `Done` is all of
  the script.
* `OthersSurvive`: `OthersUntouched`, also by the cascades of a deletion: these reach
  rows of the script and of the API only, and a project goes only with its own
  table, since what it points to, the company, is never deleted (`SweptFacts`).
* `NothingOrphaned`: `NoOrphans`. When projects are deleted, only people and projects
  are left of the earlier run.
* `SeedTyping`: `TypeOK`.

Only model-checked: `DepositsReconciled`, `RecordedInTime`, `RescanCatchesUp` and
`AddressIsShown`, since liveness under fairness is beyond the prover. What the data
of `Seed` look like (`WrittenAssumption`) is evaluated by TLC, not proved: they are put
together by operators of the library that recurse over sequences.

## Not modelled, and the plan

Next, in this order:
1. A proof that the money of `Desk` is the one of `Funding`.
2. The database in memory as a variant of `Funding`, lost on restart. Its `await`s
   yield to no other request, so that `alone` shows what it does between restarts.
3. A reference for how the code's floating-point amounts round at the half:
   `Corridors` computes with exact numbers.

Left out for good: reports, audit log, exception lists and the pages that show
them (no guard reads them); roles and tokens (each request is checked by itself,
and a refused one changes nothing); the time a file takes to be read into the
draft, and other pages' filters; setup and deployment scripts, which are run by
hand against a test cluster; layout and wording.
