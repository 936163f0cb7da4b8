------------------------------- MODULE Funding -------------------------------
(***************************************************************************)
(* FundingService: funding instructions, deposits on the chain, and their  *)
(* reconciliation.  Its methods are asynchronous: every await on the       *)
(* database gives other requests, and the watcher's next scan, a turn.  A  *)
(* running request is a worker; each action is what it does up to its      *)
(* next await.  The database is the one of FundingPersistenceService       *)
(* (Prisma), where the signature of a funding transaction is unique.  A    *)
(* signature is what the chain says, or what somebody types.               *)
(*                                                                         *)
(* Left out: the scan time stamps, the audit log, the record of inbound    *)
(* events, the exceptions opened for rejected deposits, and amounts typed  *)
(* that are not positive, which the console does not send.                 *)
(*                                                                         *)
(* A definition named as a mutant is a plausible bug in the one after it,  *)
(* kept to show that a run would notice it; no action uses it.             *)
(***************************************************************************)
EXTENDS Integers, FiniteSets, Functions

CONSTANTS
    Batches,        \* project ids
    Instructions,   \* ids for funding instructions
    Deposits,       \* transfers on the chain: numbers, in the order of slots
    AmountOf,       \* what a transfer pays into the treasury account
    WalletOf,       \* the wallet it comes from
    Notes,          \* texts of one's own, in place of a signature
    Typed,          \* bound: the amounts people type
    Wallets,        \* wallets
    Trusted,        \* the wallets the company authorizes at first
    Totals,         \* what projects may ask for
    Workers,        \* bound: requests and scans running at the same time
    MayFail,        \* whether a call may fail, or the process crash
    Nobody          \* no project, no instruction

ASSUME DepositsAssumption ==
    /\ Deposits \subseteq Nat
    /\ AmountOf \in [Deposits -> Nat \ {0}]
    /\ WalletOf \in [Deposits -> Wallets]
ASSUME NotesAssumption == Notes \subseteq Nat /\ Notes \cap Deposits = {}
ASSUME TypedAssumption == Typed \subseteq Nat \ {0}
ASSUME TotalsAssumption == Totals \subseteq Nat
ASSUME MayFailAssumption == MayFail \in BOOLEAN
ASSUME NobodyAssumption == Nobody \notin Batches \cup Instructions \cup Wallets
ASSUME TrustedAssumption == Trusted \subseteq Wallets /\ Trusted # {}

VARIABLES
    \* the database
    batchOf,        \* an instruction's project, Nobody before it is created
    expectedAmount, \* what the instruction asks for
    instrStatus,    \* "pending", "partial" or "reconciled"
    recordedFor,    \* the instruction of a signature's funding transaction, or Nobody
    typed,          \* what somebody said it pays, 0 if a scan recorded it
    rejected,       \* the signatures recorded with nothing credited
    credited,       \* sum of the amounts credited to an instruction
    \* (ledger entries name the project; here each counts for the instruction
    \* it was written for)
    received,       \* sum of the funding_received entries
    reserved,       \* number of funding_reserved entries
    surplus,        \* sum of the funding_surplus entries
    incomplete,     \* the projects with an open funding_incomplete case
    \* the company, the chain and the projects
    authorized,     \* the wallets the company authorizes
    sentTo,         \* the instruction a transfer refers to, Nobody if not sent
    applied,        \* the last status the project was told for an instruction
    covered,        \* the instructions the project was told are reconciled
    thrown,         \* those with a turn that told the project, then threw
    \* the process
    job             \* what each worker is doing

instrVars == <<batchOf, expectedAmount>>
moneyVars == <<recordedFor, typed, rejected, credited>>
ledgerVars == <<received, reserved, surplus>>
worldVars == <<authorized, sentTo>>
toldVars == <<applied, covered, thrown>>
vars == <<instrVars, instrStatus, moneyVars, ledgerVars, incomplete, worldVars, toldVars, job>>

\* The steps of applyObservation, before and after the transfer is recorded.
Recorded == {"received", "update", "apply", "notice", "reserve", "surplus"}
Applying == {"lookup", "read", "insert"} \cup Recorded
Steps == {"idle", "check", "create", "mark"} \cup Applying

\* What a funding transaction may be recorded under.
Keys == Deposits \cup Notes

\* batch and ask: what an instruction is made from.  instr: the instruction
\* worked on.  todo: the signatures still to apply, the first one in
\* progress.  typed, from: what somebody says it pays, 0 in a scan, and the
\* wallet that is put down for it.  seen: the credited amount when it was
\* read.  ok: the transfer is accepted.
Jobs == [step : Steps, batch : Batches \cup {Nobody}, ask : Nat,
         instr : Instructions \cup {Nobody}, todo : SUBSET Keys,
         typed : Nat, from : Wallets \cup {Nobody}, seen : Nat, ok : BOOLEAN]
Idle == [step |-> "idle", batch |-> Nobody, ask |-> 0, instr |-> Nobody, todo |-> {},
         typed |-> 0, from |-> Nobody, seen |-> 0, ok |-> FALSE]

-------------------------------------------------------------------------------
\* Mutant of FundingStatus: a unit of slack in the comparison.
FundingStatusWithSlack(total, expected) ==
    IF total = 0 THEN "pending" ELSE IF total + 1 >= expected THEN "reconciled" ELSE "partial"

\* determineFundingStatus
FundingStatus(total, expected) ==
    IF total = 0 THEN "pending" ELSE IF total >= expected THEN "reconciled" ELSE "partial"

\* Mutant of Excess: the difference is not cut off at zero.
Difference(total, expected) == total - expected

\* How far a total exceeds what was expected.
Excess(total, expected) == IF total > expected THEN total - expected ELSE 0

\* evaluateFundingObservation: the gateway and the manual record copy
\* reference, mint and destination from the instruction, so the wallet is
\* the one check that decides.  A company without wallets accepts any.
Accepts(wallet) == wallet # Nobody /\ (authorized = {} \/ wallet \in authorized)

Exists(i) == batchOf[i] # Nobody
recorded == {k \in Keys : recordedFor[k] # Nobody}
First(S) == CHOOSE d \in S : \A e \in S : d =< e

Instr(w) == job[w].instr
Current(w) == First(job[w].todo)
ByHand(w) == job[w].typed > 0

\* The observation: the wallet the money is from, and the amount.
Source(w) == IF ByHand(w) THEN job[w].from ELSE WalletOf[Current(w)]
Paid(w) == IF ByHand(w) THEN job[w].typed ELSE AmountOf[Current(w)]

\* applyObservation computes these from the credited amount it has read.
PreviousStatus(w) == FundingStatus(job[w].seen, expectedAmount[Instr(w)])
NextCredited(w) == job[w].seen + Paid(w)
NextStatus(w) == FundingStatus(NextCredited(w), expectedAmount[Instr(w)])

\* Mutant of SurplusDelta: the surplus already posted is posted again.
SurplusInFull(w) == Excess(NextCredited(w), expectedAmount[Instr(w)])

\* The surplus this transfer adds, by what was read.
SurplusDelta(w) == Excess(NextCredited(w), expectedAmount[Instr(w)])
                   - Excess(job[w].seen, expectedAmount[Instr(w)])

At(w, step) == job[w].step = step
GoTo(w, step) == job' = [job EXCEPT ![w].step = step]
Stop(w) == job' = [job EXCEPT ![w] = Idle]

\* Mutant of TurnToNext: the loop runs past the last transfer.
TurnPastTheEnd(w) ==
    job' = [job EXCEPT ![w] = [Idle EXCEPT !.step = "lookup", !.instr = Instr(w),
                                           !.todo = job[w].todo \ {Current(w)}]]

\* The transfer in progress is done; the scan turns to the next one.
TurnToNext(w) ==
    LET rest == job[w].todo \ {Current(w)} IN
    IF rest = {} THEN Stop(w)
    ELSE job' = [job EXCEPT ![w] = [Idle EXCEPT !.step = "lookup", !.instr = Instr(w), !.todo = rest]]

-------------------------------------------------------------------------------
Init ==
    /\ batchOf = [i \in Instructions |-> Nobody]
    /\ expectedAmount = [i \in Instructions |-> 0]
    /\ instrStatus = [i \in Instructions |-> "pending"]
    /\ recordedFor = [k \in Keys |-> Nobody]
    /\ typed = [k \in Keys |-> 0]
    /\ rejected = {}
    /\ credited = [i \in Instructions |-> 0]
    /\ received = [i \in Instructions |-> 0]
    /\ reserved = [i \in Instructions |-> 0]
    /\ surplus = [i \in Instructions |-> 0]
    /\ incomplete = {}
    /\ authorized = Trusted
    /\ sentTo = [d \in Deposits |-> Nobody]
    /\ applied = [i \in Instructions |-> "none"]
    /\ covered = {}
    /\ thrown = {}
    /\ job = [w \in Workers |-> Idle]

\* The treasury sends a transfer that carries the instruction's reference.
Send(d, i) ==
    /\ Exists(i) /\ sentTo[d] = Nobody
    /\ sentTo' = [sentTo EXCEPT ![d] = i]
    /\ UNCHANGED <<instrVars, instrStatus, moneyVars, ledgerVars, incomplete, authorized,
                   toldVars, job>>

\* updateCompany replaces the wallets, unless the new list is empty.
UpdateWallets(S) ==
    /\ S # {}
    /\ authorized' = S
    /\ UNCHANGED <<instrVars, instrStatus, moneyVars, ledgerVars, incomplete, sentTo,
                   toldVars, job>>

\* ensureFundingInstruction: the database knows no instruction for the
\* project ...
EnsureLook(w, b) ==
    /\ At(w, "idle")
    /\ \A i \in Instructions : batchOf[i] # b
    /\ job' = [job EXCEPT ![w] = [Idle EXCEPT !.step = "check", !.batch = b]]
    /\ UNCHANGED <<instrVars, instrStatus, moneyVars, ledgerVars, incomplete, worldVars, toldVars>>

\* ... the project is ready, and asks for the given amount ...
EnsureCheck(w, amount) ==
    /\ At(w, "check")
    /\ job' = [job EXCEPT ![w].step = "create", ![w].ask = amount]
    /\ UNCHANGED <<instrVars, instrStatus, moneyVars, ledgerVars, incomplete, worldVars, toldVars>>

\* ... or it is not ready and the request is refused ...
EnsureRefuse(w) ==
    /\ At(w, "check")
    /\ Stop(w)
    /\ UNCHANGED <<instrVars, instrStatus, moneyVars, ledgerVars, incomplete, worldVars, toldVars>>

\* ... the instruction is stored ...
EnsureCreate(w, i) ==
    /\ At(w, "create")
    /\ ~ Exists(i)
    /\ batchOf' = [batchOf EXCEPT ![i] = job[w].batch]
    /\ expectedAmount' = [expectedAmount EXCEPT ![i] = job[w].ask]
    /\ GoTo(w, "mark")
    /\ UNCHANGED <<instrStatus, moneyVars, ledgerVars, incomplete, worldVars, toldVars>>

\* ... and the project is marked as awaiting funding.
EnsureMark(w) ==
    /\ At(w, "mark")
    /\ Stop(w)
    /\ UNCHANGED <<instrVars, instrStatus, moneyVars, ledgerVars, incomplete, worldVars, toldVars>>

\* The transfers that carry the instruction's reference.
SentTo(i) == {d \in Deposits : sentTo[d] = i}

\* scanInstruction, with what the gateway found: it will be applied, oldest
\* first.
ScanFound(w, i, found) ==
    /\ At(w, "idle")
    /\ Exists(i) /\ found # {}
    /\ job' = [job EXCEPT ![w] = [Idle EXCEPT !.step = "lookup", !.instr = i, !.todo = found]]
    /\ UNCHANGED <<instrVars, instrStatus, moneyVars, ledgerVars, incomplete, worldVars, toldVars>>

\* A scan, for the watcher or a rescan, finds some of the transfers; Gateway
\* says which.
Scan(w, i) == \E found \in SUBSET SentTo(i) : ScanFound(w, i, found)

\* recordManualFunding, by an operator or the funding webhook: for any
\* instruction, under the signature of a transfer or a text of one's own,
\* with the amount that is typed.  It is put down to a wallet the company
\* authorizes now, or to none when there is none.
RecordManual(w, i, k, amount) ==
    /\ At(w, "idle")
    /\ Exists(i)
    /\ k \in Deposits => sentTo[k] # Nobody
    /\ \E from \in IF authorized = {} THEN {Nobody} ELSE authorized :
          job' = [job EXCEPT ![w] = [Idle EXCEPT !.step = "lookup", !.instr = i, !.todo = {k},
                                                 !.typed = amount, !.from = from]]
    /\ UNCHANGED <<instrVars, instrStatus, moneyVars, ledgerVars, incomplete, worldVars, toldVars>>

\* What people record by hand.
RecordsManually(w) ==
    \E i \in Instructions, k \in Keys, amount \in Typed : RecordManual(w, i, k, amount)

\* applyObservation, await by await.
Lookup(w) ==
    /\ At(w, "lookup")
    /\ IF Current(w) \in recorded THEN TurnToNext(w) ELSE GoTo(w, "read")
    /\ UNCHANGED <<instrVars, instrStatus, moneyVars, ledgerVars, incomplete, worldVars, toldVars>>

\* getCreditedFundingAmount; the transfer is judged by what is read here.
ReadCredited(w) ==
    /\ At(w, "read")
    /\ job' = [job EXCEPT ![w].step = "insert", ![w].seen = credited[Instr(w)],
                          ![w].ok = Accepts(Source(w))]
    /\ UNCHANGED <<instrVars, instrStatus, moneyVars, ledgerVars, incomplete, worldVars, toldVars>>

\* The row of a funding transaction.
Record(w) ==
    /\ recordedFor' = [recordedFor EXCEPT ![Current(w)] = Instr(w)]
    /\ typed' = [typed EXCEPT ![Current(w)] = job[w].typed]

\* Mutant of Insert: the signature is not unique in the database.
InsertTwice(w) ==
    /\ At(w, "insert") /\ job[w].ok
    /\ Record(w)
    /\ credited' = [credited EXCEPT ![Instr(w)] = @ + Paid(w)]
    /\ GoTo(w, "received")
    /\ UNCHANGED <<instrVars, instrStatus, rejected, ledgerVars, incomplete, worldVars, toldVars>>

\* Mutant of Insert: the credited amount is set, not added to.
InsertOverwriting(w) ==
    /\ At(w, "insert") /\ job[w].ok /\ Current(w) \notin recorded
    /\ Record(w)
    /\ credited' = [credited EXCEPT ![Instr(w)] = Paid(w)]
    /\ GoTo(w, "received")
    /\ UNCHANGED <<instrVars, instrStatus, rejected, ledgerVars, incomplete, worldVars, toldVars>>

\* createFundingTransaction fails, and ends the scan or the request, when
\* another worker has recorded the signature meanwhile.  A rejected transfer
\* is recorded with nothing credited.
Insert(w) ==
    LET k == Current(w) IN
    /\ At(w, "insert")
    /\ \/ /\ k \in recorded
          /\ Stop(w)
          /\ UNCHANGED moneyVars
       \/ /\ k \notin recorded /\ job[w].ok
          /\ Record(w)
          /\ credited' = [credited EXCEPT ![Instr(w)] = @ + Paid(w)]
          /\ rejected' = rejected
          /\ GoTo(w, "received")
       \/ /\ k \notin recorded /\ ~ job[w].ok
          /\ Record(w)
          /\ rejected' = rejected \cup {k}
          /\ credited' = credited
          /\ TurnToNext(w)
    /\ UNCHANGED <<instrVars, instrStatus, ledgerVars, incomplete, worldVars, toldVars>>

\* The funding_received entry.
PostReceived(w) ==
    /\ At(w, "received")
    /\ received' = [received EXCEPT ![Instr(w)] = @ + Paid(w)]
    /\ GoTo(w, "update")
    /\ UNCHANGED <<instrVars, instrStatus, moneyVars, reserved, surplus, incomplete, worldVars,
                   toldVars>>

\* updateFundingInstructionStatus, with the status computed before.
UpdateStatus(w) ==
    /\ At(w, "update")
    /\ instrStatus' = [instrStatus EXCEPT ![Instr(w)] = NextStatus(w)]
    /\ GoTo(w, "apply")
    /\ UNCHANGED <<instrVars, moneyVars, ledgerVars, incomplete, worldVars, toldVars>>

\* Whether the turn that applies the status also dispatches payouts.
Releases(w) == NextStatus(w) = "reconciled" /\ PreviousStatus(w) # "reconciled"

\* applyFundingStatus and, on the first reconciliation this worker knows of,
\* autoDispatchFundedPayouts.  That throws, though no call fails, when the
\* dispatch of a payout puts its project in review and the loop turns to
\* another; the scan or the request ends there.
Apply(w, throws) ==
    /\ At(w, "apply")
    /\ throws => Releases(w)
    /\ applied' = [applied EXCEPT ![Instr(w)] = NextStatus(w)]
    /\ covered' = IF NextStatus(w) = "reconciled" THEN covered \cup {Instr(w)} ELSE covered
    /\ thrown' = IF throws THEN thrown \cup {Instr(w)} ELSE thrown
    /\ IF throws THEN Stop(w) ELSE GoTo(w, "notice")
    /\ UNCHANGED <<instrVars, instrStatus, moneyVars, ledgerVars, incomplete, worldVars>>

\* createOrRefreshException or resolveFundingExceptions.
Notice(w) ==
    /\ At(w, "notice")
    /\ \/ /\ NextStatus(w) = "partial"
          /\ incomplete' = incomplete \cup {batchOf[Instr(w)]}
          /\ GoTo(w, "surplus")
       \/ /\ NextStatus(w) # "partial"
          /\ incomplete' = incomplete \ {batchOf[Instr(w)]}
          /\ GoTo(w, IF PreviousStatus(w) # "reconciled" THEN "reserve" ELSE "surplus")
    /\ UNCHANGED <<instrVars, instrStatus, moneyVars, ledgerVars, worldVars, toldVars>>

\* An operator resolves a case by hand.
ResolveException(b) ==
    /\ b \in incomplete
    /\ incomplete' = incomplete \ {b}
    /\ UNCHANGED <<instrVars, instrStatus, moneyVars, ledgerVars, worldVars, toldVars, job>>

\* The funding_reserved entry.
PostReserved(w) ==
    /\ At(w, "reserve")
    /\ reserved' = [reserved EXCEPT ![Instr(w)] = @ + 1]
    /\ GoTo(w, "surplus")
    /\ UNCHANGED <<instrVars, instrStatus, moneyVars, received, surplus, incomplete, worldVars,
                   toldVars>>

\* The funding_surplus entry, if there is more surplus than before.
PostSurplus(w) ==
    /\ At(w, "surplus")
    /\ surplus' = [surplus EXCEPT ![Instr(w)] = @ + SurplusDelta(w)]
    /\ TurnToNext(w)
    /\ UNCHANGED <<instrVars, instrStatus, moneyVars, received, reserved, incomplete, worldVars,
                   toldVars>>

\* A call on the database or the chain fails: the worker is gone, what it
\* stored stays.
Fail(w) ==
    /\ MayFail
    /\ ~ At(w, "idle")
    /\ Stop(w)
    /\ UNCHANGED <<instrVars, instrStatus, moneyVars, ledgerVars, incomplete, worldVars, toldVars>>

\* The process dies and starts again: the workers are gone, and the company
\* has the wallets of its last snapshot.
Restart(S) ==
    /\ MayFail
    /\ S # {} \/ S = Trusted
    /\ job' = [w \in Workers |-> Idle]
    /\ authorized' = S
    /\ UNCHANGED <<instrVars, instrStatus, moneyVars, ledgerVars, incomplete, sentTo, toldVars>>

\* What a worker that runs does next when nothing fails.
Proceed(w) ==
    \/ \E amount \in Totals : EnsureCheck(w, amount)
    \/ EnsureRefuse(w)
    \/ \E i \in Instructions : EnsureCreate(w, i)
    \/ EnsureMark(w)
    \/ Lookup(w) \/ ReadCredited(w) \/ Insert(w) \/ PostReceived(w) \/ UpdateStatus(w)
    \/ \E throws \in BOOLEAN : Apply(w, throws)
    \/ Notice(w) \/ PostReserved(w) \/ PostSurplus(w)

Next ==
    \/ \E d \in Deposits, i \in Instructions : Send(d, i)
    \/ \E S \in SUBSET Wallets : UpdateWallets(S) \/ Restart(S)
    \/ \E b \in Batches : ResolveException(b)
    \/ \E w \in Workers :
          \/ \E b \in Batches : EnsureLook(w, b)
          \/ \E i \in Instructions : Scan(w, i)
          \/ RecordsManually(w) \/ Proceed(w) \/ Fail(w)

Spec == Init /\ [][Next]_vars

\* Mutant of Open: partly funded instructions are not listed.
PendingOnly(i) == Exists(i) /\ instrStatus[i] = "pending"

\* The watcher lists the pending and partial instructions.
Open(i) == Exists(i) /\ instrStatus[i] \in {"pending", "partial"}

\* It does so every 15 seconds and scans each one, whatever else is running.
Watch(i) == Open(i) /\ \E w \in Workers : ScanFound(w, i, SentTo(i))

\* The timer fires for ever and the database answers.
Fairness ==
    /\ \A w \in Workers : WF_vars(Proceed(w))
    /\ \A i \in Instructions : SF_vars(Watch(i))

FairSpec == Spec /\ Fairness

-------------------------------------------------------------------------------
\* What the database, the company, the chain and the projects hold.
DataOK ==
    /\ batchOf \in [Instructions -> Batches \cup {Nobody}]
    /\ expectedAmount \in [Instructions -> Nat]
    /\ instrStatus \in [Instructions -> {"pending", "partial", "reconciled"}]
    /\ recordedFor \in [Keys -> Instructions \cup {Nobody}]
    /\ typed \in [Keys -> Nat]
    /\ rejected \subseteq recorded
    /\ credited \in [Instructions -> Nat]
    /\ received \in [Instructions -> Nat]
    /\ reserved \in [Instructions -> Nat]
    /\ surplus \in [Instructions -> Nat]
    /\ incomplete \subseteq Batches
    /\ authorized \subseteq Wallets
    /\ sentTo \in [Deposits -> Instructions \cup {Nobody}]
    /\ \A d \in Deposits : sentTo[d] # Nobody => Exists(sentTo[d])
    /\ \A i \in Instructions : credited[i] # 0 => Exists(i)
    /\ applied \in [Instructions -> {"none", "partial", "reconciled"}]
    /\ covered \subseteq Instructions
    /\ thrown \subseteq Instructions

\* A worker has what its step needs.
JobOK(w) ==
    /\ job[w].step \in {"check", "create", "mark"} => job[w].batch # Nobody
    /\ job[w].step \in Applying =>
          /\ Instr(w) # Nobody /\ Exists(Instr(w))
          /\ job[w].todo # {}
          /\ IF ByHand(w) THEN job[w].todo = {Current(w)}
             ELSE \A d \in job[w].todo : d \in Deposits /\ sentTo[d] = Instr(w)

\* Every variable has the shape its declaration promises, and no worker of
\* FundingService runs ahead of the records it works on.
TypeOK == DataOK /\ job \in [Workers -> Jobs] /\ \A w \in Workers : JobOK(w)

\* No worker decides on more than there is: the sum it read, and its own
\* transfer once that is recorded, are part of what is credited by now.
DecisionIsBacked ==
    \A w \in Workers :
        /\ At(w, "insert") => job[w].seen =< credited[Instr(w)]
        /\ job[w].step \in Recorded => NextCredited(w) =< credited[Instr(w)]

\* An instruction is reconciled, and its project told so, only once all it
\* asks for is credited, though the decision is made from a sum read three
\* awaits earlier (applyObservation).
ReconciledIsBacked ==
    \A i \in Instructions : instrStatus[i] = "reconciled" \/ i \in covered =>
        credited[i] > 0 /\ credited[i] >= expectedAmount[i]

\* What the row of a signature brings: what the transfer pays, if a scan
\* recorded it, or what was typed.
Worth(k) == IF typed[k] > 0 THEN typed[k] ELSE AmountOf[k]

\* What is credited to an instruction is the sum of its accepted rows, and
\* a scan records only what was sent to it: overlapping scans, retries and
\* records by hand never credit one signature twice, in one instruction or
\* in two.  (A transfer that is also recorded under a text of one's own
\* counts again: nothing in the code relates the two.)
CreditedOnce ==
    \A i \in Instructions :
        LET mine == {k \in recorded \ rejected : recordedFor[k] = i} IN
        /\ credited[i] = SumFunction([k \in mine |-> Worth(k)])
        /\ \A k \in mine : typed[k] = 0 => k \in Deposits /\ sentTo[k] = i

\* The ledger never overstates: neither the funding received nor the surplus
\* exceeds what is credited, though the entries are computed from sums other
\* workers have moved past.
LedgerNotOverstated ==
    \A i \in Instructions :
        /\ received[i] =< credited[i]
        /\ surplus[i] =< Excess(credited[i], expectedAmount[i])

\* With one request at a time and no failure, an instruction at rest is in
\* agreement with itself: its status, what the project knows and the funding
\* received are those of the credited amount; so are the reservation and the
\* surplus, and no case is left open for money that has come, unless the
\* turn that told the project has thrown before it got to them.
AtRestConsistent ==
    (\A w \in Workers : At(w, "idle")) =>
        \A i \in Instructions : Exists(i) =>
            LET s == FundingStatus(credited[i], expectedAmount[i]) IN
            /\ instrStatus[i] = s
            /\ applied[i] = IF s = "pending" THEN "none" ELSE s
            /\ received[i] = credited[i]
            /\ i \notin thrown =>
                  /\ reserved[i] = IF s = "reconciled" THEN 1 ELSE 0
                  /\ surplus[i] = Excess(credited[i], expectedAmount[i])
                  /\ batchOf[i] \in incomplete => s = "partial"

\* "The API polls Solana for transfers that include the batch reference and
\* reconcile accepted deposits into the batch state": enough money credited
\* to an instruction gets it reconciled.
CreditedReconciled ==
    \A i \in Instructions :
        credited[i] > 0 /\ credited[i] >= expectedAmount[i] ~> instrStatus[i] = "reconciled"

\* Funding keeps the promise of Reconciliation.
Promise == INSTANCE Reconciliation WITH
    asked <- [i \in Instructions |-> IF Exists(i) THEN expectedAmount[i] ELSE -1]
KeepsPromise == Promise!Spec
===============================================================================
