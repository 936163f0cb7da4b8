------------------------------- MODULE Platform -------------------------------
(***************************************************************************)
(* The API as one process: the projects, which DemoDomainService keeps in  *)
(* memory and in a snapshot on disk, beside the funding, which             *)
(* FundingService keeps in the database.  Each step of the one that calls  *)
(* the other is a joint step of Projects and Funding.  No transaction ties *)
(* the two stores together: after a restart the database is as it was, the *)
(* projects are those of the last snapshot, or none: the snapshot is       *)
(* written in place, and one that was cut off is deleted.                  *)
(*                                                                         *)
(* The names of Funding are used as they are, those of Projects with P!.   *)
(***************************************************************************)
EXTENDS Funding

CONSTANTS Payouts, Beneficiaries, BatchOf, BeneficiaryOf, CountryOf, Amounts, Approvals,
          Refused, Seeded, Events, MaxDispatches   \* as in Projects

ASSUME BatchOfAssumption == BatchOf \in [Payouts -> Batches]

VARIABLES
    beneficiary, batchStatus, totalFundingUsdc, quote, line, status, approvalStatus,
    amountLocal, fundingAmountUsdc, invalid, openCases, reviewed, webhookEvents, dispatches,
    instructed,   \* as in Projects
    saved,        \* the snapshot on disk
    forgotten     \* the projects that were lost with a snapshot

P == INSTANCE Projects

projectVars == <<beneficiary, batchStatus, totalFundingUsdc, quote, line, status,
                 approvalStatus, amountLocal, fundingAmountUsdc, invalid, openCases, reviewed,
                 webhookEvents, dispatches, instructed>>
platformVars == <<vars, projectVars, saved, forgotten>>

\* What a snapshot holds: the projects and the company.
Snapshot == [beneficiary |-> beneficiary, batchStatus |-> batchStatus,
             totalFundingUsdc |-> totalFundingUsdc, quote |-> quote, line |-> line,
             status |-> status, approvalStatus |-> approvalStatus,
             amountLocal |-> amountLocal, fundingAmountUsdc |-> fundingAmountUsdc,
             invalid |-> invalid, openCases |-> openCases, reviewed |-> reviewed,
             webhookEvents |-> webhookEvents, dispatches |-> dispatches,
             authorized |-> authorized]

\* What DemoDomainService holds, and saves, when it finds no snapshot.
FirstSnapshot ==
    LET everyBatch(v) == [b \in Batches |-> v]
        everyPayout(v) == [p \in Payouts |-> v]
    IN  [beneficiary |-> [n \in Beneficiaries |-> IF n \in Seeded THEN "valid" ELSE "absent"],
         batchStatus |-> everyBatch("none"), totalFundingUsdc |-> everyBatch(0),
         quote |-> everyBatch("none"), line |-> everyPayout(P!NoLine),
         status |-> everyPayout("none"), approvalStatus |-> everyPayout("pending"),
         amountLocal |-> everyPayout(0), fundingAmountUsdc |-> everyPayout(0),
         invalid |-> {}, openCases |-> everyPayout(0), reviewed |-> {},
         webhookEvents |-> {}, dispatches |-> everyPayout(0),
         authorized |-> Trusted]

\* saveState, at the end of the turn.
Save == saved' = Snapshot'

-------------------------------------------------------------------------------
PlatformInit == Init /\ P!Init /\ saved = FirstSnapshot /\ forgotten = {}

\* A method of DemoDomainService that ends with logAudit, raiseException or
\* recordWebhook, all of which save.  A new project has a new id (randomUUID),
\* never that of a forgotten one.
CallProjects ==
    /\ P!Calls
    /\ \A b \in forgotten : batchStatus'[b] = "none"
    /\ UNCHANGED vars
    /\ Save

\* A quote runs out, in memory and on disk.
PassTime(b) ==
    /\ P!ExpireQuote(b)
    /\ saved' = [saved EXCEPT !.quote = quote']
    /\ UNCHANGED vars

\* resolveComplianceCase saves before it summarises the project again.
ResolveCase(p) ==
    /\ P!ResolveComplianceCase(p)
    /\ saved' = [Snapshot EXCEPT !.status = status', !.openCases = openCases',
                                 !.reviewed = reviewed']
    /\ UNCHANGED vars

UpdateCompany(S) == UpdateWallets(S) /\ UNCHANGED projectVars /\ Save

\* ensureFundingInstruction reads the project ...
Check(w, b) ==
    /\ job[w].batch = b
    /\ EnsureCheck(w, totalFundingUsdc[b])
    /\ P!RequestInstruction(b)
    /\ totalFundingUsdc[b] \in Totals   \* bound
    /\ UNCHANGED saved

\* ... or finds it not ready ...
Refuse(w) ==
    /\ EnsureRefuse(w)
    /\ batchStatus[job[w].batch] \notin {"approved", "awaiting_funding", "funded"}
    /\ UNCHANGED <<projectVars, saved>>

\* ... and marks it when the instruction is stored.
Mark(w) == EnsureMark(w) /\ P!AwaitFunding(job[w].batch) /\ Save

\* applyObservation tells the project.  A partial deposit, and one that
\* finds nothing to dispatch, are not saved.  There is no telling a project
\* that is forgotten: the call throws, which is Fail.
TellPartial(w) ==
    /\ Apply(w, FALSE)
    /\ NextStatus(w) = "partial"
    /\ P!AwaitFunding(batchOf[Instr(w)])
    /\ UNCHANGED saved

TellFunded(w) ==
    /\ Apply(w, FALSE)
    /\ NextStatus(w) = "reconciled"
    /\ Releases(w) => P!Fundable(batchOf[Instr(w)]) = {}
    /\ P!ApplyFunded(batchOf[Instr(w)])
    /\ UNCHANGED saved

\* The automatic dispatch throws when its loop does not get through.
TellAndDispatch(w) ==
    LET payable == P!Fundable(batchOf[Instr(w)]) IN
    /\ At(w, "apply") /\ Releases(w)
    /\ Apply(w, P!LoopReach(batchOf[Instr(w)], payable) # payable)
    /\ P!AutoDispatch(batchOf[Instr(w)])
    /\ Save

\* Mutant of Tell: the status of the transfer is not looked at.
TellAnyway(w) ==
    /\ Apply(w, FALSE)
    /\ P!AutoDispatch(batchOf[Instr(w)])
    /\ Save

\* Mutant of Tell: the automatic dispatch is not saved.
TellUnsaved(w) ==
    \/ TellPartial(w) \/ TellFunded(w)
    \/ /\ Apply(w, FALSE) /\ Releases(w)
       /\ P!AutoDispatch(batchOf[Instr(w)])
       /\ UNCHANGED saved

Tell(w) == TellPartial(w) \/ TellFunded(w) \/ TellAndDispatch(w)

\* The steps of a worker that do not touch the projects.
Work(w) ==
    /\ \/ \E b \in Batches : EnsureLook(w, b)
       \/ \E i \in Instructions : EnsureCreate(w, i) \/ Scan(w, i)
       \/ RecordsManually(w)
       \/ Lookup(w) \/ ReadCredited(w) \/ Insert(w) \/ PostReceived(w) \/ UpdateStatus(w)
       \/ Notice(w) \/ PostReserved(w) \/ PostSurplus(w)
       \/ Fail(w)
    /\ UNCHANGED <<projectVars, saved>>

Deposit == (\E d \in Deposits, i \in Instructions : Send(d, i)) /\ UNCHANGED <<projectVars, saved>>

\* The funding_incomplete cases are in the database.
CloseCase == (\E b \in Batches : ResolveException(b)) /\ UNCHANGED <<projectVars, saved>>

\* Object.assign of a snapshot.
Restore(s) ==
    /\ beneficiary' = s.beneficiary /\ batchStatus' = s.batchStatus
    /\ totalFundingUsdc' = s.totalFundingUsdc /\ quote' = s.quote /\ line' = s.line
    /\ status' = s.status /\ approvalStatus' = s.approvalStatus
    /\ amountLocal' = s.amountLocal /\ fundingAmountUsdc' = s.fundingAmountUsdc
    /\ invalid' = s.invalid /\ openCases' = s.openCases /\ reviewed' = s.reviewed
    /\ webhookEvents' = s.webhookEvents /\ dispatches' = s.dispatches

\* loadState, after the process died between two saves ...
Reload ==
    /\ Restart(saved.authorized)
    /\ Restore(saved)
    /\ UNCHANGED <<instructed, saved>>

\* ... or in the middle of one, which any call may lead to.  What is left of
\* the snapshot cannot be read: loadState deletes it, and the service starts
\* as it did the first time.  The database knows nothing of that.
StartOver ==
    /\ Restart(Trusted)
    /\ Restore(FirstSnapshot)
    /\ instructed' = {}
    /\ saved' = FirstSnapshot
    /\ forgotten' = forgotten \cup {b \in Batches : batchStatus[b] # "none"}

Turn ==
    \/ CallProjects
    \/ \E b \in Batches : PassTime(b)
    \/ \E p \in Payouts : ResolveCase(p)
    \/ \E S \in SUBSET Wallets : UpdateCompany(S)
    \/ Deposit \/ CloseCase
    \/ \E w \in Workers :
          \/ \E b \in Batches : Check(w, b)
          \/ Refuse(w) \/ Mark(w) \/ Tell(w) \/ Work(w)
    \/ Reload

PlatformNext == (Turn /\ UNCHANGED forgotten) \/ StartOver

PlatformSpec == PlatformInit /\ [][PlatformNext]_platformVars

-------------------------------------------------------------------------------
\* The money of project b has arrived: one of its instructions has all it
\* asks for.
Funded(b) ==
    \E i \in Instructions :
        batchOf[i] = b /\ credited[i] > 0 /\ credited[i] >= expectedAmount[i]

\* No payment goes out, is ready to go out, or waits in review, unless an
\* instruction of its project has all it asks for: whatever overlaps, fails,
\* restarts, is edited, quoted again or reported early in between.  A payment
\* is shown as paid without that only where the partner reported on it.
PaidFromFunding ==
    \A p \in Payouts :
        \/ dispatches[p] > 0
        \/ status[p] \in {"funded", "in_review"}
        \/ status[p] = "paid" /\ ~ P!Reported(p)
      => Funded(BatchOf[p])

\* What was handed to the partner, what a reviewer has to decide and what the
\* partner reported is remembered through every crash, the one between two
\* steps of a deposit included; but a crash in the middle of writing the
\* snapshot forgets the whole project.
PaymentsSurvive ==
    [][\A p \in Payouts :
          \/ BatchOf[p] \in forgotten'
          \/ /\ dispatches'[p] >= dispatches[p]
             /\ openCases[p] > 0 => openCases'[p] > 0 \/ p \in reviewed'
             /\ P!Reported(p) => P!Reported(p)']_platformVars

\* "Approval is required before treasury can fund this project": a project
\* that waits for approval is not funded or paid before it is approved.
ApprovalBeforeFunding ==
    [][\A b \in Batches :
          batchStatus[b] = "awaiting_approval" =>
              batchStatus'[b] \notin {"awaiting_funding", "funded", "completed"}]_platformVars
===============================================================================
