------------------------------- MODULE Projects -------------------------------
(***************************************************************************)
(* DemoDomainService: payroll projects ("batches"), the people in them     *)
(* ("payouts"), their quote, its approval, the dispatch of funded payments *)
(* to the banking partner, compliance cases and partner callbacks.         *)
(*                                                                         *)
(* Every method of the service is synchronous, so each one is a single     *)
(* action.  A call the service refuses changes no variable of this module  *)
(* (at most it opens an exception case, which is left out) and is no step. *)
(*                                                                         *)
(* FundingService calls three of the methods, some time after it has found *)
(* the project approved.  Here that caller is the variable instructed and  *)
(* the actions RequestInstruction, AwaitFunding, ApplyFunded, AutoDispatch *)
(* allowed at any later time; the module Funding gives its real steps.     *)
(*                                                                         *)
(* A definition named as a mutant is a plausible bug in the one after it,  *)
(* kept to show that a run would notice it; no action uses it.             *)
(***************************************************************************)
EXTENDS Corridors, FiniteSets, Functions

CONSTANTS
    Batches,        \* project ids
    Payouts,        \* payout ids: numbers, in the order of a project's lines
    Beneficiaries,  \* people who can be paid
    BatchOf,        \* the project a payout belongs to
    BeneficiaryOf,  \* the person a payout pays
    CountryOf,      \* a person's country
    Amounts,        \* the local amounts a line may have
    Approvals,      \* the approvals an edit may ask for
    Refused,        \* people whose payment the partner refuses
    Seeded,         \* people known, and valid, when the service first starts
    Events,         \* ids of partner callbacks
    MaxDispatches   \* bound: times a payout is handed over or held for review

ASSUME PayoutsAssumption == Payouts \subseteq Nat /\ IsFiniteSet(Payouts)
ASSUME LinksAssumption ==
    /\ BatchOf \in [Payouts -> Batches]
    /\ BeneficiaryOf \in [Payouts -> Beneficiaries]
    /\ CountryOf \in [Beneficiaries -> Countries]
    /\ Refused \subseteq Beneficiaries
    /\ Seeded \subseteq Beneficiaries
ASSUME AmountsAssumption == Amounts \subseteq Nat
ASSUME ApprovalsAssumption == Approvals \subseteq {"pending", "approved", "excluded"}

VARIABLES
    beneficiary,        \* "absent", "valid" or "invalid"
    batchStatus,        \* a project's status, "none" before it is created
    totalFundingUsdc,   \* what the project says it needs, in cents of USDC
    quote,              \* a project's quote: "none", "live" or "expired"
    line,               \* the price of a payout in its project's quote
    status,             \* a payout's status, "none" before it is created
    approvalStatus,     \* whether the person is approved for payment
    amountLocal,        \* a payout's amount
    fundingAmountUsdc,  \* a payout's own price
    invalid,            \* the payouts with validation errors
    openCases,          \* number of open compliance cases about a payout
    reviewed,           \* the payouts with a resolved compliance case
    webhookEvents,      \* the partner callbacks received, with the payout each is about
    dispatches,         \* number of payout_dispatched entries for a payout
    instructed          \* the projects found ready for funding instructions

quoteVars == <<totalFundingUsdc, quote, line, fundingAmountUsdc>>
lineVars  == <<approvalStatus, amountLocal, invalid>>
cardVars  == <<openCases, reviewed, webhookEvents, dispatches>>
vars == <<beneficiary, batchStatus, status, quoteVars, lineVars, cardVars,
          instructed>>

BatchStatuses == {"draft", "validated", "awaiting_approval", "approved",
                  "awaiting_funding", "funded", "dispatching", "in_review",
                  "completed", "failed"}
PayoutStatuses == {"draft", "validated", "quoted", "approved",
                   "awaiting_funding", "funded", "in_review", "paid", "failed"}
Editable == {"draft", "validated", "awaiting_approval", "approved"}

\* A partner callback that was received.
Reports == [event : Events, payout : Payouts]
Reported(p) == \E report \in webhookEvents : report.payout = p

NoLine == -1      \* no line in a quote
NoChange == -1    \* an edit that leaves the amount alone

-------------------------------------------------------------------------------
\* f with the value v at every point of S.
SetAll(f, S, v) == [x \in DOMAIN f |-> IF x \in S THEN v ELSE f[x]]

Country(p) == CountryOf[BeneficiaryOf[p]]
Lines(b) == {p \in Payouts : BatchOf[p] = b}
PayoutsOf(b) == {p \in Lines(b) : status[p] # "none"}
Approved(b) == {p \in Lines(b) : approvalStatus[p] = "approved"}

\* validatePayout: the person's record and the corridor's limits, as they
\* are when the line is written.
HasErrors(p, amount) ==
    \/ beneficiary[BeneficiaryOf[p]] # "valid"
    \/ ~ WithinLimits(Country(p), amount)

DraftStatus(p, bad) == IF p \in bad THEN "draft" ELSE "validated"

\* recalculateDraftBatchTotals: the status of a project open to editing.
DraftBatchStatus(S, bad) == IF S \cap bad = {} THEN "validated" ELSE "draft"

\* Mutant of ResolvedStatus: the project takes the status of a payout.
ResolvedAsPayout(S, st) ==
    IF S = {} THEN "completed" ELSE IF \A p \in S : st[p] = "paid" THEN "paid" ELSE "dispatching"

\* Mutant of ResolvedStatus: payouts held or failed are not looked for.
ResolvedIgnoringTrouble(S, st) ==
    IF \A p \in S : st[p] = "paid" THEN "completed"
    ELSE IF \A p \in S : st[p] = "funded" THEN "funded"
    ELSE "dispatching"

\* resolveBatchStatus, over the approved payouts S with statuses st.
ResolvedStatus(S, st) ==
    IF S = {} THEN "completed"
    ELSE IF \E p \in S : st[p] = "in_review" THEN "in_review"
    ELSE IF \A p \in S : st[p] = "paid" THEN "completed"
    ELSE IF \E p \in S : st[p] = "failed" THEN "failed"
    ELSE IF \A p \in S : st[p] = "funded" THEN "funded"
    ELSE "dispatching"

\* Mutant of Fundable: paid payouts are touched too.
FundableEvenPaid(b) == {p \in Approved(b) : status[p] \notin {"failed", "in_review"}}

\* The approved payouts that a change of the funding status touches.
Fundable(b) == {p \in Approved(b) : status[p] \notin {"paid", "failed", "in_review"}}
Payable(b) == {p \in Approved(b) : status[p] = "funded"}

NeedsReview(p) == amountLocal[p] > ReviewThreshold(Country(p))
Outcome(p) == IF BeneficiaryOf[p] \in Refused THEN "failed" ELSE "paid"

\* The part of the payouts S that a loop over dispatchPayout gets through.
\* A payout held for review puts the project in review, and so does the
\* summary after a payment when another payout is held already: the next
\* call of dispatchPayout then throws and ends the loop.
LoopReach(b, S) ==
    {p \in S : \A q \in S : q < p =>
        /\ ~ NeedsReview(q)
        /\ \A r \in Approved(b) : status[r] # "in_review"}

\* dispatchPayout for every payout of S, in projects whose payouts have the
\* statuses st: the partner answers at once, in the same call.  A held
\* payout sets the project to "in_review", which is its summary too.
Dispatch(b, S, st) ==
    LET held == {p \in S : NeedsReview(p)}
        new == [p \in Payouts |-> IF p \in held THEN "in_review"
                                  ELSE IF p \in S THEN Outcome(p) ELSE st[p]]
    IN  /\ status' = new
        /\ batchStatus' = [batchStatus EXCEPT ![b] = ResolvedStatus(Approved(b), new)]
        /\ openCases' = [p \in Payouts |->
                            IF p \in held THEN openCases[p] + 1 ELSE openCases[p]]
        /\ dispatches' = [p \in Payouts |->
                            IF p \in S \ held THEN dispatches[p] + 1 ELSE dispatches[p]]
        /\ \A p \in S : openCases[p] + dispatches[p] < MaxDispatches   \* bound
        /\ UNCHANGED <<reviewed, webhookEvents>>

-------------------------------------------------------------------------------
Init ==
    /\ beneficiary = [n \in Beneficiaries |-> IF n \in Seeded THEN "valid" ELSE "absent"]
    /\ batchStatus = [b \in Batches |-> "none"]
    /\ totalFundingUsdc = [b \in Batches |-> 0]
    /\ quote = [b \in Batches |-> "none"]
    /\ line = [p \in Payouts |-> NoLine]
    /\ status = [p \in Payouts |-> "none"]
    /\ approvalStatus = [p \in Payouts |-> "pending"]
    /\ amountLocal = [p \in Payouts |-> 0]
    /\ fundingAmountUsdc = [p \in Payouts |-> 0]
    /\ invalid = {}
    /\ openCases = [p \in Payouts |-> 0]
    /\ reviewed = {}
    /\ webhookEvents = {}
    /\ dispatches = [p \in Payouts |-> 0]
    /\ instructed = {}

\* A new person, or an edit of one.  The payouts of the person keep the
\* verdict they got when their line was written.
SetBeneficiary(n, verdict) ==
    /\ beneficiary' = [beneficiary EXCEPT ![n] = verdict]
    /\ UNCHANGED <<batchStatus, status, quoteVars, lineVars, cardVars, instructed>>

CreateBeneficiary(n, verdict) == beneficiary[n] = "absent" /\ SetBeneficiary(n, verdict)
UpdateBeneficiary(n, verdict) == beneficiary[n] # "absent" /\ SetBeneficiary(n, verdict)

\* createBatch with one line per point of amounts.
CreateBatch(b, amounts) ==
    LET S == DOMAIN amounts
        bad == {p \in S : HasErrors(p, amounts[p])}
    IN  /\ batchStatus[b] = "none"
        /\ \A p \in S : beneficiary[BeneficiaryOf[p]] # "absent"
        /\ amountLocal' = [p \in Payouts |-> IF p \in S THEN amounts[p] ELSE amountLocal[p]]
        /\ invalid' = invalid \cup bad
        /\ status' = [p \in Payouts |-> IF p \in S THEN DraftStatus(p, bad) ELSE status[p]]
        /\ batchStatus' = [batchStatus EXCEPT ![b] = DraftBatchStatus(S, bad)]
        /\ UNCHANGED <<beneficiary, quoteVars, approvalStatus, cardVars, instructed>>

\* Mutant of InvalidateQuote: the project still asks for the old total.
InvalidateKeepingTotal(b) ==
    /\ quote' = [quote EXCEPT ![b] = "none"]
    /\ line' = SetAll(line, Lines(b), NoLine)
    /\ totalFundingUsdc' = totalFundingUsdc

InvalidateQuote(b) ==
    /\ quote' = [quote EXCEPT ![b] = "none"]
    /\ line' = SetAll(line, Lines(b), NoLine)
    /\ totalFundingUsdc' = [totalFundingUsdc EXCEPT ![b] = 0]

\* updatePayout: an edit of the amount, of the approval, of both, or of the
\* comment alone.  Every one of them throws the project's quote away.
UpdatePayout(p, amount, approval) ==
    LET b == BatchOf[p]
        edited == amount # NoChange
        bad == IF ~ edited THEN invalid
               ELSE IF HasErrors(p, amount) THEN invalid \cup {p} ELSE invalid \ {p}
    IN  /\ status[p] # "none"
        /\ batchStatus[b] \in Editable
        /\ invalid' = bad
        /\ amountLocal' = IF edited THEN [amountLocal EXCEPT ![p] = amount] ELSE amountLocal
        /\ fundingAmountUsdc' =
              IF edited THEN [fundingAmountUsdc EXCEPT ![p] = 0] ELSE fundingAmountUsdc
        /\ status' = IF edited THEN [status EXCEPT ![p] = DraftStatus(p, bad)] ELSE status
        /\ approvalStatus' = [approvalStatus EXCEPT ![p] = approval]
        /\ InvalidateQuote(b)
        /\ batchStatus' = [batchStatus EXCEPT ![b] = DraftBatchStatus(PayoutsOf(b), bad)]
        /\ UNCHANGED <<beneficiary, cardVars, instructed>>

\* createQuote asks nothing of the project's status.
CreateQuote(b) ==
    LET S == Approved(b)
        price(p) == FundingCents(Country(p), amountLocal[p])
    IN  /\ batchStatus[b] # "none"
        /\ S # {} /\ S \cap invalid = {}
        /\ fundingAmountUsdc' = [p \in Payouts |->
              IF p \in S THEN price(p)
              ELSE IF p \in PayoutsOf(b) THEN 0 ELSE fundingAmountUsdc[p]]
        /\ status' = [p \in Payouts |->
              IF p \in S THEN "quoted"
              ELSE IF p \in PayoutsOf(b) THEN DraftStatus(p, invalid) ELSE status[p]]
        /\ line' = [p \in Payouts |->
              IF p \in S THEN price(p) ELSE IF p \in Lines(b) THEN NoLine ELSE line[p]]
        /\ quote' = [quote EXCEPT ![b] = "live"]
        /\ totalFundingUsdc' = [totalFundingUsdc EXCEPT ![b] =
              SumFunction([p \in S |-> price(p)])]
        /\ batchStatus' = [batchStatus EXCEPT ![b] = "awaiting_approval"]
        /\ UNCHANGED <<beneficiary, lineVars, cardVars, instructed>>

\* Twenty minutes pass: approveBatch will refuse the quote.
ExpireQuote(b) ==
    /\ quote[b] = "live"
    /\ quote' = [quote EXCEPT ![b] = "expired"]
    /\ UNCHANGED <<beneficiary, batchStatus, status, totalFundingUsdc, line,
                   fundingAmountUsdc, lineVars, cardVars, instructed>>

\* approveBatch asks for a live quote, not for a status.
ApproveBatch(b, outcome) ==
    /\ quote[b] = "live"
    /\ batchStatus' = [batchStatus EXCEPT ![b] = outcome]
    /\ status' = SetAll(status, Approved(b), outcome)
    /\ UNCHANGED <<beneficiary, quoteVars, lineVars, cardVars, instructed>>

\* The check at the head of ensureFundingInstruction.
RequestInstruction(b) ==
    /\ batchStatus[b] \in {"approved", "awaiting_funding", "funded"}
    /\ instructed' = instructed \cup {b}
    /\ UNCHANGED <<beneficiary, batchStatus, status, quoteVars, lineVars, cardVars>>

\* markBatchAwaitingFunding, and applyFundingStatus for a partial deposit.
AwaitFunding(b) ==
    /\ b \in instructed
    /\ batchStatus' = [batchStatus EXCEPT ![b] = "awaiting_funding"]
    /\ status' = SetAll(status, Fundable(b), "awaiting_funding")
    /\ UNCHANGED <<beneficiary, quoteVars, lineVars, cardVars, instructed>>

\* applyFundingStatus for a reconciled instruction, alone ...
ApplyFunded(b) ==
    /\ b \in instructed
    /\ batchStatus' = [batchStatus EXCEPT ![b] = "funded"]
    /\ status' = SetAll(status, Fundable(b), "funded")
    /\ UNCHANGED <<beneficiary, quoteVars, lineVars, cardVars, instructed>>

\* ... or followed by autoDispatchFundedPayouts in the same turn.
AutoDispatch(b) ==
    /\ b \in instructed
    /\ Fundable(b) # {}
    /\ Dispatch(b, LoopReach(b, Fundable(b)), SetAll(status, Fundable(b), "funded"))
    /\ UNCHANGED <<beneficiary, quoteVars, lineVars, instructed>>

Dispatchable(b) == batchStatus[b] \in {"funded", "dispatching", "failed"}

DispatchPayout(p) ==
    /\ Dispatchable(BatchOf[p])
    /\ p \in Payable(BatchOf[p])
    /\ Dispatch(BatchOf[p], {p}, status)
    /\ UNCHANGED <<beneficiary, quoteVars, lineVars, instructed>>

SendApprovedPayouts(b) ==
    /\ Dispatchable(b)
    /\ Payable(b) # {}
    /\ Dispatch(b, LoopReach(b, Payable(b)), status)
    /\ UNCHANGED <<beneficiary, quoteVars, lineVars, instructed>>

\* Mutant of Settle: every line of the project takes the status.
SettleWholeProject(p, s) ==
    /\ status' = SetAll(status, Lines(BatchOf[p]), s)
    /\ batchStatus' = batchStatus

\* The status of payout p becomes s, and its project is summarised again.
Settle(p, s) ==
    LET new == [status EXCEPT ![p] = s]
    IN  /\ status' = new
        /\ batchStatus' = [batchStatus EXCEPT ![BatchOf[p]] =
                              ResolvedStatus(Approved(BatchOf[p]), new)]

\* Mutant of ResolveComplianceCase: the payout is forgotten.
ResolveCaseOnly(p) ==
    /\ openCases[p] > 0
    /\ openCases' = [openCases EXCEPT ![p] = @ - 1]
    /\ reviewed' = reviewed \cup {p}
    /\ UNCHANGED <<beneficiary, batchStatus, status, quoteVars, lineVars, webhookEvents,
                   dispatches, instructed>>

\* resolveComplianceCase for an open case about p, or for a resolved one:
\* the case's own status is not looked at.
ResolveComplianceCase(p) ==
    /\ \/ /\ openCases[p] > 0
          /\ openCases' = [openCases EXCEPT ![p] = @ - 1]
       \/ /\ p \in reviewed
          /\ openCases' = openCases
    /\ reviewed' = reviewed \cup {p}
    /\ Settle(p, "funded")
    /\ UNCHANGED <<beneficiary, quoteVars, lineVars, webhookEvents, dispatches, instructed>>

\* recordPartnerWebhook for a new event.  It is believed about any payout,
\* one that was never handed over or is not approved among them.
RecordPartnerWebhook(e, p, s) ==
    /\ status[p] # "none"
    /\ \A report \in webhookEvents : report.event # e
    /\ webhookEvents' = webhookEvents \cup {[event |-> e, payout |-> p]}
    /\ Settle(p, s)
    /\ UNCHANGED <<beneficiary, quoteVars, lineVars, openCases, reviewed, dispatches,
                   instructed>>

\* What people and the partner ask for, except the resolution of a case.
Calls ==
    \/ \E n \in Beneficiaries, verdict \in {"valid", "invalid"} :
          CreateBeneficiary(n, verdict) \/ UpdateBeneficiary(n, verdict)
    \/ \E b \in Batches : \E S \in SUBSET Lines(b) : \E amounts \in [S -> Amounts] :
          CreateBatch(b, amounts)
    \/ \E p \in Payouts, amount \in Amounts \cup {NoChange}, approval \in Approvals :
          UpdatePayout(p, amount, approval)
    \/ \E b \in Batches :
          \/ CreateQuote(b)
          \/ \E outcome \in {"approved", "failed"} : ApproveBatch(b, outcome)
          \/ SendApprovedPayouts(b)
    \/ \E p \in Payouts : DispatchPayout(p)
    \/ \E e \in Events, p \in Payouts, s \in {"paid", "failed"} :
          RecordPartnerWebhook(e, p, s)

Next ==
    \/ Calls
    \/ \E p \in Payouts : ResolveComplianceCase(p)
    \/ \E b \in Batches :
          \/ ExpireQuote(b)
          \/ RequestInstruction(b)
          \/ AwaitFunding(b)
          \/ ApplyFunded(b)
          \/ AutoDispatch(b)

Spec == Init /\ [][Next]_vars

-------------------------------------------------------------------------------
\* Every variable has the shape its declaration promises, and what has not
\* been created yet has no approval and no error.
TypeOK ==
    /\ beneficiary \in [Beneficiaries -> {"absent", "valid", "invalid"}]
    /\ batchStatus \in [Batches -> BatchStatuses \cup {"none"}]
    /\ totalFundingUsdc \in [Batches -> Nat]
    /\ quote \in [Batches -> {"none", "live", "expired"}]
    /\ line \in [Payouts -> Nat \cup {NoLine}]
    /\ status \in [Payouts -> PayoutStatuses \cup {"none"}]
    /\ approvalStatus \in [Payouts -> {"pending", "approved", "excluded"}]
    /\ amountLocal \in [Payouts -> Nat]
    /\ fundingAmountUsdc \in [Payouts -> Nat]
    /\ invalid \subseteq Payouts
    /\ openCases \in [Payouts -> Nat]
    /\ reviewed \subseteq Payouts
    /\ webhookEvents \subseteq Reports
    /\ dispatches \in [Payouts -> Nat]
    /\ instructed \subseteq Batches
    /\ \A p \in Payouts :
          /\ batchStatus[BatchOf[p]] = "none" => status[p] = "none"
          /\ status[p] = "none" => approvalStatus[p] = "pending" /\ p \notin invalid

\* The quote of project b, or its absence, agrees with the lines it was
\* made from.
QuoteMatches(b) ==
    IF quote[b] = "none"
    THEN totalFundingUsdc[b] = 0 /\ \A p \in Lines(b) : line[p] = NoLine
    ELSE /\ Approved(b) # {}
         /\ \A p \in Approved(b) :
               /\ line[p] = FundingCents(Country(p), amountLocal[p])
               /\ fundingAmountUsdc[p] = line[p]
               /\ p \notin invalid
         /\ \A p \in Lines(b) \ Approved(b) : line[p] = NoLine
         /\ totalFundingUsdc[b] = SumFunction([p \in Approved(b) |-> line[p]])

\* A quote prices exactly the people approved now, at the amounts their
\* lines have now, and the project asks for its total; a project without a
\* quote asks for nothing.  This is what the approver signs and what the
\* funding instruction is made from (createQuote, updatePayout,
\* invalidateQuote).
QuoteMatchesApproved == \A b \in Batches : QuoteMatches(b)

\* The statuses the approved payouts of a project with status s may have.
StatusesUnder(s) ==
    CASE s = "awaiting_approval" -> {"quoted"}
      [] s = "approved" -> {"approved"}
      [] s = "awaiting_funding" -> {"awaiting_funding", "paid", "failed", "in_review"}
      [] s = "funded" -> {"funded", "paid", "failed", "in_review"}
      [] s = "dispatching" -> PayoutStatuses \ {"in_review", "failed"}
      [] s = "completed" -> {"paid"}
      [] OTHER -> PayoutStatuses

\* The status of project b tells the truth about its approved payouts.
StatusSound(b) ==
    LET s == batchStatus[b] IN
    /\ \A p \in Approved(b) : status[p] \in StatusesUnder(s)
    /\ s \in {"awaiting_approval", "approved"} => quote[b] # "none"
    /\ s = "in_review" => \E p \in Approved(b) : status[p] = "in_review"
    /\ s = "failed" => \E p \in Approved(b) : status[p] = "failed"
    /\ s = "dispatching" => \E p \in Approved(b) : status[p] # "paid"
    /\ s = "draft" => PayoutsOf(b) \cap invalid # {}
    /\ s = "validated" => PayoutsOf(b) \cap invalid = {}

\* The status shown for a project is true of its payouts, whichever calls
\* led there: it is stored, written by nine methods, and read by the guards
\* of dispatch, edit and funding.
BatchStatusSound == \A b \in Batches : StatusSound(b)

\* A payout held for review has an open case a reviewer can resolve: no
\* sequence of quotes, approvals, callbacks and resolved cases strands it.
InReviewHasOpenCase ==
    \A p \in Payouts : status[p] = "in_review" => openCases[p] > 0

\* A payout shown as paid was handed to the partner, or the partner reported
\* on this very payout: no other call, and no callback about another payout,
\* shows it as paid.
PaidHasReason ==
    \A p \in Payouts : status[p] = "paid" => dispatches[p] > 0 \/ Reported(p)

\* A payout that was paid stays paid (a "final paid state for successful
\* items").
PaidIsFinal ==
    [][\A p \in Payouts : status[p] = "paid" => status'[p] = "paid"]_vars
===============================================================================
