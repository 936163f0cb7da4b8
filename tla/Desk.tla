--------------------------------- MODULE Desk ---------------------------------
(***************************************************************************)
(* The page of one project in the web console (BatchesPage): the table of  *)
(* its people, the approval signed with a wallet, the quote, the approval, *)
(* the funding panel with the wallet that pays, and the advice on what to  *)
(* do next.  The module Projects is the API behind it.                     *)
(*                                                                         *)
(* A page is as old as its last answer (module Workspace), and its buttons *)
(* stay where they were: a click can come at any time after the page could *)
(* offer it, so an action has the guards of the API and of the handler.    *)
(* What an up-to-date page offers and says are the operators at the end.   *)
(* The partner reports on payouts at any time, and is believed: before the *)
(* money, too.  The calls that have no button, to reject a project and to  *)
(* send all of its payments, are left out.                                 *)
(*                                                                         *)
(* Money is counted in halves of the instruction's expected amount, and    *)
(* FundingService finds and applies one transfer at a time; the module     *)
(* Funding has its steps.                                                  *)
(*                                                                         *)
(* A definition named as a mutant is a plausible bug in the one after it,  *)
(* kept to show that a run would notice it; no action uses it.             *)
(***************************************************************************)
EXTENDS Projects

CONSTANTS
    Project,        \* the project on display
    Drafts,         \* the lines it may be created with
    Typed,          \* amounts people type, in cents of USDC
    MaxHalves       \* bound: halves of the expected amount that are sent

ASSUME ProjectAssumption == Batches = {Project}
ASSUME DraftsAssumption ==
    \A amounts \in Drafts : \E S \in SUBSET Lines(Project) : amounts \in [S -> Amounts]
ASSUME DeskApprovalsAssumption == Approvals = {"pending", "approved", "excluded"}
ASSUME MaxHalvesAssumption == MaxHalves \in Nat

VARIABLES
    instruction,    \* whether the project's funding instruction is stored
    onChain,        \* halves sent by the wallet and not found yet
    credited,       \* halves credited to the instruction
    wallet,         \* "idle", "asked" to pay, or "confirming" the transfer
    signing,        \* the payouts in the message the wallet is asked to sign
    approving,      \* the payouts whose signed approval is on its way
    decided         \* the payouts somebody decided about since they were last paid

fundingVars == <<instruction, onChain, credited, wallet>>
signVars == <<signing, approving>>
deskVars == <<fundingVars, signVars, decided>>
allVars == <<vars, deskVars>>

Expected == 2

-------------------------------------------------------------------------------
\* The amount of a row as the table shows it, in cents of USDC, and back.  A
\* cent is 41 Colombian pesos, and 43 of the others make 250 cents.
Cents(c) == IF c = "CO" THEN 1 ELSE 250
Units(c) == IF c = "CO" THEN 41 ELSE 43
Nearest(n, d) == (2 * n + d) \div (2 * d)

ToUsdc(c, local) == Nearest(Cents(c) * local, Units(c))
ToLocal(c, cents) == Nearest(Units(c) * cents, Cents(c))

\* What leaving a cell writes when nobody typed anything.
Touched(c, local) == ToLocal(c, ToUsdc(c, local))

ASSUME CellsAssumption == \A p \in Payouts :
    /\ \A amount \in Amounts : Touched(Country(p), amount) \in Amounts
    /\ \A cents \in Typed : ToLocal(Country(p), cents) \in Amounts

Pending == {p \in PayoutsOf(Project) : approvalStatus[p] = "pending"}

-------------------------------------------------------------------------------
DeskInit ==
    /\ Init
    /\ instruction = FALSE
    /\ onChain = 0
    /\ credited = 0
    /\ wallet = "idle"
    /\ signing = {}
    /\ approving = {}
    /\ decided = {}

\* A decision to pay the payouts S, and no payment; or the payments of a
\* step, which use up what was decided.
Decide(S) == decided' = decided \cup S
UseUp == decided' = {p \in decided : dispatches'[p] = dispatches[p]}

\* The modal of the module Intake.
Create == \E amounts \in Drafts : CreateBatch(Project, amounts) /\ UNCHANGED deskVars

\* "Approve" and "Exclude" in a row.
SetApproval(p, approval) ==
    /\ UpdatePayout(p, NoChange, approval)
    /\ UNCHANGED deskVars

\* The focus leaves the amount of a row.
LeaveCell(p, cents) ==
    LET amount == ToLocal(Country(p), cents)
    IN  /\ amount # amountLocal[p]
        /\ UpdatePayout(p, amount, approvalStatus[p])
        /\ UNCHANGED deskVars

\* "Sign & approve selected": the pending rows with a tick.  Ticks are free.
AskSignature(rows) ==
    /\ signing = {}
    /\ rows # {} /\ rows \subseteq Pending
    /\ signing' = rows
    /\ UNCHANGED <<vars, fundingVars, approving, decided>>

\* The wallet answers: the rows of the message are sent for approval, or
\* nothing happens.
Signed(sent) ==
    /\ signing # {}
    /\ sent \in {{}, signing}
    /\ approving' = approving \cup sent
    /\ signing' = {}
    /\ UNCHANGED <<vars, fundingVars, decided>>

\* A signed approval reaches the API, which may refuse it.
ApproveSigned(p) ==
    /\ p \in approving
    /\ approving' = approving \ {p}
    /\ \/ UpdatePayout(p, NoChange, "approved")
       \/ batchStatus[Project] \notin Editable /\ UNCHANGED vars
    /\ UNCHANGED <<fundingVars, signing, decided>>

\* "Quote approved payouts".
Quote ==
    /\ CreateQuote(Project)
    /\ Decide(Approved(Project))
    /\ UNCHANGED <<fundingVars, signVars>>

\* "Approve batch".
Approve ==
    /\ ApproveBatch(Project, "approved")
    /\ Decide(Approved(Project))
    /\ UNCHANGED <<fundingVars, signVars>>

Expire == ExpireQuote(Project) /\ UNCHANGED deskVars

\* "Generate funding instructions" asks, and the API stores one.
GenerateFunding ==
    /\ ~ instruction
    /\ RequestInstruction(Project)
    /\ UNCHANGED deskVars

StoreInstruction ==
    /\ ~ instruction
    /\ AwaitFunding(Project)
    /\ instruction' = TRUE
    /\ UNCHANGED <<onChain, credited, wallet, signVars, decided>>

\* "Fund": the wallet is asked for the expected amount, whatever was sent.
AskPayment ==
    /\ instruction
    /\ wallet = "idle"
    /\ onChain + credited + Expected =< MaxHalves       \* bound
    /\ wallet' = "asked"
    /\ UNCHANGED <<vars, instruction, onChain, credited, signVars, decided>>

WalletPays ==
    /\ wallet = "asked"
    /\ onChain' = onChain + Expected
    /\ wallet' = "confirming"
    /\ UNCHANGED <<vars, instruction, credited, signVars, decided>>

\* The wallet declines, or the transfer is confirmed, or confirming it
\* fails; the last two look the same from here, and so does the button.
WalletDone ==
    /\ wallet # "idle"
    /\ wallet' = "idle"
    /\ UNCHANGED <<vars, instruction, onChain, credited, signVars, decided>>

\* Mutant of Credit: the first transfer is enough.
CreditAnything(halves) ==
    /\ credited' = credited + halves
    /\ \/ Fundable(Project) # {} /\ AutoDispatch(Project)
       \/ Fundable(Project) = {} /\ ApplyFunded(Project)

\* applyObservation: payments start when the expected amount is reached.
Credit(halves) ==
    /\ credited' = credited + halves
    /\ \/ credited' < Expected /\ AwaitFunding(Project)
       \/ credited < Expected /\ credited' >= Expected /\ AutoDispatch(Project)
       \/ credited' >= Expected /\ ApplyFunded(Project)
          /\ (credited >= Expected \/ Fundable(Project) = {})

\* Mutant of Scan: it counts on a transfer.
ScanBlindly ==
    /\ instruction
    /\ onChain' = onChain - Expected
    /\ Credit(Expected)
    /\ UseUp
    /\ UNCHANGED <<instruction, wallet, signVars>>

\* "Refresh funding", or the watcher, finds a transfer.
Scan ==
    /\ instruction
    /\ onChain > 0
    /\ onChain' = onChain - Expected
    /\ Credit(Expected)
    /\ UseUp
    /\ UNCHANGED <<instruction, wallet, signVars>>

\* What the modal takes: any positive amount, at first the expected one.
ManualAmounts == 1 .. MaxHalves

\* "Record manual funding".
RecordManual(halves) ==
    /\ instruction
    /\ onChain + credited + halves =< MaxHalves         \* bound
    /\ Credit(halves)
    /\ UseUp
    /\ UNCHANGED <<instruction, onChain, wallet, signVars>>

\* "Send" in a row.
Send(p) == DispatchPayout(p) /\ UseUp /\ UNCHANGED <<fundingVars, signVars>>

\* "Clear review" on the exceptions page.
ClearReview(p) ==
    /\ ResolveComplianceCase(p)
    /\ Decide({p})
    /\ UNCHANGED <<fundingVars, signVars>>

\* A callback of the partner, about any payout.
PartnerReports(e, p, s) == RecordPartnerWebhook(e, p, s) /\ UNCHANGED deskVars

People ==
    \/ Create \/ Quote \/ Approve \/ GenerateFunding \/ AskPayment
    \/ \E rows \in SUBSET Payouts : AskSignature(rows)
    \/ \E halves \in ManualAmounts : RecordManual(halves)
    \/ \E p \in Payouts :
          \/ \E approval \in {"approved", "excluded"} : SetApproval(p, approval)
          \/ \E cents \in Typed \cup {ToUsdc(Country(p), amountLocal[p])} : LeaveCell(p, cents)
          \/ Send(p)
          \/ ClearReview(p)

DeskNext ==
    \/ People
    \/ Expire \/ StoreInstruction \/ WalletPays \/ WalletDone \/ Scan
    \/ \E sent \in SUBSET Payouts : Signed(sent)
    \/ \E p \in Payouts : ApproveSigned(p)
    \/ \E e \in Events, p \in Payouts, s \in {"paid", "failed"} : PartnerReports(e, p, s)

DeskSpec == DeskInit /\ [][DeskNext]_allVars

-------------------------------------------------------------------------------
\* What an up-to-date page shows.  getFundingStepItems and getDemoFlowState
\* tick off the execution; the button to send is in a row of the table.
Status == batchStatus[Project]

Executed(p) == status[p] \in {"paid", "failed", "in_review"}
HasExecution == \E p \in PayoutsOf(Project) : Executed(p)
ExecutionTicked == HasExecution \/ Status = "completed"

SendOffered(p) == Status = "funded" /\ p \in Payable(Project)

\* Mutant of NextActionDescription: "approved" does not look for the instruction.
DescriptionForgettingInstruction ==
    CASE Status = "approved" -> "generate"
      [] Status = "awaiting_funding" -> "send money"
      [] Status \in {"funded", "dispatching"} -> "reconciled"
      [] Status = "in_review" -> "needs review"
      [] Status = "failed" -> "see exceptions"
      [] Status = "awaiting_approval" -> "approve"
      [] Status \in {"draft", "validated"} -> "set up"
      [] OTHER -> "review"

\* getNextActionDescription
NextActionDescription ==
    CASE Status \in {"draft", "validated"} -> "set up"
      [] Status = "awaiting_approval" -> "approve"
      [] Status = "approved" /\ ~ instruction -> "generate"
      [] Status = "awaiting_funding" -> "send money"
      [] Status \in {"funded", "dispatching"} -> "reconciled"
      [] Status = "in_review" -> "needs review"
      [] Status = "failed" -> "see exceptions"
      [] OTHER -> "review"

-------------------------------------------------------------------------------
\* Every variable of the page has the shape its declaration promises.
DeskTypeOK ==
    /\ instruction \in BOOLEAN
    /\ onChain \in Nat
    /\ credited \in Nat
    /\ wallet \in {"idle", "asked", "confirming"}
    /\ signing \subseteq Payouts
    /\ approving \subseteq Payouts
    /\ decided \subseteq Payouts

\* What the advice on the next action takes for granted is true: there is a
\* quote to approve, no instruction yet to generate, money missing from the
\* one to send it to, money there when it says so, and a payment held, or
\* failed, when it sends people to look for one.  The partner alone makes it
\* wrong: a callback before the money sets the project to dispatching.
AdviceIsTrue ==
    CASE NextActionDescription = "approve" -> quote[Project] # "none"
      [] NextActionDescription = "generate" -> ~ instruction
      [] NextActionDescription = "send money" -> instruction /\ credited < Expected
      [] NextActionDescription = "reconciled" ->
            credited >= Expected \/ (Status = "dispatching" /\ webhookEvents # {})
      [] NextActionDescription = "needs review" ->
            \E p \in PayoutsOf(Project) : status[p] = "in_review"
      [] NextActionDescription = "see exceptions" ->
            \E p \in PayoutsOf(Project) : status[p] = "failed"
      [] OTHER -> TRUE

\* While money is missing the page ticks off the execution only because the
\* partner says so, and only of the payouts it reported on: no click,
\* signature, deposit or scan, in whatever order, executes or holds a payment
\* before the money is there.
ExecutionFollowsFunding ==
    ExecutionTicked /\ credited < Expected =>
        /\ webhookEvents # {}
        /\ \A p \in PayoutsOf(Project) : Executed(p) => Reported(p) /\ status[p] # "in_review"

\* Nobody is paid a second time unless somebody decided about them again
\* since the first: quoted them, approved the project or cleared their
\* review.  No second transfer, late scan or late signature does it.
PaidAgainOnlyIfDecided ==
    [][\A p \in Payouts :
          0 < dispatches[p] /\ dispatches[p] < dispatches'[p] => p \in decided]_allVars

\* "Compliance review is required before this payout can continue": once it
\* was cleared, the page lets it continue.
ContinuesAfterReview ==
    \A p \in Payouts : p \in reviewed /\ p \in Payable(Project) => SendOffered(p)
===============================================================================
