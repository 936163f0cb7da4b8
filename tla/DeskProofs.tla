------------------------------ MODULE DeskProofs ------------------------------
(***************************************************************************)
(* Whatever is clicked, signed, paid or found while the page of a project  *)
(* is open, the project is one of the module Projects, whose theorems hold *)
(* for it; and what the page shows about its money is true.                *)
(***************************************************************************)
EXTENDS Desk, ProjectsProofs

\* A line that was created, and whatever presupposes one.
Known(p) ==
    \/ status[p] # "none"
    \/ openCases[p] > 0 \/ p \in reviewed \/ dispatches[p] > 0

\* The amount of an existing line is one that lines may have.
AmountsKnown == \A p \in Payouts : Known(p) => amountLocal[p] \in Amounts

ProjectInv == TypeOK /\ AmountsKnown

\* The project on display is a project, and its lines are all the payouts.
LEMMA OneProject ==
    /\ Project \in Batches
    /\ \A p \in Payouts : BatchOf[p] = Project
    /\ Lines(Project) = Payouts
BY ProjectAssumption, LinksAssumption DEF Lines

\* Leaving the amount of a cell is an edit of the project.
LEMMA LeaveCellEdits ==
    ASSUME ProjectInv, NEW p \in Payouts,
           NEW cents \in Typed \cup {ToUsdc(Country(p), amountLocal[p])},
           LeaveCell(p, cents)
    PROVE  Next
<1> DEFINE amount == ToLocal(Country(p), cents)
<1>1. UpdatePayout(p, amount, approvalStatus[p])
  BY DEF LeaveCell
<1>2. status[p] # "none"
  BY <1>1 DEF UpdatePayout
<1>3. amount \in Amounts
  BY <1>2, CellsAssumption DEF ProjectInv, AmountsKnown, Known, Touched
<1>4. approvalStatus[p] \in Approvals
  BY DeskApprovalsAssumption DEF ProjectInv, TypeOK
<1> HIDE DEF amount
<1>5. Calls
  BY <1>1, <1>3, <1>4 DEF Calls
<1> QED BY <1>5 DEF Next

\* A credit tells the project about its money, or starts its payments.
LEMMA CreditCalls ==
    ASSUME NEW halves, Credit(halves)
    PROVE  AwaitFunding(Project) \/ ApplyFunded(Project) \/ AutoDispatch(Project)
BY DEF Credit

\* Every step of the desk is a step of the project, or none.
LEMMA DeskStep == ProjectInv /\ [DeskNext]_allVars => [Next]_vars
<1> SUFFICES ASSUME ProjectInv, [DeskNext]_allVars
             PROVE  [Next]_vars
  OBVIOUS
<1> USE OneProject
<1>1. CASE UNCHANGED allVars
  BY <1>1 DEF allVars
<1>2. CASE Create
  <2> PICK amounts \in Drafts : CreateBatch(Project, amounts)
    BY <1>2 DEF Create
  <2> PICK S \in SUBSET Lines(Project) : amounts \in [S -> Amounts]
    BY DraftsAssumption
  <2> QED BY DEF Calls, Next
<1>3. CASE Quote \/ Approve
  BY <1>3 DEF Quote, Approve, Calls, Next
<1>4. CASE GenerateFunding \/ StoreInstruction \/ Expire
  BY <1>4 DEF GenerateFunding, StoreInstruction, Expire, Next
<1>5. CASE AskPayment \/ WalletPays \/ WalletDone
  BY <1>5 DEF AskPayment, WalletPays, WalletDone
<1>6. ASSUME NEW rows \in SUBSET Payouts, AskSignature(rows) \/ Signed(rows)
      PROVE  UNCHANGED vars
  BY <1>6 DEF AskSignature, Signed
<1>7. CASE Scan \/ \E halves \in ManualAmounts : RecordManual(halves)
  BY <1>7, CreditCalls DEF Scan, RecordManual, Next
<1>8. ASSUME NEW p \in Payouts, NEW approval \in {"approved", "excluded"},
             SetApproval(p, approval)
      PROVE  Next
  BY <1>8, DeskApprovalsAssumption DEF SetApproval, Calls, Next
<1>9. ASSUME NEW p \in Payouts, Send(p) \/ ClearReview(p)
      PROVE  Next
  BY <1>9 DEF Send, ClearReview, Calls, Next
<1>10. ASSUME NEW p \in Payouts, ApproveSigned(p)
       PROVE  [Next]_vars
  <2>1. CASE UpdatePayout(p, NoChange, "approved")
    BY <2>1, DeskApprovalsAssumption DEF Calls, Next
  <2> QED BY <2>1, <1>10 DEF ApproveSigned
<1>11. ASSUME NEW p \in Payouts,
              NEW cents \in Typed \cup {ToUsdc(Country(p), amountLocal[p])},
              LeaveCell(p, cents)
       PROVE  Next
  BY <1>11, LeaveCellEdits
<1>12. ASSUME NEW e \in Events, NEW p \in Payouts, NEW s \in {"paid", "failed"},
              PartnerReports(e, p, s)
       PROVE  Next
  BY <1>12 DEF PartnerReports, Calls, Next
<1> QED
  <2>1. CASE People
    BY <2>1, <1>2, <1>3, <1>4, <1>5, <1>6, <1>7, <1>8, <1>9, <1>11 DEF People
  <2>2. CASE DeskNext /\ ~ People
    BY <2>2, <1>4, <1>5, <1>6, <1>7, <1>10, <1>12 DEF DeskNext
  <2> QED BY <2>1, <2>2, <1>1

-------------------------------------------------------------------------------
\* No step of a project but createBatch makes a line exist, and none but an
\* edit changes an amount.
LEMMA NextAmounts == ProjectInv /\ [Next]_vars => AmountsKnown'
<1> SUFFICES ASSUME ProjectInv, [Next]_vars
             PROVE  AmountsKnown'
  OBVIOUS
<1> USE DEF ProjectInv
<1>1. ASSUME UNCHANGED amountLocal, \A p \in Payouts : Known(p)' => Known(p)
      PROVE  AmountsKnown'
  BY <1>1 DEF AmountsKnown
<1>2. ASSUME UNCHANGED <<amountLocal, cardVars>>, NEW STATE S,
             \A p \in S : status[p] # "none",
             \A p \in Payouts \ S : status'[p] = status[p]
      PROVE  AmountsKnown'
  BY <1>1, <1>2 DEF Known, cardVars
<1>3. ASSUME NEW b \in Batches, NEW STATE S, S \subseteq Approved(b), NEW STATE st,
             Dispatch(b, S, st), UNCHANGED amountLocal,
             \A p \in Payouts : status[p] = "none" => st[p] = "none"
      PROVE  AmountsKnown'
  <2>1. \A p \in S : status[p] # "none"
    BY <1>3 DEF TypeOK, Approved, Lines
  <2>2. \A p \in Payouts : Known(p)' => Known(p)
    BY <1>3, <2>1 DEF Dispatch, Known
  <2> QED BY <1>1, <1>3, <2>2
<1>4. ASSUME NEW p \in Payouts, NEW s, Known(p), Settle(p, s), UNCHANGED <<amountLocal, dispatches>>,
             \A q \in Payouts : q # p => openCases'[q] = openCases[q],
             reviewed' \subseteq reviewed \cup {p}
      PROVE  AmountsKnown'
  <2>1. \A q \in Payouts : q # p => status'[q] = status[q]
    BY <1>4 DEF TypeOK, Settle
  <2>2. \A q \in Payouts : Known(q)' => Known(q)
    BY <1>4, <2>1 DEF Known
  <2> QED BY <1>1, <1>4, <2>2
<1>5. ASSUME NEW b \in Batches
      PROVE  \A p \in Approved(b) : status[p] # "none"
  BY DEF TypeOK, Approved, Lines
<1>6. ASSUME NEW b \in Batches, NEW STATE S, S \subseteq Approved(b), NEW v,
             status' = SetAll(status, S, v), UNCHANGED <<amountLocal, cardVars>>
      PROVE  AmountsKnown'
  BY <1>2, <1>5, <1>6 DEF SetAll, TypeOK
<1>7. CASE UNCHANGED vars
  BY <1>1, <1>7 DEF vars, lineVars, cardVars, Known
<1>8. ASSUME NEW n \in Beneficiaries, NEW verdict,
             CreateBeneficiary(n, verdict) \/ UpdateBeneficiary(n, verdict)
      PROVE  AmountsKnown'
  BY <1>1, <1>8
  DEF CreateBeneficiary, UpdateBeneficiary, SetBeneficiary, lineVars, cardVars, Known
<1>9. ASSUME NEW b \in Batches, NEW S \in SUBSET Lines(b), NEW amounts \in [S -> Amounts],
             CreateBatch(b, amounts)
      PROVE  AmountsKnown'
  BY <1>9 DEF CreateBatch, AmountsKnown, Known, TypeOK, cardVars
<1>10. ASSUME NEW p \in Payouts, NEW amount \in Amounts \cup {NoChange}, NEW approval,
              UpdatePayout(p, amount, approval)
       PROVE  AmountsKnown'
  BY <1>10 DEF UpdatePayout, AmountsKnown, Known, TypeOK, cardVars
<1>11. ASSUME NEW b \in Batches, CreateQuote(b)
       PROVE  AmountsKnown'
  <2>1. \A p \in PayoutsOf(b) \cup Approved(b) : status[p] # "none"
    BY <1>5 DEF PayoutsOf
  <2> QED BY <1>2, <1>11, <2>1 DEF CreateQuote, lineVars
<1>12. ASSUME NEW b \in Batches,
              (\E outcome \in {"approved", "failed"} : ApproveBatch(b, outcome))
              \/ ExpireQuote(b) \/ RequestInstruction(b)
       PROVE  AmountsKnown'
  <2>1. UNCHANGED <<amountLocal, cardVars>>
    BY <1>12 DEF ApproveBatch, ExpireQuote, RequestInstruction, lineVars
  <2>2. (\E v : status' = SetAll(status, Approved(b), v)) \/ UNCHANGED status
    BY <1>12 DEF ApproveBatch, ExpireQuote, RequestInstruction
  <2>3. CASE UNCHANGED status
    BY <1>1, <2>1, <2>3 DEF cardVars, Known
  <2> QED BY <1>6, <2>1, <2>2, <2>3
<1>13. ASSUME NEW b \in Batches, AwaitFunding(b) \/ ApplyFunded(b)
       PROVE  AmountsKnown'
  <2>1. Fundable(b) \subseteq Approved(b)
    BY DEF Fundable
  <2> QED BY <1>6, <1>13, <2>1 DEF AwaitFunding, ApplyFunded, lineVars
<1>14. ASSUME NEW b \in Batches, AutoDispatch(b)
       PROVE  AmountsKnown'
  <2>1. LoopReach(b, Fundable(b)) \subseteq Approved(b) /\ Fundable(b) \subseteq Approved(b)
    BY DEF Fundable, LoopReach
  <2>2. \A p \in Payouts : status[p] = "none" => SetAll(status, Fundable(b), "funded")[p] = "none"
    BY <2>1, <1>5 DEF SetAll, TypeOK
  <2> QED BY <1>3, <1>14, <2>1, <2>2 DEF AutoDispatch, lineVars
<1>15. ASSUME NEW p \in Payouts, DispatchPayout(p)
       PROVE  AmountsKnown'
  <2>1. {p} \subseteq Approved(BatchOf[p])
    BY <1>15 DEF DispatchPayout, Payable
  <2> QED BY <1>3, <1>15, <2>1, Links DEF DispatchPayout, lineVars
<1>16. ASSUME NEW b \in Batches, SendApprovedPayouts(b)
       PROVE  AmountsKnown'
  <2>1. LoopReach(b, Payable(b)) \subseteq Approved(b)
    BY DEF LoopReach, Payable
  <2> QED BY <1>3, <1>16, <2>1 DEF SendApprovedPayouts, lineVars
<1>17. ASSUME NEW p \in Payouts, ResolveComplianceCase(p)
       PROVE  AmountsKnown'
  <2>1. \A q \in Payouts : q # p => openCases'[q] = openCases[q]
    BY <1>17 DEF ResolveComplianceCase, TypeOK
  <2> QED BY <1>4, <1>17, <2>1 DEF ResolveComplianceCase, Known, lineVars
<1>18. ASSUME NEW e \in Events, NEW p \in Payouts, NEW s \in {"paid", "failed"},
              RecordPartnerWebhook(e, p, s)
       PROVE  AmountsKnown'
  BY <1>4, <1>18 DEF RecordPartnerWebhook, Known, lineVars
<1> QED
  BY <1>7, <1>8, <1>9, <1>10, <1>11, <1>12, <1>13, <1>14, <1>15, <1>16, <1>17, <1>18
  DEF Next, Calls

\* The desk implements the project: what is proved of Projects holds while
\* its page is used.  The refinement mapping is the identity.
THEOREM DeskImplementsProjects == DeskSpec => Spec
<1>1. DeskInit => Init /\ ProjectInv
  BY InitTypeOK DEF DeskInit, Init, ProjectInv, AmountsKnown, Known
<1>2. ProjectInv /\ [DeskNext]_allVars => [Next]_vars /\ ProjectInv'
  BY DeskStep, NextTypeOK, NextAmounts DEF ProjectInv
<1> QED BY <1>1, <1>2, PTL DEF DeskSpec, Spec

-------------------------------------------------------------------------------
\* A payout that was funded, or held for review.
Touches(p) ==
    \/ status[p] \in {"funded", "in_review"}
    \/ openCases[p] > 0 \/ p \in reviewed

\* Money is credited to an instruction that is there; the project waits for
\* money while some is missing, and what comes after the wait presupposes it,
\* but for what the partner reported.
MoneyInv ==
    /\ credited \in Nat
    /\ ~ instruction => credited = 0
    /\ Status = "awaiting_funding" => instruction /\ credited < Expected
    /\ Status = "funded" => credited >= Expected
    /\ Status \in {"dispatching", "completed"} => credited >= Expected \/ webhookEvents # {}
    /\ \A p \in Payouts : Touches(p) => credited >= Expected
    /\ \A p \in Payouts : status[p] \in {"paid", "failed"} => credited >= Expected \/ Reported(p)

\* A step that moves no money, funds nobody and hears of nobody.
LEMMA MoneyFrame ==
    ASSUME MoneyInv, UNCHANGED <<credited, instruction, webhookEvents>>,
           batchStatus'[Project] \in {batchStatus[Project], "draft", "validated",
                                      "awaiting_approval", "approved"},
           \A p \in Payouts : Touches(p)' => Touches(p),
           \A p \in Payouts : status'[p] \in {"paid", "failed"} => status[p] \in {"paid", "failed"}
    PROVE  MoneyInv'
<1>1. \A p \in Payouts : Reported(p)' <=> Reported(p)
  BY DEF Reported
<1> QED BY <1>1 DEF MoneyInv, Status, Expected

\* Once the whole amount is there, only a wait for money would be wrong.
LEMMA MoneyEnough ==
    ASSUME credited' \in Nat, instruction', credited' >= Expected,
           batchStatus'[Project] # "awaiting_funding"
    PROVE  MoneyInv'
BY DEF MoneyInv, Status, Expected

\* The project waits for money that is missing: who was paid or failed was
\* reported.
LEMMA MoneyAwaited ==
    ASSUME TypeOK, MoneyInv, AwaitFunding(Project), instruction', credited' \in Nat,
           credited < Expected, credited' < Expected
    PROVE  MoneyInv'
<1> USE OneProject
<1>1. \A p \in Payouts : ~ Touches(p)
  BY DEF MoneyInv, Expected
<1>2. \A p \in Payouts : ~ Touches(p)'
  BY <1>1 DEF AwaitFunding, SetAll, cardVars, Touches, TypeOK
<1>3. \A p \in Payouts : status'[p] \in {"paid", "failed"} => Reported(p)'
  <2>1. \A p \in Payouts : status'[p] \in {"paid", "failed"} => status[p] \in {"paid", "failed"}
    BY DEF AwaitFunding, SetAll, TypeOK
  <2>2. \A p \in Payouts : status[p] \in {"paid", "failed"} => Reported(p)
    BY DEF MoneyInv, Expected
  <2>3. \A p \in Payouts : Reported(p) => Reported(p)'
    BY DEF AwaitFunding, cardVars, Reported
  <2> QED BY <2>1, <2>2, <2>3
<1>4. batchStatus'[Project] = "awaiting_funding"
  BY DEF AwaitFunding, TypeOK
<1> QED BY <1>2, <1>3, <1>4 DEF MoneyInv, Status

\* The summary of a project is not a wait for money.
LEMMA ResolvedIsNoWait ==
    ASSUME NEW S, NEW st
    PROVE  ResolvedStatus(S, st) # "awaiting_funding"
BY DEF ResolvedStatus

\* A credited deposit tells the project what the sum is in the same step.
LEMMA CreditMoney ==
    ASSUME TypeOK, MoneyInv, NEW halves \in Nat, instruction, UNCHANGED instruction, Credit(halves)
    PROVE  MoneyInv'
<1> USE OneProject
<1>1. credited' = credited + halves /\ credited' \in Nat /\ credited \in Nat
  BY DEF Credit, MoneyInv
<1>2. CASE credited' < Expected /\ AwaitFunding(Project)
  <2>1. credited < Expected
    BY <1>1, <1>2 DEF Expected
  <2> QED BY <1>1, <1>2, <2>1, MoneyAwaited
<1>3. CASE credited' >= Expected /\ AutoDispatch(Project)
  <2>1. batchStatus'[Project] # "awaiting_funding"
    BY <1>3, ResolvedIsNoWait DEF AutoDispatch, Dispatch, TypeOK
  <2> QED BY <1>1, <1>3, <2>1, MoneyEnough
<1>4. CASE credited' >= Expected /\ ApplyFunded(Project)
  <2>1. batchStatus'[Project] = "funded"
    BY <1>4 DEF ApplyFunded, TypeOK
  <2> QED BY <1>1, <1>4, <2>1, MoneyEnough
<1> QED BY <1>2, <1>3, <1>4 DEF Credit

\* What the partner reports is on record, and neither funds nor holds anybody.
LEMMA ReportMoney ==
    ASSUME TypeOK, MoneyInv, NEW e \in Events, NEW p \in Payouts, NEW s \in {"paid", "failed"},
           PartnerReports(e, p, s)
    PROVE  MoneyInv'
<1> USE OneProject
<1> DEFINE new == [status EXCEPT ![p] = s]
<1>1. /\ status' = new
      /\ batchStatus'[Project] = ResolvedStatus(Approved(Project), new)
  BY DEF PartnerReports, RecordPartnerWebhook, Settle, TypeOK
<1>2. UNCHANGED <<credited, instruction, openCases, reviewed>>
  BY DEF PartnerReports, RecordPartnerWebhook, deskVars, fundingVars
<1>3. webhookEvents' = webhookEvents \cup {[event |-> e, payout |-> p]}
  BY DEF PartnerReports, RecordPartnerWebhook
<1>4. webhookEvents' # {} /\ Reported(p)' /\ \A q \in Payouts : Reported(q) => Reported(q)'
  <2> DEFINE report == [event |-> e, payout |-> p]
  <2>1. report.payout = p
    OBVIOUS
  <2>2. report \in webhookEvents' /\ webhookEvents \subseteq webhookEvents'
    BY <1>3
  <2> HIDE DEF report
  <2>3. webhookEvents' # {}
    BY <2>2
  <2>4. Reported(p)'
    BY <2>1, <2>2 DEF Reported
  <2>5. \A q \in Payouts : Reported(q) => Reported(q)'
    BY <2>2 DEF Reported
  <2> QED BY <2>3, <2>4, <2>5
<1>5. \A q \in Payouts : new[q] = IF q = p THEN s ELSE status[q]
  BY DEF TypeOK
<1>6. Approved(Project) \subseteq Payouts
  BY DEF Approved
<1> HIDE DEF new
<1>7. batchStatus'[Project] # "awaiting_funding"
  BY <1>1, ResolvedIsNoWait
<1>8. batchStatus'[Project] = "funded" => credited' >= Expected
  <2> SUFFICES ASSUME batchStatus'[Project] = "funded"
               PROVE  credited >= Expected
    BY <1>2
  <2>1. Approved(Project) # {} /\ \A q \in Approved(Project) : new[q] = "funded"
    BY <1>1 DEF ResolvedStatus
  <2>2. PICK q \in Approved(Project) : new[q] = "funded"
    BY <2>1
  <2>3. status[q] = "funded"
    BY <1>5, <1>6, <2>2
  <2> QED BY <1>6, <2>3 DEF MoneyInv, Touches
<1>9. \A q \in Payouts : Touches(q)' => credited' >= Expected
  <2>1. \A q \in Payouts : Touches(q)' => Touches(q)
    BY <1>1, <1>2, <1>5 DEF Touches
  <2> QED BY <1>2, <2>1 DEF MoneyInv
<1>10. \A q \in Payouts : status'[q] \in {"paid", "failed"} => credited' >= Expected \/ Reported(q)'
  BY <1>1, <1>2, <1>4, <1>5 DEF MoneyInv
<1> QED BY <1>2, <1>4, <1>7, <1>8, <1>9, <1>10 DEF MoneyInv, Status

\* Whatever is clicked, signed, paid or found keeps the money invariant.
LEMMA DeskMoney == TypeOK /\ MoneyInv /\ [DeskNext]_allVars => MoneyInv'
<1> SUFFICES ASSUME TypeOK, MoneyInv, [DeskNext]_allVars
             PROVE  MoneyInv'
  OBVIOUS
<1> USE OneProject
<1>1. ASSUME NEW p \in Payouts, NEW amount, NEW approval,
             UpdatePayout(p, amount, approval), UNCHANGED fundingVars
      PROVE  MoneyInv'
  <2>1. batchStatus'[Project] \in {"draft", "validated"}
    BY <1>1 DEF UpdatePayout, DraftBatchStatus, TypeOK
  <2>2. \A q \in Payouts : Touches(q)' => Touches(q)
    BY <1>1 DEF UpdatePayout, DraftStatus, Touches, cardVars, TypeOK
  <2>3. \A q \in Payouts : status'[q] \in {"paid", "failed"} => status[q] \in {"paid", "failed"}
    BY <1>1 DEF UpdatePayout, DraftStatus, TypeOK
  <2>4. UNCHANGED webhookEvents
    BY <1>1 DEF UpdatePayout, cardVars
  <2> QED BY <1>1, <2>1, <2>2, <2>3, <2>4, MoneyFrame DEF fundingVars
<1>2. CASE UNCHANGED <<batchStatus, status, cardVars, credited, instruction>>
  BY <1>2, MoneyFrame DEF Touches, cardVars
<1>3. CASE UNCHANGED allVars
  BY <1>2, <1>3 DEF allVars, vars, deskVars, fundingVars
<1>4. CASE Create
  <2> PICK amounts \in Drafts : CreateBatch(Project, amounts) /\ UNCHANGED deskVars
    BY <1>4 DEF Create
  <2>1. batchStatus'[Project] \in {"draft", "validated"}
    BY DEF CreateBatch, DraftBatchStatus, TypeOK
  <2>2. \A q \in Payouts : Touches(q)' => Touches(q)
    BY DEF CreateBatch, DraftStatus, Touches, cardVars
  <2>3. \A q \in Payouts : status'[q] \in {"paid", "failed"} => status[q] \in {"paid", "failed"}
    BY DEF CreateBatch, DraftStatus
  <2>4. UNCHANGED webhookEvents
    BY DEF CreateBatch, cardVars
  <2> QED BY <2>1, <2>2, <2>3, <2>4, MoneyFrame DEF deskVars, fundingVars
<1>5. CASE Quote
  <2>1. batchStatus'[Project] = "awaiting_approval"
    BY <1>5 DEF Quote, CreateQuote, TypeOK
  <2>2. \A q \in Payouts : Touches(q)' => Touches(q)
    BY <1>5 DEF Quote, CreateQuote, DraftStatus, Touches, cardVars
  <2>3. \A q \in Payouts : status'[q] \in {"paid", "failed"} => status[q] \in {"paid", "failed"}
    BY <1>5 DEF Quote, CreateQuote, DraftStatus
  <2>4. UNCHANGED webhookEvents
    BY <1>5 DEF Quote, CreateQuote, cardVars
  <2> QED BY <1>5, <2>1, <2>2, <2>3, <2>4, MoneyFrame DEF Quote, fundingVars
<1>6. CASE Approve
  <2>1. batchStatus'[Project] = "approved"
    BY <1>6 DEF Approve, ApproveBatch, TypeOK
  <2>2. \A q \in Payouts : Touches(q)' => Touches(q)
    BY <1>6 DEF Approve, ApproveBatch, SetAll, Touches, cardVars, TypeOK
  <2>3. \A q \in Payouts : status'[q] \in {"paid", "failed"} => status[q] \in {"paid", "failed"}
    BY <1>6 DEF Approve, ApproveBatch, SetAll, TypeOK
  <2>4. UNCHANGED webhookEvents
    BY <1>6 DEF Approve, ApproveBatch, cardVars
  <2> QED BY <1>6, <2>1, <2>2, <2>3, <2>4, MoneyFrame DEF Approve, fundingVars
<1>7. CASE GenerateFunding \/ Expire
  BY <1>2, <1>7 DEF GenerateFunding, RequestInstruction, Expire, ExpireQuote, deskVars, fundingVars
<1>8. CASE StoreInstruction
  <2>1. credited = 0 /\ credited' = 0 /\ instruction' /\ AwaitFunding(Project)
    BY <1>8 DEF StoreInstruction, MoneyInv
  <2> QED BY <2>1, MoneyAwaited DEF Expected
<1>9. CASE AskPayment \/ WalletPays \/ WalletDone
  BY <1>2, <1>9 DEF AskPayment, WalletPays, WalletDone, vars
<1>10. ASSUME NEW rows, AskSignature(rows) \/ Signed(rows)
       PROVE  MoneyInv'
  BY <1>2, <1>10 DEF AskSignature, Signed, vars, fundingVars
<1>11. CASE Scan
  BY <1>11, CreditMoney DEF Scan, Expected
<1>12. ASSUME NEW halves \in ManualAmounts, RecordManual(halves)
       PROVE  MoneyInv'
  <2>1. halves \in Nat
    BY MaxHalvesAssumption DEF ManualAmounts
  <2> QED BY <2>1, <1>12, CreditMoney DEF RecordManual
<1>13. ASSUME NEW p \in Payouts, NEW approval, SetApproval(p, approval)
       PROVE  MoneyInv'
  BY <1>1, <1>13 DEF SetApproval, deskVars
<1>14. ASSUME NEW p \in Payouts, NEW cents, LeaveCell(p, cents)
       PROVE  MoneyInv'
  BY <1>1, <1>14 DEF LeaveCell, deskVars
<1>15. ASSUME NEW p \in Payouts, ApproveSigned(p)
       PROVE  MoneyInv'
  BY <1>1, <1>2, <1>15 DEF ApproveSigned, vars, fundingVars
<1>16. ASSUME NEW p \in Payouts, Send(p)
       PROVE  MoneyInv'
  <2>1. Touches(p)
    BY <1>16 DEF Send, DispatchPayout, Payable, Touches
  <2>2. batchStatus'[Project] # "awaiting_funding"
    BY <1>16, ResolvedIsNoWait DEF Send, DispatchPayout, Dispatch, TypeOK
  <2> QED BY <1>16, <2>1, <2>2, MoneyEnough DEF Send, MoneyInv, fundingVars, Expected
<1>17. ASSUME NEW p \in Payouts, ClearReview(p)
       PROVE  MoneyInv'
  <2>1. Touches(p)
    BY <1>17 DEF ClearReview, ResolveComplianceCase, Touches
  <2>2. batchStatus'[Project] # "awaiting_funding"
    BY <1>17, ResolvedIsNoWait DEF ClearReview, ResolveComplianceCase, Settle, TypeOK
  <2> QED BY <1>17, <2>1, <2>2, MoneyEnough DEF ClearReview, MoneyInv, fundingVars, Expected
<1>18. ASSUME NEW e \in Events, NEW p \in Payouts, NEW s \in {"paid", "failed"},
              PartnerReports(e, p, s)
       PROVE  MoneyInv'
  BY <1>18, ReportMoney
<1> QED
  BY <1>3, <1>4, <1>5, <1>6, <1>7, <1>8, <1>9, <1>10, <1>11, <1>12, <1>13, <1>14, <1>15, <1>16, <1>17,
     <1>18
  DEF DeskNext, People

\* The money of a project on display is there before anything is paid or
\* held, but for what the partner reported of its own accord, and whatever is
\* clicked cannot change that.
THEOREM MoneyFirst == DeskSpec => [](MoneyInv /\ ExecutionFollowsFunding)
<1>1. DeskInit => MoneyInv
  BY OneProject DEF DeskInit, Init, MoneyInv, Touches, Status, Expected
<1>2. MoneyInv => ExecutionFollowsFunding
  <2> SUFFICES ASSUME MoneyInv, ExecutionTicked, credited < Expected
               PROVE  /\ webhookEvents # {}
                      /\ \A p \in PayoutsOf(Project) :
                            Executed(p) => Reported(p) /\ status[p] # "in_review"
    BY DEF ExecutionFollowsFunding
  <2>1. ~ (credited >= Expected)
    BY DEF MoneyInv, Expected
  <2>2. \A p \in PayoutsOf(Project) : Executed(p) => Reported(p) /\ status[p] # "in_review"
    BY <2>1 DEF MoneyInv, Executed, Touches, PayoutsOf, Lines
  <2>3. webhookEvents # {}
    <3>1. CASE Status = "completed"
      BY <2>1, <3>1 DEF MoneyInv
    <3>2. CASE HasExecution
      BY <2>2, <3>2 DEF HasExecution, Reported
    <3> QED BY <3>1, <3>2 DEF ExecutionTicked
  <2> QED BY <2>2, <2>3
<1>3. TypeOK /\ MoneyInv /\ [DeskNext]_allVars => MoneyInv'
  BY DeskMoney
<1> QED BY <1>1, <1>2, <1>3, DeskImplementsProjects, Typing, PTL DEF DeskSpec

\* What the page advises is true of the project, its quote and its money.
THEOREM AdviceHolds == DeskSpec => []AdviceIsTrue
<1>1. TypeOK /\ BatchStatusSound /\ MoneyInv => AdviceIsTrue
  <2> SUFFICES ASSUME TypeOK, BatchStatusSound, MoneyInv
               PROVE  AdviceIsTrue
    OBVIOUS
  <2> USE OneProject
  <2>1. Status \in BatchStatuses \cup {"none"}
    BY DEF TypeOK, Status
  <2>2. StatusSound(Project)
    BY DEF BatchStatusSound
  <2>3. Approved(Project) \subseteq PayoutsOf(Project)
    BY DEF Approved, PayoutsOf, TypeOK
  <2>4. NextActionDescription = "approve" => quote[Project] # "none"
    BY <2>1, <2>2 DEF NextActionDescription, StatusSound, Status
  <2>5. NextActionDescription = "generate" => ~ instruction
    BY <2>1 DEF NextActionDescription
  <2>6. NextActionDescription = "send money" => instruction /\ credited < Expected
    BY <2>1 DEF NextActionDescription, MoneyInv
  <2>7. NextActionDescription = "reconciled" =>
           credited >= Expected \/ (Status = "dispatching" /\ webhookEvents # {})
    BY <2>1 DEF NextActionDescription, MoneyInv
  <2>8. NextActionDescription = "needs review" => \E p \in PayoutsOf(Project) : status[p] = "in_review"
    BY <2>1, <2>2, <2>3 DEF NextActionDescription, StatusSound, Status
  <2>9. NextActionDescription = "see exceptions" => \E p \in PayoutsOf(Project) : status[p] = "failed"
    BY <2>1, <2>2, <2>3 DEF NextActionDescription, StatusSound, Status
  <2> QED BY <2>4, <2>5, <2>6, <2>7, <2>8, <2>9 DEF AdviceIsTrue
<1> QED BY <1>1, DeskImplementsProjects, Typing, StatusIntegrity, MoneyFirst, PTL

-------------------------------------------------------------------------------
\* Who was paid, and not decided about since, is settled, approved, and in a
\* project that is closed to edits.
Settled(p) ==
    /\ status[p] \in {"paid", "failed"}
    /\ approvalStatus[p] = "approved"
    /\ batchStatus[Project] \notin Editable

PaidAreSettled == \A p \in Payouts : dispatches[p] > 0 => p \in decided \/ Settled(p)

\* The summary of a project does not open it to edits.
LEMMA ResolvedIsClosed ==
    ASSUME NEW S, NEW st
    PROVE  ResolvedStatus(S, st) \notin Editable
BY DEF ResolvedStatus, Editable

\* A loop over dispatchPayout pays only who was decided about or never paid,
\* and leaves the others settled.
LEMMA DispatchSettled ==
    ASSUME TypeOK, PaidAreSettled, NEW STATE S, NEW STATE st, Dispatch(Project, S, st), UseUp,
           UNCHANGED approvalStatus, S \subseteq Approved(Project),
           \A p \in S : status[p] \notin {"paid", "failed"},
           \A p \in Payouts : status[p] \in {"paid", "failed"} => st[p] = status[p]
    PROVE  /\ PaidAreSettled'
           /\ \A p \in Payouts : 0 < dispatches[p] /\ dispatches[p] < dispatches'[p] => p \in decided
<1> DEFINE held == {p \in S : NeedsReview(p)}
<1>1. batchStatus'[Project] \notin Editable
  BY OneProject, ResolvedIsClosed DEF Dispatch, TypeOK
<1>2. \A p \in Payouts :
         /\ dispatches'[p] = IF p \in S \ held THEN dispatches[p] + 1 ELSE dispatches[p]
         /\ p \in S \ held => status'[p] \in {"paid", "failed"}
         /\ p \notin S => status'[p] = st[p]
  BY DEF Dispatch, Outcome
<1>3. \A p \in Payouts : dispatches[p] \in Nat
  BY DEF TypeOK
<1>4. ASSUME NEW p \in Payouts, dispatches'[p] > 0
      PROVE  p \in decided' \/ Settled(p)'
  <2>1. CASE p \in S \ held
    BY <1>1, <1>2, <2>1 DEF Settled, Approved
  <2>2. CASE p \notin S \ held /\ p \in decided
    BY <1>2, <2>2 DEF UseUp
  <2>3. CASE p \notin S \ held /\ p \notin decided
    <3>1. Settled(p)
      BY <1>2, <1>4, <2>3 DEF PaidAreSettled
    <3>2. p \notin S
      BY <3>1 DEF Settled
    <3> QED BY <1>1, <1>2, <3>1, <3>2 DEF Settled
  <2> QED BY <2>1, <2>2, <2>3
<1>5. ASSUME NEW p \in Payouts, 0 < dispatches[p], dispatches[p] < dispatches'[p]
      PROVE  p \in decided
  <2>1. p \in S
    BY <1>2, <1>3, <1>5
  <2> QED BY <1>5, <2>1 DEF PaidAreSettled, Settled
<1> QED BY <1>4, <1>5 DEF PaidAreSettled

\* A step that hands nobody over.
LEMMA NobodyHandedOver ==
    ASSUME UNCHANGED dispatches,
           \A p \in Payouts : dispatches[p] > 0 => (p \in decided \/ Settled(p) => p \in decided' \/ Settled(p)'),
           PaidAreSettled, TypeOK
    PROVE  /\ PaidAreSettled'
           /\ \A p \in Payouts : 0 < dispatches[p] /\ dispatches[p] < dispatches'[p] => p \in decided
<1>1. \A p \in Payouts : dispatches[p] \in Nat
  BY DEF TypeOK
<1> QED BY <1>1 DEF PaidAreSettled

\* A credited deposit pays only who was decided about or never paid.
LEMMA CreditSettled ==
    ASSUME TypeOK, PaidAreSettled, NEW halves, Credit(halves), UseUp
    PROVE  /\ PaidAreSettled'
           /\ \A p \in Payouts : 0 < dispatches[p] /\ dispatches[p] < dispatches'[p] => p \in decided
<1> USE OneProject
<1>1. CASE AwaitFunding(Project) \/ ApplyFunded(Project)
  <2>1. batchStatus'[Project] \in {"awaiting_funding", "funded"} /\ UNCHANGED <<approvalStatus, dispatches>>
    BY <1>1 DEF AwaitFunding, ApplyFunded, TypeOK, lineVars, cardVars
  <2>2. \A p \in Payouts : status[p] \in {"paid", "failed"} => status'[p] = status[p]
    BY <1>1 DEF AwaitFunding, ApplyFunded, SetAll, Fundable, TypeOK
  <2>3. decided' = decided
    BY <2>1 DEF UseUp
  <2> QED BY <2>1, <2>2, <2>3, NobodyHandedOver DEF Settled, Editable
<1>2. CASE AutoDispatch(Project)
  <2> DEFINE st == SetAll(status, Fundable(Project), "funded")
             S == LoopReach(Project, Fundable(Project))
  <2>1. Dispatch(Project, S, st) /\ UNCHANGED approvalStatus
    BY <1>2 DEF AutoDispatch, lineVars
  <2>2. S \subseteq Approved(Project) /\ \A p \in S : status[p] \notin {"paid", "failed"}
    BY DEF LoopReach, Fundable
  <2>3. \A p \in Payouts : status[p] \in {"paid", "failed"} => st[p] = status[p]
    BY DEF SetAll, Fundable, TypeOK
  <2> HIDE DEF st, S
  <2> QED BY <2>1, <2>2, <2>3, DispatchSettled
<1> QED BY <1>1, <1>2, CreditCalls

\* Every step keeps those who were paid settled, or they are decided about,
\* and pays nobody else again.
LEMMA DeskSettled ==
    TypeOK /\ PaidAreSettled /\ [DeskNext]_allVars =>
        /\ PaidAreSettled'
        /\ \A p \in Payouts : 0 < dispatches[p] /\ dispatches[p] < dispatches'[p] => p \in decided
<1> DEFINE Goal ==
       /\ PaidAreSettled'
       /\ \A p \in Payouts : 0 < dispatches[p] /\ dispatches[p] < dispatches'[p] => p \in decided
<1> SUFFICES ASSUME TypeOK, PaidAreSettled, [DeskNext]_allVars
             PROVE  Goal
  OBVIOUS
<1> USE OneProject
<1>0. ASSUME UNCHANGED dispatches,
             \A p \in Payouts : dispatches[p] > 0 => (p \in decided \/ Settled(p) => p \in decided' \/ Settled(p)')
      PROVE  Goal
  BY <1>0, NobodyHandedOver
<1> HIDE DEF Goal
<1>1. ASSUME NEW p \in Payouts, NEW amount, NEW approval,
             UpdatePayout(p, amount, approval), UNCHANGED decided
      PROVE  Goal
  <2>1. batchStatus[Project] \in Editable /\ UNCHANGED dispatches
    BY <1>1 DEF UpdatePayout, cardVars
  <2> QED BY <1>0, <1>1, <2>1 DEF Settled
<1>2. CASE UNCHANGED <<batchStatus, status, approvalStatus, dispatches, decided>>
  BY <1>0, <1>2 DEF Settled
<1>3. CASE UNCHANGED allVars
  BY <1>2, <1>3 DEF allVars, vars, deskVars, lineVars, cardVars
<1>4. CASE Create
  <2> PICK amounts \in Drafts : CreateBatch(Project, amounts) /\ UNCHANGED deskVars
    BY <1>4 DEF Create
  <2>1. \A p \in Payouts : ~ Settled(p)
    BY DEF CreateBatch, TypeOK, Settled
  <2> QED BY <1>0, <2>1 DEF CreateBatch, cardVars, deskVars
<1>5. CASE Quote \/ Approve
  <2>1. decided' = decided \cup Approved(Project) /\ UNCHANGED dispatches
    BY <1>5 DEF Quote, Approve, Decide, CreateQuote, ApproveBatch, cardVars
  <2>2. \A p \in Payouts : Settled(p) => p \in Approved(Project)
    BY DEF Settled, Approved
  <2> QED BY <1>0, <2>1, <2>2
<1>6. CASE GenerateFunding \/ Expire
  BY <1>2, <1>6 DEF GenerateFunding, RequestInstruction, Expire, ExpireQuote, deskVars, lineVars, cardVars
<1>7. CASE StoreInstruction
  <2>1. batchStatus'[Project] \notin Editable
    BY <1>7 DEF StoreInstruction, AwaitFunding, TypeOK, Editable
  <2>2. \A p \in Payouts : status[p] \in {"paid", "failed"} => status'[p] = status[p]
    BY <1>7 DEF StoreInstruction, AwaitFunding, SetAll, Fundable, TypeOK
  <2>3. UNCHANGED <<approvalStatus, dispatches, decided>>
    BY <1>7 DEF StoreInstruction, AwaitFunding, lineVars, cardVars
  <2> QED BY <1>0, <2>1, <2>2, <2>3 DEF Settled
<1>8. CASE AskPayment \/ WalletPays \/ WalletDone
  BY <1>2, <1>8 DEF AskPayment, WalletPays, WalletDone, vars, lineVars, cardVars
<1>9. ASSUME NEW rows, AskSignature(rows) \/ Signed(rows)
      PROVE  Goal
  BY <1>2, <1>9 DEF AskSignature, Signed, vars, lineVars, cardVars
<1>10. CASE Scan
  BY <1>10, CreditSettled DEF Scan, Goal
<1>11. ASSUME NEW halves, RecordManual(halves)
       PROVE  Goal
  BY <1>11, CreditSettled DEF RecordManual, Goal
<1>12. ASSUME NEW p \in Payouts, NEW approval, SetApproval(p, approval)
       PROVE  Goal
  BY <1>1, <1>12 DEF SetApproval, deskVars
<1>13. ASSUME NEW p \in Payouts, NEW cents, LeaveCell(p, cents)
       PROVE  Goal
  BY <1>1, <1>13 DEF LeaveCell, deskVars
<1>14. ASSUME NEW p \in Payouts, ApproveSigned(p)
       PROVE  Goal
  BY <1>1, <1>2, <1>14 DEF ApproveSigned, vars, lineVars, cardVars
<1>15. ASSUME NEW p \in Payouts, Send(p)
       PROVE  Goal
  <2>1. Dispatch(Project, {p}, status) /\ UseUp /\ UNCHANGED approvalStatus
    BY <1>15 DEF Send, DispatchPayout, lineVars
  <2>2. {p} \subseteq Approved(Project) /\ \A q \in {p} : status[q] \notin {"paid", "failed"}
    BY <1>15 DEF Send, DispatchPayout, Payable
  <2> QED BY <2>1, <2>2, DispatchSettled DEF Goal
<1>16. ASSUME NEW p \in Payouts, ClearReview(p)
       PROVE  Goal
  <2>1. UNCHANGED <<approvalStatus, dispatches>> /\ decided' = decided \cup {p}
    BY <1>16 DEF ClearReview, ResolveComplianceCase, Decide, lineVars
  <2>2. batchStatus'[Project] \notin Editable
    BY <1>16, ResolvedIsClosed DEF ClearReview, ResolveComplianceCase, Settle, TypeOK
  <2>3. \A q \in Payouts : q # p => status'[q] = status[q]
    BY <1>16 DEF ClearReview, ResolveComplianceCase, Settle, TypeOK
  <2> QED BY <1>0, <2>1, <2>2, <2>3 DEF Settled
<1>17. ASSUME NEW e \in Events, NEW p \in Payouts, NEW s \in {"paid", "failed"},
              PartnerReports(e, p, s)
       PROVE  Goal
  <2>1. UNCHANGED <<approvalStatus, dispatches, decided>>
    BY <1>17 DEF PartnerReports, RecordPartnerWebhook, deskVars, lineVars
  <2>2. batchStatus'[Project] \notin Editable
    BY <1>17, ResolvedIsClosed DEF PartnerReports, RecordPartnerWebhook, Settle, TypeOK
  <2>3. \A q \in Payouts : status'[q] = IF q = p THEN s ELSE status[q]
    BY <1>17 DEF PartnerReports, RecordPartnerWebhook, Settle, TypeOK
  <2> QED BY <1>0, <2>1, <2>2, <2>3 DEF Settled
<1> QED
  BY <1>17, <1>3, <1>4, <1>5, <1>6, <1>7, <1>8, <1>9, <1>10, <1>11, <1>12, <1>13, <1>14, <1>15, <1>16
  DEF DeskNext, People, Goal

\* Nobody is paid twice on one decision, for any number of people, transfers
\* and signatures.
THEOREM PaidOncePerDecision == DeskSpec => PaidAgainOnlyIfDecided
<1>1. DeskInit => PaidAreSettled
  BY DEF DeskInit, Init, PaidAreSettled
<1>2. TypeOK /\ PaidAreSettled /\ [DeskNext]_allVars =>
         /\ PaidAreSettled'
         /\ [\A p \in Payouts :
               0 < dispatches[p] /\ dispatches[p] < dispatches'[p] => p \in decided]_allVars
  BY DeskSettled
<1> QED BY <1>1, <1>2, DeskImplementsProjects, Typing, PTL DEF DeskSpec, PaidAgainOnlyIfDecided

-------------------------------------------------------------------------------
\* The wallet always pays the expected amount: what is on the chain and not
\* found is a number of whole transfers, so a scan that finds money finds
\* all of a transfer.
WholeTransfers == \E n \in Nat : onChain = Expected * n

\* A credited deposit keeps the count of the money a number.
LEMMA CreditCounts ==
    ASSUME NEW halves \in Nat, DeskTypeOK, Credit(halves)
    PROVE  credited' \in Nat
BY DEF DeskTypeOK, Credit

\* The payments of a step, or a decision, leave a set of payouts.
LEMMA DecidedArePayouts ==
    ASSUME DeskTypeOK, UseUp \/ \E S \in SUBSET Payouts : Decide(S)
    PROVE  decided' \subseteq Payouts
BY DEF DeskTypeOK, UseUp, Decide

\* Every handler keeps the shape of the page, and transfers whole.
LEMMA DeskShape ==
    DeskTypeOK /\ WholeTransfers /\ [DeskNext]_allVars => (DeskTypeOK /\ WholeTransfers)'
<1> DEFINE Shape == DeskTypeOK /\ WholeTransfers
<1> SUFFICES ASSUME Shape, [DeskNext]_allVars
             PROVE  Shape'
  OBVIOUS
<1> USE OneProject
<1>1. CASE UNCHANGED deskVars
  BY <1>1 DEF deskVars, fundingVars, signVars, DeskTypeOK, WholeTransfers
<1>2. CASE \/ UNCHANGED allVars \/ Create \/ Expire \/ GenerateFunding
           \/ \E e \in Events, p \in Payouts, s \in {"paid", "failed"} : PartnerReports(e, p, s)
  BY <1>1, <1>2 DEF allVars, Create, Expire, GenerateFunding, PartnerReports
<1>3. CASE UNCHANGED <<fundingVars, signVars>> /\ decided' \subseteq Payouts
  BY <1>3 DEF fundingVars, signVars, DeskTypeOK, WholeTransfers
<1>4. \A b : Approved(b) \in SUBSET Payouts
  BY DEF Approved, Lines
<1>5. CASE Quote \/ Approve
  <2>1. decided' \subseteq Payouts
    BY <1>4, <1>5, DecidedArePayouts DEF Quote, Approve
  <2> QED BY <1>3, <1>5, <2>1 DEF Quote, Approve
<1>6. CASE StoreInstruction
  BY <1>6 DEF StoreInstruction, signVars, DeskTypeOK, WholeTransfers
<1>7. CASE AskPayment \/ WalletDone
  BY <1>7 DEF AskPayment, WalletDone, signVars, DeskTypeOK, WholeTransfers
<1>8. CASE WalletPays
  <2> PICK n \in Nat : onChain = Expected * n
    BY DEF WholeTransfers
  <2>1. n + 1 \in Nat /\ onChain' = Expected * (n + 1)
    BY <1>8 DEF WalletPays, Expected
  <2>2. WholeTransfers'
    BY <2>1 DEF WholeTransfers, Expected
  <2> QED BY <1>8, <2>1, <2>2 DEF WalletPays, signVars, DeskTypeOK, Expected
<1>9. CASE Scan
  <2> PICK n \in Nat : onChain = Expected * n
    BY DEF WholeTransfers
  <2>1. n - 1 \in Nat /\ onChain' = Expected * (n - 1)
    BY <1>9 DEF Scan, Expected
  <2>2. WholeTransfers'
    BY <2>1 DEF WholeTransfers, Expected
  <2>3. credited' \in Nat /\ decided' \subseteq Payouts
    BY <1>9, CreditCounts, DecidedArePayouts DEF Scan, Expected
  <2> QED BY <1>9, <2>1, <2>2, <2>3 DEF Scan, signVars, DeskTypeOK, Expected
<1>10. ASSUME NEW halves \in ManualAmounts, RecordManual(halves)
       PROVE  Shape'
  <2>1. credited' \in Nat /\ decided' \subseteq Payouts
    BY <1>10, CreditCounts, DecidedArePayouts, MaxHalvesAssumption DEF RecordManual, ManualAmounts
  <2> QED BY <1>10, <2>1 DEF RecordManual, signVars, DeskTypeOK, WholeTransfers
<1>11. ASSUME NEW rows, AskSignature(rows) \/ Signed(rows)
       PROVE  Shape'
  <2>1. signing' \subseteq Payouts /\ approving' \subseteq Payouts
    BY <1>11 DEF AskSignature, Signed, Pending, PayoutsOf, Lines, DeskTypeOK
  <2> QED BY <1>11, <2>1 DEF AskSignature, Signed, fundingVars, DeskTypeOK, WholeTransfers
<1>12. ASSUME NEW p \in Payouts, ApproveSigned(p)
       PROVE  Shape'
  BY <1>12 DEF ApproveSigned, fundingVars, DeskTypeOK, WholeTransfers
<1>13. ASSUME NEW p \in Payouts, NEW approval, SetApproval(p, approval)
       PROVE  Shape'
  BY <1>1, <1>13 DEF SetApproval
<1>14. ASSUME NEW p \in Payouts, NEW cents, LeaveCell(p, cents)
       PROVE  Shape'
  BY <1>1, <1>14 DEF LeaveCell
<1>15. ASSUME NEW p \in Payouts, Send(p) \/ ClearReview(p)
       PROVE  Shape'
  <2>1. decided' \subseteq Payouts
    BY <1>15, DecidedArePayouts DEF Send, ClearReview
  <2> QED BY <1>3, <1>15, <2>1 DEF Send, ClearReview
<1> QED
  BY <1>2, <1>5, <1>6, <1>7, <1>8, <1>9, <1>10, <1>11, <1>12, <1>13, <1>14, <1>15
  DEF DeskNext, People

\* The page keeps its shape: no scan finds money that was not sent, and only
\* payouts of the project are signed for, approved or decided about.
THEOREM DeskTyping == DeskSpec => []DeskTypeOK
<1>1. DeskInit => DeskTypeOK /\ WholeTransfers
  <2> SUFFICES ASSUME DeskInit PROVE DeskTypeOK /\ WholeTransfers
    OBVIOUS
  <2>1. 0 \in Nat /\ onChain = Expected * 0
    BY DEF DeskInit, Expected
  <2> QED BY <2>1 DEF DeskInit, DeskTypeOK, WholeTransfers
<1>2. DeskTypeOK /\ WholeTransfers /\ [DeskNext]_allVars => (DeskTypeOK /\ WholeTransfers)'
  BY DeskShape
<1> QED BY <1>1, <1>2, PTL DEF DeskSpec

-------------------------------------------------------------------------------
\* Rounding pesos to the nearest cent.
LEMMA NearestCent ==
    ASSUME NEW n \in Nat
    PROVE  /\ Nearest(n, 41) \in Nat
           /\ 2 * n - 41 < 82 * Nearest(n, 41)
           /\ 82 * Nearest(n, 41) =< 2 * n + 41
BY DEF Nearest

\* Rounding the other currencies to the nearest cent.
LEMMA NearestOther ==
    ASSUME NEW n \in Nat
    PROVE  /\ Nearest(250 * n, 43) \in Nat
           /\ 500 * n - 43 < 86 * Nearest(250 * n, 43)
           /\ 86 * Nearest(250 * n, 43) =< 500 * n + 43
BY DEF Nearest

\* Whole pesos of a whole number of cents are not rounded.
LEMMA PesosOfCents ==
    ASSUME NEW n \in Nat
    PROVE  Nearest(41 * n, 1) = 41 * n /\ Nearest(41 * n, 41) = n
BY DEF Nearest

\* An amount that the table shows in cents and takes back: in Mexico and
\* Argentina it is what it was, in Colombia it moves by at most 20 pesos, and
\* once it has moved it stays, however often its cell is left (the handler
\* onBlur of an amount in BatchesPage).
THEOREM CellsSettle ==
    \A c \in Countries, local \in Nat :
        /\ c # "CO" => Touched(c, local) = local
        /\ c = "CO" => Touched(c, local) - local \in -20 .. 20
        /\ Touched(c, Touched(c, local)) = Touched(c, local)
<1> SUFFICES ASSUME NEW c \in Countries, NEW local \in Nat
             PROVE  /\ c # "CO" => Touched(c, local) = local
                    /\ c = "CO" => Touched(c, local) - local \in -20 .. 20
                    /\ Touched(c, Touched(c, local)) = Touched(c, local)
  OBVIOUS
<1>1. CASE c = "CO"
  <2> DEFINE cents == Nearest(local, 41)
  <2>1. \A n \in Nat : ToUsdc(c, n) = Nearest(n, 41) /\ ToLocal(c, n) = Nearest(41 * n, 1)
    BY <1>1 DEF ToUsdc, ToLocal, Cents, Units
  <2>2. cents \in Nat /\ 2 * local - 41 < 82 * cents /\ 82 * cents =< 2 * local + 41
    BY NearestCent, Zenon
  <2> HIDE DEF cents
  <2>3. Touched(c, local) = 41 * cents
    <3>1. ToUsdc(c, local) = cents
      BY <2>1 DEF cents
    <3>2. ToLocal(c, cents) = Nearest(41 * cents, 1)
      BY <2>1, <2>2
    <3>3. Nearest(41 * cents, 1) = 41 * cents
      BY <2>2, PesosOfCents
    <3> QED BY <3>1, <3>2, <3>3 DEF Touched
  <2>4. /\ 41 * cents \in Nat
        /\ Nearest(41 * cents, 41) = cents
        /\ Nearest(41 * cents, 1) = 41 * cents
    <3>1. cents \in Nat
      BY <2>2
    <3>2. Nearest(41 * cents, 41) = cents /\ Nearest(41 * cents, 1) = 41 * cents
      BY <3>1, PesosOfCents
    <3>3. 41 * cents \in Nat
      BY <3>1
    <3> QED BY <3>2, <3>3
  <2>5. Touched(c, 41 * cents) = 41 * cents
    <3>1. ToUsdc(c, 41 * cents) = cents
      BY <2>1, <2>4
    <3>2. ToLocal(c, cents) = 41 * cents
      BY <2>1, <2>2, <2>4
    <3> QED BY <3>1, <3>2 DEF Touched
  <2>6. 41 * cents - local \in -20 .. 20
    BY <2>2
  <2> QED BY <1>1, <2>3, <2>5, <2>6
<1>2. CASE c # "CO"
  <2> DEFINE cents == Nearest(250 * local, 43)
  <2>1. ToUsdc(c, local) = cents /\ ToLocal(c, cents) = Nearest(43 * cents, 250)
    BY <1>2 DEF ToUsdc, ToLocal, Cents, Units
  <2>2. cents \in Nat /\ 500 * local - 43 < 86 * cents /\ 86 * cents =< 500 * local + 43
    <3>1. /\ Nearest(250 * local, 43) \in Nat
          /\ 500 * local - 43 < 86 * Nearest(250 * local, 43)
          /\ 86 * Nearest(250 * local, 43) =< 500 * local + 43
      BY NearestOther, Zenon
    <3> QED BY <3>1, Zenon
  <2> HIDE DEF cents
  <2>3. Nearest(43 * cents, 250) = local
    BY <2>2 DEF Nearest
  <2>4. Touched(c, local) = local
    BY <2>1, <2>3 DEF Touched
  <2> QED BY <1>2, <2>4
<1> QED BY <1>1, <1>2
===============================================================================
