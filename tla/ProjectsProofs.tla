---------------------------- MODULE ProjectsProofs ----------------------------
(***************************************************************************)
(* The invariants of Projects hold for every set of projects, payouts and  *)
(* people, and every choice of amounts, countries and refused payments.    *)
(***************************************************************************)
EXTENDS Projects, SumProofs

\* A price is a natural number of cents.
LEMMA FundingCentsType ==
    ASSUME NEW c \in Countries, NEW a \in Nat
    PROVE  FundingCents(c, a) \in Nat
<1> DEFINE f == FxRateTimes20(c)
           n == 40 * (100 * a + FeeCents(a)) + f
<1>1. f = 82000 \/ f = 344
  BY DEF FxRateTimes20
<1>2. FeeCents(a) \in Nat
  BY DEF FeeCents
<1>3. n \in Nat
  BY <1>1, <1>2
<1>4. CASE f = 82000
  <2>1. n \div 164000 \in Nat
    BY <1>3
  <2> QED BY <1>4, <2>1 DEF FundingCents
<1>5. CASE f = 344
  <2>1. n \div 688 \in Nat
    BY <1>3
  <2> QED BY <1>5, <2>1 DEF FundingCents
<1> QED BY <1>1, <1>4, <1>5

\* Every payout belongs to a project and pays a person of a known country.
LEMMA Links ==
    ASSUME NEW p \in Payouts
    PROVE  BatchOf[p] \in Batches /\ BeneficiaryOf[p] \in Beneficiaries /\ Country(p) \in Countries
BY LinksAssumption DEF Country

\* The summary of a project is one of the statuses.
LEMMA ResolvedStatusType ==
    ASSUME NEW S, NEW st
    PROVE  ResolvedStatus(S, st) \in BatchStatuses
BY DEF ResolvedStatus, BatchStatuses

-------------------------------------------------------------------------------
\* A service that starts with its seeded people is well typed.
LEMMA InitTypeOK == Init => TypeOK
BY LinksAssumption DEF Init, TypeOK, NoLine, PayoutStatuses, BatchStatuses

\* A loop over dispatchPayout keeps the types.
LEMMA DispatchTypeOK ==
    ASSUME TypeOK, NEW b \in Batches, NEW S \in SUBSET Approved(b), NEW STATE st,
           st \in [Payouts -> PayoutStatuses \cup {"none"}],
           \A p \in Payouts : st[p] = "none" <=> status[p] = "none",
           Dispatch(b, S, st),
           UNCHANGED <<beneficiary, quoteVars, lineVars, instructed>>
    PROVE  TypeOK'
<1> DEFINE r == ResolvedStatus(Approved(b), status')
<1>1. status' \in [Payouts -> PayoutStatuses \cup {"none"}]
  BY DEF Dispatch, Outcome, PayoutStatuses
<1>2. \A p \in Payouts : status'[p] = "none" => status[p] = "none"
  BY DEF Dispatch, Outcome
<1>3. batchStatus' = [batchStatus EXCEPT ![b] = r] /\ r \in BatchStatuses
  BY ResolvedStatusType DEF Dispatch
<1>4. batchStatus' \in [Batches -> BatchStatuses \cup {"none"}] /\ batchStatus'[b] # "none"
  BY <1>3 DEF TypeOK, BatchStatuses
<1>5. openCases' \in [Payouts -> Nat] /\ dispatches' \in [Payouts -> Nat]
  BY DEF TypeOK, Dispatch
<1>6. \A p \in Payouts : batchStatus'[BatchOf[p]] = "none" => status'[p] = "none"
  BY <1>3, <1>4, Links DEF TypeOK, Dispatch, Outcome, Approved, Lines
<1>7. UNCHANGED <<reviewed, webhookEvents>>
  BY DEF Dispatch
<1> QED BY <1>1, <1>2, <1>4, <1>5, <1>6, <1>7 DEF TypeOK, quoteVars, lineVars

\* Writing v over part of the existing payouts keeps who exists.
LEMMA SetAllType ==
    ASSUME TypeOK, NEW STATE S, S \subseteq Payouts, NEW v \in PayoutStatuses,
           \A p \in S : status[p] # "none"
    PROVE  /\ SetAll(status, S, v) \in [Payouts -> PayoutStatuses \cup {"none"}]
           /\ \A p \in Payouts : SetAll(status, S, v)[p] = "none" <=> status[p] = "none"
BY DEF TypeOK, SetAll, PayoutStatuses

\* The payouts the funding status touches, and those it is ready to pay,
\* are approved payouts that exist.
LEMMA ApprovedExist ==
    ASSUME TypeOK, NEW b \in Batches
    PROVE  /\ Approved(b) \subseteq PayoutsOf(b) /\ PayoutsOf(b) \subseteq Lines(b)
           /\ Lines(b) \subseteq Payouts
           /\ Fundable(b) \subseteq Approved(b) /\ Payable(b) \subseteq Approved(b)
BY DEF TypeOK, Approved, PayoutsOf, Lines, Fundable, Payable

\* A payout's status changes to an existing one and its project is
\* summarised again.
LEMMA SettleTypeOK ==
    ASSUME TypeOK, NEW p \in Payouts, NEW s \in PayoutStatuses, Settle(p, s)
    PROVE  /\ batchStatus' \in [Batches -> BatchStatuses \cup {"none"}]
           /\ status' \in [Payouts -> PayoutStatuses \cup {"none"}]
           /\ \A q \in Payouts :
                 /\ batchStatus'[BatchOf[q]] = "none" => status'[q] = "none"
                 /\ status'[q] = "none" => status[q] = "none"
<1> DEFINE r == ResolvedStatus(Approved(BatchOf[p]), status')
<1>1. batchStatus' = [batchStatus EXCEPT ![BatchOf[p]] = r] /\ r \in BatchStatuses
  BY ResolvedStatusType DEF Settle
<1>2. status' = [status EXCEPT ![p] = s]
  BY DEF Settle
<1> QED BY <1>1, <1>2, Links DEF TypeOK, PayoutStatuses, BatchStatuses

\* Every method keeps the types, one step of the proof per method.
LEMMA NextTypeOK == TypeOK /\ [Next]_vars => TypeOK'
<1> SUFFICES ASSUME TypeOK, [Next]_vars PROVE TypeOK'
  OBVIOUS
<1> USE DEF quoteVars, lineVars, cardVars
<1>1. ASSUME NEW n \in Beneficiaries, NEW v \in {"valid", "invalid"}, SetBeneficiary(n, v)
      PROVE  TypeOK'
  BY <1>1 DEF TypeOK, SetBeneficiary
<1>2. ASSUME NEW b \in Batches, NEW S \in SUBSET Lines(b), NEW amounts \in [S -> Amounts],
             CreateBatch(b, amounts)
      PROVE  TypeOK'
  <2>1. amountLocal' \in [Payouts -> Nat]
    BY <1>2, AmountsAssumption DEF TypeOK, CreateBatch
  <2>2. status' \in [Payouts -> PayoutStatuses \cup {"none"}]
    BY <1>2 DEF TypeOK, CreateBatch, DraftStatus, PayoutStatuses
  <2>3. batchStatus' \in [Batches -> BatchStatuses \cup {"none"}] /\ batchStatus'[b] # "none"
    BY <1>2 DEF TypeOK, CreateBatch, DraftBatchStatus, BatchStatuses
  <2>4. invalid' \subseteq Payouts
    BY <1>2 DEF TypeOK, CreateBatch, Lines
  <2>5. \A p \in Payouts : batchStatus'[BatchOf[p]] = "none" => status'[p] = "none"
    BY <1>2, <2>3, Links DEF TypeOK, CreateBatch, Lines
  <2>6. \A p \in Payouts : status'[p] = "none" =>
           approvalStatus'[p] = "pending" /\ p \notin invalid'
    BY <1>2 DEF TypeOK, CreateBatch, DraftStatus
  <2> QED BY <1>2, <2>1, <2>2, <2>3, <2>4, <2>5, <2>6 DEF TypeOK, CreateBatch
<1>3. ASSUME NEW p \in Payouts, NEW a \in Amounts \cup {NoChange},
             NEW v \in Approvals, UpdatePayout(p, a, v)
      PROVE  TypeOK'
  <2>1. amountLocal' \in [Payouts -> Nat] /\ fundingAmountUsdc' \in [Payouts -> Nat]
    BY <1>3, AmountsAssumption DEF TypeOK, UpdatePayout
  <2>2. /\ status' \in [Payouts -> PayoutStatuses \cup {"none"}]
        /\ \A q \in Payouts : status'[q] = "none" <=> status[q] = "none"
    BY <1>3 DEF TypeOK, UpdatePayout, DraftStatus, PayoutStatuses
  <2>3. /\ batchStatus' \in [Batches -> BatchStatuses \cup {"none"}]
        /\ batchStatus'[BatchOf[p]] # "none"
        /\ \A b \in Batches : b # BatchOf[p] => batchStatus'[b] = batchStatus[b]
    BY <1>3, Links DEF TypeOK, UpdatePayout, DraftBatchStatus, BatchStatuses
  <2>4. invalid' \subseteq Payouts /\ invalid' \subseteq invalid \cup {p}
    BY <1>3 DEF TypeOK, UpdatePayout
  <2>5. /\ approvalStatus' = [approvalStatus EXCEPT ![p] = v]
        /\ status[p] # "none"
    BY <1>3 DEF UpdatePayout
  <2>6. /\ quote' \in [Batches -> {"none", "live", "expired"}]
        /\ totalFundingUsdc' \in [Batches -> Nat]
    BY <1>3 DEF TypeOK, UpdatePayout, InvalidateQuote
  <2>7. line' \in [Payouts -> Nat \cup {NoLine}]
    BY <1>3 DEF TypeOK, UpdatePayout, InvalidateQuote, SetAll
  <2>8. UNCHANGED <<beneficiary, cardVars, instructed>>
    BY <1>3 DEF UpdatePayout
  <2>9. \A q \in Payouts : batchStatus'[BatchOf[q]] = "none" => status'[q] = "none"
    BY <2>2, <2>3, Links DEF TypeOK
  <2>10. \A q \in Payouts : status'[q] = "none" =>
           approvalStatus'[q] = "pending" /\ q \notin invalid'
    BY <2>2, <2>4, <2>5 DEF TypeOK
  <2>11. approvalStatus' \in [Payouts -> {"pending", "approved", "excluded"}]
    BY <2>5, ApprovalsAssumption DEF TypeOK
  <2> QED BY <2>1, <2>2, <2>3, <2>4, <2>6, <2>7, <2>8, <2>9, <2>10, <2>11 DEF TypeOK
<1>4. ASSUME NEW b \in Batches, CreateQuote(b)
      PROVE  TypeOK'
  <2>1. \A p \in Payouts : FundingCents(Country(p), amountLocal[p]) \in Nat
    BY FundingCentsType, Links DEF TypeOK
  <2>2. fundingAmountUsdc' \in [Payouts -> Nat] /\ line' \in [Payouts -> Nat \cup {NoLine}]
    BY <1>4, <2>1 DEF TypeOK, CreateQuote
  <2>3. /\ status' \in [Payouts -> PayoutStatuses \cup {"none"}]
        /\ \A p \in Payouts : status'[p] = "none" <=> status[p] = "none"
    BY <1>4, ApprovedExist DEF TypeOK, CreateQuote, DraftStatus, PayoutStatuses, PayoutsOf
  <2>4. batchStatus' = [batchStatus EXCEPT ![b] = "awaiting_approval"] /\ batchStatus[b] # "none"
    BY <1>4 DEF CreateQuote
  <2>5. totalFundingUsdc' \in [Batches -> Nat] /\ quote' = [quote EXCEPT ![b] = "live"]
    <3> DEFINE S == Approved(b)
               prices == [p \in S |-> FundingCents(Country(p), amountLocal[p])]
    <3>1. IsFiniteSet(S)
      BY PayoutsAssumption, FS_Subset DEF Approved, Lines
    <3>2. DOMAIN prices = S /\ \A p \in S : prices[p] \in Nat
      BY <2>1 DEF Approved, Lines
    <3>3. totalFundingUsdc' = [totalFundingUsdc EXCEPT ![b] = SumFunction(prices)]
      BY <1>4 DEF CreateQuote
    <3> HIDE DEF S, prices
    <3>4. SumFunction(prices) \in Nat
      BY <3>1, <3>2, SumNat DEF SumFunction
    <3> QED BY <1>4, <3>3, <3>4 DEF TypeOK, CreateQuote
  <2>6. UNCHANGED <<beneficiary, lineVars, cardVars, instructed>>
    BY <1>4 DEF CreateQuote
  <2> QED BY <2>2, <2>3, <2>4, <2>5, <2>6, Links DEF TypeOK, BatchStatuses
<1>5. ASSUME NEW b \in Batches, ExpireQuote(b)
      PROVE  TypeOK'
  BY <1>5 DEF TypeOK, ExpireQuote
<1>6. ASSUME NEW b \in Batches, NEW S, S \subseteq Approved(b),
             NEW u \in BatchStatuses, NEW v \in PayoutStatuses,
             batchStatus' = [batchStatus EXCEPT ![b] = u],
             status' = SetAll(status, S, v),
             UNCHANGED <<beneficiary, quoteVars, lineVars, cardVars, instructed>>
      PROVE  TypeOK'
  <2>1. \A p \in S : status[p] # "none"
    BY <1>6, ApprovedExist DEF PayoutsOf
  <2>2. S \subseteq Payouts
    BY <1>6, ApprovedExist
  <2>3. /\ status' \in [Payouts -> PayoutStatuses \cup {"none"}]
        /\ \A p \in Payouts : status'[p] = "none" <=> status[p] = "none"
    BY <1>6, <2>1, <2>2, SetAllType
  <2> QED BY <1>6, <2>3, Links DEF TypeOK, BatchStatuses
<1>7. ASSUME NEW b \in Batches, NEW v \in {"approved", "failed"}, ApproveBatch(b, v)
      PROVE  TypeOK'
  BY <1>6, <1>7 DEF ApproveBatch, BatchStatuses, PayoutStatuses
<1>8. ASSUME NEW b \in Batches, RequestInstruction(b)
      PROVE  TypeOK'
  BY <1>8 DEF TypeOK, RequestInstruction
<1>9. ASSUME NEW b \in Batches, AwaitFunding(b) \/ ApplyFunded(b)
      PROVE  TypeOK'
  BY <1>6, <1>9, ApprovedExist DEF AwaitFunding, ApplyFunded, BatchStatuses, PayoutStatuses
<1>10. ASSUME NEW b \in Batches, AutoDispatch(b)
      PROVE  TypeOK'
  <2> DEFINE st == SetAll(status, Fundable(b), "funded")
             S == LoopReach(b, Fundable(b))
  <2>1. S \in SUBSET Approved(b)
    BY ApprovedExist DEF LoopReach
  <2>2. /\ st \in [Payouts -> PayoutStatuses \cup {"none"}]
        /\ \A p \in Payouts : st[p] = "none" <=> status[p] = "none"
    <3>1. Fundable(b) \subseteq Payouts /\ \A p \in Fundable(b) : status[p] # "none"
      BY ApprovedExist DEF PayoutsOf
    <3> QED BY <3>1, SetAllType DEF PayoutStatuses
  <2>3. Dispatch(b, S, st) /\ UNCHANGED <<beneficiary, quoteVars, lineVars, instructed>>
    BY <1>10 DEF AutoDispatch
  <2> HIDE DEF st, S
  <2> QED BY <2>1, <2>2, <2>3, DispatchTypeOK
<1>11. ASSUME NEW b \in Batches, NEW S \in SUBSET Approved(b), Dispatch(b, S, status),
              UNCHANGED <<beneficiary, quoteVars, lineVars, instructed>>
      PROVE  TypeOK'
  BY <1>11, DispatchTypeOK DEF TypeOK
<1>12. ASSUME NEW p \in Payouts, DispatchPayout(p)
      PROVE  TypeOK'
  BY <1>11, <1>12, ApprovedExist, Links DEF DispatchPayout
<1>13. ASSUME NEW b \in Batches, SendApprovedPayouts(b)
      PROVE  TypeOK'
  BY <1>11, <1>13, ApprovedExist DEF SendApprovedPayouts, LoopReach
<1>14. ASSUME NEW p \in Payouts, ResolveComplianceCase(p)
      PROVE  TypeOK'
  <2>1. openCases' \in [Payouts -> Nat] /\ reviewed' \subseteq Payouts
    BY <1>14 DEF TypeOK, ResolveComplianceCase
  <2>2. Settle(p, "funded") /\ "funded" \in PayoutStatuses
    BY <1>14 DEF ResolveComplianceCase, PayoutStatuses
  <2>3. UNCHANGED <<beneficiary, quoteVars, lineVars, webhookEvents, dispatches, instructed>>
    BY <1>14 DEF ResolveComplianceCase
  <2> QED BY <2>1, <2>2, <2>3, SettleTypeOK DEF TypeOK
<1>15. ASSUME NEW e \in Events, NEW p \in Payouts, NEW s \in {"paid", "failed"},
              RecordPartnerWebhook(e, p, s)
      PROVE  TypeOK'
  <2>1. Settle(p, s) /\ s \in PayoutStatuses
    BY <1>15 DEF RecordPartnerWebhook, PayoutStatuses
  <2>2. /\ webhookEvents' \subseteq Reports
        /\ UNCHANGED <<beneficiary, quoteVars, lineVars, openCases, reviewed, dispatches,
                       instructed>>
    BY <1>15 DEF TypeOK, RecordPartnerWebhook, Reports
  <2> QED BY <2>1, <2>2, SettleTypeOK DEF TypeOK
<1>16. CASE UNCHANGED vars
  BY <1>16 DEF TypeOK, vars
<1> QED
  BY <1>1, <1>2, <1>3, <1>4, <1>5, <1>7, <1>8, <1>9, <1>10, <1>12, <1>13, <1>14, <1>15, <1>16
     DEF Next, Calls, CreateBeneficiary, UpdateBeneficiary

\* Every reachable state is well typed, and nothing is recorded about a
\* project or a payout before it is created.
THEOREM Typing == Spec => []TypeOK
BY InitTypeOK, NextTypeOK, PTL DEF Spec

-------------------------------------------------------------------------------
\* A project whose lines, price and quote a step leaves alone keeps a quote
\* that matches.
LEMMA QuoteFrame ==
    ASSUME NEW b \in Batches, QuoteMatches(b),
           quote'[b] = "none" <=> quote[b] = "none",
           totalFundingUsdc'[b] = totalFundingUsdc[b],
           \A p \in Lines(b) :
              /\ line'[p] = line[p]
              /\ approvalStatus'[p] = approvalStatus[p]
              /\ p \in Approved(b) =>
                    /\ amountLocal'[p] = amountLocal[p]
                    /\ fundingAmountUsdc'[p] = fundingAmountUsdc[p]
                    /\ p \in invalid' <=> p \in invalid
    PROVE  QuoteMatches(b)'
<1>1. Approved(b)' = Approved(b) /\ Approved(b) \subseteq Lines(b)
  BY DEF Approved, Lines
<1>2. [p \in Approved(b) |-> line[p]]' = [p \in Approved(b) |-> line[p]]
  BY <1>1
<1>3. Lines(b)' = Lines(b) /\ \A p : Country(p)' = Country(p)
  BY DEF Lines, Country
<1>4. \A p \in Approved(b) : FundingCents(Country(p), amountLocal[p])' = FundingCents(Country(p), amountLocal[p])
  BY <1>1, <1>3
<1>5. CASE quote[b] = "none"
  BY <1>3, <1>5 DEF QuoteMatches
<1>6. CASE quote[b] # "none"
  BY <1>1, <1>2, <1>3, <1>4, <1>6 DEF QuoteMatches
<1> QED BY <1>5, <1>6

\* The same for every project at once.
LEMMA QuoteFrameAll ==
    ASSUME QuoteMatchesApproved, UNCHANGED quoteVars, UNCHANGED lineVars
    PROVE  QuoteMatchesApproved'
<1> SUFFICES ASSUME NEW b \in Batches PROVE QuoteMatches(b)'
  BY DEF QuoteMatchesApproved
<1>1. QuoteMatches(b)
  BY DEF QuoteMatchesApproved
<1> QED BY <1>1, QuoteFrame DEF quoteVars, lineVars

\* Without projects no quote can disagree with its lines.
LEMMA InitQuote == Init => QuoteMatchesApproved
BY DEF Init, QuoteMatchesApproved, QuoteMatches, Lines

\* The inductive step of QuoteMatchesApproved, method by method.
LEMMA NextQuote ==
    TypeOK /\ TypeOK' /\ QuoteMatchesApproved /\ [Next]_vars => QuoteMatchesApproved'
<1> SUFFICES ASSUME TypeOK, TypeOK', QuoteMatchesApproved, [Next]_vars
             PROVE  QuoteMatchesApproved'
  OBVIOUS
<1>1. ASSUME NEW b \in Batches, NEW S \in SUBSET Lines(b), NEW amounts \in [S -> Amounts],
             CreateBatch(b, amounts)
      PROVE  QuoteMatchesApproved'
  <2> SUFFICES ASSUME NEW c \in Batches PROVE QuoteMatches(c)'
    BY DEF QuoteMatchesApproved
  <2>1. UNCHANGED quoteVars /\ UNCHANGED approvalStatus
    BY <1>1 DEF CreateBatch
  <2>2. \A p \in Approved(c) : p \notin S
    BY <1>1 DEF TypeOK, CreateBatch, Approved, Lines
  <2>3. \A p \in Approved(c) : amountLocal'[p] = amountLocal[p] /\ (p \in invalid' <=> p \in invalid)
    BY <1>1, <2>2 DEF TypeOK, CreateBatch, Approved, Lines
  <2> QED BY <2>1, <2>3, QuoteFrame DEF QuoteMatchesApproved, quoteVars
<1>2. ASSUME NEW p \in Payouts, NEW a \in Amounts \cup {NoChange},
             NEW v \in Approvals, UpdatePayout(p, a, v)
      PROVE  QuoteMatchesApproved'
  <2> SUFFICES ASSUME NEW c \in Batches PROVE QuoteMatches(c)'
    BY DEF QuoteMatchesApproved
  <2>1. CASE c = BatchOf[p]
    <3>1. quote'[c] = "none" /\ totalFundingUsdc'[c] = 0
      BY <1>2, <2>1, Links DEF TypeOK, UpdatePayout, InvalidateQuote
    <3>2. \A q \in Lines(c) : line'[q] = NoLine
      BY <1>2, <2>1 DEF TypeOK, UpdatePayout, InvalidateQuote, SetAll, Lines
    <3> QED BY <3>1, <3>2 DEF QuoteMatches, Lines
  <2>2. CASE c # BatchOf[p]
    <3>1. quote'[c] = quote[c] /\ totalFundingUsdc'[c] = totalFundingUsdc[c]
      BY <1>2, <2>2 DEF TypeOK, UpdatePayout, InvalidateQuote
    <3>2. \A q \in Lines(c) : q \in Payouts /\ q # p /\ q \notin Lines(BatchOf[p])
      BY <2>2 DEF Lines
    <3>3. \A q \in Lines(c) :
             /\ line'[q] = line[q]
             /\ approvalStatus'[q] = approvalStatus[q]
             /\ amountLocal'[q] = amountLocal[q]
             /\ fundingAmountUsdc'[q] = fundingAmountUsdc[q]
             /\ q \in invalid' <=> q \in invalid
      BY <1>2, <3>2 DEF TypeOK, UpdatePayout, InvalidateQuote, SetAll
    <3> QED BY <3>1, <3>3, QuoteFrame DEF QuoteMatchesApproved
  <2> QED BY <2>1, <2>2
<1>3. ASSUME NEW b \in Batches, CreateQuote(b)
      PROVE  QuoteMatchesApproved'
  <2> SUFFICES ASSUME NEW c \in Batches PROVE QuoteMatches(c)'
    BY DEF QuoteMatchesApproved
  <2>1. UNCHANGED lineVars
    BY <1>3 DEF CreateQuote
  <2>2. CASE c = b
    <3> DEFINE S == Approved(b)
               price(p) == FundingCents(Country(p), amountLocal[p])
    <3>1. Approved(b)' = S /\ S \subseteq Lines(b) /\ Lines(b) \subseteq Payouts
      BY <2>1 DEF lineVars, Approved, Lines
    <3>2. S # {} /\ S \cap invalid = {}
      BY <1>3 DEF CreateQuote
    <3>3. \A p \in S : line'[p] = price(p) /\ fundingAmountUsdc'[p] = price(p)
      BY <1>3, <3>1 DEF CreateQuote
    <3>4. \A p \in Lines(b) \ S : line'[p] = NoLine
      BY <1>3, <3>1 DEF CreateQuote
    <3>5. quote'[b] = "live" /\ totalFundingUsdc'[b] = SumFunction([p \in S |-> price(p)])
      BY <1>3 DEF TypeOK, CreateQuote
    <3>6. [p \in S |-> line'[p]] = [p \in S |-> price(p)]
      BY <3>3
    <3>7. totalFundingUsdc'[b] = SumFunction([p \in S |-> line'[p]])
      BY <3>5, <3>6
    <3>8. [p \in Approved(b) |-> line[p]]' = [p \in S |-> line'[p]]
      BY <3>1
    <3>9. \A p \in S : FundingCents(Country(p), amountLocal[p])' = price(p)
      BY <2>1 DEF lineVars, Country
    <3>10. invalid' = invalid /\ Lines(b)' = Lines(b)
      BY <2>1 DEF lineVars, Lines
    <3> HIDE DEF S, price
    <3> QED BY <2>2, <3>1, <3>2, <3>3, <3>4, <3>5, <3>7, <3>8, <3>9, <3>10 DEF QuoteMatches
  <2>3. CASE c # b
    <3>1. quote'[c] = quote[c] /\ totalFundingUsdc'[c] = totalFundingUsdc[c]
      BY <1>3, <2>3 DEF TypeOK, CreateQuote
    <3>2. \A q \in Lines(c) : q \in Payouts /\ q \notin Lines(b)
      BY <2>3 DEF Lines
    <3>3. \A q \in Lines(c) : line'[q] = line[q] /\ fundingAmountUsdc'[q] = fundingAmountUsdc[q]
      BY <1>3, <3>2 DEF TypeOK, CreateQuote, Approved, PayoutsOf
    <3> QED BY <2>1, <3>1, <3>3, QuoteFrame DEF QuoteMatchesApproved, lineVars
  <2> QED BY <2>2, <2>3
<1>4. ASSUME NEW b \in Batches, ExpireQuote(b)
      PROVE  QuoteMatchesApproved'
  <2> SUFFICES ASSUME NEW c \in Batches PROVE QuoteMatches(c)'
    BY DEF QuoteMatchesApproved
  <2>1. quote'[c] = "none" <=> quote[c] = "none"
    BY <1>4 DEF TypeOK, ExpireQuote
  <2> QED BY <1>4, <2>1, QuoteFrame DEF QuoteMatchesApproved, ExpireQuote, lineVars
<1>5. ASSUME UNCHANGED quoteVars, UNCHANGED lineVars
      PROVE  QuoteMatchesApproved'
  BY <1>5, QuoteFrameAll
<1>6. ASSUME NEW n \in Beneficiaries, NEW v \in {"valid", "invalid"},
             CreateBeneficiary(n, v) \/ UpdateBeneficiary(n, v)
      PROVE  QuoteMatchesApproved'
  BY <1>5, <1>6 DEF CreateBeneficiary, UpdateBeneficiary, SetBeneficiary
<1>7. ASSUME NEW b \in Batches,
             \/ \E v \in {"approved", "failed"} : ApproveBatch(b, v)
             \/ RequestInstruction(b) \/ AwaitFunding(b) \/ ApplyFunded(b)
             \/ AutoDispatch(b) \/ SendApprovedPayouts(b)
      PROVE  QuoteMatchesApproved'
  BY <1>5, <1>7 DEF ApproveBatch, RequestInstruction, AwaitFunding, ApplyFunded,
                    AutoDispatch, SendApprovedPayouts
<1>8. ASSUME NEW p \in Payouts, DispatchPayout(p) \/ ResolveComplianceCase(p)
      PROVE  QuoteMatchesApproved'
  BY <1>5, <1>8 DEF DispatchPayout, ResolveComplianceCase
<1>9. ASSUME NEW e \in Events, NEW p \in Payouts, NEW s \in {"paid", "failed"},
             RecordPartnerWebhook(e, p, s)
      PROVE  QuoteMatchesApproved'
  BY <1>5, <1>9 DEF RecordPartnerWebhook
<1>10. CASE UNCHANGED vars
  BY <1>5, <1>10 DEF vars
<1> QED
  BY <1>1, <1>2, <1>3, <1>4, <1>6, <1>7, <1>8, <1>9, <1>10 DEF Next, Calls

\* A quote always prices exactly the people approved now, at their present
\* amounts, and is what the project asks to be funded with.
THEOREM QuoteIntegrity == Spec => []QuoteMatchesApproved
<1>1. TypeOK /\ QuoteMatchesApproved /\ [Next]_vars => (TypeOK /\ QuoteMatchesApproved)'
  BY NextTypeOK, NextQuote
<1> QED BY <1>1, InitTypeOK, InitQuote, PTL DEF Spec

-------------------------------------------------------------------------------
\* A project whose status, quote and payouts a step leaves alone keeps a
\* true status.
LEMMA StatusFrame ==
    ASSUME NEW b \in Batches, StatusSound(b),
           batchStatus'[b] = batchStatus[b],
           quote[b] # "none" => quote'[b] # "none",
           \A p \in Lines(b) : /\ status'[p] = status[p]
                               /\ approvalStatus'[p] = approvalStatus[p]
                               /\ p \in invalid' <=> p \in invalid
    PROVE  StatusSound(b)'
<1>1. Approved(b)' = Approved(b) /\ Approved(b) \subseteq Lines(b)
  BY DEF Approved, Lines
<1>2. PayoutsOf(b)' = PayoutsOf(b) /\ (PayoutsOf(b) \cap invalid)' = PayoutsOf(b) \cap invalid
  BY DEF PayoutsOf, Lines
<1>3. StatusesUnder(batchStatus[b])' = StatusesUnder(batchStatus[b])
  BY DEF StatusesUnder
<1> QED BY <1>1, <1>2, <1>3 DEF StatusSound

\* resolveBatchStatus makes the status of a project true.
LEMMA ResolvedSound ==
    ASSUME TypeOK', NEW b \in Batches, approvalStatus' = approvalStatus,
           batchStatus'[b] = ResolvedStatus(Approved(b), status')
    PROVE  StatusSound(b)'
<1> DEFINE r == ResolvedStatus(Approved(b), status')
<1>1. Approved(b)' = Approved(b)
  BY DEF Approved, Lines
<1>2. \A p \in Approved(b) : status'[p] \in PayoutStatuses
  BY <1>1 DEF TypeOK, Approved, Lines
<1>3. /\ r \in {"completed", "in_review", "failed", "funded", "dispatching"}
      /\ r = "completed" => \A p \in Approved(b) : status'[p] = "paid"
      /\ r = "in_review" => \E p \in Approved(b) : status'[p] = "in_review"
      /\ r = "failed" => \E p \in Approved(b) : status'[p] = "failed"
      /\ r = "funded" => \A p \in Approved(b) : status'[p] = "funded"
      /\ r = "dispatching" => /\ \A p \in Approved(b) : status'[p] \notin {"in_review", "failed"}
                              /\ \E p \in Approved(b) : status'[p] # "paid"
  BY DEF ResolvedStatus
<1>4. \A p \in Approved(b) : status'[p] \in StatusesUnder(r)
  BY <1>2, <1>3 DEF StatusesUnder, PayoutStatuses
<1>5. (\A p \in Approved(b) : status[p] \in StatusesUnder(batchStatus[b]))'
  BY <1>1, <1>4 DEF StatusesUnder
<1> HIDE DEF r
<1>6. batchStatus'[b] = r
  BY DEF r
<1> QED BY <1>1, <1>3, <1>5, <1>6 DEF StatusSound

\* A step that writes one status u over project b, and v over part of its
\* approved payouts, is sound when u allows v and what the others have.
LEMMA WrittenSound ==
    ASSUME TypeOK, NEW b \in Batches, NEW STATE S, S \subseteq Approved(b),
           NEW u \in {"approved", "failed", "awaiting_funding", "funded"}, NEW v,
           batchStatus'[b] = u, status' = SetAll(status, S, v),
           approvalStatus' = approvalStatus, quote'[b] = quote[b],
           S # {} => v \in StatusesUnder(u),
           \A p \in Approved(b) \ S : status[p] \in StatusesUnder(u),
           u = "approved" => quote[b] # "none",
           u = "failed" => v = "failed" /\ S # {}
    PROVE  StatusSound(b)'
<1>1. Approved(b)' = Approved(b) /\ Approved(b) \subseteq Payouts
  BY DEF Approved, Lines
<1>2. \A p \in Approved(b) : status'[p] = IF p \in S THEN v ELSE status[p]
  BY <1>1 DEF TypeOK, SetAll
<1>3. \A p \in Approved(b) : status'[p] \in StatusesUnder(u)
  BY <1>2
<1>4. (\A p \in Approved(b) : status[p] \in StatusesUnder(batchStatus[b]))'
  BY <1>1, <1>3 DEF StatusesUnder
<1>5. u = "failed" => \E p \in Approved(b) : status'[p] = "failed"
  BY <1>2
<1> QED BY <1>1, <1>4, <1>5 DEF StatusSound

\* Without projects no status can be wrong.
LEMMA InitStatus == Init => BatchStatusSound
BY LinksAssumption DEF Init, BatchStatusSound, StatusSound, Approved, Lines

\* The inductive step of BatchStatusSound, method by method.
LEMMA NextStatus ==
    /\ TypeOK /\ TypeOK' /\ QuoteMatchesApproved /\ BatchStatusSound
    /\ [Next]_vars
    => BatchStatusSound'
<1> SUFFICES ASSUME TypeOK, TypeOK', QuoteMatchesApproved, BatchStatusSound, [Next]_vars,
                    NEW c \in Batches
             PROVE  StatusSound(c)'
  BY DEF BatchStatusSound
<1>0. StatusSound(c)
  BY DEF BatchStatusSound
\* Two shapes of step: one that does not concern c, and one that rewrites c.
<1>1. ASSUME UNCHANGED <<batchStatus, status, quote, approvalStatus, invalid>>
      PROVE  StatusSound(c)'
  BY <1>0, <1>1, StatusFrame
<1>2. ASSUME NEW b \in Batches, c # b,
             batchStatus'[c] = batchStatus[c], quote[c] # "none" => quote'[c] # "none",
             \A p \in Payouts \ Lines(b) : /\ status'[p] = status[p]
                                           /\ approvalStatus'[p] = approvalStatus[p]
                                           /\ p \in invalid' <=> p \in invalid
      PROVE  StatusSound(c)'
  <2>1. \A p \in Lines(c) : p \in Payouts \ Lines(b)
    BY <1>2 DEF Lines
  <2>2. \A p \in Lines(c) : /\ status'[p] = status[p]
                            /\ approvalStatus'[p] = approvalStatus[p]
                            /\ p \in invalid' <=> p \in invalid
    <3> TAKE p \in Lines(c)
    <3>1. p \in Payouts \ Lines(b)
      BY <2>1
    <3> QED BY <1>2, <3>1
  <2>3. batchStatus'[c] = batchStatus[c] /\ (quote[c] # "none" => quote'[c] # "none")
    BY <1>2
  <2> QED BY <1>0, <2>2, <2>3, StatusFrame
<1>3. ASSUME NEW b \in Batches, NEW S \in SUBSET Approved(b), NEW STATE st,
             \A p \in Payouts \ Lines(b) : st[p] = status[p],
             Dispatch(b, S, st), UNCHANGED <<quoteVars, lineVars>>
      PROVE  StatusSound(c)'
  <2>1. batchStatus' = [batchStatus EXCEPT ![b] = ResolvedStatus(Approved(b), status')]
    BY <1>3 DEF Dispatch
  <2>2. \A p \in Payouts \ Lines(b) : status'[p] = status[p]
    BY <1>3 DEF Dispatch, Approved
  <2>3. CASE c = b
    BY <1>3, <2>1, <2>3, ResolvedSound DEF TypeOK, lineVars
  <2>4. CASE c # b
    BY <1>2, <1>3, <2>1, <2>2, <2>4 DEF TypeOK, quoteVars, lineVars
  <2> QED BY <2>3, <2>4
<1>4. ASSUME NEW p \in Payouts, NEW s \in PayoutStatuses, Settle(p, s),
             UNCHANGED <<quoteVars, lineVars>>
      PROVE  StatusSound(c)'
  <2> DEFINE b == BatchOf[p]
  <2>1. batchStatus' = [batchStatus EXCEPT ![b] = ResolvedStatus(Approved(b), status')]
    BY <1>4 DEF Settle
  <2>2. \A q \in Payouts \ Lines(b) : status'[q] = status[q]
    BY <1>4 DEF TypeOK, Settle, Lines
  <2>3. b \in Batches
    BY Links
  <2> HIDE DEF b
  <2>4. CASE c = b
    BY <1>4, <2>1, <2>3, <2>4, ResolvedSound DEF TypeOK, lineVars
  <2>5. CASE c # b
    BY <1>2, <1>4, <2>1, <2>2, <2>3, <2>5 DEF TypeOK, quoteVars, lineVars
  <2> QED BY <2>4, <2>5
<1>5. ASSUME NEW b \in Batches, NEW S \in SUBSET Lines(b), NEW amounts \in [S -> Amounts],
             CreateBatch(b, amounts)
      PROVE  StatusSound(c)'
  <2> DEFINE bad == {p \in S : HasErrors(p, amounts[p])}
  <2>1. /\ invalid' = invalid \cup bad /\ UNCHANGED <<quoteVars, approvalStatus>>
        /\ batchStatus' = [batchStatus EXCEPT ![b] = DraftBatchStatus(S, bad)]
    BY <1>5 DEF CreateBatch
  <2>2. \A p \in Payouts \ Lines(b) : status'[p] = status[p] /\ p \notin bad
    BY <1>5 DEF CreateBatch
  <2>3. CASE c = b
    <3>1. \A p \in Lines(b) : status[p] = "none" /\ approvalStatus[p] = "pending" /\ p \notin invalid
      BY <1>5 DEF TypeOK, CreateBatch, Lines
    <3>2. Approved(b)' = {}
      BY <2>1, <3>1 DEF Approved, Lines
    <3>3. PayoutsOf(b)' = S
      <4>1. \A p \in Lines(b) : status'[p] # "none" <=> p \in S
        BY <1>5, <3>1 DEF CreateBatch, DraftStatus, Lines
      <4> QED BY <4>1 DEF PayoutsOf, Lines
    <3>4. (PayoutsOf(b) \cap invalid)' = S \cap bad
      BY <2>1, <3>1, <3>3
    <3>5. batchStatus'[b] = IF S \cap bad = {} THEN "validated" ELSE "draft"
      BY <2>1 DEF TypeOK, DraftBatchStatus
    <3> QED BY <2>3, <3>2, <3>4, <3>5 DEF StatusSound
  <2>4. CASE c # b
    <3>1. batchStatus'[c] = batchStatus[c]
      BY <2>1, <2>4 DEF TypeOK
    <3> QED BY <1>2, <2>1, <2>2, <2>4, <3>1 DEF quoteVars
  <2> QED BY <2>3, <2>4
<1>6. ASSUME NEW p \in Payouts, NEW a \in Amounts \cup {NoChange},
             NEW v \in Approvals, UpdatePayout(p, a, v)
      PROVE  StatusSound(c)'
  <2> DEFINE b == BatchOf[p]
  <2>0. b \in Batches
    BY Links
  <2>1. /\ batchStatus' = [batchStatus EXCEPT ![b] = DraftBatchStatus(PayoutsOf(b), invalid')]
        /\ quote' = [quote EXCEPT ![b] = "none"]
        /\ approvalStatus' = [approvalStatus EXCEPT ![p] = v]
    BY <1>6 DEF UpdatePayout, InvalidateQuote
  <2>2. /\ \A q \in Payouts : q # p => status'[q] = status[q] /\ (q \in invalid' <=> q \in invalid)
        /\ \A q \in Payouts : status'[q] = "none" <=> status[q] = "none"
    BY <1>6 DEF TypeOK, UpdatePayout, DraftStatus
  <2>3. CASE c = b
    <3>1. PayoutsOf(b)' = PayoutsOf(b)
      BY <2>2 DEF PayoutsOf, Lines
    <3>2. batchStatus'[b] = IF (PayoutsOf(b) \cap invalid)' = {} THEN "validated" ELSE "draft"
      BY <2>0, <2>1, <3>1 DEF TypeOK, DraftBatchStatus
    <3>3. \A q \in Approved(b)' : status'[q] \in PayoutStatuses
      BY DEF TypeOK, Approved, Lines
    <3>4. (\A q \in Approved(b) : status[q] \in StatusesUnder(batchStatus[b]))'
      BY <3>2, <3>3 DEF StatusesUnder
    <3> QED BY <2>3, <3>2, <3>4 DEF StatusSound
  <2>4. CASE c # b
    <3>1. batchStatus'[c] = batchStatus[c] /\ quote'[c] = quote[c]
      BY <2>1, <2>4 DEF TypeOK
    <3>2. \A q \in Payouts \ Lines(b) : q # p
      BY DEF Lines
    <3>3. \A q \in Payouts \ Lines(b) : /\ status'[q] = status[q]
                                        /\ approvalStatus'[q] = approvalStatus[q]
                                        /\ q \in invalid' <=> q \in invalid
      BY <2>1, <2>2, <3>2 DEF TypeOK
    <3> QED BY <1>2, <2>0, <2>4, <3>1, <3>3
  <2> QED BY <2>3, <2>4
<1>7. ASSUME NEW b \in Batches, CreateQuote(b)
      PROVE  StatusSound(c)'
  <2>1. /\ batchStatus' = [batchStatus EXCEPT ![b] = "awaiting_approval"]
        /\ quote' = [quote EXCEPT ![b] = "live"] /\ UNCHANGED lineVars
    BY <1>7 DEF CreateQuote
  <2>2. /\ \A p \in Approved(b) : status'[p] = "quoted"
        /\ \A p \in Payouts \ Lines(b) : status'[p] = status[p]
    BY <1>7 DEF CreateQuote, Approved, Lines, PayoutsOf
  <2>3. CASE c = b
    <3>1. Approved(b)' = Approved(b)
      BY <2>1 DEF lineVars, Approved, Lines
    <3>2. batchStatus'[b] = "awaiting_approval" /\ quote'[b] = "live"
      BY <2>1 DEF TypeOK
    <3> QED BY <2>2, <2>3, <3>1, <3>2 DEF StatusSound, StatusesUnder
  <2>4. CASE c # b
    <3>1. batchStatus'[c] = batchStatus[c] /\ quote'[c] = quote[c]
      BY <2>1, <2>4 DEF TypeOK
    <3> QED BY <1>2, <2>1, <2>2, <2>4, <3>1 DEF lineVars
  <2> QED BY <2>3, <2>4
<1>8. ASSUME NEW b \in Batches, ExpireQuote(b)
      PROVE  StatusSound(c)'
  BY <1>0, <1>8, StatusFrame DEF TypeOK, ExpireQuote, lineVars
<1>9. ASSUME NEW b \in Batches, NEW STATE S, S \subseteq Approved(b),
             NEW u \in {"approved", "failed", "awaiting_funding", "funded"}, NEW v,
             batchStatus' = [batchStatus EXCEPT ![b] = u], status' = SetAll(status, S, v),
             UNCHANGED <<quoteVars, lineVars>>,
             S # {} => v \in StatusesUnder(u),
             \A p \in Approved(b) \ S : status[p] \in StatusesUnder(u),
             u = "approved" => quote[b] # "none",
             u = "failed" => v = "failed" /\ S # {}
      PROVE  StatusSound(c)'
  <2>1. CASE c = b
    <3>1. batchStatus'[b] = u /\ approvalStatus' = approvalStatus /\ quote'[b] = quote[b]
      BY <1>9 DEF TypeOK, quoteVars, lineVars
    <3> QED BY <1>9, <2>1, <3>1, WrittenSound
  <2>2. CASE c # b
    <3>1. \A p \in Payouts \ Lines(b) : status'[p] = status[p]
      BY <1>9 DEF TypeOK, SetAll, Approved
    <3>2. batchStatus'[c] = batchStatus[c]
      BY <1>9, <2>2 DEF TypeOK
    <3> QED BY <1>2, <1>9, <2>2, <3>1, <3>2 DEF quoteVars, lineVars
  <2> QED BY <2>1, <2>2
<1>10. ASSUME NEW b \in Batches, NEW u \in {"approved", "failed"}, ApproveBatch(b, u)
      PROVE  StatusSound(c)'
  <2>1. quote[b] # "none" /\ Approved(b) # {}
    BY <1>10 DEF ApproveBatch, QuoteMatchesApproved, QuoteMatches
  <2>2. u \in StatusesUnder(u)
    BY DEF StatusesUnder, PayoutStatuses
  <2> QED BY <1>9, <1>10, <2>1, <2>2 DEF ApproveBatch
<1>11. ASSUME NEW b \in Batches, RequestInstruction(b)
      PROVE  StatusSound(c)'
  BY <1>1, <1>11 DEF RequestInstruction, quoteVars, lineVars
<1>12. ASSUME NEW b \in Batches, NEW u \in {"awaiting_funding", "funded"},
              batchStatus' = [batchStatus EXCEPT ![b] = u],
              status' = SetAll(status, Fundable(b), u),
              UNCHANGED <<quoteVars, lineVars>>
      PROVE  StatusSound(c)'
  <2>1. u \in StatusesUnder(u) /\ {"paid", "failed", "in_review"} \subseteq StatusesUnder(u)
    BY DEF StatusesUnder
  <2>2. \A p \in Approved(b) \ Fundable(b) : status[p] \in {"paid", "failed", "in_review"}
    BY DEF Fundable
  <2>3. \A p \in Approved(b) \ Fundable(b) : status[p] \in StatusesUnder(u)
    BY <2>1, <2>2
  <2>4. Fundable(b) \subseteq Approved(b) /\ u # "approved" /\ u # "failed"
    BY ApprovedExist
  <2>5. u \in {"approved", "failed", "awaiting_funding", "funded"}
    OBVIOUS
  <2> QED BY <1>9, <1>12, <2>1, <2>3, <2>4, <2>5
<1>13. ASSUME NEW b \in Batches, AwaitFunding(b) \/ ApplyFunded(b)
      PROVE  StatusSound(c)'
  BY <1>12, <1>13 DEF AwaitFunding, ApplyFunded
<1>14. ASSUME NEW b \in Batches, AutoDispatch(b)
      PROVE  StatusSound(c)'
  <2> DEFINE st == SetAll(status, Fundable(b), "funded")
             S == LoopReach(b, Fundable(b))
  <2>1. S \in SUBSET Approved(b)
    BY ApprovedExist DEF LoopReach
  <2>2. \A p \in Payouts \ Lines(b) : st[p] = status[p]
    BY DEF TypeOK, SetAll, Fundable, Approved
  <2>3. Dispatch(b, S, st) /\ UNCHANGED <<quoteVars, lineVars>>
    BY <1>14 DEF AutoDispatch
  <2> HIDE DEF st, S
  <2> QED BY <1>3, <2>1, <2>2, <2>3
<1>15. ASSUME NEW b \in Batches, SendApprovedPayouts(b)
      PROVE  StatusSound(c)'
  <2> DEFINE S == LoopReach(b, Payable(b))
  <2>1. S \in SUBSET Approved(b)
    BY ApprovedExist DEF LoopReach
  <2>2. Dispatch(b, S, status) /\ UNCHANGED <<quoteVars, lineVars>>
    BY <1>15 DEF SendApprovedPayouts
  <2> HIDE DEF S
  <2> QED BY <1>3, <2>1, <2>2
<1>16. ASSUME NEW p \in Payouts, DispatchPayout(p)
      PROVE  StatusSound(c)'
  <2>1. BatchOf[p] \in Batches /\ {p} \in SUBSET Approved(BatchOf[p])
    BY <1>16, Links, ApprovedExist DEF DispatchPayout
  <2>2. Dispatch(BatchOf[p], {p}, status) /\ UNCHANGED <<quoteVars, lineVars>>
    BY <1>16 DEF DispatchPayout
  <2> QED BY <1>3, <2>1, <2>2
<1>17. ASSUME NEW p \in Payouts, ResolveComplianceCase(p)
      PROVE  StatusSound(c)'
  BY <1>4, <1>17 DEF ResolveComplianceCase, PayoutStatuses
<1>18. ASSUME NEW e \in Events, NEW p \in Payouts, NEW s \in {"paid", "failed"},
              RecordPartnerWebhook(e, p, s)
      PROVE  StatusSound(c)'
  BY <1>4, <1>18 DEF RecordPartnerWebhook, PayoutStatuses
<1>19. ASSUME NEW n \in Beneficiaries, NEW v \in {"valid", "invalid"},
             CreateBeneficiary(n, v) \/ UpdateBeneficiary(n, v)
      PROVE  StatusSound(c)'
  BY <1>1, <1>19 DEF CreateBeneficiary, UpdateBeneficiary, SetBeneficiary, quoteVars, lineVars
<1>20. CASE UNCHANGED vars
  BY <1>1, <1>20 DEF vars, quoteVars, lineVars
<1> QED
  BY <1>5, <1>6, <1>7, <1>8, <1>10, <1>11, <1>13, <1>14, <1>15, <1>16, <1>17, <1>18, <1>19, <1>20
     DEF Next, Calls

\* The status of every project is true of its payouts, after any calls.
THEOREM StatusIntegrity == Spec => []BatchStatusSound
<1> DEFINE IInv == TypeOK /\ QuoteMatchesApproved /\ BatchStatusSound
<1>1. Init => IInv
  BY InitTypeOK, InitQuote, InitStatus
<1>2. IInv /\ [Next]_vars => IInv'
  BY NextTypeOK, NextQuote, NextStatus
<1>3. IInv => BatchStatusSound
  OBVIOUS
<1> HIDE DEF IInv
<1> QED BY <1>1, <1>2, <1>3, PTL DEF Spec

-------------------------------------------------------------------------------
\* Where each payout stands with the compliance reviewers and the partner.
PayoutsAccountedFor == InReviewHasOpenCase /\ PaidHasReason

\* A loop over dispatchPayout opens a case for what it holds and books
\* what it hands over.
LEMMA DispatchAccountedFor ==
    ASSUME TypeOK, PayoutsAccountedFor, NEW b, NEW STATE S, NEW STATE st,
           \A p \in Payouts : st[p] \in {"in_review", "paid"} => st[p] = status[p],
           Dispatch(b, S, st)
    PROVE  PayoutsAccountedFor'
<1> SUFFICES ASSUME NEW p \in Payouts
             PROVE  /\ status'[p] = "in_review" => openCases'[p] > 0
                    /\ status'[p] = "paid" => dispatches'[p] > 0 \/ Reported(p)'
  BY DEF PayoutsAccountedFor, InReviewHasOpenCase, PaidHasReason
<1> DEFINE held == {q \in S : NeedsReview(q)}
<1>1. /\ status'[p] = IF p \in held THEN "in_review" ELSE IF p \in S THEN Outcome(p) ELSE st[p]
      /\ openCases'[p] = IF p \in held THEN openCases[p] + 1 ELSE openCases[p]
      /\ dispatches'[p] = IF p \in S \ held THEN dispatches[p] + 1 ELSE dispatches[p]
  BY DEF Dispatch
<1>2. openCases[p] \in Nat /\ dispatches[p] \in Nat
  BY DEF TypeOK
<1>3. /\ status[p] = "in_review" => openCases[p] > 0
      /\ status[p] = "paid" => dispatches[p] > 0 \/ Reported(p)
      /\ Reported(p)' <=> Reported(p)
  BY DEF PayoutsAccountedFor, InReviewHasOpenCase, PaidHasReason, Dispatch, Reported
<1>4. CASE p \in held
  BY <1>1, <1>2, <1>4
<1>5. CASE p \in S \ held
  BY <1>1, <1>2, <1>5 DEF Outcome
<1>6. CASE p \notin S
  BY <1>1, <1>2, <1>3, <1>6
<1> QED BY <1>4, <1>5, <1>6

\* A status other than "in_review" and "paid" asks for nothing.
LEMMA SetAllAccountedFor ==
    ASSUME TypeOK, NEW S, NEW v, v \notin {"in_review", "paid"}
    PROVE  \A p \in Payouts :
              SetAll(status, S, v)[p] \in {"in_review", "paid"} => SetAll(status, S, v)[p] = status[p]
BY DEF TypeOK, SetAll

\* The inductive step of NothingStranded, method by method.
LEMMA NextAccountedFor == TypeOK /\ PayoutsAccountedFor /\ [Next]_vars => PayoutsAccountedFor'
<1> SUFFICES ASSUME TypeOK, PayoutsAccountedFor, [Next]_vars PROVE PayoutsAccountedFor'
  OBVIOUS
<1>1. ASSUME UNCHANGED <<openCases, dispatches, webhookEvents>>,
             \A p \in Payouts : status'[p] \in {"in_review", "paid"} => status'[p] = status[p]
      PROVE  PayoutsAccountedFor'
  BY <1>1 DEF PayoutsAccountedFor, InReviewHasOpenCase, PaidHasReason, Reported
<1>2. ASSUME NEW b \in Batches, NEW S \in SUBSET Lines(b), NEW amounts \in [S -> Amounts],
             CreateBatch(b, amounts)
      PROVE  PayoutsAccountedFor'
  BY <1>1, <1>2 DEF CreateBatch, DraftStatus, cardVars
<1>3. ASSUME NEW p \in Payouts, NEW a \in Amounts \cup {NoChange},
             NEW v \in Approvals, UpdatePayout(p, a, v)
      PROVE  PayoutsAccountedFor'
  <2>1. \A q \in Payouts : status'[q] \in {"in_review", "paid"} => status'[q] = status[q]
    BY <1>3 DEF TypeOK, UpdatePayout, DraftStatus
  <2> QED BY <1>1, <1>3, <2>1 DEF UpdatePayout, cardVars
<1>4. ASSUME NEW b \in Batches, CreateQuote(b)
      PROVE  PayoutsAccountedFor'
  BY <1>1, <1>4 DEF CreateQuote, DraftStatus, cardVars
<1>5. ASSUME NEW b \in Batches,
             \/ ExpireQuote(b) \/ RequestInstruction(b) \/ AwaitFunding(b) \/ ApplyFunded(b)
             \/ \E v \in {"approved", "failed"} : ApproveBatch(b, v)
      PROVE  PayoutsAccountedFor'
  BY <1>1, <1>5, SetAllAccountedFor
     DEF ExpireQuote, RequestInstruction, AwaitFunding, ApplyFunded, ApproveBatch, cardVars
<1>6. ASSUME NEW b \in Batches, AutoDispatch(b)
      PROVE  PayoutsAccountedFor'
  <2> DEFINE st == SetAll(status, Fundable(b), "funded")
  <2>1. \A p \in Payouts : st[p] \in {"in_review", "paid"} => st[p] = status[p]
    BY SetAllAccountedFor
  <2>2. Dispatch(b, LoopReach(b, Fundable(b)), st)
    BY <1>6 DEF AutoDispatch
  <2> HIDE DEF st
  <2> QED BY <2>1, <2>2, DispatchAccountedFor
<1>7. ASSUME NEW b \in Batches, SendApprovedPayouts(b)
      PROVE  PayoutsAccountedFor'
  <2>1. Dispatch(b, LoopReach(b, Payable(b)), status)
    BY <1>7 DEF SendApprovedPayouts
  <2> QED BY <2>1, DispatchAccountedFor
<1>8. ASSUME NEW p \in Payouts, DispatchPayout(p)
      PROVE  PayoutsAccountedFor'
  <2>1. Dispatch(BatchOf[p], {p}, status)
    BY <1>8 DEF DispatchPayout
  <2> QED BY <2>1, DispatchAccountedFor
<1>9. ASSUME NEW p \in Payouts, ResolveComplianceCase(p)
      PROVE  PayoutsAccountedFor'
  <2>1. /\ status' = [status EXCEPT ![p] = "funded"]
        /\ UNCHANGED <<dispatches, webhookEvents>>
    BY <1>9 DEF ResolveComplianceCase, Settle
  <2>2. \A q \in Payouts : q # p => openCases'[q] = openCases[q]
    BY <1>9 DEF TypeOK, ResolveComplianceCase
  <2> QED BY <2>1, <2>2 DEF TypeOK, PayoutsAccountedFor, InReviewHasOpenCase, PaidHasReason, Reported
<1>10. ASSUME NEW e \in Events, NEW p \in Payouts, NEW s \in {"paid", "failed"},
              RecordPartnerWebhook(e, p, s)
      PROVE  PayoutsAccountedFor'
  <2> DEFINE report == [event |-> e, payout |-> p]
  <2>1. status' = [status EXCEPT ![p] = s] /\ webhookEvents' = webhookEvents \cup {report}
    BY <1>10 DEF RecordPartnerWebhook, Settle
  <2>2. UNCHANGED <<openCases, dispatches>>
    BY <1>10 DEF RecordPartnerWebhook
  <2>3. \A q \in Payouts : Reported(q) => Reported(q)'
    BY <2>1 DEF Reported
  <2>4. Reported(p)'
    <3>1. report \in webhookEvents' /\ report.payout = p
      BY <2>1
    <3> HIDE DEF report
    <3> QED BY <3>1 DEF Reported
  <2> HIDE DEF report
  <2> QED BY <2>1, <2>2, <2>3, <2>4 DEF TypeOK, PayoutsAccountedFor, InReviewHasOpenCase, PaidHasReason
<1>11. ASSUME NEW n \in Beneficiaries, NEW v \in {"valid", "invalid"},
             CreateBeneficiary(n, v) \/ UpdateBeneficiary(n, v)
      PROVE  PayoutsAccountedFor'
  BY <1>1, <1>11 DEF CreateBeneficiary, UpdateBeneficiary, SetBeneficiary, cardVars
<1>12. CASE UNCHANGED vars
  BY <1>1, <1>12 DEF vars, cardVars
<1> QED
  BY <1>2, <1>3, <1>4, <1>5, <1>6, <1>7, <1>8, <1>9, <1>10, <1>11, <1>12 DEF Next, Calls

\* A payout held for review always has a case that can release it, whatever
\* quotes, approvals, callbacks and resolved cases come in between; and one
\* shown as paid was handed over, or reported paid by the partner itself.
THEOREM NothingStranded == Spec => [](InReviewHasOpenCase /\ PaidHasReason)
<1>1. Init => PayoutsAccountedFor
  BY DEF Init, PayoutsAccountedFor, InReviewHasOpenCase, PaidHasReason
<1>2. TypeOK /\ PayoutsAccountedFor /\ [Next]_vars => (TypeOK /\ PayoutsAccountedFor)'
  BY NextTypeOK, NextAccountedFor
<1>3. PayoutsAccountedFor <=> InReviewHasOpenCase /\ PaidHasReason
  BY DEF PayoutsAccountedFor
<1> QED BY <1>1, <1>2, <1>3, InitTypeOK, PTL DEF Spec

-------------------------------------------------------------------------------
\* The fee is one and a half percent, to the nearest cent.
LEMMA FeeFacts ==
    ASSUME NEW amount \in Nat
    PROVE  /\ FeeCents(amount) \in Nat
           /\ 3 * amount =< 2 * FeeCents(amount)
           /\ 2 * FeeCents(amount) =< 3 * amount + 1
BY DEF FeeCents

\* The price is the amount with its fee at the rate, to the nearest cent.
LEMMA PriceFacts ==
    ASSUME NEW c \in Countries, NEW amount \in Nat
    PROVE  /\ FundingCents(c, amount) \in Nat
           /\ 2 * FxRateTimes20(c) * FundingCents(c, amount)
                 =< 40 * (100 * amount + FeeCents(amount)) + FxRateTimes20(c)
           /\ 40 * (100 * amount + FeeCents(amount))
                 < 2 * FxRateTimes20(c) * FundingCents(c, amount) + FxRateTimes20(c)
<1> DEFINE cost == 40 * (100 * amount + FeeCents(amount))
<1>1. cost \in Nat
  BY FeeFacts
<1>2. CASE c = "CO"
  <2>1. FundingCents(c, amount) = (cost + 82000) \div 164000 /\ FxRateTimes20(c) = 82000
    BY <1>2 DEF FundingCents, FxRateTimes20
  <2> HIDE DEF cost
  <2>2. /\ (cost + 82000) \div 164000 \in Nat
        /\ 164000 * ((cost + 82000) \div 164000) =< cost + 82000
        /\ cost < 164000 * ((cost + 82000) \div 164000) + 82000
    BY <1>1
  <2>3. /\ FundingCents(c, amount) \in Nat
        /\ 164000 * FundingCents(c, amount) =< cost + 82000
        /\ cost < 164000 * FundingCents(c, amount) + 82000
    BY <2>1, <2>2
  <2> QED BY <2>1, <2>3 DEF cost
<1>3. CASE c # "CO"
  <2>1. FundingCents(c, amount) = (cost + 344) \div 688 /\ FxRateTimes20(c) = 344
    BY <1>3 DEF FundingCents, FxRateTimes20
  <2> HIDE DEF cost
  <2>2. /\ (cost + 344) \div 688 \in Nat
        /\ 688 * ((cost + 344) \div 688) =< cost + 344
        /\ cost < 688 * ((cost + 344) \div 688) + 344
    BY <1>1
  <2>3. /\ FundingCents(c, amount) \in Nat
        /\ 688 * FundingCents(c, amount) =< cost + 344
        /\ cost < 688 * FundingCents(c, amount) + 344
    BY <2>1, <2>2
  <2> QED BY <2>1, <2>3 DEF cost
<1> QED BY <1>2, <1>3

\* Rounding twice, first the fee in local cents and then the price in cents of
\* USDC, never takes the price of quoteBatch a whole cent away from the exact
\* one, 101.5 % of the amount at the rate.
THEOREM PriceIsExact ==
    \A c \in Countries, amount \in Nat :
        LET cent  == 2 * FxRateTimes20(c)
            exact == 40 * 100 * amount + 20 * 3 * amount
        IN  /\ cent * FundingCents(c, amount) < exact + cent
            /\ exact < cent * FundingCents(c, amount) + cent
<1> SUFFICES ASSUME NEW c \in Countries, NEW amount \in Nat
             PROVE  LET cent  == 2 * FxRateTimes20(c)
                        exact == 40 * 100 * amount + 20 * 3 * amount
                    IN  /\ cent * FundingCents(c, amount) < exact + cent
                        /\ exact < cent * FundingCents(c, amount) + cent
  OBVIOUS
<1> DEFINE fee == FeeCents(amount)
           price == FundingCents(c, amount)
<1>1. fee \in Nat /\ 3 * amount =< 2 * fee /\ 2 * fee =< 3 * amount + 1
  BY FeeFacts
<1>2. /\ price \in Nat
      /\ 2 * FxRateTimes20(c) * price =< 40 * (100 * amount + fee) + FxRateTimes20(c)
      /\ 40 * (100 * amount + fee) < 2 * FxRateTimes20(c) * price + FxRateTimes20(c)
  BY PriceFacts
<1>3. FxRateTimes20(c) = 82000 \/ FxRateTimes20(c) = 344
  BY DEF FxRateTimes20
<1> HIDE DEF fee, price
<1>4. CASE FxRateTimes20(c) = 82000
  <2>1. /\ 164000 * price =< 40 * (100 * amount + fee) + 82000
        /\ 40 * (100 * amount + fee) < 164000 * price + 82000
    BY <1>2, <1>4
  <2>2. /\ 164000 * price < 40 * 100 * amount + 20 * 3 * amount + 164000
        /\ 40 * 100 * amount + 20 * 3 * amount < 164000 * price + 164000
    BY <1>1, <1>2, <2>1
  <2> QED BY <1>4, <2>2 DEF price
<1>5. CASE FxRateTimes20(c) = 344
  <2>1. /\ 688 * price =< 40 * (100 * amount + fee) + 344
        /\ 40 * (100 * amount + fee) < 688 * price + 344
    BY <1>2, <1>5
  <2>2. /\ 688 * price < 40 * 100 * amount + 20 * 3 * amount + 688
        /\ 40 * 100 * amount + 20 * 3 * amount < 688 * price + 688
    BY <1>1, <1>2, <2>1
  <2> QED BY <1>5, <2>2 DEF price
<1> QED BY <1>3, <1>4, <1>5

\* Whoever is paid more never costs less: rounding keeps the order, in every
\* currency.
THEOREM PriceGrows ==
    \A c \in Countries, low, high \in Nat :
        low =< high => FundingCents(c, low) =< FundingCents(c, high)
<1> SUFFICES ASSUME NEW c \in Countries, NEW low \in Nat, NEW high \in Nat, low =< high
             PROVE  FundingCents(c, low) =< FundingCents(c, high)
  OBVIOUS
<1>1. FeeCents(low) \in Nat /\ FeeCents(high) \in Nat /\ FeeCents(low) =< FeeCents(high)
  BY DEF FeeCents
<1>2. CASE c = "CO"
  BY <1>1, <1>2 DEF FundingCents, FxRateTimes20
<1>3. CASE c # "CO"
  BY <1>1, <1>3 DEF FundingCents, FxRateTimes20
<1> QED BY <1>2, <1>3

\* No payment within the limits of its corridor is rounded down to nothing.
THEOREM NothingIsFree ==
    \A c \in Countries, amount \in Nat :
        WithinLimits(c, amount) => FundingCents(c, amount) > 0
<1> SUFFICES ASSUME NEW c \in Countries, NEW amount \in Nat, WithinLimits(c, amount)
             PROVE  FundingCents(c, amount) > 0
  OBVIOUS
<1>1. amount >= 500 /\ (c = "CO" => amount >= 50000)
  BY DEF WithinLimits, Limits, Countries
<1>2. FeeCents(amount) \in Nat
  BY FeeFacts
<1>3. CASE c = "CO"
  BY <1>1, <1>2, <1>3, PriceFacts DEF FxRateTimes20
<1>4. CASE c # "CO"
  BY <1>1, <1>2, <1>4, PriceFacts DEF FxRateTimes20
<1> QED BY <1>3, <1>4
===============================================================================
