---------------------------- MODULE ServiceProofs ----------------------------
(***************************************************************************)
(* The two specifications that are built on Funding: the gateway, which    *)
(* asks the chain for transfers, and the process, which runs the funding   *)
(* beside the projects.  Every step of either is a step of Funding or      *)
(* leaves it alone, so that what FundingProofs shows holds of both, for    *)
(* any number of workers, transfers, projects and payments; and the        *)
(* process, whatever fails and restarts, pays nobody unless the money of   *)
(* their project has arrived, and forgets no payment.                      *)
(***************************************************************************)
EXTENDS Gateway, Platform, FundingProofs

\* Signatures never disappear from the chain.
LEMMA SignaturesStay ==
    ASSUME Grows, NEW i \in Instructions,
           \A b \in Blanks : blankTo[b] # Nobody => blankTo'[b] = blankTo[b]
    PROVE  SentTo(i) \subseteq SentTo(i)' /\ Signatures(i) \subseteq Signatures(i)'
<1>1. i # Nobody
  BY NobodyAssumption
<1>2. SentTo(i) \subseteq SentTo(i)'
  BY <1>1 DEF SentTo, Grows
<1> QED BY <1>1, <1>2 DEF Signatures

\* A scan that a step does not touch stays sound.
LEMMA FetchStays ==
    ASSUME GatewayTypeOK, Grows, NEW w \in Workers,
           \A b \in Blanks : blankTo[b] # Nobody => blankTo'[b] = blankTo[b],
           fetch'[w] = fetch[w], job'[w] = job[w]
    PROVE  FetchOK(w)'
<1> SUFFICES ASSUME Fetching(w) PROVE FetchOK(w)'
  BY DEF FetchOK, Fetching
<1>1. fetch[w] \in Fetches /\ FetchOK(w)
  BY DEF GatewayTypeOK
<1>2. PICK i \in Instructions : i = fetch[w].instr /\ Exists(i)
  BY <1>1 DEF FetchOK, Fetches
<1>3. Exists(i)'
  BY <1>2 DEF Grows
<1>4. SentTo(i) \subseteq SentTo(i)' /\ Signatures(i) \subseteq Signatures(i)'
  BY <1>2, SignaturesStay
<1>5. /\ At(w, "idle")'
      /\ i # Nobody
      /\ fetch'[w].instr = i
      /\ fetch'[w].left \subseteq Signatures(i)
      /\ fetch'[w].found \subseteq SentTo(i)
  BY <1>1, <1>2 DEF FetchOK, At
<1>6. /\ fetch'[w].left \subseteq Signatures(i)'
      /\ fetch'[w].found \subseteq SentTo(i)'
  BY <1>4, <1>5
<1> QED BY <1>3, <1>5, <1>6 DEF FetchOK

\* A request of one worker is a step of Funding that leaves the others' jobs.
LEMMA RequestStep ==
    ASSUME TypeOK, NEW w \in Workers, Request(w)
    PROVE  /\ Next
           /\ \A v \in Workers \ {w} : job'[v] = job[v]
           /\ ~ Fetching(w) /\ UNCHANGED gatewayVars
<1>1. Next
  BY DEF Request, Next
<1>2. ASSUME NEW v \in Workers \ {w} PROVE job'[v] = job[v]
  <2>1. job \in [Workers -> Jobs]
    BY DEF TypeOK
  <2>2. CASE (\E b \in Batches : EnsureLook(w, b)) \/ RecordsManually(w)
    BY <2>1, <2>2 DEF EnsureLook, RecordsManually, RecordManual
  <2>3. CASE Proceed(w)
    <3>1. CASE \/ \E amount \in Totals : EnsureCheck(w, amount)
               \/ EnsureRefuse(w)
               \/ \E i \in Instructions : EnsureCreate(w, i)
               \/ EnsureMark(w)
      BY <2>1, <3>1 DEF EnsureCheck, EnsureRefuse, EnsureCreate, EnsureMark, GoTo, Stop
    <3>2. CASE Lookup(w) \/ ReadCredited(w)
      BY <2>1, <3>2 DEF Lookup, ReadCredited, TurnToNext, GoTo, Stop
    <3>3. CASE Insert(w) \/ PostReceived(w) \/ UpdateStatus(w)
      BY <2>1, <3>3 DEF Insert, PostReceived, UpdateStatus, TurnToNext, GoTo, Stop
    <3>5. CASE \E throws \in BOOLEAN : Apply(w, throws)
      BY <2>1, <3>5 DEF Apply, GoTo, Stop
    <3>4. CASE Notice(w) \/ PostReserved(w) \/ PostSurplus(w)
      BY <2>1, <3>4 DEF Notice, PostReserved, PostSurplus, TurnToNext, GoTo, Stop
    <3> QED BY <2>3, <3>1, <3>2, <3>3, <3>4, <3>5 DEF Proceed
  <2> QED BY <2>2, <2>3 DEF Request
<1> QED BY <1>1, <1>2 DEF Request

\* What a scan hands over is what Scan of Funding may find.
LEMMA HandOverStep ==
    ASSUME TypeOK, GatewayTypeOK, NEW w \in Workers, HandOver(w)
    PROVE  /\ Next \/ UNCHANGED vars
           /\ \A v \in Workers \ {w} : job'[v] = job[v]
<1>1. /\ fetch[w].instr \in Instructions
      /\ fetch[w].found \in SUBSET SentTo(fetch[w].instr)
  BY DEF HandOver, GatewayTypeOK, FetchOK, Fetches
<1>2. CASE ScanFound(w, fetch[w].instr, fetch[w].found)
  <2>1. Next
    BY <1>1, <1>2 DEF Next, Scan
  <2> QED BY <1>2, <2>1 DEF ScanFound, TypeOK
<1>3. CASE UNCHANGED vars
  BY <1>3 DEF vars
<1> QED BY <1>2, <1>3 DEF HandOver

\* Every step of Gateway is a step of Funding, or leaves Funding alone.
LEMMA GatewayStep ==
    ASSUME TypeOK, GatewayTypeOK, [GatewayNext]_allVars
    PROVE  [Next]_vars
<1>1. CASE \E i \in Instructions, d \in Deposits : Pay(d, i)
  BY <1>1 DEF Pay, Next
<1>2. CASE \E i \in Instructions, b \in Blanks : SendBlank(b, i)
  BY <1>2 DEF SendBlank
<1>3. CASE \E i \in Instructions, w \in Workers : Poll(w, i) \/ Rescan(w, i)
  BY <1>3 DEF Poll, Rescan, List
<1>4. ASSUME NEW w \in Workers, Fetch(w) PROVE [Next]_vars
  BY <1>4, HandOverStep DEF Fetch, LookUp
<1>5. CASE \E w \in Workers : FetchFails(w) \/ \E n \in Transactions : LookUpTooEarly(w, n)
  BY <1>5 DEF FetchFails, LookUpTooEarly
<1>6. CASE \E w \in Workers : Request(w)
  BY <1>6, RequestStep
<1>7. CASE (\E S \in SUBSET Wallets : UpdateWallets(S)) \/ \E b \in Batches : ResolveException(b)
  BY <1>7 DEF Next
<1>8. CASE UNCHANGED allVars
  BY <1>8 DEF allVars
<1> QED BY <1>1, <1>2, <1>3, <1>4, <1>5, <1>6, <1>7, <1>8 DEF GatewayNext

\* A scan that goes on stays with its instruction.
LEMMA FetchGoesOn ==
    ASSUME TypeOK, GatewayTypeOK, NEW w \in Workers, NEW n \in Transactions,
           LookUp(w, n) \/ LookUpTooEarly(w, n)
    PROVE  FetchOK(w)' /\ fetch' \in [Workers -> Fetches]
<1>1. fetch[w] \in Fetches /\ FetchOK(w) /\ fetch[w].left # {}
  BY DEF GatewayTypeOK, LookUp, LookUpTooEarly, IsNext
<1>2. Fetching(w)
  BY <1>1 DEF Fetching, NoFetch
<1>3. PICK i \in Instructions : i = fetch[w].instr
  BY <1>1, <1>2 DEF FetchOK, Fetches
<1>4. PICK found \in SUBSET SentTo(i) :
         fetch' = [fetch EXCEPT ![w].left = @ \ {n}, ![w].found = found]
  <2>1. fetch[w].left \subseteq Signatures(i) /\ fetch[w].found \subseteq SentTo(i)
        /\ n \in fetch[w].left
    BY <1>1, <1>2, <1>3 DEF FetchOK, LookUp, LookUpTooEarly, IsNext
  <2>2. CASE LookUp(w, n)
    <3> DEFINE now == IF IsTransfer(n) THEN fetch[w].found \cup {n} ELSE fetch[w].found
    <3>1. now \in SUBSET SentTo(i)
      BY <2>1, BlanksAssumption DEF IsTransfer, Signatures, SentTo
    <3>2. fetch' = [fetch EXCEPT ![w].left = @ \ {n}, ![w].found = now]
      BY <2>2 DEF LookUp
    <3> QED BY <3>1, <3>2
  <2>3. CASE LookUpTooEarly(w, n)
    <3>1. fetch' = [fetch EXCEPT ![w].left = @ \ {n}, ![w].found = fetch[w].found]
      BY <1>1, <2>3 DEF LookUpTooEarly, GatewayTypeOK, Fetches
    <3> QED BY <2>1, <3>1
  <2> QED BY <2>2, <2>3
<1>5. UNCHANGED <<vars, blankTo>>
  BY DEF LookUp, LookUpTooEarly
<1>6. /\ fetch'[w].left = fetch[w].left \ {n} /\ fetch'[w].found = found
      /\ fetch'[w].instr = i
      /\ fetch' \in [Workers -> Fetches]
  BY <1>1, <1>3, <1>4 DEF GatewayTypeOK, Fetches, SentTo
<1>7. /\ At(w, "idle")' /\ i # Nobody /\ Exists(i)'
      /\ fetch'[w].left \subseteq Signatures(i)' /\ fetch'[w].found \subseteq SentTo(i)'
  BY <1>1, <1>2, <1>3, <1>5, <1>6 DEF FetchOK, vars, instrVars, worldVars, At, Exists, Signatures, SentTo
<1> QED BY <1>6, <1>7 DEF FetchOK

\* A scan starts with signatures of its instruction.
LEMMA ListStarts ==
    ASSUME TypeOK, GatewayTypeOK, NEW w \in Workers, NEW i \in Instructions,
           Poll(w, i) \/ Rescan(w, i)
    PROVE  /\ FetchOK(w)' /\ fetch' \in [Workers -> Fetches]
           /\ \A v \in Workers \ {w} : fetch'[v] = fetch[v]
           /\ UNCHANGED <<vars, blankTo, faults>>
<1>1. PICK asked \in BOOLEAN : List(w, i, asked)
  BY Zenon DEF Poll, Rescan
<1>2. Exists(i) /\ At(w, "idle") /\ i # Nobody
  BY <1>1, NobodyAssumption DEF Poll, Rescan, Open, List, Free
<1> DEFINE r == [instr |-> i, asked |-> asked, left |-> Listed(i), found |-> {}]
<1>3. r \in Fetches /\ fetch' = [fetch EXCEPT ![w] = r]
  BY <1>1 DEF List, Fetches, Listed, Signatures, SentTo
<1>4. r.left \subseteq Signatures(i) /\ r.found = {} /\ r.instr = i
  BY DEF Listed
<1> HIDE DEF r
<1>5. /\ fetch'[w] = r /\ fetch' \in [Workers -> Fetches]
      /\ \A v \in Workers \ {w} : fetch'[v] = fetch[v]
  BY <1>3 DEF GatewayTypeOK
<1>6. UNCHANGED <<vars, blankTo, faults>>
  BY <1>1 DEF List
<1>7. FetchOK(w)'
  BY <1>2, <1>4, <1>5, <1>6
     DEF FetchOK, vars, instrVars, worldVars, At, Exists, Signatures, SentTo
<1> QED BY <1>5, <1>6, <1>7

\* A scan that is over is sound.
LEMMA FetchEnds ==
    ASSUME GatewayTypeOK, NEW w \in Workers, fetch' = [fetch EXCEPT ![w] = NoFetch]
    PROVE  /\ FetchOK(w)' /\ fetch' \in [Workers -> Fetches]
           /\ \A v \in Workers \ {w} : fetch'[v] = fetch[v]
BY DEF GatewayTypeOK, FetchOK, Fetching, NoFetch, Fetches

\* Scans in the gateway stay sound, one case for each action.
LEMMA GatewayKeeps ==
    ASSUME TypeOK, GatewayTypeOK, [GatewayNext]_allVars
    PROVE  GatewayTypeOK'
<1>1. Grows
  BY GatewayStep, NextTypeOK, NextCases
<1>2. CASE \E i \in Instructions, d \in Deposits : Pay(d, i)
  BY <1>1, <1>2, FetchStays DEF Pay, Send, GatewayTypeOK, gatewayVars
<1>3. ASSUME NEW i \in Instructions, NEW b \in Blanks, SendBlank(b, i)
      PROVE  GatewayTypeOK'
  <2>1. /\ blankTo' \in [Blanks -> Instructions \cup {Nobody}]
        /\ \A c \in Blanks : blankTo[c] # Nobody => blankTo'[c] = blankTo[c]
        /\ UNCHANGED <<job, fetch, faults>>
    BY <1>3 DEF SendBlank, GatewayTypeOK, vars
  <2> QED BY <1>1, <2>1, FetchStays DEF GatewayTypeOK
<1>4. ASSUME NEW i \in Instructions, NEW w \in Workers, Poll(w, i) \/ Rescan(w, i)
      PROVE  GatewayTypeOK'
  <2>1. /\ FetchOK(w)' /\ fetch' \in [Workers -> Fetches]
        /\ \A v \in Workers \ {w} : fetch'[v] = fetch[v]
        /\ UNCHANGED <<vars, blankTo, faults>>
    BY <1>4, ListStarts
  <2>2. \A v \in Workers \ {w} : FetchOK(v)'
    BY <1>1, <2>1, FetchStays DEF vars
  <2> QED BY <2>1, <2>2 DEF GatewayTypeOK
<1>5. ASSUME NEW w \in Workers, NEW n \in Transactions, LookUp(w, n) \/ LookUpTooEarly(w, n)
      PROVE  GatewayTypeOK'
  <2>1. FetchOK(w)' /\ fetch' \in [Workers -> Fetches]
    BY <1>5, FetchGoesOn
  <2>2. /\ UNCHANGED <<job, blankTo>>
        /\ \A v \in Workers \ {w} : fetch'[v] = fetch[v]
    BY <1>5 DEF LookUp, LookUpTooEarly, vars, GatewayTypeOK
  <2>3. \A v \in Workers \ {w} : FetchOK(v)'
    BY <1>1, <2>2, FetchStays
  <2>4. faults' \in 0..MaxFaults
    BY <1>5, FaultsAssumption DEF LookUp, LookUpTooEarly, GatewayTypeOK
  <2> QED BY <2>1, <2>2, <2>3, <2>4 DEF GatewayTypeOK
<1>6. ASSUME NEW w \in Workers, HandOver(w) \/ FetchFails(w)
      PROVE  GatewayTypeOK'
  <2>1. /\ fetch' = [fetch EXCEPT ![w] = NoFetch] /\ blankTo' = blankTo
        /\ faults' \in 0..MaxFaults
    BY <1>6, FaultsAssumption DEF HandOver, FetchFails, GatewayTypeOK
  <2>2. \A v \in Workers \ {w} : job'[v] = job[v]
    BY <1>6, HandOverStep DEF FetchFails, vars
  <2>3. /\ FetchOK(w)' /\ fetch' \in [Workers -> Fetches]
        /\ \A v \in Workers \ {w} : fetch'[v] = fetch[v]
    BY <2>1, FetchEnds
  <2>4. \A v \in Workers \ {w} : FetchOK(v)'
    BY <1>1, <2>1, <2>2, <2>3, FetchStays
  <2> QED BY <2>1, <2>3, <2>4 DEF GatewayTypeOK
<1>7. ASSUME NEW w \in Workers, Request(w)
      PROVE  GatewayTypeOK'
  <2>1. /\ \A v \in Workers \ {w} : job'[v] = job[v]
        /\ ~ Fetching(w) /\ UNCHANGED <<blankTo, fetch, faults>>
    BY <1>7, RequestStep DEF gatewayVars
  <2>2. \A v \in Workers \ {w} : FetchOK(v)'
    BY <1>1, <2>1, FetchStays
  <2>3. FetchOK(w)'
    BY <2>1 DEF FetchOK, Fetching
  <2> QED BY <2>1, <2>2, <2>3 DEF GatewayTypeOK
<1>8. CASE /\ \/ \E S \in SUBSET Wallets : UpdateWallets(S)
              \/ \E b \in Batches : ResolveException(b)
           /\ UNCHANGED gatewayVars
  BY <1>1, <1>8, FetchStays DEF UpdateWallets, ResolveException, GatewayTypeOK, gatewayVars
<1>9. CASE UNCHANGED allVars
  BY <1>1, <1>9, FetchStays DEF allVars, vars, gatewayVars, GatewayTypeOK
<1> QED BY <1>2, <1>3, <1>4, <1>5, <1>6, <1>7, <1>8, <1>9 DEF GatewayNext, Fetch

\* An initial state of Gateway is one of Funding, and no scan is under way.
LEMMA GatewayInitOK == GatewayInit => TypeOK /\ GatewayTypeOK
<1> SUFFICES ASSUME GatewayInit PROVE GatewayTypeOK
  BY InitTypeOK DEF GatewayInit
<1>1. NoFetch \in Fetches
  BY DEF NoFetch, Fetches
<1> QED BY <1>1, FaultsAssumption DEF GatewayInit, GatewayTypeOK, FetchOK, Fetching

\* A scan of SolanaFundingGateway never mixes up transactions of different
\* references, nor takes one that paid nothing for a transfer, whatever fails.
THEOREM GatewayTyping == GatewaySpec => [](TypeOK /\ GatewayTypeOK)
<1>1. TypeOK /\ GatewayTypeOK /\ [GatewayNext]_allVars => (TypeOK /\ GatewayTypeOK)'
  BY GatewayStep, GatewayKeeps, NextTypeOK, NextCases
<1> QED BY <1>1, GatewayInitOK, PTL DEF GatewaySpec

\* Scans that ask the chain call by call, see a window of it, fail and try
\* again do what Funding allows a scan: the gateway implements its Scan.
THEOREM GatewayImplementsFunding == GatewaySpec => Spec
<1>1. TypeOK /\ GatewayTypeOK /\ [GatewayNext]_allVars => [Next]_vars
  BY GatewayStep
<1>2. GatewayInit => Init
  BY DEF GatewayInit
<1> QED BY <1>1, <1>2, GatewayTyping, PTL DEF GatewaySpec, Spec

\* Behind the gateway, too, an instruction is reported as reconciled only
\* when all it asks for is credited (applyObservation).
THEOREM GatewayBacking == GatewaySpec => []ReconciledIsBacked
BY GatewayImplementsFunding, Backing, PTL

\* Nor does the gateway, listing the same signatures scan after scan, get a
\* transfer credited twice or the ledger ahead of the credit.
THEOREM GatewayBookkeeping == GatewaySpec => [](CreditedOnce /\ LedgerNotOverstated)
BY GatewayImplementsFunding, Crediting, Bookkeeping, PTL

\* A single worker that nothing interrupts leaves consistent records, however
\* many of its calls on the chain fail.
THEOREM GatewayAtRest ==
    ASSUME NEW w, Workers = {w}, ~ MayFail PROVE GatewaySpec => []AtRestConsistent
<1>1. Spec => []AtRestConsistent
  BY AtRest
<1> QED BY <1>1, GatewayImplementsFunding, PTL

-------------------------------------------------------------------------------
\* To the funding, every joint step is one of its own steps.

\* The wallets of the snapshot are wallets.
SavedWallets == saved.authorized \subseteq Wallets

\* A step of the platform is a step of Funding, or leaves it alone.
LEMMA PlatformStep ==
    ASSUME SavedWallets, [PlatformNext]_platformVars
    PROVE  [Step]_vars
<1>1. CASE UNCHANGED platformVars
  BY <1>1 DEF platformVars
<1>2. CASE CallProjects \/ (\E b \in Batches : PassTime(b)) \/ (\E p \in Payouts : ResolveCase(p))
  BY <1>2 DEF CallProjects, PassTime, ResolveCase
<1>3. ASSUME NEW S \in SUBSET Wallets, UpdateCompany(S) PROVE Step
  BY <1>3 DEF UpdateCompany, Step
<1>4. CASE Deposit \/ CloseCase
  BY <1>4 DEF Deposit, CloseCase, Step
<1>5. ASSUME NEW w \in Workers, NEW b \in Batches, Check(w, b) PROVE Step
  <2>1. Starts(w)
    BY <1>5 DEF Check, Starts
  <2> QED BY <2>1 DEF Step
<1>6. ASSUME NEW w \in Workers, Refuse(w) \/ Mark(w) PROVE Step
  <2>1. Starts(w)
    BY <1>6 DEF Refuse, Mark, Starts
  <2> QED BY <2>1 DEF Step
<1>7. ASSUME NEW w \in Workers, Tell(w) PROVE Step
  <2>1. Apply(w, TRUE) \/ Apply(w, FALSE)
    <3>1. CASE TellPartial(w) \/ TellFunded(w)
      BY <3>1 DEF TellPartial, TellFunded
    <3>2. CASE TellAndDispatch(w)
      <4> DEFINE payable == P!Fundable(batchOf[Instr(w)])
                 throws == P!LoopReach(batchOf[Instr(w)], payable) # payable
      <4>1. Apply(w, throws) /\ throws \in BOOLEAN
        BY <3>2 DEF TellAndDispatch
      <4> HIDE DEF throws
      <4>2. CASE throws = TRUE
        BY <4>1, <4>2
      <4>3. CASE throws = FALSE
        BY <4>1, <4>3
      <4> QED BY <4>1, <4>2, <4>3
    <3> QED BY <1>7, <3>1, <3>2 DEF Tell
  <2>2. Applies(w)
    BY <2>1 DEF Applies
  <2> QED BY <2>2 DEF Step
<1>8. ASSUME NEW w \in Workers, Work(w) PROVE Step
  <2>1. (\E i \in Instructions : EnsureCreate(w, i)) \/ Starts(w) \/ Applies(w)
    BY <1>8 DEF Work, Starts, Applies
  <2> QED BY <2>1 DEF Step
<1>9. CASE Reload
  <2>1. Restart(saved.authorized) /\ saved.authorized \in SUBSET Wallets
    BY <1>9 DEF Reload, SavedWallets
  <2> QED BY <2>1 DEF Step
<1>10. CASE StartOver
  BY <1>10, TrustedAssumption DEF StartOver, Step
<1> QED BY <1>1, <1>2, <1>3, <1>4, <1>5, <1>6, <1>7, <1>8, <1>9, <1>10 DEF PlatformNext, Turn

-------------------------------------------------------------------------------
\* To the projects: which steps may make a payment owe its funding, and what
\* no step forgets.

Stages == P!PayoutStatuses \cup {"none"}
ProjectStages == P!BatchStatuses \cup {"none"}

\* The callbacks ev report on payment p.
Told(p, ev) == \E report \in ev : report.payout = p

\* A payment that is held, ready, or paid by our own doing, or once was.
Owes(p, st, cases, rev, ev, disp) ==
    \/ st[p] \in {"funded", "in_review"}
    \/ st[p] = "paid" /\ ~ Told(p, ev)
    \/ cases[p] > 0 \/ p \in rev \/ disp[p] > 0

\* The shape of what is known of the projects and payments.
Shaped(bs, st, cases, disp) ==
    /\ bs \in [Batches -> ProjectStages]
    /\ st \in [Payouts -> Stages] /\ cases \in [Payouts -> Nat] /\ disp \in [Payouts -> Nat]

ShapedNow == Shaped(batchStatus, status, openCases, dispatches)

\* What a step does to payment p: it owes nothing new ...
NothingNew(p) ==
    Owes(p, status', openCases', reviewed', webhookEvents', dispatches')
        => Owes(p, status, openCases, reviewed, webhookEvents, dispatches)

\* ... what is known of it is remembered ...
Remembers(p) ==
    /\ dispatches'[p] >= dispatches[p]
    /\ openCases[p] > 0 => openCases'[p] > 0 \/ p \in reviewed'
    /\ P!Reported(p) => P!Reported(p)'

\* ... and it is left alone while its project does not exist, which a project
\* never ceases to do.
LeftAlone(p) ==
    batchStatus'[BatchOf[p]] = "none" =>
        /\ batchStatus[BatchOf[p]] = "none"
        /\ status'[p] = status[p] /\ openCases'[p] = openCases[p]
        /\ dispatches'[p] = dispatches[p]
        /\ p \in reviewed' => p \in reviewed
        /\ Told(p, webhookEvents') => Told(p, webhookEvents)

Lasting == \A p \in Payouts : Remembers(p) /\ LeftAlone(p)

\* The cards of a payment are its cases and its dispatches.
SameCards == UNCHANGED <<openCases, reviewed, webhookEvents, dispatches>>

\* A step that only writes the statuses of project b and of its payments.
LEMMA WritesProject ==
    ASSUME ShapedNow, NEW b, NEW s \in P!BatchStatuses,
           batchStatus' = [batchStatus EXCEPT ![b] = s],
           status' \in [Payouts -> Stages],
           \A p \in Payouts : BatchOf[p] # b => status'[p] = status[p],
           SameCards
    PROVE  ShapedNow' /\ Lasting
<1>1. \A p \in Payouts : BatchOf[p] \in Batches
  BY BatchOfAssumption
<1>2. s # "none"
  BY DEF P!BatchStatuses
<1>3. ShapedNow'
  BY DEF ShapedNow, Shaped, SameCards, ProjectStages
<1>4. ASSUME NEW p \in Payouts PROVE Remembers(p) /\ LeftAlone(p)
  <2>1. dispatches[p] \in Nat
    BY DEF ShapedNow, Shaped
  <2>2. Remembers(p)
    BY <2>1 DEF Remembers, SameCards, P!Reported
  <2>3. CASE BatchOf[p] = b
    BY <1>1, <1>2, <2>2, <2>3 DEF LeftAlone, ShapedNow, Shaped
  <2>4. CASE BatchOf[p] # b
    BY <1>1, <2>2, <2>4 DEF LeftAlone, ShapedNow, Shaped, SameCards
  <2> QED BY <2>3, <2>4
<1> QED BY <1>3, <1>4 DEF Lasting

\* A step that leaves all of that alone.
LEMMA WritesNothing ==
    ASSUME ShapedNow, UNCHANGED <<batchStatus, status>>, SameCards
    PROVE  ShapedNow' /\ Lasting /\ \A p \in Payouts : NothingNew(p)
<1>1. \A p \in Payouts : dispatches[p] \in Nat
  BY DEF ShapedNow, Shaped
<1> QED BY <1>1 DEF ShapedNow, Lasting, Remembers, LeftAlone, NothingNew, SameCards, P!Reported

\* A summary is a status of a project.
LEMMA SummaryIsStatus == \A S, st : P!ResolvedStatus(S, st) \in P!BatchStatuses
BY DEF P!ResolvedStatus, P!BatchStatuses

\* Payments dispatched by Dispatch are of project b, and the others keep the
\* statuses st.
LEMMA DispatchOwes ==
    ASSUME ShapedNow, NEW b, NEW S \in SUBSET Payouts, NEW st \in [Payouts -> Stages],
           \A p \in S : BatchOf[p] = b,
           \A p \in Payouts : BatchOf[p] # b => st[p] = status[p],
           P!Dispatch(b, S, st)
    PROVE  /\ ShapedNow' /\ Lasting
           /\ \A p \in Payouts \ S : status'[p] = st[p] /\ openCases'[p] = openCases[p]
                                      /\ dispatches'[p] = dispatches[p]
           /\ UNCHANGED <<reviewed, webhookEvents>>
<1>1. \A p \in Payouts : P!Outcome(p) \in Stages
  BY DEF P!Outcome, Stages, P!PayoutStatuses
<1>2. "in_review" \in Stages
  BY DEF Stages, P!PayoutStatuses
<1> DEFINE held == {p \in S : P!NeedsReview(p)}
           new == [p \in Payouts |-> IF p \in held THEN "in_review"
                                     ELSE IF p \in S THEN P!Outcome(p) ELSE st[p]]
           s == P!ResolvedStatus(P!Approved(b), new)
<1>3. /\ status' = new
      /\ openCases' = [p \in Payouts |-> IF p \in held THEN openCases[p] + 1 ELSE openCases[p]]
      /\ dispatches' = [p \in Payouts |->
                          IF p \in S \ held THEN dispatches[p] + 1 ELSE dispatches[p]]
      /\ UNCHANGED <<reviewed, webhookEvents>>
      /\ batchStatus' = [batchStatus EXCEPT ![b] = s]
  BY DEF P!Dispatch
<1>4. held \subseteq S
  OBVIOUS
<1>5. s \in P!BatchStatuses /\ s # "none" /\ s \in ProjectStages
  BY SummaryIsStatus DEF P!BatchStatuses, ProjectStages
<1> HIDE DEF held, s
<1>6. new \in [Payouts -> Stages] /\ \A p \in Payouts \ S : new[p] = st[p]
  BY <1>1, <1>2, <1>4
<1>7. /\ openCases' \in [Payouts -> Nat] /\ \A p \in Payouts \ S : openCases'[p] = openCases[p]
      /\ \A p \in Payouts : openCases[p] > 0 => openCases'[p] > 0
  BY <1>3, <1>4 DEF ShapedNow, Shaped
<1>8. /\ dispatches' \in [Payouts -> Nat] /\ \A p \in Payouts \ S : dispatches'[p] = dispatches[p]
      /\ \A p \in Payouts : dispatches'[p] >= dispatches[p]
  BY <1>3, <1>4 DEF ShapedNow, Shaped
<1> HIDE DEF new
<1>9. batchStatus' \in [Batches -> ProjectStages]
  BY <1>3, <1>5 DEF ShapedNow, Shaped
<1>10. ShapedNow'
  BY <1>3, <1>6, <1>7, <1>8, <1>9 DEF ShapedNow, Shaped
<1>11. ASSUME NEW p \in Payouts PROVE Remembers(p) /\ LeftAlone(p)
  <2>1. Remembers(p)
    BY <1>3, <1>7, <1>8 DEF Remembers, P!Reported
  <2>2. BatchOf[p] \in Batches
    BY BatchOfAssumption
  <2>3. CASE BatchOf[p] = b
    BY <1>3, <1>5, <2>1, <2>2, <2>3 DEF LeftAlone, ShapedNow, Shaped
  <2>4. CASE BatchOf[p] # b
    <3>1. p \notin S /\ batchStatus'[BatchOf[p]] = batchStatus[BatchOf[p]]
      BY <1>3, <2>2, <2>4 DEF ShapedNow, Shaped
    <3>2. status'[p] = status[p]
      BY <1>3, <1>6, <2>4, <3>1
    <3> QED BY <1>3, <1>7, <1>8, <2>1, <3>1, <3>2 DEF LeftAlone
  <2> QED BY <2>3, <2>4
<1> QED BY <1>3, <1>6, <1>7, <1>8, <1>10, <1>11 DEF Lasting

\* A method people or the partner call forgets nothing, and makes no payment
\* owe its funding that did not before.
LEMMA CallsOwe ==
    ASSUME ShapedNow, P!Calls \/ \E p \in Payouts : P!ResolveComplianceCase(p)
    PROVE  ShapedNow' /\ Lasting /\ \A p \in Payouts : NothingNew(p)
<1> USE DEF P!quoteVars, P!lineVars, P!cardVars
<1>1. ASSUME NEW b, NEW s \in P!BatchStatuses,
             batchStatus' = [batchStatus EXCEPT ![b] = s],
             status' \in [Payouts -> Stages],
             \A p \in Payouts : BatchOf[p] # b => status'[p] = status[p],
             \A p \in Payouts : status'[p] \in {"funded", "in_review", "paid"} =>
                 status'[p] = status[p],
             SameCards
      PROVE  ShapedNow' /\ Lasting /\ \A p \in Payouts : NothingNew(p)
  <2>1. ShapedNow' /\ Lasting
    BY <1>1, WritesProject
  <2>2. \A p \in Payouts : NothingNew(p)
    BY <1>1 DEF NothingNew, Owes, SameCards
  <2> QED BY <2>1, <2>2
<1>2. \A p, bad : P!DraftStatus(p, bad) \in {"draft", "validated"}
  BY DEF P!DraftStatus
<1>3. {"draft", "validated", "quoted", "approved", "failed"} \subseteq Stages
  BY DEF Stages, P!PayoutStatuses
<1>14. /\ {"awaiting_approval", "approved", "failed"} \subseteq P!BatchStatuses
       /\ \A S, bad : P!DraftBatchStatus(S, bad) \in P!BatchStatuses
  BY DEF P!DraftBatchStatus, P!BatchStatuses
<1>4. ASSUME NEW n, NEW verdict, P!CreateBeneficiary(n, verdict) \/ P!UpdateBeneficiary(n, verdict)
      PROVE  ShapedNow' /\ Lasting /\ \A p \in Payouts : NothingNew(p)
  <2>1. UNCHANGED <<batchStatus, status>> /\ SameCards
    BY <1>4 DEF P!CreateBeneficiary, P!UpdateBeneficiary, P!SetBeneficiary, SameCards
  <2> QED BY <2>1, WritesNothing
<1>5. ASSUME NEW b, NEW S \in SUBSET P!Lines(b), NEW amounts \in [S -> Amounts],
             P!CreateBatch(b, amounts)
      PROVE  ShapedNow' /\ Lasting /\ \A p \in Payouts : NothingNew(p)
  <2> DEFINE bad == {p \in S : P!HasErrors(p, amounts[p])}
  <2>1. /\ status' = [p \in Payouts |-> IF p \in S THEN P!DraftStatus(p, bad) ELSE status[p]]
        /\ batchStatus' = [batchStatus EXCEPT ![b] = P!DraftBatchStatus(S, bad)]
        /\ SameCards
    BY <1>5 DEF P!CreateBatch, SameCards
  <2> HIDE DEF bad
  <2>2. \A p \in Payouts : status'[p] = status[p] \/ status'[p] \in {"draft", "validated"}
    BY <1>2, <2>1
  <2>3. status' \in [Payouts -> Stages]
    BY <1>2, <1>3, <2>1 DEF ShapedNow, Shaped
  <2>4. \A p \in Payouts : BatchOf[p] # b => status'[p] = status[p]
    BY <2>1 DEF P!Lines
  <2> QED BY <1>1, <1>14, <2>1, <2>2, <2>3, <2>4
<1>6. ASSUME NEW p \in Payouts, NEW amount, NEW approval, P!UpdatePayout(p, amount, approval)
      PROVE  ShapedNow' /\ Lasting /\ \A q \in Payouts : NothingNew(q)
  <2>1. /\ \E s \in {"draft", "validated"} : status' = [status EXCEPT ![p] = s] \/ status' = status
        /\ \E s \in P!BatchStatuses : batchStatus' = [batchStatus EXCEPT ![BatchOf[p]] = s]
        /\ SameCards
    BY <1>2, <1>6, <1>14 DEF P!UpdatePayout, SameCards
  <2>2. \A q \in Payouts :
           \/ status'[q] = status[q]
           \/ BatchOf[q] = BatchOf[p] /\ status'[q] \in {"draft", "validated"}
    BY <2>1 DEF ShapedNow, Shaped
  <2>3. status' \in [Payouts -> Stages]
    BY <1>3, <2>1 DEF ShapedNow, Shaped
  <2> QED BY <1>1, <2>1, <2>2, <2>3
<1>7. ASSUME NEW b, P!CreateQuote(b)
      PROVE  ShapedNow' /\ Lasting /\ \A p \in Payouts : NothingNew(p)
  <2>1. /\ status' = [p \in Payouts |->
                IF p \in P!Approved(b) THEN "quoted"
                ELSE IF p \in P!PayoutsOf(b) THEN P!DraftStatus(p, invalid) ELSE status[p]]
        /\ batchStatus' = [batchStatus EXCEPT ![b] = "awaiting_approval"]
        /\ SameCards
    BY <1>7 DEF P!CreateQuote, SameCards
  <2>2. \A p \in Payouts :
            status'[p] = status[p] \/ status'[p] \in {"quoted", "draft", "validated"}
    BY <1>2, <2>1
  <2>3. status' \in [Payouts -> Stages]
    BY <1>2, <1>3, <2>1 DEF ShapedNow, Shaped
  <2>4. \A p \in Payouts : BatchOf[p] # b => status'[p] = status[p]
    BY <2>1 DEF P!Approved, P!PayoutsOf, P!Lines
  <2> QED BY <1>1, <1>14, <2>1, <2>2, <2>3, <2>4
<1>8. ASSUME NEW b, NEW outcome \in {"approved", "failed"}, P!ApproveBatch(b, outcome)
      PROVE  ShapedNow' /\ Lasting /\ \A p \in Payouts : NothingNew(p)
  <2>1. /\ status' = [p \in Payouts |-> IF p \in P!Approved(b) THEN outcome ELSE status[p]]
        /\ batchStatus' = [batchStatus EXCEPT ![b] = outcome]
        /\ SameCards
    BY <1>8 DEF P!ApproveBatch, P!SetAll, ShapedNow, Shaped, SameCards
  <2>2. \A p \in Payouts : status'[p] = status[p] \/ status'[p] \in {"approved", "failed"}
    BY <2>1
  <2>3. status' \in [Payouts -> Stages]
    BY <1>3, <2>1 DEF ShapedNow, Shaped
  <2>4. \A p \in Payouts : BatchOf[p] # b => status'[p] = status[p]
    BY <2>1 DEF P!Approved, P!Lines
  <2> QED BY <1>1, <1>14, <2>1, <2>2, <2>3, <2>4
<1>9. ASSUME NEW b, NEW S \in SUBSET P!Payable(b), P!Dispatch(b, S, status)
      PROVE  ShapedNow' /\ Lasting /\ \A p \in Payouts : NothingNew(p)
  <2>1. S \subseteq Payouts /\ \A p \in S : status[p] = "funded" /\ BatchOf[p] = b
    BY DEF P!Payable, P!Approved, P!Lines
  <2>2. status \in [Payouts -> Stages]
    BY DEF ShapedNow, Shaped
  <2>3. /\ ShapedNow' /\ Lasting
        /\ \A p \in Payouts \ S : status'[p] = status[p] /\ openCases'[p] = openCases[p]
                                  /\ dispatches'[p] = dispatches[p]
        /\ UNCHANGED <<reviewed, webhookEvents>>
    BY <1>9, <2>1, <2>2, DispatchOwes
  <2> QED BY <2>1, <2>3 DEF NothingNew, Owes
<1>10. ASSUME NEW p \in Payouts, P!DispatchPayout(p)
       PROVE  ShapedNow' /\ Lasting /\ \A q \in Payouts : NothingNew(q)
  BY <1>9, <1>10 DEF P!DispatchPayout
<1>11. ASSUME NEW b, P!SendApprovedPayouts(b)
       PROVE  ShapedNow' /\ Lasting /\ \A p \in Payouts : NothingNew(p)
  BY <1>9, <1>11 DEF P!SendApprovedPayouts, P!LoopReach
<1>15. ASSUME NEW p \in Payouts, NEW s \in Stages, P!Settle(p, s)
       PROVE  /\ status' = [status EXCEPT ![p] = s] /\ status' \in [Payouts -> Stages]
              /\ batchStatus' \in [Batches -> ProjectStages]
              /\ \A q \in Payouts : IF BatchOf[q] = BatchOf[p]
                                    THEN batchStatus'[BatchOf[q]] # "none"
                                    ELSE /\ q # p
                                         /\ batchStatus'[BatchOf[q]] = batchStatus[BatchOf[q]]
  <2>1. PICK t \in P!BatchStatuses : batchStatus' = [batchStatus EXCEPT ![BatchOf[p]] = t]
    BY <1>15, SummaryIsStatus DEF P!Settle
  <2>2. t # "none" /\ t \in ProjectStages
    BY DEF P!BatchStatuses, ProjectStages
  <2>3. \A q \in Payouts : BatchOf[q] \in Batches
    BY BatchOfAssumption
  <2>4. status' = [status EXCEPT ![p] = s] /\ status' \in [Payouts -> Stages]
    BY <1>15 DEF P!Settle, ShapedNow, Shaped
  <2> QED BY <2>1, <2>2, <2>3, <2>4 DEF ShapedNow, Shaped
<1>12. ASSUME NEW e, NEW p \in Payouts, NEW s \in {"paid", "failed"},
              P!RecordPartnerWebhook(e, p, s)
       PROVE  ShapedNow' /\ Lasting /\ \A q \in Payouts : NothingNew(q)
  <2>1. /\ webhookEvents' = webhookEvents \cup {[event |-> e, payout |-> p]}
        /\ UNCHANGED <<openCases, reviewed, dispatches>>
        /\ P!Settle(p, s)
    BY <1>12 DEF P!RecordPartnerWebhook
  <2>2. s \in Stages
    BY DEF Stages, P!PayoutStatuses
  <2>3. \A q \in Payouts : Told(q, webhookEvents') <=> Told(q, webhookEvents) \/ q = p
    <3> DEFINE new == [event |-> e, payout |-> p]
    <3>1. new.payout = p
      OBVIOUS
    <3>2. webhookEvents' = webhookEvents \cup {new}
      BY <2>1
    <3> HIDE DEF new
    <3> QED BY <3>1, <3>2 DEF Told
  <2>4. /\ status' = [status EXCEPT ![p] = s] /\ status' \in [Payouts -> Stages]
        /\ batchStatus' \in [Batches -> ProjectStages]
        /\ \A q \in Payouts : IF BatchOf[q] = BatchOf[p] THEN batchStatus'[BatchOf[q]] # "none"
                              ELSE q # p /\ batchStatus'[BatchOf[q]] = batchStatus[BatchOf[q]]
    BY <1>15, <2>1, <2>2
  <2>5. ShapedNow'
    BY <2>1, <2>4 DEF ShapedNow, Shaped
  <2>6. ASSUME NEW q \in Payouts PROVE Remembers(q) /\ LeftAlone(q) /\ NothingNew(q)
    <3>1. dispatches[q] \in Nat
      BY DEF ShapedNow, Shaped
    <3>2. Remembers(q)
      BY <2>1, <3>1 DEF Remembers, P!Reported
    <3>3. q # p => status'[q] = status[q]
      BY <2>4 DEF ShapedNow, Shaped
    <3>4. status'[p] = s
      BY <2>4 DEF ShapedNow, Shaped
    <3>5. LeftAlone(q)
      BY <2>1, <2>3, <2>4, <3>3 DEF LeftAlone
    <3>6. NothingNew(q)
      BY <2>1, <2>3, <3>3, <3>4 DEF NothingNew, Owes
    <3> QED BY <3>2, <3>5, <3>6
  <2> QED BY <2>5, <2>6 DEF Lasting
<1>13. ASSUME NEW p \in Payouts, P!ResolveComplianceCase(p)
       PROVE  ShapedNow' /\ Lasting /\ \A q \in Payouts : NothingNew(q)
  <2>1. /\ \/ openCases[p] > 0 /\ openCases' = [openCases EXCEPT ![p] = @ - 1]
           \/ p \in reviewed /\ openCases' = openCases
        /\ reviewed' = reviewed \cup {p}
        /\ P!Settle(p, "funded")
        /\ UNCHANGED <<webhookEvents, dispatches>>
    BY <1>13 DEF P!ResolveComplianceCase
  <2>2. "funded" \in Stages
    BY DEF Stages, P!PayoutStatuses
  <2>3. openCases' \in [Payouts -> Nat]
    BY <2>1 DEF ShapedNow, Shaped
  <2>4. /\ status' = [status EXCEPT ![p] = "funded"] /\ status' \in [Payouts -> Stages]
        /\ batchStatus' \in [Batches -> ProjectStages]
        /\ \A q \in Payouts : IF BatchOf[q] = BatchOf[p] THEN batchStatus'[BatchOf[q]] # "none"
                              ELSE q # p /\ batchStatus'[BatchOf[q]] = batchStatus[BatchOf[q]]
    BY <1>15, <2>1, <2>2
  <2>5. ShapedNow'
    BY <2>1, <2>3, <2>4 DEF ShapedNow, Shaped
  <2>6. \A q \in Payouts \ {p} : status'[q] = status[q] /\ openCases'[q] = openCases[q]
    BY <2>1, <2>4 DEF ShapedNow, Shaped
  <2>7. ASSUME NEW q \in Payouts PROVE Remembers(q) /\ LeftAlone(q) /\ NothingNew(q)
    <3>1. dispatches[q] \in Nat
      BY DEF ShapedNow, Shaped
    <3>2. Remembers(q)
      BY <2>1, <2>6, <3>1 DEF Remembers, P!Reported
    <3>3. LeftAlone(q)
      BY <2>1, <2>4, <2>6 DEF LeftAlone
    <3>4. CASE q = p
      BY <2>1, <3>2, <3>3, <3>4 DEF NothingNew, Owes
    <3>5. CASE q # p
      BY <2>1, <2>6, <3>2, <3>3, <3>5 DEF NothingNew, Owes
    <3> QED BY <3>4, <3>5
  <2> QED BY <2>5, <2>7 DEF Lasting
<1> QED BY <1>4, <1>5, <1>6, <1>7, <1>8, <1>10, <1>11, <1>12, <1>13 DEF P!Calls

\* What FundingService tells a project: only its own payments become ready.
LEMMA ToldOwes ==
    ASSUME ShapedNow, NEW b, P!AwaitFunding(b) \/ P!ApplyFunded(b)
    PROVE  /\ ShapedNow' /\ Lasting /\ SameCards
           /\ \A p \in Payouts : NothingNew(p) \/ BatchOf[p] = b
           /\ P!AwaitFunding(b) => \A p \in Payouts : NothingNew(p)
<1> USE DEF P!quoteVars, P!lineVars, P!cardVars
<1> DEFINE told(v) == [p \in Payouts |-> IF p \in P!Fundable(b) THEN v ELSE status[p]]
<1>1. /\ status' = told("awaiting_funding") \/ status' = told("funded")
      /\ P!AwaitFunding(b) => status' = told("awaiting_funding")
  BY DEF P!AwaitFunding, P!ApplyFunded, P!SetAll, ShapedNow, Shaped
<1>2. SameCards
  BY DEF P!AwaitFunding, P!ApplyFunded, SameCards
<1>3. {"awaiting_funding", "funded"} \subseteq Stages
  BY DEF Stages, P!PayoutStatuses
<1>4. \A p \in P!Fundable(b) : p \in Payouts /\ BatchOf[p] = b
  BY DEF P!Fundable, P!Approved, P!Lines
<1>5. status' \in [Payouts -> Stages]
  BY <1>1, <1>3 DEF ShapedNow, Shaped
<1>6. \E s \in P!BatchStatuses : batchStatus' = [batchStatus EXCEPT ![b] = s]
  BY DEF P!AwaitFunding, P!ApplyFunded, P!BatchStatuses
<1>7. \A p \in Payouts : BatchOf[p] # b => status'[p] = status[p]
  BY <1>1, <1>4
<1>8. ShapedNow' /\ Lasting
  BY <1>2, <1>5, <1>6, <1>7, WritesProject
<1>9. \A p \in Payouts : NothingNew(p) \/ BatchOf[p] = b
  BY <1>2, <1>7 DEF NothingNew, Owes, SameCards
<1>10. P!AwaitFunding(b) => \A p \in Payouts : NothingNew(p)
  BY <1>1, <1>2 DEF NothingNew, Owes, SameCards
<1> QED BY <1>2, <1>8, <1>9, <1>10

\* The automatic dispatch touches only payments of the project.
LEMMA AutoDispatchOwes ==
    ASSUME ShapedNow, NEW b, P!AutoDispatch(b)
    PROVE  /\ ShapedNow' /\ Lasting
           /\ \A p \in Payouts : NothingNew(p) \/ BatchOf[p] = b
<1> DEFINE S == P!LoopReach(b, P!Fundable(b))
           st == P!SetAll(status, P!Fundable(b), "funded")
<1>1. P!Dispatch(b, S, st)
  BY DEF P!AutoDispatch
<1>2. P!Fundable(b) \subseteq Payouts /\ \A p \in P!Fundable(b) : BatchOf[p] = b
  BY DEF P!Fundable, P!Approved, P!Lines
<1>3. S \subseteq P!Fundable(b)
  BY DEF P!LoopReach
<1>4. st = [p \in Payouts |-> IF p \in P!Fundable(b) THEN "funded" ELSE status[p]]
  BY DEF P!SetAll, ShapedNow, Shaped
<1>5. "funded" \in Stages
  BY DEF Stages, P!PayoutStatuses
<1>6. st \in [Payouts -> Stages] /\ \A p \in Payouts \ P!Fundable(b) : st[p] = status[p]
  BY <1>4, <1>5 DEF ShapedNow, Shaped
<1> HIDE DEF S, st
<1>7. \A p \in Payouts : BatchOf[p] # b => st[p] = status[p]
  BY <1>2, <1>6
<1>8. /\ ShapedNow' /\ Lasting
      /\ \A p \in Payouts \ S : status'[p] = st[p] /\ openCases'[p] = openCases[p]
                                /\ dispatches'[p] = dispatches[p]
      /\ UNCHANGED <<reviewed, webhookEvents>>
  BY <1>1, <1>2, <1>3, <1>6, <1>7, DispatchOwes
<1>9. ASSUME NEW p \in Payouts \ P!Fundable(b) PROVE NothingNew(p)
  BY <1>3, <1>6, <1>8, <1>9 DEF NothingNew, Owes
<1> QED BY <1>2, <1>8, <1>9

-------------------------------------------------------------------------------
\* Both together.

\* The project was told that an instruction of its own is reconciled.
Covered(b) == \E i \in covered : batchOf[i] = b

\* What is known of the payments: those that owe it are covered, and nothing
\* is known of those whose project does not exist.
Accounted(bs, st, cases, rev, ev, disp) ==
    /\ Shaped(bs, st, cases, disp)
    /\ \A p \in Payouts :
          /\ Owes(p, st, cases, rev, ev, disp) => Covered(BatchOf[p])
          /\ bs[BatchOf[p]] = "none" =>
                /\ st[p] = "none" /\ cases[p] = 0 /\ disp[p] = 0
                /\ p \notin rev /\ ~ Told(p, ev)

InMemory == Accounted(batchStatus, status, openCases, reviewed, webhookEvents, dispatches)
OnDisk == Accounted(saved.batchStatus, saved.status, saved.openCases, saved.reviewed,
                    saved.webhookEvents, saved.dispatches)

\* The snapshot has all cards.
CardsSaved ==
    /\ saved.openCases = openCases /\ saved.reviewed = reviewed
    /\ saved.webhookEvents = webhookEvents /\ saved.dispatches = dispatches

\* The parts of the snapshot that the proof is about are there.
SavedParts ==
    {"batchStatus", "status", "openCases", "reviewed", "webhookEvents", "dispatches",
     "authorized"} \subseteq DOMAIN saved

\* The snapshot is left alone, in these parts.
SavedStays ==
    /\ saved'.batchStatus = saved.batchStatus
    /\ saved'.status = saved.status /\ saved'.openCases = saved.openCases
    /\ saved'.reviewed = saved.reviewed /\ saved'.webhookEvents = saved.webhookEvents
    /\ saved'.dispatches = saved.dispatches
    /\ saved'.authorized = saved.authorized

\* The snapshot has the payments and cards as they are in memory now, and a
\* status of each project that exists.
SavedNow ==
    /\ saved'.batchStatus \in [Batches -> ProjectStages]
    /\ \A p \in Payouts :
          saved'.batchStatus[BatchOf[p]] = "none" <=> batchStatus'[BatchOf[p]] = "none"
    /\ saved'.status = status' /\ saved'.openCases = openCases'
    /\ saved'.reviewed = reviewed' /\ saved'.webhookEvents = webhookEvents'
    /\ saved'.dispatches = dispatches'
    /\ saved'.authorized = authorized'

\* What a save stores.
LEMMA SaveStores ==
    ASSUME Save, ShapedNow' PROVE SavedNow /\ SavedParts'
BY DEF Save, Snapshot, SavedNow, SavedParts, ShapedNow, Shaped

\* A project once covered stays covered.
LEMMA CoveredStays ==
    ASSUME TypeOK, ReconciledIsBacked, [Step]_vars, NEW b, Covered(b)
    PROVE  Covered(b)'
<1> USE DEF instrVars, moneyVars, ledgerVars, worldVars, toldVars
<1>1. PICK i \in covered : batchOf[i] = b
  BY DEF Covered
<1>2. i \in Instructions /\ credited[i] # 0
  BY <1>1 DEF ReconciledIsBacked, TypeOK, DataOK
<1>3. Exists(i)
  BY <1>2 DEF TypeOK, DataOK
<1>4. ASSUME covered \subseteq covered', batchOf'[i] = batchOf[i] PROVE Covered(b)'
  BY <1>1, <1>4 DEF Covered
<1>5. CASE UNCHANGED vars
  BY <1>4, <1>5 DEF vars
<1>6. ASSUME \/ \E d \in Deposits, k \in Instructions : Send(d, k)
             \/ \E S \in SUBSET Wallets : UpdateWallets(S) \/ Restart(S)
             \/ \E k \in Batches : ResolveException(k)
      PROVE  Covered(b)'
  BY <1>4, <1>6 DEF Send, UpdateWallets, Restart, ResolveException
<1>7. ASSUME NEW w \in Workers, NEW k \in Instructions, EnsureCreate(w, k) PROVE Covered(b)'
  <2>1. k # i /\ batchOf'[i] = batchOf[i]
    BY <1>2, <1>3, <1>7 DEF EnsureCreate, TypeOK, DataOK
  <2> QED BY <1>4, <1>7, <2>1 DEF EnsureCreate
<1>8. ASSUME NEW w \in Workers, Starts(w) PROVE Covered(b)'
  BY <1>4, <1>8, StartsTypeOK
<1>9. ASSUME NEW w \in Workers, Applies(w) PROVE Covered(b)'
  BY <1>4, <1>9 DEF Applies, Lookup, ReadCredited, Insert, PostReceived, UpdateStatus, Apply,
                    Notice, PostReserved, PostSurplus
<1> QED BY <1>5, <1>6, <1>7, <1>8, <1>9 DEF Step

\* What a step but a restart does to the payments in memory.
OwesNothingUncovered ==
    /\ ShapedNow' /\ Lasting
    /\ \A p \in Payouts : NothingNew(p) \/ Covered(BatchOf[p])'

\* A case is resolved in a project that exists, and goes on existing.
LEMMA ResolveStays ==
    ASSUME InMemory, NEW p \in Payouts, P!ResolveComplianceCase(p), NEW q \in Payouts
    PROVE  batchStatus[BatchOf[q]] = "none" <=> batchStatus'[BatchOf[q]] = "none"
<1>1. ShapedNow
  BY DEF InMemory, Accounted, ShapedNow
<1>2. openCases[p] > 0 \/ p \in reviewed
  BY DEF P!ResolveComplianceCase
<1>3. batchStatus[BatchOf[p]] # "none"
  BY <1>2 DEF InMemory, Accounted
<1>4. batchStatus'[BatchOf[q]] = "none" => batchStatus[BatchOf[q]] = "none"
  BY <1>1, CallsOwe DEF Lasting, LeftAlone
<1>5. BatchOf[q] # BatchOf[p] => batchStatus'[BatchOf[q]] = batchStatus[BatchOf[q]]
  BY <1>1, BatchOfAssumption DEF P!ResolveComplianceCase, P!Settle, ShapedNow, Shaped
<1> QED BY <1>3, <1>4, <1>5

\* Every step but a restart: no payment owes funding that is not covered, and
\* either the step saves, or it touches no cards.
LEMMA TurnOwes ==
    ASSUME TypeOK, TypeOK', SavedParts, InMemory,
           Turn \/ UNCHANGED platformVars, ~ Reload
    PROVE  /\ OwesNothingUncovered
           /\ \/ SavedNow
              \/ SameCards /\ SavedStays
           /\ SavedParts'
<1> USE DEF projectVars
<1>0. ShapedNow
  BY DEF InMemory, Accounted, ShapedNow
<1>1. ASSUME UNCHANGED <<batchStatus, status>>, SameCards PROVE OwesNothingUncovered
  BY <1>0, <1>1, WritesNothing DEF OwesNothingUncovered
<1>2. ASSUME saved' = saved PROVE SavedStays /\ SavedParts'
  BY <1>2 DEF SavedStays, SavedParts
<1>3. CASE UNCHANGED platformVars
  <2>1. UNCHANGED <<batchStatus, status>> /\ SameCards /\ saved' = saved
    BY <1>3 DEF platformVars, SameCards
  <2> QED BY <1>1, <1>2, <2>1
<1>4. CASE CallProjects
  <2>1. P!Calls /\ Save
    BY <1>4 DEF CallProjects
  <2>2. OwesNothingUncovered
    BY <1>0, <2>1, CallsOwe DEF OwesNothingUncovered
  <2> QED BY <2>1, <2>2, SaveStores DEF OwesNothingUncovered
<1>5. ASSUME NEW b \in Batches, PassTime(b)
      PROVE  OwesNothingUncovered /\ SameCards /\ SavedStays /\ SavedParts'
  <2>1. UNCHANGED <<batchStatus, status>> /\ SameCards
    BY <1>5 DEF PassTime, P!ExpireQuote, P!cardVars, SameCards
  <2>2. SavedStays /\ SavedParts'
    BY <1>5 DEF PassTime, SavedStays, SavedParts
  <2> QED BY <1>1, <2>1, <2>2
<1>6. ASSUME NEW p \in Payouts, ResolveCase(p)
      PROVE  OwesNothingUncovered /\ SavedNow /\ SavedParts'
  <2>1. OwesNothingUncovered
    BY <1>0, <1>6, CallsOwe DEF ResolveCase, OwesNothingUncovered
  <2>2. UNCHANGED <<dispatches, webhookEvents, authorized>>
    BY <1>6 DEF ResolveCase, P!ResolveComplianceCase, vars, worldVars
  <2>3. saved' = [Snapshot EXCEPT !.status = status', !.openCases = openCases',
                                  !.reviewed = reviewed']
    BY <1>6 DEF ResolveCase
  <2>4. saved'.batchStatus = batchStatus /\ SavedParts'
    BY <2>3 DEF Snapshot, SavedParts
  <2>5. /\ saved'.status = status' /\ saved'.openCases = openCases'
        /\ saved'.reviewed = reviewed' /\ saved'.webhookEvents = webhookEvents'
        /\ saved'.dispatches = dispatches' /\ saved'.authorized = authorized'
    BY <2>2, <2>3 DEF Snapshot
  <2>6. batchStatus \in [Batches -> ProjectStages]
    BY <1>0 DEF ShapedNow, Shaped
  <2>7. \A q \in Payouts :
           batchStatus[BatchOf[q]] = "none" <=> batchStatus'[BatchOf[q]] = "none"
    BY <1>6, ResolveStays DEF ResolveCase
  <2> QED BY <2>1, <2>4, <2>5, <2>6, <2>7 DEF SavedNow
<1>7. ASSUME NEW S \in SUBSET Wallets, UpdateCompany(S)
      PROVE  OwesNothingUncovered /\ SavedNow /\ SavedParts'
  <2>1. UNCHANGED <<batchStatus, status>> /\ SameCards /\ Save
    BY <1>7 DEF UpdateCompany, SameCards
  <2>2. OwesNothingUncovered
    BY <1>1, <2>1
  <2> QED BY <2>1, <2>2, SaveStores DEF OwesNothingUncovered
<1>8. ASSUME Deposit \/ CloseCase \/ \E w \in Workers : Work(w) \/ Refuse(w)
      PROVE  OwesNothingUncovered /\ SameCards /\ SavedStays /\ SavedParts'
  <2>1. UNCHANGED <<projectVars, saved>>
    BY <1>8 DEF Deposit, CloseCase, Work, Refuse
  <2>2. UNCHANGED <<batchStatus, status>> /\ SameCards
    BY <2>1 DEF SameCards
  <2> QED BY <1>1, <1>2, <2>1, <2>2
<1>9. ASSUME NEW w \in Workers, NEW b \in Batches, Check(w, b)
      PROVE  OwesNothingUncovered /\ SameCards /\ SavedStays /\ SavedParts'
  <2>1. UNCHANGED <<batchStatus, status, saved>> /\ SameCards
    BY <1>9 DEF Check, P!RequestInstruction, P!cardVars, SameCards
  <2> QED BY <1>1, <1>2, <2>1
<1>10. ASSUME NEW w \in Workers, Mark(w)
       PROVE  OwesNothingUncovered /\ SavedNow /\ SavedParts'
  <2>1. OwesNothingUncovered /\ Save
    BY <1>10, ToldOwes, <1>0 DEF Mark, OwesNothingUncovered
  <2> QED BY <2>1, SaveStores DEF OwesNothingUncovered
<1>11. ASSUME NEW w \in Workers, TellPartial(w)
       PROVE  OwesNothingUncovered /\ SameCards /\ SavedStays /\ SavedParts'
  <2>1. P!AwaitFunding(batchOf[Instr(w)]) /\ saved' = saved
    BY <1>11 DEF TellPartial
  <2> QED BY <1>2, <2>1, ToldOwes, <1>0 DEF OwesNothingUncovered
<1>12. ASSUME NEW w \in Workers, NEW throws, Apply(w, throws), NextStatus(w) = "reconciled"
       PROVE  \A p \in Payouts : BatchOf[p] = batchOf[Instr(w)] => Covered(BatchOf[p])'
  BY <1>12 DEF Apply, Covered, instrVars
<1>13. ASSUME NEW w \in Workers, TellFunded(w)
       PROVE  OwesNothingUncovered /\ SameCards /\ SavedStays /\ SavedParts'
  <2>1. P!ApplyFunded(batchOf[Instr(w)]) /\ saved' = saved
    BY <1>13 DEF TellFunded
  <2>2. \A p \in Payouts : BatchOf[p] = batchOf[Instr(w)] => Covered(BatchOf[p])'
    BY <1>12, <1>13 DEF TellFunded
  <2> QED BY <1>2, <2>1, <2>2, ToldOwes, <1>0 DEF OwesNothingUncovered
<1>14. ASSUME NEW w \in Workers, TellAndDispatch(w)
       PROVE  OwesNothingUncovered /\ SavedNow /\ SavedParts'
  <2>1. P!AutoDispatch(batchOf[Instr(w)]) /\ Save
    BY <1>14 DEF TellAndDispatch
  <2>2. \A p \in Payouts : BatchOf[p] = batchOf[Instr(w)] => Covered(BatchOf[p])'
    BY <1>12, <1>14 DEF TellAndDispatch, Releases
  <2>3. OwesNothingUncovered
    BY <2>1, <2>2, AutoDispatchOwes, <1>0 DEF OwesNothingUncovered
  <2> QED BY <2>1, <2>3, SaveStores DEF OwesNothingUncovered
<1> QED BY <1>3, <1>4, <1>5, <1>6, <1>7, <1>8, <1>9, <1>10, <1>11, <1>13, <1>14 DEF Turn, Tell

-------------------------------------------------------------------------------
\* The inductive invariant: what Funding guarantees, and payments covered in
\* memory and on disk, which agree on what was paid, held and reported.
IInv ==
    /\ TypeOK /\ DecisionIsBacked /\ ReconciledIsBacked
    /\ SavedWallets /\ SavedParts
    /\ InMemory /\ OnDisk /\ CardsSaved

\* A service that starts without a snapshot knows of no payment.
LEMMA FirstIsEmpty ==
    /\ FirstSnapshot.authorized = Trusted
    /\ {"batchStatus", "status", "openCases", "reviewed", "webhookEvents", "dispatches",
        "authorized"} \subseteq DOMAIN FirstSnapshot
    /\ Shaped(FirstSnapshot.batchStatus, FirstSnapshot.status, FirstSnapshot.openCases,
              FirstSnapshot.dispatches)
    /\ FirstSnapshot.reviewed = {} /\ FirstSnapshot.webhookEvents = {}
    /\ FirstSnapshot.batchStatus = [b \in Batches |-> "none"]
    /\ FirstSnapshot.status = [p \in Payouts |-> "none"]
    /\ FirstSnapshot.openCases = [p \in Payouts |-> 0]
    /\ FirstSnapshot.dispatches = [p \in Payouts |-> 0]
<1>1. "none" \in Stages /\ "none" \in ProjectStages
  BY DEF Stages, ProjectStages
<1> QED BY <1>1 DEF FirstSnapshot, Shaped

\* So it owes nothing, in memory or on disk.
LEMMA NothingKnown ==
    Accounted(FirstSnapshot.batchStatus, FirstSnapshot.status, FirstSnapshot.openCases,
              FirstSnapshot.reviewed, FirstSnapshot.webhookEvents, FirstSnapshot.dispatches)
BY FirstIsEmpty DEF Accounted, Owes, Told

\* At first nothing is paid, and the snapshot is new.
LEMMA PlatformStart == PlatformInit => IInv
<1> SUFFICES ASSUME PlatformInit PROVE IInv
  OBVIOUS
<1>1. TypeOK /\ DecisionIsBacked /\ ReconciledIsBacked
  BY InitTypeOK, InitBacked DEF PlatformInit
<1>2. saved = FirstSnapshot
  BY DEF PlatformInit
<1>3. SavedWallets /\ SavedParts
  BY <1>2, FirstIsEmpty, TrustedAssumption DEF SavedWallets, SavedParts
<1>4. /\ saved.batchStatus = batchStatus /\ saved.status = status
      /\ saved.openCases = openCases /\ saved.reviewed = reviewed
      /\ saved.webhookEvents = webhookEvents /\ saved.dispatches = dispatches
  BY <1>2, FirstIsEmpty DEF PlatformInit, P!Init
<1>5. OnDisk
  BY <1>2, NothingKnown DEF OnDisk
<1>6. InMemory /\ CardsSaved
  BY <1>4, <1>5 DEF InMemory, OnDisk, CardsSaved
<1> QED BY <1>1, <1>3, <1>5, <1>6 DEF IInv

\* Every step but the loss of a snapshot forgets nothing.
LEMMA StepsRemember ==
    ASSUME IInv, TypeOK', Turn \/ UNCHANGED platformVars, NEW p \in Payouts
    PROVE  Remembers(p)
<1>1. CASE Reload
  <2>1. SameCards
    BY <1>1 DEF Reload, Restore, IInv, CardsSaved, SameCards
  <2>2. dispatches[p] \in Nat
    BY DEF IInv, InMemory, Accounted, Shaped
  <2> QED BY <2>1, <2>2 DEF SameCards, Remembers, P!Reported
<1>2. CASE ~ Reload
  BY <1>2, TurnOwes DEF IInv, OwesNothingUncovered, Lasting
<1> QED BY <1>1, <1>2

\* Every step keeps the invariant.
LEMMA PlatformKeeps == IInv /\ [PlatformNext]_platformVars => IInv'
<1> SUFFICES ASSUME IInv, [PlatformNext]_platformVars PROVE IInv'
  OBVIOUS
<1>1. [Step]_vars
  BY PlatformStep DEF IInv
<1>2. TypeOK' /\ DecisionIsBacked' /\ ReconciledIsBacked'
  BY <1>1, NextTypeOK, NextDecision, NextBacked DEF IInv
<1>3. \A p \in Payouts : Covered(BatchOf[p]) => Covered(BatchOf[p])'
  BY <1>1, CoveredStays DEF IInv
<1>4. authorized' \subseteq Wallets
  BY <1>2 DEF TypeOK, DataOK
<1>5. OnDisk' \/ ~ SavedStays
  BY <1>3 DEF IInv, OnDisk, Accounted, SavedStays
<1>6. CASE Reload
  <2>1. /\ batchStatus' = saved.batchStatus /\ status' = saved.status
        /\ openCases' = saved.openCases /\ reviewed' = saved.reviewed
        /\ webhookEvents' = saved.webhookEvents
        /\ dispatches' = saved.dispatches /\ saved' = saved
    BY <1>6 DEF Reload, Restore
  <2>2. SavedStays /\ SavedWallets' /\ SavedParts'
    BY <2>1 DEF IInv, SavedStays, SavedWallets, SavedParts
  <2>3. InMemory' /\ CardsSaved'
    BY <1>5, <2>1, <2>2 DEF InMemory, OnDisk, CardsSaved
  <2> QED BY <1>2, <1>5, <2>2, <2>3 DEF IInv
<1>7. CASE StartOver
  <2>1. /\ batchStatus' = FirstSnapshot.batchStatus /\ status' = FirstSnapshot.status
        /\ openCases' = FirstSnapshot.openCases /\ reviewed' = FirstSnapshot.reviewed
        /\ webhookEvents' = FirstSnapshot.webhookEvents
        /\ dispatches' = FirstSnapshot.dispatches /\ saved' = FirstSnapshot
    BY <1>7 DEF StartOver, Restore
  <2>2. SavedWallets' /\ SavedParts'
    BY <2>1, FirstIsEmpty, TrustedAssumption DEF SavedWallets, SavedParts
  <2>3. Shaped(batchStatus', status', openCases', dispatches')
    BY <2>1, FirstIsEmpty
  <2>4. /\ batchStatus' = [b \in Batches |-> "none"] /\ status' = [p \in Payouts |-> "none"]
        /\ openCases' = [p \in Payouts |-> 0] /\ dispatches' = [p \in Payouts |-> 0]
        /\ reviewed' = {} /\ webhookEvents' = {}
    BY <2>1, FirstIsEmpty
  <2>5. InMemory'
    BY <2>3, <2>4 DEF InMemory, Accounted, Owes, Told
  <2>6. CardsSaved'
    BY <2>1 DEF CardsSaved
  <2>7. OnDisk'
    BY <2>1, <2>5 DEF InMemory, OnDisk
  <2> QED BY <1>2, <2>2, <2>5, <2>6, <2>7 DEF IInv
<1>8. CASE ~ Reload /\ ~ StartOver
  <2>1. Turn \/ UNCHANGED platformVars
    BY <1>8 DEF PlatformNext
  <2>2. /\ OwesNothingUncovered /\ SavedParts'
        /\ SavedNow \/ (SameCards /\ SavedStays)
    BY <1>2, <1>8, <2>1, TurnOwes DEF IInv
  <2>3. InMemory'
    <3>1. Shaped(batchStatus, status, openCases, dispatches)'
      BY <2>2 DEF OwesNothingUncovered, ShapedNow
    <3>2. ASSUME NEW p \in Payouts,
                 Owes(p, status', openCases', reviewed', webhookEvents', dispatches')
          PROVE  Covered(BatchOf[p])'
      BY <1>3, <2>2, <3>2 DEF IInv, InMemory, Accounted, OwesNothingUncovered, NothingNew
    <3>3. ASSUME NEW p \in Payouts, batchStatus'[BatchOf[p]] = "none"
          PROVE  /\ status'[p] = "none" /\ openCases'[p] = 0 /\ dispatches'[p] = 0
                 /\ p \notin reviewed' /\ ~ Told(p, webhookEvents')
      BY <2>2, <3>3 DEF IInv, InMemory, Accounted, OwesNothingUncovered, Lasting, LeftAlone
    <3> QED BY <3>1, <3>2, <3>3 DEF InMemory, Accounted
  <2>4. CASE SavedNow
    <3>1. SavedWallets' /\ CardsSaved'
      BY <1>4, <2>4 DEF SavedNow, SavedWallets, CardsSaved
    <3>2. OnDisk'
      BY <2>3, <2>4 DEF SavedNow, InMemory, OnDisk, Accounted, Shaped
    <3> QED BY <1>2, <2>2, <2>3, <3>1, <3>2 DEF IInv
  <2>5. CASE SameCards /\ SavedStays
    <3>1. SavedWallets' /\ CardsSaved'
      BY <2>5 DEF IInv, SameCards, SavedStays, SavedWallets, CardsSaved
    <3> QED BY <1>2, <1>5, <2>2, <2>3, <2>5, <3>1 DEF IInv
  <2> QED BY <2>2, <2>4, <2>5
<1> QED BY <1>6, <1>7, <1>8

\* What the invariant says of the money.
LEMMA CoveredIsFunded == IInv => PaidFromFunding
<1> SUFFICES ASSUME IInv, NEW p \in Payouts,
                    \/ dispatches[p] > 0
                    \/ status[p] \in {"funded", "in_review"}
                    \/ status[p] = "paid" /\ ~ P!Reported(p)
             PROVE  Funded(BatchOf[p])
  BY DEF PaidFromFunding
<1>1. PICK i \in covered : batchOf[i] = BatchOf[p]
  BY DEF IInv, InMemory, Accounted, Owes, Told, Covered, P!Reported
<1>2. i \in Instructions
  BY <1>1 DEF IInv, TypeOK, DataOK
<1>3. credited[i] > 0 /\ credited[i] >= expectedAmount[i]
  BY <1>1, <1>2 DEF IInv, ReconciledIsBacked
<1> QED BY <1>1, <1>2, <1>3 DEF Funded

\* NoUnfundedPayment: whatever overlaps, fails, restarts, is edited, quoted
\* again or reported early, no payment goes out, waits in review or is ready
\* to go out unless an instruction of its project has been paid in full; and
\* one that is shown as paid without it is one the partner reported on.
THEOREM NoUnfundedPayment == PlatformSpec => []PaidFromFunding
BY PlatformStart, PlatformKeeps, CoveredIsFunded, PTL DEF PlatformSpec

\* NoForgottenPayment: no step of the service and no crash forgets what was
\* handed to the partner, what a reviewer has to decide, or what the partner
\* reported, except that a snapshot that cannot be read takes its projects
\* with it.
THEOREM NoForgottenPayment == PlatformSpec => PaymentsSurvive
<1> DEFINE Keeps(p) ==
              \/ BatchOf[p] \in forgotten'
              \/ /\ dispatches'[p] >= dispatches[p]
                 /\ openCases[p] > 0 => openCases'[p] > 0 \/ p \in reviewed'
                 /\ P!Reported(p) => P!Reported(p)'
           Kept == \A p \in Payouts : Keeps(p)
<1>1. ASSUME IInv, IInv', [PlatformNext]_platformVars PROVE Kept
  <2> SUFFICES ASSUME NEW p \in Payouts PROVE Keeps(p)
    OBVIOUS
  <2>1. CASE Turn \/ UNCHANGED platformVars
    BY <1>1, <2>1, StepsRemember DEF IInv, Remembers
  <2>2. CASE StartOver
    <3>1. CASE batchStatus[BatchOf[p]] # "none"
      BY <2>2, <3>1, BatchOfAssumption DEF StartOver
    <3>2. CASE batchStatus[BatchOf[p]] = "none"
      <4>1. openCases[p] = 0 /\ dispatches[p] = 0 /\ ~ P!Reported(p)
        BY <1>1, <3>2 DEF IInv, InMemory, Accounted, Told, P!Reported
      <4>2. dispatches'[p] \in Nat
        BY <1>1 DEF IInv, InMemory, Accounted, Shaped
      <4> QED BY <4>1, <4>2
    <3> QED BY <3>1, <3>2
  <2> QED BY <1>1, <2>1, <2>2 DEF PlatformNext
<1>2. IInv /\ IInv' /\ [PlatformNext]_platformVars => [Kept]_platformVars
  BY <1>1
<1> QED BY <1>2, PlatformStart, PlatformKeeps, PTL DEF PlatformSpec, PaymentsSurvive

\* PlatformBookkeeping: a restart in the middle of a deposit, or a payment
\* that throws, neither credits a transfer twice nor puts money into the
\* ledger that did not arrive.
THEOREM PlatformBookkeeping == PlatformSpec => [](CreditedOnce /\ LedgerNotOverstated)
<1> DEFINE BookInv == IInv /\ CreditInv /\ LedgerInv
<1>1. PlatformInit => BookInv
  BY PlatformStart, InitCreditInv, InitLedger DEF PlatformInit
<1>2. BookInv /\ [PlatformNext]_platformVars => BookInv'
  <2> SUFFICES ASSUME BookInv, [PlatformNext]_platformVars PROVE BookInv'
    OBVIOUS
  <2>1. [Step]_vars
    BY PlatformStep DEF IInv
  <2>2. CreditInv' /\ LedgerInv'
    BY <2>1, NextCreditInv, NextLedger DEF IInv
  <2> QED BY <2>2, PlatformKeeps
<1>3. BookInv => CreditedOnce /\ LedgerNotOverstated
  BY CreditInvImplies, LedgerInvImplies DEF IInv
<1> QED BY <1>1, <1>2, <1>3, PTL DEF PlatformSpec

\* PlatformKeepsPromise: the whole process, restarts included, keeps the
\* promise of Reconciliation: credits only grow, and a project is told of an
\* instruction only when all that it asks for is credited.
THEOREM PlatformKeepsPromise == PlatformSpec => KeepsPromise
<1>1. PlatformInit => Promise!Init
  BY DEF PlatformInit, Init, Promise!Init, Exists
<1>2. IInv /\ [PlatformNext]_platformVars => [Promise!Next]_(Promise!vars)
  BY PlatformStep, NextPromise DEF IInv
<1> QED BY <1>1, <1>2, PlatformStart, PlatformKeeps, PTL
        DEF PlatformSpec, KeepsPromise, Promise!Spec
==============================================================================
