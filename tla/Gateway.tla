------------------------------- MODULE Gateway -------------------------------
(***************************************************************************)
(* How a scan of Funding gets its transfers from the chain.                *)
(* SolanaFundingGateway asks for the newest signatures that name the       *)
(* instruction's reference, no more than a window of them, and reads the   *)
(* transactions one by one; FundingService then applies what was found.  A *)
(* node that lags knows a signature before its transaction, and any call   *)
(* may fail, which ends the scan.  A worker whose scan is in the gateway   *)
(* is idle for Funding.                                                    *)
(*                                                                         *)
(* Left out: how balances and the paying wallet are parsed, and what       *)
(* Funding says of failures of the database.                               *)
(*                                                                         *)
(* A definition named as a mutant is a plausible bug in the one after it,  *)
(* kept to show that a run would notice it; no action uses it.             *)
(***************************************************************************)
EXTENDS Funding

CONSTANTS
    Window,     \* signatures a scan asks for (25 in the code)
    Blanks,     \* transactions, by slot, that pay the treasury nothing
    MaxFaults   \* bound: calls that fail, or answer too early

ASSUME WindowAssumption == Window \in Nat \ {0}
ASSUME BlanksAssumption == Blanks \subseteq Nat /\ Blanks \cap Deposits = {}
ASSUME FaultsAssumption == MaxFaults \in Nat

VARIABLES
    blankTo,    \* the instruction a blank transaction refers to, or Nobody
    fetch,      \* what each worker's scan is doing in the gateway
    faults      \* how often a call has failed so far

gatewayVars == <<blankTo, fetch, faults>>
allVars == <<vars, gatewayVars>>

\* asked: by a user.  left: the signatures to look up yet.  found: the
\* observations made.
Fetches == [instr : Instructions \cup {Nobody}, asked : BOOLEAN,
            left : SUBSET (Deposits \cup Blanks), found : SUBSET Deposits]
NoFetch == [instr |-> Nobody, asked |-> FALSE, left |-> {}, found |-> {}]

Transactions == Deposits \cup Blanks

\* The signatures that name an instruction's reference.
Signatures(i) == SentTo(i) \cup {b \in Blanks : blankTo[b] = i}

\* Whether newer signatures fill the window.
OutOfWindow(n, i) == Cardinality({k \in Signatures(i) : k > n}) >= Window

\* getSignaturesForAddress with its limit.
Listed(i) == {n \in Signatures(i) : ~ OutOfWindow(n, i)}

\* Mutant of IsTransfer: a balance that is what it was passes, too.
IsTransferOrBlank(n) == n \in Transactions

\* extractObservation makes something of these.
IsTransfer(n) == n \in Deposits

Fetching(w) == fetch[w] # NoFetch
Free(w) == At(w, "idle") /\ ~ Fetching(w)

\* The loop has come to this one: it takes the newest first.
IsNext(w, n) == n \in fetch[w].left /\ \A k \in fetch[w].left : k =< n

-------------------------------------------------------------------------------
GatewayInit ==
    /\ Init
    /\ blankTo = [b \in Blanks |-> Nobody]
    /\ fetch = [w \in Workers |-> NoFetch]
    /\ faults = 0

\* Transactions are confirmed in the order of their slots.
IsLatest(n) ==
    /\ \A d \in Deposits : d > n => sentTo[d] = Nobody
    /\ \A b \in Blanks : b > n => blankTo[b] = Nobody

Pay(d, i) ==
    /\ IsLatest(d)
    /\ Send(d, i)
    /\ UNCHANGED gatewayVars

\* A transaction that names the reference leaves the treasury as it was.
SendBlank(b, i) ==
    /\ IsLatest(b)
    /\ Exists(i) /\ blankTo[b] = Nobody
    /\ blankTo' = [blankTo EXCEPT ![b] = i]
    /\ UNCHANGED <<vars, fetch, faults>>

\* The signatures are answered, if there are any.
List(w, i, asked) ==
    /\ Free(w)
    /\ Listed(i) # {}
    /\ fetch' = [fetch EXCEPT ![w] = [instr |-> i, asked |-> asked,
                                      left |-> Listed(i), found |-> {}]]
    /\ UNCHANGED <<vars, blankTo, faults>>

\* The timer's scan of an instruction that is listed.
Poll(w, i) == Open(i) /\ List(w, i, FALSE)

\* rescanFundingInstruction, whatever the status.
Rescan(w, i) == Exists(i) /\ List(w, i, TRUE)

\* Mutant of LookUp: the loop ends at the first transaction that is no
\* transfer.
LookUpUntilBlank(w, n) ==
    /\ IsNext(w, n)
    /\ fetch' = [fetch EXCEPT ![w].left = IF IsTransfer(n) THEN @ \ {n} ELSE {},
                              ![w].found = IF IsTransfer(n) THEN @ \cup {n} ELSE @]
    /\ UNCHANGED <<vars, blankTo, faults>>

\* getParsedTransaction and extractObservation.
LookUp(w, n) ==
    /\ IsNext(w, n)
    /\ fetch' = [fetch EXCEPT ![w].left = @ \ {n},
                              ![w].found = IF IsTransfer(n) THEN @ \cup {n} ELSE @]
    /\ UNCHANGED <<vars, blankTo, faults>>

\* The node does not know the transaction yet: it is left for another scan.
LookUpTooEarly(w, n) ==
    /\ IsNext(w, n)
    /\ faults < MaxFaults
    /\ faults' = faults + 1
    /\ fetch' = [fetch EXCEPT ![w].left = @ \ {n}]
    /\ UNCHANGED <<vars, blankTo>>

\* A call on the chain throws, and what was found is dropped.
FetchFails(w) ==
    /\ Fetching(w)
    /\ faults < MaxFaults
    /\ faults' = faults + 1
    /\ fetch' = [fetch EXCEPT ![w] = NoFetch]
    /\ UNCHANGED <<vars, blankTo>>

\* Mutant of HandOver: only the newest transfer is applied.
HandOverNewest(w) ==
    /\ Fetching(w) /\ fetch[w].left = {}
    /\ \/ \E n \in fetch[w].found :
             /\ \A k \in fetch[w].found : k =< n
             /\ ScanFound(w, fetch[w].instr, {n})
       \/ fetch[w].found = {} /\ UNCHANGED vars
    /\ fetch' = [fetch EXCEPT ![w] = NoFetch]
    /\ UNCHANGED <<blankTo, faults>>

\* The loop is over: the service applies what was found, if anything.
HandOver(w) ==
    /\ Fetching(w) /\ fetch[w].left = {}
    /\ \/ ScanFound(w, fetch[w].instr, fetch[w].found)
       \/ fetch[w].found = {} /\ UNCHANGED vars
    /\ fetch' = [fetch EXCEPT ![w] = NoFetch]
    /\ UNCHANGED <<blankTo, faults>>

\* The scan goes on.
Fetch(w) == HandOver(w) \/ \E n \in Transactions : LookUp(w, n)

\* Another request of a worker that is free, or the next step of its request.
Request(w) ==
    /\ ~ Fetching(w)
    /\ \/ \E b \in Batches : EnsureLook(w, b)
       \/ RecordsManually(w)
       \/ Proceed(w)
    /\ UNCHANGED gatewayVars

GatewayNext ==
    \/ \E i \in Instructions :
          \/ \E d \in Deposits : Pay(d, i)
          \/ \E b \in Blanks : SendBlank(b, i)
          \/ \E w \in Workers : Poll(w, i) \/ Rescan(w, i)
    \/ \E w \in Workers :
          \/ Fetch(w)
          \/ \E n \in Transactions : LookUpTooEarly(w, n)
          \/ FetchFails(w)
          \/ Request(w)
    \/ /\ \/ \E S \in SUBSET Wallets : UpdateWallets(S)
          \/ \E b \in Batches : ResolveException(b)
       /\ UNCHANGED gatewayVars

GatewaySpec == GatewayInit /\ [][GatewayNext]_allVars

\* The timer fires for ever, and calls that do not fail are answered.
GatewayFairness ==
    /\ \A w \in Workers : WF_allVars(Proceed(w) /\ UNCHANGED gatewayVars)
    /\ \A w \in Workers : WF_allVars(Fetch(w))
    /\ \A i \in Instructions : SF_allVars(\E w \in Workers : Poll(w, i))

GatewayFairSpec == GatewaySpec /\ GatewayFairness

-------------------------------------------------------------------------------
\* A scan in the gateway has an instruction, and looks at transactions that
\* name its reference.
FetchOK(w) ==
    Fetching(w) =>
        /\ At(w, "idle")
        /\ fetch[w].instr # Nobody /\ Exists(fetch[w].instr)
        /\ fetch[w].left \subseteq Signatures(fetch[w].instr)
        /\ fetch[w].found \subseteq SentTo(fetch[w].instr)

\* Every variable has the shape its declaration promises, and no scan in the
\* gateway mixes up transactions of different instructions, or takes one for
\* a transfer that is none.
GatewayTypeOK ==
    /\ blankTo \in [Blanks -> Instructions \cup {Nobody}]
    /\ fetch \in [Workers -> Fetches]
    /\ faults \in 0..MaxFaults
    /\ \A w \in Workers : FetchOK(w)

\* What has been sent to an instruction so far.
Sent(i) == SumFunction([d \in SentTo(i) |-> AmountOf[d]])

\* Whether a transfer to an instruction is out of reach of its scans.
Missed(i) == \E d \in SentTo(i) \ recorded : OutOfWindow(d, i)

\* Whether somebody recorded a transfer for another instruction than it was
\* sent to, or with less than it pays.
Misstated(i) ==
    \E d \in SentTo(i) \cap recorded : recordedFor[d] # i \/ Worth(d) < AmountOf[d]

\* "The API polls Solana for transfers that include the batch reference and
\* reconcile accepted deposits into the batch state" (README.md:75): enough
\* money sent to an instruction gets it reconciled, whatever is looked up too
\* early, however many scans fail or end in a dispatch that throws, unless
\* newer signatures push a transfer out of the window first, or somebody
\* misstates one.
DepositsReconciled ==
    \A i \in Instructions :
        Exists(i) /\ Sent(i) > 0 /\ Sent(i) >= expectedAmount[i]
            ~> \/ instrStatus[i] = "reconciled" /\ applied[i] = "reconciled"
               \/ Missed(i) \/ Misstated(i)

\* The same of each transfer, of whatever amount: while the instruction is
\* open, it is recorded before it leaves the window (findFundingObservations).
RecordedInTime ==
    \A i \in Instructions, d \in Deposits :
        sentTo[d] = i
            ~> d \in recorded \/ OutOfWindow(d, i) \/ instrStatus[i] = "reconciled"

\* How often something has gone wrong: calls that failed, and instructions
\* with a dispatch that threw.
Mishaps == faults + Cardinality(thrown)

\* A rescan in which nothing goes wrong records every transfer it has
\* listed, the surplus of an instruction that is no longer polled among
\* them.  A dispatch that throws ends the scan before the transfers after
\* the one that reconciles; nothing polls for those any more, and it takes
\* another rescan to record them.
RescanCatchesUp ==
    \A w \in Workers, d \in Deposits, k \in 0..(MaxFaults + Cardinality(Instructions)) :
        fetch[w].asked /\ d \in fetch[w].left /\ Mishaps = k
            ~> d \in recorded \/ Mishaps > k
===============================================================================
